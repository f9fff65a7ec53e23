------------------------ MODULE MCBackpressureLedger ------------------------
(* Two peers share the sum, and the watermarks leave room for a step into  *)
(* the band between them from either side.                                 *)
EXTENDS BackpressureLedger
=============================================================================
