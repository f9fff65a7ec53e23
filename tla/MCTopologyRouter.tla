-------------------------- MODULE MCTopologyRouter --------------------------
(* A pane that moves and a floating pane that stays, so that a window can  *)
(* lose a pane and live on, or lose its last one and close.                *)
EXTENDS TopologyRouter

CONSTANTS p, f, w1, w2, w3, s1, s2

PlacesAtFirst ==
  {[x \in Panes |-> IF x = f THEN w1 ELSE at] : at \in {w1, w2, Nowhere}}

(* A sink on a window each.                                                *)
OneWindowEach == [s \in Sinks |-> IF s = s1 THEN {w1} ELSE {w2}]
=============================================================================
