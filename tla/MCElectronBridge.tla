--------------------------- MODULE MCElectronBridge ---------------------------
(* ElectronBridge for TLC. *)
EXTENDS ElectronBridge, TLC

Symmetry == Permutations(Renderers)
=============================================================================
