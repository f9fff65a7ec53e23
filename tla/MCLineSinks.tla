---------------------------- MODULE MCLineSinks ----------------------------
EXTENDS LineSinks

CONSTANTS p, f, w1, w2, s1, s2, s3

(* Both panes are in one window at first.                                  *)
Together == {[x \in Panes |-> w1]}

(* A sink on a window, one on the session and one on the server.           *)
EveryKind ==
  [s \in Sinks |-> CASE s = s1 -> {w1} [] s = s2 -> {w1, w2}
                     [] s = s3 -> Windows \cup {Nowhere}]
=============================================================================
