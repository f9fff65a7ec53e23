--------------------------- MODULE CommandPromises ---------------------------
(***************************************************************************)
(* What TmuxClient.execute() promises its callers: calls are answered in   *)
(* the order they were made, each promise settles once, a call that is     *)
(* refused never joins the line, and the end of the connection rejects     *)
(* whatever is still in line and refuses everything after it.              *)
(***************************************************************************)
EXTENDS Sequences

CONSTANT Calls

VARIABLES
  queue,   \* accepted calls, oldest first
  status,  \* the promise of each call
  over     \* the connection has ended

vars == <<queue, status, over>>

Init == queue = <<>> /\ over = FALSE /\ status = [c \in Calls |-> "idle"]

Accept(c) ==
  /\ ~over /\ status[c] = "idle"
  /\ queue' = Append(queue, c)
  /\ status' = [status EXCEPT ![c] = "waiting"]
  /\ UNCHANGED over

Refuse(c) ==
  /\ status[c] = "idle"
  /\ \E outcome \in {"refused", "invalid"} :
       status' = [status EXCEPT ![c] = outcome]
  /\ UNCHANGED <<queue, over>>

Answer ==
  /\ queue # <<>> /\ queue' = Tail(queue)
  /\ \E outcome \in {"ok", "failed", "protocol"} :
       status' = [status EXCEPT ![queue[1]] = outcome]
  /\ UNCHANGED over

End ==
  /\ ~over /\ over' = TRUE /\ queue' = <<>>
  /\ status' = [c \in Calls |->
       IF \E i \in DOMAIN queue : queue[i] = c THEN "lost" ELSE status[c]]

Next == (\E c \in Calls : Accept(c) \/ Refuse(c)) \/ Answer \/ End

Spec == Init /\ [][Next]_vars
=============================================================================
