------------------------------ MODULE WsClient ------------------------------
(***************************************************************************)
(* WebSocketTmuxClient (src/connectors/websocket/client.ts) with its       *)
(* Outbox, ReconnectController and Heartbeat: calls that are made, queued, *)
(* sent, answered and timed out while connections come and go, and the     *)
(* coverage a new server-side peer has to be given again.                  *)
(*                                                                         *)
(* The bridge is what the client can see of it: it takes frames in order,  *)
(* acts on them, and answers in any order.  Every frame, timer and socket  *)
(* event is a macrotask; handlers the application registers return without *)
(* calling the client.                                                     *)
(***************************************************************************)
EXTENDS Integers, SequencesExt

CONSTANTS
  MaxAttempts,    \* reconnect.maxAttempts; 0 turns reconnecting off
  MaxCalls,       \* bound: calls of the application
  MaxDrops,       \* bound: connections and attempts that end, however they do
  MaxRefusals,    \* bound: calls the bridge answers with an error
  OfflineDisable  \* coverage may be given up while there is no connection

ASSUME ClientAssumption ==
  /\ {MaxAttempts, MaxCalls, MaxDrops, MaxRefusals} \subseteq Nat
  /\ OfflineDisable \in BOOLEAN

VARIABLES
  status,    \* currentConnectionState
  sock,      \* ws: "none", "connecting", "open" (hello sent) or "closing"
  retry,     \* ReconnectController: [armed, attempts]
  calls,     \* every call, in the order of their ids; the Outbox's map is
             \* the pending ones
  enables,   \* crossSessionLayoutEnables
  flags,     \* of "userRequestedClose" and "draining", those that are set
  probe,     \* heartbeat: "off", "idle" or "sent"
  frames,    \* call frames on the wire, by call
  results,   \* the bridge's answers on the wire: [call, ok]
  peer,      \* the bridge: enables its peer for this connection holds
  silent,    \* the other end is gone and no close has come
  wanted,    \* enables the application was granted and has not given up
  drops, refusals, \* counters
  reported   \* the last welcome's replay failed, and onError was told

outboxVars == <<calls, enables, wanted>>
wireVars == <<frames, results, peer, silent>>
countVars == <<drops, refusals>>
vars == <<status, sock, retry, outboxVars, flags, probe, wireVars, countVars, reported>>

Ops == {"execute", "enable", "disable", "replay"}
Call == [op : Ops, outcome : {"pending", "ok", "rejected"}, sends : Nat]

TypeOK ==
  /\ status \in {"connecting", "ready", "reconnecting", "closed"}
  /\ sock \in {"none", "connecting", "open", "closing"}
  /\ retry \in [armed : BOOLEAN, attempts : 0..MaxAttempts]
  /\ calls \in Seq(Call)
  /\ {enables, peer, wanted} \subseteq 0..MaxCalls
  /\ flags \subseteq {"userRequestedClose", "draining"}
  /\ probe \in {"off", "idle", "sent"}
  /\ frames \in Seq(DOMAIN calls) /\ results \subseteq [call : DOMAIN calls, ok : BOOLEAN]
  /\ {silent, reported} \subseteq BOOLEAN /\ drops \in 0..MaxDrops
  /\ refusals \in 0..MaxRefusals

Init ==
  /\ status = "connecting" /\ sock = "none" /\ retry = [armed |-> FALSE, attempts |-> 0]
  /\ calls = <<>> /\ enables = 0 /\ flags = {} /\ probe = "off"
  /\ frames = <<>> /\ results = {} /\ peer = 0 /\ silent = FALSE
  /\ wanted = 0 /\ drops = 0 /\ refusals = 0 /\ reported = FALSE

Pending(i) == calls[i].outcome = "pending"

-----------------------------------------------------------------------------
(* Outbox: a call goes out when the connection is ready and its socket     *)
(* open; otherwise it waits for the next welcome.                          *)

MutSendable == sock = "open"
Sendable == status = "ready" /\ sock = "open"

Sent(cs, ids) == [i \in DOMAIN cs |-> IF i \in ids THEN [cs[i] EXCEPT !.sends = @ + 1] ELSE cs[i]]
New(op) == [op |-> op, outcome |-> "pending", sends |-> 0]

enqueue(op) ==
  LET id == Len(calls) + 1  cs == Append(calls, New(op)) IN
  IF Sendable THEN calls' = Sent(cs, {id}) /\ frames' = Append(frames, id)
  ELSE calls' = cs /\ UNCHANGED frames

MutFlushed(cs) == {i \in DOMAIN cs : cs[i].outcome \in {"pending", "rejected"} /\ cs[i].sends = 0}
Flushed(cs) == {i \in DOMAIN cs : cs[i].outcome = "pending" /\ cs[i].sends = 0}

(* The queue is a Map: its order is that of the ids.                       *)
InOrder(ids) ==
  [k \in 1..Cardinality(ids) |-> CHOOSE i \in ids : Cardinality({j \in ids : j <= i}) = k]

MutDrain(cs) ==
  [i \in DOMAIN cs |-> IF cs[i].outcome = "pending" /\ cs[i].sends > 0
                         THEN [cs[i] EXCEPT !.outcome = "rejected"] ELSE cs[i]]
drain(cs) ==
  [i \in DOMAIN cs |-> IF cs[i].outcome = "pending"
                         THEN [cs[i] EXCEPT !.outcome = "rejected"] ELSE cs[i]]

-----------------------------------------------------------------------------
(* ReconnectController *)

MutSchedule ==
  IF MaxAttempts = 0 THEN status' = "closed" /\ UNCHANGED retry
    ELSE /\ status' = "reconnecting"
         /\ retry' = IF retry.armed \/ retry.attempts >= MaxAttempts THEN retry
                     ELSE [armed |-> TRUE, attempts |-> retry.attempts + 1]
schedule ==
  IF MaxAttempts = 0 \/ (~retry.armed /\ retry.attempts >= MaxAttempts)
    THEN status' = "closed" /\ UNCHANGED retry
    ELSE /\ status' = "reconnecting"
         /\ retry' = IF retry.armed THEN retry
                     ELSE [armed |-> TRUE, attempts |-> retry.attempts + 1]

-----------------------------------------------------------------------------
(* finalizeConnection: what is connection-scoped goes, calls included; the *)
(* frames of the socket are lost to this client.                           *)

Teardown ==
  /\ sock' = "none" /\ probe' = "off"
  /\ frames' = <<>> /\ results' = {} /\ peer' = 0 /\ silent' = FALSE
  /\ calls' = drain(calls)

(* The outcome for a connection that the application has not closed.       *)
finalizeConnection ==
  /\ Teardown /\ flags' = flags \ {"draining"} /\ schedule
  /\ UNCHANGED <<enables, wanted>>

(* A factory that throws is a socket that fails at once.                   *)
openSocket ==
  /\ status' = "connecting" /\ sock' = "connecting"
  /\ UNCHANGED <<outboxVars, probe, wireVars, drops>>

Drop == drops < MaxDrops /\ drops' = drops + 1

connect ==
  /\ sock = "none" /\ ~retry.armed
  /\ flags' = flags \ {"userRequestedClose"}
  /\ retry' = [armed |-> FALSE, attempts |-> 0]
  /\ openSocket
  /\ UNCHANGED <<refusals, reported>>

Retry ==
  /\ retry.armed /\ retry' = [retry EXCEPT !.armed = FALSE]
  /\ openSocket
  /\ UNCHANGED <<flags, refusals, reported>>

close ==
  /\ flags' = {"userRequestedClose"}
  /\ retry' = [retry EXCEPT !.armed = FALSE]
  /\ IF status = "closed" THEN UNCHANGED <<status, sock, probe, wireVars, calls, drops>>
     ELSE status' = "closed" /\ Teardown /\ Drop
  /\ UNCHANGED <<enables, wanted, refusals, reported>>

-----------------------------------------------------------------------------
(* The socket.  An attempt may fail, and so may a socket that is open; the *)
(* close event of one that is closing comes in any case.                   *)

SocketOpens ==
  /\ sock = "connecting" /\ sock' = "open"
  /\ UNCHANGED <<status, retry, outboxVars, flags, probe, wireVars, countVars, reported>>

SocketCloses ==
  /\ sock # "none"
  /\ IF sock = "closing" \/ silent THEN UNCHANGED drops ELSE Drop
  /\ finalizeConnection
  /\ UNCHANGED <<refusals, reported>>

(* The peer vanishes without a close.                                      *)
GoesSilent ==
  /\ status = "ready" /\ sock = "open" /\ ~silent /\ Drop
  /\ silent' = TRUE
  /\ UNCHANGED <<status, sock, retry, outboxVars, flags, probe, frames, results,
                 peer, refusals, reported>>

(* onWelcome: the enables held are replayed before what was queued.        *)
MutReplays == 0
Replays == enables
onWelcome ==
  /\ sock = "open" /\ status = "connecting"
  /\ status' = "ready" /\ retry' = [armed |-> FALSE, attempts |-> 0] /\ probe' = "idle"
  /\ LET queued == Flushed(calls)
         replayed == Len(calls) + 1 .. Len(calls) + Replays
         all == calls \o [i \in 1..Replays |-> New("replay")]
     IN  /\ calls' = Sent(all, queued \cup replayed)
         /\ frames' = InOrder(replayed) \o InOrder(queued)
  /\ reported' = FALSE
  /\ UNCHANGED <<sock, enables, wanted, flags, results, peer, silent, countVars>>

onDraining ==
  /\ status = "ready" /\ sock = "open" /\ ~silent /\ flags' = flags \cup {"draining"}
  /\ UNCHANGED <<status, sock, retry, outboxVars, probe, wireVars, countVars, reported>>

-----------------------------------------------------------------------------
(* The application's calls *)

UserCalls == Cardinality({i \in DOMAIN calls : calls[i].op # "replay"})
call(op) ==
  IF status = "closed" \/ flags # {}
    THEN calls' = Append(calls, [New(op) EXCEPT !.outcome = "rejected"]) /\ UNCHANGED frames
    ELSE enqueue(op)

Execute ==
  /\ UserCalls < MaxCalls /\ call("execute")
  /\ UNCHANGED <<status, sock, retry, enables, wanted, flags, probe, results, peer,
                 silent, countVars, reported>>

enableCrossSessionLayoutChange ==
  /\ UserCalls < MaxCalls /\ call("enable")
  /\ UNCHANGED <<status, sock, retry, enables, wanted, flags, probe, results, peer,
                 silent, countVars, reported>>

(* The count follows the call, not its outcome.  An application gives up   *)
(* what it was granted, no more.                                           *)
disableCrossSessionLayoutChange ==
  /\ UserCalls < MaxCalls /\ wanted > 0 /\ (status = "ready" \/ OfflineDisable)
  /\ enables' = IF enables = 0 THEN 0 ELSE enables - 1
  /\ wanted' = wanted - 1
  /\ call("disable")
  /\ UNCHANGED <<status, sock, retry, flags, probe, results, peer, silent, countVars, reported>>

(* A replay that fails goes to onError.                                    *)
Report(i) == reported' = (reported \/ calls[i].op = "replay")

(* The timer of a call, sent or not.                                       *)
CallTimeout(i) ==
  /\ Pending(i) /\ calls' = [calls EXCEPT ![i].outcome = "rejected"]
  /\ Report(i)
  /\ UNCHANGED <<status, sock, retry, enables, wanted, flags, probe, wireVars, countVars>>

(* settle, and the continuation of the enable it answers.                  *)
MutGranted(op) == op \in {"enable", "replay"}
Granted(op) == op = "enable"
onResult(r) ==
  /\ r \in results /\ results' = results \ {r} /\ ~silent
  /\ LET i == r.call  granted == Pending(i) /\ r.ok /\ Granted(calls[i].op) IN
       /\ calls' = IF Pending(i)
                     THEN [calls EXCEPT ![i].outcome = IF r.ok THEN "ok" ELSE "rejected"]
                     ELSE calls
       /\ enables' = IF granted THEN enables + 1 ELSE enables
       /\ wanted' = IF Pending(i) /\ r.ok /\ calls[i].op = "enable" THEN wanted + 1 ELSE wanted
       /\ IF Pending(i) /\ ~r.ok THEN Report(i) ELSE UNCHANGED reported
  /\ UNCHANGED <<status, sock, retry, flags, probe, frames, peer, silent, countVars>>

-----------------------------------------------------------------------------
(* Heartbeat *)

Tick ==
  /\ probe = "idle" /\ probe' = "sent"
  /\ UNCHANGED <<status, sock, retry, outboxVars, flags, wireVars, countVars, reported>>
onPong ==
  /\ probe = "sent" /\ sock = "open" /\ ~silent /\ probe' = "idle"
  /\ UNCHANGED <<status, sock, retry, outboxVars, flags, wireVars, countVars, reported>>
(* Late or lost, the socket is closed, and its close event ends it.        *)
PongDeadline ==
  /\ probe = "sent" /\ probe' = "idle" /\ sock' = "closing"
  /\ IF silent \/ sock = "closing" THEN UNCHANGED drops ELSE Drop
  /\ UNCHANGED <<status, retry, outboxVars, flags, wireVars, refusals, reported>>

-----------------------------------------------------------------------------
(* The bridge (external): the peer's coverage counts what was granted, and *)
(* disable is a no-op for a peer that holds none.                          *)

BridgeTakes ==
  /\ frames # <<>> /\ ~silent /\ frames' = Tail(frames)
  /\ LET i == Head(frames)  op == calls[i].op IN
       \/ /\ results' = results \cup {[call |-> i, ok |-> TRUE]}
          /\ peer' = IF op \in {"enable", "replay"} THEN peer + 1
                     ELSE IF op = "disable" /\ peer > 0 THEN peer - 1
                     ELSE peer
          /\ UNCHANGED refusals
       \/ /\ refusals < MaxRefusals /\ refusals' = refusals + 1
          /\ results' = results \cup {[call |-> i, ok |-> FALSE]}
          /\ peer' = IF op = "disable" /\ peer > 0 THEN peer - 1 ELSE peer
  /\ UNCHANGED <<status, sock, retry, outboxVars, flags, probe, silent, drops, reported>>

-----------------------------------------------------------------------------

Next ==
  \/ connect
  \/ Retry
  \/ close
  \/ SocketOpens
  \/ SocketCloses
  \/ GoesSilent
  \/ onWelcome
  \/ onDraining
  \/ Execute
  \/ enableCrossSessionLayoutChange
  \/ disableCrossSessionLayoutChange
  \/ \E i \in DOMAIN calls : CallTimeout(i)
  \/ \E r \in results : onResult(r)
  \/ Tick
  \/ onPong
  \/ PongDeadline
  \/ BridgeTakes

Spec == Init /\ [][Next]_vars

(* Timers fire; a socket that is opened opens or fails, and one that is    *)
(* closed says so; a bridge that said nothing yet welcomes or closes.  The *)
(* client has no timer of its own for the last two.                        *)
Fairness ==
  /\ WF_vars(Retry) /\ WF_vars(Tick) /\ WF_vars(PongDeadline)
  /\ WF_vars(SocketOpens) /\ WF_vars(onWelcome)
  /\ WF_vars(sock = "closing" /\ SocketCloses)
FairSpec == Spec /\ Fairness

-----------------------------------------------------------------------------
(* Properties *)

Settled == frames = <<>> /\ results = {} /\ \A i \in DOMAIN calls : ~Pending(i)

(* Coverage survives reconnects: whatever was lost with a connection, once *)
(* everything sent is answered an application that holds an enable has     *)
(* one on the peer of the connection that is ready, or was told it has not.*)
CoverageSurvives ==
  status = "ready" /\ Settled /\ wanted > 0 => peer > 0 \/ reported

(* A call is sent once, on a connection that was welcomed, while its       *)
(* caller waits: none is sent again after a reconnect, and none that timed *)
(* out or was rejected while it was queued.                                *)
Sends(i) == IF i \in DOMAIN calls THEN calls[i].sends ELSE 0
SentOnceWhileWaiting ==
  [][\A i \in DOMAIN calls' : calls'[i].sends # Sends(i) =>
       /\ Sends(i) = 0 /\ calls'[i].sends = 1 /\ status' = "ready"
       /\ i \in DOMAIN calls => Pending(i)]_vars

(* Nothing outlives a client that is closed, by close() or by giving up:   *)
(* no caller waits, no retry is armed, no socket or heartbeat is left; and *)
(* until then the counts stay within what was granted.                     *)
ClosedIsClean ==
  /\ TypeOK
  /\ status = "closed" => /\ \A i \in DOMAIN calls : ~Pending(i)
                          /\ ~retry.armed /\ sock = "none" /\ probe = "off"

(* An outage ends: the client gets ready again or gives up, and a peer     *)
(* that went silent is noticed.                                            *)
Recovers ==
  (silent \/ retry.armed \/ (sock # "none" /\ status # "ready"))
    ~> (status = "closed" \/ (status = "ready" /\ ~silent))
=============================================================================
