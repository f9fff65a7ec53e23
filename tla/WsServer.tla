------------------------------ MODULE WsServer ------------------------------
(***************************************************************************)
(* One Connection of the WebSocket bridge                                  *)
(* (src/connectors/websocket/server.ts) with its Handshake, Heartbeat,     *)
(* CallPump and RateLimiter, and the bridge's shutdown.  Connections of a  *)
(* bridge share nothing but `draining', so one is enough.                  *)
(*                                                                         *)
(* A handler runs up to its first `await'; the continuation is an action   *)
(* of its own, and anything may happen before it: frames, a close, a       *)
(* shutdown, the death of the tmux client.  Every handler is a function of *)
(* the connection's record, in the order of the code's calls.              *)
(***************************************************************************)
EXTENDS Integers, Sequences, FiniteSets

CONSTANTS
  Calls,        \* the calls the peer makes, once each
  Ids,
  IdOf,         \* the id of each call; a peer may use an id again
  MaxInflight,
  HeartbeatOn,  \* heartbeatIntervalMs # 0
  High,         \* outputHighWatermark, in messages; the low one is under one
  None

Codes == {"BRIDGE_PROTOCOL_ERROR", "BRIDGE_AUTH_DENIED", "BRIDGE_INTERNAL", "BRIDGE_CLOSED"}

ASSUME ServerAssumption ==
  /\ IsFiniteSet(Calls) /\ IdOf \in [Calls -> Ids] /\ MaxInflight \in Nat \ {0}
  /\ HeartbeatOn \in BOOLEAN /\ High \in Nat \ {0}
  /\ None \notin Calls \cup Codes

VARIABLES
  conn,      \* the fields of Connection
  hello,     \* where onHello is suspended: in authenticate() or createClient()
  stage,     \* where each onCall is
  timers,    \* calls whose request timeout is armed
  wire,      \* the WebSocket: "open", "closing" or "gone"
  buffered,  \* bufferedAmount is above the low watermark
  upstream,  \* the tmux client has not closed
  draining,  \* the bridge is shutting down
  disposed   \* calls of disposeClient; createClient answers at most once

serverVars == <<conn, hello, stage, timers, wire, buffered, upstream, draining, disposed>>

States == {"new", "rejected", "pending-hello", "handshaking", "running", "draining", "closed"}
Resources == {"client", "bridge", "events", "bytes"}

(* `probe' is the heartbeat: a ping that no pong can answer is "refused".  *)
(* `told' is every fatal frame the peer was sent, `report' the error of    *)
(* the connection-closed event.                                            *)
Connection ==
  [state : States, fatal : Codes \cup {None}, told : Seq(Codes),
   report : Codes \cup {None}, helloTimer : BOOLEAN,
   probe : {"off", "idle", "sent", "refused"}, held : SUBSET Resources,
   inflight : [Ids -> Calls \cup {None}], replies : [Ids -> Nat],
   unflushed : 0..High, paused : BOOLEAN]

ServerTypeOK ==
  /\ conn \in Connection
  /\ hello \in {"none", "authenticating", "creating"}
  /\ stage \in [Calls -> {"unsent", "authorizing", "dispatched", "done"}]
  /\ timers \subseteq Calls
  /\ wire \in {"open", "closing", "gone"}
  /\ {buffered, upstream, draining} \subseteq BOOLEAN
  /\ disposed \in Nat

ServerInit ==
  /\ conn = [state |-> "new", fatal |-> None, told |-> <<>>, report |-> None,
             helloTimer |-> FALSE, probe |-> "off", held |-> {},
             inflight |-> [i \in Ids |-> None], replies |-> [i \in Ids |-> 0],
             unflushed |-> 0, paused |-> FALSE]
  /\ hello = "none" /\ stage = [c \in Calls |-> "unsent"] /\ timers = {}
  /\ wire = "open" /\ buffered = FALSE /\ upstream = TRUE /\ draining = FALSE
  /\ disposed = 0

Opened(c) == c.state \in {"running", "draining"}
Attended == conn.state \notin {"new", "rejected", "closed"}

-----------------------------------------------------------------------------
(* Sending.  After every write the OS buffer is sampled, and a drained one *)
(* clears what this peer has outstanding, which resumes its panes.         *)

maybeFlushBuffered(c) ==
  IF Opened(c) /\ ~buffered THEN [c EXCEPT !.unflushed = 0, !.paused = FALSE] ELSE c
Send(c) == IF wire = "open" THEN maybeFlushBuffered(c) ELSE c

Reply(c, id) ==
  IF wire = "open" THEN Send([c EXCEPT !.replies[id] = @ + 1]) ELSE c

StartHeartbeat(c) ==
  IF c.probe = "off" /\ HeartbeatOn THEN [c EXCEPT !.probe = "idle"] ELSE c

(* Write-once: what the peer was told stands.                              *)
MutSendFatalAndClose(c, code) ==
  StartHeartbeat([c EXCEPT !.fatal = code,
                           !.told = IF wire = "open" THEN Append(@, code) ELSE @])
sendFatalAndClose(c, code) ==
  IF c.fatal # None THEN c
  ELSE StartHeartbeat([c EXCEPT !.fatal = code,
                                !.told = IF wire = "open" THEN Append(@, code) ELSE @])

(* ws.close() of a socket that is open.                                    *)
Closing == IF wire = "open" THEN "closing" ELSE wire

(* sendFatalAndClose as the last thing of a step that begins with `c'.     *)
Fatal(c, code) == conn' = sendFatalAndClose(c, code) /\ wire' = Closing

-----------------------------------------------------------------------------
(* CallPump *)

isFull(c) == Cardinality({i \in Ids : c.inflight[i] # None}) >= MaxInflight

(* An entry that is there already is replaced; its timer stays armed.      *)
Track(call) ==
  /\ conn' = [conn EXCEPT !.inflight[IdOf[call]] = call]
  /\ timers' = timers \cup {call}

Forget(c, id) == [c EXCEPT !.inflight[id] = None]

-----------------------------------------------------------------------------
(* finalize: the single cleanup path.  The drained calls are answered only *)
(* when the socket still takes frames.                                     *)

Finalize(c, reason) ==
  [c EXCEPT !.state = "closed", !.helloTimer = FALSE, !.probe = "off",
            !.report = IF c.fatal = None THEN reason ELSE c.fatal,
            !.inflight = [i \in Ids |-> None],
            !.held = IF Opened(c) THEN {} ELSE @,
            !.paused = FALSE, !.unflushed = 0]
Drained(c, answered) ==
  [c EXCEPT !.replies = [i \in Ids |-> IF answered /\ c.inflight[i] # None
                                         THEN c.replies[i] + 1 ELSE c.replies[i]]]
InflightTimers(c) == {call \in Calls : c.inflight[IdOf[call]] = call}

finalize(reason, answered) ==
  /\ conn' = Finalize(Drained(conn, answered), reason)
  /\ timers' = timers \ InflightTimers(conn)
  /\ disposed' = IF Opened(conn) THEN disposed + 1 ELSE disposed

terminateWith(reason) == wire' = "gone" /\ finalize(reason, FALSE)

-----------------------------------------------------------------------------
(* The bridge *)

handleConnection ==
  /\ conn.state = "new"
  /\ IF draining
       THEN /\ conn' = [conn EXCEPT !.state = "rejected", !.told = Append(@, "BRIDGE_CLOSED")]
            /\ wire' = "closing"
       ELSE conn' = [conn EXCEPT !.state = "pending-hello", !.helloTimer = TRUE] /\ UNCHANGED wire
  /\ UNCHANGED <<hello, stage, timers, buffered, upstream, draining, disposed>>

(* Only a connection that is running is told to drain.                     *)
shutdown ==
  /\ ~draining /\ draining' = TRUE
  /\ conn' = IF conn.state = "running" THEN Send([conn EXCEPT !.state = "draining"]) ELSE conn
  /\ UNCHANGED <<hello, stage, timers, wire, buffered, upstream, disposed>>

(* The drain bound passes before the connection closes.                    *)
terminate ==
  /\ draining /\ Attended
  /\ terminateWith("BRIDGE_CLOSED")
  /\ UNCHANGED <<hello, stage, buffered, upstream, draining>>

-----------------------------------------------------------------------------
(* The socket's events *)

CloseEvent ==
  /\ Attended
  /\ wire' = "gone" /\ finalize(None, FALSE)
  /\ UNCHANGED <<hello, stage, buffered, upstream, draining>>

(* An implementation may report an error with the socket still open.       *)
ErrorEvent ==
  /\ Attended
  /\ \/ wire' = "gone" /\ finalize("BRIDGE_INTERNAL", FALSE)
     \/ UNCHANGED wire /\ finalize("BRIDGE_INTERNAL", wire = "open")
  /\ UNCHANGED <<hello, stage, buffered, upstream, draining>>

(* A frame is read until the peer's close frame is.                        *)
Frame == Attended /\ wire # "gone"

(* A binary frame, or one that does not parse.                             *)
BadFrame ==
  /\ Frame /\ Fatal(conn, "BRIDGE_PROTOCOL_ERROR")
  /\ UNCHANGED <<hello, stage, timers, buffered, upstream, draining, disposed>>

PreHello == conn.state \in {"pending-hello", "handshaking"}

Bye ==
  /\ Frame
  /\ IF PreHello THEN Fatal(conn, "BRIDGE_PROTOCOL_ERROR")
     ELSE wire' = Closing /\ UNCHANGED conn
  /\ UNCHANGED <<hello, stage, timers, buffered, upstream, draining, disposed>>

Ping ==
  /\ Frame
  /\ IF PreHello THEN Fatal(conn, "BRIDGE_PROTOCOL_ERROR")
     ELSE conn' = Send(conn) /\ UNCHANGED wire
  /\ UNCHANGED <<hello, stage, timers, buffered, upstream, draining, disposed>>

HelloTimeout ==
  /\ conn.helloTimer
  /\ Fatal([conn EXCEPT !.helloTimer = FALSE], "BRIDGE_PROTOCOL_ERROR")
  /\ UNCHANGED <<hello, stage, timers, buffered, upstream, draining, disposed>>

-----------------------------------------------------------------------------
(* onHello *)

MutIsTearingDown == conn.fatal # None
isTearingDown == conn.state = "closed" \/ conn.fatal # None

onHello ==
  /\ Frame
  /\ IF conn.state = "pending-hello"
       THEN /\ conn' = [conn EXCEPT !.state = "handshaking", !.helloTimer = FALSE]
            /\ hello' = "authenticating" /\ UNCHANGED wire
       ELSE Fatal(conn, "BRIDGE_PROTOCOL_ERROR") /\ UNCHANGED hello
  /\ UNCHANGED <<stage, timers, buffered, upstream, draining, disposed>>

(* A pending fatal does not stop a peer that is let in from getting its    *)
(* client made.                                                            *)
Authenticated ==
  /\ hello = "authenticating"
  /\ \/ hello' = (IF conn.state = "closed" THEN "none" ELSE "creating")
        /\ UNCHANGED <<conn, wire>>
     \/ /\ hello' = "none"
        /\ IF isTearingDown THEN UNCHANGED <<conn, wire>>
           ELSE Fatal(conn, "BRIDGE_AUTH_DENIED")
  /\ UNCHANGED <<stage, timers, buffered, upstream, draining, disposed>>

CreateClientFailed ==
  /\ hello = "creating" /\ hello' = "none"
  /\ IF isTearingDown THEN UNCHANGED <<conn, wire>> ELSE Fatal(conn, "BRIDGE_INTERNAL")
  /\ UNCHANGED <<stage, timers, buffered, upstream, draining, disposed>>

(* How far onHello gets: it acquires a prefix of the resources, and        *)
(* unwinds that prefix unless all of it was had from a live client.        *)
Unwind(acquired) ==
  disposed' = IF "client" \in acquired THEN disposed + 1 ELSE disposed
Acquisitions == {{"client"}, {"client", "bridge"}, {"client", "bridge", "events"}}

MutClosedAlready == FALSE
ClosedAlready == ~upstream

ClientCreated ==
  /\ hello = "creating" /\ hello' = "none"
  /\ \/ isTearingDown /\ Unwind({"client"}) /\ UNCHANGED <<conn, wire>>
     \/ /\ ~isTearingDown
        /\ \E acquired \in Acquisitions : Unwind(acquired)
        /\ Fatal(conn, "BRIDGE_INTERNAL")
     \/ /\ ~isTearingDown /\ ClosedAlready
        /\ Unwind(Resources) /\ Fatal(conn, "BRIDGE_CLOSED")
     \/ /\ ~isTearingDown /\ ~ClosedAlready
        /\ conn' = StartHeartbeat(Send([conn EXCEPT !.state = "running", !.held = Resources]))
        /\ UNCHANGED <<wire, disposed>>
  /\ UNCHANGED <<stage, timers, buffered, upstream, draining>>

-----------------------------------------------------------------------------
(* onCall *)

routeCall(call) ==
  /\ Frame /\ stage[call] = "unsent"
  /\ \/ PreHello /\ Fatal(conn, "BRIDGE_PROTOCOL_ERROR") /\ stage' = [stage EXCEPT ![call] = "done"]
     \/ /\ conn.state = "draining" \/ (conn.state = "running" /\ isFull(conn))
        /\ conn' = Reply(conn, IdOf[call])
        /\ stage' = [stage EXCEPT ![call] = "done"] /\ UNCHANGED wire
     \/ /\ conn.state = "running" /\ ~isFull(conn)
        /\ \/ /\ conn' = Reply(conn, IdOf[call])  \* the rate limit
              /\ stage' = [stage EXCEPT ![call] = "done"]
           \/ stage' = [stage EXCEPT ![call] = "authorizing"] /\ UNCHANGED conn
        /\ UNCHANGED wire
  /\ UNCHANGED <<hello, timers, buffered, upstream, draining, disposed>>

(* Denied, or not a request; else tracked and dispatched, whatever became  *)
(* of the connection in between.                                           *)
Authorized(call) ==
  /\ stage[call] = "authorizing"
  /\ \/ /\ conn' = Reply(conn, IdOf[call])
        /\ stage' = [stage EXCEPT ![call] = "done"] /\ UNCHANGED timers
     \/ Track(call) /\ stage' = [stage EXCEPT ![call] = "dispatched"]
  /\ UNCHANGED <<hello, wire, buffered, upstream, draining, disposed>>

(* complete(): without an entry the timeout, or a finalize, has replied.   *)
MutComplete(c, id) == Reply(Forget(c, id), id)
Complete(c, id) == IF c.inflight[id] = None THEN c ELSE Reply(Forget(c, id), id)
Outcome(call) ==
  /\ stage[call] = "dispatched" /\ stage' = [stage EXCEPT ![call] = "done"]
  /\ conn' = Complete(conn, IdOf[call])
  /\ timers' = timers \ {conn.inflight[IdOf[call]]}
  /\ UNCHANGED <<hello, wire, buffered, upstream, draining, disposed>>

RequestTimeout(call) ==
  /\ call \in timers /\ timers' = timers \ {call}
  /\ conn' = Complete(conn, IdOf[call])
  /\ UNCHANGED <<hello, stage, wire, buffered, upstream, draining, disposed>>

-----------------------------------------------------------------------------
(* Heartbeat *)

MutOnTick(c) == c
OnTick(c) == maybeFlushBuffered(c)
HeartbeatTick ==
  /\ conn.probe # "off"
  /\ LET c == OnTick(conn) IN
       conn' = IF c.probe # "idle" THEN c
               ELSE [c EXCEPT !.probe = IF wire = "open" THEN "sent" ELSE "refused"]
  /\ UNCHANGED <<hello, stage, timers, wire, buffered, upstream, draining, disposed>>

Pong ==
  /\ conn.probe = "sent" /\ wire # "gone" /\ conn' = [conn EXCEPT !.probe = "idle"]
  /\ UNCHANGED <<hello, stage, timers, wire, buffered, upstream, draining, disposed>>

(* The first deadline missed starts a close, the next one ends it.         *)
onPongDeadline ==
  /\ conn.probe \in {"sent", "refused"}
  /\ IF conn.fatal = None
       THEN /\ Fatal([conn EXCEPT !.probe = "idle"], "BRIDGE_CLOSED")
            /\ UNCHANGED <<timers, disposed>>
       ELSE terminateWith(conn.fatal)
  /\ UNCHANGED <<hello, stage, buffered, upstream, draining>>

-----------------------------------------------------------------------------
(* The tmux client.  Its events reach a connection that is opened.         *)

UpstreamClosed ==
  /\ upstream /\ upstream' = FALSE
  /\ IF "events" \in conn.held THEN Fatal(conn, "BRIDGE_CLOSED") ELSE UNCHANGED <<conn, wire>>
  /\ UNCHANGED <<hello, stage, timers, buffered, draining, disposed>>

(* The pane is paused when this peer's bytes reach the watermark; tmux     *)
(* then writes no more of it.                                              *)
MutAccount(c) == [c EXCEPT !.unflushed = @ + 1, !.paused = c.unflushed > High]
Account(c) == [c EXCEPT !.unflushed = @ + 1, !.paused = c.unflushed + 1 >= High]
onByteOutput ==
  /\ "bytes" \in conn.held /\ Opened(conn) /\ wire = "open" /\ upstream /\ ~conn.paused
  /\ conn' = Send(Account(conn))
  /\ UNCHANGED <<hello, stage, timers, wire, buffered, upstream, draining, disposed>>

onWireEvent ==
  /\ "events" \in conn.held /\ Opened(conn) /\ wire = "open" /\ upstream
  /\ conn' = Send(conn)
  /\ UNCHANGED <<hello, stage, timers, wire, buffered, upstream, draining, disposed>>

(* The OS: what was sent stays in the buffer, or drains.                   *)
Congested ==
  /\ Opened(conn) /\ wire = "open" /\ ~buffered /\ buffered' = TRUE
  /\ UNCHANGED <<conn, hello, stage, timers, wire, upstream, draining, disposed>>
BufferFlushed ==
  /\ buffered /\ buffered' = FALSE
  /\ UNCHANGED <<conn, hello, stage, timers, wire, upstream, draining, disposed>>

-----------------------------------------------------------------------------

ServerNext ==
  \/ handleConnection
  \/ shutdown
  \/ terminate
  \/ CloseEvent
  \/ ErrorEvent
  \/ BadFrame
  \/ Bye
  \/ Ping
  \/ HelloTimeout
  \/ onHello
  \/ Authenticated
  \/ CreateClientFailed
  \/ ClientCreated
  \/ \E c \in Calls : routeCall(c)
  \/ \E c \in Calls : Authorized(c)
  \/ \E c \in Calls : Outcome(c)
  \/ \E c \in Calls : RequestTimeout(c)
  \/ HeartbeatTick
  \/ Pong
  \/ onPongDeadline
  \/ UpstreamClosed
  \/ onByteOutput
  \/ onWireEvent
  \/ Congested
  \/ BufferFlushed

ServerSpec == ServerInit /\ [][ServerNext]_serverVars

(* Timers fire, and the transport drains what the peer reads.  Nothing is  *)
(* assumed of the peer, of tmux, or of the hooks the application supplies. *)
ServerFairness == WF_serverVars(HeartbeatTick) /\ WF_serverVars(onPongDeadline) /\ WF_serverVars(BufferFlushed)
  /\ \A c \in Calls : WF_serverVars(RequestTimeout(c))
ServerFairSpec == ServerSpec /\ ServerFairness

-----------------------------------------------------------------------------
(* Properties *)

Received(id) == {c \in Calls : IdOf[c] = id /\ stage[c] # "unsent"}

(* The race of an answer, a timeout, a denial, a finalize and a second use *)
(* of the same id never answers a call twice.                              *)
RepliedOnce == \A id \in Ids : conn.replies[id] <= Cardinality(Received(id))

(* Whatever closed the connection, and wherever the handshake and the      *)
(* calls were then, nothing it acquired outlives it: no listener, sink or  *)
(* bridge, no timer but those of calls that are tracked, and a client that *)
(* was made has been given back exactly once.  The state is well formed.   *)
ReleasedOnClose ==
  /\ ServerTypeOK
  /\ disposed + (IF "client" \in conn.held THEN 1 ELSE 0) <= 1
  /\ conn.held # {} => Opened(conn)
  /\ conn.state = "closed" => conn.probe = "off" /\ ~conn.helloTimer

(* The error the peer was told of is the one the connection-closed event   *)
(* reports, and the peer is told of one at most, whatever went wrong       *)
(* first, second, or in the handshake that was still suspended.            *)
FirstFatalReported ==
  /\ Len(conn.told) <= 1
  /\ conn.told # <<>> /\ conn.state = "closed" => conn.report = conn.told[1]

(* A connection whose socket is closing, whose peer is gone without a word *)
(* or whose tmux has died does not stay: a peer that answers nothing is    *)
(* terminated within two deadlines, before hello too.                      *)
DeadConnectionsClose ==
  (Attended /\ (wire # "open" \/ (Opened(conn) /\ ~upstream))) ~> conn.state = "closed"

(* A pane held back because of this peer flows again once the peer's       *)
(* buffer drains, although nothing else is sent that would sample it.      *)
LaggingPeerResumes == (conn.paused /\ ~buffered) ~> (~conn.paused \/ buffered)

(* shutdown(): "Every live connection is told to drain": none is open      *)
(* without having been told.                                               *)
EveryConnectionDrains == draining => conn.state # "running"
=============================================================================
