--------------------------- MODULE WebSocketProofs ---------------------------
(***************************************************************************)
(* Theorems about the two ends of a WebSocket, each by itself.             *)
(*                                                                         *)
(* WsServer, for any calls, ids and limits: what a connection acquired is  *)
(* released, the error it reports is the one the peer was told, and no     *)
(* call is answered twice.  Every handler is a function of the             *)
(* connection's record, so the invariant is mostly one of that record      *)
(* (Shape), and the lemmas say what the functions do to it.                *)
(*                                                                         *)
(* WsClient, for any number of attempts, calls, drops and refusals: a      *)
(* closed client has nothing left, a call is sent once and to a caller     *)
(* that waits, and coverage survives reconnects as long as it is given up  *)
(* on a connection only.                                                   *)
(***************************************************************************)
EXTENDS WsServer, WsClient, FiniteSetTheorems, SequenceTheorems, TLAPS

-----------------------------------------------------------------------------
(* THE SERVER: a connection *)

(* What is held is all or nothing, timers and the heartbeat belong to a    *)
(* connection that is attended, and `told' and `report' follow `fatal'.    *)
Shape(c) ==
  /\ c \in Connection
  /\ ~c.paused => c.unflushed < High
  /\ c.held = IF Opened(c) THEN Resources ELSE {}
  /\ c.helloTimer => c.state = "pending-hello"
  /\ c.probe # "off" => c.state \notin {"new", "rejected", "closed"}
  /\ Len(c.told) <= 1
  /\ c.state = "new" => c.fatal = None /\ c.told = <<>>
  /\ c.told # <<>> /\ c.state # "rejected" => c.fatal = c.told[1] /\ c.fatal # None
  /\ c.state = "closed" /\ c.fatal # None => c.report = c.fatal

(* A handshake that is suspended has no client yet, and neither has a      *)
(* connection before or after it; one that is opened keeps its client.     *)
Handshake ==
  /\ hello # "none" => conn.state \in {"handshaking", "closed"} /\ disposed = 0
  /\ conn.state \notin {"handshaking", "closed"} => disposed = 0
  /\ disposed <= 1

WInv == ServerTypeOK /\ Shape(conn) /\ Handshake

(* The parts of the record that a write leaves alone.                      *)
Same(c, d) ==
  /\ c.state = d.state /\ c.fatal = d.fatal /\ c.told = d.told /\ c.report = d.report
  /\ c.helloTimer = d.helloTimer /\ c.probe = d.probe /\ c.held = d.held

Unattended == {"new", "rejected", "closed"}

-----------------------------------------------------------------------------
(* A write keeps the shape: it may clear the bytes outstanding.            *)

LEMMA ShapeOfSame ==
  ASSUME NEW c, NEW d \in Connection, Shape(c), Same(d, c),
         ~d.paused => d.unflushed < High
  PROVE  Shape(d)
BY DEF Shape, Same, Opened

LEMMA FlushKeeps ==
  ASSUME NEW c, Shape(c)
  PROVE  Shape(maybeFlushBuffered(c)) /\ Same(maybeFlushBuffered(c), c)
<1> DEFINE d == [c EXCEPT !.unflushed = 0, !.paused = FALSE]
<1>1. c \in Connection /\ Same(c, c) BY DEF Shape, Same
<1>2. 0 \in 0..High /\ 0 < High BY ServerAssumption
<1>3. d \in Connection BY <1>1, <1>2 DEF Connection
<1>4. Same(d, c) BY <1>1 DEF Same, Connection
<1>5. d.unflushed = 0 BY <1>1 DEF Connection
<1>a. ~d.paused => d.unflushed < High BY <1>2, <1>5
<1> HIDE DEF d
<1>6. Shape(d) BY <1>3, <1>4, <1>a, ShapeOfSame
<1> USE DEF d
<1> QED BY <1>1, <1>4, <1>6 DEF maybeFlushBuffered

LEMMA SendKeeps ==
  ASSUME NEW c, Shape(c)
  PROVE  Shape(Send(c)) /\ Same(Send(c), c)
<1>1. Same(c, c) BY DEF Same
<1> QED BY <1>1, FlushKeeps DEF Send

LEMMA ReplyKeeps ==
  ASSUME NEW c, Shape(c), NEW id \in Ids
  PROVE  Shape(Reply(c, id)) /\ Same(Reply(c, id), c)
<1> DEFINE d == [c EXCEPT !.replies[id] = @ + 1]
<1>1. c \in Connection /\ Same(c, c) BY DEF Shape, Same
<1>2. [c.replies EXCEPT ![id] = @ + 1] \in [Ids -> Nat] BY <1>1 DEF Connection
<1>3. d \in Connection BY <1>1, <1>2 DEF Connection
<1>4. Same(d, c) BY <1>1 DEF Same, Connection
<1>5. d.paused = c.paused /\ d.unflushed = c.unflushed BY <1>1 DEF Connection
<1>a. ~d.paused => d.unflushed < High BY <1>5 DEF Shape
<1> HIDE DEF d
<1>6. Shape(d) BY <1>3, <1>4, <1>a, ShapeOfSame
<1> USE DEF d
<1>7. Shape(Send(d)) /\ Same(Send(d), d) BY <1>6, SendKeeps
<1>8. Same(Send(d), c) BY <1>4, <1>7 DEF Same
<1> QED BY <1>1, <1>7, <1>8 DEF Reply

LEMMA CompleteKeeps ==
  ASSUME NEW c, Shape(c), NEW id \in Ids
  PROVE  Shape(Complete(c, id)) /\ Same(Complete(c, id), c)
<1> DEFINE d == Forget(c, id)
<1>1. c \in Connection /\ Same(c, c) BY DEF Shape, Same
<1>2. [c.inflight EXCEPT ![id] = None] \in [Ids -> Calls \cup {None}] BY <1>1 DEF Connection
<1>3. d \in Connection BY <1>1, <1>2 DEF Connection, Forget
<1>4. Same(d, c) BY <1>1 DEF Same, Connection, Forget
<1>5. d.paused = c.paused /\ d.unflushed = c.unflushed BY <1>1 DEF Connection, Forget
<1>a. ~d.paused => d.unflushed < High BY <1>5 DEF Shape
<1> HIDE DEF d
<1>6. Shape(d) BY <1>3, <1>4, <1>a, ShapeOfSame
<1> USE DEF d
<1>7. Shape(Reply(d, id)) /\ Same(Reply(d, id), d) BY <1>6, ReplyKeeps
<1>8. Same(Reply(d, id), c) BY <1>4, <1>7 DEF Same
<1> QED BY <1>1, <1>7, <1>8 DEF Complete

-----------------------------------------------------------------------------
(* A fatal error and the end *)

LEMMA FatalKeeps ==
  ASSUME NEW c, Shape(c), c.state \notin Unattended, NEW code \in Codes
  PROVE  /\ Shape(sendFatalAndClose(c, code))
         /\ sendFatalAndClose(c, code).state = c.state
<1> DEFINE told == IF wire = "open" THEN Append(c.told, code) ELSE c.told
           e == [c EXCEPT !.fatal = code, !.told = told]
<1>1. c \in Connection BY DEF Shape
<1>2. told \in Seq(Codes) BY <1>1 DEF Connection
<1>3. e \in Connection BY <1>1, <1>2 DEF Connection
<1>4. /\ e.state = c.state /\ e.held = c.held /\ e.helloTimer = c.helloTimer
      /\ e.probe = c.probe /\ e.paused = c.paused /\ e.unflushed = c.unflushed
      /\ e.fatal = code /\ e.told = told /\ code # None
  BY <1>1, ServerAssumption DEF Connection
<1>5. CASE c.fatal = None
  <2>1. c.told = <<>> BY <1>5 DEF Shape, Unattended
  <2>2. Len(told) <= 1 /\ (told # <<>> => told[1] = code) BY <2>1
  <2>3. Shape(e) BY <1>3, <1>4, <2>2 DEF Shape, Opened, Unattended
  <2> DEFINE g == [e EXCEPT !.probe = "idle"]
  <2>4. g \in Connection BY <1>3 DEF Connection
  <2>5. /\ g.state = e.state /\ g.held = e.held /\ g.helloTimer = e.helloTimer
        /\ g.paused = e.paused /\ g.unflushed = e.unflushed
        /\ g.fatal = e.fatal /\ g.told = e.told /\ g.report = e.report
    BY <1>3 DEF Connection
  <2>6. Shape(g) BY <1>4, <2>3, <2>4, <2>5 DEF Shape, Opened, Unattended
  <2> QED BY <1>4, <1>5, <2>3, <2>5, <2>6 DEF sendFatalAndClose, StartHeartbeat
<1>6. CASE c.fatal # None
  BY <1>6 DEF sendFatalAndClose
<1> QED BY <1>5, <1>6

LEMMA FinalizeKeeps ==
  ASSUME NEW c, Shape(c), c.state \notin Unattended, NEW reason \in Codes \cup {None},
         NEW answered \in BOOLEAN
  PROVE  /\ Shape(Finalize(Drained(c, answered), reason))
         /\ Finalize(Drained(c, answered), reason).state = "closed"
<1> DEFINE d == Drained(c, answered)
           e == Finalize(d, reason)
           replies == [i \in Ids |-> IF answered /\ c.inflight[i] # None
                                       THEN c.replies[i] + 1 ELSE c.replies[i]]
<1>1. c \in Connection BY DEF Shape
<1>2. replies \in [Ids -> Nat] BY <1>1 DEF Connection
<1>3. d \in Connection BY <1>1, <1>2 DEF Connection, Drained
<1>4. d.state = c.state /\ d.fatal = c.fatal /\ d.told = c.told /\ d.held = c.held
  BY <1>1 DEF Connection, Drained
<1>5. 0 \in 0..High /\ 0 < High BY ServerAssumption
<1>6. [i \in Ids |-> None] \in [Ids -> Calls \cup {None}] OBVIOUS
<1>b. /\ "closed" \in States /\ {} \in SUBSET Resources
      /\ (IF d.fatal = None THEN reason ELSE d.fatal) \in Codes \cup {None}
      /\ (IF Opened(d) THEN {} ELSE d.held) \in SUBSET Resources
  BY <1>3 DEF Connection, States
<1>7. e \in Connection BY <1>3, <1>5, <1>6, <1>b DEF Connection, Finalize
<1>8. /\ e.state = "closed" /\ e.fatal = d.fatal /\ e.told = d.told /\ e.helloTimer = FALSE
      /\ e.probe = "off" /\ e.unflushed = 0 /\ e.paused = FALSE
      /\ e.report = IF d.fatal = None THEN reason ELSE d.fatal
      /\ e.held = IF Opened(d) THEN {} ELSE d.held
  BY <1>3 DEF Connection, Finalize
<1>9. e.held = {} BY <1>4, <1>8 DEF Shape, Opened
<1> QED BY <1>4, <1>5, <1>7, <1>8, <1>9 DEF Shape, Opened, Unattended
-----------------------------------------------------------------------------
(* The steps *)

(* What a step leaves of the invariant when it only writes.                *)
LEMMA OnlyWrites ==
  ASSUME WInv, Shape(conn'), Same(conn', conn), UNCHANGED <<hello, disposed>>,
         stage' \in [Calls -> {"unsent", "authorizing", "dispatched", "done"}],
         timers' \subseteq Calls, wire' \in {"open", "closing", "gone"},
         {buffered, upstream, draining}' \subseteq BOOLEAN
  PROVE  WInv'
BY DEF WInv, ServerTypeOK, Handshake, Same, Shape, Opened

(* A fatal error starts the close and changes nothing else of the state.   *)
LEMMA FatalStep ==
  ASSUME WInv, NEW c, Shape(c), c.state \notin Unattended, c.state = conn.state, NEW code \in Codes,
         Fatal(c, code), UNCHANGED <<hello, timers, disposed>>,
         stage' \in [Calls -> {"unsent", "authorizing", "dispatched", "done"}],
         {buffered, upstream, draining}' \subseteq BOOLEAN
  PROVE  WInv'
<1>1. Shape(conn') /\ conn'.state = conn.state BY FatalKeeps DEF Fatal
<1>2. wire' \in {"open", "closing", "gone"} BY DEF Fatal, Closing, WInv, ServerTypeOK
<1> QED BY <1>1, <1>2 DEF WInv, ServerTypeOK, Handshake, Shape

(* finalize(): the client is given back if there is one.                   *)
LEMMA FinalizeStep ==
  ASSUME WInv, Attended, NEW reason \in Codes \cup {None}, NEW answered \in BOOLEAN,
         finalize(reason, answered), wire' \in {"open", "closing", "gone"},
         UNCHANGED <<hello, stage>>, {buffered, upstream, draining}' \subseteq BOOLEAN
  PROVE  WInv'
<1>1. Shape(conn) /\ conn.state \notin Unattended BY DEF WInv, Attended, Unattended
<1>2. Shape(conn') /\ conn'.state = "closed" BY <1>1, FinalizeKeeps DEF finalize
<1>3. timers' \subseteq Calls BY DEF finalize, WInv, ServerTypeOK
<1>4. Handshake' BY <1>1, <1>2 DEF finalize, WInv, ServerTypeOK, Handshake, Opened, Unattended
<1> QED BY <1>2, <1>3, <1>4 DEF WInv, ServerTypeOK, Shape, finalize

LEMMA Starts == ServerInit => WInv
<1> SUFFICES ASSUME ServerInit PROVE WInv OBVIOUS
<1>1. 0 \in 0..High /\ 0 < High BY ServerAssumption
<1>2. /\ [i \in Ids |-> None] \in [Ids -> Calls \cup {None}]
      /\ [i \in Ids |-> 0] \in [Ids -> Nat]
      /\ <<>> \in Seq(Codes)
  OBVIOUS
<1>3. conn \in Connection BY <1>1, <1>2 DEF ServerInit, Connection, States
<1>4. /\ conn.state = "new" /\ conn.fatal = None /\ conn.told = <<>> /\ conn.probe = "off"
      /\ conn.held = {} /\ conn.helloTimer = FALSE /\ conn.unflushed = 0
  BY DEF ServerInit
<1>5. Shape(conn) BY <1>1, <1>3, <1>4 DEF Shape, Opened
<1>6. /\ hello = "none" /\ stage = [c \in Calls |-> "unsent"] /\ timers = {} /\ disposed = 0
      /\ wire = "open" /\ buffered = FALSE /\ upstream = TRUE /\ draining = FALSE
  BY DEF ServerInit
<1>7. stage \in [Calls -> {"unsent", "authorizing", "dispatched", "done"}] BY <1>6
<1>8. {buffered, upstream, draining} \subseteq BOOLEAN BY <1>6, Zenon
<1>9. ServerTypeOK BY <1>3, <1>6, <1>7, <1>8 DEF ServerTypeOK
<1> QED BY <1>4, <1>5, <1>6, <1>9 DEF WInv, Handshake

LEMMA BridgeStep ==
  ASSUME WInv, handleConnection \/ shutdown \/ terminate
  PROVE  WInv'
<1>0. Shape(conn) /\ conn \in Connection BY DEF WInv, Shape
<1>1. CASE handleConnection
  <2>1. CASE draining
    <3> DEFINE e == [conn EXCEPT !.state = "rejected", !.told = Append(@, "BRIDGE_CLOSED")]
    <3>1. conn.told = <<>> /\ conn.state = "new" BY <1>0, <1>1 DEF handleConnection, Shape
    <3>2. Append(conn.told, "BRIDGE_CLOSED") \in Seq(Codes) BY <1>0 DEF Connection, Codes
    <3>3. e \in Connection BY <1>0, <3>2 DEF Connection, States
    <3>4. /\ e.state = "rejected" /\ Len(e.told) <= 1
          /\ e.held = conn.held /\ e.helloTimer = conn.helloTimer /\ e.probe = conn.probe
          /\ e.paused = conn.paused /\ e.unflushed = conn.unflushed
      BY <1>0, <3>1 DEF Connection
    <3>5. Shape(e) BY <1>0, <3>1, <3>3, <3>4 DEF Shape, Opened
    <3> QED BY <1>0, <1>1, <2>1, <3>1, <3>4, <3>5 DEF handleConnection, WInv, ServerTypeOK, Handshake, Shape
  <2>2. CASE ~draining
    <3> DEFINE e == [conn EXCEPT !.state = "pending-hello", !.helloTimer = TRUE]
    <3>1. e \in Connection BY <1>0 DEF Connection, States
    <3>2. /\ e.state = "pending-hello" /\ e.told = conn.told /\ e.fatal = conn.fatal
          /\ e.held = conn.held /\ e.probe = conn.probe
          /\ e.paused = conn.paused /\ e.unflushed = conn.unflushed
      BY <1>0 DEF Connection
    <3>3. Shape(e) BY <1>0, <1>1, <3>1, <3>2 DEF Shape, Opened, handleConnection
    <3> QED BY <1>0, <1>1, <2>2, <3>2, <3>3 DEF handleConnection, WInv, ServerTypeOK, Handshake, Shape
  <2> QED BY <2>1, <2>2
<1>2. CASE shutdown
  <2>1. CASE conn.state = "running"
    <3> DEFINE e == [conn EXCEPT !.state = "draining"]
    <3>1. e \in Connection BY <1>0 DEF Connection, States
    <3>2. /\ e.state = "draining" /\ e.told = conn.told /\ e.fatal = conn.fatal
          /\ e.held = conn.held /\ e.probe = conn.probe /\ e.helloTimer = conn.helloTimer
          /\ e.paused = conn.paused /\ e.unflushed = conn.unflushed
      BY <1>0 DEF Connection
    <3>3. Shape(e) BY <1>0, <2>1, <3>1, <3>2 DEF Shape, Opened
    <3>4. Shape(conn') /\ conn'.state = "draining"
      BY <1>2, <2>1, <3>2, <3>3, SendKeeps DEF shutdown, Same
    <3> QED BY <1>2, <2>1, <3>4 DEF shutdown, WInv, ServerTypeOK, Handshake, Shape
  <2>2. CASE conn.state # "running"
    BY <1>0, <1>2, <2>2 DEF shutdown, WInv, ServerTypeOK, Handshake
  <2> QED BY <2>1, <2>2
<1>3. CASE terminate
  <2>1. "BRIDGE_CLOSED" \in Codes \cup {None} BY DEF Codes
  <2>2. {buffered, upstream, draining}' \subseteq BOOLEAN BY <1>3 DEF terminate, WInv, ServerTypeOK
  <2> QED BY <1>3, <2>1, <2>2, FinalizeStep DEF terminate, terminateWith
<1> QED BY <1>1, <1>2, <1>3

LEMMA SocketStep ==
  ASSUME WInv, CloseEvent \/ ErrorEvent \/ BadFrame \/ Bye \/ Ping \/ HelloTimeout
  PROVE  WInv'
<1>0. Shape(conn) /\ conn \in Connection BY DEF WInv, Shape
<1>a. "BRIDGE_PROTOCOL_ERROR" \in Codes /\ "BRIDGE_INTERNAL" \in Codes BY DEF Codes
<1>1. CASE CloseEvent
  <2>1. {buffered, upstream, draining}' \subseteq BOOLEAN BY <1>1 DEF CloseEvent, WInv, ServerTypeOK
  <2> QED BY <1>1, <2>1, FinalizeStep DEF CloseEvent
<1>2. CASE ErrorEvent
  <2>1. {buffered, upstream, draining}' \subseteq BOOLEAN BY <1>2 DEF ErrorEvent, WInv, ServerTypeOK
  <2>2. wire' \in {"open", "closing", "gone"} BY <1>2 DEF ErrorEvent, WInv, ServerTypeOK
  <2>3. (wire = "open") \in BOOLEAN OBVIOUS
  <2> QED BY <1>2, <1>a, <2>1, <2>2, <2>3, FinalizeStep DEF ErrorEvent
<1>3. CASE (BadFrame \/ Bye \/ Ping) /\ Fatal(conn, "BRIDGE_PROTOCOL_ERROR")
  <2>1. conn.state \notin Unattended BY <1>3 DEF BadFrame, Bye, Ping, Frame, Attended, Unattended
  <2>2. UNCHANGED <<hello, stage, timers, buffered, upstream, draining, disposed>>
    BY <1>3 DEF BadFrame, Bye, Ping
  <2>3. /\ stage' \in [Calls -> {"unsent", "authorizing", "dispatched", "done"}]
        /\ {buffered, upstream, draining}' \subseteq BOOLEAN
    BY <2>2 DEF WInv, ServerTypeOK
  <2> QED BY <1>0, <1>3, <1>a, <2>1, <2>2, <2>3, FatalStep
<1>4. CASE (Bye \/ Ping) /\ ~PreHello
  <2>1. UNCHANGED <<hello, stage, timers, buffered, upstream, draining, disposed>>
    BY <1>4 DEF Bye, Ping
  <2>2. Shape(conn') /\ Same(conn', conn) BY <1>0, <1>4, SendKeeps DEF Bye, Ping, Same
  <2>3. wire' \in {"open", "closing", "gone"} BY <1>4 DEF Bye, Ping, Closing, WInv, ServerTypeOK
  <2>4. /\ stage' \in [Calls -> {"unsent", "authorizing", "dispatched", "done"}]
        /\ timers' \subseteq Calls /\ {buffered, upstream, draining}' \subseteq BOOLEAN
    BY <2>1 DEF WInv, ServerTypeOK
  <2> QED BY <2>1, <2>2, <2>3, <2>4, OnlyWrites
<1>5. CASE HelloTimeout
  <2> DEFINE e == [conn EXCEPT !.helloTimer = FALSE]
  <2>1. e \in Connection BY <1>0 DEF Connection
  <2>2. /\ e.state = conn.state /\ e.told = conn.told /\ e.fatal = conn.fatal
        /\ e.held = conn.held /\ e.probe = conn.probe /\ e.helloTimer = FALSE
        /\ e.paused = conn.paused /\ e.unflushed = conn.unflushed /\ e.report = conn.report
    BY <1>0 DEF Connection
  <2>3. Shape(e) BY <1>0, <2>1, <2>2 DEF Shape, Opened
  <2>4. e.state \notin Unattended BY <1>0, <1>5, <2>2 DEF HelloTimeout, Shape, Unattended
  <2>5. UNCHANGED <<hello, timers, disposed>> /\ Fatal(e, "BRIDGE_PROTOCOL_ERROR") BY <1>5 DEF HelloTimeout
  <2>6. /\ stage' \in [Calls -> {"unsent", "authorizing", "dispatched", "done"}]
        /\ {buffered, upstream, draining}' \subseteq BOOLEAN
    BY <1>5 DEF HelloTimeout, WInv, ServerTypeOK
  <2> QED BY <1>a, <2>2, <2>3, <2>4, <2>5, <2>6, FatalStep
<1> QED BY <1>1, <1>2, <1>3, <1>4, <1>5 DEF BadFrame, Bye, Ping

LEMMA HelloStep ==
  ASSUME WInv, onHello \/ Authenticated \/ CreateClientFailed \/ ClientCreated
  PROVE  WInv'
<1>0. Shape(conn) /\ conn \in Connection BY DEF WInv, Shape
<1>a. {"BRIDGE_PROTOCOL_ERROR", "BRIDGE_AUTH_DENIED", "BRIDGE_INTERNAL", "BRIDGE_CLOSED"} \subseteq Codes
  BY DEF Codes
<1>b. {buffered, upstream, draining}' \subseteq BOOLEAN /\ UNCHANGED <<stage, timers>>
  BY DEF WInv, ServerTypeOK, onHello, Authenticated, CreateClientFailed, ClientCreated
<1>c. /\ stage' \in [Calls -> {"unsent", "authorizing", "dispatched", "done"}]
      /\ timers' \subseteq Calls
  BY <1>b DEF WInv, ServerTypeOK
<1>d. wire' \in {"open", "closing", "gone"}
  BY DEF WInv, ServerTypeOK, onHello, Authenticated, CreateClientFailed, ClientCreated, Fatal, Closing
<1>1. CASE onHello /\ conn.state = "pending-hello"
  <2> DEFINE e == [conn EXCEPT !.state = "handshaking", !.helloTimer = FALSE]
  <2>1. e \in Connection BY <1>0 DEF Connection, States
  <2>2. /\ e.state = "handshaking" /\ e.told = conn.told /\ e.fatal = conn.fatal
        /\ e.held = conn.held /\ e.probe = conn.probe /\ e.helloTimer = FALSE
        /\ e.paused = conn.paused /\ e.unflushed = conn.unflushed
    BY <1>0 DEF Connection
  <2>3. Shape(e) BY <1>0, <1>1, <2>1, <2>2 DEF Shape, Opened
  <2>4. conn' = e /\ hello' = "authenticating" /\ disposed' = disposed BY <1>1 DEF onHello
  <2>5. Handshake' BY <1>1, <2>2, <2>4 DEF WInv, Handshake
  <2>6. disposed' \in Nat BY <2>4 DEF WInv, ServerTypeOK
  <2> QED BY <1>b, <1>c, <1>d, <2>1, <2>3, <2>4, <2>5, <2>6 DEF WInv, ServerTypeOK
<1>2. CASE onHello /\ conn.state # "pending-hello"
  <2>1. conn.state \notin Unattended BY <1>2 DEF onHello, Frame, Attended, Unattended
  <2>2. UNCHANGED <<hello, timers, disposed>> /\ Fatal(conn, "BRIDGE_PROTOCOL_ERROR")
    BY <1>2 DEF onHello
  <2> QED BY <1>0, <1>a, <1>b, <1>c, <2>1, <2>2, FatalStep
(* The continuations of the handshake that start no close ...              *)
<1>3. ASSUME hello # "none", UNCHANGED conn, hello' \in {"none", "authenticating", "creating"},
             disposed' = disposed \/ (disposed' = disposed + 1 /\ hello' = "none")
      PROVE  WInv'
  <2>1. Handshake' BY <1>3 DEF WInv, ServerTypeOK, Handshake
  <2>2. disposed' \in Nat BY <1>3 DEF WInv, ServerTypeOK
  <2> QED BY <1>0, <1>3, <1>b, <1>c, <1>d, <2>1, <2>2 DEF WInv, ServerTypeOK
(* ... those that do ...                                                   *)
<1>4. ASSUME hello # "none", hello' = "none", ~isTearingDown, NEW code \in Codes, Fatal(conn, code),
             disposed' = disposed \/ disposed' = disposed + 1
      PROVE  WInv'
  <2>1. conn.state = "handshaking" /\ disposed = 0 BY <1>4 DEF WInv, Handshake, isTearingDown
  <2>2. Shape(conn') /\ conn'.state = "handshaking"
    BY <1>0, <1>4, <2>1, FatalKeeps DEF Fatal, Unattended
  <2>3. Handshake' /\ disposed' \in Nat BY <1>4, <2>1, <2>2 DEF Handshake
  <2> QED BY <1>4, <1>b, <1>c, <1>d, <2>2, <2>3 DEF WInv, ServerTypeOK, Shape
(* ... and the one that opens the connection.                              *)
<1>5. ASSUME hello # "none", hello' = "none", ~isTearingDown, disposed' = disposed,
             conn' = StartHeartbeat(Send([conn EXCEPT !.state = "running", !.held = Resources]))
      PROVE  WInv'
  <2> DEFINE e == [conn EXCEPT !.state = "running", !.held = Resources]
             d == Send(e)
             g == [d EXCEPT !.probe = "idle"]
  <2>1. conn.state = "handshaking" /\ disposed = 0 BY <1>5 DEF WInv, Handshake, isTearingDown
  <2>2. e \in Connection BY <1>0 DEF Connection, States
  <2>3. /\ e.state = "running" /\ e.told = conn.told /\ e.fatal = conn.fatal
        /\ e.held = Resources /\ e.probe = conn.probe /\ e.helloTimer = conn.helloTimer
        /\ e.paused = conn.paused /\ e.unflushed = conn.unflushed
    BY <1>0 DEF Connection
  <2>4. Shape(e) BY <1>0, <2>1, <2>2, <2>3 DEF Shape, Opened
  <2>5. Shape(d) /\ d.state = "running" BY <2>3, <2>4, SendKeeps DEF Same
  <2>6. d \in Connection BY <2>5 DEF Shape
  <2>7. g \in Connection BY <2>6 DEF Connection
  <2>8. /\ g.state = d.state /\ g.held = d.held /\ g.helloTimer = d.helloTimer
        /\ g.paused = d.paused /\ g.unflushed = d.unflushed
        /\ g.fatal = d.fatal /\ g.told = d.told /\ g.report = d.report
    BY <2>6 DEF Connection
  <2>9. Shape(g) BY <2>5, <2>7, <2>8 DEF Shape, Opened
  <2>10. Shape(conn') /\ conn'.state = "running" BY <1>5, <2>5, <2>8, <2>9 DEF StartHeartbeat
  <2>11. Handshake' /\ disposed' \in Nat BY <1>5, <2>1, <2>10 DEF Handshake
  <2> QED BY <1>5, <1>b, <1>c, <1>d, <2>10, <2>11 DEF WInv, ServerTypeOK, Shape
<1>6. CASE Authenticated
  BY <1>3, <1>4, <1>6, <1>a DEF Authenticated
<1>7. CASE CreateClientFailed
  BY <1>3, <1>4, <1>7, <1>a DEF CreateClientFailed
<1>8. CASE ClientCreated
  <2>1. hello # "none" /\ hello' = "none" BY <1>8 DEF ClientCreated
  <2>2. CASE isTearingDown
    BY <1>3, <1>8, <2>1, <2>2 DEF ClientCreated, Unwind
  <2>3. CASE ~isTearingDown /\ UNCHANGED <<wire, disposed>> /\ upstream
    BY <1>4, <1>5, <1>8, <1>a, <2>1, <2>3 DEF ClientCreated, Unwind, ClosedAlready
  <2>4. CASE ~isTearingDown /\ \E code \in Codes : Fatal(conn, code)
    <3>1. disposed' = disposed \/ disposed' = disposed + 1
      BY <1>8, <2>4 DEF ClientCreated, Unwind
    <3> QED BY <1>4, <2>1, <2>4, <3>1
  <2> QED BY <1>8, <1>a, <2>2, <2>3, <2>4 DEF ClientCreated, ClosedAlready
<1> QED BY <1>1, <1>2, <1>6, <1>7, <1>8

LEMMA CallStep ==
  ASSUME WInv, NEW req \in Calls,
         routeCall(req) \/ Authorized(req) \/ Outcome(req) \/ RequestTimeout(req)
  PROVE  WInv'
<1> DEFINE id == IdOf[req]
<1>0. Shape(conn) /\ conn \in Connection /\ Same(conn, conn) BY DEF WInv, Shape, Same
<1>a. id \in Ids BY ServerAssumption
<1>b. /\ UNCHANGED <<hello, disposed>> /\ {buffered, upstream, draining}' \subseteq BOOLEAN
  BY DEF WInv, ServerTypeOK, routeCall, Authorized, Outcome, RequestTimeout
<1>c. stage' \in [Calls -> {"unsent", "authorizing", "dispatched", "done"}]
  BY DEF WInv, ServerTypeOK, routeCall, Authorized, Outcome, RequestTimeout
<1>d. timers' \subseteq Calls
  BY DEF WInv, ServerTypeOK, routeCall, Authorized, Outcome, RequestTimeout, Track
<1>1. CASE routeCall(req) /\ Fatal(conn, "BRIDGE_PROTOCOL_ERROR")
  <2>1. conn.state \notin Unattended BY <1>1 DEF routeCall, Frame, Attended, Unattended
  <2>2. "BRIDGE_PROTOCOL_ERROR" \in Codes /\ UNCHANGED timers BY <1>1 DEF routeCall, Codes
  <2> QED BY <1>0, <1>1, <1>b, <1>c, <2>1, <2>2, FatalStep
<1>2. CASE Track(req) /\ UNCHANGED wire
  <2> DEFINE e == [conn EXCEPT !.inflight[id] = req]
  <2>1. [conn.inflight EXCEPT ![id] = req] \in [Ids -> Calls \cup {None}] BY <1>0, <1>a DEF Connection
  <2>2. e \in Connection BY <1>0, <2>1 DEF Connection
  <2>3. Same(e, conn) /\ e.paused = conn.paused /\ e.unflushed = conn.unflushed
    BY <1>0 DEF Same, Connection
  <2>a. ~e.paused => e.unflushed < High BY <1>0, <2>3 DEF Shape
  <2> HIDE DEF e
  <2>4. Shape(e) BY <1>0, <2>2, <2>3, <2>a, ShapeOfSame
  <2> USE DEF e
  <2>5. wire' \in {"open", "closing", "gone"} BY <1>2 DEF WInv, ServerTypeOK
  <2> QED BY <1>2, <1>b, <1>c, <1>d, <2>3, <2>4, <2>5, OnlyWrites DEF Track
<1>3. CASE UNCHANGED wire /\ (conn' = conn \/ conn' = Reply(conn, id) \/ conn' = Complete(conn, id))
  <2>1. Shape(conn') /\ Same(conn', conn) BY <1>0, <1>3, <1>a, ReplyKeeps, CompleteKeeps
  <2>2. wire' \in {"open", "closing", "gone"} BY <1>3 DEF WInv, ServerTypeOK
  <2> QED BY <1>b, <1>c, <1>d, <2>1, <2>2, OnlyWrites
<1> QED BY <1>1, <1>2, <1>3 DEF routeCall, Authorized, Outcome, RequestTimeout

LEMMA HeartbeatStep ==
  ASSUME WInv, HeartbeatTick \/ Pong \/ onPongDeadline
  PROVE  WInv'
<1>0. Shape(conn) /\ conn \in Connection BY DEF WInv, Shape
<1>1. conn.state \notin Unattended BY <1>0 DEF Shape, HeartbeatTick, Pong, onPongDeadline, Unattended
<1>b. {buffered, upstream, draining}' \subseteq BOOLEAN /\ UNCHANGED <<hello, stage>>
  BY DEF WInv, ServerTypeOK, HeartbeatTick, Pong, onPongDeadline
<1>c. /\ stage' \in [Calls -> {"unsent", "authorizing", "dispatched", "done"}]
  BY <1>b DEF WInv, ServerTypeOK
(* The probe of a connection that is attended may be anything.             *)
<1>2. ASSUME NEW c, Shape(c), c.state \notin Unattended, NEW p \in {"idle", "sent", "refused"}
      PROVE  Shape([c EXCEPT !.probe = p]) /\ [c EXCEPT !.probe = p].state = c.state
  <2> DEFINE e == [c EXCEPT !.probe = p]
  <2>1. c \in Connection BY <1>2 DEF Shape
  <2>2. e \in Connection BY <2>1 DEF Connection
  <2>3. /\ e.state = c.state /\ e.told = c.told /\ e.fatal = c.fatal /\ e.report = c.report
        /\ e.held = c.held /\ e.helloTimer = c.helloTimer
        /\ e.paused = c.paused /\ e.unflushed = c.unflushed
    BY <2>1 DEF Connection
  <2> QED BY <1>2, <2>2, <2>3 DEF Shape, Opened, Unattended
<1>3. CASE HeartbeatTick \/ Pong
  <2>1. Shape(conn') /\ conn'.state = conn.state
    <3>1. Shape(OnTick(conn)) /\ OnTick(conn).state = conn.state
      BY <1>0, FlushKeeps DEF OnTick, Same
    <3> QED BY <1>0, <1>1, <1>2, <1>3, <3>1 DEF HeartbeatTick, Pong
  <2>2. UNCHANGED <<timers, wire, disposed>> BY <1>3 DEF HeartbeatTick, Pong
  <2> QED BY <1>b, <1>c, <2>1, <2>2 DEF WInv, ServerTypeOK, Handshake, Shape
<1>4. CASE onPongDeadline /\ conn.fatal = None
  <2> DEFINE e == [conn EXCEPT !.probe = "idle"]
  <2>1. Shape(e) /\ e.state = conn.state BY <1>0, <1>1, <1>2
  <2>2. "BRIDGE_CLOSED" \in Codes BY DEF Codes
  <2>3. Fatal(e, "BRIDGE_CLOSED") /\ UNCHANGED <<timers, disposed>> BY <1>4 DEF onPongDeadline
  <2> QED BY <1>1, <1>b, <1>c, <2>1, <2>2, <2>3, FatalStep
<1>5. CASE onPongDeadline /\ conn.fatal # None
  <2>1. conn.fatal \in Codes \cup {None} BY <1>0 DEF Connection
  <2>2. Attended BY <1>1 DEF Attended, Unattended
  <2>3. wire' \in {"open", "closing", "gone"} /\ finalize(conn.fatal, FALSE)
    BY <1>5 DEF onPongDeadline, terminateWith
  <2> QED BY <1>b, <2>1, <2>2, <2>3, FinalizeStep
<1> QED BY <1>3, <1>4, <1>5

LEMMA UpstreamStep ==
  ASSUME WInv, UpstreamClosed \/ onByteOutput \/ onWireEvent \/ Congested \/ BufferFlushed
  PROVE  WInv'
<1>0. Shape(conn) /\ conn \in Connection /\ Same(conn, conn) BY DEF WInv, Shape, Same
<1>b. /\ UNCHANGED <<hello, stage, timers, draining, disposed>>
      /\ buffered' \in BOOLEAN /\ upstream' \in BOOLEAN
  BY DEF WInv, ServerTypeOK, UpstreamClosed, onByteOutput, onWireEvent, Congested, BufferFlushed
<1>c. /\ stage' \in [Calls -> {"unsent", "authorizing", "dispatched", "done"}]
      /\ timers' \subseteq Calls /\ {buffered, upstream, draining}' \subseteq BOOLEAN
  BY <1>b DEF WInv, ServerTypeOK
<1>1. CASE UpstreamClosed /\ "events" \in conn.held
  <2>1. conn.state \notin Unattended BY <1>0, <1>1 DEF Shape, Opened, Unattended
  <2>2. "BRIDGE_CLOSED" \in Codes /\ Fatal(conn, "BRIDGE_CLOSED") BY <1>1 DEF Codes, UpstreamClosed
  <2> QED BY <1>0, <1>b, <1>c, <2>1, <2>2, FatalStep
<1>2. CASE onByteOutput
  <2> DEFINE e == Account(conn)
  <2>1. conn.unflushed \in 0..High /\ conn.unflushed < High /\ High \in Nat
    BY <1>0, <1>2, ServerAssumption DEF onByteOutput, Shape, Connection
  <2>2. conn.unflushed + 1 \in 0..High BY <2>1
  <2>3. (conn.unflushed + 1 >= High) \in BOOLEAN OBVIOUS
  <2>4. e \in Connection BY <1>0, <2>2, <2>3 DEF Connection, Account
  <2>5. Same(e, conn) BY <1>0 DEF Same, Connection, Account
  <2>6. e.unflushed = conn.unflushed + 1 BY <1>0, <2>1 DEF Connection, Account
  <2>a. ~e.paused => e.unflushed < High
    <3>1. conn.unflushed + 1 >= High => e.paused = TRUE BY <1>0 DEF Connection, Account
    <3> QED BY <2>1, <2>6, <3>1
  <2>b. conn' = Send(e) BY <1>2 DEF onByteOutput
  <2> HIDE DEF e
  <2>7. Shape(e) BY <1>0, <2>4, <2>5, <2>a, ShapeOfSame
  <2>c. Shape(Send(e)) /\ Same(Send(e), e) BY <2>7, SendKeeps
  <2>d. Same(Send(e), conn) BY <2>5, <2>c DEF Same
  <2>8. Shape(conn') /\ Same(conn', conn) BY <2>b, <2>c, <2>d
  <2>9. wire' \in {"open", "closing", "gone"} BY <1>2 DEF onByteOutput, WInv, ServerTypeOK
  <2> QED BY <1>b, <1>c, <2>8, <2>9, OnlyWrites
<1>3. CASE UNCHANGED wire /\ (conn' = conn \/ conn' = Send(conn))
  <2>1. Shape(conn') /\ Same(conn', conn) BY <1>0, <1>3, SendKeeps
  <2>2. wire' \in {"open", "closing", "gone"} BY <1>3 DEF WInv, ServerTypeOK
  <2> QED BY <1>b, <1>c, <2>1, <2>2, OnlyWrites
<1> QED BY <1>1, <1>2, <1>3 DEF UpstreamClosed, onWireEvent, Congested, BufferFlushed

LEMMA WNext == WInv /\ [ServerNext]_serverVars => WInv'
<1> SUFFICES ASSUME WInv, [ServerNext]_serverVars PROVE WInv' OBVIOUS
<1>1. CASE UNCHANGED serverVars
  BY <1>1 DEF serverVars, WInv, ServerTypeOK, Handshake
<1> QED
  BY <1>1, BridgeStep, SocketStep, HelloStep, CallStep, HeartbeatStep, UpstreamStep DEF ServerNext

LEMMA WInvHolds == ServerSpec => []WInv
BY Starts, WNext, PTL DEF ServerSpec

-----------------------------------------------------------------------------

(* Whatever closes a connection, nothing it acquired outlives it, and a    *)
(* client that was made is given back once: every finalize, unwind and     *)
(* continuation of server.ts, in every order.                              *)
THEOREM Released == ServerSpec => []ReleasedOnClose
<1>1. WInv => ReleasedOnClose
  <2> SUFFICES ASSUME WInv PROVE ReleasedOnClose OBVIOUS
  <2>1. disposed \in Nat /\ ServerTypeOK BY DEF WInv, ServerTypeOK
  <2> QED BY <2>1 DEF WInv, Shape, Handshake, Opened, Resources, ReleasedOnClose
<1> QED BY <1>1, WInvHolds, PTL

(* The peer is told of one fatal error at most, and it is the one that     *)
(* connection-closed reports.                                              *)
THEOREM FirstFatalStands == ServerSpec => []FirstFatalReported
<1>1. WInv => FirstFatalReported
  <2> SUFFICES ASSUME WInv PROVE FirstFatalReported OBVIOUS
  <2>1. Len(conn.told) <= 1 BY DEF WInv, Shape
  <2>2. conn.told # <<>> /\ conn.state = "closed" => conn.report = conn.told[1] BY DEF WInv, Shape
  <2> QED BY <2>1, <2>2 DEF FirstFatalReported
<1> QED BY <1>1, WInvHolds, PTL

-----------------------------------------------------------------------------
(* Replies.  What an id has been answered, what is in flight under it and  *)
(* what is still being authorized add up to no more than was received.     *)

Owed(c, id) == c.replies[id] + IF c.inflight[id] = None THEN 0 ELSE 1
Authorizing(id) == {c \in Calls : IdOf[c] = id /\ stage[c] = "authorizing"}
RInv == \A id \in Ids : Owed(conn, id) + Cardinality(Authorizing(id)) <= Cardinality(Received(id))

LEMMA FiniteCalls == \A id \in Ids : /\ IsFiniteSet(Authorizing(id)) /\ Cardinality(Authorizing(id)) \in Nat
                               /\ IsFiniteSet(Received(id)) /\ Cardinality(Received(id)) \in Nat
<1> TAKE id \in Ids
<1>1. Authorizing(id) \subseteq Calls /\ Received(id) \subseteq Calls BY DEF Authorizing, Received
<1> QED BY <1>1, ServerAssumption, FS_Subset, FS_CardinalityType

LEMMA OwedIsNat == ASSUME NEW c \in Connection, NEW id \in Ids
                   PROVE  Owed(c, id) \in Nat
BY DEF Connection, Owed

LEMMA SendOwes ==
  ASSUME NEW c \in Connection
  PROVE  /\ Send(c).replies = c.replies /\ Send(c).inflight = c.inflight
         /\ maybeFlushBuffered(c).replies = c.replies
         /\ maybeFlushBuffered(c).inflight = c.inflight
<1> DEFINE d == [c EXCEPT !.unflushed = 0, !.paused = FALSE]
<1>1. d.replies = c.replies /\ d.inflight = c.inflight BY DEF Connection
<1> QED BY <1>1 DEF Send, maybeFlushBuffered

LEMMA ReplyOwes ==
  ASSUME NEW c \in Connection, NEW id \in Ids
  PROVE  /\ Reply(c, id).inflight = c.inflight
         /\ Reply(c, id).replies = c.replies \/ Reply(c, id).replies = [c.replies EXCEPT ![id] = @ + 1]
<1> DEFINE d == [c EXCEPT !.replies[id] = @ + 1]
<1>1. [c.replies EXCEPT ![id] = @ + 1] \in [Ids -> Nat] BY DEF Connection
<1>2. d \in Connection BY <1>1 DEF Connection
<1>3. d.inflight = c.inflight /\ d.replies = [c.replies EXCEPT ![id] = @ + 1] BY DEF Connection
<1>4. Send(d).inflight = d.inflight /\ Send(d).replies = d.replies BY <1>2, SendOwes
<1> HIDE DEF d
<1>5. Reply(c, id) = c \/ Reply(c, id) = Send(d) BY DEF Reply, d
<1> QED BY <1>3, <1>4, <1>5

LEMMA CompleteOwes ==
  ASSUME NEW c \in Connection, NEW id \in Ids, NEW j \in Ids
  PROVE  Owed(Complete(c, id), j) <= Owed(c, j)
<1> DEFINE d == Forget(c, id)
<1>0. c.replies \in [Ids -> Nat] /\ c.inflight \in [Ids -> Calls \cup {None}] BY DEF Connection
<1>1. [c.inflight EXCEPT ![id] = None] \in [Ids -> Calls \cup {None}] BY <1>0
<1>2. d \in Connection BY <1>1 DEF Connection, Forget
<1>3. d.inflight = [c.inflight EXCEPT ![id] = None] /\ d.replies = c.replies BY DEF Connection, Forget
<1>4. CASE c.inflight[id] = None
  <2>1. Owed(c, j) \in Nat BY OwedIsNat
  <2> QED BY <1>4, <2>1 DEF Complete
<1>5. CASE c.inflight[id] # None
  <2> DEFINE r == Reply(d, id)
  <2>1. Complete(c, id) = r BY <1>5 DEF Complete
  <2>2. /\ r.inflight = [c.inflight EXCEPT ![id] = None]
        /\ r.replies = c.replies \/ r.replies = [c.replies EXCEPT ![id] = @ + 1]
    BY <1>2, <1>3, ReplyOwes
  <2> HIDE DEF r
  <2> QED BY <1>0, <1>5, <2>1, <2>2 DEF Owed
<1> QED BY <1>4, <1>5

LEMMA FinalizeOwes ==
  ASSUME NEW c \in Connection, NEW reason, NEW answered \in BOOLEAN, NEW j \in Ids
  PROVE  Owed(Finalize(Drained(c, answered), reason), j) <= Owed(c, j)
<1> DEFINE replies == [i \in Ids |-> IF answered /\ c.inflight[i] # None
                                       THEN c.replies[i] + 1 ELSE c.replies[i]]
           d == Drained(c, answered)
           e == Finalize(d, reason)
<1>0. c.replies \in [Ids -> Nat] BY DEF Connection
<1>1. d = [c EXCEPT !.replies = replies] BY DEF Drained
<1>2. replies \in [Ids -> Nat] BY <1>0
<1>3. d \in Connection /\ d.replies = replies BY <1>1, <1>2 DEF Connection
<1>4. e.replies = d.replies /\ e.inflight = [i \in Ids |-> None] BY <1>3 DEF Connection, Finalize
<1> HIDE DEF e, d
<1> QED BY <1>0, <1>3, <1>4 DEF Owed, e, d

LEMMA FatalOwes ==
  ASSUME NEW c \in Connection, NEW code \in Codes
  PROVE  /\ sendFatalAndClose(c, code).replies = c.replies
         /\ sendFatalAndClose(c, code).inflight = c.inflight
<1> DEFINE told == IF wire = "open" THEN Append(c.told, code) ELSE c.told
           e == [c EXCEPT !.fatal = code, !.told = told]
<1>1. told \in Seq(Codes) BY DEF Connection
<1>2. e \in Connection /\ e.replies = c.replies /\ e.inflight = c.inflight BY <1>1 DEF Connection
<1>3. StartHeartbeat(e).replies = c.replies /\ StartHeartbeat(e).inflight = c.inflight
  BY <1>2 DEF Connection, StartHeartbeat
<1> HIDE DEF e
<1>4. sendFatalAndClose(c, code) = c \/ sendFatalAndClose(c, code) = StartHeartbeat(e)
  BY DEF sendFatalAndClose, e
<1> QED BY <1>3, <1>4

(* Steps that receive nothing and answer nothing that is not in flight.    *)
LEMMA OwesLess ==
  ASSUME RInv, conn \in Connection, conn' \in Connection, UNCHANGED stage,
         \A id \in Ids : Owed(conn', id) <= Owed(conn, id)
  PROVE  RInv'
<1> SUFFICES ASSUME NEW id \in Ids
             PROVE  (Owed(conn, id) + Cardinality(Authorizing(id)) <= Cardinality(Received(id)))'
  BY DEF RInv
<1>1. Authorizing(id)' = Authorizing(id) /\ Received(id)' = Received(id)
  BY DEF Authorizing, Received
<1>2. Owed(conn', id) <= Owed(conn, id) /\ Owed(conn, id) \in Nat /\ Owed(conn', id) \in Nat
  BY OwedIsNat
<1>3. Owed(conn, id)' = Owed(conn', id) BY DEF Owed
<1>4. Cardinality(Authorizing(id)) \in Nat /\ Cardinality(Received(id)) \in Nat BY FiniteCalls
<1>5. Owed(conn, id) + Cardinality(Authorizing(id)) <= Cardinality(Received(id)) BY DEF RInv
<1> QED BY <1>1, <1>2, <1>3, <1>4, <1>5

Quiet == conn'.replies = conn.replies /\ conn'.inflight = conn.inflight

LEMMA QuietOwes ==
  ASSUME RInv, conn \in Connection, conn' \in Connection, UNCHANGED stage, Quiet
  PROVE  RInv'
<1>1. \A id \in Ids : Owed(conn', id) = Owed(conn, id) BY DEF Quiet, Owed
<1>2. \A id \in Ids : Owed(conn, id) \in Nat BY OwedIsNat
<1>3. \A id \in Ids : Owed(conn', id) <= Owed(conn, id) BY <1>1, <1>2
<1> QED BY <1>3, OwesLess

LEMMA FatalIsQuiet ==
  ASSUME NEW c \in Connection, c.replies = conn.replies, c.inflight = conn.inflight,
         NEW code \in Codes, Fatal(c, code)
  PROVE  Quiet
BY FatalOwes DEF Fatal, Quiet

LEMMA FinalizeOwesLess ==
  ASSUME RInv, conn \in Connection, conn' \in Connection, UNCHANGED stage,
         NEW reason, NEW answered \in BOOLEAN, finalize(reason, answered)
  PROVE  RInv'
BY FinalizeOwes, OwesLess DEF finalize

LEMMA QuietSteps ==
  ASSUME conn \in Connection,
         \/ handleConnection \/ shutdown \/ BadFrame \/ Bye \/ Ping \/ HelloTimeout \/ onHello
         \/ Authenticated \/ CreateClientFailed \/ ClientCreated \/ HeartbeatTick \/ Pong
         \/ onPongDeadline /\ conn.fatal = None
         \/ UpstreamClosed \/ onByteOutput \/ onWireEvent \/ Congested \/ BufferFlushed
  PROVE  Quiet /\ UNCHANGED stage
<1>a. {"BRIDGE_PROTOCOL_ERROR", "BRIDGE_AUTH_DENIED", "BRIDGE_INTERNAL", "BRIDGE_CLOSED"} \subseteq Codes
  BY DEF Codes
<1>b. Send(conn).replies = conn.replies /\ Send(conn).inflight = conn.inflight BY SendOwes
<1>c. UNCHANGED stage
  BY DEF handleConnection, shutdown, BadFrame, Bye, Ping, HelloTimeout, onHello, Authenticated,
         CreateClientFailed, ClientCreated, HeartbeatTick, Pong, onPongDeadline, UpstreamClosed, onByteOutput,
         onWireEvent, Congested, BufferFlushed
<1>d. ASSUME NEW code \in Codes, Fatal(conn, code) PROVE Quiet BY <1>d, FatalIsQuiet
<1>1. CASE handleConnection BY <1>1 DEF handleConnection, Quiet, Connection
<1>2. CASE shutdown
  <2> DEFINE e == [conn EXCEPT !.state = "draining"]
  <2>1. e \in Connection /\ e.replies = conn.replies /\ e.inflight = conn.inflight
    BY DEF Connection, States
  <2>2. Send(e).replies = conn.replies /\ Send(e).inflight = conn.inflight BY <2>1, SendOwes
  <2> QED BY <1>2, <2>2 DEF shutdown, Quiet
<1>3. CASE BadFrame \/ Bye \/ Ping BY <1>3, <1>a, <1>b, <1>d DEF BadFrame, Bye, Ping, Quiet
<1>4. CASE HelloTimeout
  <2> DEFINE e == [conn EXCEPT !.helloTimer = FALSE]
  <2>1. e \in Connection /\ e.replies = conn.replies /\ e.inflight = conn.inflight BY DEF Connection
  <2>2. Fatal(e, "BRIDGE_PROTOCOL_ERROR") BY <1>4 DEF HelloTimeout
  <2> QED BY <1>a, <1>c, <2>1, <2>2, FatalIsQuiet
<1>5. CASE onHello
  <2>1. CASE conn.state = "pending-hello" BY <1>5, <1>c, <2>1 DEF onHello, Quiet, Connection
  <2>2. CASE conn.state # "pending-hello" BY <1>5, <1>a, <1>c, <1>d, <2>2 DEF onHello
  <2> QED BY <2>1, <2>2
<1>6. CASE Authenticated \/ CreateClientFailed
  BY <1>6, <1>a, <1>c, <1>d DEF Authenticated, CreateClientFailed, Quiet
<1>7. CASE ClientCreated
  <2> DEFINE e == [conn EXCEPT !.state = "running", !.held = Resources]
             d == Send(e)
  <2>1. e \in Connection /\ e.replies = conn.replies /\ e.inflight = conn.inflight
    BY DEF Connection, States
  <2>2. d.replies = conn.replies /\ d.inflight = conn.inflight BY <2>1, SendOwes
  <2>3. d \in Connection
    <3>1. 0 \in 0..High BY ServerAssumption
    <3>2. [e EXCEPT !.unflushed = 0, !.paused = FALSE] \in Connection BY <2>1, <3>1 DEF Connection
    <3> QED BY <2>1, <3>2 DEF Send, maybeFlushBuffered
  <2> HIDE DEF d
  <2>4. StartHeartbeat(d).replies = d.replies /\ StartHeartbeat(d).inflight = d.inflight
    BY <2>3 DEF StartHeartbeat, Connection
  <2>5. \/ UNCHANGED conn
        \/ \E code \in Codes : Fatal(conn, code)
        \/ conn' = StartHeartbeat(d)
    BY <1>7, <1>a DEF ClientCreated, d
  <2> QED BY <1>c, <1>d, <2>2, <2>4, <2>5 DEF Quiet
<1>8. CASE HeartbeatTick \/ Pong
  <2> DEFINE e == OnTick(conn)
  <2>1. e.replies = conn.replies /\ e.inflight = conn.inflight BY SendOwes DEF OnTick
  <2>2. e \in Connection
    <3>1. 0 \in 0..High BY ServerAssumption
    <3>2. [conn EXCEPT !.unflushed = 0, !.paused = FALSE] \in Connection BY <3>1 DEF Connection
    <3> QED BY <3>2 DEF OnTick, maybeFlushBuffered
  <2> HIDE DEF e
  <2>3. conn' \in {e, [e EXCEPT !.probe = "sent"], [e EXCEPT !.probe = "refused"],
                   [conn EXCEPT !.probe = "idle"]}
    BY <1>8 DEF HeartbeatTick, Pong, e
  <2> QED BY <1>c, <2>1, <2>2, <2>3 DEF Quiet, Connection
<1>9. CASE onPongDeadline /\ conn.fatal = None
  <2> DEFINE e == [conn EXCEPT !.probe = "idle"]
  <2>1. e \in Connection /\ e.replies = conn.replies /\ e.inflight = conn.inflight BY DEF Connection
  <2>2. Fatal(e, "BRIDGE_CLOSED") BY <1>9 DEF onPongDeadline
  <2> QED BY <1>a, <1>c, <2>1, <2>2, FatalIsQuiet
<1>10. CASE UpstreamClosed BY <1>10, <1>a, <1>c, <1>d DEF UpstreamClosed, Quiet
<1>11. CASE onByteOutput
  <2> DEFINE e == Account(conn)
  <2>1. e.replies = conn.replies /\ e.inflight = conn.inflight BY DEF Connection, Account
  <2>2. conn' = Send(e) BY <1>11 DEF onByteOutput
  <2>3. [e EXCEPT !.unflushed = 0, !.paused = FALSE].replies = e.replies
        /\ [e EXCEPT !.unflushed = 0, !.paused = FALSE].inflight = e.inflight
    BY DEF Connection, Account
  <2> HIDE DEF e
  <2> QED BY <1>c, <2>1, <2>2, <2>3 DEF Quiet, Send, maybeFlushBuffered
<1>12. CASE onWireEvent \/ Congested \/ BufferFlushed
  BY <1>12, <1>b, <1>c DEF onWireEvent, Congested, BufferFlushed, Quiet
<1> QED BY <1>1, <1>2, <1>3, <1>4, <1>5, <1>6, <1>7, <1>8, <1>9, <1>10, <1>11, <1>12, <1>c

(* A call that is received is answered at once, or goes on; one that was   *)
(* authorized is answered, or is in flight, in the place of an older one.  *)
LEMMA CallCounts ==
  ASSUME RInv, WInv, WInv', NEW req \in Calls,
         routeCall(req) \/ Authorized(req) \/ Outcome(req)
  PROVE  RInv'
<1> DEFINE me == IdOf[req]
<1>0. conn \in Connection /\ conn' \in Connection /\ me \in Ids
  BY ServerAssumption DEF WInv, ServerTypeOK
<1>a. stage \in [Calls -> {"unsent", "authorizing", "dispatched", "done"}] BY DEF WInv, ServerTypeOK
<1> SUFFICES ASSUME NEW id \in Ids
             PROVE  Owed(conn', id) + Cardinality(Authorizing(id)') <= Cardinality(Received(id)')
  BY DEF RInv, Owed
<1>b. /\ IsFiniteSet(Authorizing(id)) /\ Cardinality(Authorizing(id)) \in Nat
      /\ IsFiniteSet(Received(id)) /\ Cardinality(Received(id)) \in Nat
  BY FiniteCalls
<1>c. Owed(conn, id) \in Nat /\ Owed(conn', id) \in Nat BY <1>0, OwedIsNat
<1>d. Owed(conn, id) + Cardinality(Authorizing(id)) <= Cardinality(Received(id)) BY DEF RInv
<1>e. conn.replies \in [Ids -> Nat] /\ conn.inflight \in [Ids -> Calls \cup {None}]
  BY <1>0 DEF Connection
<1>f. ASSUME routeCall(req)
      PROVE  /\ conn'.inflight = conn.inflight
             /\ \/ conn'.replies = conn.replies
                \/ conn'.replies = [conn.replies EXCEPT ![me] = @ + 1]
  <2>1. "BRIDGE_PROTOCOL_ERROR" \in Codes BY DEF Codes
  <2>2. \/ conn' = conn \/ conn' = Reply(conn, me)
        \/ Fatal(conn, "BRIDGE_PROTOCOL_ERROR")
    BY <1>f DEF routeCall
  <2>3. CASE conn' = conn BY <2>3
  <2>4. CASE conn' = Reply(conn, me) BY <1>0, <2>4, ReplyOwes
  <2>5. CASE Fatal(conn, "BRIDGE_PROTOCOL_ERROR") BY <1>0, <2>1, <2>5, FatalIsQuiet DEF Quiet
  <2> QED BY <2>2, <2>3, <2>4, <2>5
<1>1. CASE routeCall(req)
  <2>1. /\ stage[req] = "unsent"
        /\ stage' = [stage EXCEPT ![req] = "done"] \/ stage' = [stage EXCEPT ![req] = "authorizing"]
    BY <1>1 DEF routeCall
  <2>2. CASE id # me
    <3>1. Authorizing(id)' = Authorizing(id) /\ Received(id)' = Received(id)
      BY <1>a, <2>1, <2>2 DEF Authorizing, Received
    <3>2. conn'.replies[id] = conn.replies[id] BY <1>0, <1>1, <1>e, <1>f, <2>2
    <3>3. Owed(conn', id) = Owed(conn, id) BY <1>1, <1>f, <3>2 DEF Owed
    <3> QED BY <1>b, <1>c, <1>d, <3>1, <3>3
  <2>3. CASE id = me
    <3>1. Received(id)' = Received(id) \cup {req} /\ req \notin Received(id)
      BY <1>a, <2>1, <2>3 DEF Received
    <3>2. Cardinality(Received(id)') = Cardinality(Received(id)) + 1
      BY <1>b, <3>1, FS_AddElement
    <3>3. CASE stage' = [stage EXCEPT ![req] = "done"]
      <4>1. Authorizing(id)' = Authorizing(id) BY <1>a, <2>1, <3>3 DEF Authorizing
      <4>2. conn'.replies[id] <= conn.replies[id] + 1 BY <1>0, <1>1, <1>e, <1>f, <2>3
      <4>3. conn'.replies[id] \in Nat /\ conn.replies[id] \in Nat BY <1>0 DEF Connection
      <4>4. Owed(conn', id) <= Owed(conn, id) + 1 BY <1>1, <1>f, <4>2, <4>3 DEF Owed
      <4> QED BY <1>b, <1>c, <1>d, <3>2, <4>1, <4>4
    <3>4. CASE stage' = [stage EXCEPT ![req] = "authorizing"]
      <4>1. Authorizing(id)' = Authorizing(id) \cup {req} /\ req \notin Authorizing(id)
        BY <1>a, <2>1, <2>3, <3>4 DEF Authorizing
      <4>2. Cardinality(Authorizing(id)') = Cardinality(Authorizing(id)) + 1
        BY <1>b, <4>1, FS_AddElement
      <4>3. conn' = conn
        <5>1. stage'[req] = "authorizing" BY <1>a, <3>4
        <5>2. stage' # [stage EXCEPT ![req] = "done"] BY <1>a, <5>1
        <5> QED BY <1>1, <5>2 DEF routeCall
      <4> QED BY <1>b, <1>c, <1>d, <3>2, <4>2, <4>3
    <3> QED BY <2>1, <3>3, <3>4
  <2> QED BY <2>2, <2>3
<1>2. CASE Authorized(req)
  <2>1. /\ stage[req] = "authorizing"
        /\ stage' = [stage EXCEPT ![req] = "done"] \/ stage' = [stage EXCEPT ![req] = "dispatched"]
    BY <1>2 DEF Authorized
  <2>2. Received(id)' = Received(id) BY <1>a, <2>1 DEF Received
  <2>3. \/ conn' = Reply(conn, me)
        \/ conn' = [conn EXCEPT !.inflight[me] = req]
    BY <1>2 DEF Authorized, Track
  <2>4. /\ conn'.replies = conn.replies \/ conn'.replies = [conn.replies EXCEPT ![me] = @ + 1]
        /\ conn'.inflight = conn.inflight \/ conn'.inflight = [conn.inflight EXCEPT ![me] = req]
        /\ conn'.replies = conn.replies \/ conn'.inflight = conn.inflight
    <3>1. CASE conn' = Reply(conn, me) BY <1>0, <3>1, ReplyOwes
    <3>2. CASE conn' = [conn EXCEPT !.inflight[me] = req] BY <1>0, <3>2 DEF Connection
    <3> QED BY <2>3, <3>1, <3>2
  <2>5. CASE id # me
    <3>1. Authorizing(id)' = Authorizing(id) BY <1>a, <2>1, <2>5 DEF Authorizing
    <3>2. conn'.replies[id] = conn.replies[id] /\ conn'.inflight[id] = conn.inflight[id]
      BY <1>0, <1>e, <2>4, <2>5
    <3> QED BY <1>d, <2>2, <3>1, <3>2 DEF Owed
  <2>6. CASE id = me
    <3>1. Authorizing(id)' = Authorizing(id) \ {req} /\ req \in Authorizing(id)
      BY <1>a, <2>1, <2>6 DEF Authorizing
    <3>2. Cardinality(Authorizing(id)') = Cardinality(Authorizing(id)) - 1
      BY <1>b, <3>1, FS_RemoveElement
    <3>3. Owed(conn', id) <= Owed(conn, id) + 1 BY <1>0, <1>e, <2>4, <2>6 DEF Owed
    <3> QED BY <1>b, <1>c, <1>d, <2>2, <3>2, <3>3
  <2> QED BY <2>5, <2>6
<1>3. CASE Outcome(req)
  <2>1. Authorizing(id)' = Authorizing(id) /\ Received(id)' = Received(id)
    BY <1>3, <1>a DEF Outcome, Authorizing, Received
  <2>2. conn' = Complete(conn, me) BY <1>3 DEF Outcome
  <2>3. Owed(conn', id) <= Owed(conn, id) BY <1>0, <2>2, CompleteOwes
  <2> QED BY <1>b, <1>c, <1>d, <2>1, <2>3
<1> QED BY <1>1, <1>2, <1>3

LEMMA RStarts == ServerInit => RInv
<1> SUFFICES ASSUME ServerInit, NEW id \in Ids
             PROVE  Owed(conn, id) + Cardinality(Authorizing(id)) <= Cardinality(Received(id))
  BY DEF RInv
<1>1. Owed(conn, id) = 0 BY DEF ServerInit, Owed
<1>2. Authorizing(id) = {} BY DEF ServerInit, Authorizing
<1>3. Cardinality(Received(id)) \in Nat BY FiniteCalls
<1> QED BY <1>1, <1>2, <1>3, FS_EmptySet

LEMMA RNext == RInv /\ WInv /\ [ServerNext]_serverVars => RInv'
<1> SUFFICES ASSUME RInv, WInv, [ServerNext]_serverVars PROVE RInv' OBVIOUS
<1>1. WInv' BY WNext
<1>2. conn \in Connection /\ conn' \in Connection BY <1>1 DEF WInv, ServerTypeOK
<1>3. CASE UNCHANGED serverVars
  <2>1. UNCHANGED stage /\ Quiet BY <1>3 DEF serverVars, Quiet
  <2> QED BY <1>2, <2>1, QuietOwes
<1>4. CASE terminate \/ CloseEvent \/ ErrorEvent \/ (onPongDeadline /\ conn.fatal # None)
  <2>1. UNCHANGED stage BY <1>4 DEF terminate, CloseEvent, ErrorEvent, onPongDeadline
  <2>2. (wire = "open") \in BOOLEAN OBVIOUS
  <2>3. \E reason : finalize(reason, FALSE) \/ finalize(reason, wire = "open")
    BY <1>4 DEF terminate, terminateWith, CloseEvent, ErrorEvent, onPongDeadline
  <2> QED BY <1>2, <2>1, <2>2, <2>3, FinalizeOwesLess
<1>5. ASSUME NEW req \in Calls, RequestTimeout(req) PROVE RInv'
  <2>1. UNCHANGED stage /\ conn' = Complete(conn, IdOf[req]) /\ IdOf[req] \in Ids
    BY <1>5, ServerAssumption DEF RequestTimeout
  <2> QED BY <1>2, <2>1, CompleteOwes, OwesLess
<1>6. ASSUME NEW req \in Calls, routeCall(req) \/ Authorized(req) \/ Outcome(req) PROVE RInv'
  BY <1>1, <1>6, CallCounts
<1> QED BY <1>2, <1>3, <1>4, <1>5, <1>6, QuietSteps, QuietOwes DEF ServerNext

(* However answers, timeouts, denials, finalize and a second use of an id  *)
(* race, an id is answered no more often than it was used in a call.       *)
THEOREM AnsweredOnce == ServerSpec => []RepliedOnce
<1>1. WInv /\ RInv => RepliedOnce
  <2> SUFFICES ASSUME WInv, RInv, NEW id \in Ids
               PROVE  conn.replies[id] <= Cardinality(Received(id))
    BY DEF RepliedOnce
  <2>1. conn.replies[id] \in Nat BY DEF WInv, ServerTypeOK, Connection
  <2>2. Cardinality(Authorizing(id)) \in Nat /\ Cardinality(Received(id)) \in Nat BY FiniteCalls
  <2>3. Owed(conn, id) + Cardinality(Authorizing(id)) <= Cardinality(Received(id)) BY DEF RInv
  <2> QED BY <2>1, <2>2, <2>3 DEF Owed
<1> QED BY <1>1, RStarts, RNext, WInvHolds, PTL DEF ServerSpec

-----------------------------------------------------------------------------
(* THE CLIENT *)

In(s, x) == \E k \in DOMAIN s : s[k] = x
Distinct(s) == \A j, k \in DOMAIN s : s[j] = s[k] => j = k

-----------------------------------------------------------------------------
(* The inductive invariant *)

Types ==
  /\ status \in {"connecting", "ready", "reconnecting", "closed"}
  /\ sock \in {"none", "connecting", "open", "closing"}
  /\ retry \in [armed : BOOLEAN, attempts : 0..MaxAttempts]
  /\ calls \in Seq(Call)
  /\ enables \in Nat /\ peer \in Nat /\ wanted \in Nat
  /\ flags \subseteq {"userRequestedClose", "draining"}
  /\ probe \in {"off", "idle", "sent"}
  /\ frames \in Seq(Nat) /\ results \subseteq [call : Nat, ok : BOOLEAN]
  /\ silent \in BOOLEAN /\ reported \in BOOLEAN
  /\ drops \in 0..MaxDrops /\ refusals \in 0..MaxRefusals

(* What there is of a connection, in each of the client's states: only one  *)
(* that is ready has anything on its wire, and only one that is ready, or   *)
(* opening, a socket.                                                      *)
Phases ==
  /\ status = "ready" => sock \in {"open", "closing"}
  /\ status # "ready" =>
       /\ frames = <<>> /\ results = {} /\ peer = 0 /\ ~silent
       /\ probe = "off" /\ sock # "closing"
  /\ status \in {"reconnecting", "closed"} => sock = "none"
  /\ retry.armed <=> status = "reconnecting"
  /\ status = "closed" => \A i \in DOMAIN calls : ~Pending(i)

Answered(i) == \E r \in results : r.call = i

(* A call is on the wire, or its answer is, once and once it was sent.     *)
Wire ==
  /\ Distinct(frames)
  /\ \A k \in DOMAIN frames : LET i == frames[k] IN
       i \in DOMAIN calls /\ calls[i].sends # 0 /\ ~Answered(i)
  /\ \A r \in results : r.call \in DOMAIN calls /\ calls[r.call].sends # 0
  /\ \A r, s \in results : r.call = s.call => r = s
  /\ \A i \in DOMAIN calls : calls[i].op = "replay" => calls[i].sends # 0

(* The calls of one kind, those among them on the wire, and the enables     *)
(* that were granted.                                                      *)
Of(op) == {i \in DOMAIN calls : calls[i].op = op}
Carried(op) == {i \in Of(op) : In(frames, i)}
Won == {i \in Of("enable") : calls[i].outcome = "ok"}

(* Neither side counts more than the application asked for.                *)
Bounded ==
  /\ UserCalls <= MaxCalls
  /\ enables <= Cardinality(Won)
  /\ peer + Cardinality(Carried("replay")) + Cardinality(Carried("enable"))
       <= Cardinality(Of("enable"))

(* The count is the application's.                                         *)
Counted == enables = wanted

Base == Types /\ Phases /\ Wire /\ Bounded /\ Counted

(* Coverage that is on its way to the peer, on its way back, and refused.   *)
Grants == {r \in results : r.ok /\ calls[r.call].op = "enable"}
RefusedReplays == {r \in results : ~r.ok /\ calls[r.call].op = "replay"}

(* The peer holds what is wanted once the replays have arrived, and what it *)
(* is asked to give up was given up by the application before; a replay     *)
(* that it refused is told.                                                *)
DisablesEnd == status # "ready" => \A i \in Of("disable") : ~Pending(i)
ReplaysWait ==
  ~reported => \A i \in Of("replay") : In(frames, i) \/ Answered(i) => Pending(i)
Covered ==
  status = "ready" /\ ~reported =>
    wanted + Cardinality(Carried("disable")) + Cardinality(Grants)
      <= peer + Cardinality(Carried("replay")) + Cardinality(RefusedReplays)

Coverage == DisablesEnd /\ ReplaysWait /\ Covered

-----------------------------------------------------------------------------
(* Queues                                                                  *)

LEMMA NothingIn == Distinct(<<>>) /\ \A x : ~In(<<>>, x)
BY DEF Distinct, In

LEMMA AppendIn ==
  ASSUME NEW T, NEW s \in Seq(T), NEW z \in T
  PROVE  /\ Append(s, z) \in Seq(T)
         /\ \A x : In(Append(s, z), x) <=> In(s, x) \/ x = z
         /\ Distinct(s) /\ ~In(s, z) => Distinct(Append(s, z))
<1> DEFINE n == Len(s)
           t == Append(s, z)
<1>1. /\ t \in Seq(T) /\ n \in Nat /\ DOMAIN s = 1..n /\ DOMAIN t = 1..(n + 1)
      /\ \A i \in 1..n : t[i] = s[i]
      /\ t[n + 1] = z
  BY AppendProperties
<1>2. \A i \in 1..(n + 1) : i \in 1..n \/ i = n + 1 BY <1>1
<1>3. \A i \in 1..n : i \in 1..(n + 1) BY <1>1
<1>4. n + 1 \in 1..(n + 1) BY <1>1
<1> HIDE DEF t, n
<1>5. ASSUME NEW x PROVE In(t, x) <=> In(s, x) \/ x = z
  BY <1>1, <1>2, <1>3, <1>4 DEF In
<1>6. ASSUME Distinct(s), ~In(s, z) PROVE Distinct(t)
  <2>1. SUFFICES ASSUME NEW i \in 1..(n + 1), NEW j \in 1..(n + 1), t[i] = t[j] PROVE i = j
    BY <1>1 DEF Distinct
  <2>2. CASE i \in 1..n /\ j \in 1..n BY <1>1, <1>6, <2>1, <2>2 DEF Distinct
  <2>3. CASE i = n + 1 /\ j \in 1..n BY <1>1, <1>6, <2>1, <2>3 DEF In
  <2>4. CASE i \in 1..n /\ j = n + 1 BY <1>1, <1>6, <2>1, <2>4 DEF In
  <2> QED BY <1>2, <2>2, <2>3, <2>4
<1> QED BY <1>1, <1>5, <1>6 DEF t

LEMMA TailIn ==
  ASSUME NEW T, NEW s \in Seq(T), s # <<>>, Distinct(s)
  PROVE  /\ Tail(s) \in Seq(T) /\ Head(s) \in T /\ In(s, Head(s)) /\ Distinct(Tail(s))
         /\ \A x : In(Tail(s), x) <=> In(s, x) /\ x # Head(s)
<1> DEFINE n == Len(s)
           t == Tail(s)
<1>1. /\ t \in Seq(T) /\ n \in Nat /\ n # 0 /\ DOMAIN s = 1..n /\ DOMAIN t = 1..(n - 1)
      /\ \A i \in 1..(n - 1) : t[i] = s[i + 1]
      /\ Head(s) = s[1] /\ s[1] \in T
  BY HeadTailProperties
<1>2. \A i \in 1..(n - 1) : i + 1 \in 1..n /\ i + 1 # 1 BY <1>1
<1>3. \A i \in 1..n : i # 1 => i - 1 \in 1..(n - 1) /\ i - 1 + 1 = i BY <1>1
<1>4. 1 \in 1..n BY <1>1
<1>5. \A i, j \in 1..(n - 1) : i + 1 = j + 1 => i = j BY <1>1
<1> HIDE DEF t, n
<1>6. In(s, s[1]) BY <1>1, <1>4 DEF In
<1>7. Distinct(t)
  <2>1. SUFFICES ASSUME NEW i \in 1..(n - 1), NEW j \in 1..(n - 1), t[i] = t[j] PROVE i = j
    BY <1>1 DEF Distinct
  <2>2. i + 1 \in 1..n /\ j + 1 \in 1..n /\ s[i + 1] = s[j + 1] BY <1>1, <1>2, <2>1
  <2>3. i + 1 = j + 1 BY <1>1, <2>2 DEF Distinct
  <2> QED BY <1>5, <2>3
<1>8. ASSUME NEW x PROVE In(t, x) <=> In(s, x) /\ x # s[1]
  <2>1. ASSUME In(t, x) PROVE In(s, x) /\ x # s[1]
    <3>1. PICK i \in 1..(n - 1) : t[i] = x BY <1>1, <2>1 DEF In
    <3>2. i + 1 \in 1..n /\ s[i + 1] = x /\ i + 1 # 1 BY <1>1, <1>2, <3>1
    <3> QED BY <1>1, <1>4, <3>2 DEF In, Distinct
  <2>2. ASSUME In(s, x), x # s[1] PROVE In(t, x)
    <3>1. PICK i \in 1..n : s[i] = x BY <1>1, <2>2 DEF In
    <3>2. i # 1 BY <2>2, <3>1
    <3>3. i - 1 \in 1..(n - 1) /\ t[i - 1] = x BY <1>1, <1>3, <3>1, <3>2
    <3> QED BY <1>1, <3>3 DEF In
  <2> QED BY <2>1, <2>2
<1> QED BY <1>1, <1>6, <1>7, <1>8 DEF t

LEMMA ConcatFields ==
  ASSUME NEW T, NEW s \in Seq(T), NEW t \in Seq(T)
  PROVE  /\ s \o t \in Seq(T) /\ DOMAIN (s \o t) = 1..(Len(s) + Len(t))
         /\ \A i \in 1..(Len(s) + Len(t)) :
              (s \o t)[i] = IF i <= Len(s) THEN s[i] ELSE t[i - Len(s)]
BY ConcatProperties

LEMMA ConcatIn ==
  ASSUME NEW T, NEW s \in Seq(T), NEW t \in Seq(T)
  PROVE  /\ s \o t \in Seq(T)
         /\ \A x : In(s \o t, x) <=> In(s, x) \/ In(t, x)
         /\ Distinct(s) /\ Distinct(t) /\ (\A x : ~(In(s, x) /\ In(t, x))) => Distinct(s \o t)
<1> DEFINE n == Len(s)
           m == Len(t)
           u == s \o t
<1>1. /\ u \in Seq(T) /\ n \in Nat /\ m \in Nat /\ DOMAIN s = 1..n /\ DOMAIN t = 1..m
      /\ DOMAIN u = 1..(n + m)
      /\ \A i \in 1..(n + m) : u[i] = IF i <= n THEN s[i] ELSE t[i - n]
  BY ConcatProperties
<1> HIDE DEF u, n, m
<1>0. n \in Nat /\ m \in Nat BY <1>1
<1>2. \A i \in 1..(n + m) : (i \in 1..n /\ i <= n) \/ (i - n \in 1..m /\ ~(i <= n)) BY <1>0
<1>3. \A i \in 1..n : i \in 1..(n + m) /\ i <= n BY <1>1
<1>4. \A i \in 1..m : n + i \in 1..(n + m) /\ ~(n + i <= n) /\ n + i - n = i BY <1>0
<1>5. \A i, j \in 1..(n + m) : i - n = j - n => i = j BY <1>0
<1>6. \A i \in 1..(n + m) : (i \in 1..n /\ u[i] = s[i]) \/ (i - n \in 1..m /\ u[i] = t[i - n])
  BY <1>1, <1>2
<1>7. ASSUME NEW x PROVE In(u, x) <=> In(s, x) \/ In(t, x)
  <2>1. ASSUME In(u, x) PROVE In(s, x) \/ In(t, x) BY <1>1, <1>6, <2>1 DEF In
  <2>2. ASSUME In(s, x) PROVE In(u, x) BY <1>1, <1>3, <2>2 DEF In
  <2>3. ASSUME In(t, x) PROVE In(u, x)
    <3>1. PICK i \in 1..m : t[i] = x BY <1>1, <2>3 DEF In
    <3>2. n + i \in 1..(n + m) /\ ~(n + i <= n) /\ n + i - n = i BY <1>4, <3>1
    <3>3. u[n + i] = t[n + i - n] BY <1>1, <3>2
    <3>4. u[n + i] = x BY <3>1, <3>2, <3>3
    <3> QED BY <1>1, <3>2, <3>4 DEF In
  <2> QED BY <2>1, <2>2, <2>3
<1>8. ASSUME Distinct(s), Distinct(t), \A x : ~(In(s, x) /\ In(t, x)) PROVE Distinct(u)
  <2>1. SUFFICES ASSUME NEW i \in 1..(n + m), NEW j \in 1..(n + m), u[i] = u[j] PROVE i = j
    BY <1>1 DEF Distinct
  <2>2. CASE i \in 1..n /\ u[i] = s[i] /\ j \in 1..n /\ u[j] = s[j]
    BY <1>1, <1>8, <2>1, <2>2 DEF Distinct
  <2>3. CASE i - n \in 1..m /\ u[i] = t[i - n] /\ j - n \in 1..m /\ u[j] = t[j - n]
    <3>1. i - n = j - n BY <1>1, <1>8, <2>1, <2>3 DEF Distinct
    <3> QED BY <1>5, <3>1
  <2>4. CASE i \in 1..n /\ u[i] = s[i] /\ j - n \in 1..m /\ u[j] = t[j - n]
    BY <1>1, <1>8, <2>1, <2>4 DEF In
  <2>5. CASE i - n \in 1..m /\ u[i] = t[i - n] /\ j \in 1..n /\ u[j] = s[j]
    BY <1>1, <1>8, <2>1, <2>5 DEF In
  <2> QED BY <1>6, <2>2, <2>3, <2>4, <2>5
<1> QED BY <1>1, <1>7, <1>8 DEF u

(* In the order of their ids: the rank of an element, the number of those   *)
(* not above it, runs through 1..Cardinality(ids).                         *)
LEMMA InOrderIn ==
  ASSUME NEW ids \in SUBSET Nat, IsFiniteSet(ids)
  PROVE  /\ InOrder(ids) \in Seq(ids) /\ Distinct(InOrder(ids))
         /\ \A x : In(InOrder(ids), x) <=> x \in ids
<1> DEFINE n == Cardinality(ids)
           Below(i) == {j \in ids : j <= i}
           rank == [i \in ids |-> Cardinality(Below(i))]
<1>1. n \in Nat BY FS_CardinalityType
<1>2. ASSUME NEW i \in ids PROVE IsFiniteSet(Below(i)) /\ rank[i] \in 1..n
  <2>1. IsFiniteSet(Below(i)) /\ Cardinality(Below(i)) <= n BY FS_Subset
  <2>2. Below(i) # {} BY <1>2
  <2>3. Cardinality(Below(i)) \in Nat /\ Cardinality(Below(i)) # 0
    BY <2>1, <2>2, FS_EmptySet, FS_CardinalityType
  <2> QED BY <1>1, <2>1, <2>3
<1>3. ASSUME NEW i \in ids, NEW j \in ids, i < j PROVE rank[i] # rank[j]
  <2>0. /\ i \in Nat /\ j \in Nat /\ ids \subseteq Nat
        /\ \A k \in Nat : k <= i => k <= j
    BY <1>3
  <2>1. Below(i) \in SUBSET Below(j) /\ j \in Below(j) /\ j \notin Below(i)
    <3>1. \A k \in Below(i) : k \in Below(j) BY <2>0
    <3>2. j <= j /\ ~(j <= i) BY <1>3, <2>0
    <3> QED BY <3>1, <3>2
  <2>2. Cardinality(Below(i)) # Cardinality(Below(j)) BY <1>2, <2>1, FS_Subset
  <2> QED BY <2>2
<1>4. rank \in Injection(ids, 1..n)
  <2>1. \A i, j \in ids : rank[i] = rank[j] => i = j BY <1>3
  <2>2. rank \in [ids -> 1..n] BY <1>2
  <2> HIDE DEF rank
  <2> QED BY <2>1, <2>2 DEF Injection, IsInjective
<1>5. rank \in Surjection(ids, 1..n)
  <2>1. IsFiniteSet(1..n) /\ Cardinality(1..n) = n BY <1>1, FS_Interval
  <2> HIDE DEF rank, n
  <2>2. Cardinality(ids) = Cardinality(1..n) BY <2>1 DEF n
  <2> QED BY <1>4, <2>1, <2>2, FS_Injection
<1>6. \A k \in 1..n : \E i \in ids : rank[i] = k BY <1>5 DEF Surjection
<1>7. \A i, j \in ids : rank[i] = rank[j] => i = j BY <1>3
<1> DEFINE s == InOrder(ids)
<1>8. DOMAIN s = 1..n /\ s \in [1..n -> ids] /\ \A k \in 1..n : s[k] \in ids /\ rank[s[k]] = k
  <2>1. DOMAIN s = 1..n BY DEF InOrder
  <2>2. \A k \in 1..n : s[k] = CHOOSE i \in ids : Cardinality(Below(i)) = k BY DEF InOrder
  <2>3. \A k \in 1..n : s[k] \in ids /\ Cardinality(Below(s[k])) = k BY <1>6, <2>2
  <2> QED BY <2>1, <2>3 DEF InOrder
<1> HIDE DEF s, rank, n
<1>9. s \in Seq(ids) BY <1>1, <1>8, SeqDef
<1>10. Distinct(s)
  <2>1. SUFFICES ASSUME NEW j \in 1..n, NEW k \in 1..n, s[j] = s[k] PROVE j = k
    BY <1>8 DEF Distinct
  <2> QED BY <1>8, <2>1
<1>11. ASSUME NEW x PROVE In(s, x) <=> x \in ids
  <2>1. ASSUME In(s, x) PROVE x \in ids BY <1>8, <2>1 DEF In
  <2>2. ASSUME x \in ids PROVE In(s, x)
    <3>1. rank[x] \in 1..n BY <1>2, <2>2
    <3>2. rank[s[rank[x]]] = rank[x] /\ s[rank[x]] \in ids BY <1>8, <3>1
    <3>3. s[rank[x]] = x BY <1>7, <2>2, <3>2
    <3> QED BY <1>8, <3>1, <3>3 DEF In
  <2> QED BY <2>1, <2>2
<1> QED BY <1>9, <1>10, <1>11 DEF s

LEMMA Retype ==
  ASSUME NEW S, NEW T, NEW s \in Seq(S), \A x : In(s, x) => x \in T
  PROVE  s \in Seq(T)
<1>1. Len(s) \in Nat /\ DOMAIN s = 1..Len(s) /\ s = [i \in 1..Len(s) |-> s[i]] BY SeqDef
<1>2. \A i \in 1..Len(s) : s[i] \in T BY <1>1 DEF In
<1>3. s \in [1..Len(s) -> T] BY <1>1, <1>2
<1> QED BY <1>1, <1>3, IsASeq

-----------------------------------------------------------------------------
(* What a step does to the calls                                           *)

Newest == Len(calls) + 1

LEMMA CallFields ==
  ASSUME Types
  PROVE  /\ Len(calls) \in Nat /\ DOMAIN calls = 1..Len(calls) /\ DOMAIN calls \subseteq Nat
         /\ IsFiniteSet(DOMAIN calls)
         /\ \A i \in DOMAIN calls : calls[i] \in Call
         /\ Newest \in Nat /\ Newest \notin DOMAIN calls /\ Newest # 0
<1>1. calls \in Seq(Call) BY DEF Types
<1>2. Len(calls) \in Nat /\ DOMAIN calls = 1..Len(calls) /\ \A i \in DOMAIN calls : calls[i] \in Call
  BY <1>1
<1>3. IsFiniteSet(1..Len(calls)) BY <1>2, FS_Interval
<1>4. Newest \in Nat /\ Newest \notin 1..Len(calls) /\ Newest # 0 BY <1>2 DEF Newest
<1> QED BY <1>2, <1>3, <1>4

(* One new call, rejected, sent or queued.                                 *)
Adds(op, outcome, sends) ==
  /\ calls' \in Seq(Call) /\ DOMAIN calls' = DOMAIN calls \cup {Newest}
  /\ \A i \in DOMAIN calls : calls'[i] = calls[i]
  /\ calls'[Newest].op = op /\ calls'[Newest].outcome = outcome /\ calls'[Newest].sends = sends

LEMMA AppendAdds ==
  ASSUME Types, NEW c \in Call, calls' = Append(calls, c)
  PROVE  Adds(c.op, c.outcome, c.sends)
<1>1. /\ calls \in Seq(Call) /\ Len(calls) \in Nat /\ DOMAIN calls = 1..Len(calls)
  BY CallFields DEF Types
<1>2. /\ calls' \in Seq(Call) /\ DOMAIN calls' = 1..(Len(calls) + 1)
      /\ \A i \in 1..Len(calls) : calls'[i] = calls[i]
      /\ calls'[Len(calls) + 1] = c
  BY <1>1, AppendProperties, SeqDef
<1>3. 1..(Len(calls) + 1) = (1..Len(calls)) \cup {Len(calls) + 1} BY <1>1
<1> QED BY <1>1, <1>2, <1>3 DEF Adds, Newest

LEMMA CallAdds ==
  ASSUME Types, NEW op \in Ops, call(op)
  PROVE  \/ Adds(op, "rejected", 0) /\ UNCHANGED frames
         \/ Sendable /\ Adds(op, "pending", 1) /\ frames' = Append(frames, Newest)
         \/ ~Sendable /\ status # "closed" /\ Adds(op, "pending", 0) /\ UNCHANGED frames
<1>1. New(op) \in Call /\ New(op).op = op /\ New(op).outcome = "pending" /\ New(op).sends = 0
  BY DEF New, Call, Ops
<1>2. CASE status = "closed" \/ flags # {}
  <2> DEFINE c == [New(op) EXCEPT !.outcome = "rejected"]
  <2>1. c \in Call /\ c.op = op /\ c.outcome = "rejected" /\ c.sends = 0 BY <1>1 DEF New, Call, Ops
  <2>2. calls' = Append(calls, c) /\ UNCHANGED frames BY <1>2 DEF call
  <2> HIDE DEF c
  <2> QED BY <2>1, <2>2, AppendAdds
<1>3. CASE ~(status = "closed" \/ flags # {}) /\ ~Sendable
  <2>1. calls' = Append(calls, New(op)) /\ UNCHANGED frames /\ status # "closed"
    BY <1>3 DEF call, enqueue
  <2> QED BY <1>1, <1>3, <2>1, AppendAdds
<1>4. CASE ~(status = "closed" \/ flags # {}) /\ Sendable
  <2> DEFINE cs == Append(calls, New(op))
  <2>1. calls' = Sent(cs, {Newest}) /\ frames' = Append(frames, Newest)
    BY <1>4 DEF call, enqueue, Newest
  <2>2. /\ calls \in Seq(Call) /\ Len(calls) \in Nat /\ DOMAIN calls = 1..Len(calls)
        /\ \A i \in DOMAIN calls : calls[i] \in Call /\ Newest \notin DOMAIN calls
    BY CallFields DEF Types
  <2>3. /\ cs \in Seq(Call) /\ DOMAIN cs = 1..(Len(calls) + 1) /\ Len(cs) = Len(calls) + 1
        /\ \A i \in 1..Len(calls) : cs[i] = calls[i]
        /\ cs[Newest] = New(op)
    BY <1>1, <2>2, AppendProperties, SeqDef DEF Newest
  <2> HIDE DEF cs
  <2>4. DOMAIN calls' = 1..(Len(calls) + 1) /\ Newest \in DOMAIN cs
    BY <2>1, <2>2, <2>3 DEF Sent, Newest
  <2>5. \A i \in DOMAIN calls : i \in DOMAIN cs /\ calls'[i] = calls[i] BY <2>1, <2>2, <2>3 DEF Sent
  <2>6. calls'[Newest] = [New(op) EXCEPT !.sends = @ + 1] BY <2>1, <2>3, <2>4 DEF Sent
  <2>7. calls'[Newest] = [op |-> op, outcome |-> "pending", sends |-> 1] BY <2>6 DEF New
  <2>8. calls'[Newest] \in Call BY <2>7 DEF Call, Ops
  <2>9. 1..(Len(calls) + 1) = DOMAIN calls \cup {Newest} BY <2>2 DEF Newest
  <2>10. \A i \in 1..(Len(calls) + 1) : calls'[i] \in Call BY <2>2, <2>5, <2>8, <2>9
  <2>11. calls' = [i \in 1..(Len(calls) + 1) |-> calls'[i]] BY <2>1, <2>3 DEF Sent
  <2>12. calls' \in Seq(Call)
    <3>1. Len(calls) + 1 \in Nat BY <2>2
    <3>2. calls' \in [1..(Len(calls) + 1) -> Call] BY <2>10, <2>11
    <3> QED BY <3>1, <3>2, SeqDef
  <2>13. Adds(op, "pending", 1) BY <2>4, <2>5, <2>7, <2>9, <2>12 DEF Adds
  <2> QED BY <1>4, <2>1, <2>13
<1> QED BY <1>2, <1>3, <1>4

(* The calls stay, and some of those that were pending settle.             *)
Settles(pick, outcome) ==
  /\ calls' \in Seq(Call) /\ DOMAIN calls' = DOMAIN calls
  /\ \A i \in DOMAIN calls : calls'[i].op = calls[i].op /\ calls'[i].sends = calls[i].sends
  /\ \A i \in DOMAIN calls : calls'[i].outcome = IF i \in pick THEN outcome ELSE calls[i].outcome

LEMMA DrainSettles ==
  ASSUME Types, calls' = drain(calls)
  PROVE  Settles({i \in DOMAIN calls : Pending(i)}, "rejected")
<1>1. Len(calls) \in Nat /\ DOMAIN calls = 1..Len(calls) /\ \A i \in DOMAIN calls : calls[i] \in Call
  BY CallFields
<1>2. DOMAIN calls' = DOMAIN calls BY DEF drain
<1>3. ASSUME NEW i \in DOMAIN calls
      PROVE  /\ calls'[i] \in Call /\ calls'[i].op = calls[i].op /\ calls'[i].sends = calls[i].sends
             /\ calls'[i].outcome = IF Pending(i) THEN "rejected" ELSE calls[i].outcome
  <2>1. calls'[i] = IF Pending(i) THEN [calls[i] EXCEPT !.outcome = "rejected"] ELSE calls[i]
    BY DEF drain, Pending
  <2>2. calls[i] \in Call BY <1>1
  <2> QED BY <2>1, <2>2 DEF Call
<1>4. calls' \in Seq(Call)
  <2>1. calls' = [i \in 1..Len(calls) |-> calls'[i]] BY <1>1 DEF drain
  <2>2. calls' \in [1..Len(calls) -> Call] BY <1>1, <1>3, <2>1
  <2> QED BY <1>1, <2>2, SeqDef
<1> QED BY <1>2, <1>3, <1>4 DEF Settles

LEMMA OneSettles ==
  ASSUME Types, NEW i \in DOMAIN calls, NEW o \in {"ok", "rejected"},
         calls' = [calls EXCEPT ![i].outcome = o]
  PROVE  Settles({i}, o)
<1>1. Len(calls) \in Nat /\ DOMAIN calls = 1..Len(calls) /\ calls \in Seq(Call)
      /\ \A j \in DOMAIN calls : calls[j] \in Call
  BY CallFields DEF Types
<1>2. DOMAIN calls' = DOMAIN calls OBVIOUS
<1>3. ASSUME NEW j \in DOMAIN calls
      PROVE  /\ calls'[j] \in Call /\ calls'[j].op = calls[j].op /\ calls'[j].sends = calls[j].sends
             /\ calls'[j].outcome = IF j \in {i} THEN o ELSE calls[j].outcome
  <2>1. calls'[j] = IF j = i THEN [calls[j] EXCEPT !.outcome = o] ELSE calls[j] OBVIOUS
  <2>2. calls[j] \in Call BY <1>1
  <2> QED BY <2>1, <2>2 DEF Call
<1>4. calls' \in Seq(Call)
  <2>1. calls' = [j \in 1..Len(calls) |-> calls'[j]] BY <1>1
  <2>2. calls' \in [1..Len(calls) -> Call] BY <1>1, <1>3, <2>1
  <2> QED BY <1>1, <2>2, SeqDef
<1> QED BY <1>2, <1>3, <1>4 DEF Settles

(* A welcome sends the queue, behind a new replay for each enable held.    *)
Queued == Flushed(calls)
Replayed == Len(calls) + 1 .. Len(calls) + enables

Welcomes ==
  /\ calls' \in Seq(Call)
  /\ DOMAIN calls' = DOMAIN calls \cup Replayed
  /\ \A i \in DOMAIN calls : i \notin Replayed /\ calls'[i].op = calls[i].op
       /\ calls'[i].outcome = calls[i].outcome
       /\ calls'[i].sends = IF i \in Queued THEN calls[i].sends + 1 ELSE calls[i].sends
  /\ \A i \in Replayed : /\ calls'[i].op = "replay" /\ calls'[i].outcome = "pending"
                         /\ calls'[i].sends = 1
  /\ IsFiniteSet(Replayed) /\ Cardinality(Replayed) = enables
  /\ Distinct(frames') /\ frames' \in Seq(Nat)
  /\ \A x : In(frames', x) <=> x \in Queued \/ x \in Replayed

LEMMA WelcomeWelcomes ==
  ASSUME Types, onWelcome
  PROVE  Welcomes
<1>1. /\ Len(calls) \in Nat /\ DOMAIN calls = 1..Len(calls) /\ calls \in Seq(Call)
      /\ \A j \in DOMAIN calls : calls[j] \in Call
      /\ enables \in Nat
  BY CallFields DEF Types
<1> DEFINE n == Len(calls)
           extra == [i \in 1..enables |-> New("replay")]
           all == calls \o extra
<1>2. calls' = Sent(all, Queued \cup Replayed) /\ frames' = InOrder(Replayed) \o InOrder(Queued)
  BY DEF onWelcome, Replays, Queued, Replayed
<1>3. New("replay") \in Call /\ New("replay").op = "replay" /\ New("replay").outcome = "pending"
      /\ New("replay").sends = 0
  BY DEF New, Call, Ops
<1>4. extra \in Seq(Call) /\ Len(extra) = enables
  <2>1. extra \in [1..enables -> Call] BY <1>3
  <2> QED BY <1>1, <2>1, SeqDef
<1> HIDE DEF extra
<1>5. /\ all \in Seq(Call) /\ DOMAIN all = 1..(n + enables)
      /\ \A i \in 1..(n + enables) : all[i] = IF i <= n THEN calls[i] ELSE extra[i - n]
  <2>1. /\ all \in Seq(Call) /\ DOMAIN all = 1..(Len(calls) + Len(extra))
        /\ \A i \in 1..(Len(calls) + Len(extra)) :
             all[i] = IF i <= Len(calls) THEN calls[i] ELSE extra[i - Len(calls)]
    BY <1>1, <1>4, ConcatFields
  <2> QED BY <1>4, <2>1
<1> HIDE DEF all
<1>6. \A i \in 1..n : i \in 1..(n + enables) /\ i <= n /\ i \notin Replayed /\ all[i] = calls[i]
  <2>1. \A i \in 1..n : i \in 1..(n + enables) /\ i <= n /\ i \notin Replayed BY <1>1 DEF Replayed
  <2> QED BY <1>5, <2>1
<1>7. \A i \in Replayed : i \in 1..(n + enables) /\ all[i] = New("replay")
  <2>1. SUFFICES ASSUME NEW i \in Replayed PROVE i \in 1..(n + enables) /\ all[i] = New("replay")
    OBVIOUS
  <2>2. i \in 1..(n + enables) /\ ~(i <= n) /\ i - n \in 1..enables BY <1>1 DEF Replayed
  <2>3. all[i] = extra[i - n] BY <1>5, <2>2
  <2> QED BY <2>2, <2>3 DEF extra
<1>8. 1..(n + enables) = DOMAIN calls \cup Replayed BY <1>1 DEF Replayed
<1>9. IsFiniteSet(Replayed) /\ Cardinality(Replayed) = enables /\ Replayed \subseteq Nat
  <2>1. PICK a \in Nat, b \in Nat : a = Len(calls) + 1 /\ b = Len(calls) + enables BY <1>1
  <2>2. IsFiniteSet(a..b) /\ Cardinality(a..b) = IF a > b THEN 0 ELSE b - a + 1 BY FS_Interval
  <2>3. (IF a > b THEN 0 ELSE b - a + 1) = enables BY <1>1, <2>1
  <2>4. Replayed = a..b BY <2>1 DEF Replayed
  <2> QED BY <2>2, <2>3, <2>4
<1>10. Queued \subseteq DOMAIN calls BY DEF Queued, Flushed
<1>11. DOMAIN calls' = 1..(n + enables) BY <1>2, <1>5 DEF Sent
<1>12. ASSUME NEW i \in DOMAIN calls
       PROVE  /\ calls'[i] \in Call /\ calls'[i].op = calls[i].op
              /\ calls'[i].outcome = calls[i].outcome
              /\ calls'[i].sends = IF i \in Queued THEN calls[i].sends + 1 ELSE calls[i].sends
  <2>1. i \in DOMAIN all /\ all[i] = calls[i] /\ i \notin Replayed BY <1>1, <1>5, <1>6
  <2>2. calls'[i] = IF i \in Queued THEN [calls[i] EXCEPT !.sends = @ + 1] ELSE calls[i]
    BY <1>2, <2>1 DEF Sent
  <2>3. calls[i] \in Call BY <1>1
  <2> QED BY <2>2, <2>3 DEF Call
<1>13. ASSUME NEW i \in Replayed
       PROVE  /\ calls'[i] \in Call /\ calls'[i].op = "replay" /\ calls'[i].outcome = "pending"
              /\ calls'[i].sends = 1
  <2>1. i \in DOMAIN all /\ all[i] = New("replay") BY <1>5, <1>7
  <2>2. calls'[i] = [New("replay") EXCEPT !.sends = @ + 1] BY <1>2, <2>1 DEF Sent
  <2>3. calls'[i] = [op |-> "replay", outcome |-> "pending", sends |-> 1] BY <2>2 DEF New
  <2> QED BY <2>3 DEF Call, Ops
<1>14. calls' \in Seq(Call)
  <2>1. \A i \in 1..(n + enables) : calls'[i] \in Call BY <1>8, <1>12, <1>13
  <2>2. calls' = [i \in 1..(n + enables) |-> calls'[i]] BY <1>2, <1>5 DEF Sent
  <2>3. calls' \in [1..(n + enables) -> Call] BY <2>1, <2>2
  <2>4. n + enables \in Nat BY <1>1
  <2> QED BY <2>3, <2>4, SeqDef
<1>15. Distinct(frames') /\ frames' \in Seq(Nat)
       /\ \A x : In(frames', x) <=> x \in Queued \/ x \in Replayed
  <2>1. IsFiniteSet(Queued) /\ Queued \in SUBSET Nat BY <1>10, CallFields, FS_Subset
  <2>2. /\ InOrder(Queued) \in Seq(Queued) /\ Distinct(InOrder(Queued))
        /\ \A x : In(InOrder(Queued), x) <=> x \in Queued
    BY <2>1, InOrderIn
  <2>3. /\ InOrder(Replayed) \in Seq(Replayed) /\ Distinct(InOrder(Replayed))
        /\ \A x : In(InOrder(Replayed), x) <=> x \in Replayed
    BY <1>9, InOrderIn
  <2>4. InOrder(Queued) \in Seq(Nat) BY <2>1, <2>2, Retype
  <2>5. InOrder(Replayed) \in Seq(Nat) BY <1>9, <2>3, Retype
  <2>6. \A x : ~(x \in Queued /\ x \in Replayed) BY <1>1, <1>6, <1>10
  <2> QED BY <1>2, <2>2, <2>3, <2>4, <2>5, <2>6, ConcatIn
<1> QED BY <1>1, <1>6, <1>8, <1>9, <1>11, <1>12, <1>13, <1>14, <1>15 DEF Welcomes

-----------------------------------------------------------------------------
(* Sets of calls, and what a step makes of them                            *)

LEMMA Finite ==
  ASSUME Types
  PROVE  /\ \A op : /\ IsFiniteSet(Of(op)) /\ Cardinality(Of(op)) \in Nat
                    /\ IsFiniteSet(Carried(op)) /\ Cardinality(Carried(op)) \in Nat
         /\ IsFiniteSet(Won) /\ Cardinality(Won) \in Nat
         /\ UserCalls \in Nat
<1>1. IsFiniteSet(DOMAIN calls) BY CallFields
<1>2. \A S \in SUBSET (DOMAIN calls) : IsFiniteSet(S) /\ Cardinality(S) \in Nat
  BY <1>1, FS_Subset, FS_CardinalityType
<1>3. ASSUME NEW op PROVE Of(op) \in SUBSET (DOMAIN calls) /\ Carried(op) \in SUBSET (DOMAIN calls)
  BY DEF Of, Carried
<1>4. Won \in SUBSET (DOMAIN calls) BY <1>3 DEF Won
<1>5. {i \in DOMAIN calls : calls[i].op # "replay"} \in SUBSET (DOMAIN calls) OBVIOUS
<1> QED BY <1>2, <1>3, <1>4, <1>5 DEF UserCalls

LEMMA WireFinite ==
  ASSUME Types, Wire
  PROVE  /\ IsFiniteSet(Grants) /\ Cardinality(Grants) \in Nat
         /\ IsFiniteSet(RefusedReplays) /\ Cardinality(RefusedReplays) \in Nat
<1>1. IsFiniteSet(DOMAIN calls) BY CallFields
<1> DEFINE f == [r \in results |-> r.call]
<1>2. f \in Injection(results, DOMAIN calls) BY DEF Wire, Injection, IsInjective
<1>3. IsFiniteSet(results) BY <1>1, <1>2, FS_Injection
<1>4. Grants \in SUBSET results /\ RefusedReplays \in SUBSET results BY DEF Grants, RefusedReplays
<1> QED BY <1>3, <1>4, FS_Subset, FS_CardinalityType

LEMMA OnWire ==
  ASSUME Types, Wire, NEW i, In(frames, i)
  PROVE  i \in DOMAIN calls /\ calls[i].sends # 0 /\ ~Answered(i)
BY DEF Wire, In

(* The same of a call rather than a place in the queue.                    *)
WireOfCalls ==
  /\ Distinct(frames)
  /\ \A i : In(frames, i) => i \in DOMAIN calls /\ calls[i].sends # 0 /\ ~Answered(i)
  /\ \A r \in results : r.call \in DOMAIN calls /\ calls[r.call].sends # 0
  /\ \A r, s \in results : r.call = s.call => r = s
  /\ \A i \in DOMAIN calls : calls[i].op = "replay" => calls[i].sends # 0

LEMMA WireOf == WireOfCalls => Wire
<1>1. \A k \in DOMAIN frames : In(frames, frames[k]) BY DEF In
<1> QED BY <1>1 DEF Wire, WireOfCalls

LEMMA Room ==
  ASSUME NEW S, NEW T, IsFiniteSet(T), S \subseteq T
  PROVE  IsFiniteSet(S) /\ Cardinality(S) \in Nat /\ Cardinality(T) \in Nat
         /\ Cardinality(S) <= Cardinality(T)
BY FS_Subset, FS_CardinalityType

(* A new call: it is one more of its kind, and one more on the wire if it   *)
(* was sent.                                                               *)
LEMMA AddsSets ==
  ASSUME Types, Wire, NEW op, NEW o, NEW n, Adds(op, o, n), o # "ok", UNCHANGED results,
         \/ UNCHANGED frames
         \/ frames' = Append(frames, Newest)
  PROVE  /\ Of(op)' = Of(op) \cup {Newest} /\ Newest \notin Of(op)
         /\ \A k : k # op => Of(k)' = Of(k)
         /\ Won' = Won /\ Grants' = Grants /\ RefusedReplays' = RefusedReplays
         /\ UNCHANGED frames => \A k : Carried(k)' = Carried(k)
         /\ frames' = Append(frames, Newest) =>
              /\ Carried(op)' = Carried(op) \cup {Newest} /\ Newest \notin Carried(op)
              /\ \A k : k # op => Carried(k)' = Carried(k)
         /\ {i \in DOMAIN calls' : calls'[i].op # "replay"}
              = {i \in DOMAIN calls : calls[i].op # "replay"}
                 \cup (IF op = "replay" THEN {} ELSE {Newest})
<1>1. /\ DOMAIN calls' = DOMAIN calls \cup {Newest} /\ Newest \notin DOMAIN calls
      /\ \A i \in DOMAIN calls : calls'[i] = calls[i]
      /\ calls'[Newest].op = op /\ calls'[Newest].outcome # "ok"
  BY CallFields DEF Adds
<1>2. \A i : In(frames, i) => i \in DOMAIN calls BY OnWire
<1>3. Of(op)' = Of(op) \cup {Newest} /\ Newest \notin Of(op) BY <1>1 DEF Of
<1>4. \A k : k # op => Of(k)' = Of(k) BY <1>1 DEF Of
<1>5. Won' = Won BY <1>1 DEF Won, Of
<1>6. \A r \in results : r.call \in DOMAIN calls /\ calls'[r.call] = calls[r.call]
  BY <1>1 DEF Wire
<1>7. Grants' = Grants /\ RefusedReplays' = RefusedReplays BY <1>6 DEF Grants, RefusedReplays
<1>8. ASSUME UNCHANGED frames PROVE \A k : Carried(k)' = Carried(k)
  BY <1>1, <1>2, <1>8 DEF Carried, Of
<1>9. ASSUME frames' = Append(frames, Newest)
      PROVE  /\ Carried(op)' = Carried(op) \cup {Newest} /\ Newest \notin Carried(op)
             /\ \A k : k # op => Carried(k)' = Carried(k)
  <2>1. frames \in Seq(Nat) /\ Newest \in Nat BY CallFields DEF Types
  <2>2. \A x : In(frames', x) <=> In(frames, x) \/ x = Newest BY <1>9, <2>1, AppendIn
  <2> QED BY <1>1, <1>2, <2>2 DEF Carried, Of
<1>10. {i \in DOMAIN calls' : calls'[i].op # "replay"}
         = {i \in DOMAIN calls : calls[i].op # "replay"}
            \cup (IF op = "replay" THEN {} ELSE {Newest})
  BY <1>1
<1> QED BY <1>3, <1>4, <1>5, <1>7, <1>8, <1>9, <1>10

LEMMA AddsWire ==
  ASSUME Types, Wire, NEW op, NEW o, NEW n, Adds(op, o, n), UNCHANGED results,
         op # "replay",
         \/ UNCHANGED frames
         \/ frames' = Append(frames, Newest) /\ n # 0
  PROVE  Wire' /\ frames' \in Seq(Nat)
<1>1. /\ DOMAIN calls' = DOMAIN calls \cup {Newest} /\ Newest \notin DOMAIN calls
      /\ \A i \in DOMAIN calls : calls'[i] = calls[i]
      /\ calls'[Newest].op = op /\ calls'[Newest].sends = n
      /\ frames \in Seq(Nat) /\ Newest \in Nat
  BY CallFields DEF Adds, Types
<1>2. \A i : In(frames, i) => i \in DOMAIN calls /\ calls[i].sends # 0 /\ ~Answered(i) BY OnWire
<1>3. \A i : Answered(i)' = Answered(i) BY DEF Answered
<1>4. \A r \in results : r.call \in DOMAIN calls /\ calls[r.call].sends # 0 BY DEF Wire
<1>5. ~Answered(Newest) BY <1>1, <1>4 DEF Answered
<1>6. /\ Distinct(frames') /\ frames' \in Seq(Nat)
      /\ \A i : In(frames', i) => i \in DOMAIN calls' /\ calls'[i].sends # 0 /\ ~Answered(i)'
  <2>1. CASE UNCHANGED frames BY <1>1, <1>2, <1>3, <2>1 DEF Wire
  <2>2. CASE frames' = Append(frames, Newest) /\ n # 0
    <3>1. ~In(frames, Newest) /\ Distinct(frames) BY <1>1, <1>2 DEF Wire
    <3>2. /\ Distinct(frames') /\ frames' \in Seq(Nat)
          /\ \A x : In(frames', x) <=> In(frames, x) \/ x = Newest
      BY <1>1, <2>2, <3>1, AppendIn
    <3> QED BY <1>1, <1>2, <1>3, <1>5, <2>2, <3>2
  <2> QED BY <2>1, <2>2
<1>7. \A r \in results' : r.call \in DOMAIN calls' /\ calls'[r.call].sends # 0 BY <1>1, <1>4
<1>8. \A r, s \in results' : r.call = s.call => r = s BY DEF Wire
<1>9. \A i \in DOMAIN calls' : calls'[i].op = "replay" => calls'[i].sends # 0 BY <1>1 DEF Wire
<1>10. Wire'
  <2>1. WireOfCalls' BY <1>6, <1>7, <1>8, <1>9 DEF WireOfCalls
  <2> QED BY <2>1, WireOf, PTL
<1> QED BY <1>6, <1>10

-----------------------------------------------------------------------------
(* The calls of the application keep the books                             *)

LEMMA AddsBounded ==
  ASSUME Base, NEW op \in {"execute", "enable", "disable"}, NEW o, NEW n, Adds(op, o, n),
         o # "ok", UserCalls < MaxCalls, MaxCalls \in Nat, UNCHANGED <<results, peer>>,
         enables' \in Nat, enables' <= enables,
         \/ UNCHANGED frames
         \/ frames' = Append(frames, Newest)
  PROVE  Bounded'
<1>0. Types /\ Wire BY DEF Base
<1>1. /\ Of(op)' = Of(op) \cup {Newest} /\ Newest \notin Of(op)
      /\ \A k : k # op => Of(k)' = Of(k)
      /\ Won' = Won
      /\ UNCHANGED frames => \A k : Carried(k)' = Carried(k)
      /\ frames' = Append(frames, Newest) =>
           /\ Carried(op)' = Carried(op) \cup {Newest} /\ Newest \notin Carried(op)
           /\ \A k : k # op => Carried(k)' = Carried(k)
      /\ {i \in DOMAIN calls' : calls'[i].op # "replay"}
           = {i \in DOMAIN calls : calls[i].op # "replay"} \cup {Newest}
  BY <1>0, AddsSets
<1>2. /\ \A k : /\ IsFiniteSet(Of(k)) /\ Cardinality(Of(k)) \in Nat
                /\ IsFiniteSet(Carried(k)) /\ Cardinality(Carried(k)) \in Nat
      /\ Cardinality(Won) \in Nat /\ UserCalls \in Nat
  BY <1>0, Finite
<1>3. UserCalls' <= MaxCalls
  <2> DEFINE S == {i \in DOMAIN calls : calls[i].op # "replay"}
  <2>1. IsFiniteSet(DOMAIN calls) /\ S \in SUBSET (DOMAIN calls) BY <1>0, CallFields
  <2>2. IsFiniteSet(S) BY <2>1, FS_Subset
  <2>3. Newest \notin S BY <1>0, CallFields
  <2>4. Cardinality(S \cup {Newest}) = Cardinality(S) + 1 BY <2>2, <2>3, FS_AddElement
  <2>5. UserCalls' = UserCalls + 1 BY <1>1, <2>4 DEF UserCalls
  <2> QED BY <1>2, <2>5
<1>4. enables' <= Cardinality(Won')
  BY <1>0, <1>1, <1>2 DEF Base, Bounded, Types
<1>5. /\ Cardinality(Of(op)') = Cardinality(Of(op)) + 1
      /\ frames' = Append(frames, Newest) =>
           Cardinality(Carried(op)') = Cardinality(Carried(op)) + 1
  <2>1. IsFiniteSet(Of(op)) /\ IsFiniteSet(Carried(op)) BY <1>2
  <2>2. Cardinality(Of(op) \cup {Newest}) = Cardinality(Of(op)) + 1 BY <1>1, <2>1, FS_AddElement
  <2>3. Newest \notin Carried(op) =>
          Cardinality(Carried(op) \cup {Newest}) = Cardinality(Carried(op)) + 1
    BY <2>1, FS_AddElement
  <2> QED BY <1>1, <2>2, <2>3
<1>6. peer + Cardinality(Carried("replay")') + Cardinality(Carried("enable")')
        <= Cardinality(Of("enable")')
  <2>0. PICK p \in Nat, a \in Nat, b \in Nat, c \in Nat :
          /\ p = peer /\ a = Cardinality(Carried("replay")) /\ b = Cardinality(Carried("enable"))
          /\ c = Cardinality(Of("enable")) /\ p + a + b <= c
    BY <1>0, <1>2 DEF Base, Bounded, Types
  <2>1. Cardinality(Carried("replay")') = a BY <1>1, <2>0
  <2>2. CASE op # "enable"
    <3>1. Cardinality(Carried("enable")') = b /\ Cardinality(Of("enable")') = c
      BY <1>1, <2>0, <2>2
    <3> QED BY <2>0, <2>1, <3>1
  <2>3. CASE op = "enable"
    <3>1. Cardinality(Of("enable")') = c + 1 BY <1>5, <2>0, <2>3
    <3>2. Cardinality(Carried("enable")') = b \/ Cardinality(Carried("enable")') = b + 1
      BY <1>1, <1>5, <2>0, <2>3
    <3>3. PICK x \in Nat : x = Cardinality(Carried("enable")') /\ x <= b + 1 BY <2>0, <3>2
    <3>4. p + a + x <= c + 1 BY <2>0, <3>3
    <3> QED BY <2>0, <2>1, <3>1, <3>3, <3>4, Zenon
  <2> QED BY <2>2, <2>3
<1> QED BY <1>3, <1>4, <1>6 DEF Bounded

LEMMA AddsCovered ==
  ASSUME Base, Coverage, NEW op \in {"execute", "enable", "disable"}, NEW o, NEW n,
         Adds(op, o, n), o # "ok", UNCHANGED <<status, results, peer, reported>>,
         wanted' \in Nat,
         IF op = "disable" THEN wanted' = wanted - 1 /\ status = "ready" ELSE wanted' = wanted,
         \/ UNCHANGED frames
         \/ frames' = Append(frames, Newest)
  PROVE  Coverage'
<1>0. Types /\ Wire BY DEF Base
<1>1. /\ Of(op)' = Of(op) \cup {Newest} /\ Newest \notin Of(op)
      /\ \A k : k # op => Of(k)' = Of(k)
      /\ Grants' = Grants /\ RefusedReplays' = RefusedReplays
      /\ UNCHANGED frames => \A k : Carried(k)' = Carried(k)
      /\ frames' = Append(frames, Newest) =>
           /\ Carried(op)' = Carried(op) \cup {Newest} /\ Newest \notin Carried(op)
           /\ \A k : k # op => Carried(k)' = Carried(k)
  BY <1>0, AddsSets
<1>2. \A k : /\ IsFiniteSet(Carried(k)) /\ Cardinality(Carried(k)) \in Nat
  BY <1>0, Finite
<1>3. /\ \A i \in DOMAIN calls : calls'[i] = calls[i]
      /\ Newest \notin DOMAIN calls /\ frames \in Seq(Nat) /\ Newest \in Nat
  BY <1>0, CallFields DEF Adds, Types
<1>5. DisablesEnd'
  <2>1. SUFFICES ASSUME status # "ready", NEW i \in Of("disable")' PROVE ~Pending(i)'
    BY DEF DisablesEnd
  <2>2. op # "disable" BY <2>1
  <2>3. i \in Of("disable") BY <1>1, <2>1, <2>2
  <2>4. ~Pending(i) BY <2>1, <2>3 DEF Coverage, DisablesEnd
  <2> QED BY <1>3, <2>3, <2>4 DEF Pending, Of
<1>6. ReplaysWait'
  <2>1. SUFFICES ASSUME ~reported, NEW i \in Of("replay")', In(frames', i) \/ Answered(i)'
                 PROVE  Pending(i)'
    BY DEF ReplaysWait
  <2>2. i \in Of("replay") /\ i \in DOMAIN calls BY <1>1, <2>1 DEF Of
  <2>3. In(frames, i) \/ Answered(i)
    <3>1. Answered(i)' <=> Answered(i) BY DEF Answered
    <3>2. In(frames', i) => In(frames, i)
      <4>1. CASE UNCHANGED frames BY <4>1
      <4>2. CASE frames' = Append(frames, Newest)
        <5>1. \A x : In(frames', x) <=> In(frames, x) \/ x = Newest BY <1>3, <4>2, AppendIn
        <5> QED BY <1>3, <2>2, <5>1
      <4> QED BY <4>1, <4>2
    <3> QED BY <2>1, <3>1, <3>2
  <2>4. Pending(i) BY <2>1, <2>2, <2>3 DEF Coverage, ReplaysWait
  <2> QED BY <1>3, <2>2, <2>4 DEF Pending
<1>7. Covered'
  <2>0. PICK w \in Nat, d \in Nat, g \in Nat, p \in Nat, a \in Nat, u \in Nat :
          /\ w = wanted /\ d = Cardinality(Carried("disable")) /\ g = Cardinality(Grants)
          /\ p = peer /\ a = Cardinality(Carried("replay")) /\ u = Cardinality(RefusedReplays)
    BY <1>0, <1>2, WireFinite DEF Types
  <2>1. SUFFICES ASSUME status = "ready", ~reported
                 PROVE  wanted' + Cardinality(Carried("disable")') + g
                          <= p + Cardinality(Carried("replay")') + u
    BY <1>1, <2>0 DEF Covered
  <2>2. w + d + g <= p + a + u BY <2>0, <2>1 DEF Coverage, Covered
  <2>3. Cardinality(Carried("replay")') = a BY <1>1, <2>0
  <2>4. CASE op # "disable"
    <3>1. Cardinality(Carried("disable")') = d /\ wanted' = w BY <1>1, <2>0, <2>4
    <3> QED BY <2>2, <2>3, <3>1
  <2>5. CASE op = "disable"
    <3>1. wanted' = w - 1 BY <2>0, <2>5
    <3>2. frames' = Append(frames, Newest) => Cardinality(Carried(op)') = Cardinality(Carried(op)) + 1
      BY <1>1, <1>2, FS_AddElement
    <3>3. Cardinality(Carried("disable")') = d \/ Cardinality(Carried("disable")') = d + 1
      BY <1>1, <2>0, <2>5, <3>2
    <3>4. PICK x \in Nat : x = Cardinality(Carried("disable")') /\ x <= d + 1 BY <2>0, <3>3
    <3>5. x <= d + 1 BY <3>4
    <3>6. w - 1 + x + g <= p + a + u
      BY ONLY w \in Nat, d \in Nat, g \in Nat, p \in Nat, a \in Nat, u \in Nat, x \in Nat,
              <3>5, <2>2
    <3> QED BY <2>0, <2>3, <3>1, <3>4, <3>6
  <2> QED BY <2>4, <2>5
<1> QED BY <1>5, <1>6, <1>7 DEF Coverage

-----------------------------------------------------------------------------
(* Steps that leave the calls and the wire alone, and those that end a      *)
(* connection                                                              *)

LEMMA QuietKeeps ==
  ASSUME Base, UNCHANGED <<calls, enables, wanted, frames, results, peer, reported>>,
         status' = "ready" <=> status = "ready"
  PROVE  Wire' /\ Bounded' /\ Counted' /\ (Coverage => Coverage')
<1>1. Wire' BY DEF Base, Wire, Answered
<1>2. /\ \A k : Of(k)' = Of(k)
      /\ UserCalls' = UserCalls
  BY DEF Of, UserCalls
<1>3. /\ \A k : Carried(k)' = Carried(k)
      /\ Won' = Won
  BY <1>2 DEF Carried, Won
<1>4. Bounded' BY <1>2, <1>3 DEF Base, Bounded
<1>5. Grants' = Grants /\ RefusedReplays' = RefusedReplays BY DEF Grants, RefusedReplays
<1>6. ASSUME Coverage PROVE Coverage'
  <2>2. DisablesEnd' BY <1>2, <1>6 DEF Coverage, DisablesEnd, Pending
  <2>3. ReplaysWait' BY <1>2, <1>6 DEF Coverage, ReplaysWait, Pending, Answered
  <2>4. Covered' BY <1>3, <1>5, <1>6 DEF Coverage, Covered
  <2> QED BY <2>2, <2>3, <2>4 DEF Coverage
<1>7. Counted' BY DEF Base, Counted
<1> QED BY <1>1, <1>4, <1>6, <1>7

LEMMA TeardownKeeps ==
  ASSUME Base, Teardown, status' # "ready", UNCHANGED <<enables, wanted, reported>>
  PROVE  /\ calls' \in Seq(Call) /\ \A i \in DOMAIN calls' : ~Pending(i)'
         /\ Wire' /\ Bounded' /\ Counted' /\ (Coverage => Coverage')
<1>0. Types /\ Wire /\ Bounded BY DEF Base
<1>1. frames' = <<>> /\ results' = {} /\ peer' = 0 /\ calls' = drain(calls) BY DEF Teardown
<1>2. Settles({i \in DOMAIN calls : Pending(i)}, "rejected") BY <1>0, <1>1, DrainSettles
<1>3. \A i \in DOMAIN calls' : ~Pending(i)' BY <1>2 DEF Settles, Pending
<1>4. \A i : ~In(frames', i) /\ ~Answered(i)' BY <1>1, NothingIn DEF Answered
<1>5. Wire' BY <1>0, <1>1, <1>2, NothingIn DEF Settles, Wire
<1>6. /\ \A k : Of(k)' = Of(k)
      /\ UserCalls' = UserCalls
  BY <1>2 DEF Of, UserCalls, Settles
<1>7. \A k : Carried(k)' = {} BY <1>4 DEF Carried
<1>8. Won' = Won
  <2>1. \A i \in DOMAIN calls : calls'[i].outcome = "ok" <=> calls[i].outcome = "ok"
    BY <1>2 DEF Settles, Pending
  <2> QED BY <1>6, <2>1 DEF Won, Of
<1>9. Bounded'
  <2>1. Cardinality({}) = 0 BY FS_EmptySet
  <2>2. Cardinality(Of("enable")) \in Nat BY <1>0, Finite
  <2>3. /\ UserCalls' <= MaxCalls /\ enables' <= Cardinality(Won') BY <1>0, <1>6, <1>8 DEF Bounded
  <2>4. peer' + Cardinality(Carried("replay")') + Cardinality(Carried("enable")')
          <= Cardinality(Of("enable")')
    <3>1. /\ peer' = 0 /\ Cardinality(Carried("replay")') = 0
          /\ Cardinality(Carried("enable")') = 0
          /\ Cardinality(Of("enable")') = Cardinality(Of("enable"))
      BY <1>1, <1>6, <1>7, <2>1
    <3>2. PICK x \in Nat : x = Cardinality(Of("enable")) BY <2>2
    <3> QED BY <3>1, <3>2
  <2> QED BY <2>3, <2>4 DEF Bounded
<1>10. ASSUME Coverage PROVE Coverage'
  <2>2. DisablesEnd' BY <1>3 DEF DisablesEnd, Of
  <2>3. ReplaysWait' BY <1>4 DEF ReplaysWait
  <2>4. Covered' BY DEF Covered
  <2> QED BY <2>2, <2>3, <2>4 DEF Coverage
<1>11. Counted' BY DEF Base, Counted
<1> QED BY <1>2, <1>3, <1>5, <1>9, <1>10, <1>11 DEF Settles

-----------------------------------------------------------------------------
(* A call settles                                                          *)

LEMMA SettlesSets ==
  ASSUME Types, Wire, NEW i \in DOMAIN calls, NEW o, Settles({i}, o), Pending(i), UNCHANGED frames
  PROVE  /\ \A k : Of(k)' = Of(k) /\ Carried(k)' = Carried(k)
         /\ UserCalls' = UserCalls
         /\ i \notin Won
         /\ Won' = IF o = "ok" /\ calls[i].op = "enable" THEN Won \cup {i} ELSE Won
<1>1. \A k : Of(k)' = Of(k) BY DEF Of, Settles
<1>2. \A k : Carried(k)' = Carried(k) BY <1>1 DEF Carried
<1>3. UserCalls' = UserCalls BY DEF UserCalls, Settles
<1>4. i \notin Won BY DEF Won, Pending
<1>5. Won' = {j \in Of("enable") : (IF j = i THEN o ELSE calls[j].outcome) = "ok"}
  BY <1>1 DEF Won, Settles, Of
<1>6. Won' = IF o = "ok" /\ calls[i].op = "enable" THEN Won \cup {i} ELSE Won
  <2>1. CASE o = "ok" /\ calls[i].op = "enable" BY <1>4, <1>5, <2>1 DEF Won, Of
  <2>2. CASE o = "ok" /\ calls[i].op # "enable" BY <1>4, <1>5, <2>2 DEF Won, Of
  <2>3. CASE o # "ok" BY <1>4, <1>5, <2>3 DEF Won, Of
  <2> QED BY <2>1, <2>2, <2>3
<1> QED BY <1>1, <1>2, <1>3, <1>4, <1>6

LEMMA FewerAnswers ==
  ASSUME Types, Wire, DOMAIN calls' = DOMAIN calls, UNCHANGED frames, results' \subseteq results,
         \A i \in DOMAIN calls : calls'[i].op = calls[i].op /\ calls'[i].sends = calls[i].sends
  PROVE  Wire'
<1>1. \A i : Answered(i)' => Answered(i) BY DEF Answered
<1>2. ASSUME NEW k \in DOMAIN frames'
      PROVE  /\ frames'[k] \in DOMAIN calls' /\ calls'[frames'[k]].sends # 0
             /\ ~Answered(frames[k])'
  <2>1. /\ frames[k] \in DOMAIN calls /\ calls[frames[k]].sends # 0 /\ ~Answered(frames[k])
    BY DEF Wire
  <2>2. ~Answered(frames[k])' BY <1>1, <2>1 DEF Answered
  <2> QED BY <2>1, <2>2
<1>3. \A r \in results' : r.call \in DOMAIN calls' /\ calls'[r.call].sends # 0 BY DEF Wire
<1>4. \A r, s \in results' : r.call = s.call => r = s BY DEF Wire
<1>5. \A i \in DOMAIN calls' : calls'[i].op = "replay" => calls'[i].sends # 0 BY DEF Wire
<1>6. Distinct(frames') BY DEF Wire
<1> QED BY <1>2, <1>3, <1>4, <1>5, <1>6 DEF Wire

LEMMA SettleBounded ==
  ASSUME Base, NEW i \in DOMAIN calls, NEW o, Settles({i}, o), Pending(i),
         UNCHANGED <<frames, peer>>,
         enables' = IF o = "ok" /\ calls[i].op = "enable" THEN enables + 1 ELSE enables
  PROVE  Bounded'
<1>1. Types /\ Wire /\ Bounded BY DEF Base
<1>2. /\ \A k : Of(k)' = Of(k) /\ Carried(k)' = Carried(k)
      /\ UserCalls' = UserCalls
      /\ i \notin Won
      /\ Won' = IF o = "ok" /\ calls[i].op = "enable" THEN Won \cup {i} ELSE Won
  BY <1>1, SettlesSets
<1>3. IsFiniteSet(Won) /\ Cardinality(Won) \in Nat /\ enables \in Nat BY <1>1, Finite DEF Types
<1>4. Cardinality(Won \cup {i}) = Cardinality(Won) + 1 BY <1>2, <1>3, FS_AddElement
<1>5. enables <= Cardinality(Won) BY <1>1 DEF Bounded
<1>6. enables' <= Cardinality(Won')
  <2>1. CASE o = "ok" /\ calls[i].op = "enable"
    <3>1. enables' = enables + 1 /\ Cardinality(Won') = Cardinality(Won) + 1 BY <1>2, <1>4, <2>1
    <3>2. PICK w \in Nat, e \in Nat : w = Cardinality(Won) /\ e = enables /\ e <= w BY <1>3, <1>5
    <3> QED BY <3>1, <3>2
  <2>2. CASE ~(o = "ok" /\ calls[i].op = "enable") BY <1>2, <1>5, <2>2
  <2> QED BY <2>1, <2>2
<1> QED BY <1>1, <1>2, <1>6 DEF Bounded

LEMMA CallTimeoutKeeps ==
  ASSUME Base, NEW i \in DOMAIN calls, CallTimeout(i)
  PROVE  Base' /\ (Coverage => Coverage')
<1>0. Types /\ Wire /\ Bounded /\ Phases BY DEF Base
<1>1. /\ Pending(i) /\ calls' = [calls EXCEPT ![i].outcome = "rejected"]
      /\ reported' = (reported \/ calls[i].op = "replay")
      /\ UNCHANGED <<status, sock, retry, enables, wanted, flags, probe, frames, results, peer,
                     silent, drops, refusals>>
  BY DEF CallTimeout, Report, wireVars, countVars
<1>2. Settles({i}, "rejected") BY <1>0, <1>1, OneSettles
<1>3. Types' BY <1>0, <1>1, <1>2 DEF Types, Settles
<1>4. Phases'
  <2>1. \A j \in DOMAIN calls : Pending(j)' => Pending(j) BY <1>2 DEF Settles, Pending
  <2>2. DOMAIN calls' = DOMAIN calls BY <1>2 DEF Settles
  <2> QED BY <1>0, <1>1, <2>1, <2>2 DEF Phases
<1>5. Wire' BY <1>0, <1>1, <1>2, FewerAnswers DEF Settles
<1>6. Bounded' BY <1>1, <1>2, SettleBounded
<1>7. ASSUME Coverage PROVE Coverage'
  <2>1. \A k : Of(k)' = Of(k) /\ Carried(k)' = Carried(k) BY <1>0, <1>1, <1>2, SettlesSets
  <2>2. \A j \in DOMAIN calls : j # i => (Pending(j)' <=> Pending(j)) BY <1>2 DEF Settles, Pending
  <2>4. DisablesEnd'
    <3>1. ~Pending(i)' BY <1>2 DEF Settles, Pending
    <3> QED BY <1>1, <1>7, <2>1, <2>2, <3>1 DEF Coverage, DisablesEnd, Of
  <2>5. ReplaysWait'
    <3>1. SUFFICES ASSUME ~reported', NEW j \in Of("replay"), In(frames, j) \/ Answered(j)
                   PROVE  Pending(j)'
      BY <1>1, <2>1 DEF ReplaysWait, Answered
    <3>2. ~reported /\ j # i BY <1>1, <3>1 DEF Of
    <3> QED BY <1>7, <2>2, <3>1, <3>2 DEF Coverage, ReplaysWait, Of
  <2>6. Covered'
    <3>1. \A r \in results : r.call \in DOMAIN calls /\ calls'[r.call].op = calls[r.call].op
      BY <1>0, <1>2 DEF Settles, Wire
    <3>2. Grants' = Grants /\ RefusedReplays' = RefusedReplays
      BY <1>1, <3>1 DEF Grants, RefusedReplays
    <3>3. ~reported' => ~reported BY <1>1
    <3> QED BY <1>1, <1>7, <2>1, <3>2, <3>3 DEF Coverage, Covered
  <2> QED BY <2>4, <2>5, <2>6 DEF Coverage
<1>8. Counted' BY <1>1 DEF Base, Counted
<1> QED BY <1>3, <1>4, <1>5, <1>6, <1>7, <1>8 DEF Base

(* What an answer does to its call: nothing if nobody waits for it.        *)
LEMMA ResultDoes ==
  ASSUME Base, NEW r \in results, onResult(r)
  PROVE  /\ results' = results \ {r} /\ r.call \in DOMAIN calls
         /\ UNCHANGED <<status, sock, retry, flags, probe, frames, peer, silent, drops, refusals>>
         /\ Pending(r.call) =>
              LET o == IF r.ok THEN "ok" ELSE "rejected"  i == r.call IN
              /\ Settles({i}, o)
              /\ enables' = IF o = "ok" /\ calls[i].op = "enable" THEN enables + 1 ELSE enables
              /\ wanted' = IF o = "ok" /\ calls[i].op = "enable" THEN wanted + 1 ELSE wanted
              /\ r.ok => UNCHANGED reported
              /\ ~r.ok => reported' = (reported \/ calls[i].op = "replay")
         /\ ~Pending(r.call) => UNCHANGED <<calls, enables, wanted, reported>>
<1>1. Types /\ Wire BY DEF Base
<1>2. r.call \in DOMAIN calls /\ r.ok \in BOOLEAN BY <1>1 DEF Wire, Types
<1>3. /\ results' = results \ {r}
      /\ UNCHANGED <<status, sock, retry, flags, probe, frames, peer, silent, drops, refusals>>
  BY DEF onResult, countVars
<1> DEFINE o == IF r.ok THEN "ok" ELSE "rejected"
           i == r.call
<1>4. ASSUME Pending(i)
      PROVE  /\ Settles({i}, o)
             /\ enables' = IF o = "ok" /\ calls[i].op = "enable" THEN enables + 1 ELSE enables
             /\ wanted' = IF o = "ok" /\ calls[i].op = "enable" THEN wanted + 1 ELSE wanted
             /\ r.ok => UNCHANGED reported
             /\ ~r.ok => reported' = (reported \/ calls[i].op = "replay")
  <2>1. calls' = [calls EXCEPT ![i].outcome = o] BY <1>4 DEF onResult
  <2>2. o \in {"ok", "rejected"} OBVIOUS
  <2>3. o = "ok" <=> r.ok BY <1>2
  <2>4. Settles({i}, o)
    <3> HIDE DEF o, i
    <3>1. i \in DOMAIN calls BY <1>2 DEF i
    <3> QED BY <1>1, <2>1, <2>2, <3>1, OneSettles
  <2>5. /\ enables' = IF r.ok /\ calls[i].op = "enable" THEN enables + 1 ELSE enables
        /\ wanted' = IF r.ok /\ calls[i].op = "enable" THEN wanted + 1 ELSE wanted
        /\ r.ok => UNCHANGED reported
        /\ ~r.ok => reported' = (reported \/ calls[i].op = "replay")
    BY <1>4 DEF onResult, Granted, Report
  <2> QED BY <2>3, <2>4, <2>5
<1>5. ASSUME ~Pending(i) PROVE UNCHANGED <<calls, enables, wanted, reported>>
  BY <1>5 DEF onResult
<1> QED BY <1>2, <1>3, <1>4, <1>5

LEMMA onResultBase ==
  ASSUME Base, NEW r \in results, onResult(r)
  PROVE  Base'
<1>0. Types /\ Wire /\ Bounded /\ Phases BY DEF Base
<1> DEFINE o == IF r.ok THEN "ok" ELSE "rejected"
           i == r.call
<1>1. /\ results' = results \ {r} /\ i \in DOMAIN calls
      /\ UNCHANGED <<status, sock, retry, flags, probe, frames, peer, silent, drops, refusals>>
  BY ResultDoes
<1>2. CASE Pending(i)
  <2>1. /\ Settles({i}, o)
        /\ enables' = IF o = "ok" /\ calls[i].op = "enable" THEN enables + 1 ELSE enables
        /\ wanted' = IF o = "ok" /\ calls[i].op = "enable" THEN wanted + 1 ELSE wanted
        /\ r.ok => UNCHANGED reported
        /\ ~r.ok => reported' = (reported \/ calls[i].op = "replay")
    BY <1>2, ResultDoes
  <2> HIDE DEF o, i
  <2>2. Types'
    <3>1. enables' \in Nat /\ wanted' \in Nat BY <1>0, <2>1 DEF Types
    <3>2. reported' \in BOOLEAN BY <1>0, <2>1 DEF Types
    <3>3. calls' \in Seq(Call) /\ results' \subseteq results BY <1>1, <2>1 DEF Settles
    <3> QED BY <1>0, <1>1, <3>1, <3>2, <3>3 DEF Types
  <2>3. Phases'
    <3>1. \A j \in DOMAIN calls : j # i => (Pending(j)' <=> Pending(j))
      BY <2>1 DEF Settles, Pending
    <3>2. status # "closed" BY <1>0, <1>1, <1>2 DEF Phases
    <3>3. results # {} BY DEF i
    <3>4. status = "ready" BY <1>0, <3>3 DEF Phases
    <3> QED BY <1>0, <1>1, <3>4 DEF Phases
  <2>4. Wire' BY <1>0, <1>1, <2>1, FewerAnswers DEF Settles
  <2>5. Bounded' BY <1>1, <1>2, <2>1, SettleBounded
  <2>6. Counted' BY <2>1 DEF Base, Counted
  <2> QED BY <2>2, <2>3, <2>4, <2>5, <2>6 DEF Base
<1>3. CASE ~Pending(i)
  <2>1. UNCHANGED <<calls, enables, wanted, reported>> BY <1>3, ResultDoes
  <2>2. Types' BY <1>0, <1>1, <2>1 DEF Types
  <2>3. Phases' BY <1>0, <1>1, <2>1 DEF Phases, Pending
  <2>4. Wire' BY <1>0, <1>1, <2>1, FewerAnswers
  <2>5. /\ \A k : Of(k)' = Of(k)
        /\ UserCalls' = UserCalls
    BY <2>1 DEF Of, UserCalls
  <2>6. (\A k : Carried(k)' = Carried(k)) /\ Won' = Won BY <1>1, <2>1, <2>5 DEF Carried, Won
  <2>7. Bounded' BY <1>0, <1>1, <2>1, <2>5, <2>6 DEF Bounded
  <2>8. Counted' BY <2>1 DEF Base, Counted
  <2> QED BY <2>2, <2>3, <2>4, <2>7, <2>8 DEF Base
<1> QED BY <1>2, <1>3

LEMMA onResultCoverage ==
  ASSUME Base, Coverage, NEW r \in results, onResult(r)
  PROVE  Coverage'
<1>0. Types /\ Wire BY DEF Base
<1> DEFINE o == IF r.ok THEN "ok" ELSE "rejected"
           i == r.call
           op == calls[i].op
<1>1. /\ results' = results \ {r} /\ i \in DOMAIN calls /\ r.ok \in BOOLEAN
      /\ UNCHANGED <<status, frames, peer>>
  BY <1>0, ResultDoes DEF Types
<1>2. \A j : (Answered(j)' => Answered(j) /\ j # i) /\ (In(frames, j) => j # i)
  <2>1. \A s \in results' : s \in results /\ s.call # i BY <1>0, <1>1 DEF Wire
  <2>2. Answered(i) BY DEF Answered
  <2>3. \A j : In(frames, j) => ~Answered(j) BY <1>0, OnWire
  <2> HIDE DEF i
  <2> QED BY <2>1, <2>2, <2>3 DEF Answered
<1>3. /\ Pending(i) =>
           /\ Settles({i}, o)
           /\ enables' = IF o = "ok" /\ op = "enable" THEN enables + 1 ELSE enables
           /\ wanted' = IF o = "ok" /\ op = "enable" THEN wanted + 1 ELSE wanted
           /\ r.ok => UNCHANGED reported
           /\ ~r.ok => reported' = (reported \/ op = "replay")
      /\ ~Pending(i) => UNCHANGED <<calls, enables, wanted, reported>>
  BY ResultDoes
<1> HIDE DEF i
<1>4. /\ \A k : Of(k)' = Of(k) /\ Carried(k)' = Carried(k)
      /\ \A j \in DOMAIN calls : calls'[j].op = calls[j].op
      /\ \A j \in DOMAIN calls : j # i => (Pending(j)' <=> Pending(j))
      /\ \A j \in DOMAIN calls : Pending(j)' => Pending(j)
      /\ reported => reported'
  <2>1. CASE Pending(i)
    <3>1. Settles({i}, o) BY <1>3, <2>1
    <3>2. \A k : Of(k)' = Of(k) /\ Carried(k)' = Carried(k) BY <1>0, <1>1, <2>1, <3>1, SettlesSets
    <3>3. o # "pending" OBVIOUS
    <3>4. /\ \A j \in DOMAIN calls : calls'[j].op = calls[j].op
          /\ \A j \in DOMAIN calls : j # i => (Pending(j)' <=> Pending(j))
          /\ \A j \in DOMAIN calls : Pending(j)' => Pending(j)
      BY <3>1, <3>3 DEF Settles, Pending
    <3>5. reported => reported' BY <1>1, <1>3, <2>1
    <3> QED BY <3>2, <3>4, <3>5
  <2>2. CASE ~Pending(i)
    <3>1. UNCHANGED <<calls, reported>> BY <1>3, <2>2
    <3>2. \A k : Of(k)' = Of(k) BY <3>1 DEF Of
    <3>3. \A k : Carried(k)' = Carried(k) BY <1>1, <3>2 DEF Carried
    <3> QED BY <3>1, <3>2, <3>3 DEF Pending
  <2> QED BY <2>1, <2>2
<1>6. DisablesEnd'
  <2>1. SUFFICES ASSUME status # "ready", NEW j \in Of("disable") PROVE ~Pending(j)'
    BY <1>1, <1>4 DEF DisablesEnd
  <2> QED BY <1>4, <2>1 DEF Coverage, DisablesEnd, Of
<1>7. ReplaysWait'
  <2>1. SUFFICES ASSUME ~reported', NEW j \in Of("replay"), In(frames, j) \/ Answered(j)'
                 PROVE  Pending(j)'
    BY <1>1, <1>4 DEF ReplaysWait
  <2>2. j # i /\ (In(frames, j) \/ Answered(j)) /\ j \in DOMAIN calls BY <1>2, <2>1 DEF Of
  <2>3. Pending(j) BY <1>4, <2>1, <2>2 DEF Coverage, ReplaysWait
  <2> QED BY <1>4, <2>2, <2>3
<1>8. Covered'
  <2>1. SUFFICES ASSUME status = "ready", ~reported'
                 PROVE  wanted' + Cardinality(Carried("disable")) + Cardinality(Grants')
                          <= peer + Cardinality(Carried("replay")) + Cardinality(RefusedReplays')
    BY <1>1, <1>4 DEF Covered
  <2>2. \A s \in results : s.call \in DOMAIN calls /\ calls'[s.call].op = calls[s.call].op
    BY <1>0, <1>4 DEF Wire
  <2>3. Grants' = Grants \ {r} /\ RefusedReplays' = RefusedReplays \ {r}
    BY <1>1, <2>2 DEF Grants, RefusedReplays
  <2>4. r \in Grants <=> r.ok /\ op = "enable" BY DEF Grants, i
  <2>5. r \notin RefusedReplays
    <3>1. SUFFICES ASSUME r \in RefusedReplays PROVE FALSE OBVIOUS
    <3>2. ~r.ok /\ op = "replay" /\ i \in Of("replay") /\ Answered(i)
      BY <1>1, <3>1 DEF RefusedReplays, i, Of, Answered
    <3>3. ~reported BY <1>4, <2>1
    <3>4. Pending(i) BY <3>2, <3>3 DEF Coverage, ReplaysWait
    <3> QED BY <1>3, <2>1, <3>2, <3>4
  <2>6. RefusedReplays' = RefusedReplays BY <2>3, <2>5
  <2>7. /\ IsFiniteSet(Grants) /\ Cardinality(Grants) \in Nat
        /\ Cardinality(RefusedReplays) \in Nat
        /\ \A k : Cardinality(Carried(k)) \in Nat
    BY <1>0, Finite, WireFinite
  <2>8. Cardinality(Grants') = IF r \in Grants THEN Cardinality(Grants) - 1 ELSE Cardinality(Grants)
    BY <2>3, <2>7, FS_RemoveElement
  <2>9. PICK w \in Nat, d \in Nat, g \in Nat, p \in Nat, a \in Nat, u \in Nat :
          /\ w = wanted /\ d = Cardinality(Carried("disable")) /\ g = Cardinality(Grants)
          /\ p = peer /\ a = Cardinality(Carried("replay")) /\ u = Cardinality(RefusedReplays)
    BY <1>0, <2>7 DEF Types
  <2>10. ~reported BY <1>4, <2>1
  <2>11. w + d + g <= p + a + u BY <2>1, <2>9, <2>10 DEF Coverage, Covered
  <2>12. CASE r \in Grants
    <3>1. wanted' = w \/ wanted' = w + 1 BY <1>3, <2>9
    <3>2. Cardinality(Grants') = g - 1 BY <2>8, <2>9, <2>12
    <3>3. PICK v \in Nat : v = wanted' /\ v <= w + 1 BY <2>9, <3>1
    <3>4. v <= w + 1 BY <3>3
    <3>5. v + d + (g - 1) <= p + a + u
      BY ONLY w \in Nat, d \in Nat, g \in Nat, p \in Nat, a \in Nat, u \in Nat, v \in Nat, <2>11, <3>4
    <3> QED BY <2>6, <2>9, <3>2, <3>3, <3>5
  <2>13. CASE r \notin Grants
    <3>1. ~(r.ok /\ op = "enable") BY <2>4, <2>13
    <3>2. wanted' = w BY <1>3, <2>9, <3>1
    <3>3. Cardinality(Grants') = g BY <2>8, <2>9, <2>13
    <3> QED BY <2>6, <2>9, <2>11, <3>2, <3>3
  <2> QED BY <2>12, <2>13
<1> QED BY <1>6, <1>7, <1>8 DEF Coverage

LEMMA onResultKeeps ==
  ASSUME Base, NEW r \in results, onResult(r)
  PROVE  Base' /\ (Coverage => Coverage')
BY onResultBase, onResultCoverage

-----------------------------------------------------------------------------
(* A connection is welcomed                                                *)

LEMMA onWelcomeBase ==
  ASSUME ClientAssumption, Base, onWelcome
  PROVE  Base'
<1>0. Types /\ Wire /\ Bounded /\ Phases BY DEF Base
<1>1. Welcomes BY <1>0, WelcomeWelcomes
<1>2. /\ status = "connecting" /\ status' = "ready" /\ sock = "open" /\ probe' = "idle"
      /\ retry' = [armed |-> FALSE, attempts |-> 0] /\ reported' = FALSE
      /\ UNCHANGED <<sock, enables, wanted, flags, results, peer, silent, drops, refusals>>
  BY DEF onWelcome, countVars
<1>3. frames = <<>> /\ results = {} /\ peer = 0 /\ ~silent BY <1>0, <1>2 DEF Phases
<1>4. Types'
  <2>1. retry' \in [armed : BOOLEAN, attempts : 0..MaxAttempts] BY <1>2 DEF ClientAssumption
  <2> QED BY <1>0, <1>1, <1>2, <2>1 DEF Types, Welcomes
<1>5. Phases'
  <2>1. ~retry'.armed BY <1>2
  <2> QED BY <1>2, <2>1 DEF Phases
<1>6. Queued \subseteq DOMAIN calls /\ \A i \in Queued : calls[i].outcome = "pending" /\ calls[i].sends = 0
  BY DEF Queued, Flushed
<1>7. Wire'
  <2>1. \A i : ~Answered(i)' BY <1>2, <1>3 DEF Answered
  <2>2. \A i \in DOMAIN calls' : In(frames', i) => calls'[i].sends # 0
    <3>1. SUFFICES ASSUME NEW i \in DOMAIN calls', In(frames', i) PROVE calls'[i].sends # 0
      OBVIOUS
    <3>2. CASE i \in Replayed BY <1>1, <3>2 DEF Welcomes
    <3>3. CASE i \in Queued
      <4>1. calls'[i].sends = calls[i].sends + 1 /\ calls[i].sends = 0 BY <1>1, <1>6, <3>3 DEF Welcomes
      <4> QED BY <4>1
    <3> QED BY <1>1, <3>1, <3>2, <3>3 DEF Welcomes
  <2>3. \A i : In(frames', i) => i \in DOMAIN calls' BY <1>1, <1>6 DEF Welcomes
  <2>4. \A i \in DOMAIN calls' : calls'[i].op = "replay" => calls'[i].sends # 0
    <3>1. SUFFICES ASSUME NEW i \in DOMAIN calls', calls'[i].op = "replay" PROVE calls'[i].sends # 0
      OBVIOUS
    <3>2. CASE i \in Replayed BY <1>1, <3>2 DEF Welcomes
    <3>3. CASE i \in DOMAIN calls
      <4>1. calls[i].op = "replay" /\ calls[i].sends # 0 BY <1>0, <1>1, <3>1, <3>3 DEF Welcomes, Wire
      <4>2. i \notin Queued BY <1>6, <4>1
      <4> QED BY <1>1, <3>3, <4>1, <4>2 DEF Welcomes
    <3> QED BY <1>1, <3>1, <3>2, <3>3 DEF Welcomes
  <2>5. Distinct(frames') BY <1>1 DEF Welcomes
  <2>6. WireOfCalls' BY <1>2, <1>3, <2>1, <2>2, <2>3, <2>4, <2>5 DEF WireOfCalls
  <2> QED BY <2>6, WireOf, PTL
<1>8. Bounded'
  <2>1. Of("enable")' = Of("enable") BY <1>1 DEF Of, Welcomes
  <2>2. Won' = Won BY <1>1, <2>1 DEF Won, Welcomes, Of
  <2>3. UserCalls' = UserCalls
    <3>1. {i \in DOMAIN calls' : calls'[i].op # "replay"} = {i \in DOMAIN calls : calls[i].op # "replay"}
      BY <1>1 DEF Welcomes
    <3> QED BY <3>1 DEF UserCalls
  <2>4. Carried("replay")' = Replayed
    <3>1. \A i \in Queued : calls[i].op # "replay" BY <1>0, <1>6 DEF Wire
    <3> QED BY <1>1, <1>6, <3>1 DEF Carried, Of, Welcomes
  <2>5. Carried("enable")' \subseteq Of("enable") \ Won
    <3>1. \A i \in Carried("enable")' : i \in Queued /\ i \in Of("enable")
      BY <1>1, <2>1 DEF Carried, Of, Welcomes
    <3>2. \A i \in Queued : i \notin Won BY <1>6 DEF Won
    <3> QED BY <3>1, <3>2
  <2>6. IsFiniteSet(Of("enable")) /\ IsFiniteSet(Won) /\ Won \subseteq Of("enable")
        /\ Cardinality(Won) \in Nat /\ Cardinality(Of("enable")) \in Nat /\ enables \in Nat
    BY <1>0, Finite DEF Won, Types
  <2>7. Cardinality(Of("enable") \ Won) = Cardinality(Of("enable")) - Cardinality(Won)
        /\ IsFiniteSet(Of("enable") \ Won)
    <3>1. Of("enable") \cap Won = Won BY <2>6
    <3> QED BY <2>6, <3>1, FS_Difference
  <2>8. Cardinality(Carried("enable")') <= Cardinality(Of("enable") \ Won)
        /\ Cardinality(Carried("enable")') \in Nat
    BY <2>5, <2>7, Room
  <2>9. Cardinality(Carried("replay")') = enables BY <1>1, <2>4 DEF Welcomes
  <2>10. PICK e \in Nat, w \in Nat, n \in Nat, c \in Nat :
           /\ e = enables /\ w = Cardinality(Won) /\ n = Cardinality(Of("enable"))
           /\ c = Cardinality(Carried("enable")')
    BY <2>6, <2>8
  <2>11. e <= w BY <1>0, <2>10 DEF Bounded
  <2>12. c <= n - w BY <2>7, <2>8, <2>10
  <2>13. 0 + e + c <= n
    BY ONLY e \in Nat, w \in Nat, n \in Nat, c \in Nat, <2>11, <2>12
  <2>14. peer' + Cardinality(Carried("replay")') + Cardinality(Carried("enable")')
           <= Cardinality(Of("enable")')
    BY <1>2, <1>3, <2>1, <2>9, <2>10, <2>13
  <2> QED BY <1>0, <1>2, <2>2, <2>3, <2>14 DEF Bounded
<1>9. Counted' BY <1>2 DEF Base, Counted
<1> QED BY <1>4, <1>5, <1>7, <1>8, <1>9 DEF Base

LEMMA onWelcomeCoverage ==
  ASSUME ClientAssumption, Base, Coverage, onWelcome
  PROVE  Coverage'
<1>0. Types /\ Wire /\ Phases BY DEF Base
<1>1. Welcomes BY <1>0, WelcomeWelcomes
<1>2. status = "connecting" /\ status' = "ready" /\ UNCHANGED <<enables, wanted, results, peer>>
  BY DEF onWelcome
<1>3. results = {} /\ peer = 0 BY <1>0, <1>2 DEF Phases
<1>4. Queued \subseteq DOMAIN calls /\ \A i \in Queued : calls[i].outcome = "pending"
  BY DEF Queued, Flushed
<1>6. DisablesEnd' BY <1>2 DEF DisablesEnd
<1>7. ReplaysWait'
  <2>1. \A i : ~Answered(i)' BY <1>2, <1>3 DEF Answered
  <2>2. \A i : In(frames', i) => calls'[i].outcome = "pending" BY <1>1, <1>4 DEF Welcomes
  <2> QED BY <2>1, <2>2 DEF ReplaysWait, Pending
<1>8. Covered'
  <2>1. Carried("disable")' = {}
    <3>1. \A i \in Queued : calls[i].op # "disable"
      BY <1>2, <1>4 DEF Coverage, DisablesEnd, Pending, Of
    <3> QED BY <1>1, <1>4, <3>1 DEF Carried, Of, Welcomes
  <2>2. Carried("replay")' = Replayed
    <3>1. \A i \in Queued : calls[i].op # "replay" BY <1>0 DEF Wire, Queued, Flushed
    <3> QED BY <1>1, <1>4, <3>1 DEF Carried, Of, Welcomes
  <2>3. Grants' = {} /\ RefusedReplays' = {} BY <1>2, <1>3 DEF Grants, RefusedReplays
  <2>4. Cardinality({}) = 0 BY FS_EmptySet
  <2>5. Cardinality(Replayed) = enables /\ wanted = enables /\ enables \in Nat
    BY <1>0, <1>1 DEF Welcomes, Types, Base, Counted
  <2>6. PICK e \in Nat : e = enables BY <2>5
  <2>7. /\ wanted' = e /\ Cardinality(Carried("disable")') = 0 /\ Cardinality(Grants') = 0
        /\ peer' = 0 /\ Cardinality(Carried("replay")') = e /\ Cardinality(RefusedReplays') = 0
    BY <1>2, <1>3, <2>1, <2>2, <2>3, <2>4, <2>5, <2>6
  <2> QED BY <2>7 DEF Covered
<1> QED BY <1>6, <1>7, <1>8 DEF Coverage

-----------------------------------------------------------------------------
(* The bridge takes a frame                                                *)

Answers(i, ok) == [call |-> i, ok |-> ok]

LEMMA TakesDoes ==
  ASSUME ClientAssumption, Base, BridgeTakes
  PROVE  \E i \in DOMAIN calls, ok \in BOOLEAN :
           /\ In(frames, i) /\ frames' \in Seq(Nat) /\ Distinct(frames')
           /\ \A x : In(frames', x) <=> In(frames, x) /\ x # i
           /\ results' = results \cup {Answers(i, ok)}
           /\ ~Answered(i)
           /\ peer' \in Nat
           /\ peer' = IF ok /\ calls[i].op \in {"enable", "replay"} THEN peer + 1
                      ELSE IF calls[i].op = "disable" /\ peer > 0 THEN peer - 1
                      ELSE peer
           /\ refusals' \in 0..MaxRefusals
<1>0. Types /\ Wire BY DEF Base
<1>1. frames \in Seq(Nat) /\ frames # <<>> /\ Distinct(frames) BY <1>0 DEF BridgeTakes, Types, Wire
<1>2. PICK i : i = Head(frames) OBVIOUS
<1>3. /\ Tail(frames) \in Seq(Nat) /\ In(frames, i) /\ Distinct(Tail(frames))
      /\ \A x : In(Tail(frames), x) <=> In(frames, x) /\ x # i
  BY <1>1, <1>2, TailIn
<1>4. i \in DOMAIN calls /\ ~Answered(i) BY <1>0, <1>3, OnWire
<1>5. frames' = Tail(frames) BY DEF BridgeTakes
<1>6. peer \in Nat /\ refusals \in 0..MaxRefusals BY <1>0 DEF Types
<1>7. \/ /\ results' = results \cup {[call |-> i, ok |-> TRUE]}
         /\ peer' = IF calls[i].op \in {"enable", "replay"} THEN peer + 1
                    ELSE IF calls[i].op = "disable" /\ peer > 0 THEN peer - 1
                    ELSE peer
         /\ UNCHANGED refusals
      \/ /\ refusals < MaxRefusals /\ refusals' = refusals + 1
         /\ results' = results \cup {[call |-> i, ok |-> FALSE]}
         /\ peer' = IF calls[i].op = "disable" /\ peer > 0 THEN peer - 1 ELSE peer
  BY <1>2 DEF BridgeTakes
<1>8. PICK ok \in BOOLEAN :
        /\ results' = results \cup {Answers(i, ok)}
        /\ peer' = IF ok /\ calls[i].op \in {"enable", "replay"} THEN peer + 1
                   ELSE IF calls[i].op = "disable" /\ peer > 0 THEN peer - 1
                   ELSE peer
        /\ refusals' = refusals \/ (refusals' = refusals + 1 /\ refusals < MaxRefusals)
  BY <1>7 DEF Answers
<1>9. peer' \in Nat BY <1>6, <1>8
<1>10. refusals' \in 0..MaxRefusals BY <1>6, <1>8 DEF ClientAssumption
<1> QED BY <1>3, <1>4, <1>5, <1>8, <1>9, <1>10

LEMMA BridgeTakesKeeps ==
  ASSUME ClientAssumption, Base, BridgeTakes
  PROVE  Base' /\ (Coverage => Coverage')
<1>0. Types /\ Wire /\ Bounded /\ Phases BY DEF Base
<1>1. PICK i \in DOMAIN calls, ok \in BOOLEAN :
           /\ In(frames, i) /\ frames' \in Seq(Nat) /\ Distinct(frames')
           /\ \A x : In(frames', x) <=> In(frames, x) /\ x # i
           /\ results' = results \cup {Answers(i, ok)}
           /\ ~Answered(i)
           /\ peer' \in Nat
           /\ peer' = IF ok /\ calls[i].op \in {"enable", "replay"} THEN peer + 1
                      ELSE IF calls[i].op = "disable" /\ peer > 0 THEN peer - 1
                      ELSE peer
           /\ refusals' \in 0..MaxRefusals
  BY TakesDoes
<1>2. UNCHANGED <<status, sock, retry, calls, enables, wanted, flags, probe, silent, drops, reported>>
  BY DEF BridgeTakes, outboxVars
<1>3. status = "ready"
  <2>1. frames # <<>> BY DEF BridgeTakes
  <2> QED BY <1>0, <2>1 DEF Phases
<1> DEFINE op == calls[i].op
           r == Answers(i, ok)
<1>4. r \in [call : Nat, ok : BOOLEAN] /\ r.call = i /\ r.ok = ok /\ r \notin results
  BY <1>0, <1>1, CallFields DEF Answers, Answered
<1>5. \A j : Answered(j)' <=> Answered(j) \/ j = i BY <1>1, <1>4 DEF Answered
<1> HIDE DEF r
<1>6. Types'
  <2>1. results' \subseteq [call : Nat, ok : BOOLEAN] BY <1>0, <1>1, <1>4 DEF Types, r
  <2> QED BY <1>0, <1>1, <1>2, <2>1 DEF Types
<1>7. Phases' BY <1>0, <1>2, <1>3 DEF Phases, Pending
<1>8. Wire'
  <2>1. /\ Distinct(frames)'
        /\ (\A j : In(frames, j) => j \in DOMAIN calls /\ calls[j].sends # 0 /\ ~Answered(j))'
    <3>1. \A j : In(frames, j) => j \in DOMAIN calls /\ calls[j].sends # 0 /\ ~Answered(j)
      BY <1>0, OnWire
    <3> QED BY <1>1, <1>2, <1>5, <3>1
  <2>2. (\A s \in results : s.call \in DOMAIN calls /\ calls[s.call].sends # 0)'
    <3>1. calls[i].sends # 0 BY <1>0, <1>1, OnWire
    <3>2. \A s \in results : s.call \in DOMAIN calls /\ calls[s.call].sends # 0 BY <1>0 DEF Wire
    <3>3. \A s \in results' : s \in results \/ s = r BY <1>1 DEF r
    <3> QED BY <1>2, <1>4, <3>1, <3>2, <3>3
  <2>3. (\A s, t \in results : s.call = t.call => s = t)'
    <3>1. \A s \in results : s.call # i BY <1>1 DEF Answered
    <3>2. \A s \in results' : s \in results \/ s = r BY <1>1 DEF r
    <3>3. \A s, t \in results : s.call = t.call => s = t BY <1>0 DEF Wire
    <3> QED BY <1>4, <3>1, <3>2, <3>3
  <2>4. (\A j \in DOMAIN calls : calls[j].op = "replay" => calls[j].sends # 0)'
    BY <1>0, <1>2 DEF Wire
  <2>5. WireOfCalls' BY <2>1, <2>2, <2>3, <2>4 DEF WireOfCalls
  <2> QED BY <2>5, WireOf, PTL
<1>9. /\ \A k : Of(k)' = Of(k)
      /\ UserCalls' = UserCalls
  BY <1>2 DEF Of, UserCalls
<1>10. Won' = Won BY <1>2, <1>9 DEF Won
<1>11. \A k : Carried(k)' = Carried(k) \ {i} /\ (i \in Carried(k) <=> k = op)
  BY <1>1, <1>9 DEF Carried, Of
<1>12. \A k : IsFiniteSet(Carried(k)) /\ Cardinality(Carried(k)) \in Nat /\ Cardinality(Of(k)) \in Nat
  BY <1>0, Finite
<1>13. \A k : Cardinality(Carried(k)')
                = IF k = op THEN Cardinality(Carried(k)) - 1 ELSE Cardinality(Carried(k))
  <2>1. SUFFICES ASSUME NEW k
                 PROVE  Cardinality(Carried(k)')
                          = IF k = op THEN Cardinality(Carried(k)) - 1 ELSE Cardinality(Carried(k))
    OBVIOUS
  <2>2. Cardinality(Carried(k) \ {i})
          = IF i \in Carried(k) THEN Cardinality(Carried(k)) - 1 ELSE Cardinality(Carried(k))
    BY <1>12, FS_RemoveElement
  <2> QED BY <1>11, <2>2
<1>14. Bounded'
  <2>1. PICK p \in Nat, a \in Nat, b \in Nat, c \in Nat :
          /\ p = peer /\ a = Cardinality(Carried("replay")) /\ b = Cardinality(Carried("enable"))
          /\ c = Cardinality(Of("enable"))
    BY <1>0, <1>12 DEF Types
  <2>2. p + a + b <= c BY <1>0, <2>1 DEF Bounded
  <2>3. Cardinality(Of("enable")') = c BY <1>9, <2>1
  <2>4. peer' + Cardinality(Carried("replay")') + Cardinality(Carried("enable")') <= c
    <3>1. CASE op = "replay"
      <4>1. Cardinality(Carried("replay")') = a - 1 /\ Cardinality(Carried("enable")') = b
        BY <1>13, <2>1, <3>1
      <4>2. peer' = p \/ peer' = p + 1 BY <1>1, <2>1, <3>1
      <4>3. PICK q \in Nat : q = peer' /\ q <= p + 1 BY <1>1, <2>1, <4>2
      <4>4. q <= p + 1 BY <4>3
      <4>5. q + (a - 1) + b <= c
        BY ONLY p \in Nat, a \in Nat, b \in Nat, c \in Nat, q \in Nat, <2>2, <4>4
      <4> QED BY <4>1, <4>3, <4>5
    <3>2. CASE op = "enable"
      <4>1. Cardinality(Carried("replay")') = a /\ Cardinality(Carried("enable")') = b - 1
        BY <1>13, <2>1, <3>2
      <4>2. peer' = p \/ peer' = p + 1 BY <1>1, <2>1, <3>2
      <4>3. PICK q \in Nat : q = peer' /\ q <= p + 1 BY <1>1, <2>1, <4>2
      <4>4. q <= p + 1 BY <4>3
      <4>5. q + a + (b - 1) <= c
        BY ONLY p \in Nat, a \in Nat, b \in Nat, c \in Nat, q \in Nat, <2>2, <4>4
      <4> QED BY <4>1, <4>3, <4>5
    <3>3. CASE op # "replay" /\ op # "enable"
      <4>1. Cardinality(Carried("replay")') = a /\ Cardinality(Carried("enable")') = b
        BY <1>13, <2>1, <3>3
      <4>2. peer' = p \/ peer' = p - 1 BY <1>1, <2>1, <3>3
      <4>3. PICK q \in Nat : q = peer' /\ q <= p BY <1>1, <2>1, <4>2
      <4>4. q <= p BY <4>3
      <4>5. q + a + b <= c
        BY ONLY p \in Nat, a \in Nat, b \in Nat, c \in Nat, q \in Nat, <2>2, <4>4
      <4> QED BY <4>1, <4>3, <4>5
    <3> QED BY <3>1, <3>2, <3>3
  <2> QED BY <1>0, <1>2, <1>9, <1>10, <2>3, <2>4 DEF Bounded
<1>15. ASSUME Coverage PROVE Coverage'
  <2>2. DisablesEnd' BY <1>2, <1>3 DEF DisablesEnd
  <2>3. ReplaysWait' BY <1>1, <1>2, <1>5, <1>9, <1>15 DEF Coverage, ReplaysWait, Pending
  <2>4. /\ Grants' = Grants \cup (IF ok /\ op = "enable" THEN {r} ELSE {})
        /\ RefusedReplays' = RefusedReplays \cup (IF ~ok /\ op = "replay" THEN {r} ELSE {})
    <3>1. results' = results \cup {r} BY <1>1 DEF r
    <3> QED BY <1>2, <1>4, <3>1 DEF Grants, RefusedReplays
  <2>5. /\ IsFiniteSet(Grants) /\ Cardinality(Grants) \in Nat
        /\ IsFiniteSet(RefusedReplays) /\ Cardinality(RefusedReplays) \in Nat
        /\ r \notin Grants /\ r \notin RefusedReplays
    BY <1>0, <1>4, WireFinite DEF Grants, RefusedReplays
  <2>6. /\ Cardinality(Grants \cup {r}) = Cardinality(Grants) + 1
        /\ Cardinality(RefusedReplays \cup {r}) = Cardinality(RefusedReplays) + 1
    BY <2>5, FS_AddElement
  <2>7. PICK w \in Nat, d \in Nat, g \in Nat, p \in Nat, a \in Nat, u \in Nat :
          /\ w = wanted /\ d = Cardinality(Carried("disable")) /\ g = Cardinality(Grants)
          /\ p = peer /\ a = Cardinality(Carried("replay")) /\ u = Cardinality(RefusedReplays)
    BY <1>0, <1>12, <2>5 DEF Types
  <2>8. Covered'
    <3>1. SUFFICES ASSUME ~reported
                   PROVE  w + Cardinality(Carried("disable")') + Cardinality(Grants')
                            <= peer' + Cardinality(Carried("replay")') + Cardinality(RefusedReplays')
      BY <1>2, <2>7 DEF Covered
    <3>2. w + d + g <= p + a + u BY <1>3, <1>15, <2>7, <3>1 DEF Coverage, Covered
    <3>3. CASE op = "replay"
      <4>1. Cardinality(Carried("disable")') = d /\ Cardinality(Carried("replay")') = a - 1
        BY <1>13, <2>7, <3>3
      <4>2. Grants' = Grants /\ Cardinality(Grants') = g BY <2>4, <2>7, <3>3
      <4>3. CASE ok
        <5>1. RefusedReplays' = RefusedReplays /\ Cardinality(RefusedReplays') = u BY <2>4, <2>7, <4>3
        <5>2. peer' = p + 1 BY <1>1, <2>7, <3>3, <4>3
        <5>3. w + d + g <= (p + 1) + (a - 1) + u
          BY ONLY w \in Nat, d \in Nat, g \in Nat, p \in Nat, a \in Nat, u \in Nat, <3>2
        <5> QED BY <4>1, <4>2, <5>1, <5>2, <5>3
      <4>4. CASE ~ok
        <5>1. RefusedReplays' = RefusedReplays \cup {r} BY <2>4, <3>3, <4>4
        <5>2. Cardinality(RefusedReplays') = u + 1 BY <2>6, <2>7, <5>1
        <5>3. peer' = p BY <1>1, <2>7, <3>3, <4>4
        <5>4. w + d + g <= p + (a - 1) + (u + 1)
          BY ONLY w \in Nat, d \in Nat, g \in Nat, p \in Nat, a \in Nat, u \in Nat, <3>2
        <5> QED BY <4>1, <4>2, <5>2, <5>3, <5>4
      <4> QED BY <4>3, <4>4
    <3>4. CASE op = "enable"
      <4>1. Cardinality(Carried("disable")') = d /\ Cardinality(Carried("replay")') = a
        BY <1>13, <2>7, <3>4
      <4>2. RefusedReplays' = RefusedReplays /\ Cardinality(RefusedReplays') = u BY <2>4, <2>7, <3>4
      <4>3. CASE ok
        <5>1. Grants' = Grants \cup {r} BY <2>4, <3>4, <4>3
        <5>2. Cardinality(Grants') = g + 1 BY <2>6, <2>7, <5>1
        <5>3. peer' = p + 1 BY <1>1, <2>7, <3>4, <4>3
        <5>4. w + d + (g + 1) <= (p + 1) + a + u
          BY ONLY w \in Nat, d \in Nat, g \in Nat, p \in Nat, a \in Nat, u \in Nat, <3>2
        <5> QED BY <4>1, <4>2, <5>2, <5>3, <5>4
      <4>4. CASE ~ok
        <5>1. Grants' = Grants /\ Cardinality(Grants') = g BY <2>4, <2>7, <4>4
        <5>2. peer' = p BY <1>1, <2>7, <3>4, <4>4
        <5> QED BY <3>2, <4>1, <4>2, <5>1, <5>2
      <4> QED BY <4>3, <4>4
    <3>5. CASE op # "replay" /\ op # "enable"
      <4>1. RefusedReplays' = RefusedReplays /\ Cardinality(RefusedReplays') = u BY <2>4, <2>7, <3>5
      <4>2. Grants' = Grants /\ Cardinality(Grants') = g BY <2>4, <2>7, <3>5
      <4>3. Cardinality(Carried("replay")') = a BY <1>13, <2>7, <3>5
      <4>4. CASE op = "disable"
        <5>1. Cardinality(Carried("disable")') = d - 1 BY <1>13, <2>7, <4>4
        <5>2. (peer' = p - 1) \/ peer' = p BY <1>1, <2>7, <4>4
        <5>3. PICK q \in Nat : q = peer' /\ p <= q + 1 BY <1>1, <2>7, <5>2
        <5>4. p <= q + 1 BY <5>3
        <5>5. w + (d - 1) + g <= q + a + u
          BY ONLY w \in Nat, d \in Nat, g \in Nat, p \in Nat, a \in Nat, u \in Nat, q \in Nat,
                  <3>2, <5>4
        <5> QED BY <4>1, <4>2, <4>3, <5>1, <5>3, <5>5
      <4>5. CASE op # "disable"
        <5>1. Cardinality(Carried("disable")') = d BY <1>13, <2>7, <4>5
        <5>2. peer' = p BY <1>1, <2>7, <3>5, <4>5
        <5> QED BY <3>2, <4>1, <4>2, <4>3, <5>1, <5>2
      <4> QED BY <4>4, <4>5
    <3> QED BY <3>3, <3>4, <3>5
  <2> QED BY <2>2, <2>3, <2>8 DEF Coverage
<1>16. Counted' BY <1>2 DEF Base, Counted
<1> QED BY <1>6, <1>7, <1>8, <1>14, <1>15, <1>16 DEF Base

-----------------------------------------------------------------------------
(* The other steps                                                         *)

LEMMA Assemble ==
  ASSUME Types', Phases', Wire', Bounded', Counted'
  PROVE  Base'
BY DEF Base

LEMMA connectKeeps ==
  ASSUME ClientAssumption, Base, connect \/ Retry
  PROVE  Base' /\ (Coverage => Coverage')
<1>0. Types /\ Phases BY DEF Base
<1>1. /\ status' = "connecting" /\ sock' = "connecting" /\ status # "ready"
      /\ UNCHANGED <<calls, enables, wanted, frames, results, peer, reported, probe, silent,
                     drops, refusals>>
  BY <1>0 DEF connect, Retry, openSocket, outboxVars, wireVars, Phases
<1>2. ~retry'.armed /\ retry' \in [armed : BOOLEAN, attempts : 0..MaxAttempts]
  <2>1. CASE connect
    <3>1. retry' = [armed |-> FALSE, attempts |-> 0] BY <2>1 DEF connect
    <3> QED BY <3>1 DEF ClientAssumption
  <2>2. CASE Retry
    <3>1. retry' = [retry EXCEPT !.armed = FALSE] BY <2>2 DEF Retry
    <3> QED BY <1>0, <3>1 DEF Types
  <2> QED BY <2>1, <2>2
<1>3. flags' \subseteq {"userRequestedClose", "draining"} BY <1>0 DEF connect, Retry, Types
<1>4. Types' BY <1>0, <1>1, <1>2, <1>3 DEF Types
<1>5. Phases' BY <1>0, <1>1, <1>2 DEF Phases
<1>6. Wire' /\ Bounded' /\ Counted' /\ (Coverage => Coverage') BY <1>1, QuietKeeps
<1> QED BY <1>4, <1>5, <1>6, Assemble

LEMMA closeKeeps ==
  ASSUME ClientAssumption, Base, close
  PROVE  Base' /\ (Coverage => Coverage')
<1>0. Types /\ Phases BY DEF Base
<1>1. /\ flags' = {"userRequestedClose"} /\ retry' = [retry EXCEPT !.armed = FALSE]
      /\ UNCHANGED <<enables, wanted, refusals, reported>>
      /\ status' = "closed"
  BY DEF close
<1>2. ~retry'.armed /\ retry' \in [armed : BOOLEAN, attempts : 0..MaxAttempts]
  BY <1>0, <1>1 DEF Types
<1>3. CASE status = "closed"
  <2>1. UNCHANGED <<sock, probe, frames, results, peer, silent, calls, drops>>
    BY <1>3 DEF close, wireVars
  <2>2. Types' BY <1>0, <1>1, <1>2, <2>1 DEF Types
  <2>3. Phases' BY <1>0, <1>1, <1>2, <1>3, <2>1 DEF Phases, Pending
  <2>4. Wire' /\ Bounded' /\ Counted' /\ (Coverage => Coverage') BY <1>1, <1>3, <2>1, QuietKeeps
  <2> QED BY <2>2, <2>3, <2>4, Assemble
<1>4. CASE status # "closed"
  <2>1. Teardown /\ Drop BY <1>4 DEF close
  <2>2. /\ calls' \in Seq(Call) /\ \A i \in DOMAIN calls' : ~Pending(i)'
        /\ Wire' /\ Bounded' /\ Counted' /\ (Coverage => Coverage')
    BY <1>1, <2>1, TeardownKeeps
  <2>3. /\ sock' = "none" /\ probe' = "off" /\ frames' = <<>> /\ results' = {} /\ peer' = 0
        /\ ~silent' /\ silent' \in BOOLEAN
    BY <2>1 DEF Teardown
  <2>4. drops' \in 0..MaxDrops BY <1>0, <2>1 DEF Drop, Types, ClientAssumption
  <2>5. Types' BY <1>0, <1>1, <1>2, <2>2, <2>3, <2>4 DEF Types
  <2>6. Phases' BY <1>1, <1>2, <2>2, <2>3 DEF Phases
  <2> QED BY <2>2, <2>5, <2>6, Assemble
<1> QED BY <1>3, <1>4

LEMMA SocketClosesKeeps ==
  ASSUME ClientAssumption, Base, SocketCloses
  PROVE  Base' /\ (Coverage => Coverage')
<1>0. Types /\ Phases BY DEF Base
<1>1. /\ Teardown /\ schedule /\ sock # "none"
      /\ flags' = flags \ {"draining"}
      /\ UNCHANGED <<enables, wanted, refusals, reported>>
  BY DEF SocketCloses, finalizeConnection
<1>2. ~retry.armed BY <1>0, <1>1 DEF Phases
<1>3. /\ retry' \in [armed : BOOLEAN, attempts : 0..MaxAttempts]
      /\ status' \in {"closed", "reconnecting"}
      /\ retry'.armed <=> status' = "reconnecting"
  <2>1. CASE MaxAttempts = 0 \/ (~retry.armed /\ retry.attempts >= MaxAttempts)
    BY <1>0, <1>1, <1>2, <2>1 DEF schedule, Types
  <2>2. CASE ~(MaxAttempts = 0 \/ (~retry.armed /\ retry.attempts >= MaxAttempts))
    <3>1. status' = "reconnecting" /\ retry' = [armed |-> TRUE, attempts |-> retry.attempts + 1]
      BY <1>1, <1>2, <2>2 DEF schedule
    <3>2. retry.attempts \in 0..MaxAttempts /\ MaxAttempts \in Nat
      BY <1>0 DEF Types, ClientAssumption
    <3>3. retry.attempts + 1 \in 0..MaxAttempts BY <1>2, <2>2, <3>2
    <3> QED BY <3>1, <3>3
  <2> QED BY <2>1, <2>2
<1>4. /\ calls' \in Seq(Call) /\ \A i \in DOMAIN calls' : ~Pending(i)'
      /\ Wire' /\ Bounded' /\ Counted' /\ (Coverage => Coverage')
  BY <1>1, <1>3, TeardownKeeps
<1>5. /\ sock' = "none" /\ probe' = "off" /\ frames' = <<>> /\ results' = {} /\ peer' = 0
      /\ ~silent' /\ silent' \in BOOLEAN
  BY <1>1 DEF Teardown
<1>6. drops' \in 0..MaxDrops BY <1>0 DEF SocketCloses, Drop, Types, ClientAssumption
<1>7. Types' BY <1>0, <1>1, <1>3, <1>4, <1>5, <1>6 DEF Types
<1>8. Phases' BY <1>3, <1>4, <1>5 DEF Phases
<1> QED BY <1>4, <1>7, <1>8, Assemble

LEMMA EventsKeep ==
  ASSUME ClientAssumption, Base,
         SocketOpens \/ GoesSilent \/ onDraining \/ Tick \/ onPong \/ PongDeadline
  PROVE  Base' /\ (Coverage => Coverage')
<1>0. Types /\ Phases BY DEF Base
<1>1. /\ UNCHANGED <<status, retry, calls, enables, wanted, frames, results, peer, refusals,
                     reported>>
  BY DEF SocketOpens, GoesSilent, onDraining, Tick, onPong, PongDeadline, outboxVars, wireVars,
         countVars
<1>2. Types' /\ Phases'
  <2>1. CASE SocketOpens
    BY <1>0, <1>1, <2>1 DEF SocketOpens, Types, Phases, Pending, wireVars, countVars
  <2>2. CASE GoesSilent
    <3>1. drops' \in 0..MaxDrops BY <1>0, <2>2 DEF GoesSilent, Drop, Types, ClientAssumption
    <3>2. silent' = TRUE /\ status = "ready" /\ UNCHANGED <<sock, flags, probe>>
      BY <2>2 DEF GoesSilent
    <3> QED BY <1>0, <1>1, <3>1, <3>2 DEF Types, Phases, Pending
  <2>3. CASE onDraining
    BY <1>0, <1>1, <2>3 DEF onDraining, Types, Phases, Pending, wireVars, countVars
  <2>4. CASE Tick \/ onPong
    BY <1>0, <1>1, <2>4 DEF Tick, onPong, Types, Phases, Pending, wireVars, countVars
  <2>5. CASE PongDeadline
    <3>1. drops' \in 0..MaxDrops BY <1>0, <2>5 DEF PongDeadline, Drop, Types, ClientAssumption
    <3>2. probe = "sent" /\ probe' = "idle" /\ sock' = "closing" /\ UNCHANGED <<flags, silent>>
      BY <2>5 DEF PongDeadline, wireVars
    <3>3. status = "ready" BY <1>0, <3>2 DEF Phases
    <3> QED BY <1>0, <1>1, <3>1, <3>2, <3>3 DEF Types, Phases, Pending
  <2> QED BY <2>1, <2>2, <2>3, <2>4, <2>5
<1>3. Wire' /\ Bounded' /\ Counted' /\ (Coverage => Coverage') BY <1>1, QuietKeeps
<1> QED BY <1>2, <1>3, Assemble

LEMMA StutterKeeps ==
  ASSUME Base, UNCHANGED vars
  PROVE  Base' /\ (Coverage => Coverage')
<1>1. UNCHANGED <<status, sock, retry, calls, enables, wanted, flags, probe, frames, results, peer,
                  silent, drops, refusals, reported>>
  BY DEF vars, outboxVars, wireVars, countVars
<1>2. Types' BY <1>1 DEF Base, Types
<1>3. Phases' BY <1>1 DEF Base, Phases, Pending
<1>4. Wire' /\ Bounded' /\ Counted' /\ (Coverage => Coverage') BY <1>1, QuietKeeps
<1> QED BY <1>2, <1>3, <1>4, Assemble

(* The application calls.                                                  *)
Asks(op) ==
  /\ UserCalls < MaxCalls /\ call(op)
  /\ UNCHANGED <<status, sock, retry, flags, probe, results, peer, silent, countVars, reported>>

LEMMA AsksKeep ==
  ASSUME ClientAssumption, Base, NEW op \in {"execute", "enable", "disable"}, Asks(op),
         enables' = wanted', wanted' \in Nat,
         IF op = "disable" THEN wanted' = wanted - 1 ELSE wanted' = wanted
  PROVE  Base' /\ (op # "disable" \/ status = "ready" => (Coverage => Coverage'))
<1>0. Types /\ Phases /\ Wire /\ Counted /\ op \in Ops BY DEF Base, Ops
<1>1. /\ UserCalls < MaxCalls /\ call(op) /\ MaxCalls \in Nat
      /\ UNCHANGED <<status, sock, retry, flags, probe, results, peer, silent, drops, refusals,
                     reported>>
  BY DEF Asks, countVars, ClientAssumption
<1>2. PICK o \in {"rejected", "pending"}, n \in {0, 1} :
        /\ Adds(op, o, n)
        /\ \/ UNCHANGED frames
           \/ frames' = Append(frames, Newest) /\ n # 0 /\ Sendable
        /\ o = "pending" => status # "closed"
  <2>1. \/ Adds(op, "rejected", 0) /\ UNCHANGED frames
        \/ Sendable /\ Adds(op, "pending", 1) /\ frames' = Append(frames, Newest)
        \/ ~Sendable /\ status # "closed" /\ Adds(op, "pending", 0) /\ UNCHANGED frames
    BY <1>0, <1>1, CallAdds
  <2>2. Sendable => status # "closed" BY DEF Sendable
  <2>3. CASE Adds(op, "rejected", 0) /\ UNCHANGED frames BY <2>3
  <2>4. CASE Sendable /\ Adds(op, "pending", 1) /\ frames' = Append(frames, Newest) BY <2>2, <2>4
  <2>5. CASE ~Sendable /\ status # "closed" /\ Adds(op, "pending", 0) /\ UNCHANGED frames BY <2>5
  <2> QED BY <2>1, <2>3, <2>4, <2>5
<1>3. Wire' /\ frames' \in Seq(Nat) BY <1>0, <1>1, <1>2, AddsWire
<1>4. enables' \in Nat /\ enables' <= enables BY <1>0 DEF Types, Counted
<1>5. Bounded' BY <1>1, <1>2, <1>4, AddsBounded
<1>6. Types' BY <1>0, <1>1, <1>2, <1>3, <1>4 DEF Types, Adds
<1>7. Phases'
  <2>1. status # "ready" => UNCHANGED frames BY <1>2 DEF Sendable
  <2>2. status = "closed" => \A i \in DOMAIN calls' : ~Pending(i)'
    <3>1. SUFFICES ASSUME status = "closed", NEW i \in DOMAIN calls' PROVE ~Pending(i)' OBVIOUS
    <3>2. CASE i = Newest
      <4>1. o # "pending" BY <1>2, <3>1
      <4> QED BY <1>2, <3>2, <4>1 DEF Adds, Pending
    <3>3. CASE i \in DOMAIN calls BY <1>0, <1>2, <3>1, <3>3 DEF Adds, Pending, Phases
    <3> QED BY <1>2, <3>2, <3>3 DEF Adds
  <2> QED BY <1>0, <1>1, <2>1, <2>2 DEF Phases
<1>8. Counted' BY DEF Counted
<1>9. ASSUME op # "disable" \/ status = "ready", Coverage PROVE Coverage'
  <2>1. IF op = "disable" THEN wanted' = wanted - 1 /\ status = "ready" ELSE wanted' = wanted
    BY <1>9
  <2> QED BY <1>1, <1>2, <1>9, <2>1, AddsCovered
<1> QED BY <1>3, <1>5, <1>6, <1>7, <1>8, <1>9, Assemble

LEMMA CallsKeep ==
  ASSUME ClientAssumption, Base,
         Execute \/ enableCrossSessionLayoutChange \/ disableCrossSessionLayoutChange
  PROVE  Base' /\ (~OfflineDisable => (Coverage => Coverage'))
<1>0. wanted \in Nat /\ enables = wanted BY DEF Base, Types, Counted
<1>1. CASE Execute
  <2>1. Asks("execute") /\ UNCHANGED <<enables, wanted>> BY <1>1 DEF Execute, Asks
  <2> QED BY <1>0, <2>1, AsksKeep
<1>2. CASE enableCrossSessionLayoutChange
  <2>1. Asks("enable") /\ UNCHANGED <<enables, wanted>>
    BY <1>2 DEF enableCrossSessionLayoutChange, Asks
  <2> QED BY <1>0, <2>1, AsksKeep
<1>3. CASE disableCrossSessionLayoutChange
  <2>1. /\ Asks("disable") /\ wanted > 0 /\ (status = "ready" \/ OfflineDisable)
        /\ enables' = (IF enables = 0 THEN 0 ELSE enables - 1) /\ wanted' = wanted - 1
    BY <1>3 DEF disableCrossSessionLayoutChange, Asks
  <2>2. enables' = wanted' /\ wanted' \in Nat BY <1>0, <2>1
  <2> QED BY <2>1, <2>2, AsksKeep
<1> QED BY <1>1, <1>2, <1>3

-----------------------------------------------------------------------------
(* The theorems                                                            *)

LEMMA InitHolds == ASSUME ClientAssumption, Init PROVE Base /\ Coverage
<1>1. /\ calls = <<>> /\ frames = <<>> /\ results = {} /\ peer = 0 /\ enables = 0 /\ wanted = 0
      /\ status = "connecting" /\ sock = "none" /\ retry = [armed |-> FALSE, attempts |-> 0]
      /\ flags = {} /\ probe = "off" /\ silent = FALSE /\ drops = 0 /\ refusals = 0
      /\ reported = FALSE
  BY DEF Init
<1>2. /\ DOMAIN calls = {} /\ calls \in Seq(Call) /\ frames \in Seq(Nat)
  BY <1>1
<1>3. Types
  <2>1. MaxAttempts \in Nat /\ MaxDrops \in Nat /\ MaxRefusals \in Nat
    BY DEF ClientAssumption
  <2>2. 0 \in 0..MaxAttempts /\ 0 \in 0..MaxDrops /\ 0 \in 0..MaxRefusals BY <2>1
  <2>3. retry \in [armed : BOOLEAN, attempts : 0..MaxAttempts] BY <1>1, <2>2
  <2>4. drops \in 0..MaxDrops /\ refusals \in 0..MaxRefusals BY <1>1, <2>2
  <2>5. enables \in Nat /\ peer \in Nat /\ wanted \in Nat BY <1>1
  <2>6. silent \in BOOLEAN /\ reported \in BOOLEAN BY <1>1
  <2>7. flags \subseteq {"userRequestedClose", "draining"} BY <1>1
  <2>8. results \subseteq [call : Nat, ok : BOOLEAN] BY <1>1
  <2>9. /\ status \in {"connecting", "ready", "reconnecting", "closed"}
        /\ sock \in {"none", "connecting", "open", "closing"}
        /\ probe \in {"off", "idle", "sent"}
    BY <1>1
  <2> QED BY <1>2, <2>3, <2>4, <2>5, <2>6, <2>7, <2>8, <2>9 DEF Types
<1>4. Phases BY <1>1, <1>2 DEF Phases
<1>5. Wire BY <1>1, <1>2, NothingIn DEF Wire
<1>6. \A k : Of(k) = {} /\ Carried(k) = {} BY <1>2 DEF Of, Carried
<1>7. Won = {} BY <1>6 DEF Won
<1>8. Cardinality({}) = 0 BY FS_EmptySet
<1>9. UserCalls = 0
  <2>1. {i \in DOMAIN calls : calls[i].op # "replay"} = {} BY <1>2
  <2> QED BY <1>8, <2>1 DEF UserCalls
<1>10. Bounded
  <2>1. /\ Cardinality(Won) = 0 /\ Cardinality(Carried("replay")) = 0
        /\ Cardinality(Carried("enable")) = 0 /\ Cardinality(Of("enable")) = 0
    BY <1>6, <1>7, <1>8
  <2> QED BY <1>1, <1>9, <2>1 DEF Bounded, ClientAssumption
<1>11. Coverage BY <1>1, <1>6 DEF Coverage, DisablesEnd, ReplaysWait, Covered
<1> QED BY <1>1, <1>3, <1>4, <1>5, <1>10, <1>11 DEF Base, Counted

LEMMA NextKeeps ==
  ASSUME ClientAssumption, Base, [Next]_vars
  PROVE  Base' /\ (~OfflineDisable => (Coverage => Coverage'))
<1>1. CASE connect \/ Retry BY <1>1, connectKeeps
<1>2. CASE close BY <1>2, closeKeeps
<1>3. CASE SocketCloses BY <1>3, SocketClosesKeeps
<1>4. CASE SocketOpens \/ GoesSilent \/ onDraining \/ Tick \/ onPong \/ PongDeadline
  BY <1>4, EventsKeep
<1>5. CASE onWelcome BY <1>5, onWelcomeBase, onWelcomeCoverage
<1>6. CASE Execute \/ enableCrossSessionLayoutChange \/ disableCrossSessionLayoutChange
  BY <1>6, CallsKeep
<1>7. CASE \E i \in DOMAIN calls : CallTimeout(i) BY <1>7, CallTimeoutKeeps
<1>8. CASE \E r \in results : onResult(r) BY <1>8, onResultKeeps
<1>9. CASE BridgeTakes BY <1>9, BridgeTakesKeeps
<1>10. CASE UNCHANGED vars BY <1>10, StutterKeeps
<1> QED BY <1>1, <1>2, <1>3, <1>4, <1>5, <1>6, <1>7, <1>8, <1>9, <1>10 DEF Next

LEMMA BaseTypes == ASSUME ClientAssumption, Base PROVE TypeOK
<1>0. Types /\ Wire /\ Bounded /\ Counted BY DEF Base
<1>1. frames \in Seq(DOMAIN calls)
  <2>1. \A i : In(frames, i) => i \in DOMAIN calls BY <1>0, OnWire
  <2>2. frames \in Seq(Nat) BY <1>0 DEF Types
  <2> QED BY <2>1, <2>2, Retype
<1>2. results \subseteq [call : DOMAIN calls, ok : BOOLEAN] BY <1>0 DEF Types, Wire
<1>3. /\ IsFiniteSet(Of("enable")) /\ Cardinality(Of("enable")) \in Nat
      /\ Cardinality(Won) \in Nat /\ UserCalls \in Nat
      /\ Cardinality(Carried("replay")) \in Nat /\ Cardinality(Carried("enable")) \in Nat
  BY <1>0, Finite
<1>4. Cardinality(Won) <= Cardinality(Of("enable")) BY <1>3, Room DEF Won
<1>5. Cardinality(Of("enable")) <= UserCalls
  <2> DEFINE S == {i \in DOMAIN calls : calls[i].op # "replay"}
  <2>1. IsFiniteSet(S) BY <1>0, CallFields, FS_Subset
  <2>2. Of("enable") \subseteq S BY DEF Of
  <2> QED BY <2>1, <2>2, Room DEF UserCalls
<1>6. enables \in 0..MaxCalls /\ peer \in 0..MaxCalls
  <2>1. PICK e \in Nat, p \in Nat, w \in Nat, n \in Nat, u \in Nat, a \in Nat, b \in Nat, m \in Nat :
          /\ e = enables /\ p = peer /\ w = Cardinality(Won) /\ n = Cardinality(Of("enable"))
          /\ u = UserCalls /\ a = Cardinality(Carried("replay"))
          /\ b = Cardinality(Carried("enable")) /\ m = MaxCalls
    BY <1>0, <1>3 DEF Types, ClientAssumption
  <2>2. e <= w /\ w <= n /\ n <= u /\ u <= m /\ p + a + b <= n
    BY <1>0, <1>4, <1>5, <2>1 DEF Bounded
  <2>3. e \in 0..m /\ p \in 0..m
    BY ONLY e \in Nat, p \in Nat, w \in Nat, n \in Nat, u \in Nat, a \in Nat, b \in Nat,
            m \in Nat, <2>2
  <2> QED BY <2>1, <2>3
<1>7. wanted \in 0..MaxCalls BY <1>0, <1>6 DEF Counted
<1> QED BY <1>0, <1>1, <1>2, <1>6, <1>7 DEF TypeOK, Types

LEMMA BaseHolds == Spec => []Base
<1>1. Init => Base BY ClientAssumption, InitHolds
<1>2. Base /\ [Next]_vars => Base' BY ClientAssumption, NextKeeps
<1> QED BY <1>1, <1>2, PTL DEF Spec

(* Nothing outlives a client that is closed, whether by close() or because  *)
(* it gave up, and the counts stay within what was asked for.              *)
THEOREM ClosedClean == Spec => []ClosedIsClean
<1>1. Base => ClosedIsClean
  <2>1. SUFFICES ASSUME Base PROVE ClosedIsClean OBVIOUS
  <2>2. TypeOK BY <2>1, ClientAssumption, BaseTypes
  <2>3. Phases /\ Types BY <2>1 DEF Base
  <2> QED BY <2>2, <2>3 DEF Phases, Types, ClosedIsClean
<1> QED BY <1>1, BaseHolds, PTL

(* An application that gives coverage up while there is a connection only   *)
(* keeps what it was granted across any outages, or is told.               *)
THEOREM CoverageKept == ~OfflineDisable => (Spec => []CoverageSurvives)
<1>1. ASSUME ~OfflineDisable PROVE Base /\ Coverage /\ [Next]_vars => Coverage'
  BY <1>1, ClientAssumption, NextKeeps
<1>2. Init => Coverage BY ClientAssumption, InitHolds
<1>3. Base /\ Coverage => CoverageSurvives
  <2>1. SUFFICES ASSUME Base, Coverage, status = "ready", Settled, wanted > 0, ~reported
                 PROVE  peer > 0
    BY DEF CoverageSurvives
  <2>2. frames = <<>> /\ results = {} BY <2>1 DEF Settled
  <2>3. Carried("replay") = {} /\ RefusedReplays = {}
    BY <2>2, NothingIn DEF Carried, RefusedReplays
  <2>4. Cardinality({}) = 0 BY FS_EmptySet
  <2>5. Types /\ Wire BY <2>1 DEF Base
  <2>6. PICK w \in Nat, d \in Nat, g \in Nat, p \in Nat :
          /\ w = wanted /\ d = Cardinality(Carried("disable")) /\ g = Cardinality(Grants)
          /\ p = peer
    BY <2>5, Finite, WireFinite DEF Types
  <2>7. Cardinality(Carried("replay")) = 0 /\ Cardinality(RefusedReplays) = 0 BY <2>3, <2>4
  <2>8. w + d + g <= p + 0 + 0 BY <2>1, <2>6, <2>7 DEF Coverage, Covered
  <2>9. w > 0 BY <2>1, <2>6
  <2>10. p > 0 BY ONLY w \in Nat, d \in Nat, g \in Nat, p \in Nat, <2>8, <2>9
  <2> QED BY <2>6, <2>10
<1>4. CASE ~OfflineDisable
  <2>1. Base /\ Coverage /\ [Next]_vars => Coverage' BY <1>1, <1>4
  <2>2. Spec => []Coverage BY <1>2, <2>1, BaseHolds, PTL DEF Spec
  <2> QED BY <1>3, <2>2, BaseHolds, PTL
<1> QED BY <1>4

(* No call is sent twice, none before the connection was welcomed, and none *)
(* whose caller was told it failed while it was queued.                    *)
THEOREM SentToWhoWaits == Spec => SentOnceWhileWaiting
<1> DEFINE Once ==
      \A i \in DOMAIN calls' : calls'[i].sends # Sends(i) =>
        /\ Sends(i) = 0 /\ calls'[i].sends = 1 /\ status' = "ready"
        /\ i \in DOMAIN calls => Pending(i)
<1>1. ASSUME Base, [Next]_vars PROVE [Once]_vars
  <2>0. Types /\ ClientAssumption BY <1>1, ClientAssumption DEF Base
  <2>1. SUFFICES ASSUME Next PROVE Once BY <1>1
  <2>2. ASSUME NEW op \in Ops, call(op), status' = status PROVE Once
    <3>1. CASE \E o : Adds(op, o, 0)
      BY <3>1, CallFields, <2>0 DEF Adds, Sends
    <3>2. CASE Sendable /\ Adds(op, "pending", 1)
      <4>1. status' = "ready" BY <2>2, <3>2 DEF Sendable
      <4>2. /\ DOMAIN calls' = DOMAIN calls \cup {Newest} /\ Newest \notin DOMAIN calls
            /\ \A i \in DOMAIN calls : calls'[i] = calls[i]
            /\ calls'[Newest].sends = 1
        BY <2>0, <3>2, CallFields DEF Adds
      <4> QED BY <4>1, <4>2 DEF Sends
    <3> QED BY <2>0, <2>2, <3>1, <3>2, CallAdds
  <2>3. ASSUME NEW s, NEW o, Settles(s, o) PROVE Once BY <2>3 DEF Settles, Sends
  <2>4. ASSUME UNCHANGED calls PROVE Once BY <2>4 DEF Sends
  <2>5. CASE connect \/ Retry BY <2>4, <2>5 DEF connect, Retry, openSocket, outboxVars
  <2>6. CASE close
    <3>1. UNCHANGED calls \/ calls' = drain(calls) BY <2>6 DEF close, Teardown
    <3> QED BY <2>0, <2>3, <2>4, <3>1, DrainSettles
  <2>7. CASE SocketCloses
    <3>1. calls' = drain(calls) BY <2>7 DEF SocketCloses, finalizeConnection, Teardown
    <3> QED BY <2>0, <2>3, <3>1, DrainSettles
  <2>8. CASE SocketOpens \/ GoesSilent \/ onDraining \/ Tick \/ onPong \/ PongDeadline \/ BridgeTakes
    BY <2>4, <2>8
    DEF SocketOpens, GoesSilent, onDraining, Tick, onPong, PongDeadline, BridgeTakes, outboxVars
  <2>9. CASE onWelcome
    <3>1. Welcomes /\ status' = "ready" BY <2>0, <2>9, WelcomeWelcomes DEF onWelcome
    <3>2. \A i \in Queued : i \in DOMAIN calls /\ Pending(i) /\ calls[i].sends = 0
      BY DEF Queued, Flushed, Pending
    <3>3. SUFFICES ASSUME NEW i \in DOMAIN calls', calls'[i].sends # Sends(i)
                   PROVE  /\ Sends(i) = 0 /\ calls'[i].sends = 1
                          /\ i \in DOMAIN calls => Pending(i)
      BY <3>1
    <3>4. CASE i \in DOMAIN calls
      <4>1. i \in Queued BY <3>1, <3>3, <3>4 DEF Welcomes, Sends
      <4>2. calls'[i].sends = 0 + 1 BY <3>1, <3>2, <3>4, <4>1 DEF Welcomes
      <4> QED BY <3>2, <3>4, <4>1, <4>2 DEF Sends
    <3>5. CASE i \notin DOMAIN calls
      <4>1. i \in Replayed BY <3>1, <3>3, <3>5 DEF Welcomes
      <4> QED BY <3>1, <3>5, <4>1 DEF Welcomes, Sends
    <3> QED BY <3>4, <3>5
  <2>10. CASE Execute BY <2>2, <2>10 DEF Execute, Ops
  <2>11. CASE enableCrossSessionLayoutChange BY <2>2, <2>11 DEF enableCrossSessionLayoutChange, Ops
  <2>12. CASE disableCrossSessionLayoutChange BY <2>2, <2>12 DEF disableCrossSessionLayoutChange, Ops
  <2>13. CASE \E i \in DOMAIN calls : CallTimeout(i)
    <3>1. PICK i \in DOMAIN calls : CallTimeout(i) BY <2>13
    <3>2. calls' = [calls EXCEPT ![i].outcome = "rejected"] BY <3>1 DEF CallTimeout
    <3>3. Settles({i}, "rejected") BY <2>0, <3>2, OneSettles
    <3> QED BY <2>3, <3>3
  <2>14. CASE \E r \in results : onResult(r)
    <3>1. PICK r \in results : onResult(r) BY <2>14
    <3> DEFINE o == IF r.ok THEN "ok" ELSE "rejected"
    <3>2. UNCHANGED calls \/ Settles({r.call}, o) BY <1>1, <3>1, ResultDoes
    <3> HIDE DEF o
    <3> QED BY <2>3, <2>4, <3>2
  <2> HIDE DEF Once
  <2> QED BY <2>1, <2>5, <2>6, <2>7, <2>8, <2>9, <2>10, <2>11, <2>12, <2>13, <2>14 DEF Next
<1>2. Base /\ [Next]_vars => [Once]_vars BY <1>1
<1> QED BY <1>2, BaseHolds, PTL DEF Spec, SentOnceWhileWaiting
=============================================================================
