----------------------------- MODULE TmuxClient -----------------------------
(***************************************************************************)
(* TmuxClient (src/client.ts) with the block tracking of TmuxParser        *)
(* (src/protocol/parser.ts) and the life of its transport                  *)
(* (src/transport/spawn.ts, src/transport/close-gate.ts,                   *)
(* src/mock/server.ts), over the lines of TmuxControlStream.               *)
(*                                                                         *)
(* JavaScript runs one call at a time, so an action is one call into the   *)
(* client up to the point where it calls out to event handlers that can    *)
(* call back in.  Two emissions have code of the client left to run after  *)
(* them: `frames' is the stack of those unfinished calls,                  *)
(*   "ready"  setConnectionState(ready), before router.onTransportReady    *)
(*   "exit"   the onClose handler, before it announces `closed'.           *)
(* While a frame is open nothing new arrives from outside, but handlers    *)
(* may call execute(), close() and detach().  Everywhere else the emission *)
(* comes last, and a handler's calls are calls made right after the step.  *)
(***************************************************************************)
EXTENDS TmuxControlStream

CONSTANTS
  CloseStyles,  \* "async": the close event comes later; "sync": inside close()
  None          \* no call is inflight

ASSUME ClientAssumption == CloseStyles \subseteq {"async", "sync"} /\ None \notin Calls

VARIABLES
  pending,              \* calls sent and not yet claimed by a %begin
  inflight,             \* the call whose block is open, or None
  collected,            \* output lines collected for it
  activeCommandNumber,  \* the parser's open block, -1 when there is none
  connectionState,      \* "connecting", "ready", "closed"
  reason,               \* why it closed
  userClosed,           \* close() was called
  awaitingGreeting,     \* the greeting's block has not closed yet
  exitAlreadyEmitted,
  runner,               \* the router holds a command runner
  frames,
  link,                 \* the transport
  status,               \* the promise of each call
  reply,                \* what settled it
  exits,                \* `exit' events emitted
  events                \* notification events emitted

clientVars == <<pending, inflight, collected, activeCommandNumber, connectionState,
  reason, userClosed, awaitingGreeting, exitAlreadyEmitted, runner, frames, link,
  status, reply, exits, events>>
vars == <<streamVars, clientVars>>

Closed == connectionState = "closed"
InBlock == activeCommandNumber # -1

(* Promises.  A reply is settled from a block: `of' is the command that    *)
(* block belongs to, `output' what was collected, `size' what tmux wrote.  *)
Replied == {"ok", "failed", "protocol"}
Settled == Replied \cup {"refused", "invalid", "lost"}
Reply == [of : Nat, output : Nat, size : Nat]
NoReply == [of |-> 0, output |-> 0, size |-> 0]

Outstanding == {pending[i] : i \in DOMAIN pending} \cup ({inflight} \ {None})

TypeOK ==
  /\ StreamTypeOK
  /\ pending \in Seq(Calls)
  /\ inflight \in Calls \cup {None}
  /\ collected \in Nat
  /\ activeCommandNumber \in Nat \cup {-1}
  /\ connectionState \in {"connecting", "ready", "closed"}
  /\ reason \in {"none", "exit", "transport-error", "disposed"}
  /\ userClosed \in BOOLEAN /\ awaitingGreeting \in BOOLEAN
  /\ exitAlreadyEmitted \in BOOLEAN /\ runner \in BOOLEAN
  /\ frames \in Seq({"ready", "exit"})
  /\ link \in {"opening", "open", "broken", "closing", "closed"}
  /\ status \in [Calls -> {"idle", "waiting"} \cup Settled]
  /\ reply \in [Calls -> Reply]
  /\ exits \in Nat /\ events \in Nat

(* A WebSocket refuses sends until it is open; a child's stdin does not.   *)
Init ==
  /\ StreamInit
  /\ pending = <<>> /\ inflight = None /\ collected = 0 /\ activeCommandNumber = -1
  /\ connectionState = "connecting" /\ reason = "none" /\ userClosed = FALSE
  /\ awaitingGreeting = TRUE /\ exitAlreadyEmitted = FALSE /\ runner = FALSE
  /\ frames = <<>> /\ link \in {"opening", "open"}
  /\ status = [c \in Calls |-> "idle"] /\ reply = [c \in Calls |-> NoReply]
  /\ exits = 0 /\ events = 0

-----------------------------------------------------------------------------
(* execute() *)

(* Lines that would not get exactly one reply are refused before sending.  *)
invalidCommand(c) == c \in Invalid

(* transport.send(): a closing pipe may still take the line.               *)
Accepts == link \in {"open", "closing"}
Refuses == link # "open"

(* dropPending: the entry was pushed before send() and is rolled back.     *)
MutDropPending(c) == pending' = Append(pending, c) /\ UNCHANGED written
DropPending(c) == UNCHANGED <<written, pending>>

Submit(c) ==
  /\ status[c] = "idle"
  /\ \/ /\ Closed
        /\ status' = [status EXCEPT ![c] = "refused"]
        /\ UNCHANGED <<written, pending>>
     \/ /\ ~Closed /\ invalidCommand(c)
        /\ status' = [status EXCEPT ![c] = "invalid"]
        /\ UNCHANGED <<written, pending>>
     \/ /\ ~Closed /\ ~invalidCommand(c) /\ Accepts
        /\ status' = [status EXCEPT ![c] = "waiting"]
        /\ written' = Append(written, c)
        /\ pending' = Append(pending, c)
     \/ /\ ~Closed /\ ~invalidCommand(c) /\ Refuses
        /\ status' = [status EXCEPT ![c] = "refused"]
        /\ DropPending(c)
  /\ UNCHANGED <<at, part, open, lines, notes, alive, leaving, inbox>>
  /\ UNCHANGED <<inflight, collected, activeCommandNumber, connectionState, reason,
       userClosed, awaitingGreeting, exitAlreadyEmitted, link, reply, exits, events>>

Execute(c) == Submit(c) /\ UNCHANGED <<runner, frames>>

-----------------------------------------------------------------------------
(* The transport's close event and the calls that cause it *)

MutSettlePendingOnClose ==
  /\ inflight' = None /\ pending' = <<>> /\ collected' = 0
  /\ status' = [c \in Calls |->
       IF \E i \in DOMAIN pending : pending[i] = c THEN "lost" ELSE status[c]]
SettlePendingOnClose ==
  /\ inflight' = None /\ pending' = <<>> /\ collected' = 0
  /\ status' = [c \in Calls |-> IF c \in Outstanding THEN "lost" ELSE status[c]]

MutAnnounceClosed(why) ==
  IF userClosed' THEN connectionState' = "closed" /\ reason' = "disposed"
                 ELSE UNCHANGED <<connectionState, reason>>
AnnounceClosed(why) ==
  /\ connectionState' = "closed"
  /\ reason' = IF userClosed' THEN "disposed" ELSE why

(* A %exit that came through has told the consumers already.               *)
MutNeedsSyntheticExit == TRUE
NeedsSyntheticExit == ~exitAlreadyEmitted

MutRunnerLost == UNCHANGED runner
RunnerLost == runner' = FALSE

(* The onClose handler: the router loses its runner, every outstanding     *)
(* call is rejected, and `exit' is emitted unless %exit already was; the   *)
(* state changes after that.  `reason' holds the transport's own signal    *)
(* while the handlers of `exit' run.                                       *)
OnClose(why) ==
  /\ link' = "closed"
  /\ RunnerLost
  /\ SettlePendingOnClose
  /\ IF NeedsSyntheticExit
       THEN /\ exitAlreadyEmitted' = TRUE /\ exits' = exits + 1
            /\ frames' = Append(frames, "exit")
            /\ reason' = why /\ UNCHANGED connectionState
       ELSE AnnounceClosed(why) /\ UNCHANGED <<exitAlreadyEmitted, exits, frames>>
  /\ UNCHANGED <<activeCommandNumber, awaitingGreeting, reply, events>>

Top(frame) == frames # <<>> /\ frames[Len(frames)] = frame
Pop == frames' = SubSeq(frames, 1, Len(frames) - 1)

FinishClose ==
  /\ Top("exit") /\ Pop
  /\ UNCHANGED userClosed
  /\ AnnounceClosed(reason)
  /\ UNCHANGED <<streamVars, pending, inflight, collected, activeCommandNumber,
       awaitingGreeting, exitAlreadyEmitted, runner, link, status, reply,
       exits, events>>

(* The close gate dispatches once, when the child or the socket is gone.   *)
TransportClose(why) ==
  /\ frames = <<>> /\ link # "closed"
  /\ link \in {"broken", "closing"} \/ ~alive
  /\ UNCHANGED <<streamVars, userClosed>>
  /\ OnClose(why)

(* close() on a transport that is already closed only sets userClosed.     *)
Close ==
  /\ ~userClosed /\ userClosed' = TRUE
  /\ UNCHANGED streamVars
  /\ \/ /\ "sync" \in CloseStyles /\ link # "closed"
        /\ OnClose("exit")
     \/ /\ "async" \in CloseStyles \/ link = "closed"
        /\ link' = IF link = "closed" THEN link ELSE "closing"
        /\ UNCHANGED <<pending, inflight, collected, activeCommandNumber,
             connectionState, reason, awaitingGreeting, exitAlreadyEmitted, runner,
             frames, status, reply, exits, events>>

(* detach() writes a bare newline past the FIFO; the mock closes at once.  *)
Detach ==
  /\ ~leaving /\ leaving' = TRUE
  /\ UNCHANGED <<written, at, part, open, lines, notes, alive, inbox, userClosed>>
  /\ \/ /\ "sync" \in CloseStyles /\ link = "open"
        /\ OnClose("exit")
     \/ /\ "async" \in CloseStyles /\ Accepts
        /\ UNCHANGED clientVars

LinkOpens == link = "opening" /\ link' = "open"
(* stdin fails or the socket leaves OPEN: sends are refused from here on.  *)
LinkBreaks == link \in {"opening", "open"} /\ link' = "broken"

Link ==
  /\ frames = <<>>
  /\ LinkOpens \/ LinkBreaks
  /\ UNCHANGED <<streamVars, pending, inflight, collected, activeCommandNumber,
       connectionState, reason, userClosed, awaitingGreeting, exitAlreadyEmitted,
       runner, frames, status, reply, exits, events>>

-----------------------------------------------------------------------------
(* processLine() and handleMessage() *)

HeadLine == inbox[1]

(* One line off the stream, nothing else of tmux's side.                   *)
Take ==
  /\ frames = <<>> /\ inbox # <<>> /\ inbox' = Tail(inbox)
  /\ UNCHANGED <<written, at, part, open, lines, notes, alive, leaving>>
  /\ UNCHANGED <<userClosed, link>>

(* Inside a block every line but a terminator is output, whatever it looks *)
(* like.                                                                   *)
IsTerminator(kind) == kind \in Terminators \cup {"fake"}
MutTreatAsOutput(kind) == InBlock /\ ~IsTerminator(kind) /\ kind # "percent"
TreatAsOutput(kind) == InBlock /\ ~IsTerminator(kind)

ReceiveOutput ==
  /\ Take /\ TreatAsOutput(HeadLine.kind)
  /\ collected' = IF inflight = None THEN collected ELSE collected + 1
  /\ UNCHANGED <<pending, inflight, activeCommandNumber, connectionState, reason,
       awaitingGreeting, exitAlreadyEmitted, runner, frames, status, reply, exits, events>>

(* The greeting's %begin claims nothing; any other claims the oldest call. *)
MutClaims == ~Closed /\ pending # <<>>
Claims == ~Closed /\ ~awaitingGreeting /\ pending # <<>>
MutClaimOldest ==
  /\ inflight' = pending[Len(pending)] /\ collected' = 0
  /\ pending' = SubSeq(pending, 1, Len(pending) - 1)
ClaimOldest == inflight' = pending[1] /\ pending' = Tail(pending) /\ collected' = 0

ReceiveBegin ==
  /\ Take /\ HeadLine.kind = "begin" /\ ~TreatAsOutput("begin")
  /\ activeCommandNumber' = HeadLine.of
  /\ IF Claims THEN ClaimOldest ELSE UNCHANGED <<pending, inflight, collected>>
  /\ UNCHANGED <<connectionState, reason, awaitingGreeting, exitAlreadyEmitted,
       runner, frames, status, reply, exits, events>>

(* The greeting's terminator opens the connection; the router is told      *)
(* after the handlers of `ready' have run.                                 *)
GreetingDone ==
  /\ awaitingGreeting' = FALSE
  /\ connectionState' = "ready" /\ frames' = Append(frames, "ready")
  /\ UNCHANGED <<inflight, collected, status, reply>>

MutSettleInflight(outcome) ==
  /\ UNCHANGED <<inflight, collected, awaitingGreeting, connectionState, frames>>
  /\ IF inflight = None
       THEN UNCHANGED <<status, reply>>
       ELSE /\ status' = [status EXCEPT ![inflight] = outcome]
            /\ reply' = [reply EXCEPT ![inflight] =
                 [of |-> HeadLine.of, output |-> collected, size |-> HeadLine.size]]
SettleInflight(outcome) ==
  /\ inflight' = None /\ collected' = 0
  /\ IF inflight = None
       THEN UNCHANGED <<status, reply>>
       ELSE /\ status' = [status EXCEPT ![inflight] = outcome]
            /\ reply' = [reply EXCEPT ![inflight] =
                 [of |-> HeadLine.of, output |-> collected, size |-> HeadLine.size]]
  /\ UNCHANGED <<awaitingGreeting, connectionState, frames>>

MutOutcome(kind) == kind
Outcome(kind) ==
  IF kind = "error" THEN "failed" ELSE IF kind = "mangled" THEN "protocol" ELSE "ok"

(* A malformed terminator outside a block is a line the parser drops.      *)
ReceiveTerminator ==
  /\ Take /\ IsTerminator(HeadLine.kind)
  /\ activeCommandNumber' = -1
  /\ IF Closed \/ (HeadLine.kind = "mangled" /\ ~InBlock)
       THEN UNCHANGED <<inflight, collected, status, reply, awaitingGreeting,
              connectionState, frames>>
       ELSE IF awaitingGreeting THEN GreetingDone
                                ELSE SettleInflight(Outcome(HeadLine.kind))
  /\ UNCHANGED <<pending, reason, exitAlreadyEmitted, runner, exits, events>>

(* Outside a block a line that begins with % is a notification and any     *)
(* other is dropped.                                                       *)
MutEmits(kind) == kind # "text"
Emits(kind) == ~Closed /\ kind # "text"

ReceiveNotification ==
  /\ Take /\ HeadLine.kind \in {"note", "percent", "text"} /\ ~TreatAsOutput(HeadLine.kind)
  /\ events' = IF Emits(HeadLine.kind) THEN events + 1 ELSE events
  /\ UNCHANGED <<pending, inflight, collected, activeCommandNumber, connectionState,
       reason, awaitingGreeting, exitAlreadyEmitted, runner, frames, status, reply, exits>>

ReceiveExit ==
  /\ Take /\ HeadLine.kind = "exit" /\ ~TreatAsOutput("exit")
  /\ IF Closed \/ exitAlreadyEmitted
       THEN UNCHANGED <<exitAlreadyEmitted, exits>>
       ELSE exitAlreadyEmitted' = TRUE /\ exits' = exits + 1
  /\ UNCHANGED <<pending, inflight, collected, activeCommandNumber, connectionState,
       reason, awaitingGreeting, runner, frames, status, reply, events>>

Receive ==
  \/ ReceiveOutput
  \/ ReceiveBegin
  \/ ReceiveTerminator
  \/ ReceiveNotification
  \/ ReceiveExit

(* router.onTransportReady: the runner is installed and, when a sink needs *)
(* the topology, its list-panes is one more call of execute().             *)
FinishReady ==
  /\ Top("ready") /\ Pop
  /\ runner' = TRUE
  /\ \/ \E c \in Calls : Submit(c)
     \/ UNCHANGED <<streamVars, pending, inflight, collected, activeCommandNumber,
          connectionState, reason, userClosed, awaitingGreeting, exitAlreadyEmitted,
          link, status, reply, exits, events>>

-----------------------------------------------------------------------------

Tmux == TmuxNext /\ UNCHANGED clientVars

Next ==
  \/ \E c \in Calls : Execute(c)
  \/ Close
  \/ Detach
  \/ Link
  \/ \E why \in {"exit", "transport-error"} : TransportClose(why)
  \/ Receive
  \/ FinishReady
  \/ FinishClose
  \/ Tmux

(* tmux answers what it reads, finishes a block it has begun and lets a    *)
(* client that detached go; the runtime delivers what arrived and the      *)
(* close event of a dead transport.  Callers owe nothing.                  *)
Fairness ==
  /\ WF_vars(TmuxBegin /\ UNCHANGED clientVars)
  /\ WF_vars(open /\ (\E kind \in {"end", "error"} : TmuxEnd(kind)) /\ UNCHANGED clientVars)
  /\ WF_vars(leaving /\ TmuxExit /\ UNCHANGED clientVars)
  /\ WF_vars(Receive)
  /\ WF_vars(\E why \in {"exit", "transport-error"} : TransportClose(why))
  /\ WF_vars(FinishReady)
  /\ WF_vars(FinishClose)

Spec == Init /\ [][Next]_vars
FairSpec == Spec /\ Fairness

-----------------------------------------------------------------------------
(* Properties *)

(* A reply reaches the call it answers: the block that settles a promise   *)
(* is the block of that call's own command, whatever was refused,          *)
(* corrupted or answered before it (the FIFO of handleMessage).            *)
OwnReply ==
  \A c \in Calls : status[c] \in Replied =>
    reply[c].of \in DOMAIN written /\ written[reply[c].of] = c

(* A reply is whole: it holds every line tmux wrote between %begin and the *)
(* matching terminator, those that begin with % included.                  *)
CompleteReply ==
  \A c \in Calls : status[c] \in Replied => reply[c].output = reply[c].size

(* Every notification tmux writes is emitted once, no line of command      *)
(* output ever is, until the connection closes.                            *)
NotificationsExact ==
  ~Closed => events + Cardinality({i \in DOMAIN inbox : inbox[i].kind = "note"}) = notes

(* What tmux writes reaches whom it is for, whole: command output its call *)
(* and notifications the consumers, the one never taken for the other.     *)
LinesFindTheirReaders == CompleteReply /\ NotificationsExact

(* No promise is dropped or tracked twice: exactly the unsettled calls     *)
(* stand in the FIFO or the inflight slot, each in one place.              *)
WaitingIsTracked ==
  /\ Outstanding = {c \in Calls : status[c] = "waiting"}
  /\ Cardinality(Outstanding) = Len(pending) + (IF inflight = None THEN 0 ELSE 1)

(* Once `closed' is announced nobody waits any more: every call made       *)
(* before, during the handlers of `exit', or after it has been settled.    *)
NobodyWaitsOnAClosedConnection ==
  Closed => \A c \in Calls : status[c] # "waiting"

(* `exit' is announced exactly once, by tmux's %exit or by the transport's *)
(* close, and always before `closed'.                                      *)
ExitBeforeClosed == exits <= 1 /\ (Closed => exits = 1)

(* The router's command runner is null before ready and after close: it is *)
(* installed after the handlers of `ready' have run, and they may close.   *)
NoRunnerAfterClose == Closed => ~runner

(* A settled promise stays as it is, through late lines, a second close    *)
(* signal and everything else.                                             *)
SettledOnce ==
  [][\A c \in Calls : status[c] \in Settled =>
       status'[c] = status[c] /\ reply'[c] = reply[c]]_vars

(* `closed' is terminal: the state never leaves it and nothing that        *)
(* arrives later reaches the FIFO or the consumers.                        *)
ClosedIsFinal ==
  [][Closed => Closed' /\ UNCHANGED <<reason, events, exits, pending, inflight>>]_vars

(* Every accepted call settles, by its reply or by the end of the          *)
(* connection.                                                             *)
CallSettles == \A c \in Calls : status[c] = "waiting" ~> status[c] \in Settled

(* A detach that the transport took ends in `closed'.                      *)
DetachCloses == leaving ~> Closed

(* The client keeps the promises of CommandPromises: the inflight call and *)
(* the FIFO behind it are the line, and the transport's close ends it.     *)
Promises == INSTANCE CommandPromises WITH
  queue <- (IF inflight = None THEN <<>> ELSE <<inflight>>) \o pending,
  over <- (link = "closed")
KeepsPromises == Promises!Spec
=============================================================================
