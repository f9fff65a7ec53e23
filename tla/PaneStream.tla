----------------------------- MODULE PaneStream -----------------------------
(***************************************************************************)
(* PaneStream and ReseedScheduler                                          *)
(* (packages/pane-terminal/src/stream) with the XtermSink and its          *)
(* FirstResizeGate (src/xterm-sink) that they feed: from a pane's output   *)
(* in tmux to the terminal that shows it, over a client that reconnects.   *)
(*                                                                         *)
(* A chunk of output is its number; a capture is the number of chunks the  *)
(* pane had made when tmux ran it, and a terminal's content the sequence   *)
(* of chunks written to it.  The client answers in order; after a          *)
(* reconnect it sends what was asked for during the outage.  Promise jobs  *)
(* run before the next event, so what follows an answer is part of its     *)
(* step.  Listeners the application registers do not call back.            *)
(***************************************************************************)
EXTENDS Integers, FiniteSets, SequencesExt

CONSTANTS
  Panes,
  Short,         \* panes whose stream may be disposed
  MaxOutput,     \* bound: chunks of output
  MaxMounts,     \* bound: sinks mounted
  MaxDrops,      \* bound: connections lost
  MaxEvents,     \* bound: commands tmux refuses and panes that change their size
  Cap            \* chunks a gate holds before it opens by itself

ASSUME PaneAssumption ==
  /\ IsFiniteSet(Panes) /\ Short \subseteq Panes
  /\ {MaxOutput, MaxMounts, MaxDrops, MaxEvents, Cap} \subseteq Nat

VARIABLES
  stream,    \* the PaneStreams
  view,      \* the sink attached to each, if any
  sweep,     \* ReseedScheduler: the pane it awaits, and those to come
  up,        \* the client is ready
  asked,     \* commands made and not run: [what, pane]
  pipe,      \* what tmux has sent: [what, pane, n]
  made,      \* chunks of output of each pane
  bound,     \* panes whose size tmux reports
  arrived,   \* chunks that came to the present attachment, and to earlier ones
  mounts, drops, events \* counters

wireVars == <<up, asked, pipe, made, bound>>
countVars == <<mounts, drops, events>>
vars == <<stream, view, sweep, wireVars, arrived, countVars>>

Nothing == -1           \* no snapshot: null, or a capture that failed
NoPane == "none"
Chunks == 1..MaxOutput
Snapshot == {Nothing} \cup (0..MaxOutput)

Stream == [state : {"idle", "seeding", "live", "detached", "disposed"}, attached : BOOLEAN,
           phase : {"idle", "capturing"}, stale : BOOLEAN, answer : Snapshot,
           lastSeed : Snapshot, buffer : Seq(Chunks), errors : SUBSET {"seed", "subscribe"}]
View == [open : BOOLEAN, resize : {"none", "queued", "done"}, seed : Snapshot,
         writes : Seq(Chunks), screen : Seq(Chunks)]

TypeOK ==
  /\ stream \in [Panes -> Stream]
  /\ \A p \in Panes : /\ stream[p].attached <=> stream[p].state \in {"seeding", "live"}
                      /\ stream[p].stale => stream[p].phase = "capturing"
  /\ view \in [Panes -> View]
  /\ sweep \in [awaits : Panes \cup {NoPane}, todo : Seq(Panes)]
  /\ asked \in Seq([what : {"capture", "state", "subscribe", "unsubscribe"}, pane : Panes])
  /\ pipe \in Seq([what : {"output", "capture", "no capture", "state", "size", "no subscribe"},
                   pane : Panes, n : Snapshot])
  /\ made \in [Panes -> 0..MaxOutput] /\ bound \subseteq Panes
  /\ arrived \in [Panes -> [now : SUBSET Chunks, before : SUBSET Chunks]]
  /\ mounts \in 0..MaxMounts /\ drops \in 0..MaxDrops
  /\ up \in BOOLEAN /\ events \in 0..MaxEvents

FreshView == [open |-> FALSE, resize |-> "none", seed |-> Nothing, writes |-> <<>>, screen |-> <<>>]

Asks(what, p) == [what |-> what, pane |-> p]
Sends(what, p, n) == [what |-> what, pane |-> p, n |-> n]

(* Every stream is constructed on a connection that is up, and has asked   *)
(* for its pane's size.                                                    *)
Init ==
  /\ stream = [p \in Panes |-> [state |-> "idle", attached |-> FALSE, phase |-> "idle", stale |-> FALSE,
                 answer |-> Nothing, lastSeed |-> Nothing, buffer |-> <<>>, errors |-> {}]]
  /\ view = [p \in Panes |-> FreshView] /\ sweep = [awaits |-> NoPane, todo |-> <<>>]
  /\ up = TRUE /\ asked \in {[i \in DOMAIN s |-> Asks("subscribe", s[i])] : s \in SetToSeqs(Panes)}
  /\ pipe = <<>> /\ made = [p \in Panes |-> 0] /\ bound = {}
  /\ arrived = [p \in Panes |-> [now |-> {}, before |-> {}]]
  /\ mounts = 0 /\ drops = 0 /\ events = 0

-----------------------------------------------------------------------------
(* XtermSink and FirstResizeGate, as functions of a view.                  *)

(* A snapshot repaints every row; an empty one, of a failed capture, none. *)
Painted(screen, n) == IF n = Nothing THEN screen ELSE [i \in 1..n |-> i]

MutDrain(v) == [v EXCEPT !.open = TRUE, !.seed = Nothing, !.writes = <<>>, !.screen = Painted(@, v.seed)]
Drain(v) ==
  [v EXCEPT !.open = TRUE, !.seed = Nothing, !.writes = <<>>,
            !.screen = Painted(@, v.seed) \o v.writes]

Write(v, chunks) ==
  IF v.open THEN [v EXCEPT !.screen = @ \o chunks]
  ELSE LET held == [v EXCEPT !.writes = @ \o chunks] IN
       IF Len(held.writes) > Cap THEN Drain(held) ELSE held

(* bufferSeed keeps the latest snapshot and the writes held before it.     *)
Seeded(v, n, trailing) ==
  Write(IF v.open THEN [v EXCEPT !.screen = Painted(@, n)] ELSE [v EXCEPT !.seed = n], trailing)

Resized(v) == IF v.resize = "none" THEN [v EXCEPT !.resize = "queued"] ELSE v

-----------------------------------------------------------------------------
(* PaneStream, as functions of a stream.                                   *)

Capturing(s) == [s EXCEPT !.phase = "capturing", !.stale = FALSE, !.answer = Nothing]
Idle(s) == [s EXCEPT !.phase = "idle", !.stale = FALSE, !.answer = Nothing]

MutMarkSeedStale(s) == s
MutMarkSeedStale2(s) == [s EXCEPT !.stale = TRUE]
markSeedStale(s) == [s EXCEPT !.stale = s.phase = "capturing"]

(* Each pane of ps in turn is asked for two things.                        *)
Captures(ps) == [i \in 1..(2 * Len(ps)) |-> Asks(IF i % 2 = 1 THEN "capture" ELSE "state", ps[(i + 1) \div 2])]

(* seed() after its await: `how' is "ok", "refused" by tmux, or "gone" with *)
(* the connection.                                                          *)
MutReissues(s) == FALSE
Reissues(s) == s.stale /\ s.attached /\ s.state # "disposed"
Settled(s, how) ==
  LET r == IF how = "refused" /\ s.state # "disposed" THEN [s EXCEPT !.errors = @ \cup {"seed"}] ELSE s
      c == IF how = "ok" THEN [r EXCEPT !.lastSeed = s.answer, !.errors = @ \ {"seed"}] ELSE r
  IN IF s.state = "disposed" THEN Idle(s)
     ELSE IF Reissues(s) THEN [Capturing(r) EXCEPT !.buffer = <<>>]
     ELSE IF s.stale THEN Idle(r)
     ELSE IF s.attached THEN [Idle(c) EXCEPT !.state = "live", !.buffer = <<>>]
     ELSE Idle(c)
Shown(s, v, how) ==
  IF s.state # "disposed" /\ ~s.stale /\ s.attached
    THEN Seeded(v, IF how = "ok" THEN s.answer ELSE Nothing, s.buffer) ELSE v

-----------------------------------------------------------------------------
(* ReseedScheduler.  A target whose reseed() has nothing to do costs no    *)
(* event: the sweep goes on to the first that starts a capture.            *)

Reseeds(s) == s.state # "disposed" /\ s.attached /\ s.phase = "idle"

(* The sweep runs on over `todo', with the streams as they are in ss.      *)
Runs(ss, todo) ==
  LET k == SelectInSeq(todo, LAMBDA p : Reseeds(ss[p])) IN
  IF k = 0 THEN /\ stream' = ss /\ sweep' = [awaits |-> NoPane, todo |-> <<>>]
  ELSE /\ stream' = [ss EXCEPT ![todo[k]] = Capturing([@ EXCEPT !.state = "seeding"])]
       /\ sweep' = [awaits |-> todo[k], todo |-> SubSeq(todo, k + 1, Len(todo))]

RunsAsk(ss, todo) ==
  LET k == SelectInSeq(todo, LAMBDA p : Reseeds(ss[p])) IN
  IF k = 0 THEN <<>> ELSE Captures(<<todo[k]>>)

(* The captures of the panes ps have settled, which may be what the sweep  *)
(* awaits: a stale one that is asked for again is not awaited any more.    *)
Settle(ps, how) ==
  LET ss == [p \in Panes |-> IF p \in ps THEN Settled(stream[p], how) ELSE stream[p]]
      again == SetToSeq({p \in ps : Reissues(stream[p])})
      next == IF sweep.awaits \in ps THEN sweep.todo ELSE <<>>
  IN /\ IF sweep.awaits \in ps THEN Runs(ss, next) ELSE stream' = ss /\ UNCHANGED sweep
     /\ asked' = (IF how = "gone" THEN <<>> ELSE asked) \o Captures(again) \o RunsAsk(ss, next)
     /\ view' = [p \in Panes |-> IF p \in ps THEN Shown(stream[p], view[p], how) ELSE view[p]]

-----------------------------------------------------------------------------
(* The application *)

MutAttach(p) ==
  /\ stream[p].state # "disposed" /\ ~stream[p].attached
  /\ mounts < MaxMounts /\ mounts' = mounts + 1
  /\ IF stream[p].lastSeed # Nothing
       THEN /\ stream' = [stream EXCEPT ![p].attached = TRUE, ![p].state = "live"]
            /\ view' = [view EXCEPT ![p] = Seeded(FreshView, stream[p].lastSeed, <<>>)]
            /\ UNCHANGED asked
       ELSE /\ view' = [view EXCEPT ![p] = FreshView]
            /\ stream' = [stream EXCEPT ![p] = [Capturing(@) EXCEPT !.attached = TRUE, !.state = "seeding"]]
            /\ asked' = asked \o Captures(<<p>>)
  /\ UNCHANGED <<sweep, up, pipe, made, bound, arrived, drops, events>>
(* A mount constructs a sink and attaches it.                              *)
attach(p) ==
  /\ stream[p].state # "disposed" /\ ~stream[p].attached
  /\ mounts < MaxMounts /\ mounts' = mounts + 1
  /\ IF stream[p].lastSeed # Nothing
       THEN /\ stream' = [stream EXCEPT ![p].attached = TRUE, ![p].state = "live"]
            /\ view' = [view EXCEPT ![p] = Seeded(FreshView, stream[p].lastSeed, <<>>)]
            /\ UNCHANGED asked
       ELSE /\ view' = [view EXCEPT ![p] = FreshView]
            /\ IF stream[p].phase = "capturing"
                 THEN /\ stream' = [stream EXCEPT ![p].attached = TRUE, ![p].state = "seeding"]
                      /\ UNCHANGED asked
                 ELSE /\ stream' = [stream EXCEPT ![p] = [Capturing(@) EXCEPT !.attached = TRUE,
                                                                             !.state = "seeding"]]
                      /\ asked' = asked \o Captures(<<p>>)
  /\ UNCHANGED <<sweep, up, pipe, made, bound, arrived, drops, events>>

(* An unmount detaches the stream and disposes the sink.                   *)
detach(p) ==
  /\ stream[p].state # "disposed" /\ (stream[p].attached \/ stream[p].state # "detached")
  /\ stream' = [stream EXCEPT ![p].attached = FALSE, ![p].buffer = <<>>, ![p].state = "detached"]
  /\ view' = [view EXCEPT ![p] = FreshView]
  /\ arrived' = [arrived EXCEPT ![p] = [now |-> {}, before |-> @.before \cup @.now]]
  /\ UNCHANGED <<sweep, wireVars, countVars>>

dispose(p) ==
  /\ p \in Short /\ stream[p].state # "disposed"
  /\ stream' = [stream EXCEPT ![p] = [@ EXCEPT !.state = "disposed", !.attached = FALSE,
                                              !.buffer = <<>>, !.errors = {}]]
  /\ view' = [view EXCEPT ![p] = FreshView]
  /\ asked' = Append(asked, Asks("unsubscribe", p))
  /\ UNCHANGED <<sweep, up, pipe, made, bound, arrived, countVars>>

(* The animation frame of the first resize.                                *)
Frame(p) ==
  /\ stream[p].attached /\ view[p].resize = "queued"
  /\ view' = [view EXCEPT ![p] = [Drain(@) EXCEPT !.resize = "done"]]
  /\ UNCHANGED <<stream, sweep, wireVars, arrived, countVars>>

-----------------------------------------------------------------------------
(* tmux and the client's connection *)

AllOutput == UNION {{p} \X (1..made[p]) : p \in Panes}
Output(p) ==
  /\ Cardinality(AllOutput) < MaxOutput /\ made' = [made EXCEPT ![p] = @ + 1]
  /\ pipe' = IF up THEN Append(pipe, Sends("output", p, made'[p])) ELSE pipe
  /\ UNCHANGED <<stream, view, sweep, up, asked, bound, arrived, countVars>>

Resize(p) ==
  /\ up /\ p \in bound /\ events < MaxEvents /\ events' = events + 1
  /\ pipe' = Append(pipe, Sends("size", p, Nothing))
  /\ UNCHANGED <<stream, view, sweep, up, asked, made, bound, arrived, mounts, drops>>

(* tmux runs the next command.  A new subscription reports its value at    *)
(* once, and from then on when it changes.                                 *)
Serve ==
  /\ up /\ asked # <<>> /\ asked' = Tail(asked)
  /\ LET c == Head(asked) IN
     /\ pipe' = CASE c.what = "capture"     -> Append(pipe, Sends("capture", c.pane, made[c.pane]))
                  [] c.what = "state"       -> Append(pipe, Sends("state", c.pane, Nothing))
                  [] c.what = "subscribe"   -> Append(pipe, Sends("size", c.pane, Nothing))
                  [] c.what = "unsubscribe" -> pipe
     /\ bound' = CASE c.what = "subscribe"   -> bound \cup {c.pane}
                   [] c.what = "unsubscribe" -> bound \ {c.pane}
                   [] OTHER -> bound
  /\ UNCHANGED <<stream, view, sweep, up, made, arrived, countVars>>

Refuse ==
  /\ up /\ asked # <<>> /\ asked' = Tail(asked)
  /\ Head(asked).what \in {"capture", "subscribe"}
  /\ events < MaxEvents /\ events' = events + 1
  /\ pipe' = Append(pipe, Sends(IF Head(asked).what = "capture" THEN "no capture" ELSE "no subscribe",
                                Head(asked).pane, Nothing))
  /\ UNCHANGED <<stream, view, sweep, up, made, bound, arrived, mounts, drops>>

(* A connection, or an attempt at one, ends: what was asked is rejected,   *)
(* and the bridge's peer goes with its subscriptions.                      *)
Drop ==
  /\ drops < MaxDrops /\ drops' = drops + 1
  /\ up' = FALSE /\ pipe' = <<>> /\ bound' = {}
  /\ Settle({p \in Panes : stream[p].phase = "capturing"}, "gone")
  /\ UNCHANGED <<made, arrived, mounts, events>>

(* The sweep begins a promise job after every stream's own handler: panes  *)
(* with a sink first, the visible ones of them before the others.          *)
onReconnected(s) == markSeedStale([s EXCEPT !.lastSeed = Nothing])

AttachedFirst(order) ==
  \A i, j \in DOMAIN order : stream[order[i]].attached /\ ~stream[order[j]].attached => i < j
Reconnect ==
  /\ ~up /\ up' = TRUE
  /\ LET ss == [p \in Panes |-> IF stream[p].state = "disposed" THEN stream[p]
                                                               ELSE onReconnected(stream[p])]
     IN IF sweep.awaits # NoPane THEN stream' = ss /\ UNCHANGED <<sweep, asked>>
        ELSE \E order \in SetToSeqs(Panes) :
               AttachedFirst(order) /\ Runs(ss, order) /\ asked' = asked \o RunsAsk(ss, order)
  /\ UNCHANGED <<view, pipe, made, bound, arrived, countVars>>

-----------------------------------------------------------------------------
(* What the client delivers *)

Read(what) == pipe # <<>> /\ Head(pipe).what = what /\ pipe' = Tail(pipe)

MutDetachedBytes(s) == s
DetachedBytes(s) == markSeedStale([s EXCEPT !.lastSeed = Nothing])

handlePaneBytes ==
  /\ Read("output")
  /\ LET p == Head(pipe).pane  n == Head(pipe).n  s == stream[p] IN
     /\ view' = IF s.state = "live" THEN [view EXCEPT ![p] = Write(@, <<n>>)] ELSE view
     /\ stream' = CASE s.state = "seeding"  -> [stream EXCEPT ![p].buffer = Append(@, n)]
                    [] s.state = "detached" -> [stream EXCEPT ![p] = DetachedBytes(@)]
                    [] OTHER -> stream
     /\ arrived' = IF s.attached THEN [arrived EXCEPT ![p].now = @ \cup {n}] ELSE arrived
  /\ UNCHANGED <<sweep, up, asked, made, bound, countVars>>

Captured ==
  /\ Read("capture")
  /\ stream' = [stream EXCEPT ![Head(pipe).pane] =
                  IF @.phase = "capturing" THEN [@ EXCEPT !.answer = Head(pipe).n] ELSE @]
  /\ UNCHANGED <<view, sweep, up, asked, made, bound, arrived, countVars>>

(* The second of the two answers completes the capture; that of a capture  *)
(* refused before it completes nothing.                                    *)
SeedDone ==
  /\ Read("state")
  /\ LET p == Head(pipe).pane IN
     IF stream[p].phase = "capturing" /\ stream[p].answer # Nothing THEN Settle({p}, "ok")
     ELSE UNCHANGED <<stream, view, sweep, asked>>
  /\ UNCHANGED <<up, made, bound, arrived, countVars>>

SeedRefused ==
  /\ Read("no capture") /\ Settle({Head(pipe).pane}, "refused")
  /\ UNCHANGED <<up, made, bound, arrived, countVars>>

handleSubscriptionChanged ==
  /\ Read("size")
  /\ LET p == Head(pipe).pane IN
     IF stream[p].attached THEN /\ stream' = [stream EXCEPT ![p].errors = @ \ {"subscribe"}]
                                /\ view' = [view EXCEPT ![p] = Resized(@)]
     ELSE UNCHANGED <<stream, view>>
  /\ UNCHANGED <<sweep, up, asked, made, bound, arrived, countVars>>

SubscribeRefused ==
  /\ Read("no subscribe")
  /\ stream' = [stream EXCEPT ![Head(pipe).pane].errors = IF stream[Head(pipe).pane].state = "disposed"
                                                            THEN @ ELSE @ \cup {"subscribe"}]
  /\ UNCHANGED <<view, sweep, up, asked, made, bound, arrived, countVars>>

Deliver ==
  \/ handlePaneBytes \/ Captured \/ SeedDone \/ SeedRefused
  \/ handleSubscriptionChanged \/ SubscribeRefused

Next ==
  \/ \E p \in Panes : attach(p) \/ detach(p) \/ dispose(p) \/ Frame(p) \/ Output(p) \/ Resize(p)
  \/ Serve \/ Refuse \/ Drop \/ Reconnect \/ Deliver

Spec == Init /\ [][Next]_vars

(* tmux runs commands and sends what it has, frames are drawn, and an      *)
(* attempt to reconnect succeeds in the end.                               *)
Fairness ==
  /\ WF_vars(Serve) /\ WF_vars(Deliver) /\ WF_vars(Reconnect)
  /\ \A p \in Panes : WF_vars(Frame(p))
FairSpec == Spec /\ Fairness

-----------------------------------------------------------------------------
(* Nothing is under way for pane p.                                        *)
AtRest(p) ==
  /\ up /\ stream[p].phase = "idle" /\ sweep.awaits = NoPane
  /\ \A i \in DOMAIN asked : asked[i].pane # p
  /\ \A i \in DOMAIN pipe : pipe[i].pane # p
  /\ view[p].resize # "queued"

(* What the sink was given, be it on the screen or held in its gate.       *)
Given(p) == ToSet(Painted(view[p].screen, view[p].seed) \o view[p].writes)

(* At rest, everything the pane put out is in the picture its terminal was *)
(* given, through captures, outages, detached spells and a gate that holds *)
(* content back, or `lastError' says the capture failed.  Left to the      *)
(* earlier sinks is what arrived while one of them was attached.           *)
NothingVanishes ==
  \A p \in Panes : stream[p].attached /\ AtRest(p) =>
    (1..made[p]) \ arrived[p].before \subseteq Given(p) \/ "seed" \in stream[p].errors

(* The same, without leaving anything to the sinks of earlier mounts: `the *)
(* cached snapshot is the whole picture'.                                  *)
WholePicture ==
  \A p \in Panes : stream[p].attached /\ AtRest(p) =>
    1..made[p] \subseteq Given(p) \/ "seed" \in stream[p].errors

CapturesAsked(p) == {i \in DOMAIN asked : asked[i] = Asks("capture", p)}
CapturesAnswered(p) == {i \in DOMAIN pipe : pipe[i].what \in {"capture", "no capture"} /\ pipe[i].pane = p}
Single(S) == \A i, j \in S : i = j

(* One capture-pane of a stream is under way at most, however mounts,      *)
(* unmounts, reconnects and sweeps fall, and its stream waits for it.      *)
OneCapture ==
  /\ TypeOK
  /\ \A p \in Panes :
       /\ Single(CapturesAsked(p)) /\ Single(CapturesAnswered(p))
       /\ CapturesAsked(p) = {} \/ CapturesAnswered(p) = {}
       /\ CapturesAsked(p) \cup CapturesAnswered(p) # {} =>
            stream[p].phase = "capturing" /\ stream[p].answer = Nothing

(* What arrives while a capture is under way waits behind it: `any byte    *)
(* arriving during the new capture is buffered, not interleaved with the   *)
(* previous live frame' (reseed, pane-stream.ts).                          *)
SeedingWhileCapturing ==
  \A p \in Panes : stream[p].attached /\ stream[p].phase = "capturing" => stream[p].state = "seeding"

(* A terminal whose gate still holds its content back at rest has a        *)
(* failure of the size subscription to show for it.                        *)
BlankIsReported ==
  \A p \in Panes : stream[p].attached /\ AtRest(p) => view[p].open \/ "subscribe" \in stream[p].errors

(* No stream seeds for ever: a capture that is stale, refused or lost with *)
(* the connection is followed by another or by live output.                *)
SeedSettles == \A p \in Panes : stream[p].state = "seeding" ~> stream[p].state # "seeding"
=============================================================================
