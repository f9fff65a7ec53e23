------------------------- MODULE BackpressureLedger -------------------------
(***************************************************************************)
(* BackpressureLedger (src/connectors/backpressure-ledger.ts): how many    *)
(* bytes of a pane's output the peers have been sent and not consumed, and *)
(* the loop that pauses the pane in tmux at the high watermark of their    *)
(* sum and lets it continue at the low one.  One pane is modelled: panes   *)
(* share nothing but the command FIFO.                                     *)
(*                                                                         *)
(* `ledger' holds the state of the class.  Every one of its methods runs   *)
(* without an `await', so the methods are functions on that record, and an *)
(* action is one call from the bridge, the output of tmux reaching one     *)
(* peer, or the continuation of a settled Continue.                        *)
(***************************************************************************)
EXTENDS Integers, Sequences, FiniteSets, Functions

CONSTANTS
  Peers,
  High, Low,    \* the watermarks
  MaxOutput,    \* bound: chunks of output tmux writes
  MaxRefusals   \* bound: commands tmux answers with an error

ASSUME WatermarkAssumption == High \in Nat /\ Low \in Nat /\ High > Low
ASSUME PeersAssumption == IsFiniteSet(Peers)
ASSUME BoundAssumption == MaxOutput \in Nat /\ MaxRefusals \in Nat

VARIABLES
  ledger,
  disposed,
  sent,        \* commands tmux has not executed yet
  inbox,       \* output and replies on their way from tmux
  tmuxPaused,  \* tmux holds the pane's output back
  live,        \* the connection to tmux
  due,         \* peers the chunk being dispatched has not reached yet
  jobs,        \* settled Continues whose continuation has not run
  draining,    \* one has run since the last macrotask
  written,     \* chunks written
  refusals,    \* commands refused
  reported,    \* episodes whose refused Continue went to reportResumeFailure
  moot         \* a refused Continue found the ledger disposed

vars == <<ledger, disposed, sent, inbox, tmuxPaused, live, due, jobs, draining,
          written, refusals, reported, moot>>

(* A PaneFlow is known by its episode, its identity as an object: 0 is no  *)
(* entry in pausedPanes.  `flush' marks the Continues of dispose, whose    *)
(* outcome nobody waits for.                                               *)
Command == [action : {"pause", "continue"}, episode : Nat, flush : BOOLEAN]
LoopContinue(cmd) == cmd.action = "continue" /\ ~cmd.flush

TypeOK ==
  /\ ledger \in [registered : SUBSET Peers, outstanding : [Peers -> Nat],
                 flow : Nat, resuming : BOOLEAN, episodes : Nat, issued : {<<>>}]
  /\ sent \in Seq(Command)
  /\ inbox \in Seq([reply : BOOLEAN, ok : BOOLEAN, of : Command])
  /\ due \subseteq ledger.registered
  /\ jobs \in Seq([episode : Nat, outcome : {"ok", "refused", "gone"}])
  /\ disposed \in BOOLEAN /\ tmuxPaused \in BOOLEAN /\ live \in BOOLEAN
  /\ draining \in BOOLEAN
  /\ written \in 0..MaxOutput /\ refusals \in 0..MaxRefusals
  /\ reported \subseteq 1..ledger.episodes /\ moot \in BOOLEAN

NoCommand == [action |-> "pause", episode |-> 0, flush |-> FALSE]

Init ==
  /\ ledger = [registered |-> {}, outstanding |-> [p \in Peers |-> 0], flow |-> 0,
               resuming |-> FALSE, episodes |-> 0, issued |-> <<>>]
  /\ disposed = FALSE /\ sent = <<>> /\ inbox = <<>> /\ tmuxPaused = FALSE
  /\ live = TRUE /\ due = {} /\ jobs = <<>> /\ draining = FALSE
  /\ written = 0 /\ refusals = 0 /\ reported = {} /\ moot = FALSE

-----------------------------------------------------------------------------
(* The methods, as functions of the ledger.  What they send is `issued'.   *)

totalOutstanding(l) == SumFunction(l.outstanding)

Issue(l, action, flush) ==
  [l EXCEPT !.issued = Append(@, [action |-> action, episode |-> l.flow, flush |-> flush])]

maybePause(l) ==
  IF l.flow # 0 \/ totalOutstanding(l) < High THEN l
  ELSE Issue([l EXCEPT !.flow = l.episodes + 1, !.episodes = @ + 1], "pause", FALSE)

MutMaybeResume(l) ==
  IF l.flow = 0 \/ totalOutstanding(l) > Low THEN l
  ELSE Issue([l EXCEPT !.resuming = TRUE], "continue", FALSE)
maybeResume(l) ==
  IF l.flow = 0 \/ totalOutstanding(l) > Low \/ l.resuming THEN l
  ELSE Issue([l EXCEPT !.resuming = TRUE], "continue", FALSE)

account(l, p) == maybePause([l EXCEPT !.outstanding[p] = @ + 1])

(* A peer cannot give back more than it holds.                             *)
MutAck(l, p, n) == maybeResume([l EXCEPT !.outstanding[p] = @ - n])
ack(l, p, n) ==
  maybeResume([l EXCEPT !.outstanding[p] = IF n < @ THEN @ - n ELSE 0])

(* Only the panes the peer had bytes of are looked at again.               *)
clearPeer(l, p) ==
  IF l.outstanding[p] = 0 THEN l
  ELSE maybeResume([l EXCEPT !.outstanding[p] = 0])

MutReleasePeer(l, p) ==
  [l EXCEPT !.registered = @ \ {p}, !.outstanding[p] = 0]
releasePeer(l, p) == clearPeer([l EXCEPT !.registered = @ \ {p}], p)

Drop(l) == [l EXCEPT !.flow = 0, !.resuming = FALSE]

MutFlushPausedPanes(l) == Drop(l)
flushPausedPanes(l) ==
  Drop(IF l.flow = 0 \/ l.resuming THEN l ELSE Issue(l, "continue", TRUE))

(* Releasing every peer ends with a sum of zero, and looks at the pane if  *)
(* any of them had bytes of it.                                            *)
releaseAll(l) ==
  LET none == [l EXCEPT !.registered = {}, !.outstanding = [p \in Peers |-> 0]]
  IN  IF totalOutstanding(l) = 0 THEN none ELSE maybeResume(none)

(* The Continues of the loop among some commands.                          *)
LoopContinues(cmds) ==
  LET upTo[n \in 0..Len(cmds)] ==
        IF n = 0 THEN <<>>
        ELSE IF LoopContinue(cmds[n]) THEN Append(upTo[n - 1], cmds[n]) ELSE upTo[n - 1]
  IN  upTo[Len(cmds)]

Rejected(cmds) == [i \in DOMAIN LoopContinues(cmds) |->
  [episode |-> LoopContinues(cmds)[i].episode, outcome |-> "gone"]]

(* The call leaves the ledger as `l' and sends what it issued; with the    *)
(* connection gone a Continue is rejected at once.                         *)
Commit(l, rest) ==
  /\ ledger' = [l EXCEPT !.issued = <<>>]
  /\ IF live THEN sent' = sent \o l.issued /\ jobs' = rest
             ELSE UNCHANGED sent /\ jobs' = rest \o Rejected(l.issued)

(* Between macrotasks.                                                     *)
Idle == due = {} /\ jobs = <<>>

-----------------------------------------------------------------------------
(* Calls of the bridge *)

Register(p) ==
  /\ Idle /\ ~disposed /\ p \notin ledger.registered
  /\ Commit([ledger EXCEPT !.registered = @ \cup {p}], <<>>)
  /\ draining' = FALSE
  /\ UNCHANGED <<disposed, inbox, tmuxPaused, live, due, written, refusals, reported, moot>>

(* The renderer of a peer consumed output; n may be more than it was sent. *)
Ack(p, n) ==
  /\ Idle /\ p \in ledger.registered
  /\ Commit(ack(ledger, p, n), <<>>)
  /\ draining' = FALSE
  /\ UNCHANGED <<disposed, inbox, tmuxPaused, live, due, written, refusals, reported, moot>>

(* The socket of a peer drained.                                           *)
ClearPeer(p) ==
  /\ Idle /\ p \in ledger.registered
  /\ Commit(clearPeer(ledger, p), <<>>)
  /\ draining' = FALSE
  /\ UNCHANGED <<disposed, inbox, tmuxPaused, live, due, written, refusals, reported, moot>>

ReleasePeer(p) ==
  /\ Idle /\ p \in ledger.registered
  /\ Commit(releasePeer(ledger, p), <<>>)
  /\ draining' = FALSE
  /\ UNCHANGED <<disposed, inbox, tmuxPaused, live, due, written, refusals, reported, moot>>

Dispose ==
  /\ Idle /\ ~disposed /\ disposed' = TRUE
  /\ Commit(flushPausedPanes(releaseAll(ledger)), <<>>)
  /\ draining' = FALSE
  /\ UNCHANGED <<inbox, tmuxPaused, live, due, written, refusals, reported, moot>>

-----------------------------------------------------------------------------
(* tmux *)

Put(reply, ok, cmd) == inbox' = Append(inbox, [reply |-> reply, ok |-> ok, of |-> cmd])

TmuxOutput ==
  /\ live /\ ~tmuxPaused /\ written < MaxOutput
  /\ written' = written + 1
  /\ Put(FALSE, TRUE, NoCommand)
  /\ UNCHANGED <<ledger, disposed, sent, tmuxPaused, live, due, jobs, draining, refusals, reported, moot>>

TmuxExecute ==
  /\ live /\ sent # <<>> /\ sent' = Tail(sent)
  /\ \/ /\ tmuxPaused' = (sent[1].action = "pause")
        /\ Put(TRUE, TRUE, sent[1])
        /\ UNCHANGED refusals
     \/ /\ refusals < MaxRefusals /\ refusals' = refusals + 1
        /\ Put(TRUE, FALSE, sent[1])
        /\ UNCHANGED tmuxPaused
  /\ UNCHANGED <<ledger, disposed, live, due, jobs, draining, written, reported, moot>>

-----------------------------------------------------------------------------
(* What tmux wrote reaches the bridge: a chunk of output goes to each peer *)
(* in turn, a reply queues the continuation that waits for it.             *)

Reading == live /\ due = {} /\ ~(draining /\ jobs # <<>>) /\ inbox # <<>>

ReceiveOutput ==
  /\ Reading /\ ~inbox[1].reply /\ inbox' = Tail(inbox)
  /\ due' = ledger.registered
  /\ draining' = FALSE
  /\ UNCHANGED <<ledger, disposed, sent, tmuxPaused, live, jobs, written, refusals, reported, moot>>

(* One peer's sink: account, and over a WebSocket whose buffer has drained *)
(* the bytes are cleared by the same call.                                 *)
Deliver(p) ==
  /\ p \in due /\ due' = due \ {p}
  /\ \/ Commit(account(ledger, p), jobs)
     \/ Commit(clearPeer(account(ledger, p), p), jobs)
  /\ UNCHANGED <<disposed, inbox, tmuxPaused, live, draining, written, refusals, reported, moot>>

ReceiveReply ==
  /\ Reading /\ inbox[1].reply /\ inbox' = Tail(inbox)
  /\ jobs' = IF LoopContinue(inbox[1].of)
               THEN Append(jobs, [episode |-> inbox[1].of.episode,
                                  outcome |-> IF inbox[1].ok THEN "ok" ELSE "refused"])
               ELSE jobs
  /\ draining' = FALSE
  /\ moot' = (moot \/ (inbox[1].of.flush /\ ~inbox[1].ok))
  /\ UNCHANGED <<ledger, disposed, sent, tmuxPaused, live, due, written, refusals, reported>>

(* The connection ends: everything unanswered is rejected.                 *)
Unanswered == [i \in DOMAIN inbox |-> inbox[i].of] \o sent

Disconnect ==
  /\ live /\ Idle /\ live' = FALSE
  /\ jobs' = Rejected(Unanswered)
  /\ sent' = <<>> /\ inbox' = <<>> /\ draining' = FALSE
  /\ UNCHANGED <<ledger, disposed, tmuxPaused, due, written, refusals, reported, moot>>

(* The continuation of a Continue.  Only its own episode's entry is        *)
(* touched; a refused Continue leaves the pane paused and is reported.     *)
MutSettled(job) == IF ledger.flow = job.episode THEN Drop(ledger) ELSE ledger
Settled(job) ==
  IF ledger.flow # job.episode THEN ledger
  ELSE IF job.outcome = "refused" THEN [ledger EXCEPT !.resuming = FALSE]
  ELSE Drop(ledger)

Job ==
  LET refused == jobs[1].outcome = "refused"  own == ledger.flow = jobs[1].episode IN
  /\ due = {} /\ jobs # <<>> /\ jobs' = Tail(jobs)
  /\ ledger' = Settled(jobs[1])
  /\ reported' = IF refused /\ own THEN reported \cup {jobs[1].episode} ELSE reported
  /\ moot' = (moot \/ (refused /\ ~own))
  /\ draining' = TRUE
  /\ UNCHANGED <<disposed, sent, inbox, tmuxPaused, live, due, written, refusals>>

-----------------------------------------------------------------------------

Next ==
  \/ \E p \in Peers : Register(p)
  \/ \E p \in Peers, n \in 1..High : Ack(p, n)
  \/ \E p \in Peers : ClearPeer(p)
  \/ \E p \in Peers : ReleasePeer(p)
  \/ Dispose
  \/ TmuxOutput
  \/ TmuxExecute
  \/ ReceiveOutput
  \/ \E p \in Peers : Deliver(p)
  \/ ReceiveReply
  \/ Disconnect
  \/ Job

Spec == Init /\ [][Next]_vars

(* tmux executes what it is sent, the runtime delivers and empties its     *)
(* queue, and peers consume what they were sent.                           *)
Consume == \E p \in Peers : ledger.outstanding[p] > 0 /\
  (ClearPeer(p) \/ \E n \in 1..High : Ack(p, n))
Fairness ==
  /\ WF_vars(TmuxExecute)
  /\ WF_vars(ReceiveOutput \/ ReceiveReply)
  /\ WF_vars(\E p \in Peers : Deliver(p))
  /\ WF_vars(Job)
  /\ WF_vars(Consume)

FairSpec == Spec /\ Fairness

-----------------------------------------------------------------------------
(* Properties *)

Sum == totalOutstanding(ledger)
Quiet == sent = <<>> /\ inbox = <<>> /\ jobs = <<>> /\ due = {}

(* Continues of an episode whose outcome is still on its way.              *)
InFlight(e) ==
  Cardinality({i \in DOMAIN sent : LoopContinue(sent[i]) /\ sent[i].episode = e})
  + Cardinality({i \in DOMAIN inbox : LoopContinue(inbox[i].of) /\ inbox[i].of.episode = e})
  + Cardinality({i \in DOMAIN jobs : jobs[i].episode = e})

(* No pane is left paused silently: when the sum is at or below the low    *)
(* watermark a Continue is on its way, whoever's ack, drain or departure   *)
(* brought it there, or its refusal has been reported.                     *)
PausedBelowLowIsResuming ==
  ledger.flow # 0 /\ Sum <= Low => ledger.resuming \/ ledger.flow \in reported

(* "don't double-send": a paused pane has exactly one Continue in flight   *)
(* while it is resuming and none otherwise.  The ledger is well formed.    *)
OneContinuePerEpisode ==
  /\ TypeOK
  /\ ledger.flow # 0 => InFlight(ledger.flow) = IF ledger.resuming THEN 1 ELSE 0

(* Once everything sent has been answered, tmux holds back no pane that    *)
(* the ledger does not know to be paused, dispose included; and without a  *)
(* refusal the two agree.                                                  *)
BeliefMatchesTmux ==
  Quiet /\ live =>
    /\ tmuxPaused => ledger.flow # 0 \/ moot
    /\ refusals = 0 /\ ledger.flow # 0 => tmuxPaused

(* A pane that tmux holds back flows again, as long as peers consume what  *)
(* they were sent, or the refusal that keeps it so has been reported.      *)
PausedResumes ==
  tmuxPaused ~> (~tmuxPaused \/ ~live \/ moot \/ ledger.flow \in reported)

(* A pane the ledger still counts as paused when its sum is low does not   *)
(* stay so: a Continue that tmux refused is sent again.                    *)
RefusedResumeIsRetried ==
  (ledger.flow # 0 /\ Sum <= Low) ~> (ledger.flow = 0 \/ Sum > Low \/ ~live)
=============================================================================
