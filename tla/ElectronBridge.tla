--------------------------- MODULE ElectronBridge ---------------------------
(***************************************************************************)
(* The Electron bridge (src/connectors/electron): TmuxClientProxy in the   *)
(* renderer, SenderRegistry and InvokePipeline in the main process,        *)
(* between them the IPC of Electron, and in the main process the           *)
(* BackpressureLedger, the CrossSessionLayoutLedger                        *)
(* (src/connectors/cross-session-layout-ledger.ts) and the                 *)
(* IdlePaneSuppressor (src/idle-pane-suppressor.ts), which all three drive *)
(* one TmuxClient.                                                         *)
(*                                                                         *)
(* One pane, whose chunks of output count one byte each.  A WebContents    *)
(* and its main process exchange messages in order; a handler is one       *)
(* action.  The promise jobs of a handler run before the next one.         *)
(***************************************************************************)
EXTENDS Integers, Sequences, FiniteSets

CONSTANTS
  Renderers,     \* the WebContents
  Peers,         \* bound: tokens of registerPeer, counted from 1
  Batch,         \* ackBatchBytes
  High, Low,     \* the watermarks
  MaxEvents,     \* bound: what the pages, the application and tmux do unasked
  MaxRefusals,   \* bound: commands of the layout relay that tmux refuses
  Suppress,      \* the client's idlePaneSuppression
  Reloads,       \* a page may be replaced without close()
  Eager          \* coverage may be given up before it was granted

ASSUME BridgeAssumption ==
  /\ IsFiniteSet(Renderers) /\ IsFiniteSet(Peers) /\ Peers = 1..Cardinality(Peers)
  /\ Batch \in Nat \ {0} /\ {MaxEvents, MaxRefusals} \subseteq Nat
  /\ High \in Nat /\ Low \in Nat /\ High > Low
  /\ {Suppress, Reloads, Eager} \subseteq BOOLEAN

(* What every page may leave unacknowledged together stays within the low  *)
(* watermark, or a pane they all wait for is never resumed.                *)
ASSUME BatchAssumption == Cardinality(Renderers) * (Batch - 1) <= Low

VARIABLES
  ledger, disposed, sent, inbox, tmuxPaused, live, due, jobs, draining, written, \* as in BackpressureLedger
  refusals, reported, moot, \* of BackpressureLedger, and constant here: it refuses nothing
  wc,        \* each WebContents: "alive", "destroyed" (its event to come) or "gone"
  proxy,     \* the TmuxClientProxy of each page
  toMain, toPage, \* IPC
  senders,   \* SenderRegistry: [peer, subscribed]; peer 0 is no entry
  made,      \* tokens given out
  coverage,  \* CrossSessionLayoutLedger, by token
  calls,     \* the invokes; `peer' is set once the main process runs one
  told,      \* the client has emitted `closed'
  events, refused \* counters

fixedVars == <<due, written, refusals, reported, moot>>
flowVars == <<ledger, disposed, sent, inbox, tmuxPaused, live, jobs, draining, fixedVars>>
mainVars == <<senders, made, coverage, told, refused>>
pageVars == <<wc, proxy>>
vars == <<flowVars, mainVars, pageVars, toMain, toPage, calls, events>>

Flow == INSTANCE BackpressureLedger WITH MaxRefusals <- 0, MaxOutput <- MaxEvents

Call == [page : Renderers, method : {"enable", "disable"}, peer : Peers \cup {0}, aborted : BOOLEAN,
         outcome : {"none", "ok", "error", "aborted"},
         promise : {"pending", "ok", "error", "aborted", "timeout", "lost"}]
Step == [op : {"enable", "disable", "wait", "release"}, call : 0..MaxEvents]

TypeOK ==
  /\ Flow!TypeOK
  /\ wc \in [Renderers -> {"alive", "destroyed", "gone"}]
  /\ proxy \in [Renderers -> [open : BOOLEAN, state : {"none", "connecting", "ready", "closed"},
                              pending : 0..(Batch - 1)]]
  /\ senders \in [Renderers -> [peer : Peers \cup {0}, subscribed : BOOLEAN]]
  /\ made \in Peers \cup {0} /\ told \in BOOLEAN
  /\ coverage \in [Peers -> [count : Nat, held : BOOLEAN, awaits : {"nothing", "enable", "disable"},
                             steps : Seq(Step)]]
  /\ calls \in Seq(Call)
  /\ events \in 0..MaxEvents /\ refused \in 0..MaxRefusals

Init ==
  /\ ledger = [registered |-> {}, outstanding |-> [p \in Peers |-> 0], flow |-> 0,
               resuming |-> FALSE, episodes |-> 0, issued |-> <<>>]
  /\ disposed = FALSE /\ sent = <<>> /\ inbox = <<>> /\ live = TRUE /\ due = {}
  /\ jobs = <<>> /\ draining = FALSE /\ written = 0
  /\ refusals = 0 /\ reported = {} /\ moot = FALSE
  /\ tmuxPaused = Suppress
  /\ wc = [r \in Renderers |-> "alive"]
  /\ proxy = [r \in Renderers |-> [open |-> FALSE, state |-> "none", pending |-> 0]]
  /\ toMain = [r \in Renderers |-> <<>>] /\ toPage = [r \in Renderers |-> <<>>]
  /\ senders = [r \in Renderers |-> [peer |-> 0, subscribed |-> FALSE]] /\ made = 0
  /\ coverage = [p \in Peers |-> [count |-> 0, held |-> FALSE, awaits |-> "nothing", steps |-> <<>>]]
  /\ calls = <<>> /\ told = FALSE /\ events = 0 /\ refused = 0

Alive(r) == wc[r] = "alive"
Knows(r) == senders[r].peer # 0
Known == {r \in Renderers : Knows(r)}
Subscribed == {r \in Renderers : senders[r].subscribed}
Running(c) == c.peer # 0 /\ c.outcome = "none"

(* Between macrotasks of the main process no promise job is left to run,   *)
(* and a client that closed has said so.                                   *)
Runnable(p) == coverage[p].steps # <<>> /\ coverage[p].awaits = "nothing"
Settled == \A p \in Peers : ~Runnable(p)
Turn == Flow!Idle /\ Settled /\ (live \/ told)

Message(what, n) == [what |-> what, n |-> n]
Post(box, r, m) == [box EXCEPT ![r] = Append(@, m)]

Unasked == events < MaxEvents /\ events' = events + 1

(* What is sent to a WebContents that is destroyed goes nowhere.           *)
Give(box, R, m) == [r \in Renderers |-> IF r \in R /\ Alive(r) THEN Append(box[r], m) ELSE box[r]]

-----------------------------------------------------------------------------
(* The page *)

(* What a page still waits for goes with it.                               *)
Lose(r) == [i \in DOMAIN calls |-> IF calls[i].page = r /\ calls[i].promise = "pending"
                                      THEN [calls[i] EXCEPT !.promise = "lost"] ELSE calls[i]]

(* A new proxy registers; the page's old one was closed, or a new page took*)
(* its place.                                                              *)
createRendererBridge(r) ==
  /\ Unasked /\ Alive(r) /\ (Reloads \/ ~proxy[r].open)
  /\ proxy' = [proxy EXCEPT ![r] = [open |-> TRUE, state |-> "connecting", pending |-> 0]]
  /\ toMain' = Post(toMain, r, Message("register", 0))
  /\ toPage' = IF proxy[r].open THEN [toPage EXCEPT ![r] = <<>>] ELSE toPage
  /\ calls' = IF proxy[r].open THEN Lose(r) ELSE calls
  /\ UNCHANGED <<flowVars, wc, mainVars>>

close(r) ==
  /\ Unasked /\ proxy[r].open
  /\ proxy' = [proxy EXCEPT ![r] = [open |-> FALSE, state |-> "closed", pending |-> 0]]
  /\ toMain' = Post(toMain, r, Message("unregister", 0))
  /\ UNCHANGED <<flowVars, wc, toPage, mainVars, calls>>

(* A closed proxy forwards calls as well.  Unless it is eager, an          *)
(* application gives up only what it was granted, once per grant.          *)
Leaving(r) == \E i \in DOMAIN toMain[r] : toMain[r][i].what \in {"register", "unregister"}
Of(r, method, P) == {i \in DOMAIN calls : calls[i].page = r /\ calls[i].method = method /\ calls[i].peer \in P}
Granted(r) ==
  ~Leaving(r) /\ Cardinality({i \in Of(r, "enable", {senders[r].peer}) : calls[i].promise = "ok"})
                > Cardinality(Of(r, "disable", {0, senders[r].peer}))
invoke(r, method) ==
  /\ Unasked /\ Alive(r) /\ proxy[r].state # "none"
  /\ method = "disable" => Eager \/ Granted(r)
  /\ calls' = Append(calls, [page |-> r, method |-> method, peer |-> 0, aborted |-> FALSE,
                             outcome |-> "none", promise |-> "pending"])
  /\ toMain' = Post(toMain, r, Message("invoke", Len(calls) + 1))
  /\ UNCHANGED <<flowVars, pageVars, toPage, mainVars>>

(* invokeTimeoutMs: the main process goes on, and its answer is discarded. *)
withTimeout(i) ==
  /\ Unasked /\ calls[i].promise = "pending" /\ calls' = [calls EXCEPT ![i].promise = "timeout"]
  /\ UNCHANGED <<flowVars, pageVars, toMain, toPage, mainVars>>

Takes(r, what) == toPage[r] # <<>> /\ toPage[r][1].what = what /\ toPage' = [toPage EXCEPT ![r] = Tail(@)]

(* Bytes are acknowledged once a batch of them is together.                *)
MutAccount(pending) == IF pending + 1 < Batch THEN [pending |-> pending + 1, bytes |-> 0]
                       ELSE [pending |-> 0, bytes |-> 1]
account(pending) == IF pending + 1 < Batch THEN [pending |-> pending + 1, bytes |-> 0]
                    ELSE [pending |-> 0, bytes |-> pending + 1]

onOutput(r) ==
  LET next == account(proxy[r].pending) IN
  /\ Takes(r, "output")
  /\ IF ~proxy[r].open THEN UNCHANGED <<proxy, toMain>>
     ELSE /\ proxy' = [proxy EXCEPT ![r].pending = next.pending]
          /\ toMain' = IF next.bytes = 0 THEN toMain ELSE Post(toMain, r, Message("ack", next.bytes))
  /\ UNCHANGED <<events, flowVars, wc, mainVars, calls>>

(* n is 1 when the connection is closed.                                   *)
onConnectionState(r) ==
  /\ Takes(r, "state")
  /\ proxy' = IF ~proxy[r].open THEN proxy
              ELSE [proxy EXCEPT ![r].state = IF toPage[r][1].n = 0 THEN "ready" ELSE "closed"]
  /\ UNCHANGED <<events, flowVars, wc, toMain, mainVars, calls>>

onReply(r) ==
  /\ Takes(r, "reply")
  /\ LET i == toPage[r][1].n IN
     calls' = [calls EXCEPT ![i].promise = IF @ = "pending" THEN calls[i].outcome ELSE @]
  /\ UNCHANGED <<events, flowVars, pageVars, toMain, mainVars>>

(* The WebContents goes, its page with it; the event comes later.          *)
Destroy(r) ==
  /\ Unasked /\ Alive(r) /\ wc' = [wc EXCEPT ![r] = "destroyed"]
  /\ proxy' = [proxy EXCEPT ![r] = [open |-> FALSE, state |-> "closed", pending |-> 0]]
  /\ toPage' = [toPage EXCEPT ![r] = <<>>]
  /\ calls' = Lose(r)
  /\ UNCHANGED <<flowVars, toMain, mainVars>>

-----------------------------------------------------------------------------
(* SenderRegistry *)

(* IdlePaneSuppressor: the registry of sinks tells it when the pane gets   *)
(* its first sink and when it loses its last.                              *)
paneAction(l, action) == IF Suppress THEN Flow!Issue(l, action, TRUE) ELSE l
onPaneBecameInteresting(l) == IF Subscribed = {} THEN paneAction(l, "continue") ELSE l

(* One sender's leaving: its sink first, then what its peer owed.          *)
Leaves(l, r, rest) ==
  Flow!releasePeer(IF senders[r].subscribed /\ rest \cap Subscribed = {} THEN paneAction(l, "pause") ELSE l,
                   senders[r].peer)

PeersOf(R) == {senders[r].peer : r \in R}
Sender(p) == CHOOSE r \in Known : senders[r].peer = p

(* The senders of R leave.  The registry is walked in its own order, that  *)
(* of the tokens.                                                          *)
LedgerWithout(R) ==
  LET younger(p) == Known \ {x \in R : senders[x].peer <= p}
      after[p \in 0..made] ==
        IF p = 0 THEN ledger
        ELSE IF p \in PeersOf(R) THEN Leaves(after[p - 1], Sender(p), younger(p))
        ELSE after[p - 1]
  IN  after[made]

teardown(R) ==
  /\ senders' = [r \in Renderers |-> IF r \in R THEN [peer |-> 0, subscribed |-> FALSE] ELSE senders[r]]
  /\ calls' = [i \in DOMAIN calls |->
       IF Running(calls[i]) /\ calls[i].peer \in PeersOf(R) THEN [calls[i] EXCEPT !.aborted = TRUE] ELSE calls[i]]
  /\ coverage' = [p \in Peers |->
       IF p \in PeersOf(R)
         THEN [coverage[p] EXCEPT !.count = 0, !.steps = Append(@, [op |-> "release", call |-> 0])]
         ELSE coverage[p]]
  /\ UNCHANGED <<made, refused>>

(* A WebContents that is unknown and destroyed gets no sender.             *)
MutReachable(r) == TRUE
Reachable(r) == Knows(r) \/ Alive(r)
Token(r) == IF Knows(r) THEN senders[r].peer ELSE made + 1
getOrCreate(r, l) == [l EXCEPT !.registered = @ \cup {Token(r)}]

(* One message of a page is read.                                          *)
Reads(r, what) ==
  /\ Turn /\ ~disposed /\ toMain[r] # <<>> /\ toMain[r][1].what = what
  /\ toMain' = [toMain EXCEPT ![r] = Tail(@)] /\ draining' = FALSE
Nothing == UNCHANGED <<ledger, sent, jobs, senders, made, coverage, calls, refused>>
mainRest == <<events, disposed, inbox, tmuxPaused, live, fixedVars, pageVars, told>>

register(r) ==
  /\ Reads(r, "register")
  /\ IF ~Reachable(r) THEN Nothing /\ UNCHANGED toPage
     ELSE /\ Token(r) \in Peers
          /\ made' = IF Knows(r) THEN made ELSE made + 1
          /\ senders' = [senders EXCEPT ![r] = [peer |-> Token(r), subscribed |-> TRUE]]
          /\ Flow!Commit(onPaneBecameInteresting(getOrCreate(r, ledger)), <<>>)
          /\ toPage' = Give(toPage, {r}, Message("state", IF live THEN 0 ELSE 1))
          /\ UNCHANGED <<coverage, calls, refused>>
  /\ UNCHANGED mainRest

unregister(r) ==
  /\ Reads(r, "unregister")
  /\ teardown({r} \cap Known) /\ Flow!Commit(LedgerWithout({r} \cap Known), <<>>)
  /\ UNCHANGED <<toPage, mainRest>>

ack(r) ==
  /\ Reads(r, "ack")
  /\ Flow!Commit(IF Knows(r) THEN Flow!ack(ledger, senders[r].peer, toMain[r][1].n) ELSE ledger, <<>>)
  /\ UNCHANGED <<senders, made, coverage, calls, refused, toPage, mainRest>>

onDestroyed(r) ==
  /\ Turn /\ wc[r] = "destroyed" /\ wc' = [wc EXCEPT ![r] = "gone"] /\ draining' = FALSE
  /\ teardown({r} \cap Known) /\ Flow!Commit(LedgerWithout({r} \cap Known), <<>>)
  /\ UNCHANGED <<events, disposed, inbox, tmuxPaused, live, fixedVars, proxy, told, toMain, toPage>>

(* An event of the client goes to every page that is subscribed; a sender  *)
(* whose WebContents turns out to be destroyed is torn down.               *)
Stale == {r \in Known : ~Alive(r)}
broadcast ==
  /\ Turn /\ ~disposed /\ Stale # {} /\ draining' = FALSE
  /\ teardown(Stale) /\ Flow!Commit(LedgerWithout(Stale), <<>>)
  /\ UNCHANGED <<mainRest, toMain, toPage>>

broadcastClosed ==
  /\ ~live /\ ~told /\ told' = TRUE
  /\ IF disposed THEN Nothing /\ UNCHANGED toPage
     ELSE /\ teardown(Stale) /\ Flow!Commit(LedgerWithout(Stale), jobs)
          /\ toPage' = Give(toPage, Subscribed, Message("state", 1))
  /\ UNCHANGED <<events, disposed, inbox, tmuxPaused, live, draining, fixedVars, pageVars, toMain>>

dispose ==
  /\ Unasked /\ Turn /\ ~disposed /\ disposed' = TRUE /\ draining' = FALSE
  /\ teardown(Known) /\ Flow!Commit(Flow!flushPausedPanes(LedgerWithout(Known)), <<>>)
  /\ UNCHANGED <<inbox, tmuxPaused, live, fixedVars, pageVars, told, toMain, toPage>>

-----------------------------------------------------------------------------
(* InvokePipeline and CrossSessionLayoutLedger *)

(* A disable that has nothing to undo waits for the calls before it.       *)
Asks(c, method, i) ==
  [c EXCEPT !.count = IF method = "enable" THEN @ + 1 ELSE IF @ > 0 THEN @ - 1 ELSE 0,
            !.steps = Append(@, [op |-> IF method = "disable" /\ c.count = 0 THEN "wait" ELSE method, call |-> i])]

handle(r) ==
  LET i == toMain[r][1].n  c == calls[i]  p == Token(r) IN
  /\ Reads(r, "invoke")
  /\ IF ~Reachable(r)
       THEN /\ calls' = [calls EXCEPT ![i].outcome = "aborted"]
            /\ UNCHANGED <<ledger, sent, jobs, senders, made, coverage>>
       ELSE /\ p \in Peers /\ made' = IF Knows(r) THEN made ELSE made + 1
            /\ senders' = [senders EXCEPT ![r].peer = p]
            /\ Flow!Commit(getOrCreate(r, ledger), <<>>)
            /\ calls' = [calls EXCEPT ![i].peer = p]
            /\ coverage' = [coverage EXCEPT ![p] = Asks(@, c.method, i)]
  /\ UNCHANGED <<refused, toPage, mainRest>>

(* After dispose nobody listens, and an invoke is rejected by Electron.    *)
Unheard(r) ==
  /\ disposed /\ Turn /\ toMain[r] # <<>>
  /\ toMain' = [toMain EXCEPT ![r] = Tail(@)]
  /\ LET m == toMain[r][1] IN
     IF m.what # "invoke" THEN UNCHANGED <<calls, toPage>>
     ELSE /\ calls' = [calls EXCEPT ![m.n].outcome = "error"]
          /\ toPage' = Give(toPage, {r}, Message("reply", m.n))
  /\ UNCHANGED <<events, flowVars, pageVars, mainVars>>

(* The first step of a peer's queue is over; its call is answered, unless  *)
(* the sender was torn down meanwhile: then it is aborted.                 *)
Done(p, c, outcome) ==
  LET i == c.steps[1].call IN
  /\ coverage' = [coverage EXCEPT ![p] = [c EXCEPT !.awaits = "nothing", !.steps = Tail(@)]]
  /\ IF i = 0 THEN UNCHANGED <<calls, toPage>>
     ELSE /\ calls' = [calls EXCEPT ![i].outcome = IF calls[i].aborted THEN "aborted" ELSE outcome]
          /\ toPage' = Give(toPage, {calls[i].page}, Message("reply", i))
coverageRest == <<events, flowVars, pageVars, toMain, senders, made, told>>

(* reconcile: one reference of the relay while the count is positive.      *)
Wants(c) == c.count > 0 /\ ~c.held
Returns(c) == c.count = 0 /\ c.held
reconcile(p) ==
  LET c == coverage[p]  idle == c.steps[1].op = "wait" \/ ~(Wants(c) \/ Returns(c)) IN
  /\ Runnable(p) /\ UNCHANGED <<coverageRest, refused>>
  /\ IF idle THEN Done(p, c, "ok")
     ELSE /\ coverage' = [coverage EXCEPT ![p] =
               IF Wants(c) THEN [c EXCEPT !.awaits = "enable"] ELSE [c EXCEPT !.awaits = "disable", !.held = FALSE]]
          /\ UNCHANGED <<calls, toPage>>

(* The relay answers.  It refuses once the connection is gone; a refused   *)
(* enable counts for nothing.                                              *)
MutRefusedEnable(c) == c
RefusedEnable(c) == [c EXCEPT !.count = IF c.steps[1].op = "enable" /\ @ > 0 THEN @ - 1 ELSE @]
RelayAnswers(p) ==
  LET c == coverage[p] IN
  /\ c.awaits # "nothing" /\ Flow!Idle /\ Settled
  /\ \/ /\ live /\ Done(p, [c EXCEPT !.held = (c.awaits = "enable")], "ok") /\ UNCHANGED refused
     \/ /\ ~live \/ refused < MaxRefusals
        /\ refused' = IF live THEN refused + 1 ELSE refused
        /\ Done(p, IF c.awaits = "enable" THEN RefusedEnable(c) ELSE c, "error")
  /\ UNCHANGED coverageRest

-----------------------------------------------------------------------------
(* tmux and the client *)

bridgeVars == <<mainVars, pageVars, toMain, toPage, calls>>

(* A chunk goes to every sink in turn; the sink of a WebContents that is   *)
(* destroyed neither bills nor sends.                                      *)
LedgerBilling(S) ==
  LET after[p \in 0..made] ==
        IF p = 0 THEN ledger
        ELSE IF p \in PeersOf(S) THEN Flow!account(after[p - 1], p)
        ELSE after[p - 1]
  IN  after[made]

write ==
  LET S == {r \in Subscribed : Alive(r)} IN
  /\ Flow!Reading /\ Settled /\ ~inbox[1].reply /\ inbox' = Tail(inbox)
  /\ Flow!Commit(LedgerBilling(S), jobs)
  /\ toPage' = [r \in Renderers |-> IF r \in S THEN Append(toPage[r], Message("output", senders[r].peer)) ELSE toPage[r]]
  /\ draining' = FALSE
  /\ UNCHANGED <<events, disposed, tmuxPaused, live, fixedVars, mainVars, pageVars, toMain, calls>>

tmux == (Unasked /\ Flow!TmuxOutput) \/ (UNCHANGED events /\ Flow!TmuxExecute)
Reply == UNCHANGED events /\ Settled /\ Flow!ReceiveReply
ConnectionLost == Unasked /\ Settled /\ Flow!Disconnect
Continuation == UNCHANGED events /\ (live \/ told) /\ Flow!Job

Next ==
  \/ \E r \in Renderers : createRendererBridge(r)
  \/ \E r \in Renderers : close(r)
  \/ \E r \in Renderers, method \in {"enable", "disable"} : invoke(r, method)
  \/ \E i \in DOMAIN calls : withTimeout(i)
  \/ \E r \in Renderers : onOutput(r)
  \/ \E r \in Renderers : onConnectionState(r)
  \/ \E r \in Renderers : onReply(r)
  \/ \E r \in Renderers : Destroy(r)
  \/ \E r \in Renderers : register(r)
  \/ \E r \in Renderers : unregister(r)
  \/ \E r \in Renderers : ack(r)
  \/ \E r \in Renderers : onDestroyed(r)
  \/ broadcast
  \/ broadcastClosed
  \/ dispose
  \/ \E r \in Renderers : handle(r)
  \/ \E r \in Renderers : Unheard(r)
  \/ \E p \in Peers : reconcile(p)
  \/ \E p \in Peers : RelayAnswers(p)
  \/ write
  \/ tmux /\ UNCHANGED bridgeVars
  \/ Reply /\ UNCHANGED bridgeVars
  \/ ConnectionLost /\ UNCHANGED bridgeVars
  \/ Continuation /\ UNCHANGED bridgeVars

Spec == Init /\ [][Next]_vars

-----------------------------------------------------------------------------
(* Properties *)

AtRest ==
  /\ Turn /\ sent = <<>> /\ inbox = <<>>
  /\ \A p \in Peers : coverage[p].steps = <<>>
  /\ \A r \in Renderers : toMain[r] = <<>> /\ toPage[r] = <<>> /\ wc[r] # "destroyed"

Acknowledged(box) ==
  Cardinality({b \in (DOMAIN box) \X (1..Batch) : box[b[1]].what = "ack" /\ b[2] <= box[b[1]].n})
Chunks(box, p) == Cardinality({i \in DOMAIN box : box[i].what = "output" /\ box[i].n = p})

(* No credit is lost between the processes: what a renderer is billed for  *)
(* is on its way to the page, waits there for a batch to fill, or is being *)
(* acknowledged; and so, with every message delivered, a pane somebody     *)
(* watches is held back by nobody, whichever renderer came or went.        *)
CreditIsKept ==
  /\ \A r \in Subscribed : proxy[r].open /\ ~Leaving(r) =>
       ledger.outstanding[senders[r].peer] <=
         Chunks(toPage[r], senders[r].peer) + proxy[r].pending + Acknowledged(toMain[r])
  /\ AtRest /\ live /\ Subscribed # {} => ledger.flow = 0 /\ ~tmuxPaused

(* Nothing survives a renderer: at rest one that is gone has no sender, a  *)
(* token that is not a sender's has neither bytes nor coverage, and a call *)
(* is aborted exactly when the sender it runs for was torn down.           *)
GoneIsForgotten ==
  /\ TypeOK
  /\ ledger.registered = PeersOf(Known)
  /\ \A p \in Peers \ ledger.registered :
       /\ ledger.outstanding[p] = 0
       /\ coverage[p].count = 0 /\ (coverage[p].steps = <<>> => ~coverage[p].held)
  /\ \A i \in DOMAIN calls : Running(calls[i]) => (calls[i].aborted <=> calls[i].peer \notin ledger.registered)
  /\ AtRest => \A r \in Renderers : wc[r] = "gone" => ~Knows(r)

(* The enables of a peer that were answered with success and not undone.   *)
Standing(p) ==
  LET after[n \in 0..Len(calls)] ==
        IF n = 0 THEN 0
        ELSE IF calls[n].peer # p THEN after[n - 1]
        ELSE IF calls[n].method = "disable" THEN IF after[n - 1] > 0 THEN after[n - 1] - 1 ELSE 0
        ELSE IF calls[n].outcome = "ok" THEN after[n - 1] + 1 ELSE after[n - 1]
  IN  after[Len(calls)]

(* With every message delivered, the two sides agree: an open proxy is     *)
(* registered and shows the client's state, no promise is left without an  *)
(* answer, and the relay holds a reference for a peer exactly while enables*)
(* it was granted stand.                                                   *)
InStepAtRest ==
  AtRest =>
    /\ \A r \in Renderers : proxy[r].open /\ ~disposed =>
         r \in Subscribed /\ proxy[r].state = IF live THEN "ready" ELSE "closed"
    /\ \A i \in DOMAIN calls : calls[i].promise # "pending"
    /\ \A p \in ledger.registered :
         coverage[p].count = Standing(p) /\ (coverage[p].held <=> coverage[p].count > 0)
=============================================================================
