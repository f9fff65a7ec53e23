------------------------- MODULE CrossSessionLayout -------------------------
(***************************************************************************)
(* CrossSessionLayoutRelay (src/cross-session-layout.ts): relays in any    *)
(* number of processes that share one hook, one buffer and one epoch in    *)
(* tmux, and must between them tell every listener of every layout change  *)
(* or say that some were missed.                                           *)
(*                                                                         *)
(* tmux runs a relay's commands in order; a command and its answer are one *)
(* step, and other clients' commands fall between two of them.  A value    *)
(* the subscription reports is read when it is sent.  A layout is a        *)
(* version number.                                                         *)
(***************************************************************************)
EXTENDS Integers, FiniteSets, SequencesExt

CONSTANTS
  Relays,
  Windows,
  Shadowed,      \* windows that a hook of their own keeps from the global one
  Found,         \* what may sit at the hook's reserved index at first
  Cap,           \* entries at which the buffer is full (CAP, in bytes)
  Listeners,     \* how many listen to one relay at a time
  MaxCalls,      \* bound: enables, of all relays
  MaxChanges,    \* bound: layout changes
  MaxClears,     \* bound: times the global hook is removed
  MaxRefusals,   \* bound: commands tmux refuses
  ClearAnytime   \* the hook may go between a subscribing relay's check and its
                 \* install

ASSUME LayoutAssumption ==
  /\ Found \subseteq {"none", "foreign", "ours"}
  /\ Shadowed \subseteq Windows /\ IsFiniteSet(Windows)
  /\ Cap \in Nat /\ Cap >= 2
  /\ {Listeners, MaxCalls, MaxChanges, MaxClears, MaxRefusals} \subseteq Nat
  /\ ClearAnytime \in BOOLEAN

VARIABLES
  hook,      \* the reserved index of window-layout-changed, global
  seq, buffer, epoch, \* the three options
  layout,    \* each window's layout
  sub,       \* tmux's subscription of each relay: [on, last]
  relay,     \* the relays
  asked,     \* each relay's commands that tmux has not run: [c, gen, w]
  told,      \* the layouts a relay's listeners have been told of, or were
             \* told to read
  granted,   \* each relay's enables that resolved and were not undone
  failed,    \* relays that reported a repair that failed
  calls, changes, clears, refusals \* counters

tmuxVars == <<hook, seq, buffer, epoch, layout>>
countVars == <<calls, changes, clears, refusals>>
vars == <<tmuxVars, sub, relay, asked, told, granted, failed, countVars>>

Step == [op : {"enable", "disable", "repair"}, gen : Nat]
Relay == [refCount : Int, subscribed : BOOLEAN, listening : BOOLEAN, lastSeq : Nat, gen : Nat,
          epoch : Nat, reported : SUBSET SUBSET Windows, repairQueued : BOOLEAN,
          queue : Seq(Step), awaits : {"nothing", "show", "install", "baseline", "subscribe", "unsubscribe"}]

Uncovered == IF hook = "none" THEN Windows ELSE Shadowed
Value == [epoch |-> epoch, uncovered |-> Uncovered, buffer |-> buffer]

TypeOK ==
  /\ hook \in {"none", "foreign", "ours"} /\ {seq, epoch} \subseteq Nat
  /\ buffer \in Seq([seq : Nat, window : Windows]) /\ Len(buffer) <= Cap
  /\ layout \in [Windows -> 0..MaxChanges] /\ relay \in [Relays -> Relay]
  /\ \A r \in Relays : /\ relay[r].refCount >= 0
                       /\ relay[r].subscribed => relay[r].listening
                       /\ relay[r].awaits # "nothing" => relay[r].queue # <<>>
  /\ told \in [Relays -> [Windows -> 0..MaxChanges]]
  /\ granted \in [Relays -> Nat] /\ failed \subseteq Relays

Init ==
  /\ hook \in Found /\ seq = 0 /\ buffer = <<>> /\ epoch = 0
  /\ layout = [w \in Windows |-> 0]
  /\ sub = [r \in Relays |-> [on |-> FALSE, last |-> <<>>]]
  /\ relay = [r \in Relays |-> [refCount |-> 0, subscribed |-> FALSE, listening |-> FALSE, lastSeq |-> 0,
                gen |-> 0, epoch |-> 0, reported |-> {}, repairQueued |-> FALSE, queue |-> <<>>,
                awaits |-> "nothing"]]
  /\ asked = [r \in Relays |-> <<>>]
  /\ told = [r \in Relays |-> layout]
  /\ granted = [r \in Relays |-> 0] /\ failed = {}
  /\ calls = 0 /\ changes = 0 /\ clears = 0 /\ refusals = 0

-----------------------------------------------------------------------------
(* tmux: the hook's two commands run back to back in a window it covers.   *)
(* Changes of a window it never covers leave no trace, and are left out.   *)

Newest(b) == SubSeq(b, Len(b) - Cap + 1, Len(b))
Change(w) ==
  /\ w \notin Shadowed /\ changes < MaxChanges /\ changes' = changes + 1
  /\ layout' = [layout EXCEPT ![w] = @ + 1]
  /\ IF hook = "ours"
       THEN LET b == Append(buffer, [seq |-> seq + 1, window |-> w]) IN
            /\ seq' = seq + 1
            /\ buffer' = IF Len(b) > Cap THEN Newest(b) ELSE b
       ELSE UNCHANGED <<seq, buffer>>
  /\ UNCHANGED <<hook, epoch, sub, relay, asked, told, granted, failed, calls, clears, refusals>>

(* A configuration read again replaces the whole hook array.               *)
Replacing(r) == relay[r].awaits = "install" /\ Head(asked[r]).c = "install"
ClearHook ==
  /\ hook # "none" /\ hook' = "none"
  /\ clears < MaxClears /\ clears' = clears + 1
  /\ ClearAnytime \/ \A r \in Relays : ~Replacing(r)
  /\ UNCHANGED <<seq, buffer, epoch, layout, sub, relay, asked, told, granted, failed, calls, changes, refusals>>

-----------------------------------------------------------------------------
(* Decoding *)

(* A full buffer's first entry may be cut short, and is not read.          *)
decodeEntries(b) == IF Len(b) >= Cap THEN Tail(b) ELSE b

Fresh(es, lastSeq) == {e \in ToSet(es) : e.seq > lastSeq}
MutLostEntries(fresh, lastSeq) == 0
LostEntries(fresh, lastSeq) ==
  IF fresh = {} THEN 0 ELSE Min({e.seq : e \in fresh}) - lastSeq - 1
LastSeq(fresh, lastSeq) == IF fresh = {} THEN lastSeq ELSE Max({e.seq : e \in fresh})
Changed(fresh) == {e.window : e \in fresh}

-----------------------------------------------------------------------------
(* The relay's queue of steps.  A step goes on from answer to answer; the  *)
(* next begins when it has settled.                                        *)

Cmd(c) == [c |-> c, gen |-> 0, w |-> {}]
Fetch(w, gen) == [c |-> "fetch", gen |-> gen, w |-> {w}]

Asks(r, c) == asked' = [asked EXCEPT ![r] = Tail(@) \o <<Cmd(c)>>]
Await(r, m, c) == relay' = [relay EXCEPT ![r] = [m EXCEPT !.awaits = c]]

Done(m) == [m EXCEPT !.queue = Tail(@), !.awaits = "nothing"]

Rejected(m) == IF Head(m.queue).op = "enable" THEN [Done(m) EXCEPT !.refCount = @ - 1] ELSE Done(m)

Resolves(r) == granted' = [granted EXCEPT ![r] = @ + 1]

enable(r) ==
  /\ relay[r].refCount < Listeners
  /\ calls < MaxCalls /\ calls' = calls + 1
  /\ relay' = [relay EXCEPT ![r].refCount = @ + 1,
                            ![r].queue = Append(@, [op |-> "enable", gen |-> 0])]
  /\ UNCHANGED <<tmuxVars, sub, asked, told, granted, failed, changes, clears, refusals>>

(* Callers undo what they were granted, as the bridge's ledger does: its    *)
(* steps for a peer are serialised too.                                    *)
disable(r) ==
  /\ granted[r] > 0 /\ granted' = [granted EXCEPT ![r] = @ - 1]
  /\ relay' = [relay EXCEPT ![r].refCount = @ - 1,
                            ![r].queue = Append(@, [op |-> "disable", gen |-> 0])]
  /\ UNCHANGED <<tmuxVars, sub, asked, told, failed, countVars>>

(* The head of the queue begins: reconcile, or the check of a repair.      *)
MutWanted(m) == m.refCount >= 0
Wanted(m) == m.refCount > 0

(* A repair of an earlier subscription is not made, and another may follow. *)
Current(m) == Head(m.queue).gen = m.gen
MutUnqueued(m) == IF Current(m) THEN [m EXCEPT !.repairQueued = FALSE] ELSE m
Unqueued(m) == [m EXCEPT !.repairQueued = FALSE]

Begin(r) ==
  LET m == relay[r]  op == Head(m.queue).op IN
  /\ m.queue # <<>> /\ m.awaits = "nothing"
  /\ \/ /\ op # "repair" /\ Wanted(m) /\ ~m.subscribed
        /\ Await(r, m, "show") /\ asked' = [asked EXCEPT ![r] = Append(@, Cmd("show"))]
        /\ UNCHANGED granted
     \/ /\ op # "repair" /\ ~Wanted(m) /\ m.subscribed
        /\ Await(r, [m EXCEPT !.subscribed = FALSE, !.listening = FALSE, !.gen = @ + 1], "unsubscribe")
        /\ asked' = [asked EXCEPT ![r] = Append(@, Cmd("unsubscribe"))]
        /\ UNCHANGED granted
     \/ /\ op # "repair" /\ Wanted(m) = m.subscribed
        /\ relay' = [relay EXCEPT ![r] = Done(m)]
        /\ IF op = "enable" THEN Resolves(r) ELSE UNCHANGED granted
        /\ UNCHANGED asked
     \/ /\ op = "repair" /\ UNCHANGED granted
        /\ IF Current(m)
             THEN /\ Await(r, Unqueued(m), "show")
                  /\ asked' = [asked EXCEPT ![r] = Append(@, Cmd("show"))]
             ELSE /\ relay' = [relay EXCEPT ![r] = Done(Unqueued(m))]
                  /\ UNCHANGED asked
  /\ UNCHANGED <<tmuxVars, sub, told, failed, countVars>>

-----------------------------------------------------------------------------
(* tmux runs a relay's next command, and the relay reads the answer.       *)

Runs(r, c) == asked[r] # <<>> /\ Head(asked[r]).c = c
Answered(r) == asked' = [asked EXCEPT ![r] = Tail(@)]
For(r) == Head(relay[r].queue).op

ShowHooks(r) ==
  /\ Runs(r, "show")
  /\ \/ /\ hook = "none" /\ Asks(r, "install and bump") /\ Await(r, relay[r], "install")
     \/ /\ hook # "none" /\ For(r) # "repair" /\ Asks(r, "install") /\ Await(r, relay[r], "install")
     \/ /\ hook # "none" /\ For(r) = "repair" /\ Answered(r)
        /\ relay' = [relay EXCEPT ![r] = Done(@)]
  /\ UNCHANGED <<tmuxVars, sub, told, granted, failed, countVars>>

(* The end of ensureHook.                                                  *)
HookInstalled(r) ==
  /\ hook' = "ours"
  /\ IF For(r) # "repair" THEN Asks(r, "baseline") /\ Await(r, relay[r], "baseline")
     ELSE Answered(r) /\ relay' = [relay EXCEPT ![r] = Done(@)]
  /\ UNCHANGED <<seq, buffer, layout, sub, told, granted, failed, countVars>>

Install(r) == Runs(r, "install") /\ UNCHANGED epoch /\ HookInstalled(r)

MutInstallAndBump(r) == Runs(r, "install and bump") /\ UNCHANGED epoch /\ HookInstalled(r)
InstallAndBump(r) == Runs(r, "install and bump") /\ epoch' = epoch + 1 /\ HookInstalled(r)

Baseline(m) == [m EXCEPT !.lastSeq = seq, !.epoch = epoch, !.reported = {}, !.listening = TRUE]
ReadBaseline(r) ==
  /\ Runs(r, "baseline") /\ Asks(r, "subscribe")
  /\ Await(r, Baseline(relay[r]), "subscribe")
  /\ told' = [told EXCEPT ![r] = layout]
  /\ UNCHANGED <<tmuxVars, sub, granted, failed, countVars>>

Subscribe(r) ==
  /\ Runs(r, "subscribe") /\ Answered(r)
  /\ sub' = [sub EXCEPT ![r] = [on |-> TRUE, last |-> <<>>]]
  /\ relay' = [relay EXCEPT ![r] = [Done(@) EXCEPT !.subscribed = TRUE]]
  /\ IF For(r) = "enable" THEN Resolves(r) ELSE UNCHANGED granted
  /\ UNCHANGED <<tmuxVars, told, failed, countVars>>

Unsubscribe(r) ==
  /\ Runs(r, "unsubscribe") /\ Answered(r)
  /\ sub' = [sub EXCEPT ![r].on = FALSE]
  /\ relay' = [relay EXCEPT ![r] = Done(@)]
  /\ UNCHANGED <<tmuxVars, told, granted, failed, countVars>>

(* A fetch reads the layout as it is now, and one that was refused says so. *)
Fetched(r) ==
  /\ Answered(r)
  /\ told' = IF Head(asked[r]).gen = relay[r].gen
               THEN [told EXCEPT ![r] = [w \in Windows |-> IF w \in Head(asked[r]).w THEN layout[w]
                                                                                    ELSE @[w]]]
               ELSE told
  /\ UNCHANGED <<tmuxVars, sub, relay, granted, failed>>
FetchLayout(r) == Runs(r, "fetch") /\ Fetched(r) /\ UNCHANGED countVars

Refuse(r) ==
  /\ asked[r] # <<>>
  /\ refusals < MaxRefusals /\ refusals' = refusals + 1
  /\ IF Head(asked[r]).c = "fetch" THEN Fetched(r)
     ELSE /\ Answered(r)
          /\ relay' = [relay EXCEPT ![r] =
               IF @.awaits = "subscribe" THEN [Rejected(@) EXCEPT !.listening = FALSE] ELSE Rejected(@)]
          /\ failed' = IF For(r) = "repair" THEN failed \cup {r} ELSE failed
          /\ UNCHANGED <<tmuxVars, sub, told, granted>>
  /\ UNCHANGED <<calls, changes, clears>>

-----------------------------------------------------------------------------
(* The subscription reports a value that differs from the last.            *)

Repair(m) == [m EXCEPT !.repairQueued = TRUE, !.queue = Append(@, [op |-> "repair", gen |-> m.gen])]
NeedsRepair(m, uncovered) == uncovered # {} /\ ~m.repairQueued

handleDelivery(r, v) ==
  LET m == relay[r]
      fresh == Fresh(decodeEntries(v.buffer), m.lastSeq)
      read == [m EXCEPT !.epoch = v.epoch, !.reported = {v.uncovered}, !.lastSeq = LastSeq(fresh, @)]
  IN /\ relay' = [relay EXCEPT ![r] = IF NeedsRepair(m, v.uncovered) THEN Repair(read) ELSE read]
     /\ asked' = [asked EXCEPT ![r] = @ \o SetToSeq({Fetch(w, m.gen) : w \in Changed(fresh)})]
     /\ told' = IF v.epoch # m.epoch \/ LostEntries(fresh, m.lastSeq) > 0
                  THEN [told EXCEPT ![r] = layout] ELSE told

Report(r) ==
  /\ sub[r].on /\ sub[r].last # <<Value>>
  /\ sub' = [sub EXCEPT ![r].last = <<Value>>]
  /\ IF relay[r].listening THEN handleDelivery(r, Value) ELSE UNCHANGED <<relay, asked, told>>
  /\ UNCHANGED <<tmuxVars, granted, failed, countVars>>

Serve(r) ==
  \/ ShowHooks(r) \/ Install(r) \/ InstallAndBump(r) \/ ReadBaseline(r) \/ Subscribe(r)
  \/ Unsubscribe(r) \/ FetchLayout(r)

Next ==
  \/ \E r \in Relays : enable(r) \/ disable(r) \/ Begin(r) \/ Serve(r) \/ Refuse(r) \/ Report(r)
  \/ \E w \in Windows : Change(w)
  \/ ClearHook

Spec == Init /\ [][Next]_vars

-----------------------------------------------------------------------------
(* A subscribed relay that has read the present value and has nothing left *)
(* to do.                                                                  *)
AtRest(r) ==
  /\ relay[r].subscribed /\ relay[r].queue = <<>> /\ asked[r] = <<>>
  /\ sub[r].last = <<Value>>

(* At rest, the listeners know every layout: each change since they began  *)
(* was sent to them, or they were told, by an overrun, a failed fetch or a *)
(* restored hook, to read it after it happened, or its window is in the    *)
(* set they were told is not covered; and that set is right.               *)
NothingMissed ==
  \A r \in Relays : AtRest(r) =>
    /\ relay[r].reported = {Uncovered}
    /\ \A w \in Windows \ Uncovered : told[r][w] = layout[w]

(* When its queue is empty a relay is subscribed exactly if an enable that *)
(* resolved has not been undone, and one that resolved is a subscription   *)
(* in tmux: failed steps and racing calls leave no reference behind, and   *)
(* none takes back one it did not hold.                                    *)
CoverageFollowsCalls ==
  /\ TypeOK
  /\ \A r \in Relays : relay[r].queue = <<>> =>
       /\ relay[r].subscribed <=> granted[r] > 0
       /\ relay[r].subscribed => sub[r].on

(* No subscribed relay comes to rest with the hook removed, unless tmux    *)
(* refused a repair and the listeners were told.                           *)
HookComesBack == \A r \in Relays : AtRest(r) /\ hook = "none" => r \in failed
=============================================================================
