------------------------- MODULE SubscriptionLedger -------------------------
(***************************************************************************)
(* SubscriptionLedger (src/connectors/subscription-ledger.ts): many peers  *)
(* share one tmux client, and tmux must see `subscribe' from the first     *)
(* peer that asks for a name and `unsubscribe' when the last one drops it. *)
(* One name is modelled: names share nothing but the command FIFO.         *)
(*                                                                         *)
(* A peer's request or departure is a macrotask and runs up to its first   *)
(* `await'.  A reply of tmux queues the continuations that await it, in    *)
(* the order they started to, and the runtime empties that queue, `jobs',  *)
(* before the next macrotask; replies of one chunk are read before it      *)
(* starts to.                                                              *)
(***************************************************************************)
EXTENDS Integers, Sequences, FiniteSets

CONSTANTS
  Peers,
  Args,       \* the (what, format) pairs asked for
  Refusable,  \* those tmux may refuse
  MaxCalls,   \* bound: requests
  Unruly,     \* what a peer may do with a call of its own unanswered:
              \*   "leaves"        go in the middle of any call
              \*   "resubscribes"  subscribe before its unsubscribe is answered
  None

ASSUME LedgerAssumption ==
  /\ Refusable \subseteq Args
  /\ Unruly \subseteq {"leaves", "resubscribes"}
  /\ MaxCalls \in Nat
  /\ None \notin Peers \cup Args

VARIABLES
  registered,  \* the keys of ownedByPeer
  owned,       \* peers whose set of names has the name; a released peer's
               \* set lives on in the calls that captured it
  records,     \* every SubscriptionRecord made
  current,     \* the one in `subscriptions', 0 when there is none
  calls,       \* the requests, in the order they were made
  sent,        \* commands not answered yet: a record, or 0 for unsubscribe
  bound,       \* what tmux has bound to the name, or None
  live,        \* the connection to tmux
  jobs,        \* continuations ready to run
  draining,    \* one has run since the last macrotask
  last         \* each peer's latest request, 0 before its first

vars == <<registered, owned, records, current, calls, sent, bound, live, jobs,
          draining, last>>

(* A call waits in "create" and "join" for the subscribe in flight, in     *)
(* "drop" for the same before it releases, in "yield" for one more turn of *)
(* the queue, and in "forward" for tmux to answer its unsubscribe.         *)
Waits == {"create", "join", "drop", "yield", "forward"}
Answers == {"ok", "error"}
Call == [op : {"subscribe", "unsubscribe"}, pc : Waits \cup Answers,
         peer : Peers, args : Args \cup {None}, rec : Nat]
SubscriptionRecord ==
  [args : Args, owners : SUBSET Peers, inflight : BOOLEAN,
   outcome : {"none"} \cup Answers, waiters : Seq(1..MaxCalls)]

TypeOK ==
  /\ registered \subseteq Peers /\ owned \subseteq Peers
  /\ records \in Seq(SubscriptionRecord)
  /\ current \in 0..Len(records)
  /\ calls \in Seq(Call) /\ Len(calls) <= MaxCalls
  /\ \A c \in DOMAIN calls : calls[c].rec \in 0..Len(records)
  /\ sent \in Seq([rec : 0..Len(records), call : 0..Len(calls)])
  /\ bound \in Args \cup {None}
  /\ jobs \in Seq({c \in DOMAIN calls : calls[c].pc \in Waits \ {"forward"}})
  /\ live \in BOOLEAN /\ draining \in BOOLEAN
  /\ last \in [Peers -> 0..Len(calls)]

Init ==
  /\ registered = Peers /\ owned = {}
  /\ records = <<>> /\ current = 0
  /\ calls = <<>>
  /\ sent = <<>> /\ bound = None /\ live = TRUE
  /\ jobs = <<>> /\ draining = FALSE
  /\ last = [p \in Peers |-> 0]

Held == records[current]

(* Between macrotasks; the end of the connection settles every promise in  *)
(* flight within its own.                                                  *)
Idle == jobs = <<>> /\ (live \/ sent = <<>>)

Unanswered(p) == {c \in DOMAIN calls : calls[c].peer = p /\ calls[c].pc \in Waits}

-----------------------------------------------------------------------------
(* subscribe() up to its first await.  `made' is the calls with the one    *)
(* that asks filled in, `rest' what is left of the queue.                  *)

Refused(made, c) ==
  \/ made[c].peer \notin registered
  \/ current # 0 /\ Held.args # made[c].args

(* A promise that has settled already goes straight to the queue.          *)
MutAwaitInflight(made, c, pc, rest) ==
  /\ calls' = [made EXCEPT ![c].pc = "ok", ![c].rec = current]
  /\ records' = [records EXCEPT ![current].waiters = Append(@, c)]
  /\ jobs' = rest
  /\ UNCHANGED <<owned, current, sent>>
AwaitInflight(made, c, pc, rest) ==
  /\ calls' = [made EXCEPT ![c].pc = pc, ![c].rec = current]
  /\ IF Held.outcome = "none"
       THEN /\ records' = [records EXCEPT ![current].waiters = Append(@, c)]
            /\ jobs' = rest
       ELSE jobs' = Append(rest, c) /\ UNCHANGED records
  /\ UNCHANGED <<owned, current, sent>>

Claim(p, rec) ==
  /\ owned' = owned \cup {p}
  /\ records' = IF p \in owned THEN records
                  ELSE [records EXCEPT ![rec].owners = @ \cup {p}]

(* The first subscriber; on a connection that is gone execute() rejects.   *)
Create(made, c, rest) ==
  /\ records' = Append(records,
       [args |-> made[c].args, owners |-> {made[c].peer}, inflight |-> TRUE,
        outcome |-> IF live THEN "none" ELSE "error",
        waiters |-> IF live THEN <<c>> ELSE <<>>])
  /\ current' = Len(records) + 1
  /\ owned' = owned \cup {made[c].peer}
  /\ calls' = [made EXCEPT ![c].pc = "create", ![c].rec = Len(records) + 1]
  /\ IF live THEN jobs' = rest /\ sent' = Append(sent, [rec |-> Len(records) + 1, call |-> c])
             ELSE jobs' = Append(rest, c) /\ UNCHANGED sent

MutAwaits == FALSE
Awaits == Held.inflight

Enter(made, c, rest) ==
  \/ /\ Refused(made, c)
     /\ calls' = [made EXCEPT ![c].pc = "error"] /\ jobs' = rest
     /\ UNCHANGED <<owned, records, current, sent>>
  \/ /\ ~Refused(made, c) /\ current # 0 /\ Awaits
     /\ AwaitInflight(made, c, "join", rest)
  \/ /\ ~Refused(made, c) /\ current # 0 /\ ~Awaits
     /\ Claim(made[c].peer, current)
     /\ calls' = [made EXCEPT ![c].pc = "ok"] /\ jobs' = rest
     /\ UNCHANGED <<current, sent>>
  \/ /\ ~Refused(made, c) /\ current = 0
     /\ Create(made, c, rest)

Request(op, p, a) ==
  Append(calls, [op |-> op, pc |-> "error", peer |-> p, args |-> a, rec |-> 0])
Asking == Len(calls) + 1

Subscribe(p, a) ==
  /\ Idle /\ Len(calls) < MaxCalls
  /\ "resubscribes" \in Unruly
       \/ \A d \in Unanswered(p) : calls[d].op = "subscribe"
  /\ Enter(Request("subscribe", p, a), Asking, <<>>)
  /\ last' = [last EXCEPT ![p] = Asking]
  /\ draining' = FALSE
  /\ UNCHANGED <<registered, bound, live>>

-----------------------------------------------------------------------------
(* unsubscribe() and the release of ownership *)

(* releaseName for each of `peers': the last owner takes the record down.  *)
LastOwnersOf(peers) ==
  current # 0 /\ peers # {} /\ records[current].owners \subseteq peers

MutReleaseName(peers) ==
  /\ current' = IF LastOwnersOf(peers) THEN 0 ELSE current
  /\ UNCHANGED records
ReleaseName(peers) ==
  /\ records' = IF current = 0 THEN records
                  ELSE [records EXCEPT ![current].owners = @ \ peers]
  /\ current' = IF LastOwnersOf(peers) THEN 0 ELSE current

(* ... and tmux is told.                                                   *)
MutForward(peers, by) == UNCHANGED sent
Forward(peers, by) ==
  sent' = IF LastOwnersOf(peers) /\ live THEN Append(sent, [rec |-> 0, call |-> by]) ELSE sent

(* The part of unsubscribe() after its awaits.                             *)
FinishUnsubscribe(made, c, rest) ==
  LET p == made[c].peer IN
  /\ jobs' = rest
  /\ IF p \notin owned
       THEN /\ calls' = [made EXCEPT ![c].pc = "ok"]
            /\ UNCHANGED <<owned, records, current, sent>>
       ELSE /\ owned' = owned \ {p}
            /\ ReleaseName({p})
            /\ Forward({p}, c)
            /\ calls' = [made EXCEPT ![c].pc =
                 IF ~LastOwnersOf({p}) THEN "ok" ELSE IF live THEN "forward" ELSE "error"]

Unsubscribe(p) ==
  LET made == Request("unsubscribe", p, None) IN
  /\ Idle /\ Len(calls) < MaxCalls
  /\ \/ /\ p \notin registered \cap owned
        /\ calls' = made /\ jobs' = <<>>
        /\ UNCHANGED <<owned, records, current, sent>>
     \/ /\ p \in registered \cap owned /\ current # 0 /\ Held.inflight
        /\ AwaitInflight(made, Asking, "drop", <<>>)
     \/ /\ p \in registered \cap owned /\ ~(current # 0 /\ Held.inflight)
        /\ FinishUnsubscribe(made, Asking, <<>>)
  /\ last' = [last EXCEPT ![p] = Asking]
  /\ draining' = FALSE
  /\ UNCHANGED <<registered, bound, live>>

(* releasePeer for each of `peers', whatever their calls are doing.        *)
Release(peers) ==
  /\ Idle /\ peers # {}
  /\ "leaves" \in Unruly \/
       \A p \in peers : \A c \in Unanswered(p) :
         calls[c].pc # "join" /\ calls[c].args \notin Refusable
  /\ registered' = registered \ peers
  /\ ReleaseName(peers \cap owned)
  /\ Forward(peers \cap owned, 0)
  /\ draining' = FALSE
  /\ UNCHANGED <<owned, calls, bound, live, jobs, last>>

ReleasePeer(p) == p \in registered /\ Release({p})
Dispose == Release(registered)

-----------------------------------------------------------------------------
(* tmux answers; the continuations that awaited the answer run *)

(* The reply to the oldest command, or its rejection once the connection   *)
(* is gone.                                                                *)
Settle(outcome) ==
  LET rec == sent[1].rec  by == sent[1].call IN
  /\ sent # <<>> /\ sent' = Tail(sent)
  /\ IF rec = 0
       THEN /\ calls' = IF by = 0 THEN calls ELSE [calls EXCEPT ![by].pc = outcome]
            /\ UNCHANGED <<records, jobs>>
       ELSE /\ records' = [records EXCEPT ![rec].outcome = outcome, ![rec].waiters = <<>>]
            /\ jobs' = jobs \o records[rec].waiters
            /\ UNCHANGED calls
  /\ bound' = IF outcome = "error" THEN bound
                ELSE IF rec = 0 THEN None ELSE records[rec].args
  /\ UNCHANGED <<registered, owned, current, live, draining, last>>

Reply ==
  /\ live /\ ~(draining /\ jobs # <<>>)
  /\ \/ Settle("ok")
     \/ sent # <<>> /\ sent[1].rec # 0 /\ records[sent[1].rec].args \in Refusable
          /\ Settle("error")

Disconnect ==
  /\ live /\ Idle /\ live' = FALSE
  /\ UNCHANGED <<registered, owned, records, current, calls, sent, bound, jobs, draining, last>>

Reject == ~live /\ Settle("error")

(* The creator of a record: keep it, or roll it back with every owner who  *)
(* joined.  The name goes from `subscriptions' whatever it now maps to.    *)
MutRollback(rec) ==
  /\ records' = [records EXCEPT ![rec].inflight = FALSE, ![rec].owners = {}]
  /\ current' = 0 /\ UNCHANGED owned
Rollback(rec) ==
  /\ records' = [records EXCEPT ![rec].inflight = FALSE, ![rec].owners = {}]
  /\ owned' = owned \ (records[rec].owners \cap registered)
  /\ current' = 0

ResumeCreate(c, rest) ==
  LET rec == calls[c].rec  outcome == records[calls[c].rec].outcome IN
  /\ jobs' = rest
  /\ calls' = [calls EXCEPT ![c].pc = outcome]
  /\ IF outcome = "ok"
       THEN records' = [records EXCEPT ![rec].inflight = FALSE] /\ UNCHANGED <<owned, current>>
       ELSE Rollback(rec)
  /\ UNCHANGED sent

(* A joiner: the same rejection, or a claim on the record it queued on --  *)
(* unless that was superseded, and it starts over.                         *)
ResumeJoin(c, rest) ==
  LET rec == calls[c].rec IN
  \/ /\ records[rec].outcome = "error"
     /\ calls' = [calls EXCEPT ![c].pc = "error"] /\ jobs' = rest
     /\ UNCHANGED <<owned, records, current, sent>>
  \/ /\ records[rec].outcome = "ok" /\ current # rec
     /\ Enter(calls, c, rest)
  \/ /\ records[rec].outcome = "ok" /\ current = rec
     /\ Claim(calls[c].peer, rec)
     /\ calls' = [calls EXCEPT ![c].pc = "ok"] /\ jobs' = rest
     /\ UNCHANGED <<current, sent>>

MutResumeDrop(c, rest) ==
  /\ calls' = [calls EXCEPT ![c].pc = "yield"]
  /\ jobs' = rest
  /\ UNCHANGED <<owned, records, current, sent>>
ResumeDrop(c, rest) ==
  /\ calls' = [calls EXCEPT ![c].pc = "yield"]
  /\ jobs' = Append(rest, c)
  /\ UNCHANGED <<owned, records, current, sent>>

Job ==
  LET c == jobs[1]  rest == Tail(jobs) IN
  /\ jobs # <<>> /\ (live \/ sent = <<>>)
  /\ \/ calls[c].pc = "create" /\ ResumeCreate(c, rest)
     \/ calls[c].pc = "join" /\ ResumeJoin(c, rest)
     \/ calls[c].pc = "drop" /\ ResumeDrop(c, rest)
     \/ calls[c].pc = "yield" /\ FinishUnsubscribe(calls, c, rest)
  /\ draining' = TRUE
  /\ UNCHANGED <<registered, bound, live, last>>

-----------------------------------------------------------------------------

Next ==
  \/ \E p \in Peers, a \in Args : Subscribe(p, a)
  \/ \E p \in Peers : Unsubscribe(p)
  \/ \E p \in Peers : ReleasePeer(p)
  \/ Dispose
  \/ Reply
  \/ Disconnect
  \/ Reject
  \/ Job

(* tmux answers what it is sent and the runtime empties its queue.         *)
Fairness == WF_vars(Reply) /\ WF_vars(Reject) /\ WF_vars(Job)

Spec == Init /\ [][Next]_vars /\ Fairness

-----------------------------------------------------------------------------
(* Properties *)

Owners == IF current = 0 THEN {} ELSE Held.owners
Quiet == jobs = <<>> /\ sent = <<>>

(* The two indexes are well formed and agree whenever no continuation is   *)
(* waiting to run: a registered peer's names are exactly the records that  *)
(* count it.                                                               *)
Lockstep ==
  /\ TypeOK
  /\ jobs = <<>> => \A p \in registered : p \in owned <=> p \in Owners

(* Only a peer that is still registered counts as an owner: the refcount   *)
(* can reach zero.                                                         *)
OwnersAreLive == Owners \subseteq registered

(* A peer whose latest request was a subscribe answered `ok' gets the      *)
(* values it asked for: no peer holds a phantom subscription.              *)
AnsweredIsBound ==
  Quiet /\ live => \A p \in registered :
    LET c == last[p] IN
    c # 0 /\ calls[c].op = "subscribe" /\ calls[c].pc = "ok" => bound = calls[c].args

(* Once tmux has answered everything, it has the binding the ledger counts *)
(* owners of, none when nobody owns the name, and what was answered `ok'.  *)
TmuxFollowsLedger ==
  /\ Quiet /\ live => bound = IF current = 0 THEN None ELSE Held.args
  /\ AnsweredIsBound

(* Every request is answered.                                              *)
CallSettles ==
  \A c \in 1..MaxCalls :
    (c \in DOMAIN calls) ~> (c \in DOMAIN calls /\ calls[c].pc \in Answers)
=============================================================================
