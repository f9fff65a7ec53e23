----------------------- MODULE SubscriptionLedgerProofs -----------------------
(***************************************************************************)
(* Theorems about SubscriptionLedger, for all peers, arguments and numbers *)
(* of requests: its two indexes agree whenever no continuation waits to    *)
(* run, only registered peers count as owners, and once tmux has answered  *)
(* it has the binding that the ledger counts owners of.                    *)
(***************************************************************************)
EXTENDS SubscriptionLedger, SequenceTheorems, TLAPS

(* A queue, as a set in an order.                                          *)
In(s, x) == \E i \in DOMAIN s : s[i] = x
Ahead(s, x, y) == \E i, j \in DOMAIN s : i < j /\ s[i] = x /\ s[j] = y
Distinct(s) == \A i, j \in DOMAIN s : s[i] = s[j] => i = j

LEMMA Retype ==
  ASSUME NEW S, NEW T, NEW s \in Seq(S), \A x : In(s, x) => x \in T
  PROVE  s \in Seq(T)
<1>1. Len(s) \in Nat /\ DOMAIN s = 1..Len(s) /\ s = [i \in 1..Len(s) |-> s[i]] BY SeqDef
<1>2. \A i \in 1..Len(s) : s[i] \in T BY <1>1 DEF In
<1>3. s \in [1..Len(s) -> T] BY <1>1, <1>2
<1> QED BY <1>1, <1>3, IsASeq

LEMMA NothingIn == \A x : ~In(<<>>, x)
BY DEF In

LEMMA EmptyOrder == Distinct(<<>>) /\ \A x, y : ~Ahead(<<>>, x, y)
BY DEF Ahead, Distinct

LEMMA OneOrder ==
  ASSUME NEW z
  PROVE  /\ Distinct(<<z>>) /\ \A x, y : ~Ahead(<<z>>, x, y)
         /\ \A x : In(<<z>>, x) <=> x = z
BY DEF Ahead, Distinct, In

LEMMA InType ==
  ASSUME NEW T, NEW s \in Seq(T), NEW x, In(s, x)
  PROVE  x \in T /\ s # <<>>
BY DEF In

LEMMA AheadIn ==
  ASSUME NEW s, NEW x, NEW y, Ahead(s, x, y)
  PROVE  In(s, x) /\ In(s, y)
BY DEF In, Ahead

LEMMA AheadDistinct ==
  ASSUME NEW T, NEW s \in Seq(T), Distinct(s), NEW x, NEW y, Ahead(s, x, y)
  PROVE  x # y
<1>1. PICK i \in DOMAIN s, j \in DOMAIN s : i < j /\ s[i] = x /\ s[j] = y BY DEF Ahead
<1>2. i \in Nat /\ j \in Nat OBVIOUS
<1> QED BY <1>1, <1>2 DEF Distinct

LEMMA AppendOrder ==
  ASSUME NEW T, NEW s \in Seq(T), NEW z \in T
  PROVE  /\ Append(s, z) \in Seq(T)
         /\ \A x : In(Append(s, z), x) <=> In(s, x) \/ x = z
         /\ \A x, y : Ahead(Append(s, z), x, y) => Ahead(s, x, y) \/ (In(s, x) /\ y = z)
         /\ Distinct(s) /\ ~In(s, z) => Distinct(Append(s, z))
<1> DEFINE n == Len(s)
           t == Append(s, z)
<1>1. /\ t \in Seq(T) /\ n \in Nat /\ DOMAIN s = 1..n /\ DOMAIN t = 1..(n + 1)
      /\ \A i \in 1..n : t[i] = s[i]
      /\ t[n + 1] = z
  BY AppendProperties
<1>2. \A i \in 1..(n + 1) : i \in 1..n \/ i = n + 1 BY <1>1
<1>3. \A i \in 1..n : i \in 1..(n + 1) BY <1>1
<1>4. n + 1 \in 1..(n + 1) BY <1>1
<1> HIDE DEF t, n
<1>5. ASSUME NEW x PROVE In(t, x) <=> In(s, x) \/ x = z
  BY <1>1, <1>2, <1>3, <1>4 DEF In
<1>6. ASSUME NEW x, NEW y, Ahead(t, x, y) PROVE Ahead(s, x, y) \/ (In(s, x) /\ y = z)
  <2>1. PICK i \in DOMAIN t, j \in DOMAIN t : i < j /\ t[i] = x /\ t[j] = y BY <1>6 DEF Ahead
  <2>2. i \in 1..n BY <1>1, <2>1
  <2>3. CASE j = n + 1 BY <1>1, <2>1, <2>2, <2>3 DEF In
  <2>4. CASE j \in 1..n BY <1>1, <2>1, <2>2, <2>4 DEF Ahead
  <2> QED BY <1>1, <1>2, <2>3, <2>4
<1>7. ASSUME Distinct(s), ~In(s, z) PROVE Distinct(t)
  <2>1. SUFFICES ASSUME NEW i \in 1..(n + 1), NEW j \in 1..(n + 1), t[i] = t[j] PROVE i = j
    BY <1>1 DEF Distinct
  <2>2. CASE i \in 1..n /\ j \in 1..n BY <1>1, <1>7, <2>1, <2>2 DEF Distinct
  <2>3. CASE i = n + 1 /\ j \in 1..n BY <1>1, <1>7, <2>1, <2>3 DEF In
  <2>4. CASE i \in 1..n /\ j = n + 1 BY <1>1, <1>7, <2>1, <2>4 DEF In
  <2> QED BY <1>2, <2>2, <2>3, <2>4
<1> QED BY <1>1, <1>5, <1>6, <1>7 DEF t

LEMMA TailOrder ==
  ASSUME NEW T, NEW s \in Seq(T), s # <<>>, Distinct(s)
  PROVE  /\ Tail(s) \in Seq(T) /\ s[1] \in T /\ In(s, s[1]) /\ Distinct(Tail(s))
         /\ \A x : In(Tail(s), x) <=> In(s, x) /\ x # s[1]
         /\ \A x, y : Ahead(Tail(s), x, y) => Ahead(s, x, y)
         /\ \A x : In(s, x) /\ x # s[1] => Ahead(s, s[1], x)
<1> DEFINE n == Len(s)
           t == Tail(s)
<1>1. /\ t \in Seq(T) /\ n \in Nat /\ n # 0 /\ DOMAIN s = 1..n /\ DOMAIN t = 1..(n - 1)
      /\ \A i \in 1..(n - 1) : t[i] = s[i + 1]
      /\ s[1] \in T
  BY HeadTailProperties
<1>2. \A i \in 1..(n - 1) : i + 1 \in 1..n /\ i + 1 # 1 BY <1>1
<1>3. \A i \in 1..n : i # 1 => i - 1 \in 1..(n - 1) /\ i - 1 + 1 = i /\ 1 < i BY <1>1
<1>4. 1 \in 1..n BY <1>1
<1>5. \A i, j \in 1..(n - 1) : (i < j => i + 1 < j + 1) /\ (i + 1 = j + 1 => i = j) BY <1>1
<1> HIDE DEF t, n
<1>6. In(s, s[1]) BY <1>1, <1>4 DEF In
<1>7. Distinct(t)
  <2>1. SUFFICES ASSUME NEW i \in 1..(n - 1), NEW j \in 1..(n - 1), t[i] = t[j] PROVE i = j
    BY <1>1 DEF Distinct
  <2>2. i + 1 \in 1..n /\ j + 1 \in 1..n /\ s[i + 1] = s[j + 1] BY <1>1, <1>2, <2>1
  <2>3. i + 1 = j + 1 BY <1>1, <2>2 DEF Distinct
  <2> QED BY <1>5, <2>3
<1>8. ASSUME NEW x PROVE In(t, x) <=> In(s, x) /\ x # s[1]
  <2>1. ASSUME In(t, x) PROVE In(s, x) /\ x # s[1]
    <3>1. PICK i \in 1..(n - 1) : t[i] = x BY <1>1, <2>1 DEF In
    <3>2. i + 1 \in 1..n /\ s[i + 1] = x /\ i + 1 # 1 BY <1>1, <1>2, <3>1
    <3> QED BY <1>1, <1>4, <3>2 DEF In, Distinct
  <2>2. ASSUME In(s, x), x # s[1] PROVE In(t, x)
    <3>1. PICK i \in 1..n : s[i] = x BY <1>1, <2>2 DEF In
    <3>2. i # 1 BY <2>2, <3>1
    <3>3. i - 1 \in 1..(n - 1) /\ t[i - 1] = x BY <1>1, <1>3, <3>1, <3>2
    <3> QED BY <1>1, <3>3 DEF In
  <2> QED BY <2>1, <2>2
<1>9. ASSUME NEW x, NEW y, Ahead(t, x, y) PROVE Ahead(s, x, y)
  <2>1. PICK i \in 1..(n - 1), j \in 1..(n - 1) : i < j /\ t[i] = x /\ t[j] = y
    BY <1>1, <1>9 DEF Ahead
  <2>2. i + 1 \in 1..n /\ j + 1 \in 1..n /\ i + 1 < j + 1 /\ s[i + 1] = x /\ s[j + 1] = y
    BY <1>1, <1>2, <1>5, <2>1
  <2> QED BY <1>1, <2>2 DEF Ahead
<1>10. ASSUME NEW x, In(s, x), x # s[1] PROVE Ahead(s, s[1], x)
  <2>1. PICK i \in 1..n : s[i] = x BY <1>1, <1>10 DEF In
  <2>2. i # 1 BY <1>10, <2>1
  <2>3. 1 < i BY <1>3, <2>1, <2>2
  <2> QED BY <1>1, <1>4, <2>1, <2>3 DEF Ahead
<1> QED BY <1>1, <1>6, <1>7, <1>8, <1>9, <1>10 DEF t

LEMMA ConcatOrder ==
  ASSUME NEW T, NEW s \in Seq(T), NEW t \in Seq(T)
  PROVE  /\ s \o t \in Seq(T)
         /\ \A x : In(s \o t, x) <=> In(s, x) \/ In(t, x)
         /\ \A x, y : Ahead(s \o t, x, y) => Ahead(s, x, y) \/ Ahead(t, x, y) \/ (In(s, x) /\ In(t, y))
         /\ Distinct(s) /\ Distinct(t) /\ (\A x : ~(In(s, x) /\ In(t, x))) => Distinct(s \o t)
<1> DEFINE n == Len(s)
           m == Len(t)
           u == s \o t
<1>1. /\ u \in Seq(T) /\ n \in Nat /\ m \in Nat /\ DOMAIN s = 1..n /\ DOMAIN t = 1..m
      /\ DOMAIN u = 1..(n + m)
      /\ \A i \in 1..(n + m) : u[i] = IF i <= n THEN s[i] ELSE t[i - n]
  BY ConcatProperties
<1> HIDE DEF u, n, m
<1>0. n \in Nat /\ m \in Nat BY <1>1
<1>2. \A i \in 1..(n + m) : (i \in 1..n /\ i <= n) \/ (i - n \in 1..m /\ ~(i <= n)) BY <1>0
<1>3. \A i \in 1..n : i \in 1..(n + m) /\ i <= n BY <1>1
<1>4. \A i \in 1..m : n + i \in 1..(n + m) /\ ~(n + i <= n) /\ n + i - n = i BY <1>0
<1>5. \A i, j \in 1..(n + m) : /\ i < j /\ ~(i <= n) => ~(j <= n) /\ i - n < j - n
                               /\ i - n = j - n => i = j
  BY <1>0
<1>6. \A i \in 1..(n + m) : (i \in 1..n /\ u[i] = s[i]) \/ (i - n \in 1..m /\ u[i] = t[i - n] /\ ~(i <= n))
  BY <1>1, <1>2
<1>7. ASSUME NEW x PROVE In(u, x) <=> In(s, x) \/ In(t, x)
  <2>1. ASSUME In(u, x) PROVE In(s, x) \/ In(t, x) BY <1>1, <1>6, <2>1 DEF In
  <2>2. ASSUME In(s, x) PROVE In(u, x) BY <1>1, <1>3, <2>2 DEF In
  <2>3. ASSUME In(t, x) PROVE In(u, x)
    <3>1. PICK i \in 1..m : t[i] = x BY <1>1, <2>3 DEF In
    <3>2. n + i \in 1..(n + m) /\ u[n + i] = x BY <1>1, <1>4, <3>1
    <3> QED BY <1>1, <3>2 DEF In
  <2> QED BY <2>1, <2>2, <2>3
<1>8. ASSUME NEW x, NEW y, Ahead(u, x, y)
      PROVE  Ahead(s, x, y) \/ Ahead(t, x, y) \/ (In(s, x) /\ In(t, y))
  <2>1. PICK i \in 1..(n + m), j \in 1..(n + m) : i < j /\ u[i] = x /\ u[j] = y
    BY <1>1, <1>8 DEF Ahead
  <2>2. CASE i \in 1..n /\ u[i] = s[i] /\ j \in 1..n /\ u[j] = s[j]
    BY <1>1, <2>1, <2>2 DEF Ahead
  <2>3. CASE i \in 1..n /\ u[i] = s[i] /\ j - n \in 1..m /\ u[j] = t[j - n]
    BY <1>1, <2>1, <2>3 DEF In
  <2>4. CASE i - n \in 1..m /\ u[i] = t[i - n] /\ ~(i <= n)
    <3>1. ~(j <= n) /\ i - n < j - n BY <1>5, <2>1, <2>4
    <3>2. j - n \in 1..m /\ u[j] = t[j - n] BY <1>1, <1>2, <3>1
    <3> QED BY <1>1, <2>1, <2>4, <3>1, <3>2 DEF Ahead
  <2> QED BY <1>6, <2>2, <2>3, <2>4
<1>9. ASSUME Distinct(s), Distinct(t), \A x : ~(In(s, x) /\ In(t, x)) PROVE Distinct(u)
  <2>1. SUFFICES ASSUME NEW i \in 1..(n + m), NEW j \in 1..(n + m), u[i] = u[j] PROVE i = j
    BY <1>1 DEF Distinct
  <2>2. CASE i \in 1..n /\ u[i] = s[i] /\ j \in 1..n /\ u[j] = s[j]
    BY <1>1, <1>9, <2>1, <2>2 DEF Distinct
  <2>3. CASE i - n \in 1..m /\ u[i] = t[i - n] /\ j - n \in 1..m /\ u[j] = t[j - n]
    <3>1. i - n = j - n BY <1>1, <1>9, <2>1, <2>3 DEF Distinct
    <3> QED BY <1>5, <3>1
  <2>4. CASE i \in 1..n /\ u[i] = s[i] /\ j - n \in 1..m /\ u[j] = t[j - n]
    BY <1>1, <1>9, <2>1, <2>4 DEF In
  <2>5. CASE i - n \in 1..m /\ u[i] = t[i - n] /\ j \in 1..n /\ u[j] = s[j]
    BY <1>1, <1>9, <2>1, <2>5 DEF In
  <2> QED BY <1>6, <2>2, <2>3, <2>4, <2>5
<1> QED BY <1>1, <1>7, <1>8, <1>9 DEF u

-----------------------------------------------------------------------------
(* The inductive invariant, for any peers *)

Command == [rec : Nat, call : Nat]
Place == {"create", "join", "drop"}
Awaited(c) == records[calls[c].rec]

Types ==
  /\ registered \subseteq Peers /\ owned \subseteq Peers
  /\ records \in Seq(SubscriptionRecord)
  /\ current \in {0, Len(records)}
  /\ calls \in Seq(Call) /\ Len(calls) <= MaxCalls
  /\ sent \in Seq(Command)
  /\ bound \in Args \cup {None}
  /\ jobs \in Seq(1..MaxCalls)
  /\ live \in BOOLEAN /\ draining \in BOOLEAN
  /\ last \in [Peers -> Nat]

(* A request knows what it asked for and which record it waits on.         *)
CallsOK ==
  \A c \in DOMAIN calls :
    /\ calls[c].rec \in 0..Len(records)
    /\ calls[c].pc \in Place => calls[c].rec # 0
    /\ calls[c].pc \in {"create", "join"} =>
         calls[c].op = "subscribe" /\ calls[c].args = Awaited(c).args
    /\ calls[c].pc \in {"drop", "yield", "forward"} => calls[c].op = "unsubscribe"
    /\ calls[c].op = "subscribe" => calls[c].args \in Args

(* A continuation waits in its record's queue until the record settles, and *)
(* then in the runtime's; nothing waits twice.  The creator waits first.   *)
WaitersOK ==
  \A r \in DOMAIN records :
    /\ Distinct(records[r].waiters)
    /\ \A c \in 1..MaxCalls : In(records[r].waiters, c) =>
         /\ c \in DOMAIN calls /\ calls[c].pc \in Place /\ calls[c].rec = r
         /\ records[r].outcome = "none"
    /\ \A c, d \in 1..MaxCalls : Ahead(records[r].waiters, c, d) => calls[d].pc # "create"

JobsOK ==
  /\ Distinct(jobs)
  /\ \A c \in 1..MaxCalls : In(jobs, c) =>
       /\ c \in DOMAIN calls
       /\ \/ calls[c].pc \in Place /\ Awaited(c).outcome # "none"
          \/ calls[c].pc = "yield"

(* A subscribe on its way is that of a record not settled yet, each of its  *)
(* own; the caller of an unsubscribe waits for its answer only.            *)
SentFits ==
  \A i \in DOMAIN sent :
    /\ sent[i].rec <= Len(records) /\ sent[i].call <= Len(calls)
    /\ sent[i].rec # 0 => records[sent[i].rec].outcome = "none"
    /\ sent[i].rec = 0 /\ sent[i].call # 0 =>
         calls[sent[i].call].op = "unsubscribe" /\ calls[sent[i].call].pc \notin Waits \ {"forward"}
SentRises ==
  \A i, j \in DOMAIN sent :
    sent[i].rec # 0 /\ sent[j].rec # 0 /\ i < j => sent[i].rec < sent[j].rec
SentOK == SentFits /\ SentRises

LastOK == \A p \in Peers : last[p] <= Len(calls)

Base == Types /\ CallsOK /\ WaitersOK /\ JobsOK /\ SentOK /\ LastOK

(* The refcount, when no peer leaves in the middle of a join.              *)
JoinersAreLive == \A c \in DOMAIN calls : calls[c].pc = "join" => calls[c].peer \in registered
OwnersKnow == Owners \subseteq owned

Refcount == OwnersAreLive /\ OwnersKnow /\ JoinersAreLive

-----------------------------------------------------------------------------
(* And when no peer resubscribes before its unsubscribe is answered either. *)

(* Nothing that waits is lost.                                             *)
Placed ==
  \A c \in DOMAIN calls :
    /\ calls[c].pc \in Place =>
         IF Awaited(c).outcome = "none" THEN In(Awaited(c).waiters, c) ELSE In(jobs, c)
    /\ calls[c].pc = "yield" => In(jobs, c)

(* A record is in flight until its creator has seen it settle.             *)
Creators ==
  /\ \A c \in DOMAIN calls : calls[c].pc = "create" => Awaited(c).inflight
  /\ \A r \in DOMAIN records : records[r].inflight =>
       \E c \in DOMAIN calls : calls[c].pc = "create" /\ calls[c].rec = r
  /\ \A c, d \in DOMAIN calls :
       calls[c].pc = "create" /\ calls[d].pc = "create" /\ calls[c].rec = calls[d].rec => c = d
  /\ \A r \in DOMAIN records : records[r].outcome = "none" => records[r].inflight

(* Records settle, and are seen to, in the order they were made.           *)
Fifo ==
  /\ \A r, s \in DOMAIN records : r < s =>
       /\ records[r].outcome = "none" => records[s].outcome = "none"
       /\ records[r].inflight => records[s].inflight
  /\ \A r \in DOMAIN records : records[r].outcome = "none" => \E i \in DOMAIN sent : sent[i].rec = r

(* A join that starts over, and an unsubscribe that will release.          *)
Stale(c) == calls[c].pc = "join" /\ Awaited(c).outcome = "ok" /\ calls[c].rec # current
Releases(c) == calls[c].pc = "yield" /\ calls[c].peer \in registered
Drops(c) == calls[c].pc \in {"drop", "yield"} /\ calls[c].peer \in registered

(* The runtime runs creators in their records' order and before whoever    *)
(* waited with them, joins that start over before the releases they could  *)
(* be undone by, and releases last.                                        *)
JobsOrder ==
  \A c, d \in DOMAIN calls :
    /\ Ahead(jobs, c, d) =>
         /\ calls[d].pc = "create" /\ calls[c].pc \in Place => calls[c].rec < calls[d].rec
         /\ calls[c].pc = "create" /\ calls[d].pc \in Place => calls[c].rec <= calls[d].rec
         /\ Releases(c) => calls[d].pc = "yield"
         /\ Drops(c) => ~Stale(d)
    /\ In(jobs, c) /\ In(jobs, d) /\ Releases(c) => ~Stale(d)

(* Until the first of them runs, they all follow records in flight.        *)
Fresh ==
  ~draining \/ (~live /\ sent # <<>>) =>
    \A c \in DOMAIN calls : In(jobs, c) => calls[c].pc \in Place /\ Awaited(c).inflight

(* The record in `subscriptions' has owners: its creator alone while it is  *)
(* in flight.                                                              *)
Kept ==
  current # 0 =>
    /\ Owners # {}
    /\ ~Held.inflight => Held.outcome = "ok"
    /\ \A c \in DOMAIN calls : calls[c].pc = "create" /\ calls[c].rec = current =>
         Owners = {calls[c].peer}

(* One taken down in flight has nobody left to roll back, and tmux will not *)
(* refuse it; on a closed connection it may be rejected after another was. *)
Superseded ==
  \A c \in DOMAIN calls : calls[c].pc = "create" /\ calls[c].rec # current =>
    \/ ~live /\ Awaited(c).outcome = "error"
    \/ /\ Awaited(c).owners = {} /\ calls[c].peer \notin registered
       /\ live => Awaited(c).args \notin Refusable /\ Awaited(c).outcome # "error"

(* A peer that owns the name is an owner, but for one whose creator has yet *)
(* to roll back on a closed connection.                                    *)
Orphan(p) ==
  ~live /\ \E c \in DOMAIN calls :
    calls[c].pc = "create" /\ calls[c].rec # current /\ Awaited(c).outcome = "error"
    /\ p \in Awaited(c).owners
OwnedOrOrphan == \A p \in registered \cap owned : p \in Owners \/ Orphan(p)

DeadSettle == ~live => \A c \in DOMAIN calls : calls[c].pc \in Place => Awaited(c).outcome # "ok"

(* A peer that waits to unsubscribe still owns what it waits on, and what   *)
(* else it waits for will not make it an owner again.                      *)
DropsHeld ==
  \A d \in DOMAIN calls :
    calls[d].pc = "drop" /\ calls[d].peer \in registered /\ Awaited(d).outcome # "error" =>
      calls[d].rec = current /\ calls[d].peer \in Owners

DropsOwn ==
  \A c, d \in DOMAIN calls : Drops(d) /\ calls[c].peer = calls[d].peer =>
    /\ calls[c].pc = "create" => calls[d].pc = "drop" /\ calls[d].rec = calls[c].rec
    /\ calls[c].pc = "join" =>
         \/ calls[d].pc = "drop" /\ calls[d].rec = current
         \/ calls[c].rec = current
         \/ Awaited(c).outcome = "error"

(* tmux alternates: the commands on their way lead from what it has bound   *)
(* to what the ledger holds.                                               *)
Binding ==
  live =>
    /\ \A i, j \in DOMAIN sent : j = i + 1 => (sent[i].rec = 0 <=> sent[j].rec # 0)
    /\ sent # <<>> => (sent[1].rec # 0 <=> bound = None) /\ sent[Len(sent)].rec = current
    /\ sent = <<>> =>
         IF current = 0 THEN bound = None
         ELSE \/ Held.outcome = "ok" /\ bound = Held.args
              \/ Held.outcome = "error" /\ bound = None

(* A subscribe that was answered `ok' and not followed by another request   *)
(* holds.                                                                  *)
LatestHolds ==
  \A p \in Peers : last[p] # 0 =>
    /\ calls[last[p]].peer = p
    /\ calls[last[p]].op = "subscribe" =>
        /\ \A d \in DOMAIN calls :
             calls[d].peer = p /\ calls[d].pc \in Waits => calls[d].op = "subscribe"
        /\ live /\ calls[last[p]].pc = "ok" /\ p \in registered =>
             current # 0 /\ p \in Owners /\ ~Held.inflight /\ Held.args = calls[last[p]].args

Orderly ==
  /\ Placed /\ Creators /\ Fifo /\ JobsOrder /\ Fresh
  /\ Kept /\ Superseded /\ OwnedOrOrphan /\ DeadSettle
  /\ DropsHeld /\ DropsOwn /\ Binding /\ LatestHolds


-----------------------------------------------------------------------------
(* What a step changes, field by field                                     *)

(* Call c, new or at the head of the queue, runs: `made' has it filled in,  *)
(* and `rest' is what is left of the queue.                                *)
Desk(made, c, rest) ==
  /\ made \in Seq(Call) /\ Len(made) <= MaxCalls /\ c \in 1..MaxCalls
  /\ c \in DOMAIN made /\ DOMAIN made = DOMAIN calls \cup {c}
  /\ \A d \in DOMAIN calls : made[d] = calls[d]
  /\ rest \in Seq(1..MaxCalls) /\ Distinct(rest)
  /\ \A d : In(rest, d) <=> In(jobs, d) /\ d # c
  /\ \A d, e : Ahead(rest, d, e) => Ahead(jobs, d, e)
  /\ \A d : In(rest, d) => Ahead(jobs, c, d)
  /\ c \in DOMAIN calls => In(jobs, c)
  /\ c \notin DOMAIN calls => jobs = <<>> /\ rest = <<>>
  /\ \A r \in DOMAIN records : ~In(records[r].waiters, c)
  /\ \A i \in DOMAIN sent : sent[i].rec = 0 => sent[i].call # c

(* Only call c changes, and only in where it stands.                       *)
Turns(made, c, pc, rec) ==
  /\ calls' \in Seq(Call) /\ Len(calls') = Len(made)
  /\ DOMAIN calls' = DOMAIN made
  /\ \A d \in DOMAIN made : d # c => calls'[d] = made[d]
  /\ calls'[c].op = made[c].op /\ calls'[c].peer = made[c].peer /\ calls'[c].args = made[c].args
  /\ calls'[c].pc = pc /\ calls'[c].rec = rec

(* One more waits on record r; r's owners or flight change; there is a new *)
(* record; r settles.                                                      *)
Queues(r, c) ==
  /\ records' \in Seq(SubscriptionRecord) /\ Len(records') = Len(records)
  /\ DOMAIN records' = DOMAIN records
  /\ \A s \in DOMAIN records : s # r => records'[s] = records[s]
  /\ records'[r].args = records[r].args /\ records'[r].owners = records[r].owners
  /\ records'[r].inflight = records[r].inflight /\ records'[r].outcome = records[r].outcome
  /\ records'[r].waiters = Append(records[r].waiters, c)

Reowns(r, owners, inflight) ==
  /\ records' \in Seq(SubscriptionRecord) /\ Len(records') = Len(records)
  /\ DOMAIN records' = DOMAIN records
  /\ \A s \in DOMAIN records : s # r => records'[s] = records[s]
  /\ records'[r].args = records[r].args /\ records'[r].owners = owners
  /\ records'[r].inflight = inflight /\ records'[r].outcome = records[r].outcome
  /\ records'[r].waiters = records[r].waiters

Opens(rec) ==
  /\ records' \in Seq(SubscriptionRecord) /\ Len(records') = Len(records) + 1
  /\ DOMAIN records' = 1..(Len(records) + 1)
  /\ \A s \in DOMAIN records : records'[s] = records[s]
  /\ records'[Len(records) + 1] = rec

Settles(r, outcome) ==
  /\ records' \in Seq(SubscriptionRecord) /\ Len(records') = Len(records)
  /\ DOMAIN records' = DOMAIN records
  /\ \A s \in DOMAIN records : s # r => records'[s] = records[s]
  /\ records'[r].args = records[r].args /\ records'[r].owners = records[r].owners
  /\ records'[r].inflight = records[r].inflight /\ records'[r].outcome = outcome
  /\ records'[r].waiters = <<>>

LEMMA CallFields ==
  ASSUME NEW made \in Seq(Call), NEW c \in DOMAIN made
  PROVE  /\ made[c] \in Call
         /\ made[c].op \in {"subscribe", "unsubscribe"} /\ made[c].pc \in Waits \cup Answers
         /\ made[c].peer \in Peers /\ made[c].args \in Args \cup {None} /\ made[c].rec \in Nat
         /\ made[c] = [op |-> made[c].op, pc |-> made[c].pc, peer |-> made[c].peer,
                       args |-> made[c].args, rec |-> made[c].rec]
<1>1. made[c] \in Call BY ElementOfSeq
<1> QED BY <1>1 DEF Call

LEMMA RecordFields ==
  ASSUME NEW r \in DOMAIN records, records \in Seq(SubscriptionRecord)
  PROVE  /\ records[r] \in SubscriptionRecord
         /\ records[r].args \in Args /\ records[r].owners \in SUBSET Peers
         /\ records[r].inflight \in BOOLEAN /\ records[r].outcome \in {"none"} \cup Answers
         /\ records[r].waiters \in Seq(1..MaxCalls)
<1>1. records[r] \in SubscriptionRecord BY ElementOfSeq
<1> QED BY <1>1 DEF SubscriptionRecord

LEMMA TurnReplaces ==
  ASSUME NEW made \in Seq(Call), NEW c \in DOMAIN made, NEW rep \in Call,
         calls' = [made EXCEPT ![c] = rep]
  PROVE  /\ calls' \in Seq(Call) /\ Len(calls') = Len(made) /\ DOMAIN calls' = DOMAIN made
         /\ calls'[c] = rep /\ \A d \in DOMAIN made : d # c => calls'[d] = made[d]
BY ExceptSeq

LEMMA TurnMoves ==
  ASSUME NEW made \in Seq(Call), NEW c \in DOMAIN made,
         NEW pc \in Waits \cup Answers, NEW rec \in Nat,
         calls' = [made EXCEPT ![c].pc = pc, ![c].rec = rec]
  PROVE  Turns(made, c, pc, rec)
<1>1. PICK rep : rep = [op |-> made[c].op, pc |-> pc, peer |-> made[c].peer,
                        args |-> made[c].args, rec |-> rec]
  OBVIOUS
<1>2. rep \in Call BY <1>1, CallFields DEF Call
<1>3. [made[c] EXCEPT !.pc = pc, !.rec = rec] = rep
  <2>1. PICK old : old = made[c] OBVIOUS
  <2>2. old = [op |-> old.op, pc |-> old.pc, peer |-> old.peer, args |-> old.args, rec |-> old.rec]
    BY <2>1, CallFields
  <2>3. PICK mid : mid = [old EXCEPT !.pc = pc] OBVIOUS
  <2>4. mid = [op |-> old.op, pc |-> pc, peer |-> old.peer, args |-> old.args, rec |-> old.rec]
    BY <2>2, <2>3
  <2>5. [mid EXCEPT !.rec = rec] = rep BY <1>1, <2>1, <2>4
  <2> QED BY <2>1, <2>3, <2>5
<1>4. calls' = [made EXCEPT ![c] = rep] BY <1>3, SeqDef
<1>5. calls' \in Seq(Call) /\ Len(calls') = Len(made) /\ DOMAIN calls' = DOMAIN made
      /\ calls'[c] = rep /\ \A d \in DOMAIN made : d # c => calls'[d] = made[d]
  BY <1>2, <1>4, TurnReplaces
<1> QED BY <1>1, <1>5 DEF Turns

LEMMA TurnAnswers ==
  ASSUME NEW made \in Seq(Call), NEW c \in DOMAIN made,
         NEW pc \in Waits \cup Answers,
         calls' = [made EXCEPT ![c].pc = pc]
  PROVE  Turns(made, c, pc, made[c].rec)
<1>1. PICK rep : rep = [op |-> made[c].op, pc |-> pc, peer |-> made[c].peer,
                        args |-> made[c].args, rec |-> made[c].rec]
  OBVIOUS
<1>2. rep \in Call BY <1>1, CallFields DEF Call
<1>3. [made[c] EXCEPT !.pc = pc] = rep BY <1>1, CallFields
<1>4. calls' = [made EXCEPT ![c] = rep] BY <1>3, SeqDef
<1>5. calls' \in Seq(Call) /\ Len(calls') = Len(made) /\ DOMAIN calls' = DOMAIN made
      /\ calls'[c] = rep /\ \A d \in DOMAIN made : d # c => calls'[d] = made[d]
  BY <1>2, <1>4, TurnReplaces
<1> QED BY <1>1, <1>5 DEF Turns

LEMMA RecordReplaces ==
  ASSUME records \in Seq(SubscriptionRecord), NEW r \in DOMAIN records,
         NEW rep \in SubscriptionRecord, records' = [records EXCEPT ![r] = rep]
  PROVE  /\ records' \in Seq(SubscriptionRecord) /\ Len(records') = Len(records)
         /\ DOMAIN records' = DOMAIN records
         /\ records'[r] = rep /\ \A s \in DOMAIN records : s # r => records'[s] = records[s]
BY ExceptSeq

LEMMA RecordShape ==
  ASSUME records \in Seq(SubscriptionRecord), NEW r \in DOMAIN records
  PROVE  records[r] = [args |-> records[r].args, owners |-> records[r].owners,
                       inflight |-> records[r].inflight, outcome |-> records[r].outcome,
                       waiters |-> records[r].waiters]
BY RecordFields DEF SubscriptionRecord

LEMMA QueueEffect ==
  ASSUME records \in Seq(SubscriptionRecord), NEW r \in DOMAIN records, NEW c \in 1..MaxCalls,
         records' = [records EXCEPT ![r].waiters = Append(@, c)]
  PROVE  Queues(r, c)
<1>1. PICK w : w = Append(records[r].waiters, c) OBVIOUS
<1>2. w \in Seq(1..MaxCalls) BY <1>1, RecordFields, AppendProperties
<1>3. PICK rep : rep = [args |-> records[r].args, owners |-> records[r].owners,
                        inflight |-> records[r].inflight, outcome |-> records[r].outcome,
                        waiters |-> w]
  OBVIOUS
<1>4. rep \in SubscriptionRecord BY <1>2, <1>3, RecordFields DEF SubscriptionRecord
<1>5. [records[r] EXCEPT !.waiters = w] = rep BY <1>3, RecordShape
<1>6. records' = [records EXCEPT ![r] = rep] BY <1>1, <1>5
<1>7. /\ records' \in Seq(SubscriptionRecord) /\ Len(records') = Len(records)
      /\ DOMAIN records' = DOMAIN records /\ records'[r] = rep
      /\ \A s \in DOMAIN records : s # r => records'[s] = records[s]
  BY <1>4, <1>6, RecordReplaces
<1> QED BY <1>1, <1>3, <1>7 DEF Queues

LEMMA OwnersEffect ==
  ASSUME records \in Seq(SubscriptionRecord), NEW r \in DOMAIN records,
         NEW owners \in SUBSET Peers,
         records' = [records EXCEPT ![r].owners = owners]
  PROVE  Reowns(r, owners, records[r].inflight)
<1>3. PICK rep : rep = [args |-> records[r].args, owners |-> owners,
                        inflight |-> records[r].inflight, outcome |-> records[r].outcome,
                        waiters |-> records[r].waiters]
  OBVIOUS
<1>4. rep \in SubscriptionRecord BY <1>3, RecordFields DEF SubscriptionRecord
<1>5. [records[r] EXCEPT !.owners = owners] = rep BY <1>3, RecordShape
<1>6. records' = [records EXCEPT ![r] = rep] BY <1>5
<1>7. /\ records' \in Seq(SubscriptionRecord) /\ Len(records') = Len(records)
      /\ DOMAIN records' = DOMAIN records /\ records'[r] = rep
      /\ \A s \in DOMAIN records : s # r => records'[s] = records[s]
  BY <1>4, <1>6, RecordReplaces
<1>8. /\ rep.args = records[r].args /\ rep.owners = owners /\ rep.inflight = records[r].inflight
      /\ rep.outcome = records[r].outcome /\ rep.waiters = records[r].waiters
  BY <1>3
<1> QED BY <1>7, <1>8 DEF Reowns

LEMMA FlightEffect ==
  ASSUME records \in Seq(SubscriptionRecord), NEW r \in DOMAIN records,
         NEW inflight \in BOOLEAN,
         records' = [records EXCEPT ![r].inflight = inflight]
  PROVE  Reowns(r, records[r].owners, inflight)
<1>3. PICK rep : rep = [args |-> records[r].args, owners |-> records[r].owners,
                        inflight |-> inflight, outcome |-> records[r].outcome,
                        waiters |-> records[r].waiters]
  OBVIOUS
<1>4. rep \in SubscriptionRecord BY <1>3, RecordFields DEF SubscriptionRecord
<1>5. [records[r] EXCEPT !.inflight = inflight] = rep BY <1>3, RecordShape
<1>6. records' = [records EXCEPT ![r] = rep] BY <1>5
<1>7. /\ records' \in Seq(SubscriptionRecord) /\ Len(records') = Len(records)
      /\ DOMAIN records' = DOMAIN records /\ records'[r] = rep
      /\ \A s \in DOMAIN records : s # r => records'[s] = records[s]
  BY <1>4, <1>6, RecordReplaces
<1>8. /\ rep.args = records[r].args /\ rep.owners = records[r].owners /\ rep.inflight = inflight
      /\ rep.outcome = records[r].outcome /\ rep.waiters = records[r].waiters
  BY <1>3, Zenon
<1> QED BY <1>7, <1>8, Zenon DEF Reowns

LEMMA RollbackEffect ==
  ASSUME records \in Seq(SubscriptionRecord), NEW r \in DOMAIN records,
         records' = [records EXCEPT ![r].inflight = FALSE, ![r].owners = {}]
  PROVE  Reowns(r, {}, FALSE)
<1>1. PICK no, nobody : no = FALSE /\ nobody = {} OBVIOUS
<1>2. PICK mid : mid = [args |-> records[r].args, owners |-> records[r].owners,
                        inflight |-> no, outcome |-> records[r].outcome,
                        waiters |-> records[r].waiters]
  OBVIOUS
<1>3. PICK rep : rep = [args |-> records[r].args, owners |-> nobody,
                        inflight |-> no, outcome |-> records[r].outcome,
                        waiters |-> records[r].waiters]
  OBVIOUS
<1>4. rep \in SubscriptionRecord BY <1>1, <1>3, RecordFields DEF SubscriptionRecord
<1>5. [records[r] EXCEPT !.inflight = no] = mid BY <1>2, RecordShape
<1>6. [mid EXCEPT !.owners = nobody] = rep BY <1>2, <1>3
<1>7. records' = [records EXCEPT ![r] = rep] BY <1>1, <1>5, <1>6
<1>8. /\ records' \in Seq(SubscriptionRecord) /\ Len(records') = Len(records)
      /\ DOMAIN records' = DOMAIN records /\ records'[r] = rep
      /\ \A s \in DOMAIN records : s # r => records'[s] = records[s]
  BY <1>4, <1>7, RecordReplaces
<1> QED BY <1>1, <1>3, <1>8 DEF Reowns

LEMMA SettleEffect ==
  ASSUME records \in Seq(SubscriptionRecord), NEW r \in DOMAIN records,
         NEW outcome \in Answers,
         records' = [records EXCEPT ![r].outcome = outcome, ![r].waiters = <<>>]
  PROVE  Settles(r, outcome)
<1>1. PICK w : w = <<>> OBVIOUS
<1>11. w \in Seq(1..MaxCalls) BY <1>1
<1>2. PICK mid : mid = [args |-> records[r].args, owners |-> records[r].owners,
                        inflight |-> records[r].inflight, outcome |-> outcome,
                        waiters |-> records[r].waiters]
  OBVIOUS
<1>3. PICK rep : rep = [args |-> records[r].args, owners |-> records[r].owners,
                        inflight |-> records[r].inflight, outcome |-> outcome,
                        waiters |-> w]
  OBVIOUS
<1>4. rep \in SubscriptionRecord BY <1>11, <1>3, RecordFields DEF SubscriptionRecord
<1>5. [records[r] EXCEPT !.outcome = outcome] = mid BY <1>2, RecordShape
<1>6. [mid EXCEPT !.waiters = <<>>] = rep BY <1>1, <1>2, <1>3
<1>7. records' = [records EXCEPT ![r] = rep] BY <1>5, <1>6
<1>8. /\ records' \in Seq(SubscriptionRecord) /\ Len(records') = Len(records)
      /\ DOMAIN records' = DOMAIN records /\ records'[r] = rep
      /\ \A s \in DOMAIN records : s # r => records'[s] = records[s]
  BY <1>4, <1>7, RecordReplaces
<1> QED BY <1>1, <1>3, <1>8 DEF Settles

LEMMA OpenEffect ==
  ASSUME records \in Seq(SubscriptionRecord), NEW rec \in SubscriptionRecord,
         records' = Append(records, rec)
  PROVE  Opens(rec)
BY AppendProperties DEF Opens

(* What a turn of call c, to `pc' and waiting on `rec', does to the queues  *)
(* of the records, to the runtime's and to the commands.                   *)
Stands(made, c, pc, rec) ==
  /\ rec \in 0..Len(records')
  /\ pc \in Place => rec # 0
  /\ pc \in {"create", "join"} => made[c].op = "subscribe" /\ made[c].args = records'[rec].args
  /\ pc \in {"drop", "yield", "forward"} => made[c].op = "unsubscribe"
  /\ made[c].op = "subscribe" => made[c].args \in Args

Shelves(c, pc, rec) ==
  /\ records' \in Seq(SubscriptionRecord)
  /\ DOMAIN records \subseteq DOMAIN records'
  /\ \A r \in DOMAIN records :
       records'[r].args = records[r].args /\ records'[r].outcome = records[r].outcome
  /\ \A r \in DOMAIN records' :
       \/ r \in DOMAIN records /\ records'[r].waiters = records[r].waiters
       \/ /\ r \in DOMAIN records /\ records'[r].waiters = Append(records[r].waiters, c)
          /\ pc \in {"join", "drop"} /\ rec = r /\ records[r].outcome = "none"
       \/ r \notin DOMAIN records /\ records'[r].waiters = <<>>
       \/ /\ r \notin DOMAIN records /\ records'[r].waiters = <<c>>
          /\ pc \in Place /\ rec = r /\ records'[r].outcome = "none"

Requeues(c, pc, rec, rest) ==
  \/ jobs' = rest
  \/ jobs' = Append(rest, c) /\ (pc = "yield" \/ (pc \in Place /\ records'[rec].outcome # "none"))

Sends(made, c, pc) ==
  \/ sent' = sent
  \/ \E m \in Command :
       /\ sent' = Append(sent, m) /\ m.rec <= Len(records') /\ m.call = c
       /\ m.rec # 0 => records'[m.rec].outcome = "none" /\ m.rec \notin DOMAIN records
       /\ m.rec = 0 => made[c].op = "unsubscribe" /\ pc = "forward"

Others ==
  /\ registered' \subseteq Peers /\ owned' \subseteq Peers
  /\ current' \in {0, Len(records')}
  /\ bound' \in Args \cup {None} /\ live' \in BOOLEAN /\ draining' \in BOOLEAN

LEMMA CallsStep ==
  ASSUME Base, NEW made, NEW c, NEW rest, NEW pc, NEW rec, Desk(made, c, rest),
         Turns(made, c, pc, rec), Stands(made, c, pc, rec), Shelves(c, pc, rec)
  PROVE  CallsOK'
<1>1. SUFFICES ASSUME NEW d \in DOMAIN calls'
      PROVE  /\ calls'[d].rec \in 0..Len(records')
             /\ calls'[d].pc \in Place => calls'[d].rec # 0
             /\ calls'[d].pc \in {"create", "join"} =>
                  calls'[d].op = "subscribe" /\ calls'[d].args = records'[calls'[d].rec].args
             /\ calls'[d].pc \in {"drop", "yield", "forward"} => calls'[d].op = "unsubscribe"
             /\ calls'[d].op = "subscribe" => calls'[d].args \in Args
  BY DEF CallsOK, Awaited
<1>2. CASE d = c BY <1>2 DEF Turns, Stands
<1>3. CASE d # c
  <2>1. d \in DOMAIN calls /\ calls'[d] = calls[d] BY <1>1, <1>3 DEF Turns, Desk
  <2>2. /\ calls[d].rec \in 0..Len(records)
        /\ calls[d].pc \in Place => calls[d].rec # 0
        /\ calls[d].pc \in {"create", "join"} =>
             calls[d].op = "subscribe" /\ calls[d].args = records[calls[d].rec].args
        /\ calls[d].pc \in {"drop", "yield", "forward"} => calls[d].op = "unsubscribe"
        /\ calls[d].op = "subscribe" => calls[d].args \in Args
    BY <2>1 DEF Base, CallsOK, Awaited
  <2>3. DOMAIN records = 1..Len(records) /\ DOMAIN records' = 1..Len(records')
        /\ Len(records) \in Nat /\ Len(records') \in Nat
    BY DEF Base, Types, Shelves
  <2>4. 0..Len(records) \subseteq 0..Len(records') BY <2>3 DEF Shelves
  <2>5. calls[d].pc \in {"create", "join"} => calls[d].rec \in DOMAIN records BY <2>2, <2>3 DEF Place
  <2>6. calls[d].pc \in {"create", "join"} => records'[calls[d].rec].args = records[calls[d].rec].args
    BY <2>5 DEF Shelves
  <2> QED BY <2>1, <2>2, <2>4, <2>6
<1> QED BY <1>2, <1>3

LEMMA WaitersStep ==
  ASSUME Base, NEW made, NEW c, NEW rest, NEW pc, NEW rec, Desk(made, c, rest),
         Turns(made, c, pc, rec), Shelves(c, pc, rec)
  PROVE  WaitersOK'
<1>1. SUFFICES ASSUME NEW r \in DOMAIN records'
      PROVE  /\ Distinct(records'[r].waiters)
             /\ \A d \in 1..MaxCalls : In(records'[r].waiters, d) =>
                  /\ d \in DOMAIN calls' /\ calls'[d].pc \in Place /\ calls'[d].rec = r
                  /\ records'[r].outcome = "none"
             /\ \A d, e \in 1..MaxCalls : Ahead(records'[r].waiters, d, e) => calls'[e].pc # "create"
  BY DEF WaitersOK
<1>2. ASSUME r \in DOMAIN records
      PROVE  /\ records[r].waiters \in Seq(1..MaxCalls)
             /\ Distinct(records[r].waiters)
             /\ \A d \in 1..MaxCalls : In(records[r].waiters, d) =>
                  /\ d \in DOMAIN calls /\ calls[d].pc \in Place /\ calls[d].rec = r
                  /\ records[r].outcome = "none"
             /\ \A d, e \in 1..MaxCalls : Ahead(records[r].waiters, d, e) => calls[e].pc # "create"
             /\ ~In(records[r].waiters, c)
             /\ records'[r].outcome = records[r].outcome
  BY <1>2, RecordFields DEF Base, Types, WaitersOK, Desk, Shelves
<1>3. /\ \A d \in DOMAIN calls : d # c => d \in DOMAIN calls' /\ calls'[d] = calls[d]
      /\ c \in DOMAIN calls' /\ c \in 1..MaxCalls /\ calls'[c].pc = pc /\ calls'[c].rec = rec
  BY DEF Desk, Turns
<1>4. CASE r \in DOMAIN records /\ records'[r].waiters = records[r].waiters
  <2> PICK w : w = records[r].waiters OBVIOUS
  <2>1. \A d \in 1..MaxCalls : In(w, d) =>
          d # c /\ d \in DOMAIN calls /\ calls[d].pc \in Place /\ calls[d].rec = r
          /\ records[r].outcome = "none"
    BY <1>2, <1>4
  <2>2. \A d, e \in 1..MaxCalls : Ahead(w, d, e) => calls[e].pc # "create" /\ In(w, e)
    BY <1>2, <1>4, AheadIn
  <2> QED BY <1>2, <1>3, <1>4, <2>1, <2>2
<1>5. CASE /\ r \in DOMAIN records /\ records'[r].waiters = Append(records[r].waiters, c)
           /\ pc \in {"join", "drop"} /\ rec = r /\ records[r].outcome = "none"
  <2> PICK w : w = records[r].waiters OBVIOUS
  <2>1. /\ \A d : In(Append(w, c), d) <=> In(w, d) \/ d = c
        /\ \A d, e : Ahead(Append(w, c), d, e) => Ahead(w, d, e) \/ (In(w, d) /\ e = c)
        /\ Distinct(Append(w, c))
    <3>1. w \in Seq(1..MaxCalls) /\ c \in 1..MaxCalls /\ Distinct(w) /\ ~In(w, c) BY <1>2, <1>3, <1>5
    <3> QED BY ONLY <3>1, AppendOrder
  <2>2. PICK v : v = Append(w, c) OBVIOUS
  <2>3. \A d \in 1..MaxCalls : In(w, d) =>
          d # c /\ d \in DOMAIN calls /\ calls[d].pc \in Place /\ calls[d].rec = r
    BY <1>2, <1>5
  <2>4. \A d, e \in 1..MaxCalls : Ahead(w, d, e) => calls[e].pc # "create" /\ In(w, e)
    BY <1>2, <1>5, AheadIn
  <2>5. \A d \in 1..MaxCalls : In(v, d) =>
                  /\ d \in DOMAIN calls' /\ calls'[d].pc \in Place /\ calls'[d].rec = r
                  /\ records'[r].outcome = "none"
    BY <1>2, <1>3, <1>5, <2>1, <2>2, <2>3 DEF Place
  <2>6. \A d, e \in 1..MaxCalls : Ahead(v, d, e) => calls'[e].pc # "create"
    BY <1>2, <1>3, <1>5, <2>1, <2>2, <2>3, <2>4
  <2> QED BY <1>5, <2>1, <2>2, <2>5, <2>6
<1>6. CASE records'[r].waiters = <<>>
  BY <1>6, NothingIn, EmptyOrder
<1>7. CASE /\ records'[r].waiters = <<c>>
           /\ pc \in Place /\ rec = r /\ records'[r].outcome = "none"
  BY <1>3, <1>7, OneOrder
<1> QED BY <1>4, <1>5, <1>6, <1>7 DEF Shelves

LEMMA JobsStep ==
  ASSUME Base, NEW made, NEW c, NEW rest, NEW pc, NEW rec, Desk(made, c, rest),
         Turns(made, c, pc, rec), Shelves(c, pc, rec), Requeues(c, pc, rec, rest)
  PROVE  JobsOK' /\ jobs' \in Seq(1..MaxCalls)
<1>1. /\ \A d \in DOMAIN calls : d # c => d \in DOMAIN calls' /\ calls'[d] = calls[d]
      /\ c \in DOMAIN calls' /\ c \in 1..MaxCalls /\ calls'[c].pc = pc /\ calls'[c].rec = rec
      /\ rest \in Seq(1..MaxCalls) /\ Distinct(rest)
      /\ \A d : In(rest, d) <=> In(jobs, d) /\ d # c
  BY DEF Desk, Turns
<1>2. ASSUME NEW d \in 1..MaxCalls, In(rest, d)
      PROVE  /\ d \in DOMAIN calls'
             /\ \/ calls'[d].pc \in Place /\ records'[calls'[d].rec].outcome # "none"
                \/ calls'[d].pc = "yield"
  <2>1. /\ d \in DOMAIN calls /\ calls'[d] = calls[d] /\ d \in DOMAIN calls'
        /\ \/ calls[d].pc \in Place /\ records[calls[d].rec].outcome # "none"
           \/ calls[d].pc = "yield"
    BY <1>1, <1>2 DEF Base, JobsOK, Awaited
  <2>2. calls[d].pc \in Place => calls[d].rec \in DOMAIN records
    BY <2>1 DEF Base, CallsOK, Types
  <2>3. calls[d].pc \in Place => records'[calls[d].rec].outcome = records[calls[d].rec].outcome
    BY <2>2 DEF Shelves
  <2> QED BY <2>1, <2>3
<1>3. CASE jobs' = rest BY <1>1, <1>2, <1>3 DEF JobsOK, Awaited
<1>4. CASE jobs' = Append(rest, c)
           /\ (pc = "yield" \/ (pc \in Place /\ records'[rec].outcome # "none"))
  <2>1. /\ \A d : In(jobs', d) <=> In(rest, d) \/ d = c
        /\ Distinct(jobs') /\ jobs' \in Seq(1..MaxCalls)
    <3>1. ~In(rest, c) /\ rest \in Seq(1..MaxCalls) /\ Distinct(rest) /\ c \in 1..MaxCalls BY <1>1
    <3>2. PICK j : j = Append(rest, c) OBVIOUS
    <3>3. j \in Seq(1..MaxCalls) /\ Distinct(j) /\ \A d : In(j, d) <=> In(rest, d) \/ d = c
      BY ONLY <3>1, <3>2, AppendOrder
    <3> QED BY <1>4, <3>2, <3>3
  <2> QED BY <1>1, <1>2, <1>4, <2>1 DEF JobsOK, Awaited
<1> QED BY <1>3, <1>4 DEF Requeues

LEMMA SentStep ==
  ASSUME Base, NEW made, NEW c, NEW rest, NEW pc, NEW rec, Desk(made, c, rest),
         Turns(made, c, pc, rec), Shelves(c, pc, rec), Sends(made, c, pc)
  PROVE  SentOK' /\ sent' \in Seq(Command)
<1>1. /\ \A d \in DOMAIN calls : d # c => d \in DOMAIN calls' /\ calls'[d] = calls[d]
      /\ c \in DOMAIN calls' /\ calls'[c].op = made[c].op /\ calls'[c].pc = pc
      /\ DOMAIN calls = 1..Len(calls) /\ DOMAIN calls' = 1..Len(calls')
      /\ DOMAIN records = 1..Len(records) /\ DOMAIN records' = 1..Len(records')
      /\ Len(calls) \in Nat /\ Len(calls') \in Nat /\ Len(records) \in Nat /\ Len(records') \in Nat
  BY DEF Desk, Turns, Base, Types, Shelves
<1>2. Len(calls) <= Len(calls') /\ Len(records) <= Len(records')
  <2>1. DOMAIN calls \subseteq DOMAIN calls' BY <1>1
  <2>2. \A n, m \in Nat : 1..n \subseteq 1..m => n <= m OBVIOUS
  <2> QED BY <1>1, <2>1, <2>2 DEF Shelves
<1>3. ASSUME NEW i \in DOMAIN sent
      PROVE  /\ sent[i].rec \in Nat /\ sent[i].call \in Nat
             /\ sent[i].rec <= Len(records') /\ sent[i].call <= Len(calls')
             /\ sent[i].rec # 0 => records'[sent[i].rec].outcome = "none"
             /\ sent[i].rec = 0 /\ sent[i].call # 0 =>
                  calls'[sent[i].call].op = "unsubscribe"
                  /\ calls'[sent[i].call].pc \notin Waits \ {"forward"}
  <2>1. sent[i].rec \in Nat /\ sent[i].call \in Nat
    <3>1. sent \in Seq(Command) BY DEF Base, Types
    <3>2. sent[i] \in Command BY <3>1, ElementOfSeq
    <3> QED BY <3>2 DEF Command
  <2>2. /\ sent[i].rec <= Len(records) /\ sent[i].call <= Len(calls)
        /\ sent[i].rec # 0 => records[sent[i].rec].outcome = "none"
        /\ sent[i].rec = 0 /\ sent[i].call # 0 =>
             calls[sent[i].call].op = "unsubscribe"
             /\ calls[sent[i].call].pc \notin Waits \ {"forward"}
    BY DEF Base, SentOK, SentFits
  <2>3. sent[i].rec # 0 => sent[i].rec \in DOMAIN records BY <1>1, <2>1, <2>2
  <2>4. sent[i].rec # 0 => records'[sent[i].rec].outcome = "none"
    BY <2>2, <2>3 DEF Shelves
  <2>5. sent[i].rec = 0 /\ sent[i].call # 0 => sent[i].call \in DOMAIN calls /\ sent[i].call # c
    BY <1>1, <2>1, <2>2 DEF Desk
  <2>6. sent[i].rec = 0 /\ sent[i].call # 0 => calls'[sent[i].call] = calls[sent[i].call]
    BY <1>1, <2>5
  <2>7. sent[i].rec <= Len(records') /\ sent[i].call <= Len(calls') BY <1>1, <1>2, <2>1, <2>2
  <2> QED BY <2>1, <2>2, <2>4, <2>6, <2>7
<1>4. CASE sent' = sent
  <2>1. SentFits' BY <1>3, <1>4 DEF SentFits
  <2>2. SentRises' BY <1>4 DEF Base, SentOK, SentRises
  <2> QED BY <1>4, <2>1, <2>2 DEF SentOK, Base, Types
<1>5. CASE sent' # sent
  <2>1. PICK m \in Command :
       /\ sent' = Append(sent, m) /\ m.rec <= Len(records') /\ m.call = c
       /\ m.rec # 0 => records'[m.rec].outcome = "none" /\ m.rec \notin DOMAIN records
       /\ m.rec = 0 => made[c].op = "unsubscribe" /\ pc = "forward"
    BY <1>5 DEF Sends
  <2>2. sent \in Seq(Command) BY DEF Base, Types
  <2>3. /\ sent' \in Seq(Command)
        /\ DOMAIN sent' = 1..(Len(sent) + 1) /\ DOMAIN sent = 1..Len(sent) /\ Len(sent) \in Nat
        /\ \A i \in 1..Len(sent) : sent'[i] = sent[i]
        /\ sent'[Len(sent) + 1] = m
    BY <2>1, <2>2, AppendProperties
  <2>7. SentRises'
    <3>1. \A i \in DOMAIN sent : m.rec # 0 => sent[i].rec < m.rec
      <4>1. \A n, l \in Nat : l <= n => l \in 1..n \/ l = 0 OBVIOUS
      <4> QED BY <1>1, <1>3, <2>1, <4>1 DEF Command, Base, SentOK, SentFits
    <3> QED BY <2>3, <3>1 DEF Base, SentOK, SentRises
  <2>4. SUFFICES ASSUME NEW i \in DOMAIN sent'
        PROVE  /\ sent'[i].rec <= Len(records') /\ sent'[i].call <= Len(calls')
               /\ sent'[i].rec # 0 => records'[sent'[i].rec].outcome = "none"
               /\ sent'[i].rec = 0 /\ sent'[i].call # 0 =>
                    calls'[sent'[i].call].op = "unsubscribe"
                    /\ calls'[sent'[i].call].pc \notin Waits \ {"forward"}
    BY <2>3, <2>7 DEF SentOK, SentFits
  <2>5. CASE i \in DOMAIN sent BY <1>3, <2>3, <2>5
  <2>6. CASE i = Len(sent) + 1 BY <1>1, <2>1, <2>3, <2>6 DEF Waits, Command
  <2> QED BY <2>3, <2>5, <2>6
<1> QED BY <1>4, <1>5

LEMMA LastStep ==
  ASSUME Base, NEW made, NEW c, NEW rest, Desk(made, c, rest), Len(calls') = Len(made),
         \/ last' = last
         \/ \E p \in Peers : last' = [last EXCEPT ![p] = c]
  PROVE  LastOK' /\ last' \in [Peers -> Nat]
<1>1. /\ Len(made) \in Nat /\ Len(calls) \in Nat
      /\ DOMAIN made = 1..Len(made) /\ DOMAIN calls = 1..Len(calls)
      /\ DOMAIN calls \subseteq DOMAIN made /\ c \in DOMAIN made
      /\ last \in [Peers -> Nat] /\ \A p \in Peers : last[p] <= Len(calls)
  BY DEF Base, Types, LastOK, Desk
<1>2. \A n, m \in Nat : 1..n \subseteq 1..m => n <= m OBVIOUS
<1>3. Len(calls) <= Len(made) /\ c \in Nat /\ c <= Len(made) BY <1>1, <1>2
<1> QED BY <1>1, <1>3 DEF LastOK

LEMMA BaseStep ==
  ASSUME Base, NEW made, NEW c, NEW rest, NEW pc, NEW rec, Desk(made, c, rest),
         Turns(made, c, pc, rec), Stands(made, c, pc, rec), Shelves(c, pc, rec),
         Requeues(c, pc, rec, rest), Sends(made, c, pc), Others,
         \/ last' = last
         \/ \E p \in Peers : last' = [last EXCEPT ![p] = c]
  PROVE  Base'
<1>1. CallsOK' /\ WaitersOK' BY CallsStep, WaitersStep
<1>2. JobsOK' /\ jobs' \in Seq(1..MaxCalls) BY JobsStep
<1>3. SentOK' /\ sent' \in Seq(Command) BY SentStep
<1>4. LastOK' /\ last' \in [Peers -> Nat] BY LastStep DEF Turns
<1>5. calls' \in Seq(Call) /\ Len(calls') <= MaxCalls BY DEF Turns, Desk
<1>6. Types' BY <1>2, <1>3, <1>4, <1>5 DEF Types, Others, Shelves
<1> QED BY <1>1, <1>2, <1>3, <1>4, <1>6 DEF Base

-----------------------------------------------------------------------------
(* The branches of the operations                                          *)

Quits(made, c, rest, pc) ==
  /\ pc \in Answers
  /\ Turns(made, c, pc, made[c].rec) /\ jobs' = rest
  /\ UNCHANGED <<owned, records, current, sent>>

Parks(made, c, rest, pc) ==
  /\ pc \in {"join", "drop"}
  /\ current # 0 /\ Held.inflight /\ Held.outcome = "none"
  /\ Turns(made, c, pc, current) /\ Queues(current, c) /\ jobs' = rest
  /\ UNCHANGED <<owned, current, sent>>

Lines(made, c, rest, pc) ==
  /\ pc \in {"join", "drop"}
  /\ current # 0 /\ Held.inflight /\ Held.outcome # "none"
  /\ Turns(made, c, pc, current) /\ jobs' = Append(rest, c)
  /\ UNCHANGED <<owned, records, current, sent>>

Claims(made, c, rest) ==
  /\ current # 0
  /\ Turns(made, c, "ok", made[c].rec) /\ jobs' = rest
  /\ owned' = owned \cup {made[c].peer}
  /\ IF made[c].peer \in owned THEN records' = records
       ELSE Reowns(current, Held.owners \cup {made[c].peer}, Held.inflight)
  /\ UNCHANGED <<current, sent>>

Opened(made, c) ==
  [args |-> made[c].args, owners |-> {made[c].peer}, inflight |-> TRUE,
   outcome |-> IF live THEN "none" ELSE "error",
   waiters |-> IF live THEN <<c>> ELSE <<>>]
Creates(made, c, rest) ==
  /\ current = 0 /\ current' = Len(records) + 1
  /\ Turns(made, c, "create", Len(records) + 1) /\ Opens(Opened(made, c))
  /\ owned' = owned \cup {made[c].peer}
  /\ IF live THEN jobs' = rest /\ sent' = Append(sent, [rec |-> Len(records) + 1, call |-> c])
             ELSE jobs' = Append(rest, c) /\ sent' = sent

Enters(made, c, rest) ==
  LET p == made[c].peer IN
  \/ Quits(made, c, rest, "error")
  \/ /\ p \in registered
     /\ \/ /\ Parks(made, c, rest, "join") \/ Lines(made, c, rest, "join")
           /\ Held.args = made[c].args
        \/ /\ Claims(made, c, rest)
           /\ ~Held.inflight /\ Held.args = made[c].args
        \/ Creates(made, c, rest)

Relieves(peers) ==
  /\ IF current = 0 THEN records' = records
       ELSE Reowns(current, Held.owners \ peers, Held.inflight)
  /\ current' = IF LastOwnersOf(peers) THEN 0 ELSE current

Unowns(made, c, rest) ==
  LET p == made[c].peer
      pc == IF ~LastOwnersOf({p}) THEN "ok" ELSE IF live THEN "forward" ELSE "error" IN
  /\ p \in owned /\ owned' = owned \ {p}
  /\ Turns(made, c, pc, made[c].rec) /\ jobs' = rest
  /\ Relieves({p})
  /\ sent' = IF LastOwnersOf({p}) /\ live THEN Append(sent, [rec |-> 0, call |-> c]) ELSE sent

Finishes(made, c, rest) ==
  \/ made[c].peer \notin owned /\ Quits(made, c, rest, "ok")
  \/ Unowns(made, c, rest)

Confirms(c, rest) ==
  /\ Turns(calls, c, "ok", calls[c].rec) /\ jobs' = rest
  /\ Awaited(c).outcome = "ok"
  /\ Reowns(calls[c].rec, Awaited(c).owners, FALSE)
  /\ UNCHANGED <<owned, current, sent>>

RollsBack(c, rest) ==
  /\ Turns(calls, c, "error", calls[c].rec) /\ jobs' = rest
  /\ Awaited(c).outcome = "error"
  /\ Reowns(calls[c].rec, {}, FALSE)
  /\ owned' = owned \ (Awaited(c).owners \cap registered) /\ current' = 0
  /\ UNCHANGED sent

Yields(c, rest) ==
  /\ Turns(calls, c, "yield", calls[c].rec) /\ jobs' = Append(rest, c)
  /\ UNCHANGED <<owned, records, current, sent>>

LEMMA NewDesk ==
  ASSUME Base, Idle, Len(calls) < MaxCalls, NEW op \in {"subscribe", "unsubscribe"},
         NEW p \in Peers, NEW a \in Args \cup {None}
  PROVE  /\ Desk(Request(op, p, a), Asking, <<>>)
         /\ Asking \notin DOMAIN calls
         /\ Request(op, p, a)[Asking] =
              [op |-> op, pc |-> "error", peer |-> p, args |-> a, rec |-> 0]
<1> DEFINE new == [op |-> op, pc |-> "error", peer |-> p, args |-> a, rec |-> 0]
           made == Request(op, p, a)
<1>1. new \in Call BY DEF Call, Answers
<1>2. calls \in Seq(Call) /\ jobs = <<>> /\ MaxCalls \in Nat BY LedgerAssumption DEF Base, Types, Idle
<1> HIDE DEF new
<1>3. made = Append(calls, new) BY DEF Request, new
<1> HIDE DEF made
<1>4. /\ made \in Seq(Call) /\ Len(made) = Len(calls) + 1 /\ Len(calls) \in Nat
      /\ DOMAIN calls = 1..Len(calls) /\ DOMAIN made = 1..(Len(calls) + 1)
      /\ \A d \in DOMAIN calls : made[d] = calls[d]
      /\ made[Asking] = new
  BY <1>1, <1>2, <1>3, AppendProperties DEF Asking
<1>5. /\ Asking \in 1..MaxCalls /\ Asking \notin DOMAIN calls /\ DOMAIN made = DOMAIN calls \cup {Asking}
      /\ Len(made) <= MaxCalls
  BY <1>2, <1>4 DEF Asking
<1>6. \A r \in DOMAIN records : ~In(records[r].waiters, Asking)
  BY <1>5 DEF Base, WaitersOK
<1>7. \A i \in DOMAIN sent : sent[i].call <= Len(calls) BY DEF Base, SentOK, SentFits
<1>8. \A i \in DOMAIN sent : sent[i].call # Asking BY <1>4, <1>7 DEF Asking
<1>9. PICK none : none = <<>> OBVIOUS
<1>10. none \in Seq(1..MaxCalls) BY <1>9
<1>11. Desk(made, Asking, none)
  BY <1>2, <1>4, <1>5, <1>6, <1>8, <1>9, <1>10, NothingIn, EmptyOrder DEF Desk
<1> QED BY <1>4, <1>5, <1>9, <1>11 DEF made, new

LEMMA JobDesk ==
  ASSUME Base, jobs # <<>>
  PROVE  /\ Desk(calls, jobs[1], Tail(jobs))
         /\ jobs[1] \in DOMAIN calls /\ In(jobs, jobs[1])
         /\ \/ calls[jobs[1]].pc \in Place /\ Awaited(jobs[1]).outcome # "none"
            \/ calls[jobs[1]].pc = "yield"
<1> DEFINE c == jobs[1]
<1>1. /\ jobs \in Seq(1..MaxCalls) /\ Distinct(jobs) /\ calls \in Seq(Call) /\ Len(calls) <= MaxCalls
  BY DEF Base, Types, JobsOK
<1>2. /\ Tail(jobs) \in Seq(1..MaxCalls) /\ c \in 1..MaxCalls /\ In(jobs, c) /\ Distinct(Tail(jobs))
      /\ \A x : In(Tail(jobs), x) <=> In(jobs, x) /\ x # c
      /\ \A x, y : Ahead(Tail(jobs), x, y) => Ahead(jobs, x, y)
      /\ \A x : In(jobs, x) /\ x # c => Ahead(jobs, c, x)
  BY <1>1, TailOrder
<1> HIDE DEF c
<1>3. /\ c \in DOMAIN calls
      /\ \/ calls[c].pc \in Place /\ Awaited(c).outcome # "none"
         \/ calls[c].pc = "yield"
  BY <1>2 DEF Base, JobsOK
<1>4. ASSUME NEW r \in DOMAIN records, In(records[r].waiters, c) PROVE FALSE
  <2>1. calls[c].pc \in Place /\ calls[c].rec = r /\ records[r].outcome = "none"
    BY <1>2, <1>4 DEF Base, WaitersOK
  <2> QED BY <1>3, <2>1 DEF Place, Awaited
<1>5. ASSUME NEW i \in DOMAIN sent, sent[i].rec = 0, sent[i].call = c PROVE FALSE
  <2>1. c # 0 BY <1>2
  <2>2. calls[c].pc \notin Waits \ {"forward"} BY <1>5, <2>1 DEF Base, SentOK, SentFits
  <2> QED BY <1>3, <2>2 DEF Place, Waits
<1>6. DOMAIN calls = DOMAIN calls \cup {c} BY <1>3
<1>7. PICK t : t = Tail(jobs) OBVIOUS
<1>8. Desk(calls, c, t)
  BY <1>1, <1>2, <1>3, <1>4, <1>5, <1>6, <1>7 DEF Desk
<1> QED BY <1>2, <1>3, <1>7, <1>8 DEF c

LEMMA HeldRecord ==
  ASSUME Base
  PROVE  /\ current # 0 => current \in DOMAIN records /\ current = Len(records)
         /\ Len(records) \in Nat /\ DOMAIN records = 1..Len(records)
         /\ records \in Seq(SubscriptionRecord)
BY DEF Base, Types

LEMMA AwaitEffect ==
  ASSUME Base, NEW made, NEW c, NEW rest, Desk(made, c, rest), NEW pc \in {"join", "drop"},
         current # 0, Held.inflight, AwaitInflight(made, c, pc, rest)
  PROVE  Parks(made, c, rest, pc) \/ Lines(made, c, rest, pc)
<1>1. Turns(made, c, pc, current)
  BY TurnMoves, HeldRecord DEF AwaitInflight, Desk, Waits
<1>2. CASE Held.outcome = "none"
  <2>1. records' = [records EXCEPT ![current].waiters = Append(@, c)] /\ jobs' = rest
    BY <1>2 DEF AwaitInflight
  <2>2. Queues(current, c) BY <2>1, QueueEffect, HeldRecord DEF Desk
  <2> QED BY <1>1, <1>2, <2>1, <2>2 DEF Parks, AwaitInflight
<1>3. CASE Held.outcome # "none"
  BY <1>1, <1>3 DEF Lines, AwaitInflight
<1> QED BY <1>2, <1>3

LEMMA ClaimEffect ==
  ASSUME Base, NEW made, NEW c, NEW rest, Desk(made, c, rest), current # 0,
         Claim(made[c].peer, current),
         calls' = [made EXCEPT ![c].pc = "ok"], jobs' = rest, UNCHANGED <<current, sent>>
  PROVE  Claims(made, c, rest)
<1>1. Turns(made, c, "ok", made[c].rec) BY TurnAnswers DEF Desk, Answers
<1>2. made[c].peer \in Peers BY CallFields DEF Desk
<1>3. ASSUME made[c].peer \notin owned
      PROVE  Reowns(current, Held.owners \cup {made[c].peer}, Held.inflight)
  <2>1. PICK o : o = Held.owners \cup {made[c].peer} OBVIOUS
  <2>2. o \in SUBSET Peers BY <1>2, <2>1, HeldRecord, RecordFields DEF Held
  <2>3. records' = [records EXCEPT ![current].owners = o] BY <1>3, <2>1 DEF Claim, Held
  <2>4. Reowns(current, o, records[current].inflight) BY <2>2, <2>3, HeldRecord, OwnersEffect
  <2> QED BY <2>1, <2>4 DEF Held
<1> QED BY <1>1, <1>3 DEF Claims, Claim

LEMMA CreateEffect ==
  ASSUME Base, NEW made, NEW c, NEW rest, Desk(made, c, rest), current = 0,
         made[c].args \in Args, Create(made, c, rest)
  PROVE  Creates(made, c, rest)
<1>1. Len(records) + 1 \in Nat BY HeldRecord
<1>2. Turns(made, c, "create", Len(records) + 1)
  BY <1>1, TurnMoves DEF Create, Desk, Waits
<1>3. made[c].peer \in Peers BY CallFields DEF Desk
<1>4. PICK w : w = IF live THEN <<c>> ELSE <<>> OBVIOUS
<1>5. w \in Seq(1..MaxCalls)
  <2>1. c \in 1..MaxCalls BY DEF Desk
  <2>2. PICK one, none : one = <<c>> /\ none = <<>> OBVIOUS
  <2>3. one \in Seq(1..MaxCalls) /\ none \in Seq(1..MaxCalls) BY <2>1, <2>2
  <2> QED BY <1>4, <2>2, <2>3
<1>6. PICK o, f : o = (IF live THEN "none" ELSE "error") /\ f = TRUE OBVIOUS
<1>7. PICK rec : rec = [args |-> made[c].args, owners |-> {made[c].peer}, inflight |-> f,
                        outcome |-> o, waiters |-> w]
  OBVIOUS
<1>8. o \in {"none"} \cup Answers /\ f \in BOOLEAN BY <1>6 DEF Answers
<1>9. rec \in SubscriptionRecord BY <1>3, <1>5, <1>7, <1>8 DEF SubscriptionRecord
<1>10. rec = Opened(made, c) BY <1>4, <1>6, <1>7 DEF Opened
<1>11. records' = Append(records, rec) BY <1>4, <1>6, <1>7 DEF Create
<1>12. Opens(rec) BY <1>9, <1>11, OpenEffect, HeldRecord
<1> QED BY <1>2, <1>10, <1>12 DEF Create, Creates

LEMMA EnterEffect ==
  ASSUME Base, NEW made, NEW c, NEW rest, Desk(made, c, rest), made[c].args \in Args,
         Enter(made, c, rest)
  PROVE  Enters(made, c, rest)
<1>1. CASE /\ Refused(made, c)
           /\ calls' = [made EXCEPT ![c].pc = "error"] /\ jobs' = rest
           /\ UNCHANGED <<owned, records, current, sent>>
  <2>1. Turns(made, c, "error", made[c].rec) BY <1>1, TurnAnswers DEF Desk, Answers
  <2> QED BY <1>1, <2>1 DEF Enters, Quits, Answers
<1>2. CASE /\ ~Refused(made, c) /\ current # 0 /\ Held.inflight
           /\ AwaitInflight(made, c, "join", rest)
  BY <1>2, AwaitEffect DEF Enters, Refused
<1>3. CASE /\ ~Refused(made, c) /\ current # 0 /\ ~Held.inflight
           /\ Claim(made[c].peer, current)
           /\ calls' = [made EXCEPT ![c].pc = "ok"] /\ jobs' = rest
           /\ UNCHANGED <<current, sent>>
  BY <1>3, ClaimEffect DEF Enters, Refused
<1>4. CASE ~Refused(made, c) /\ current = 0 /\ Create(made, c, rest)
  BY <1>4, CreateEffect DEF Enters, Refused
<1> QED BY <1>1, <1>2, <1>3, <1>4 DEF Enter, Awaits

LEMMA ReleaseEffect ==
  ASSUME Base, NEW peers \in SUBSET Peers, ReleaseName(peers)
  PROVE  Relieves(peers)
<1>1. CASE current = 0 BY <1>1 DEF ReleaseName, Relieves
<1>2. CASE current # 0
  <2>1. PICK o : o = Held.owners \ peers OBVIOUS
  <2>2. o \in SUBSET Peers BY <1>2, <2>1, HeldRecord, RecordFields DEF Held
  <2>3. records' = [records EXCEPT ![current].owners = o] BY <1>2, <2>1 DEF ReleaseName, Held
  <2>4. Reowns(current, o, records[current].inflight) BY <1>2, <2>2, <2>3, HeldRecord, OwnersEffect
  <2> QED BY <1>2, <2>1, <2>4 DEF Held, ReleaseName, Relieves
<1> QED BY <1>1, <1>2

LEMMA FinishEffect ==
  ASSUME Base, NEW made, NEW c, NEW rest, Desk(made, c, rest),
         FinishUnsubscribe(made, c, rest)
  PROVE  Finishes(made, c, rest)
<1> DEFINE p == made[c].peer
<1>1. p \in Peers BY CallFields DEF Desk
<1> HIDE DEF p
<1>2. CASE p \notin owned
  <2>1. calls' = [made EXCEPT ![c].pc = "ok"] BY <1>2 DEF FinishUnsubscribe, p
  <2>2. Turns(made, c, "ok", made[c].rec) BY <2>1, TurnAnswers DEF Desk, Answers
  <2> QED BY <1>2, <2>2 DEF FinishUnsubscribe, Finishes, Quits, Answers, p
<1>3. CASE p \in owned
  <2>1. PICK pc : pc = IF ~LastOwnersOf({p}) THEN "ok" ELSE IF live THEN "forward" ELSE "error"
    OBVIOUS
  <2>2. calls' = [made EXCEPT ![c].pc = pc] BY <1>3, <2>1 DEF FinishUnsubscribe, p
  <2>3. pc \in Waits \cup Answers BY <2>1 DEF Waits, Answers
  <2>4. Turns(made, c, pc, made[c].rec) BY <2>2, <2>3, TurnAnswers DEF Desk
  <2>5. ReleaseName({p}) BY <1>3 DEF FinishUnsubscribe, p
  <2>6. {p} \in SUBSET Peers BY <1>1
  <2>7. Relieves({p}) BY <2>5, <2>6, ReleaseEffect
  <2>8. owned' = owned \ {p} /\ Forward({p}, c) /\ jobs' = rest
    BY <1>3 DEF FinishUnsubscribe, p
  <2>9. sent' = IF LastOwnersOf({p}) /\ live THEN Append(sent, [rec |-> 0, call |-> c]) ELSE sent
    BY <2>8 DEF Forward
  <2> QED BY <1>3, <2>1, <2>4, <2>7, <2>8, <2>9 DEF Finishes, Unowns, p
<1> QED BY <1>2, <1>3

LEMMA CreateReplyEffect ==
  ASSUME Base, NEW c, NEW rest, Desk(calls, c, rest), c \in DOMAIN calls, calls[c].pc = "create",
         Awaited(c).outcome # "none", ResumeCreate(c, rest)
  PROVE  Confirms(c, rest) \/ RollsBack(c, rest)
<1>1. calls[c].rec \in DOMAIN records BY HeldRecord DEF Base, CallsOK, Place
<1>2. Awaited(c).outcome \in Answers BY <1>1, HeldRecord, RecordFields DEF Awaited
<1>3. Turns(calls, c, Awaited(c).outcome, calls[c].rec)
  BY <1>2, TurnAnswers DEF ResumeCreate, Awaited, Desk
<1>4. CASE Awaited(c).outcome = "ok"
  <2>1. records' = [records EXCEPT ![calls[c].rec].inflight = FALSE]
    BY <1>4 DEF ResumeCreate, Awaited
  <2>2. Reowns(calls[c].rec, Awaited(c).owners, FALSE)
    <3>1. PICK no : no = FALSE OBVIOUS
    <3>2. no \in BOOLEAN /\ records' = [records EXCEPT ![calls[c].rec].inflight = no] BY <2>1, <3>1
    <3>3. Reowns(calls[c].rec, records[calls[c].rec].owners, no)
      BY <1>1, <3>2, FlightEffect, HeldRecord
    <3> QED BY <3>1, <3>3 DEF Awaited
  <2> QED BY <1>3, <1>4, <2>2 DEF ResumeCreate, Confirms, Awaited
<1>5. CASE Awaited(c).outcome = "error"
  <2>1. Rollback(calls[c].rec) BY <1>5 DEF ResumeCreate, Awaited
  <2>2. Reowns(calls[c].rec, {}, FALSE) BY <1>1, <2>1, RollbackEffect, HeldRecord DEF Rollback
  <2> QED BY <1>3, <1>5, <2>1, <2>2 DEF ResumeCreate, Rollback, RollsBack, Awaited
<1> QED BY <1>2, <1>4, <1>5 DEF Answers

LEMMA JoinReplyEffect ==
  ASSUME Base, NEW c, NEW rest, Desk(calls, c, rest), c \in DOMAIN calls, calls[c].pc = "join",
         ResumeJoin(c, rest)
  PROVE  \/ Awaited(c).outcome = "error" /\ Quits(calls, c, rest, "error")
         \/ Stale(c) /\ Enters(calls, c, rest)
         \/ Awaited(c).outcome = "ok" /\ current = calls[c].rec /\ Claims(calls, c, rest)
<1>1. /\ calls[c].rec # 0 /\ calls[c].op = "subscribe" /\ calls[c].args \in Args
  BY DEF Base, CallsOK, Place
<1>2. CASE Awaited(c).outcome = "error" /\ calls' = [calls EXCEPT ![c].pc = "error"] /\ jobs' = rest
           /\ UNCHANGED <<owned, records, current, sent>>
  <2>1. Turns(calls, c, "error", calls[c].rec) BY <1>2, TurnAnswers DEF Desk, Answers
  <2> QED BY <1>2, <2>1 DEF Quits, Answers
<1>3. CASE Awaited(c).outcome = "ok" /\ current # calls[c].rec /\ Enter(calls, c, rest)
  BY <1>1, <1>3, EnterEffect DEF Stale
<1>4. CASE Awaited(c).outcome = "ok" /\ current = calls[c].rec /\ Claim(calls[c].peer, calls[c].rec)
           /\ calls' = [calls EXCEPT ![c].pc = "ok"] /\ jobs' = rest /\ UNCHANGED <<current, sent>>
  <2>1. current # 0 /\ Claim(calls[c].peer, current) BY <1>1, <1>4
  <2> QED BY <1>4, <2>1, ClaimEffect
<1> QED BY <1>2, <1>3, <1>4 DEF ResumeJoin, Awaited

LEMMA DropReplyEffect ==
  ASSUME Base, NEW c, NEW rest, Desk(calls, c, rest), ResumeDrop(c, rest)
  PROVE  Yields(c, rest)
<1>1. Turns(calls, c, "yield", calls[c].rec) BY TurnAnswers DEF ResumeDrop, Desk, Waits
<1> QED BY <1>1 DEF ResumeDrop, Yields

-----------------------------------------------------------------------------
(* The part of the invariant that any peers keep                           *)

Fits(made, c) ==
  /\ made[c].rec \in 0..Len(records)
  /\ made[c].op = "subscribe" => made[c].args \in Args

Sound(made, c, rest) ==
  /\ owned' \subseteq Peers /\ current' \in {0, Len(records')}
  /\ \E pc, rec : /\ Turns(made, c, pc, rec) /\ Stands(made, c, pc, rec) /\ Shelves(c, pc, rec)
                  /\ Requeues(c, pc, rec, rest) /\ Sends(made, c, pc)

LEMMA ShelvesKept ==
  ASSUME Base, NEW c, NEW pc, NEW rec,
         records' = records \/ \E r \in DOMAIN records : \E o, f : Reowns(r, o, f)
  PROVE  Shelves(c, pc, rec) /\ Len(records') = Len(records)
BY DEF Shelves, Reowns, Base, Types

LEMMA QuitsSound ==
  ASSUME Base, NEW made, NEW c, NEW rest, Desk(made, c, rest), Fits(made, c), NEW pc,
         Quits(made, c, rest, pc)
  PROVE  Sound(made, c, rest)
<1>1. Shelves(c, pc, made[c].rec) BY ShelvesKept DEF Quits
<1>2. Stands(made, c, pc, made[c].rec) BY DEF Quits, Stands, Fits, Answers, Place
<1> QED BY <1>1, <1>2 DEF Sound, Quits, Requeues, Sends, Base, Types

LEMMA AwaitsSound ==
  ASSUME Base, NEW made, NEW c, NEW rest, Desk(made, c, rest), Fits(made, c), NEW pc,
         Parks(made, c, rest, pc) \/ Lines(made, c, rest, pc),
         pc = "join" => made[c].op = "subscribe" /\ Held.args = made[c].args,
         pc = "drop" => made[c].op = "unsubscribe"
  PROVE  Sound(made, c, rest)
<1>1. CASE Parks(made, c, rest, pc)
  <2>1. Shelves(c, pc, current) BY <1>1, HeldRecord DEF Parks, Queues, Shelves, Held
  <2>2. Stands(made, c, pc, current)
    BY <1>1, HeldRecord DEF Parks, Queues, Stands, Held, Fits
  <2> QED BY <1>1, <2>1, <2>2 DEF Sound, Parks, Queues, Requeues, Sends, Base, Types
<1>2. CASE Lines(made, c, rest, pc)
  <2>1. Shelves(c, pc, current) BY <1>2, ShelvesKept DEF Lines
  <2>2. Stands(made, c, pc, current)
    BY <1>2, HeldRecord DEF Lines, Stands, Held, Fits
  <2>3. Requeues(c, pc, current, rest) BY <1>2 DEF Lines, Requeues, Held, Place
  <2> QED BY <1>2, <2>1, <2>2, <2>3 DEF Sound, Lines, Sends, Base, Types
<1> QED BY <1>1, <1>2

LEMMA ClaimsSound ==
  ASSUME Base, NEW made, NEW c, NEW rest, Desk(made, c, rest), Fits(made, c),
         Claims(made, c, rest)
  PROVE  Sound(made, c, rest)
<1>1. Shelves(c, "ok", made[c].rec) /\ Len(records') = Len(records)
  BY ShelvesKept, HeldRecord DEF Claims
<1>2. Stands(made, c, "ok", made[c].rec) BY <1>1 DEF Stands, Fits, Place
<1>3. made[c].peer \in Peers BY CallFields DEF Desk
<1> QED BY <1>1, <1>2, <1>3 DEF Sound, Claims, Requeues, Sends, Base, Types

LEMMA CreatesSound ==
  ASSUME Base, NEW made, NEW c, NEW rest, Desk(made, c, rest), Fits(made, c),
         made[c].op = "subscribe", Creates(made, c, rest)
  PROVE  Sound(made, c, rest)
<1>1. PICK r : r = Len(records) + 1 OBVIOUS
<1>2. /\ r \in Nat \ {0} /\ r \notin DOMAIN records /\ DOMAIN records' = DOMAIN records \cup {r}
      /\ DOMAIN records = 1..Len(records) /\ Len(records') = r
      /\ records' \in Seq(SubscriptionRecord) /\ records'[r] = Opened(made, c)
      /\ \A s \in DOMAIN records : records'[s] = records[s]
      /\ Turns(made, c, "create", r)
  BY <1>1, HeldRecord DEF Creates, Opens
<1>3. /\ records'[r].args = made[c].args
      /\ live => records'[r].outcome = "none" /\ records'[r].waiters = <<c>>
      /\ ~live => records'[r].outcome = "error" /\ records'[r].waiters = <<>>
  BY <1>2 DEF Opened
<1>4. Shelves(c, "create", r) BY <1>2, <1>3 DEF Shelves, Place
<1>5. Stands(made, c, "create", r) BY <1>2, <1>3 DEF Stands, Fits
<1>6. Requeues(c, "create", r, rest) BY <1>3 DEF Creates, Requeues, Place
<1>7. Sends(made, c, "create")
  <2>1. CASE live
    <3>1. PICK m : m = [rec |-> r, call |-> c] OBVIOUS
    <3>2. m \in Command /\ m.rec = r /\ m.call = c BY <1>2, <3>1 DEF Command, Desk
    <3>3. sent' = Append(sent, m) BY <1>1, <2>1, <3>1 DEF Creates
    <3> QED BY <1>2, <1>3, <2>1, <3>2, <3>3 DEF Sends
  <2>2. CASE ~live BY <2>2 DEF Creates, Sends
  <2> QED BY <2>1, <2>2
<1>8. made[c].peer \in Peers BY CallFields DEF Desk
<1>9. owned' \subseteq Peers BY <1>8 DEF Creates, Base, Types
<1>10. current' \in {0, Len(records')} BY <1>1, <1>2 DEF Creates
<1> QED BY <1>2, <1>4, <1>5, <1>6, <1>7, <1>9, <1>10 DEF Sound

LEMMA EntersSound ==
  ASSUME Base, NEW made, NEW c, NEW rest, Desk(made, c, rest), Fits(made, c),
         made[c].op = "subscribe", Enters(made, c, rest)
  PROVE  Sound(made, c, rest)
BY QuitsSound, AwaitsSound, ClaimsSound, CreatesSound DEF Enters

LEMMA FinishesSound ==
  ASSUME Base, NEW made, NEW c, NEW rest, Desk(made, c, rest), Fits(made, c),
         made[c].op = "unsubscribe", Finishes(made, c, rest)
  PROVE  Sound(made, c, rest)
<1>1. CASE Quits(made, c, rest, "ok") BY <1>1, QuitsSound
<1>2. CASE Unowns(made, c, rest)
  <2> DEFINE p == made[c].peer
  <2>1. PICK pc : pc = IF ~LastOwnersOf({p}) THEN "ok" ELSE IF live THEN "forward" ELSE "error"
    OBVIOUS
  <2>2. Shelves(c, pc, made[c].rec) /\ Len(records') = Len(records)
    BY <1>2, ShelvesKept, HeldRecord DEF Unowns, Relieves
  <2>3. Stands(made, c, pc, made[c].rec) BY <2>1, <2>2 DEF Stands, Fits, Place
  <2>4. Sends(made, c, pc)
    <3>1. CASE LastOwnersOf({p}) /\ live
      <4>1. PICK m : m = [rec |-> 0, call |-> c] OBVIOUS
      <4>2. m \in Command /\ m.rec = 0 /\ m.call = c BY <4>1 DEF Command, Desk
      <4>3. sent' = Append(sent, m) BY <1>2, <3>1, <4>1 DEF Unowns
      <4>4. Len(records') \in Nat BY <2>2, HeldRecord
      <4> QED BY <2>1, <3>1, <4>2, <4>3, <4>4 DEF Sends
    <3>2. CASE ~(LastOwnersOf({p}) /\ live) BY <1>2, <3>2 DEF Unowns, Sends
    <3> QED BY <3>1, <3>2
  <2>5. owned' \subseteq Peers /\ current' \in {0, Len(records')}
    BY <1>2, <2>2 DEF Unowns, Relieves, Base, Types
  <2>6. Turns(made, c, pc, made[c].rec) /\ jobs' = rest BY <1>2, <2>1 DEF Unowns
  <2> QED BY <2>2, <2>3, <2>4, <2>5, <2>6 DEF Sound, Requeues
<1> QED BY <1>1, <1>2 DEF Finishes

LEMMA RepliesSound ==
  ASSUME Base, NEW c, NEW rest, Desk(calls, c, rest), Fits(calls, c), calls[c].pc = "create",
         c \in DOMAIN calls, Confirms(c, rest) \/ RollsBack(c, rest)
  PROVE  Sound(calls, c, rest)
<1>1. calls[c].rec \in DOMAIN records BY HeldRecord DEF Base, CallsOK, Place
<1>2. PICK pc : pc \in Answers /\ Turns(calls, c, pc, calls[c].rec)
  BY DEF Confirms, RollsBack, Answers
<1>3. Shelves(c, pc, calls[c].rec) /\ Len(records') = Len(records)
  BY <1>1, ShelvesKept DEF Confirms, RollsBack
<1>4. Stands(calls, c, pc, calls[c].rec) BY <1>2, <1>3 DEF Stands, Fits, Place, Answers
<1>5. owned' \subseteq Peers /\ current' \in {0, Len(records')} /\ sent' = sent /\ jobs' = rest
  BY <1>3 DEF Confirms, RollsBack, Base, Types
<1> QED BY <1>2, <1>3, <1>4, <1>5 DEF Sound, Requeues, Sends

LEMMA YieldsSound ==
  ASSUME Base, NEW c, NEW rest, Desk(calls, c, rest), Fits(calls, c), calls[c].pc = "drop",
         c \in DOMAIN calls, Yields(c, rest)
  PROVE  Sound(calls, c, rest)
<1>1. Shelves(c, "yield", calls[c].rec) BY ShelvesKept DEF Yields
<1>2. calls[c].op = "unsubscribe" BY DEF Base, CallsOK
<1>3. Stands(calls, c, "yield", calls[c].rec) BY <1>2 DEF Yields, Stands, Fits, Place
<1> QED BY <1>1, <1>3 DEF Sound, Yields, Requeues, Sends, Base, Types

(* The actions, branch by branch.                                          *)
LEMMA SubscribeEffect ==
  ASSUME Base, NEW p \in Peers, NEW a \in Args, Subscribe(p, a)
  PROVE  LET made == Request("subscribe", p, a) IN
         /\ Desk(made, Asking, <<>>) /\ Asking \notin DOMAIN calls /\ Fits(made, Asking)
         /\ made[Asking] = [op |-> "subscribe", pc |-> "error", peer |-> p, args |-> a, rec |-> 0]
         /\ Enters(made, Asking, <<>>)
<1>1. Idle /\ Len(calls) < MaxCalls /\ Enter(Request("subscribe", p, a), Asking, <<>>)
  BY DEF Subscribe
<1> PICK made : made = Request("subscribe", p, a) OBVIOUS
<1>2. /\ Desk(made, Asking, <<>>) /\ Asking \notin DOMAIN calls
      /\ made[Asking] = [op |-> "subscribe", pc |-> "error", peer |-> p, args |-> a, rec |-> 0]
  BY <1>1, NewDesk
<1>3. made[Asking].args \in Args BY <1>2
<1>4. Enters(made, Asking, <<>>) BY <1>1, <1>2, <1>3, EnterEffect
<1>5. Fits(made, Asking) BY <1>2, HeldRecord DEF Fits
<1> QED BY <1>2, <1>4, <1>5

Declined(made, c) == Quits(made, c, <<>>, "error")
Waiting(made, c) ==
  /\ current # 0 /\ Held.inflight /\ made[c].peer \in registered \cap owned
  /\ Parks(made, c, <<>>, "drop") \/ Lines(made, c, <<>>, "drop")
Dropping(made, c) ==
  /\ made[c].peer \in registered \cap owned /\ ~(current # 0 /\ Held.inflight)
  /\ Unowns(made, c, <<>>)

LEMMA UnsubscribeEffect ==
  ASSUME Base, NEW p \in Peers, Unsubscribe(p)
  PROVE  LET made == Request("unsubscribe", p, None) IN
         /\ Desk(made, Asking, <<>>) /\ Asking \notin DOMAIN calls /\ Fits(made, Asking)
         /\ made[Asking] = [op |-> "unsubscribe", pc |-> "error", peer |-> p, args |-> None, rec |-> 0]
         /\ Declined(made, Asking) \/ Waiting(made, Asking) \/ Dropping(made, Asking)
<1> PICK made : made = Request("unsubscribe", p, None) OBVIOUS
<1>1. Idle /\ Len(calls) < MaxCalls BY DEF Unsubscribe
<1>2. /\ Desk(made, Asking, <<>>) /\ Asking \notin DOMAIN calls
      /\ made[Asking] = [op |-> "unsubscribe", pc |-> "error", peer |-> p, args |-> None, rec |-> 0]
  BY <1>1, NewDesk
<1>3. Fits(made, Asking) BY <1>2, HeldRecord DEF Fits
<1>4. CASE calls' = made /\ jobs' = <<>> /\ UNCHANGED <<owned, records, current, sent>>
  <2>1. Turns(made, Asking, "error", made[Asking].rec) BY <1>2, <1>4 DEF Turns, Desk
  <2> QED BY <1>2, <1>3, <1>4, <2>1 DEF Declined, Quits, Answers
<1>5. CASE /\ p \in registered \cap owned /\ current # 0 /\ Held.inflight
           /\ AwaitInflight(made, Asking, "drop", <<>>)
  <2>1. Parks(made, Asking, <<>>, "drop") \/ Lines(made, Asking, <<>>, "drop")
    BY <1>2, <1>5, AwaitEffect
  <2> QED BY <1>2, <1>3, <1>5, <2>1 DEF Waiting
<1>6. CASE /\ p \in registered \cap owned /\ ~(current # 0 /\ Held.inflight)
           /\ FinishUnsubscribe(made, Asking, <<>>)
  <2>1. Finishes(made, Asking, <<>>) BY <1>2, <1>6, FinishEffect
  <2>2. made[Asking].peer = p BY <1>2
  <2> QED BY <1>2, <1>3, <1>6, <2>1, <2>2 DEF Dropping, Finishes
<1> QED BY <1>4, <1>5, <1>6 DEF Unsubscribe

Created(c, rest) == calls[c].pc = "create" /\ (Confirms(c, rest) \/ RollsBack(c, rest))
Joined(c, rest) ==
  /\ calls[c].pc = "join"
  /\ \/ Awaited(c).outcome = "error" /\ Quits(calls, c, rest, "error")
     \/ Stale(c) /\ Enters(calls, c, rest)
     \/ Awaited(c).outcome = "ok" /\ current = calls[c].rec /\ Claims(calls, c, rest)

LEMMA JobEffect ==
  ASSUME Base, Job
  PROVE  \E c, rest :
           /\ Desk(calls, c, rest) /\ c \in DOMAIN calls /\ In(jobs, c) /\ Fits(calls, c)
           /\ (live \/ sent = <<>>) /\ draining' = TRUE /\ UNCHANGED <<registered, bound, live, last>>
           /\ \/ /\ calls[c].pc \in Place /\ Awaited(c).outcome # "none"
                 /\ \/ Created(c, rest)
                    \/ Joined(c, rest)
                    \/ calls[c].pc = "drop" /\ Yields(c, rest)
              \/ calls[c].pc = "yield" /\ Finishes(calls, c, rest)
<1> PICK c, rest : c = jobs[1] /\ rest = Tail(jobs) OBVIOUS
<1>1. jobs # <<>> BY DEF Job
<1>2. /\ Desk(calls, c, rest) /\ c \in DOMAIN calls /\ In(jobs, c)
      /\ \/ calls[c].pc \in Place /\ Awaited(c).outcome # "none"
         \/ calls[c].pc = "yield"
  BY <1>1, JobDesk
<1>3. Fits(calls, c) BY <1>2 DEF Fits, Base, CallsOK
<1>4. \/ calls[c].pc = "create" /\ ResumeCreate(c, rest)
      \/ calls[c].pc = "join" /\ ResumeJoin(c, rest)
      \/ calls[c].pc = "drop" /\ ResumeDrop(c, rest)
      \/ calls[c].pc = "yield" /\ FinishUnsubscribe(calls, c, rest)
  BY DEF Job
<1>5. /\ (live \/ sent = <<>>) /\ draining' = TRUE /\ UNCHANGED <<registered, bound, live, last>>
  BY DEF Job
<1>6. ASSUME calls[c].pc = "create", ResumeCreate(c, rest)
      PROVE  calls[c].pc \in Place /\ Created(c, rest)
  <2>1. calls[c].pc \in Place BY <1>6 DEF Place
  <2>2. Awaited(c).outcome # "none" BY <1>2, <1>6
  <2> QED BY <1>2, <1>6, <2>1, <2>2, CreateReplyEffect DEF Created
<1>7. ASSUME calls[c].pc = "join", ResumeJoin(c, rest)
      PROVE  calls[c].pc \in Place /\ Joined(c, rest)
  BY <1>2, <1>7, JoinReplyEffect DEF Joined, Place
<1>8. ASSUME calls[c].pc = "drop", ResumeDrop(c, rest)
      PROVE  calls[c].pc \in Place /\ Yields(c, rest)
  BY <1>2, <1>8, DropReplyEffect DEF Place
<1>9. ASSUME calls[c].pc = "yield", FinishUnsubscribe(calls, c, rest)
      PROVE  Finishes(calls, c, rest)
  BY <1>2, <1>9, FinishEffect
<1>10. calls[c].pc = "create" \/ calls[c].pc = "join" \/ calls[c].pc = "drop" =>
         calls[c].pc # "yield"
  OBVIOUS
<1>11. \/ /\ calls[c].pc \in Place /\ Awaited(c).outcome # "none"
          /\ \/ Created(c, rest)
             \/ Joined(c, rest)
             \/ calls[c].pc = "drop" /\ Yields(c, rest)
       \/ calls[c].pc = "yield" /\ Finishes(calls, c, rest)
  BY <1>2, <1>4, <1>6, <1>7, <1>8, <1>9, <1>10
<1> QED BY <1>2, <1>3, <1>5, <1>11

Answered(by, outcome) ==
  /\ by = 0 => calls' = calls
  /\ by # 0 => by \in DOMAIN calls /\ Turns(calls, by, outcome, calls[by].rec)
  /\ UNCHANGED <<records, jobs>>

LEMMA SentHead ==
  ASSUME Base, sent # <<>>
  PROVE  /\ sent[1] \in Command /\ sent[1].rec \in 0..Len(records) /\ sent[1].call \in 0..Len(calls)
         /\ Tail(sent) \in Seq(Command)
         /\ Len(sent) \in Nat \ {0} /\ DOMAIN sent = 1..Len(sent)
         /\ DOMAIN Tail(sent) = 1..(Len(sent) - 1) /\ Len(Tail(sent)) = Len(sent) - 1
         /\ \A i \in DOMAIN Tail(sent) : Tail(sent)[i] = sent[i + 1] /\ i + 1 \in DOMAIN sent
<1>1. sent \in Seq(Command) /\ calls \in Seq(Call) /\ records \in Seq(SubscriptionRecord)
  BY DEF Base, Types
<1>2. /\ Tail(sent) \in Seq(Command) /\ sent[1] \in Command
      /\ Len(sent) \in Nat \ {0} /\ DOMAIN sent = 1..Len(sent)
      /\ DOMAIN Tail(sent) = 1..(Len(sent) - 1) /\ Len(Tail(sent)) = Len(sent) - 1
      /\ \A i \in 1..(Len(sent) - 1) : Tail(sent)[i] = sent[i + 1]
  BY <1>1, HeadTailProperties
<1>3. sent[1].rec \in Nat /\ sent[1].call \in Nat BY <1>2 DEF Command
<1>4. 1 \in DOMAIN sent BY <1>2
<1>5. sent[1].rec <= Len(records) /\ sent[1].call <= Len(calls) BY <1>4 DEF Base, SentOK, SentFits
<1>6. Len(records) \in Nat /\ Len(calls) \in Nat BY <1>1
<1>7. sent[1].rec \in 0..Len(records) /\ sent[1].call \in 0..Len(calls) BY <1>3, <1>5, <1>6
<1>8. PICK n : n = Len(sent) OBVIOUS
<1>9. \A i \in 1..(n - 1) : i + 1 \in 1..n BY <1>2, <1>8
<1> QED BY <1>2, <1>7, <1>8, <1>9

LEMMA SettleEffects ==
  ASSUME Base, NEW outcome \in Answers, Settle(outcome)
  PROVE  /\ sent # <<>> /\ sent' = Tail(sent)
         /\ UNCHANGED <<registered, owned, current, live, draining, last>>
         /\ bound' = IF outcome = "error" THEN bound
                       ELSE IF sent[1].rec = 0 THEN None ELSE records[sent[1].rec].args
         /\ \/ sent[1].rec = 0 /\ Answered(sent[1].call, outcome)
            \/ /\ sent[1].rec \in DOMAIN records /\ Settles(sent[1].rec, outcome)
               /\ jobs' = jobs \o records[sent[1].rec].waiters
               /\ calls' = calls
<1>1. /\ sent # <<>> /\ sent' = Tail(sent)
      /\ UNCHANGED <<registered, owned, current, live, draining, last>>
      /\ bound' = IF outcome = "error" THEN bound
                    ELSE IF sent[1].rec = 0 THEN None ELSE records[sent[1].rec].args
  BY DEF Settle
<1>2. sent[1].rec \in 0..Len(records) /\ sent[1].call \in 0..Len(calls) BY <1>1, SentHead
<1>3. DOMAIN records = 1..Len(records) /\ DOMAIN calls = 1..Len(calls)
      /\ records \in Seq(SubscriptionRecord) /\ calls \in Seq(Call)
      /\ Len(calls) \in Nat /\ Len(records) \in Nat
  BY DEF Base, Types
<1>4. CASE sent[1].rec = 0
  <2>1. calls' = IF sent[1].call = 0 THEN calls ELSE [calls EXCEPT ![sent[1].call].pc = outcome]
    BY <1>4 DEF Settle
  <2>2. ASSUME sent[1].call # 0
        PROVE  sent[1].call \in DOMAIN calls
               /\ Turns(calls, sent[1].call, outcome, calls[sent[1].call].rec)
    <3>1. sent[1].call \in DOMAIN calls BY <1>2, <1>3, <2>2
    <3>2. calls' = [calls EXCEPT ![sent[1].call].pc = outcome] BY <2>1, <2>2
    <3> QED BY <1>3, <3>1, <3>2, TurnAnswers
  <2>3. UNCHANGED <<records, jobs>> BY <1>4 DEF Settle
  <2> QED BY <1>1, <1>4, <2>1, <2>2, <2>3 DEF Answered
<1>5. CASE sent[1].rec # 0
  <2>1. sent[1].rec \in DOMAIN records BY <1>2, <1>3, <1>5
  <2>2. /\ records' = [records EXCEPT ![sent[1].rec].outcome = outcome, ![sent[1].rec].waiters = <<>>]
        /\ jobs' = jobs \o records[sent[1].rec].waiters
        /\ calls' = calls
    BY <1>5 DEF Settle
  <2>3. Settles(sent[1].rec, outcome) BY <1>3, <2>1, <2>2, SettleEffect
  <2> QED BY <1>1, <2>1, <2>2, <2>3
<1> QED BY <1>4, <1>5

LEMMA TailSent ==
  ASSUME Base, sent # <<>>, sent' = Tail(sent)
  PROVE  /\ sent' \in Seq(Command) /\ SentRises'
         /\ \A i \in DOMAIN sent' : i + 1 \in DOMAIN sent /\ sent'[i] = sent[i + 1]
         /\ sent[1].rec # 0 => \A i \in DOMAIN sent' : sent'[i].rec # sent[1].rec
<1>1. /\ sent' \in Seq(Command) /\ Len(sent) \in Nat \ {0} /\ DOMAIN sent = 1..Len(sent)
      /\ DOMAIN sent' = 1..(Len(sent) - 1)
      /\ \A i \in DOMAIN sent' : sent'[i] = sent[i + 1] /\ i + 1 \in DOMAIN sent
  BY SentHead
<1>2. SentRises BY DEF Base, SentOK
<1>3. SentRises'
  <2>1. SUFFICES ASSUME NEW i \in DOMAIN sent', NEW j \in DOMAIN sent',
                        sent'[i].rec # 0, sent'[j].rec # 0, i < j
        PROVE  sent'[i].rec < sent'[j].rec
    BY DEF SentRises
  <2>2. i + 1 < j + 1 BY <1>1, <2>1
  <2> QED BY <1>1, <1>2, <2>1, <2>2 DEF SentRises
<1>4. ASSUME sent[1].rec # 0, NEW i \in DOMAIN sent', sent'[i].rec = sent[1].rec PROVE FALSE
  <2>1. 1 \in DOMAIN sent /\ i + 1 \in DOMAIN sent /\ 1 < i + 1 /\ sent[i + 1].rec = sent[1].rec
    BY <1>1, <1>4
  <2>2. sent[1].rec < sent[1].rec BY <1>2, <1>4, <2>1 DEF SentRises
  <2>3. sent[1].rec \in Nat BY SentHead DEF Command
  <2> QED BY <2>2, <2>3
<1> QED BY <1>1, <1>3, <1>4

LEMMA AnsweredSound ==
  ASSUME Base, NEW outcome \in Answers, sent # <<>>, sent' = Tail(sent),
         sent[1].rec = 0, Answered(sent[1].call, outcome), last' = last
  PROVE  CallsOK' /\ WaitersOK' /\ JobsOK' /\ SentOK' /\ LastOK'
         /\ calls' \in Seq(Call) /\ Len(calls') = Len(calls)
<1> PICK by : by = sent[1].call OBVIOUS
<1>1. CallsOK /\ WaitersOK /\ JobsOK /\ SentFits /\ LastOK /\ calls \in Seq(Call)
  BY DEF Base, SentOK, Types
<1>2. records' = records /\ jobs' = jobs BY DEF Answered
<1>3. 1 \in DOMAIN sent BY SentHead
<1>4. by # 0 => calls[by].op = "unsubscribe" /\ calls[by].pc \notin Waits \ {"forward"}
  BY <1>1, <1>3 DEF SentFits
<1>5. /\ \A d \in DOMAIN calls : d # by => calls'[d] = calls[d]
      /\ by # 0 => /\ by \in DOMAIN calls /\ calls'[by].op = calls[by].op
                   /\ calls'[by].args = calls[by].args /\ calls'[by].pc = outcome
                   /\ calls'[by].rec = calls[by].rec /\ calls'[by].peer = calls[by].peer
      /\ DOMAIN calls' = DOMAIN calls /\ calls' \in Seq(Call) /\ Len(calls') = Len(calls)
  BY <1>1 DEF Answered, Turns
<1>6. CallsOK'
  <2>1. SUFFICES ASSUME NEW d \in DOMAIN calls'
        PROVE  /\ calls'[d].rec \in 0..Len(records')
               /\ calls'[d].pc \in Place => calls'[d].rec # 0
               /\ calls'[d].pc \in {"create", "join"} =>
                    calls'[d].op = "subscribe" /\ calls'[d].args = records'[calls'[d].rec].args
               /\ calls'[d].pc \in {"drop", "yield", "forward"} => calls'[d].op = "unsubscribe"
               /\ calls'[d].op = "subscribe" => calls'[d].args \in Args
    BY DEF CallsOK, Awaited
  <2>2. CASE d = by /\ by # 0
    BY <1>1, <1>2, <1>4, <1>5, <2>2 DEF CallsOK, Awaited, Place, Answers
  <2>3. CASE ~(d = by /\ by # 0)
    <3>1. calls'[d] = calls[d] /\ d \in DOMAIN calls BY <1>1, <1>5, <2>1, <2>3
    <3> QED BY <1>1, <1>2, <3>1 DEF CallsOK, Awaited
  <2> QED BY <2>2, <2>3
<1>7. \A d \in DOMAIN calls : calls[d].pc \in Waits \ {"forward"} => calls'[d] = calls[d]
  BY <1>4, <1>5, SentHead
<1>8. WaitersOK'
  <2>1. \A d \in DOMAIN calls : calls'[d].pc = "create" => calls[d].pc = "create"
    BY <1>4, <1>5, <1>7 DEF Answers
  <2>2. SUFFICES ASSUME NEW r \in DOMAIN records
        PROVE  /\ Distinct(records[r].waiters)
               /\ \A d \in 1..MaxCalls : In(records[r].waiters, d) =>
                    /\ d \in DOMAIN calls' /\ calls'[d].pc \in Place /\ calls'[d].rec = r
                    /\ records[r].outcome = "none"
               /\ \A d, e \in 1..MaxCalls : Ahead(records[r].waiters, d, e) => calls'[e].pc # "create"
    BY <1>2 DEF WaitersOK
  <2>3. /\ Distinct(records[r].waiters)
        /\ \A d \in 1..MaxCalls : In(records[r].waiters, d) =>
             /\ d \in DOMAIN calls /\ calls[d].pc \in Place /\ calls[d].rec = r
             /\ records[r].outcome = "none"
        /\ \A d, e \in 1..MaxCalls : Ahead(records[r].waiters, d, e) => calls[e].pc # "create"
    BY <1>1 DEF WaitersOK
  <2>4. \A d, e \in 1..MaxCalls : Ahead(records[r].waiters, d, e) => e \in DOMAIN calls
    BY <2>3, AheadIn
  <2> QED BY <1>5, <1>7, <2>1, <2>3, <2>4 DEF Place, Waits
<1>9. JobsOK' BY <1>1, <1>2, <1>5, <1>7 DEF JobsOK, Awaited, Place, Waits
<1>10. SentOK'
  <2>1. /\ SentRises' /\ \A i \in DOMAIN sent' : i + 1 \in DOMAIN sent /\ sent'[i] = sent[i + 1]
    BY TailSent
  <2>2. SUFFICES ASSUME NEW i \in DOMAIN sent'
        PROVE  /\ sent'[i].rec <= Len(records') /\ sent'[i].call <= Len(calls')
               /\ sent'[i].rec # 0 => records'[sent'[i].rec].outcome = "none"
               /\ sent'[i].rec = 0 /\ sent'[i].call # 0 =>
                    calls'[sent'[i].call].op = "unsubscribe"
                    /\ calls'[sent'[i].call].pc \notin Waits \ {"forward"}
    BY <2>1 DEF SentOK, SentFits
  <2>3. PICK m : m = sent'[i] OBVIOUS
  <2>4. /\ m.rec <= Len(records) /\ m.call <= Len(calls)
        /\ m.rec # 0 => records[m.rec].outcome = "none"
        /\ m.rec = 0 /\ m.call # 0 =>
             calls[m.call].op = "unsubscribe" /\ calls[m.call].pc \notin Waits \ {"forward"}
    BY <1>1, <2>1, <2>3 DEF SentFits
  <2>5. m \in Command BY <2>1, <2>2, <2>3, ElementOfSeq DEF Base, Types
  <2>6. m.call # 0 => m.call \in DOMAIN calls BY <1>1, <2>4, <2>5 DEF Command
  <2>7. m.rec = 0 /\ m.call # 0 =>
             calls'[m.call].op = "unsubscribe" /\ calls'[m.call].pc \notin Waits \ {"forward"}
    BY <1>4, <1>5, <2>4, <2>6 DEF Answers, Waits
  <2> QED BY <1>2, <1>5, <2>3, <2>4, <2>7
<1>11. LastOK' BY <1>1, <1>5 DEF LastOK, Answered, Base, Types
<1> QED BY <1>5, <1>6, <1>8, <1>9, <1>10, <1>11

LEMMA SettledSound ==
  ASSUME Base, NEW outcome \in Answers, sent # <<>>, sent' = Tail(sent), calls' = calls, last' = last,
         sent[1].rec \in DOMAIN records, Settles(sent[1].rec, outcome),
         jobs' = jobs \o records[sent[1].rec].waiters
  PROVE  /\ CallsOK' /\ WaitersOK' /\ JobsOK' /\ SentOK' /\ LastOK'
         /\ jobs' \in Seq(1..MaxCalls)
         /\ \A d : In(jobs', d) <=> In(jobs, d) \/ In(records[sent[1].rec].waiters, d)
         /\ \A d, e : Ahead(jobs', d, e) =>
              \/ Ahead(jobs, d, e) \/ Ahead(records[sent[1].rec].waiters, d, e)
              \/ In(jobs, d) /\ In(records[sent[1].rec].waiters, e)
<1> PICK r, w : r = sent[1].rec /\ w = records[sent[1].rec].waiters OBVIOUS
<1>1. /\ CallsOK /\ WaitersOK /\ JobsOK /\ SentFits /\ LastOK /\ calls \in Seq(Call)
      /\ records \in Seq(SubscriptionRecord) /\ jobs \in Seq(1..MaxCalls)
  BY DEF Base, SentOK, Types
<1>2. /\ DOMAIN records' = DOMAIN records /\ Len(records') = Len(records) /\ r \in DOMAIN records
      /\ \A s \in DOMAIN records : s # r => records'[s] = records[s]
      /\ records'[r].args = records[r].args /\ records'[r].outcome = outcome
      /\ records'[r].waiters = <<>> /\ outcome # "none"
      /\ 0 \notin DOMAIN records
  BY <1>1 DEF Settles, Answers
<1>3. /\ Distinct(w) /\ w \in Seq(1..MaxCalls)
      /\ \A d \in 1..MaxCalls : In(w, d) =>
           d \in DOMAIN calls /\ calls[d].pc \in Place /\ calls[d].rec = r /\ records[r].outcome = "none"
  BY <1>1, <1>2, RecordFields DEF WaitersOK
<1>4. \A d : ~(In(jobs, d) /\ In(w, d))
  <2>1. SUFFICES ASSUME NEW d, In(jobs, d), In(w, d) PROVE FALSE OBVIOUS
  <2>2. d \in 1..MaxCalls BY <1>1, <2>1, InType
  <2> QED BY <1>1, <1>3, <2>1, <2>2 DEF JobsOK, Awaited, Place
<1>5. /\ jobs' \in Seq(1..MaxCalls) /\ Distinct(jobs')
      /\ \A d : In(jobs', d) <=> In(jobs, d) \/ In(w, d)
      /\ \A d, e : Ahead(jobs', d, e) => \/ Ahead(jobs, d, e) \/ Ahead(w, d, e)
                                         \/ In(jobs, d) /\ In(w, e)
  <2>1. jobs' = jobs \o w /\ Distinct(jobs) BY <1>1 DEF JobsOK
  <2>2. PICK j : j = jobs \o w OBVIOUS
  <2>3. /\ j \in Seq(1..MaxCalls) /\ Distinct(j)
        /\ \A d : In(j, d) <=> In(jobs, d) \/ In(w, d)
        /\ \A d, e : Ahead(j, d, e) => \/ Ahead(jobs, d, e) \/ Ahead(w, d, e)
                                       \/ In(jobs, d) /\ In(w, e)
    BY <1>1, <1>3, <1>4, <2>1, <2>2, ConcatOrder
  <2> QED BY <2>1, <2>2, <2>3
<1>6. CallsOK'
  <2>1. \A s \in DOMAIN records : records'[s].args = records[s].args BY <1>2
  <2>2. \A d \in DOMAIN calls : calls[d].pc \in {"create", "join"} => calls[d].rec \in DOMAIN records
    BY <1>1, HeldRecord DEF CallsOK, Place
  <2> QED BY <1>1, <1>2, <2>1, <2>2 DEF CallsOK, Awaited
<1>7. WaitersOK'
  <2>1. SUFFICES ASSUME NEW s \in DOMAIN records
        PROVE  /\ Distinct(records'[s].waiters)
               /\ \A d \in 1..MaxCalls : In(records'[s].waiters, d) =>
                    /\ d \in DOMAIN calls /\ calls[d].pc \in Place /\ calls[d].rec = s
                    /\ records'[s].outcome = "none"
               /\ \A d, e \in 1..MaxCalls : Ahead(records'[s].waiters, d, e) => calls[e].pc # "create"
    BY <1>2 DEF WaitersOK
  <2>2. CASE s = r BY <1>2, <2>2, NothingIn, EmptyOrder
  <2>3. CASE s # r BY <1>1, <1>2, <2>3 DEF WaitersOK
  <2> QED BY <2>2, <2>3
<1>8. JobsOK'
  <2>1. SUFFICES ASSUME NEW d \in 1..MaxCalls, In(jobs', d)
        PROVE  /\ d \in DOMAIN calls
               /\ \/ calls[d].pc \in Place /\ records'[calls[d].rec].outcome # "none"
                  \/ calls[d].pc = "yield"
    BY <1>5 DEF JobsOK, Awaited
  <2>2. CASE In(w, d) BY <1>2, <1>3, <2>2
  <2>3. CASE In(jobs, d)
    <3>1. /\ d \in DOMAIN calls
          /\ \/ calls[d].pc \in Place /\ records[calls[d].rec].outcome # "none"
             \/ calls[d].pc = "yield"
      BY <1>1, <2>3 DEF JobsOK, Awaited
    <3>2. calls[d].pc \in Place => calls[d].rec \in DOMAIN records BY <1>1, <3>1 DEF CallsOK
    <3> QED BY <1>2, <3>1, <3>2
  <2> QED BY <1>5, <2>1, <2>2, <2>3
<1>9. SentOK'
  <2>1. /\ SentRises' /\ \A i \in DOMAIN sent' : i + 1 \in DOMAIN sent /\ sent'[i] = sent[i + 1]
        /\ \A i \in DOMAIN sent' : sent'[i].rec # r
        /\ sent' \in Seq(Command)
    BY <1>2, TailSent
  <2>2. SUFFICES ASSUME NEW i \in DOMAIN sent'
        PROVE  /\ sent'[i].rec <= Len(records) /\ sent'[i].call <= Len(calls)
               /\ sent'[i].rec # 0 => records'[sent'[i].rec].outcome = "none"
               /\ sent'[i].rec = 0 /\ sent'[i].call # 0 =>
                    calls[sent'[i].call].op = "unsubscribe"
                    /\ calls[sent'[i].call].pc \notin Waits \ {"forward"}
    BY <1>2, <2>1 DEF SentOK, SentFits
  <2>3. PICK m : m = sent'[i] OBVIOUS
  <2>4. /\ m.rec <= Len(records) /\ m.call <= Len(calls)
        /\ m.rec # 0 => records[m.rec].outcome = "none"
        /\ m.rec = 0 /\ m.call # 0 =>
             calls[m.call].op = "unsubscribe" /\ calls[m.call].pc \notin Waits \ {"forward"}
    BY <1>1, <2>1, <2>3 DEF SentFits
  <2>5. m \in Command BY <2>1, <2>2, <2>3, ElementOfSeq
  <2>6. m.rec # 0 => m.rec \in DOMAIN records BY <1>1, <2>4, <2>5 DEF Command
  <2> QED BY <1>2, <2>1, <2>3, <2>4, <2>6
<1>10. LastOK' BY <1>1 DEF LastOK
<1> QED BY <1>5, <1>6, <1>7, <1>8, <1>9, <1>10

LEMMA SettleBase ==
  ASSUME Base, NEW outcome \in Answers, Settle(outcome)
  PROVE  Base'
<1>1. /\ sent # <<>> /\ sent' = Tail(sent)
      /\ UNCHANGED <<registered, owned, current, live, draining, last>>
      /\ bound' = IF outcome = "error" THEN bound
                    ELSE IF sent[1].rec = 0 THEN None ELSE records[sent[1].rec].args
      /\ \/ sent[1].rec = 0 /\ Answered(sent[1].call, outcome)
         \/ /\ sent[1].rec \in DOMAIN records /\ Settles(sent[1].rec, outcome)
            /\ jobs' = jobs \o records[sent[1].rec].waiters
            /\ calls' = calls
  BY SettleEffects
<1>2. sent' \in Seq(Command) BY <1>1, TailSent
<1>3. bound' \in Args \cup {None}
  <2>1. CASE sent[1].rec = 0 BY <1>1, <2>1 DEF Base, Types
  <2>2. CASE sent[1].rec # 0
    <3>1. sent[1].rec \in DOMAIN records BY <1>1, <2>2
    <3>2. records[sent[1].rec].args \in Args BY <3>1, RecordFields DEF Base, Types
    <3> QED BY <1>1, <2>2, <3>2 DEF Base, Types
  <2> QED BY <2>1, <2>2
<1>4. CASE sent[1].rec = 0 /\ Answered(sent[1].call, outcome)
  <2>1. CallsOK' /\ WaitersOK' /\ JobsOK' /\ SentOK' /\ LastOK'
        /\ calls' \in Seq(Call) /\ Len(calls') = Len(calls)
    BY <1>1, <1>4, AnsweredSound
  <2>2. records' = records /\ jobs' = jobs BY <1>4 DEF Answered
  <2> QED BY <1>1, <1>2, <1>3, <2>1, <2>2 DEF Base, Types
<1>5. CASE /\ sent[1].rec \in DOMAIN records /\ Settles(sent[1].rec, outcome)
           /\ jobs' = jobs \o records[sent[1].rec].waiters
           /\ calls' = calls
  <2>1. CallsOK' /\ WaitersOK' /\ JobsOK' /\ SentOK' /\ LastOK' /\ jobs' \in Seq(1..MaxCalls)
    BY <1>1, <1>5, SettledSound
  <2>2. records' \in Seq(SubscriptionRecord) /\ Len(records') = Len(records) BY <1>5 DEF Settles
  <2> QED BY <1>1, <1>2, <1>3, <1>5, <2>1, <2>2 DEF Base, Types
<1> QED BY <1>1, <1>4, <1>5

LEMMA ReleaseSteps ==
  ASSUME Base, NEW peers \in SUBSET Peers, Release(peers)
  PROVE  /\ Relieves(peers \cap owned) /\ registered' = registered \ peers /\ jobs = <<>>
         /\ sent' = IF LastOwnersOf(peers \cap owned) /\ live THEN Append(sent, [rec |-> 0, call |-> 0])
                      ELSE sent
         /\ live \/ sent = <<>>
         /\ draining' = FALSE
         /\ UNCHANGED <<owned, calls, bound, live, jobs, last>>
<1>1. (peers \cap owned) \in SUBSET Peers OBVIOUS
<1>2. Relieves(peers \cap owned) BY <1>1, ReleaseEffect DEF Release
<1>3. sent' = IF LastOwnersOf(peers \cap owned) /\ live THEN Append(sent, [rec |-> 0, call |-> 0])
                ELSE sent
  BY DEF Release, Forward
<1> QED BY <1>2, <1>3 DEF Release, Idle

LEMMA ReleaseBase ==
  ASSUME Base, NEW peers \in SUBSET Peers, Release(peers)
  PROVE  Base'
<1>1. /\ Relieves(peers \cap owned) /\ registered' = registered \ peers
      /\ sent' = IF LastOwnersOf(peers \cap owned) /\ live THEN Append(sent, [rec |-> 0, call |-> 0])
                   ELSE sent
      /\ draining' = FALSE
      /\ UNCHANGED <<owned, calls, bound, live, jobs, last>>
  BY ReleaseSteps
<1>2. /\ records' \in Seq(SubscriptionRecord) /\ Len(records') = Len(records)
      /\ DOMAIN records' = DOMAIN records
      /\ \A r \in DOMAIN records : /\ records'[r].args = records[r].args
                                   /\ records'[r].outcome = records[r].outcome
                                   /\ records'[r].waiters = records[r].waiters
      /\ current' \in {0, Len(records)}
  BY <1>1, HeldRecord DEF Relieves, Reowns, Base, Types
<1>3. CallsOK /\ WaitersOK /\ JobsOK /\ SentFits /\ SentRises /\ LastOK /\ 0 \notin DOMAIN records
  BY HeldRecord DEF Base, SentOK
<1>4. CallsOK' BY <1>1, <1>2, <1>3 DEF CallsOK, Awaited, Place
<1>5. WaitersOK' BY <1>1, <1>2, <1>3 DEF WaitersOK
<1>6. JobsOK'
  <2>1. \A c \in DOMAIN calls : calls[c].pc \in Place => calls[c].rec \in DOMAIN records
    BY <1>3, HeldRecord DEF CallsOK
  <2> QED BY <1>1, <1>2, <1>3, <2>1 DEF JobsOK, Awaited
<1>7. SentOK' /\ sent' \in Seq(Command)
  <2>1. sent \in Seq(Command) BY DEF Base, Types
  <2>2. \A i \in DOMAIN sent : sent[i].rec # 0 => sent[i].rec \in DOMAIN records
    <3>1. SUFFICES ASSUME NEW i \in DOMAIN sent, sent[i].rec # 0 PROVE sent[i].rec \in DOMAIN records
      OBVIOUS
    <3>2. sent[i] \in Command BY <2>1, ElementOfSeq
    <3>3. sent[i].rec <= Len(records) BY <1>3 DEF SentFits
    <3> QED BY <3>1, <3>2, <3>3, HeldRecord DEF Command
  <2>3. CASE sent' = sent
    <3>1. SentFits' BY <1>1, <1>2, <1>3, <2>2, <2>3 DEF SentFits
    <3>2. SentRises' BY <1>3, <2>3 DEF SentRises
    <3> QED BY <2>1, <2>3, <3>1, <3>2 DEF SentOK
  <2>4. CASE sent' # sent
    <3>1. PICK m : m = [rec |-> 0, call |-> 0] OBVIOUS
    <3>2. m \in Command /\ m.rec = 0 /\ m.call = 0 BY <3>1 DEF Command
    <3>3. /\ sent' \in Seq(Command)
          /\ DOMAIN sent' = 1..(Len(sent) + 1) /\ DOMAIN sent = 1..Len(sent) /\ Len(sent) \in Nat
          /\ \A i \in 1..Len(sent) : sent'[i] = sent[i]
          /\ sent'[Len(sent) + 1] = m
      <4>1. sent' = Append(sent, m) BY <1>1, <2>4, <3>1
      <4> QED BY <2>1, <3>2, <4>1, AppendProperties
    <3>4. SentFits'
      <4>1. Len(calls) \in Nat /\ Len(records) \in Nat /\ calls' = calls
        BY <1>1 DEF Base, Types
      <4>2. SUFFICES ASSUME NEW i \in DOMAIN sent'
            PROVE  /\ sent'[i].rec <= Len(records) /\ sent'[i].call <= Len(calls)
                   /\ sent'[i].rec # 0 => records'[sent'[i].rec].outcome = "none"
                   /\ sent'[i].rec = 0 /\ sent'[i].call # 0 =>
                        calls[sent'[i].call].op = "unsubscribe"
                        /\ calls[sent'[i].call].pc \notin Waits \ {"forward"}
        BY <1>2, <4>1 DEF SentFits
      <4>3. CASE i \in DOMAIN sent BY <1>2, <1>3, <2>2, <3>3, <4>3 DEF SentFits
      <4>4. CASE i = Len(sent) + 1 BY <3>2, <3>3, <4>1, <4>4
      <4> QED BY <3>3, <4>3, <4>4
    <3>5. SentRises' BY <1>3, <3>2, <3>3 DEF SentRises
    <3> QED BY <3>3, <3>4, <3>5 DEF SentOK
  <2> QED BY <2>3, <2>4
<1>8. LastOK' BY <1>1, <1>3 DEF LastOK
<1> QED BY <1>1, <1>2, <1>4, <1>5, <1>6, <1>7, <1>8 DEF Base, Types

LEMMA SoundBase ==
  ASSUME Base, NEW made, NEW c, NEW rest, Desk(made, c, rest), Sound(made, c, rest),
         UNCHANGED <<registered, bound, live>>, draining' \in BOOLEAN,
         \/ last' = last
         \/ \E p \in Peers : last' = [last EXCEPT ![p] = c]
  PROVE  Base'
<1>1. PICK pc, rec : /\ Turns(made, c, pc, rec) /\ Stands(made, c, pc, rec) /\ Shelves(c, pc, rec)
                     /\ Requeues(c, pc, rec, rest) /\ Sends(made, c, pc)
  BY DEF Sound
<1>2. Others BY DEF Sound, Others, Base, Types
<1> QED BY <1>1, <1>2, BaseStep

LEMMA BaseInit == ASSUME Init PROVE Base
<1>1. PICK none : none = <<>> OBVIOUS
<1>2. /\ none \in Seq(SubscriptionRecord) /\ none \in Seq(Call) /\ none \in Seq(Command)
      /\ none \in Seq(1..MaxCalls) /\ Len(none) = 0 /\ DOMAIN none = {}
  BY <1>1
<1>3. /\ records = none /\ calls = none /\ sent = none /\ jobs = none BY <1>1 DEF Init
<1>4. Types
  <2>1. Len(calls) <= MaxCalls /\ current \in {0, Len(records)}
    BY <1>2, <1>3, LedgerAssumption DEF Init
  <2>2. last \in [Peers -> Nat] BY DEF Init
  <2>3. registered \subseteq Peers /\ owned \subseteq Peers /\ bound \in Args \cup {None}
        /\ live \in BOOLEAN /\ draining \in BOOLEAN
    BY DEF Init
  <2> QED BY <1>2, <1>3, <2>1, <2>2, <2>3 DEF Types
<1>5. CallsOK /\ WaitersOK /\ SentOK BY <1>2, <1>3 DEF CallsOK, WaitersOK, SentOK, SentFits, SentRises
<1>6. JobsOK BY <1>1, <1>3, EmptyOrder, NothingIn DEF JobsOK
<1>7. LastOK BY <1>2, <1>3 DEF LastOK, Init
<1> QED BY <1>4, <1>5, <1>6, <1>7 DEF Base

LEMMA BaseNext == ASSUME Base, [Next]_vars PROVE Base'
<1>1. ASSUME NEW p \in Peers, NEW a \in Args, Subscribe(p, a) PROVE Base'
  <2> PICK made : made = Request("subscribe", p, a) OBVIOUS
  <2>1. /\ Desk(made, Asking, <<>>) /\ Fits(made, Asking)
        /\ made[Asking] = [op |-> "subscribe", pc |-> "error", peer |-> p, args |-> a, rec |-> 0]
        /\ Enters(made, Asking, <<>>)
    BY <1>1, SubscribeEffect
  <2>2. made[Asking].op = "subscribe" BY <2>1
  <2>3. Sound(made, Asking, <<>>) BY <2>1, <2>2, EntersSound
  <2>4. /\ UNCHANGED <<registered, bound, live>> /\ draining' \in BOOLEAN
        /\ last' = [last EXCEPT ![p] = Asking]
    BY <1>1 DEF Subscribe
  <2> QED BY <2>1, <2>3, <2>4, SoundBase
<1>2. ASSUME NEW p \in Peers, Unsubscribe(p) PROVE Base'
  <2> PICK made : made = Request("unsubscribe", p, None) OBVIOUS
  <2>1. /\ Desk(made, Asking, <<>>) /\ Fits(made, Asking)
        /\ made[Asking] = [op |-> "unsubscribe", pc |-> "error", peer |-> p, args |-> None, rec |-> 0]
        /\ Declined(made, Asking) \/ Waiting(made, Asking) \/ Dropping(made, Asking)
    BY <1>2, UnsubscribeEffect
  <2>2. made[Asking].op = "unsubscribe" BY <2>1
  <2>3. Sound(made, Asking, <<>>)
    BY <2>1, <2>2, QuitsSound, AwaitsSound, FinishesSound DEF Declined, Waiting, Dropping, Finishes
  <2>4. /\ UNCHANGED <<registered, bound, live>> /\ draining' \in BOOLEAN
        /\ last' = [last EXCEPT ![p] = Asking]
    BY <1>2 DEF Unsubscribe
  <2> QED BY <2>1, <2>3, <2>4, SoundBase
<1>3. ASSUME NEW peers \in SUBSET Peers, Release(peers) PROVE Base'
  BY <1>3, ReleaseBase
<1>4. ASSUME NEW p \in Peers, ReleasePeer(p) PROVE Base'
  <2>1. {p} \in SUBSET Peers OBVIOUS
  <2> QED BY <1>3, <1>4, <2>1 DEF ReleasePeer
<1>5. CASE Dispose
  <2>1. registered \in SUBSET Peers BY DEF Base, Types
  <2> QED BY <1>3, <1>5, <2>1 DEF Dispose
<1>6. CASE Reply BY <1>6, SettleBase DEF Reply, Answers
<1>7. CASE Disconnect
  <2>1. live' \in BOOLEAN /\ UNCHANGED <<registered, owned, records, current, calls, sent, bound,
                                        jobs, draining, last>>
    BY <1>7 DEF Disconnect
  <2>2. Types' BY <2>1 DEF Base, Types
  <2>3. CallsOK' /\ LastOK' BY <2>1 DEF Base, CallsOK, LastOK, Awaited
  <2>4. WaitersOK' BY <2>1 DEF Base, WaitersOK
  <2>5. JobsOK' BY <2>1 DEF Base, JobsOK, Awaited
  <2>6. SentOK' BY <2>1 DEF Base, SentOK, SentFits, SentRises
  <2> QED BY <2>2, <2>3, <2>4, <2>5, <2>6 DEF Base
<1>8. CASE Reject BY <1>8, SettleBase DEF Reject, Answers
<1>9. CASE Job
  <2>1. PICK c, rest :
           /\ Desk(calls, c, rest) /\ c \in DOMAIN calls /\ Fits(calls, c)
           /\ draining' = TRUE /\ UNCHANGED <<registered, bound, live, last>>
           /\ \/ /\ calls[c].pc \in Place /\ Awaited(c).outcome # "none"
                 /\ \/ Created(c, rest)
                    \/ Joined(c, rest)
                    \/ calls[c].pc = "drop" /\ Yields(c, rest)
              \/ calls[c].pc = "yield" /\ Finishes(calls, c, rest)
    BY <1>9, JobEffect
  <2>2. /\ calls[c].pc = "join" => calls[c].op = "subscribe"
        /\ calls[c].pc = "yield" => calls[c].op = "unsubscribe"
    BY <2>1 DEF Base, CallsOK
  <2>3. ASSUME Created(c, rest) PROVE Sound(calls, c, rest)
    BY <2>1, <2>3, RepliesSound DEF Created
  <2>4. ASSUME Joined(c, rest) PROVE Sound(calls, c, rest)
    BY <2>1, <2>2, <2>4, QuitsSound, EntersSound, ClaimsSound DEF Joined, Stale
  <2>5. ASSUME calls[c].pc = "drop", Yields(c, rest) PROVE Sound(calls, c, rest)
    BY <2>1, <2>5, YieldsSound
  <2>6. ASSUME calls[c].pc = "yield", Finishes(calls, c, rest) PROVE Sound(calls, c, rest)
    BY <2>1, <2>2, <2>6, FinishesSound
  <2>7. Sound(calls, c, rest) BY <2>1, <2>3, <2>4, <2>5, <2>6
  <2> QED BY <2>1, <2>7, SoundBase
<1>10. CASE UNCHANGED vars
  BY <1>10 DEF vars, Base, Types, CallsOK, WaitersOK, JobsOK, SentOK, SentFits, SentRises, LastOK, Awaited
<1> QED BY <1>1, <1>2, <1>4, <1>5, <1>6, <1>7, <1>8, <1>9, <1>10 DEF Next

LEMMA BaseTypes == ASSUME Base PROVE TypeOK
<1>1. /\ registered \subseteq Peers /\ owned \subseteq Peers
      /\ records \in Seq(SubscriptionRecord) /\ current \in 0..Len(records)
      /\ calls \in Seq(Call) /\ Len(calls) <= MaxCalls
      /\ bound \in Args \cup {None} /\ live \in BOOLEAN /\ draining \in BOOLEAN
      /\ Len(calls) \in Nat
  BY DEF Base, Types
<1>2. \A c \in DOMAIN calls : calls[c].rec \in 0..Len(records) BY DEF Base, CallsOK
<1>3. sent \in Seq([rec : 0..Len(records), call : 0..Len(calls)])
  <2>1. sent \in Seq(Command) BY DEF Base, Types
  <2>2. ASSUME NEW m, In(sent, m) PROVE m \in [rec : 0..Len(records), call : 0..Len(calls)]
    <3>1. PICK i \in DOMAIN sent : sent[i] = m BY <2>2 DEF In
    <3>2. m \in Command BY <2>1, <3>1, ElementOfSeq
    <3>3. m.rec <= Len(records) /\ m.call <= Len(calls) BY <3>1 DEF Base, SentOK, SentFits
    <3>4. m = [rec |-> m.rec, call |-> m.call] /\ m.rec \in Nat /\ m.call \in Nat
      BY <3>2 DEF Command
    <3>5. m.rec \in 0..Len(records) /\ m.call \in 0..Len(calls) BY <3>3, <3>4, <1>1
    <3> QED BY <3>4, <3>5
  <2> QED BY <2>1, <2>2, Retype
<1>4. jobs \in Seq({c \in DOMAIN calls : calls[c].pc \in Waits \ {"forward"}})
  <2>1. jobs \in Seq(1..MaxCalls) BY DEF Base, Types
  <2>2. ASSUME NEW c, In(jobs, c) PROVE c \in {d \in DOMAIN calls : calls[d].pc \in Waits \ {"forward"}}
    <3>1. c \in 1..MaxCalls BY <2>1, <2>2, InType
    <3> QED BY <2>2, <3>1 DEF Base, JobsOK, Place, Waits
  <2> QED BY <2>1, <2>2, Retype
<1>5. last \in [Peers -> 0..Len(calls)]
  <2>1. last \in [Peers -> Nat] /\ \A p \in Peers : last[p] <= Len(calls)
    BY DEF Base, Types, LastOK
  <2>2. \A p \in Peers : last[p] \in 0..Len(calls) BY <1>1, <2>1
  <2> QED BY <2>1, <2>2
<1> QED BY <1>1, <1>2, <1>3, <1>4, <1>5 DEF TypeOK

LEMMA BaseHolds == Spec => []Base
<1>1. Init => Base BY BaseInit
<1>2. Base /\ [Next]_vars => Base' BY BaseNext
<1> QED BY <1>1, <1>2, PTL DEF Spec

(* Every variable keeps its type, whatever the peers do.                   *)
THEOREM TypeCorrect == Spec => []TypeOK
<1>1. Base => TypeOK BY BaseTypes
<1> QED BY <1>1, BaseHolds, PTL

-----------------------------------------------------------------------------
(* Only registered peers are owners, when none leaves while it waits to    *)
(* join another's subscription.                                            *)

LEMMA OwnersOfEffects ==
  ASSUME Base
  PROVE  /\ records' = records /\ current' = current => Owners' = Owners
         /\ \A c : current # 0 /\ Queues(current, c) /\ current' = current => Owners' = Owners
         /\ \A o, f : current # 0 /\ Reowns(current, o, f) /\ current' = current => Owners' = o
         /\ \A r, o, f : r # current /\ Reowns(r, o, f) /\ current' = current => Owners' = Owners
         /\ \A rec : current' = Len(records) + 1 /\ Opens(rec) => Owners' = rec.owners
         /\ \A r, o : Settles(r, o) /\ r \in DOMAIN records /\ current' = current => Owners' = Owners
         /\ current' = 0 => Owners' = {}
<1>1. current # 0 => current \in DOMAIN records BY HeldRecord
<1>2. records' = records /\ current' = current => Owners' = Owners BY DEF Owners, Held
<1>3. ASSUME NEW c, current # 0, Queues(current, c), current' = current PROVE Owners' = Owners
  BY <1>3 DEF Queues, Owners, Held
<1>4. ASSUME NEW o, NEW f, current # 0, Reowns(current, o, f), current' = current PROVE Owners' = o
  BY <1>4 DEF Reowns, Owners, Held
<1>5. ASSUME NEW r, NEW o, NEW f, r # current, Reowns(r, o, f), current' = current
      PROVE  Owners' = Owners
  BY <1>1, <1>5 DEF Reowns, Owners, Held
<1>6. ASSUME NEW rec, current' = Len(records) + 1, Opens(rec) PROVE Owners' = rec.owners
  <2>1. Len(records) + 1 # 0 BY HeldRecord
  <2> QED BY <1>6, <2>1 DEF Opens, Owners, Held
<1>7. ASSUME NEW r, NEW o, Settles(r, o), r \in DOMAIN records, current' = current
      PROVE  Owners' = Owners
  BY <1>1, <1>7 DEF Settles, Owners, Held
<1>8. current' = 0 => Owners' = {} BY DEF Owners
<1> QED BY <1>2, <1>3, <1>4, <1>5, <1>6, <1>7, <1>8

LEMMA RelievedOwners ==
  ASSUME Base, NEW peers, Relieves(peers)
  PROVE  /\ LastOwnersOf(peers) => current' = 0 /\ Owners' = {}
         /\ ~LastOwnersOf(peers) => current' = current /\ Owners' = Owners \ peers
<1>1. CASE LastOwnersOf(peers) BY <1>1 DEF Relieves, Owners
<1>2. CASE ~LastOwnersOf(peers)
  <2>1. current' = current BY <1>2 DEF Relieves
  <2>2. CASE current = 0 BY <1>2, <2>1, <2>2 DEF Owners
  <2>3. CASE current # 0
    <3>1. Reowns(current, Held.owners \ peers, Held.inflight) BY <2>3 DEF Relieves
    <3>2. Owners' = Held.owners \ peers BY <2>1, <2>3, <3>1, OwnersOfEffects
    <3> QED BY <1>2, <2>1, <2>3, <3>2 DEF Owners
  <2> QED BY <2>2, <2>3
<1> QED BY <1>1, <1>2

(* What a turn may do to the owners.                                       *)
Tallies ==
  Owners' \subseteq registered /\ Owners' \subseteq owned'

LEMMA QuitsTallies ==
  ASSUME Base, OwnersAreLive, OwnersKnow, NEW made, NEW c, NEW rest, NEW pc,
         \/ Quits(made, c, rest, pc) \/ Parks(made, c, rest, pc) \/ Lines(made, c, rest, pc)
         \/ Yields(c, rest)
  PROVE  Tallies /\ Owners' = Owners
<1>1. Owners' = Owners BY OwnersOfEffects DEF Quits, Parks, Lines, Yields
<1> QED BY <1>1 DEF Quits, Parks, Lines, Yields, Tallies, OwnersAreLive, OwnersKnow

LEMMA ClaimsTallies ==
  ASSUME Base, OwnersAreLive, OwnersKnow, NEW made, NEW c, NEW rest,
         Claims(made, c, rest), made[c].peer \in registered
  PROVE  Tallies
<1>1. Owners' = Owners \/ Owners' = Owners \cup {made[c].peer}
  BY OwnersOfEffects DEF Claims, Owners
<1> QED BY <1>1 DEF Claims, Tallies, OwnersAreLive, OwnersKnow

LEMMA CreatesTallies ==
  ASSUME Base, NEW made, NEW c, NEW rest,
         Creates(made, c, rest), made[c].peer \in registered
  PROVE  Tallies /\ Owners' = {made[c].peer}
<1>1. Owners' = Opened(made, c).owners BY OwnersOfEffects DEF Creates
<1>2. Opened(made, c).owners = {made[c].peer} BY DEF Opened
<1> QED BY <1>1, <1>2 DEF Creates, Tallies

LEMMA EntersTallies ==
  ASSUME Base, OwnersAreLive, OwnersKnow, NEW made, NEW c, NEW rest, Enters(made, c, rest)
  PROVE  Tallies
BY QuitsTallies, ClaimsTallies, CreatesTallies DEF Enters

LEMMA FinishesTallies ==
  ASSUME Base, OwnersAreLive, OwnersKnow, NEW made, NEW c, NEW rest, Finishes(made, c, rest)
  PROVE  Tallies
<1>1. CASE Quits(made, c, rest, "ok") BY <1>1, QuitsTallies
<1>2. CASE Unowns(made, c, rest)
  <2>1. Owners' = {} \/ Owners' = Owners \ {made[c].peer} BY <1>2, RelievedOwners DEF Unowns
  <2> QED BY <1>2, <2>1 DEF Unowns, Tallies, OwnersAreLive, OwnersKnow
<1> QED BY <1>1, <1>2 DEF Finishes

LEMMA RepliesTallies ==
  ASSUME Base, OwnersAreLive, OwnersKnow, NEW c \in DOMAIN calls, NEW rest,
         Confirms(c, rest) \/ RollsBack(c, rest)
  PROVE  Tallies
<1>1. CASE Confirms(c, rest)
  <2>1. Owners' = Owners
    <3>1. CASE calls[c].rec = current /\ current # 0
      BY <1>1, <3>1, OwnersOfEffects DEF Confirms, Owners, Held, Awaited
    <3>2. CASE calls[c].rec # current BY <1>1, <3>2, OwnersOfEffects DEF Confirms
    <3>3. CASE calls[c].rec = current /\ current = 0
      BY <1>1, <3>3 DEF Confirms, Owners
    <3> QED BY <3>1, <3>2, <3>3
  <2> QED BY <1>1, <2>1 DEF Confirms, Tallies, OwnersAreLive, OwnersKnow
<1>2. CASE RollsBack(c, rest)
  BY <1>2, OwnersOfEffects DEF RollsBack, Tallies
<1> QED BY <1>1, <1>2

(* A call that joins is a registered peer's.                               *)
LEMMA JoinersTurn ==
  ASSUME JoinersAreLive, NEW made, NEW c, NEW rest, NEW pc, NEW rec,
         Desk(made, c, rest), Turns(made, c, pc, rec), registered' = registered,
         pc = "join" => made[c].peer \in registered
  PROVE  JoinersAreLive'
<1>1. SUFFICES ASSUME NEW d \in DOMAIN calls', calls'[d].pc = "join"
      PROVE  calls'[d].peer \in registered
  BY DEF JoinersAreLive
<1>2. CASE d = c BY <1>1, <1>2 DEF Turns
<1>3. CASE d # c
  <2>1. d \in DOMAIN calls /\ calls'[d] = calls[d] BY <1>1, <1>3 DEF Turns, Desk
  <2> QED BY <1>1, <2>1 DEF JoinersAreLive
<1> QED BY <1>2, <1>3

LEMMA EntersJoiners ==
  ASSUME JoinersAreLive, NEW made, NEW c, NEW rest, Desk(made, c, rest),
         Enters(made, c, rest), registered' = registered
  PROVE  JoinersAreLive'
<1>1. CASE Quits(made, c, rest, "error") BY <1>1, JoinersTurn DEF Quits, Answers
<1>2. CASE made[c].peer \in registered /\ (Parks(made, c, rest, "join") \/ Lines(made, c, rest, "join"))
  BY <1>2, JoinersTurn DEF Parks, Lines
<1>3. CASE Claims(made, c, rest) BY <1>3, JoinersTurn DEF Claims
<1>4. CASE Creates(made, c, rest) BY <1>4, JoinersTurn DEF Creates
<1> QED BY <1>1, <1>2, <1>3, <1>4 DEF Enters

LEMMA FinishesJoiners ==
  ASSUME JoinersAreLive, NEW made, NEW c, NEW rest, Desk(made, c, rest),
         Finishes(made, c, rest), registered' = registered
  PROVE  JoinersAreLive'
<1>1. CASE Quits(made, c, rest, "ok") BY <1>1, JoinersTurn DEF Quits
<1>2. CASE Unowns(made, c, rest)
  <2>1. PICK pc : pc \in {"ok", "forward", "error"} /\ Turns(made, c, pc, made[c].rec)
    BY <1>2 DEF Unowns
  <2> QED BY <2>1, JoinersTurn
<1> QED BY <1>1, <1>2 DEF Finishes

LEMMA RefcountNext ==
  ASSUME "leaves" \notin Unruly, Base, Refcount, [Next]_vars
  PROVE  Refcount'
<1>1. OwnersAreLive /\ OwnersKnow /\ JoinersAreLive BY DEF Refcount
<1>2. ASSUME Tallies, registered' = registered, JoinersAreLive' PROVE Refcount'
  BY <1>2 DEF Refcount, Tallies, OwnersAreLive, OwnersKnow
<1>3. ASSUME NEW p \in Peers, NEW a \in Args, Subscribe(p, a) PROVE Refcount'
  <2> PICK made : made = Request("subscribe", p, a) OBVIOUS
  <2>1. Desk(made, Asking, <<>>) /\ Enters(made, Asking, <<>>) BY <1>3, SubscribeEffect
  <2>2. registered' = registered BY <1>3 DEF Subscribe
  <2> QED BY <1>1, <1>2, <2>1, <2>2, EntersTallies, EntersJoiners
<1>4. ASSUME NEW p \in Peers, Unsubscribe(p) PROVE Refcount'
  <2> PICK made : made = Request("unsubscribe", p, None) OBVIOUS
  <2>1. /\ Desk(made, Asking, <<>>)
        /\ Declined(made, Asking) \/ Waiting(made, Asking) \/ Dropping(made, Asking)
    BY <1>4, UnsubscribeEffect
  <2>2. registered' = registered BY <1>4 DEF Unsubscribe
  <2>3. Tallies
    BY <1>1, <2>1, QuitsTallies, FinishesTallies DEF Declined, Waiting, Dropping, Finishes
  <2>4. JoinersAreLive'
    <3>1. CASE Declined(made, Asking) BY <1>1, <2>1, <2>2, <3>1, JoinersTurn DEF Declined, Quits
    <3>2. CASE Waiting(made, Asking) BY <1>1, <2>1, <2>2, <3>2, JoinersTurn DEF Waiting, Parks, Lines
    <3>3. CASE Dropping(made, Asking)
      BY <1>1, <2>1, <2>2, <3>3, FinishesJoiners DEF Dropping, Finishes
    <3> QED BY <2>1, <3>1, <3>2, <3>3
  <2> QED BY <1>2, <2>2, <2>3, <2>4
<1>5. ASSUME NEW peers \in SUBSET Peers, Release(peers) PROVE Refcount'
  <2>1. /\ Relieves(peers \cap owned) /\ registered' = registered \ peers
        /\ owned' = owned /\ calls' = calls
    BY <1>5, ReleaseSteps
  <2>2. Owners' = {} \/ Owners' = Owners \ (peers \cap owned) BY <2>1, RelievedOwners
  <2>3. OwnersAreLive' /\ OwnersKnow' BY <1>1, <2>1, <2>2 DEF OwnersAreLive, OwnersKnow
  <2>4. JoinersAreLive'
    <3>1. SUFFICES ASSUME NEW c \in DOMAIN calls, calls[c].pc = "join", calls[c].peer \in peers
          PROVE  FALSE
      BY <1>1, <2>1 DEF JoinersAreLive
    <3>2. c \in Unanswered(calls[c].peer) BY <3>1 DEF Unanswered, Waits
    <3> QED BY <1>5, <3>1, <3>2 DEF Release
  <2> QED BY <2>3, <2>4 DEF Refcount
<1>6. ASSUME NEW p \in Peers, ReleasePeer(p) PROVE Refcount'
  <2>1. {p} \in SUBSET Peers OBVIOUS
  <2> QED BY <1>5, <1>6, <2>1 DEF ReleasePeer
<1>7. CASE Dispose
  <2>1. registered \in SUBSET Peers BY DEF Base, Types
  <2> QED BY <1>5, <1>7, <2>1 DEF Dispose
<1>8. ASSUME NEW outcome \in Answers, Settle(outcome) PROVE Refcount'
  <2>1. /\ UNCHANGED <<registered, owned, current>>
        /\ \/ Answered(sent[1].call, outcome)
           \/ /\ sent[1].rec \in DOMAIN records /\ Settles(sent[1].rec, outcome) /\ calls' = calls
    BY <1>8, SettleEffects
  <2>2. Owners' = Owners BY <2>1, OwnersOfEffects DEF Answered
  <2>3. JoinersAreLive'
    <3>1. ASSUME NEW d \in DOMAIN calls' PROVE
            d \in DOMAIN calls /\ (calls'[d].pc = "join" => calls'[d] = calls[d])
      BY <2>1 DEF Answered, Turns, Answers
    <3> QED BY <1>1, <2>1, <3>1 DEF JoinersAreLive
  <2> QED BY <1>1, <2>1, <2>2, <2>3 DEF Refcount, OwnersAreLive, OwnersKnow
<1>9. CASE Reply BY <1>8, <1>9 DEF Reply, Answers
<1>10. CASE Reject BY <1>8, <1>10 DEF Reject, Answers
<1>11. CASE Disconnect
  BY <1>1, <1>11 DEF Disconnect, Refcount, OwnersAreLive, OwnersKnow, JoinersAreLive, Owners, Held
<1>12. CASE Job
  <2>1. PICK c, rest :
           /\ Desk(calls, c, rest) /\ c \in DOMAIN calls
           /\ registered' = registered
           /\ \/ /\ calls[c].pc \in Place /\ Awaited(c).outcome # "none"
                 /\ \/ Created(c, rest)
                    \/ Joined(c, rest)
                    \/ calls[c].pc = "drop" /\ Yields(c, rest)
              \/ calls[c].pc = "yield" /\ Finishes(calls, c, rest)
    BY <1>12, JobEffect
  <2>2. CASE Created(c, rest)
    <3>1. Tallies BY <1>1, <2>1, <2>2, RepliesTallies DEF Created
    <3>2. JoinersAreLive' BY <1>1, <2>1, <2>2, JoinersTurn DEF Created, Confirms, RollsBack
    <3> QED BY <1>2, <2>1, <3>1, <3>2
  <2>3. CASE Joined(c, rest)
    <3>1. calls[c].peer \in registered BY <1>1, <2>1, <2>3 DEF Joined, JoinersAreLive
    <3>2. Tallies BY <1>1, <2>3, <3>1, QuitsTallies, EntersTallies, ClaimsTallies DEF Joined
    <3>3. JoinersAreLive'
      BY <1>1, <2>1, <2>3, JoinersTurn, EntersJoiners DEF Joined, Quits, Claims
    <3> QED BY <1>2, <2>1, <3>2, <3>3
  <2>4. CASE Yields(c, rest)
    <3>1. Tallies BY <1>1, <2>4, QuitsTallies
    <3>2. JoinersAreLive' BY <1>1, <2>1, <2>4, JoinersTurn DEF Yields
    <3> QED BY <1>2, <2>1, <3>1, <3>2
  <2>5. CASE Finishes(calls, c, rest)
    BY <1>1, <1>2, <2>1, <2>5, FinishesTallies, FinishesJoiners
  <2> QED BY <2>1, <2>2, <2>3, <2>4, <2>5
<1>13. CASE UNCHANGED vars
  BY <1>1, <1>13 DEF vars, Refcount, OwnersAreLive, OwnersKnow, JoinersAreLive, Owners, Held
<1> QED BY <1>3, <1>4, <1>6, <1>7, <1>9, <1>10, <1>11, <1>12, <1>13 DEF Next

LEMMA RefcountHolds == "leaves" \notin Unruly => (Spec => [](Base /\ Refcount))
<1>1. ASSUME "leaves" \notin Unruly PROVE Spec => [](Base /\ Refcount)
  <2>1. Init => Base /\ Refcount
    <3>1. ASSUME Init PROVE JoinersAreLive
      <4>1. calls = <<>> BY <3>1 DEF Init
      <4> QED BY <4>1 DEF JoinersAreLive
    <3> QED BY <3>1, BaseInit DEF Init, Refcount, OwnersAreLive, OwnersKnow, Owners
  <2>2. Base /\ Refcount /\ [Next]_vars => (Base /\ Refcount)' BY <1>1, BaseNext, RefcountNext
  <2> QED BY <2>1, <2>2, PTL DEF Spec
<1> QED BY <1>1

(* When no peer leaves in the middle of its calls, only peers that are     *)
(* registered count as owners, so the last to leave takes the subscription *)
(* down (subscription-ledger.ts, refcounts of `subscriptions').            *)
THEOREM RefcountsLive == "leaves" \notin Unruly => (Spec => []OwnersAreLive)
<1>1. Refcount => OwnersAreLive BY DEF Refcount
<1> QED BY <1>1, RefcountHolds, PTL

-----------------------------------------------------------------------------
(* One turn of a call, whichever action takes it                           *)

Inv == Base /\ Refcount /\ Orderly

New(c) == c \notin DOMAIN calls
Was(c, pc) == c \in DOMAIN calls /\ calls[c].pc = pc

Stays(made, c, rest) ==
  /\ New(c) \/ Was(c, "join") \/ Was(c, "yield")
  /\ \E pc : Quits(made, c, rest, pc) /\ (pc = "ok" => made[c].op = "unsubscribe")
Joins(made, c, rest) ==
  /\ New(c) \/ (Stale(c) /\ c \in DOMAIN calls)
  /\ made[c].op = "subscribe" /\ made[c].peer \in registered /\ made[c].args = Held.args
  /\ Parks(made, c, rest, "join") \/ Lines(made, c, rest, "join")
Lingers(made, c, rest) ==
  /\ New(c) /\ made[c].op = "unsubscribe" /\ made[c].peer \in registered \cap owned
  /\ Parks(made, c, rest, "drop") \/ Lines(made, c, rest, "drop")
Shares(made, c, rest) ==
  /\ New(c) \/ Was(c, "join")
  /\ made[c].op = "subscribe" /\ made[c].peer \in registered /\ made[c].args = Held.args
  /\ ~Held.inflight /\ Claims(made, c, rest)
Founds(made, c, rest) ==
  /\ New(c) \/ (Stale(c) /\ c \in DOMAIN calls)
  /\ made[c].op = "subscribe" /\ made[c].peer \in registered /\ made[c].args \in Args
  /\ Creates(made, c, rest)
Parts(made, c, rest) ==
  /\ made[c].op = "unsubscribe"
  /\ Was(c, "yield") \/ (New(c) /\ ~(current # 0 /\ Held.inflight))
  /\ Unowns(made, c, rest)

Moves(made, c, rest) ==
  /\ Desk(made, c, rest) /\ (live \/ sent = <<>>) /\ UNCHANGED <<registered, bound, live>>
  /\ draining' = ~New(c)
  /\ New(c) => /\ last' = [last EXCEPT ![made[c].peer] = c]
               /\ made[c].op = "subscribe" =>
                    \A d \in Unanswered(made[c].peer) : calls[d].op = "subscribe"
  /\ ~New(c) => last' = last
  /\ \/ Stays(made, c, rest) \/ Joins(made, c, rest) \/ Lingers(made, c, rest)
     \/ Shares(made, c, rest) \/ Founds(made, c, rest) \/ Parts(made, c, rest)
     \/ /\ made = calls
        /\ \/ Was(c, "create") /\ (Confirms(c, rest) \/ RollsBack(c, rest))
           \/ Was(c, "drop") /\ Awaited(c).outcome # "none" /\ Yields(c, rest)

(* A call at the head of the queue that joins the record in `subscriptions' *)
(* finds that its creator ran.                                             *)
LEMMA JoinerIsBehind ==
  ASSUME Inv, NEW c, NEW rest, Desk(calls, c, rest), Was(c, "join"),
         calls[c].rec = current, Awaited(c).outcome # "none"
  PROVE  ~Held.inflight
<1>1. SUFFICES ASSUME Held.inflight PROVE FALSE OBVIOUS
<1>2. calls[c].rec # 0 BY DEF Inv, Base, CallsOK, Was, Place
<1>3. current \in DOMAIN records BY <1>2, HeldRecord DEF Inv
<1>4. PICK d \in DOMAIN calls : calls[d].pc = "create" /\ calls[d].rec = current
  BY <1>1, <1>3 DEF Inv, Orderly, Creators, Held
<1>5. In(jobs, d) BY <1>4 DEF Inv, Orderly, Placed, Place, Awaited
<1>6. d # c BY <1>4 DEF Was
<1>7. Ahead(jobs, c, d) BY <1>5, <1>6 DEF Desk
<1>8. calls[c].rec < calls[d].rec
  BY <1>4, <1>7 DEF Inv, Orderly, JobsOrder, Was, Place
<1>9. current \in Nat BY <1>3, HeldRecord DEF Inv
<1> QED BY <1>4, <1>8, <1>9

LEMMA SubscribeMoves ==
  ASSUME Inv, Unruly = {}, NEW p \in Peers, NEW a \in Args, Subscribe(p, a)
  PROVE  Moves(Request("subscribe", p, a), Asking, <<>>)
<1> PICK made : made = Request("subscribe", p, a) OBVIOUS
<1>1. /\ Desk(made, Asking, <<>>) /\ New(Asking)
      /\ made[Asking] = [op |-> "subscribe", pc |-> "error", peer |-> p, args |-> a, rec |-> 0]
      /\ Enters(made, Asking, <<>>)
  BY SubscribeEffect DEF Inv, New
<1>2. /\ live \/ sent = <<>>
      /\ UNCHANGED <<registered, bound, live>> /\ draining' = FALSE
      /\ last' = [last EXCEPT ![p] = Asking]
      /\ \A d \in Unanswered(p) : calls[d].op = "subscribe"
  BY DEF Subscribe, Idle
<1>3. made[Asking].op = "subscribe" /\ made[Asking].peer = p /\ made[Asking].args = a BY <1>1
<1>4. CASE Quits(made, Asking, <<>>, "error")
  <2>1. Stays(made, Asking, <<>>) BY <1>1, <1>4 DEF Stays
  <2> QED BY <1>1, <1>2, <1>3, <2>1 DEF Moves
<1>5. CASE /\ p \in registered
           /\ Parks(made, Asking, <<>>, "join") \/ Lines(made, Asking, <<>>, "join")
           /\ Held.args = made[Asking].args
  <2>1. Joins(made, Asking, <<>>) BY <1>1, <1>3, <1>5 DEF Joins
  <2> QED BY <1>1, <1>2, <1>3, <2>1 DEF Moves
<1>6. CASE /\ p \in registered /\ Claims(made, Asking, <<>>)
           /\ ~Held.inflight /\ Held.args = made[Asking].args
  <2>1. Shares(made, Asking, <<>>) BY <1>1, <1>3, <1>6 DEF Shares
  <2> QED BY <1>1, <1>2, <1>3, <2>1 DEF Moves
<1>7. CASE p \in registered /\ Creates(made, Asking, <<>>)
  <2>1. Founds(made, Asking, <<>>) BY <1>1, <1>3, <1>7 DEF Founds
  <2> QED BY <1>1, <1>2, <1>3, <2>1 DEF Moves
<1> QED BY <1>1, <1>3, <1>4, <1>5, <1>6, <1>7 DEF Enters

LEMMA UnsubscribeMoves ==
  ASSUME Inv, NEW p \in Peers, Unsubscribe(p)
  PROVE  Moves(Request("unsubscribe", p, None), Asking, <<>>)
<1> PICK made : made = Request("unsubscribe", p, None) OBVIOUS
<1>1. /\ Desk(made, Asking, <<>>) /\ New(Asking)
      /\ made[Asking] = [op |-> "unsubscribe", pc |-> "error", peer |-> p, args |-> None, rec |-> 0]
      /\ Declined(made, Asking) \/ Waiting(made, Asking) \/ Dropping(made, Asking)
  BY UnsubscribeEffect DEF Inv, New
<1>2. /\ live \/ sent = <<>>
      /\ UNCHANGED <<registered, bound, live>> /\ draining' = FALSE
      /\ last' = [last EXCEPT ![p] = Asking]
  BY DEF Unsubscribe, Idle
<1>3. made[Asking].op = "unsubscribe" /\ made[Asking].peer = p BY <1>1
<1>4. CASE Declined(made, Asking)
  <2>1. Stays(made, Asking, <<>>) BY <1>1, <1>4 DEF Stays, Declined
  <2> QED BY <1>1, <1>2, <1>3, <2>1 DEF Moves
<1>5. CASE Waiting(made, Asking)
  <2>1. Lingers(made, Asking, <<>>) BY <1>1, <1>3, <1>5 DEF Lingers, Waiting
  <2> QED BY <1>1, <1>2, <1>3, <2>1 DEF Moves
<1>6. CASE Dropping(made, Asking)
  <2>1. Parts(made, Asking, <<>>) BY <1>1, <1>3, <1>6 DEF Parts, Dropping
  <2> QED BY <1>1, <1>2, <1>3, <2>1 DEF Moves
<1> QED BY <1>1, <1>4, <1>5, <1>6

LEMMA JobMoves ==
  ASSUME Inv, Job
  PROVE  \E c, rest : Moves(calls, c, rest) /\ c \in DOMAIN calls
<1>1. PICK c, rest :
           /\ Desk(calls, c, rest) /\ c \in DOMAIN calls /\ In(jobs, c) /\ Fits(calls, c)
           /\ (live \/ sent = <<>>) /\ draining' = TRUE /\ UNCHANGED <<registered, bound, live, last>>
           /\ \/ /\ calls[c].pc \in Place /\ Awaited(c).outcome # "none"
                 /\ \/ Created(c, rest)
                    \/ Joined(c, rest)
                    \/ calls[c].pc = "drop" /\ Yields(c, rest)
              \/ calls[c].pc = "yield" /\ Finishes(calls, c, rest)
  BY JobEffect DEF Inv
<1>2. /\ Desk(calls, c, rest) /\ (live \/ sent = <<>>) /\ UNCHANGED <<registered, bound, live>>
      /\ ~New(c) /\ draining' = ~New(c) /\ last' = last
  BY <1>1 DEF New
<1>3. CASE Created(c, rest) BY <1>1, <1>2, <1>3 DEF Created, Moves, Was
<1>4. CASE calls[c].pc = "drop" /\ Awaited(c).outcome # "none" /\ Yields(c, rest)
  BY <1>1, <1>2, <1>4 DEF Moves, Was
<1>5. CASE calls[c].pc = "yield" /\ Finishes(calls, c, rest)
  <2>1. calls[c].op = "unsubscribe" BY <1>1, <1>5 DEF Inv, Base, CallsOK
  <2>3. Was(c, "yield") BY <1>1, <1>5 DEF Was
  <2>4. ASSUME Quits(calls, c, rest, "ok") PROVE Stays(calls, c, rest) BY <2>1, <2>3, <2>4 DEF Stays
  <2>5. ASSUME Unowns(calls, c, rest) PROVE Parts(calls, c, rest) BY <2>1, <2>3, <2>5 DEF Parts
  <2>2. Stays(calls, c, rest) \/ Parts(calls, c, rest) BY <1>5, <2>4, <2>5 DEF Finishes
  <2> QED BY <1>1, <1>2, <2>2 DEF Moves
<1>6. CASE Joined(c, rest) /\ Awaited(c).outcome # "none"
  <2>1. /\ Was(c, "join") /\ calls[c].op = "subscribe" /\ calls[c].args \in Args
        /\ calls[c].args = Awaited(c).args
    BY <1>1, <1>6 DEF Inv, Base, CallsOK, Joined, Was
  <2>2. calls[c].peer \in registered
    BY <1>1, <1>6 DEF Inv, Refcount, JoinersAreLive, Joined
  <2>3. ASSUME Quits(calls, c, rest, "error") PROVE Stays(calls, c, rest)
    BY <2>1, <2>3 DEF Stays
  <2>4. ASSUME Stale(c), Enters(calls, c, rest)
        PROVE  \/ Stays(calls, c, rest) \/ Joins(calls, c, rest)
               \/ Shares(calls, c, rest) \/ Founds(calls, c, rest)
    BY <1>1, <2>1, <2>2, <2>3, <2>4 DEF Enters, Joins, Shares, Founds
  <2>5. ASSUME current = calls[c].rec, Claims(calls, c, rest) PROVE Shares(calls, c, rest)
    <3>1. ~Held.inflight BY <1>1, <1>6, <2>1, <2>5, JoinerIsBehind
    <3>2. calls[c].args = Held.args BY <2>1, <2>5 DEF Held, Awaited
    <3> QED BY <2>1, <2>2, <2>5, <3>1, <3>2 DEF Shares
  <2>6. \/ Stays(calls, c, rest) \/ Joins(calls, c, rest)
        \/ Shares(calls, c, rest) \/ Founds(calls, c, rest)
    BY <1>6, <2>3, <2>4, <2>5 DEF Joined
  <2> QED BY <1>1, <1>2, <2>6 DEF Moves
<1> QED BY <1>1, <1>3, <1>4, <1>5, <1>6

(* What every turn has in common.                                          *)
CallFacts(made, c) ==
  /\ calls' \in Seq(Call)
  /\ DOMAIN calls' = DOMAIN calls \cup {c} /\ c \in DOMAIN calls'
  /\ \A d \in DOMAIN calls : d # c => calls'[d] = calls[d]
  /\ calls'[c].op = made[c].op /\ calls'[c].peer = made[c].peer /\ calls'[c].args = made[c].args
  /\ ~New(c) => made[c] = calls[c]

RecordFacts(c) ==
  /\ DOMAIN records \subseteq DOMAIN records'
  /\ \A r \in DOMAIN records :
       /\ records'[r].args = records[r].args /\ records'[r].outcome = records[r].outcome
       /\ \A x : In(records[r].waiters, x) => In(records'[r].waiters, x)
       /\ records'[r].inflight <=> records[r].inflight /\ ~(Was(c, "create") /\ r = calls[c].rec)
       /\ r # current /\ ~(Was(c, "create") /\ r = calls[c].rec) =>
            records'[r].owners = records[r].owners

Seated(c, rest) ==
  /\ calls'[c].pc \in Place /\ records'[calls'[c].rec].outcome = "none" =>
       In(records'[calls'[c].rec].waiters, c) /\ jobs' = rest
  /\ calls'[c].pc \in Place /\ records'[calls'[c].rec].outcome # "none" => jobs' = Append(rest, c)
  /\ calls'[c].pc = "yield" => jobs' = Append(rest, c)
  /\ calls'[c].pc \in Answers \cup {"forward"} => jobs' = rest

LEMMA MovesCalls ==
  ASSUME Base, NEW made, NEW c, NEW rest, Moves(made, c, rest)
  PROVE  CallFacts(made, c)
<1>1. \E pc, rec : Turns(made, c, pc, rec)
  <2>1. CASE Stays(made, c, rest) BY <2>1 DEF Stays, Quits
  <2>2. CASE Joins(made, c, rest) BY <2>2 DEF Joins, Parks, Lines
  <2>3. CASE Lingers(made, c, rest) BY <2>3 DEF Lingers, Parks, Lines
  <2>4. CASE Shares(made, c, rest) BY <2>4 DEF Shares, Claims
  <2>5. CASE Founds(made, c, rest) BY <2>5 DEF Founds, Creates
  <2>6. CASE Parts(made, c, rest) BY <2>6 DEF Parts, Unowns
  <2>7. CASE made = calls /\ (Confirms(c, rest) \/ RollsBack(c, rest))
    BY <2>7 DEF Confirms, RollsBack
  <2>8. CASE made = calls /\ Yields(c, rest) BY <2>8 DEF Yields
  <2> QED BY <2>1, <2>2, <2>3, <2>4, <2>5, <2>6, <2>7, <2>8 DEF Moves
<1>2. PICK pc, rec : Turns(made, c, pc, rec) BY <1>1
<1> QED BY <1>2 DEF Moves, Desk, Turns, CallFacts, New

LEMMA ReownFacts ==
  ASSUME NEW c, ~Was(c, "create"), NEW o, Reowns(current, o, Held.inflight)
  PROVE  RecordFacts(c)
BY DEF Reowns, RecordFacts, Held

LEMMA MovesRecords ==
  ASSUME Base, NEW made, NEW c, NEW rest, Moves(made, c, rest)
  PROVE  RecordFacts(c)
<1>1. ASSUME ~Was(c, "create"), records' = records PROVE RecordFacts(c) BY <1>1 DEF RecordFacts
<1>2. ASSUME ~Was(c, "create"), NEW pc, Parks(made, c, rest, pc) PROVE RecordFacts(c)
  <2>1. Queues(current, c) /\ current \in DOMAIN records /\ c \in 1..MaxCalls
    BY <1>2, HeldRecord DEF Parks, Moves, Desk
  <2>2. PICK w : w = records[current].waiters OBVIOUS
  <2>3. w \in Seq(1..MaxCalls) BY <2>1, <2>2, RecordFields DEF Base, Types
  <2>4. \A x : In(w, x) => In(Append(w, c), x) BY <2>1, <2>3, AppendOrder
  <2> QED BY <1>2, <2>1, <2>2, <2>4 DEF Queues, RecordFacts
<1>3. ASSUME Was(c, "create"), NEW o, Reowns(calls[c].rec, o, FALSE) PROVE RecordFacts(c)
  BY <1>3 DEF Reowns, RecordFacts
<1>4. CASE Stays(made, c, rest) BY <1>1, <1>4 DEF Stays, Quits, Was, New
<1>5. CASE Joins(made, c, rest) BY <1>1, <1>2, <1>5 DEF Joins, Lines, Was, New, Stale
<1>6. CASE Lingers(made, c, rest) BY <1>1, <1>2, <1>6 DEF Lingers, Lines, Was, New
<1>7. CASE Shares(made, c, rest)
  BY <1>1, <1>7, ReownFacts DEF Shares, Claims, Was, New
<1>8. CASE Founds(made, c, rest)
  <2>1. ~Was(c, "create") BY <1>8 DEF Founds, Was, New, Stale
  <2>2. Opens(Opened(made, c)) BY <1>8 DEF Founds, Creates
  <2>3. DOMAIN records \subseteq DOMAIN records' BY <2>2, HeldRecord DEF Opens
  <2> QED BY <2>1, <2>2, <2>3 DEF Opens, RecordFacts
<1>9. CASE Parts(made, c, rest)
  <2>1. ~Was(c, "create") BY <1>9 DEF Parts, Was, New
  <2>2. records' = records \/ Reowns(current, Held.owners \ {made[c].peer}, Held.inflight)
    BY <1>9 DEF Parts, Unowns, Relieves
  <2> QED BY <1>1, <2>1, <2>2, ReownFacts
<1>10. CASE Was(c, "create") /\ (Confirms(c, rest) \/ RollsBack(c, rest))
  BY <1>3, <1>10 DEF Confirms, RollsBack
<1>11. CASE Was(c, "drop") /\ Yields(c, rest) BY <1>1, <1>11 DEF Was, Yields
<1> QED BY <1>4, <1>5, <1>6, <1>7, <1>8, <1>9, <1>10, <1>11 DEF Moves

LEMMA MovesSeats ==
  ASSUME Base, NEW made, NEW c, NEW rest, Moves(made, c, rest)
  PROVE  Seated(c, rest)
<1>1. ASSUME NEW pc \in Answers \cup {"forward"}, NEW rec, Turns(made, c, pc, rec), jobs' = rest
      PROVE  Seated(c, rest)
  BY <1>1 DEF Turns, Seated, Place, Answers
<1>2. ASSUME NEW pc, Parks(made, c, rest, pc) PROVE Seated(c, rest)
  <2>1. Queues(current, c) /\ current \in DOMAIN records /\ c \in 1..MaxCalls /\ jobs' = rest
        /\ calls'[c].pc = pc /\ calls'[c].rec = current /\ pc \in {"join", "drop"}
        /\ Held.outcome = "none"
    BY <1>2, HeldRecord DEF Parks, Moves, Desk, Turns
  <2>2. PICK w : w = records[current].waiters OBVIOUS
  <2>3. w \in Seq(1..MaxCalls) BY <2>1, <2>2, RecordFields DEF Base, Types
  <2>4. In(Append(w, c), c) BY <2>1, <2>3, AppendOrder
  <2>5. records'[current].waiters = Append(w, c) /\ records'[current].outcome = "none"
    BY <2>1, <2>2 DEF Queues, Held
  <2> QED BY <2>1, <2>4, <2>5 DEF Seated, Place, Answers
<1>3. ASSUME NEW pc, Lines(made, c, rest, pc) PROVE Seated(c, rest)
  BY <1>3 DEF Lines, Turns, Seated, Place, Answers, Held
<1>4. CASE Stays(made, c, rest) BY <1>1, <1>4 DEF Stays, Quits
<1>5. CASE Joins(made, c, rest) BY <1>2, <1>3, <1>5 DEF Joins
<1>6. CASE Lingers(made, c, rest) BY <1>2, <1>3, <1>6 DEF Lingers
<1>7. CASE Shares(made, c, rest) BY <1>1, <1>7 DEF Shares, Claims, Answers
<1>8. CASE Founds(made, c, rest)
  <2>1. PICK r : r = Len(records) + 1 OBVIOUS
  <2>2. /\ calls'[c].pc = "create" /\ calls'[c].rec = r
        /\ records'[r] = Opened(made, c)
        /\ IF live THEN jobs' = rest ELSE jobs' = Append(rest, c)
    BY <1>8, <2>1 DEF Founds, Creates, Turns, Opens
  <2>3. live => records'[r].outcome = "none" /\ records'[r].waiters = <<c>> BY <2>2 DEF Opened
  <2>4. ~live => records'[r].outcome = "error" BY <2>2 DEF Opened
  <2>5. In(<<c>>, c) BY OneOrder
  <2> QED BY <2>2, <2>3, <2>4, <2>5 DEF Seated, Place, Answers
<1>9. CASE Parts(made, c, rest)
  <2>1. PICK pc : /\ pc \in Answers \cup {"forward"}
                  /\ Turns(made, c, pc, made[c].rec) /\ jobs' = rest
    BY <1>9 DEF Parts, Unowns, Answers
  <2> QED BY <1>1, <2>1
<1>10. CASE made = calls /\ (Confirms(c, rest) \/ RollsBack(c, rest))
  BY <1>1, <1>10 DEF Confirms, RollsBack, Answers
<1>11. CASE made = calls /\ Yields(c, rest) BY <1>11 DEF Yields, Turns, Seated, Place, Answers
<1> QED BY <1>4, <1>5, <1>6, <1>7, <1>8, <1>9, <1>10, <1>11 DEF Moves

(* Only a founder becomes a creator, and only its record is new.           *)
LEMMA MovesFounder ==
  ASSUME Base, NEW made, NEW c, NEW rest, Moves(made, c, rest)
  PROVE  /\ calls'[c].pc = "create" => Founds(made, c, rest)
         /\ \A r \in DOMAIN records' \ DOMAIN records : Founds(made, c, rest)
         /\ Founds(made, c, rest) =>
              /\ DOMAIN records' = DOMAIN records \cup {Len(records) + 1}
              /\ Len(records) + 1 \notin DOMAIN records
              /\ records'[Len(records) + 1] = Opened(made, c)
              /\ calls'[c].pc = "create" /\ calls'[c].rec = Len(records) + 1
              /\ current = 0 /\ current' = Len(records) + 1
<1>1. Founds(made, c, rest) =>
              /\ DOMAIN records' = DOMAIN records \cup {Len(records) + 1}
              /\ Len(records) + 1 \notin DOMAIN records
              /\ records'[Len(records) + 1] = Opened(made, c)
              /\ calls'[c].pc = "create" /\ calls'[c].rec = Len(records) + 1
              /\ current = 0 /\ current' = Len(records) + 1
  BY HeldRecord DEF Founds, Creates, Opens, Turns
<1>2. \/ Founds(made, c, rest)
      \/ calls'[c].pc # "create" /\ DOMAIN records' = DOMAIN records
  <2>1. CASE Stays(made, c, rest) BY <2>1 DEF Stays, Quits, Turns, Answers
  <2>2. CASE Joins(made, c, rest) BY <2>2 DEF Joins, Parks, Lines, Turns, Queues
  <2>3. CASE Lingers(made, c, rest) BY <2>3 DEF Lingers, Parks, Lines, Turns, Queues
  <2>4. CASE Shares(made, c, rest) BY <2>4 DEF Shares, Claims, Turns, Reowns
  <2>5. CASE Parts(made, c, rest)
    <3>1. calls'[c].pc \in {"ok", "forward", "error"} BY <2>5 DEF Parts, Unowns, Turns
    <3>2. DOMAIN records' = DOMAIN records BY <2>5 DEF Parts, Unowns, Relieves, Reowns
    <3> QED BY <3>1, <3>2
  <2>6. CASE Confirms(c, rest) BY <2>6 DEF Confirms, Turns, Reowns
  <2>7. CASE RollsBack(c, rest) BY <2>7 DEF RollsBack, Turns, Reowns
  <2>8. CASE Yields(c, rest) BY <2>8 DEF Yields, Turns
  <2> QED BY <2>1, <2>2, <2>3, <2>4, <2>5, <2>6, <2>7, <2>8 DEF Moves
<1> QED BY <1>1, <1>2

(* The queue after the turn.                                               *)
LEMMA MovesJobs ==
  ASSUME Base, NEW made, NEW c, NEW rest, Moves(made, c, rest)
  PROVE  /\ \A d : d # c => (In(jobs', d) <=> In(jobs, d))
         /\ \A d, e : Ahead(jobs', d, e) =>
              \/ /\ d # c /\ e # c /\ Ahead(jobs, d, e)
              \/ /\ d # c /\ e = c /\ In(jobs, d) /\ In(jobs', c)
         /\ In(jobs', c) => calls'[c].pc = "yield" \/ (calls'[c].pc \in Place /\
                                                       records'[calls'[c].rec].outcome # "none")
         /\ calls'[c].pc = "yield" \/ (calls'[c].pc \in Place /\
                              records'[calls'[c].rec].outcome # "none") => In(jobs', c)
<1>1. /\ rest \in Seq(1..MaxCalls) /\ c \in 1..MaxCalls /\ Distinct(rest)
      /\ \A d : In(rest, d) <=> In(jobs, d) /\ d # c
      /\ \A d, e : Ahead(rest, d, e) => Ahead(jobs, d, e)
  BY DEF Moves, Desk
<1>2. \A d, e : Ahead(rest, d, e) => In(rest, d) /\ In(rest, e) BY AheadIn
<1>3. Seated(c, rest) /\ calls'[c].pc \in Waits \cup Answers
  <2>1. calls' \in Seq(Call) BY MovesCalls DEF CallFacts
  <2>2. c \in DOMAIN calls' BY MovesCalls DEF CallFacts
  <2>3. calls'[c] \in Call BY <2>1, <2>2, ElementOfSeq
  <2> QED BY <2>3, MovesSeats DEF Call
<1>4. CASE jobs' = rest /\ ~In(rest, c)
  <2>1. ~(calls'[c].pc = "yield" \/ (calls'[c].pc \in Place /\
                              records'[calls'[c].rec].outcome # "none"))
    <3>1. In(Append(rest, c), c) BY <1>1, AppendOrder
    <3>2. jobs' # Append(rest, c) BY <1>4, <3>1
    <3> QED BY <1>3, <3>2 DEF Seated
  <2> QED BY <1>1, <1>2, <1>4, <2>1
<1>5. CASE jobs' = Append(rest, c)
           /\ (calls'[c].pc = "yield" \/ (calls'[c].pc \in Place /\
                              records'[calls'[c].rec].outcome # "none"))
  <2>1. PICK j : j = Append(rest, c) OBVIOUS
  <2>2. /\ \A x : In(j, x) <=> In(rest, x) \/ x = c
        /\ \A x, y : Ahead(j, x, y) => Ahead(rest, x, y) \/ (In(rest, x) /\ y = c)
    <3>1. rest \in Seq(1..MaxCalls) /\ c \in 1..MaxCalls BY <1>1
    <3> QED BY ONLY <2>1, <3>1, AppendOrder
  <2> QED BY <1>1, <1>2, <1>5, <2>1, <2>2
<1> QED BY <1>1, <1>3, <1>4, <1>5 DEF Seated, Waits, Place, Answers

-----------------------------------------------------------------------------
(* Consequences of the invariant                                           *)

LEMMA Parts1 ==
  ASSUME Inv
  PROVE  /\ Base /\ Placed /\ Creators /\ Fifo /\ JobsOrder /\ Fresh /\ Kept /\ Superseded
         /\ OwnedOrOrphan /\ DeadSettle /\ DropsHeld /\ DropsOwn /\ Binding /\ LatestHolds
         /\ OwnersAreLive /\ OwnersKnow /\ JoinersAreLive
BY DEF Inv, Orderly, Refcount

LEMMA AwaitedRecord ==
  ASSUME Base, NEW c \in DOMAIN calls, calls[c].pc \in Place
  PROVE  /\ calls[c].rec \in DOMAIN records /\ calls[c].rec # 0 /\ calls[c].rec \in Nat
         /\ calls[c].rec <= Len(records) /\ Len(records) \in Nat
         /\ Awaited(c).outcome \in {"none", "ok", "error"}
<1>1. calls[c].rec \in 0..Len(records) /\ calls[c].rec # 0 BY DEF Base, CallsOK
<1>2. calls[c].rec \in DOMAIN records BY <1>1, HeldRecord
<1>3. Awaited(c).outcome \in {"none"} \cup Answers BY <1>2, RecordFields, HeldRecord DEF Awaited
<1> QED BY <1>1, <1>2, <1>3, HeldRecord DEF Answers

LEMMA AllSettled ==
  ASSUME Inv, sent = <<>>, NEW r \in DOMAIN records
  PROVE  records[r].outcome # "none"
BY Parts1 DEF Fifo

LEMMA AtRest ==
  ASSUME Inv, jobs = <<>>, NEW c \in DOMAIN calls
  PROVE  /\ calls[c].pc # "yield"
         /\ calls[c].pc \in Place => Awaited(c).outcome = "none" /\ Awaited(c).inflight
<1>1. ~In(jobs, c) BY NothingIn
<1>2. calls[c].pc # "yield" /\ (calls[c].pc \in Place => Awaited(c).outcome = "none")
  BY <1>1, Parts1 DEF Placed
<1>3. calls[c].pc \in Place => calls[c].rec \in DOMAIN records BY Parts1, AwaitedRecord
<1> QED BY <1>2, <1>3, Parts1 DEF Creators, Awaited

(* A dead connection leaves nothing pending but errors.                    *)
LEMMA DeadIsError ==
  ASSUME Inv, ~live, sent = <<>>, NEW c \in DOMAIN calls, calls[c].pc \in Place
  PROVE  Awaited(c).outcome = "error"
<1>1. Awaited(c).outcome # "none" BY Parts1, AwaitedRecord, AllSettled DEF Awaited
<1>2. Awaited(c).outcome # "ok" BY Parts1 DEF DeadSettle
<1> QED BY <1>1, <1>2, Parts1, AwaitedRecord

(* Whatever waited on an earlier record than a settled one is in the queue. *)
LEMMA EarlierIsSettled ==
  ASSUME Inv, NEW c \in DOMAIN calls, calls[c].pc \in Place,
         NEW r \in DOMAIN records, records[r].outcome # "none", calls[c].rec <= r
  PROVE  Awaited(c).outcome # "none" /\ In(jobs, c)
<1>1. calls[c].rec \in DOMAIN records /\ calls[c].rec \in Nat BY Parts1, AwaitedRecord
<1>2. r \in Nat BY HeldRecord DEF Inv
<1>3. Awaited(c).outcome # "none"
  <2>1. CASE calls[c].rec = r BY <2>1 DEF Awaited
  <2>2. CASE calls[c].rec # r
    <3>1. calls[c].rec < r BY <1>1, <1>2, <2>2
    <3> QED BY <1>1, <3>1, Parts1 DEF Fifo, Awaited
  <2> QED BY <2>1, <2>2
<1> QED BY <1>3, Parts1 DEF Placed

LEMMA HeadIsAhead ==
  ASSUME NEW made, NEW c, NEW rest, Desk(made, c, rest), NEW d, In(jobs, d), d # c
  PROVE  Ahead(jobs, c, d)
BY DEF Desk

(* At its turn, a creator is the first of those whose record is in flight.  *)
LEMMA CreatorIsFirst ==
  ASSUME Inv, NEW made, NEW c, NEW rest, Desk(made, c, rest), Was(c, "create"),
         Awaited(c).outcome # "none", NEW r \in DOMAIN records, r < calls[c].rec
  PROVE  ~records[r].inflight
<1>1. SUFFICES ASSUME records[r].inflight PROVE FALSE OBVIOUS
<1>2. PICK d \in DOMAIN calls : calls[d].pc = "create" /\ calls[d].rec = r
  BY <1>1, Parts1 DEF Creators
<1>3. c \in DOMAIN calls /\ calls[c].pc \in Place /\ calls[d].pc \in Place BY <1>2 DEF Was, Place
<1>4. calls[c].rec \in DOMAIN records /\ calls[c].rec \in Nat /\ r \in Nat
  BY <1>3, Parts1, AwaitedRecord, HeldRecord
<1>5. calls[d].rec <= calls[c].rec /\ d # c BY <1>2, <1>4
<1>6. In(jobs, d) BY <1>3, <1>4, <1>5, EarlierIsSettled DEF Awaited
<1>7. Ahead(jobs, c, d) BY <1>5, <1>6, HeadIsAhead
<1>8. calls[c].rec < calls[d].rec BY <1>2, <1>3, <1>7, Parts1 DEF JobsOrder
<1> QED BY <1>2, <1>4, <1>8

-----------------------------------------------------------------------------
(* Every turn keeps the invariant, part by part                            *)

LEMMA PlacedMoves ==
  ASSUME Inv, NEW made, NEW c, NEW rest, Moves(made, c, rest)
  PROVE  Placed'
<1>1. SUFFICES ASSUME NEW d \in DOMAIN calls'
      PROVE  /\ calls'[d].pc \in Place =>
                  IF records'[calls'[d].rec].outcome = "none"
                  THEN In(records'[calls'[d].rec].waiters, d) ELSE In(jobs', d)
             /\ calls'[d].pc = "yield" => In(jobs', d)
  BY DEF Placed, Awaited
<1>2. CallFacts(made, c) /\ RecordFacts(c) /\ Seated(c, rest)
  BY Parts1, MovesCalls, MovesRecords, MovesSeats
<1>3. /\ \A x : x # c => (In(jobs', x) <=> In(jobs, x))
      /\ calls'[c].pc = "yield" \/ (calls'[c].pc \in Place /\
                              records'[calls'[c].rec].outcome # "none") => In(jobs', c)
  BY Parts1, MovesJobs
<1>4. CASE d = c BY <1>2, <1>3, <1>4 DEF Seated
<1>5. CASE d # c
  <2>1. d \in DOMAIN calls /\ calls'[d] = calls[d] BY <1>1, <1>2, <1>5 DEF CallFacts
  <2>2. CASE calls[d].pc \in Place
    <3>1. calls[d].rec \in DOMAIN records BY <2>1, <2>2, Parts1, AwaitedRecord
    <3>2. IF Awaited(d).outcome = "none" THEN In(Awaited(d).waiters, d) ELSE In(jobs, d)
      BY <2>1, <2>2, Parts1 DEF Placed
    <3> QED BY <1>2, <1>3, <1>5, <2>1, <2>2, <3>1, <3>2 DEF RecordFacts, Awaited, Place
  <2>3. CASE calls[d].pc = "yield" BY <1>3, <1>5, <2>1, <2>3, Parts1 DEF Placed, Place
  <2> QED BY <2>1, <2>2, <2>3
<1> QED BY <1>4, <1>5

LEMMA CreatorsMoves ==
  ASSUME Inv, NEW made, NEW c, NEW rest, Moves(made, c, rest)
  PROVE  Creators'
<1>1. CallFacts(made, c) /\ RecordFacts(c) BY Parts1, MovesCalls, MovesRecords
<1>2. /\ calls'[c].pc = "create" => Founds(made, c, rest)
      /\ \A r \in DOMAIN records' \ DOMAIN records : Founds(made, c, rest)
      /\ Founds(made, c, rest) =>
              /\ DOMAIN records' = DOMAIN records \cup {Len(records) + 1}
              /\ Len(records) + 1 \notin DOMAIN records
              /\ records'[Len(records) + 1] = Opened(made, c)
              /\ calls'[c].pc = "create" /\ calls'[c].rec = Len(records) + 1
              /\ ~Was(c, "create")
  <2>1. Founds(made, c, rest) => ~Was(c, "create") BY DEF Founds, New, Was, Stale
  <2> QED BY <2>1, Parts1, MovesFounder
<1>3. Opened(made, c).inflight BY DEF Opened
<1>4. \A d \in DOMAIN calls : calls[d].pc = "create" => calls[d].rec \in DOMAIN records
  BY Parts1, AwaitedRecord DEF Place
<1>5. \A d \in DOMAIN calls' : d # c => d \in DOMAIN calls /\ calls'[d] = calls[d]
  BY <1>1 DEF CallFacts
<1>6. /\ \A d \in DOMAIN calls : calls[d].pc = "create" => records[calls[d].rec].inflight
      /\ \A r \in DOMAIN records : records[r].inflight =>
           \E d \in DOMAIN calls : calls[d].pc = "create" /\ calls[d].rec = r
      /\ \A x, y \in DOMAIN calls :
           calls[x].pc = "create" /\ calls[y].pc = "create" /\ calls[x].rec = calls[y].rec => x = y
      /\ \A r \in DOMAIN records : records[r].outcome = "none" => records[r].inflight
  BY Parts1 DEF Creators, Awaited
<1>7. ASSUME NEW d \in DOMAIN calls', calls'[d].pc = "create"
      PROVE  records'[calls'[d].rec].inflight
  <2>1. CASE d = c BY <1>2, <1>3, <1>7, <2>1
  <2>2. CASE d # c
    <3>1. d \in DOMAIN calls /\ calls'[d] = calls[d] /\ calls[d].pc = "create"
      BY <1>5, <1>7, <2>2
    <3>2. ~(Was(c, "create") /\ calls[d].rec = calls[c].rec) BY <1>6, <2>2, <3>1 DEF Was
    <3> QED BY <1>1, <1>4, <1>6, <3>1, <3>2 DEF RecordFacts
  <2> QED BY <2>1, <2>2
<1>8. ASSUME NEW r \in DOMAIN records', records'[r].inflight
      PROVE  \E d \in DOMAIN calls' : calls'[d].pc = "create" /\ calls'[d].rec = r
  <2>1. CASE r \in DOMAIN records
    <3>1. records[r].inflight /\ ~(Was(c, "create") /\ r = calls[c].rec)
      BY <1>1, <1>8, <2>1 DEF RecordFacts
    <3>2. PICK d \in DOMAIN calls : calls[d].pc = "create" /\ calls[d].rec = r
      BY <1>6, <2>1, <3>1
    <3>3. d # c BY <3>1, <3>2 DEF Was
    <3> QED BY <1>1, <3>2, <3>3 DEF CallFacts
  <2>2. CASE r \notin DOMAIN records
    <3>1. r = Len(records) + 1 /\ calls'[c].pc = "create" /\ calls'[c].rec = r
      BY <1>2, <1>8, <2>2
    <3> QED BY <1>1, <3>1 DEF CallFacts
  <2> QED BY <2>1, <2>2
<1>9. ASSUME NEW x \in DOMAIN calls', NEW y \in DOMAIN calls',
             calls'[x].pc = "create", calls'[y].pc = "create", calls'[x].rec = calls'[y].rec
      PROVE  x = y
  <2>1. CASE x # c /\ y # c BY <1>5, <1>6, <1>9, <2>1
  <2>2. ASSUME NEW z \in DOMAIN calls', z # c, calls'[z].pc = "create", calls'[c].pc = "create",
               calls'[z].rec = calls'[c].rec
        PROVE  FALSE
    BY <1>2, <1>4, <1>5, <2>2
  <2> QED BY <1>9, <2>1, <2>2
<1>10. ASSUME NEW r \in DOMAIN records', records'[r].outcome = "none"
       PROVE  records'[r].inflight
  <2>1. CASE r \in DOMAIN records
    <3>1. records[r].outcome = "none" /\ records[r].inflight BY <1>1, <1>6, <1>10, <2>1 DEF RecordFacts
    <3>2. ~(Was(c, "create") /\ r = calls[c].rec)
      <4>1. ASSUME Was(c, "create"), r = calls[c].rec PROVE FALSE
        <5>1. Confirms(c, rest) \/ RollsBack(c, rest)
          BY <4>1 DEF Moves, Stays, Joins, Lingers, Shares, Founds, Parts, Was, New, Stale
        <5> QED BY <3>1, <4>1, <5>1 DEF Confirms, RollsBack, Awaited
      <4> QED BY <4>1
    <3> QED BY <1>1, <2>1, <3>1, <3>2 DEF RecordFacts
  <2>2. CASE r \notin DOMAIN records BY <1>2, <1>3, <1>10, <2>2
  <2> QED BY <2>1, <2>2
<1> QED BY <1>7, <1>8, <1>9, <1>10 DEF Creators, Awaited

LEMMA CreatorsTurn ==
  ASSUME Inv, NEW made, NEW c, NEW rest, Moves(made, c, rest), Was(c, "create")
  PROVE  /\ made = calls /\ Desk(calls, c, rest) /\ (Confirms(c, rest) \/ RollsBack(c, rest))
         /\ Awaited(c).outcome # "none"
BY DEF Moves, Stays, Joins, Lingers, Shares, Founds, Parts, Was, New, Stale, Confirms, RollsBack

(* What a turn tells tmux.                                                 *)
Told(made, c, rest) ==
  \/ sent' = sent
  \/ live /\ Founds(made, c, rest) /\ sent' = Append(sent, [rec |-> Len(records) + 1, call |-> c])
  \/ /\ live /\ Parts(made, c, rest) /\ LastOwnersOf({made[c].peer})
     /\ sent' = Append(sent, [rec |-> 0, call |-> c])

LEMMA MovesSent ==
  ASSUME Base, NEW made, NEW c, NEW rest, Moves(made, c, rest)
  PROVE  Told(made, c, rest)
<1>1. CASE Stays(made, c, rest) BY <1>1 DEF Told, Stays, Quits
<1>2. CASE Joins(made, c, rest) BY <1>2 DEF Told, Joins, Parks, Lines
<1>3. CASE Lingers(made, c, rest) BY <1>3 DEF Told, Lingers, Parks, Lines
<1>4. CASE Shares(made, c, rest) BY <1>4 DEF Told, Shares, Claims
<1>5. CASE Founds(made, c, rest)
  <2>1. IF live THEN sent' = Append(sent, [rec |-> Len(records) + 1, call |-> c]) ELSE sent' = sent
    BY <1>5 DEF Founds, Creates
  <2> QED BY <1>5, <2>1 DEF Told
<1>6. CASE Parts(made, c, rest)
  <2>1. sent' = IF LastOwnersOf({made[c].peer}) /\ live THEN Append(sent, [rec |-> 0, call |-> c])
                ELSE sent
    BY <1>6 DEF Parts, Unowns
  <2> QED BY <1>6, <2>1 DEF Told
<1>7. CASE Confirms(c, rest) \/ RollsBack(c, rest) BY <1>7 DEF Told, Confirms, RollsBack
<1>8. CASE Yields(c, rest) BY <1>8 DEF Told, Yields
<1> QED BY <1>1, <1>2, <1>3, <1>4, <1>5, <1>6, <1>7, <1>8 DEF Moves

LEMMA SentGrows ==
  ASSUME Base, NEW m \in Command, sent' = Append(sent, m)
  PROVE  /\ DOMAIN sent' = 1..(Len(sent) + 1) /\ DOMAIN sent = 1..Len(sent) /\ Len(sent) \in Nat
         /\ Len(sent') = Len(sent) + 1 /\ sent' # <<>>
         /\ \A i \in DOMAIN sent : i \in DOMAIN sent' /\ sent'[i] = sent[i]
         /\ sent'[Len(sent) + 1] = m /\ Len(sent) + 1 \in DOMAIN sent'
<1>1. sent \in Seq(Command) BY DEF Base, Types
<1>2. /\ sent' \in Seq(Command) /\ Len(sent') = Len(sent) + 1 /\ Len(sent) \in Nat
      /\ DOMAIN sent' = 1..(Len(sent) + 1) /\ DOMAIN sent = 1..Len(sent)
      /\ \A i \in 1..Len(sent) : sent'[i] = sent[i]
      /\ sent'[Len(sent) + 1] = m
  BY <1>1, AppendProperties
<1> QED BY <1>2

LEMMA SentKept ==
  ASSUME Base, NEW made, NEW c, NEW rest, Moves(made, c, rest)
  PROVE  \A i \in DOMAIN sent : i \in DOMAIN sent' /\ sent'[i] = sent[i]
<1>1. Told(made, c, rest) BY MovesSent
<1>2. c \in Nat /\ Len(records) + 1 \in Nat BY HeldRecord DEF Moves, Desk
<1>3. PICK m, l : m = [rec |-> Len(records) + 1, call |-> c] /\ l = [rec |-> 0, call |-> c] OBVIOUS
<1>4. m \in Command /\ l \in Command BY <1>2, <1>3 DEF Command
<1>5. CASE sent' = sent BY <1>5
<1>6. CASE sent' = Append(sent, m) BY <1>4, <1>6, SentGrows
<1>7. CASE sent' = Append(sent, l) BY <1>4, <1>7, SentGrows
<1> QED BY <1>1, <1>3, <1>5, <1>6, <1>7 DEF Told

LEMMA FifoMoves ==
  ASSUME Inv, NEW made, NEW c, NEW rest, Moves(made, c, rest)
  PROVE  Fifo'
<1>1. RecordFacts(c) /\ Told(made, c, rest) BY Parts1, MovesRecords, MovesSent
<1>2. /\ \A r \in DOMAIN records' \ DOMAIN records : Founds(made, c, rest)
      /\ Founds(made, c, rest) =>
              /\ DOMAIN records' = DOMAIN records \cup {Len(records) + 1}
              /\ Len(records) + 1 \notin DOMAIN records
              /\ records'[Len(records) + 1] = Opened(made, c)
  BY Parts1, MovesFounder
<1>3. Len(records) \in Nat /\ DOMAIN records = 1..Len(records) BY Parts1, HeldRecord
<1>4. Opened(made, c).inflight /\ Opened(made, c).outcome = IF live THEN "none" ELSE "error"
  BY DEF Opened
<1>5. live \/ sent = <<>> BY DEF Moves
<1>6. ASSUME NEW r \in DOMAIN records', NEW s \in DOMAIN records', r < s
      PROVE  /\ records'[r].outcome = "none" => records'[s].outcome = "none"
             /\ records'[r].inflight => records'[s].inflight
  <2>1. CASE s \notin DOMAIN records
    <3>1. s = Len(records) + 1 /\ records'[s] = Opened(made, c) BY <1>2, <2>1
    <3>2. r \in DOMAIN records BY <1>2, <1>3, <1>6, <2>1, <3>1
    <3>3. ~live => records'[r].outcome # "none"
      BY <1>1, <1>5, <3>2, AllSettled DEF RecordFacts
    <3> QED BY <1>4, <3>1, <3>3
  <2>2. CASE s \in DOMAIN records
    <3>1. r \in DOMAIN records BY <1>2, <1>3, <1>6, <2>2
    <3>2. /\ records[r].outcome = "none" => records[s].outcome = "none"
          /\ records[r].inflight => records[s].inflight
      BY <1>6, <2>2, <3>1, Parts1 DEF Fifo
    <3>3. ASSUME records'[r].inflight PROVE records'[s].inflight
      <4>1. records[r].inflight BY <1>1, <3>1, <3>3 DEF RecordFacts
      <4>2. ASSUME Was(c, "create"), s = calls[c].rec PROVE FALSE
        <5>1. Desk(calls, c, rest) /\ Awaited(c).outcome # "none" BY <4>2, CreatorsTurn
        <5> QED BY <1>6, <3>1, <4>1, <4>2, <5>1, CreatorIsFirst
      <4> QED BY <1>1, <2>2, <3>2, <4>1, <4>2 DEF RecordFacts
    <3> QED BY <1>1, <2>2, <3>1, <3>2, <3>3 DEF RecordFacts
  <2> QED BY <2>1, <2>2
<1>7. ASSUME NEW r \in DOMAIN records', records'[r].outcome = "none"
      PROVE  \E i \in DOMAIN sent' : sent'[i].rec = r
  <2>1. CASE r \in DOMAIN records
    <3>1. records[r].outcome = "none" BY <1>1, <1>7, <2>1 DEF RecordFacts
    <3>2. PICK i \in DOMAIN sent : sent[i].rec = r BY <2>1, <3>1, Parts1 DEF Fifo
    <3> QED BY <3>2, Parts1, SentKept
  <2>2. CASE r \notin DOMAIN records
    <3>1. Founds(made, c, rest) /\ live /\ r = Len(records) + 1 BY <1>2, <1>4, <1>7, <2>2
    <3>2. PICK m : m = [rec |-> Len(records) + 1, call |-> c] OBVIOUS
    <3>3. m \in Command /\ m.rec = r BY <1>3, <3>1, <3>2 DEF Command, Moves, Desk
    <3>4. sent' = Append(sent, m) BY <3>1, <3>2 DEF Founds, Creates
    <3> QED BY <3>3, <3>4, Parts1, SentGrows
  <2> QED BY <2>1, <2>2
<1> QED BY <1>6, <1>7 DEF Fifo

(* A release that takes the record down leaves nobody waiting for a reply.  *)
LEMMA Takedown ==
  ASSUME Inv, NEW made, NEW c, NEW rest, Moves(made, c, rest), Parts(made, c, rest),
         LastOwnersOf({made[c].peer})
  PROVE  /\ made[c].peer \in registered /\ current # 0 /\ Owners = {made[c].peer} /\ ~Held.inflight
         /\ \A d \in DOMAIN calls : d # c => calls[d].pc \notin Place
         /\ ~New(c) => \A d \in DOMAIN calls : In(jobs, d) => calls[d].pc = "yield"
<1> DEFINE p == made[c].peer
<1>1. current # 0 /\ Owners \subseteq {p} BY DEF LastOwnersOf, Owners, Held
<1>2. Owners = {p} /\ p \in registered BY <1>1, Parts1 DEF Kept, OwnersAreLive
<1> HIDE DEF p
<1>3. Desk(made, c, rest) BY DEF Moves
<1>4. ASSUME ~New(c), NEW d \in DOMAIN calls, In(jobs, d) PROVE calls[d].pc = "yield"
  <2>1. Was(c, "yield") BY <1>4 DEF Parts, Was, New
  <2>2. made[c] = calls[c] BY <1>3, <2>1 DEF Desk, Was
  <2>3. Releases(c) BY <1>2, <2>1, <2>2 DEF Releases, Was, p
  <2>4. CASE d = c BY <2>1, <2>4 DEF Was
  <2>5. CASE d # c
    <3>1. Ahead(jobs, c, d) BY <1>3, <1>4, <2>5, HeadIsAhead
    <3> QED BY <2>1, <2>3, <3>1, Parts1 DEF JobsOrder, Was
  <2> QED BY <2>4, <2>5
<1>5. \A d \in DOMAIN calls : In(jobs, d) => calls[d].pc = "yield"
  BY <1>3, <1>4, NothingIn DEF Desk, New
<1>6. \A d \in DOMAIN calls : calls[d].pc \in Place => Awaited(d).outcome = "none"
  BY <1>5, Parts1 DEF Placed, Place
<1>7. ~Held.inflight
  <2>1. SUFFICES ASSUME Held.inflight PROVE FALSE OBVIOUS
  <2>2. Was(c, "yield") BY <1>1, <2>1 DEF Parts
  <2>3. PICK d \in DOMAIN calls : calls[d].pc = "create" /\ calls[d].rec = current
    BY <1>1, <2>1, HeldRecord, Parts1 DEF Creators, Held
  <2>4. Owners = {calls[d].peer} BY <1>1, <2>3, Parts1 DEF Kept
  <2>5. calls[d].peer = calls[c].peer /\ calls[c].peer = p
    BY <1>2, <1>3, <2>2, <2>4 DEF Desk, Was, p
  <2>6. Drops(c) BY <1>2, <2>2, <2>5 DEF Drops, Was
  <2>7. calls[c].pc = "drop" BY <2>2, <2>3, <2>5, <2>6, Parts1 DEF DropsOwn, Was
  <2> QED BY <2>2, <2>7 DEF Was
<1>8. ASSUME NEW d \in DOMAIN calls, calls[d].pc \in Place PROVE FALSE
  <2>1. Awaited(d).outcome = "none" BY <1>6, <1>8
  <2>2. calls[d].rec \in DOMAIN records /\ calls[d].rec \in Nat /\ calls[d].rec <= Len(records)
    BY <1>8, Parts1, AwaitedRecord
  <2>3. records[calls[d].rec].inflight BY <2>1, <2>2, Parts1 DEF Creators, Awaited
  <2>4. current = Len(records) /\ current \in DOMAIN records /\ Len(records) \in Nat
    BY <1>1, Parts1, HeldRecord
  <2>5. CASE calls[d].rec = current BY <1>7, <2>3, <2>5 DEF Held
  <2>6. CASE calls[d].rec # current
    <3>1. calls[d].rec < current BY <2>2, <2>4, <2>6
    <3> QED BY <1>7, <2>2, <2>3, <2>4, <3>1, Parts1 DEF Fifo, Held
  <2> QED BY <2>5, <2>6
<1> QED BY <1>1, <1>2, <1>4, <1>7, <1>8 DEF p

(* A record that is rolled back is the one in `subscriptions', or the       *)
(* connection is closed and everything that waits will be rejected.        *)
LEMMA RollbackFacts ==
  ASSUME Inv, NEW made, NEW c, NEW rest, Moves(made, c, rest), Was(c, "create"), RollsBack(c, rest)
  PROVE  \/ calls[c].rec = current /\ current # 0 /\ Awaited(c).outcome = "error"
         \/ ~live /\ \A d \in DOMAIN calls : calls[d].pc \in Place => Awaited(d).outcome = "error"
<1>1. Awaited(c).outcome = "error" /\ c \in DOMAIN calls /\ calls[c].pc = "create"
  BY DEF RollsBack, Was
<1>2. calls[c].rec # 0 BY <1>1, Parts1, AwaitedRecord DEF Place
<1>3. CASE calls[c].rec = current BY <1>1, <1>2, <1>3
<1>4. CASE ~live BY <1>4, DeadIsError DEF Moves
<1>5. CASE calls[c].rec # current /\ live BY <1>1, <1>5, Parts1 DEF Superseded
<1> QED BY <1>3, <1>4, <1>5

LEMMA MoverWaits ==
  ASSUME Base, NEW made, NEW c, NEW rest, Moves(made, c, rest)
  PROVE  /\ calls'[c].pc = "join" => /\ Joins(made, c, rest)
                                     /\ calls'[c].rec = current /\ current' = current /\ current # 0
         /\ calls'[c].pc = "drop" => /\ Lingers(made, c, rest)
                                     /\ calls'[c].rec = current /\ current' = current /\ current # 0
         /\ calls'[c].pc = "yield" => /\ Was(c, "drop") /\ Yields(c, rest)
                                      /\ made = calls /\ Awaited(c).outcome # "none"
<1>1. CASE Stays(made, c, rest) BY <1>1 DEF Stays, Quits, Turns, Answers
<1>2. CASE Joins(made, c, rest) BY <1>2 DEF Joins, Parks, Lines, Turns
<1>3. CASE Lingers(made, c, rest) BY <1>3 DEF Lingers, Parks, Lines, Turns
<1>4. CASE Shares(made, c, rest) BY <1>4 DEF Shares, Claims, Turns
<1>5. CASE Founds(made, c, rest) BY <1>5 DEF Founds, Creates, Turns
<1>6. CASE Parts(made, c, rest)
  <2>1. calls'[c].pc \in {"ok", "forward", "error"} BY <1>6 DEF Parts, Unowns, Turns
  <2> QED BY <2>1
<1>7. CASE Confirms(c, rest) \/ RollsBack(c, rest) BY <1>7 DEF Confirms, RollsBack, Turns
<1>8. CASE Was(c, "drop") /\ Yields(c, rest) /\ made = calls /\ Awaited(c).outcome # "none"
  BY <1>8 DEF Yields, Turns
<1> QED BY <1>1, <1>2, <1>3, <1>4, <1>5, <1>6, <1>7, <1>8 DEF Moves

LEMMA MovesCurrent ==
  ASSUME Base, NEW made, NEW c, NEW rest, Moves(made, c, rest), current' # current
  PROVE  \/ Founds(made, c, rest) /\ current = 0
         \/ Parts(made, c, rest) /\ LastOwnersOf({made[c].peer}) /\ current' = 0
         \/ Was(c, "create") /\ RollsBack(c, rest) /\ current' = 0
<1>1. CASE Stays(made, c, rest) BY <1>1 DEF Stays, Quits
<1>2. CASE Joins(made, c, rest) BY <1>2 DEF Joins, Parks, Lines
<1>3. CASE Lingers(made, c, rest) BY <1>3 DEF Lingers, Parks, Lines
<1>4. CASE Shares(made, c, rest) BY <1>4 DEF Shares, Claims
<1>5. CASE Founds(made, c, rest) BY <1>5 DEF Founds, Creates
<1>6. CASE Parts(made, c, rest) BY <1>6 DEF Parts, Unowns, Relieves
<1>7. CASE Was(c, "create") /\ (Confirms(c, rest) \/ RollsBack(c, rest))
  BY <1>7 DEF Confirms, RollsBack
<1>8. CASE Yields(c, rest) BY <1>8 DEF Yields
<1> QED BY <1>1, <1>2, <1>3, <1>4, <1>5, <1>6, <1>7, <1>8 DEF Moves

(* A pending call whose record is no longer in `subscriptions' after the    *)
(* turn was rejected, if the record was there before.                      *)
LEMMA LosesRecord ==
  ASSUME Inv, NEW made, NEW c, NEW rest, Moves(made, c, rest),
         NEW d \in DOMAIN calls, d # c, calls[d].pc \in Place,
         calls[d].rec = current, current' # current
  PROVE  Awaited(d).outcome = "error" /\ Was(c, "create") /\ RollsBack(c, rest)
<1>1. calls[d].rec # 0 BY Parts1, AwaitedRecord
<1>2. ~(Parts(made, c, rest) /\ LastOwnersOf({made[c].peer})) BY Takedown
<1>3. Was(c, "create") /\ RollsBack(c, rest) BY <1>1, <1>2, Parts1, MovesCurrent
<1> QED BY <1>3, RollbackFacts DEF Awaited

LEMMA StaleMoves ==
  ASSUME Inv, NEW made, NEW c, NEW rest, Moves(made, c, rest), NEW d \in DOMAIN calls', Stale(d)'
  PROVE  d \in DOMAIN calls /\ d # c /\ Stale(d)
<1>1. calls'[d].pc = "join" /\ records'[calls'[d].rec].outcome = "ok" /\ calls'[d].rec # current'
  BY DEF Stale, Awaited
<1>2. d # c BY <1>1, Parts1, MoverWaits
<1>7. CallFacts(made, c) BY Parts1, MovesCalls
<1>3. d \in DOMAIN calls /\ calls'[d] = calls[d] BY <1>2, <1>7 DEF CallFacts
<1>4. calls[d].pc \in Place /\ calls[d].rec \in DOMAIN records
  BY <1>1, <1>3, Parts1, AwaitedRecord DEF Place
<1>5. Awaited(d).outcome = "ok" BY <1>1, <1>3, <1>4, Parts1, MovesRecords DEF RecordFacts, Awaited
<1>6. calls[d].rec # current BY <1>1, <1>2, <1>3, <1>4, <1>5, LosesRecord
<1> QED BY <1>1, <1>2, <1>3, <1>5, <1>6 DEF Stale

LEMMA JobsOrderMoves ==
  ASSUME Inv, NEW made, NEW c, NEW rest, Moves(made, c, rest)
  PROVE  JobsOrder'
<1>1. /\ \A d : d # c => (In(jobs', d) <=> In(jobs, d))
      /\ \A d, e : Ahead(jobs', d, e) =>
           \/ /\ d # c /\ e # c /\ Ahead(jobs, d, e)
           \/ /\ d # c /\ e = c /\ In(jobs, d) /\ In(jobs', c)
      /\ In(jobs', c) => calls'[c].pc \in Place \cup {"yield"}
  BY Parts1, MovesJobs
<1>7. CallFacts(made, c) BY Parts1, MovesCalls
<1>2. \A d \in DOMAIN calls' : d # c => d \in DOMAIN calls /\ calls'[d] = calls[d]
  BY <1>7 DEF CallFacts
<1>3. registered' = registered /\ Desk(made, c, rest) BY DEF Moves
<1>4. \A d \in DOMAIN calls' : d # c => (Releases(d)' <=> Releases(d)) /\ (Drops(d)' <=> Drops(d))
  BY <1>2, <1>3 DEF Releases, Drops
<1>5. ASSUME NEW x \in DOMAIN calls', NEW y \in DOMAIN calls', Ahead(jobs', x, y)
      PROVE  /\ calls'[y].pc = "create" /\ calls'[x].pc \in Place => calls'[x].rec < calls'[y].rec
             /\ calls'[x].pc = "create" /\ calls'[y].pc \in Place => calls'[x].rec <= calls'[y].rec
             /\ Releases(x)' => calls'[y].pc = "yield"
             /\ Drops(x)' => ~Stale(y)'
  <2>1. CASE x # c /\ y # c /\ Ahead(jobs, x, y)
    <3>1. Stale(y)' => Stale(y) BY StaleMoves
    <3>2. /\ calls[y].pc = "create" /\ calls[x].pc \in Place => calls[x].rec < calls[y].rec
          /\ calls[x].pc = "create" /\ calls[y].pc \in Place => calls[x].rec <= calls[y].rec
          /\ Releases(x) => calls[y].pc = "yield"
          /\ Drops(x) => ~Stale(y)
      BY <1>2, <2>1, Parts1 DEF JobsOrder
    <3> QED BY <1>2, <1>4, <2>1, <3>1, <3>2
  <2>2. CASE x # c /\ y = c /\ In(jobs, x) /\ In(jobs', c)
    <3>1. ~Stale(c)' BY <2>2, StaleMoves
    <3>2. In(jobs, c) /\ ~New(c) BY <1>3, <2>2, NothingIn DEF Desk, New
    <3>3. x \in DOMAIN calls /\ calls'[x] = calls[x] BY <1>2, <2>2
    <3>4. CASE calls'[c].pc = "yield" BY <2>2, <3>1, <3>4 DEF Place
    <3>5. CASE calls'[c].pc = "join"
      <4>1. Stale(c) /\ c \in DOMAIN calls /\ calls'[c].rec = current /\ current # 0
        BY <3>2, <3>5, Parts1, MoverWaits DEF Joins
      <4>2. ~Releases(x) BY <2>2, <3>2, <3>3, <4>1, Parts1 DEF JobsOrder
      <4>3. calls[x].pc = "create" => calls[x].rec <= current
        BY <3>3, <4>1, Parts1, AwaitedRecord, HeldRecord DEF Place
      <4> QED BY <1>4, <2>2, <3>1, <3>3, <3>5, <4>1, <4>2, <4>3 DEF Place
    <3>6. CASE calls'[c].pc = "create"
      <4>1. Founds(made, c, rest) BY <3>6, Parts1, MovesFounder
      <4>2. Stale(c) /\ c \in DOMAIN calls BY <3>2, <4>1 DEF Founds, New
      <4>3. live BY <4>2, Parts1 DEF DeadSettle, Stale, Place
      <4>4. jobs' = rest BY <4>1, <4>3 DEF Founds, Creates
      <4> QED BY <1>3, <2>2, <4>4 DEF Desk
    <3>7. CASE calls'[c].pc = "drop"
      BY <3>2, <3>7, Parts1, MoverWaits DEF Lingers
    <3> QED BY <1>1, <2>2, <3>4, <3>5, <3>6, <3>7 DEF Place
  <2> QED BY <1>1, <1>5, <2>1, <2>2
<1>6. ASSUME NEW x \in DOMAIN calls', NEW y \in DOMAIN calls', In(jobs', x), In(jobs', y), Releases(x)',
             Stale(y)'
      PROVE  FALSE
  <2>1. y \in DOMAIN calls /\ y # c /\ Stale(y) /\ In(jobs, y) BY <1>1, <1>6, StaleMoves
  <2>2. CASE x # c
    <3>1. x \in DOMAIN calls /\ Releases(x) /\ In(jobs, x) BY <1>1, <1>2, <1>4, <1>6, <2>2
    <3> QED BY <2>1, <3>1, Parts1 DEF JobsOrder
  <2>3. CASE x = c
    <3>1. calls'[c].pc = "yield" /\ calls'[c].peer \in registered BY <1>3, <1>6, <2>3 DEF Releases
    <3>2. Was(c, "drop") /\ made = calls BY <3>1, Parts1, MoverWaits
    <3>3. calls[c].peer \in registered BY <3>1, <3>2, Parts1, MovesCalls DEF CallFacts
    <3>4. Drops(c) /\ c \in DOMAIN calls BY <3>2, <3>3 DEF Drops, Was
    <3>5. Ahead(jobs, c, y) BY <1>3, <2>1, HeadIsAhead
    <3> QED BY <2>1, <3>4, <3>5, Parts1 DEF JobsOrder
  <2> QED BY <2>2, <2>3
<1> QED BY <1>5, <1>6 DEF JobsOrder

LEMMA FreshMoves ==
  ASSUME Inv, NEW made, NEW c, NEW rest, Moves(made, c, rest)
  PROVE  Fresh'
<1>1. live' = live /\ (live \/ sent = <<>>) /\ draining' = ~New(c) /\ Desk(made, c, rest)
  BY DEF Moves
<1>2. ~live => sent' = <<>> BY <1>1, Parts1, MovesSent DEF Told
<1>3. CASE ~New(c) BY <1>1, <1>2, <1>3 DEF Fresh
<1>4. CASE New(c)
  <2>1. jobs = <<>> BY <1>1, <1>4 DEF Desk, New
  <2>2. SUFFICES ASSUME NEW d \in DOMAIN calls', In(jobs', d)
        PROVE  calls'[d].pc \in Place /\ records'[calls'[d].rec].inflight
    BY DEF Fresh, Awaited
  <2>3. d = c BY <2>1, <2>2, Parts1, MovesJobs, NothingIn
  <2>4. calls'[c].pc \in Place /\ records'[calls'[c].rec].outcome # "none"
    <3>1. calls'[c].pc # "yield" BY <1>4, Parts1, MoverWaits DEF Was, New
    <3> QED BY <2>2, <2>3, <3>1, Parts1, MovesJobs
  <2>5. CASE calls'[c].pc = "create"
    <3>1. Opened(made, c).inflight BY DEF Opened
    <3> QED BY <2>3, <2>4, <2>5, <3>1, Parts1, MovesFounder
  <2>6. CASE calls'[c].pc \in {"join", "drop"}
    <3>1. calls'[c].rec = current /\ current # 0
          /\ (Joins(made, c, rest) \/ Lingers(made, c, rest))
      BY <2>6, Parts1, MoverWaits
    <3>2. Held.inflight BY <3>1 DEF Joins, Lingers, Parks, Lines
    <3>3. current \in DOMAIN records BY <3>1, Parts1, HeldRecord
    <3>4. records'[current].inflight
      BY <1>4, <3>2, <3>3, Parts1, MovesRecords DEF RecordFacts, Held, Was, New
    <3> QED BY <2>3, <2>4, <3>1, <3>4
  <2> QED BY <2>4, <2>5, <2>6 DEF Place
<1> QED BY <1>3, <1>4

(* The two indexes after a turn.                                           *)
LEMMA MovesOwners ==
  ASSUME Base, NEW made, NEW c, NEW rest, Moves(made, c, rest)
  PROVE  \/ /\ \/ Stays(made, c, rest) \/ Joins(made, c, rest) \/ Lingers(made, c, rest)
               \/ Was(c, "create") /\ Confirms(c, rest)
               \/ Was(c, "drop") /\ Yields(c, rest)
            /\ current' = current /\ owned' = owned /\ Owners' = Owners
         \/ /\ Shares(made, c, rest) /\ current # 0 /\ current' = current
            /\ owned' = owned \cup {made[c].peer}
            /\ IF made[c].peer \in owned THEN Owners' = Owners
                 ELSE Owners' = Owners \cup {made[c].peer}
         \/ /\ Founds(made, c, rest) /\ current = 0 /\ current' = Len(records) + 1
            /\ owned' = owned \cup {made[c].peer} /\ Owners' = {made[c].peer}
         \/ /\ Parts(made, c, rest) /\ LastOwnersOf({made[c].peer})
            /\ made[c].peer \in owned /\ owned' = owned \ {made[c].peer}
            /\ current' = 0 /\ Owners' = {}
         \/ /\ Parts(made, c, rest) /\ ~LastOwnersOf({made[c].peer})
            /\ made[c].peer \in owned /\ owned' = owned \ {made[c].peer}
            /\ current' = current /\ Owners' = Owners \ {made[c].peer}
         \/ /\ Was(c, "create") /\ RollsBack(c, rest) /\ current' = 0 /\ Owners' = {}
            /\ owned' = owned \ (Awaited(c).owners \cap registered)
<1>1. CASE Stays(made, c, rest)
  BY <1>1, OwnersOfEffects DEF Stays, Quits
<1>2. CASE Joins(made, c, rest)
  BY <1>2, OwnersOfEffects DEF Joins, Parks, Lines
<1>3. CASE Lingers(made, c, rest)
  BY <1>3, OwnersOfEffects DEF Lingers, Parks, Lines
<1>4. CASE Shares(made, c, rest)
  <2>1. current # 0 => Owners = Held.owners BY DEF Owners
  <2> QED BY <1>4, <2>1, OwnersOfEffects DEF Shares, Claims
<1>5. CASE Founds(made, c, rest)
  <2>1. Opened(made, c).owners = {made[c].peer} BY DEF Opened
  <2> QED BY <1>5, <2>1, OwnersOfEffects DEF Founds, Creates
<1>6. CASE Parts(made, c, rest)
  <2>1. /\ Relieves({made[c].peer}) /\ made[c].peer \in owned /\ owned' = owned \ {made[c].peer}
    BY <1>6 DEF Parts, Unowns
  <2> QED BY <1>6, <2>1, RelievedOwners
<1>7. CASE Was(c, "create") /\ Confirms(c, rest)
  <2>1. /\ Reowns(calls[c].rec, Awaited(c).owners, FALSE) /\ current' = current /\ owned' = owned
    BY <1>7 DEF Confirms
  <2>2. CASE current = 0 BY <1>7, <2>1, <2>2 DEF Owners
  <2>3. CASE current # 0 /\ calls[c].rec # current
    BY <1>7, <2>1, <2>3, OwnersOfEffects
  <2>4. CASE current # 0 /\ calls[c].rec = current
    BY <1>7, <2>1, <2>4, OwnersOfEffects DEF Owners, Held, Awaited
  <2> QED BY <2>2, <2>3, <2>4
<1>8. CASE Was(c, "create") /\ RollsBack(c, rest)
  BY <1>8, OwnersOfEffects DEF RollsBack
<1>9. CASE Was(c, "drop") /\ Yields(c, rest)
  BY <1>9, OwnersOfEffects DEF Yields
<1> QED BY <1>1, <1>2, <1>3, <1>4, <1>5, <1>6, <1>7, <1>8, <1>9 DEF Moves

(* Creators and the record in `subscriptions', while it stays there.       *)
LEMMA HeldMoves ==
  ASSUME Inv, NEW made, NEW c, NEW rest, Moves(made, c, rest), current' = current, current # 0
  PROVE  /\ Held'.args = Held.args /\ Held'.outcome = Held.outcome
         /\ Held'.inflight <=> Held.inflight /\ ~(Was(c, "create") /\ calls[c].rec = current)
         /\ \A x \in DOMAIN calls' : calls'[x].pc = "create" =>
              x # c /\ x \in DOMAIN calls /\ calls'[x] = calls[x]
<1>1. CallFacts(made, c) /\ RecordFacts(c) BY Parts1, MovesCalls, MovesRecords
<1>2. current \in DOMAIN records BY Parts1, HeldRecord
<1>3. calls'[c].pc # "create" BY Parts1, MovesFounder
<1>4. \A x \in DOMAIN calls' : x # c => x \in DOMAIN calls /\ calls'[x] = calls[x]
  BY <1>1 DEF CallFacts
<1> QED BY <1>1, <1>2, <1>3, <1>4 DEF RecordFacts, Held

LEMMA KeptMoves ==
  ASSUME Inv, NEW made, NEW c, NEW rest, Moves(made, c, rest)
  PROVE  Kept'
<1>1. SUFFICES ASSUME current' # 0
      PROVE  /\ Owners' # {}
             /\ ~Held'.inflight => Held'.outcome = "ok"
             /\ \A x \in DOMAIN calls' : calls'[x].pc = "create" /\ calls'[x].rec = current' =>
                  Owners' = {calls'[x].peer}
  BY DEF Kept
<1>2. ASSUME current' = current PROVE ~Held'.inflight => Held'.outcome = "ok"
  <2>1. CASE Held.inflight
    <3>1. ASSUME Was(c, "create"), calls[c].rec = current PROVE Held.outcome = "ok"
      <4>1. Confirms(c, rest) BY <1>1, <3>1, CreatorsTurn DEF RollsBack
      <4> QED BY <3>1, <4>1 DEF Confirms, Awaited, Held
    <3> QED BY <1>1, <1>2, <2>1, <3>1, HeldMoves
  <2>2. CASE ~Held.inflight BY <1>1, <1>2, <2>2, HeldMoves, Parts1 DEF Kept
  <2> QED BY <2>1, <2>2
<1>3. ASSUME current' = current, NEW x \in DOMAIN calls', calls'[x].pc = "create",
             calls'[x].rec = current'
      PROVE  Owners = {calls'[x].peer} /\ Held.inflight
  <2>1. x \in DOMAIN calls /\ calls'[x] = calls[x] BY <1>1, <1>3, HeldMoves
  <2> QED BY <1>1, <1>3, <2>1, Parts1 DEF Kept, Creators, Awaited, Held
<1>4. CASE current' = current /\ Owners' = Owners
  BY <1>1, <1>2, <1>3, <1>4, Parts1 DEF Kept
<1>5. CASE /\ Shares(made, c, rest) /\ current' = current
           /\ Owners' \in {Owners, Owners \cup {made[c].peer}}
  <2>1. ~Held.inflight BY <1>5 DEF Shares
  <2>2. Owners' # {} BY <1>1, <1>5, Parts1 DEF Kept
  <2> QED BY <1>2, <1>3, <1>5, <2>1, <2>2
<1>6. CASE Founds(made, c, rest) /\ Owners' = {made[c].peer} /\ current' = Len(records) + 1
  <2>1. /\ Held'.inflight /\ Len(records) + 1 \notin DOMAIN records
    <3>1. Opened(made, c).inflight BY DEF Opened
    <3>2. records'[Len(records) + 1] = Opened(made, c) /\ Len(records) + 1 \notin DOMAIN records
      BY <1>6, Parts1, MovesFounder
    <3> QED BY <1>6, <3>1, <3>2 DEF Held
  <2>2. ASSUME NEW x \in DOMAIN calls', calls'[x].pc = "create", calls'[x].rec = current'
        PROVE  Owners' = {calls'[x].peer}
    <3>1. CallFacts(made, c) BY Parts1, MovesCalls
    <3>2. CASE x = c BY <1>6, <3>1, <3>2 DEF CallFacts
    <3>3. CASE x # c
      <4>1. x \in DOMAIN calls /\ calls'[x] = calls[x] BY <3>1, <3>3, <2>2 DEF CallFacts
      <4>2. calls[x].rec \in DOMAIN records BY <2>2, <4>1, Parts1, AwaitedRecord DEF Place
      <4> QED BY <1>6, <2>1, <2>2, <4>1, <4>2
    <3> QED BY <3>2, <3>3
  <2> QED BY <1>6, <2>1, <2>2
<1>7. CASE /\ Parts(made, c, rest) /\ ~LastOwnersOf({made[c].peer})
           /\ current' = current /\ Owners' = Owners \ {made[c].peer}
  <2>1. Owners' # {} BY <1>1, <1>7 DEF LastOwnersOf, Owners, Held
  <2>2. ASSUME NEW x \in DOMAIN calls', calls'[x].pc = "create", calls'[x].rec = current'
        PROVE  Owners' = {calls'[x].peer}
    BY <1>3, <1>7, <2>1, <2>2
  <2> QED BY <1>2, <1>7, <2>1, <2>2
<1> QED BY <1>1, <1>4, <1>5, <1>6, <1>7, Parts1, MovesOwners

LEMMA OtherCalls ==
  ASSUME Base, NEW made, NEW c, NEW rest, Moves(made, c, rest), NEW x \in DOMAIN calls', x # c
  PROVE  x \in DOMAIN calls /\ calls'[x] = calls[x]
<1>1. CallFacts(made, c) BY MovesCalls
<1> QED BY <1>1 DEF CallFacts

(* A waiting call's record keeps its outcome and its values, and its owners *)
(* too unless it is in `subscriptions' or its creator runs.                *)
LEMMA OtherRecords ==
  ASSUME Inv, NEW made, NEW c, NEW rest, Moves(made, c, rest), NEW x \in DOMAIN calls,
         calls[x].pc \in Place
  PROVE  /\ records'[calls[x].rec].args = Awaited(x).args
         /\ records'[calls[x].rec].outcome = Awaited(x).outcome
         /\ calls[x].pc = "create" /\ x # c /\ calls[x].rec # current =>
              records'[calls[x].rec].owners = Awaited(x).owners
<1>1. RecordFacts(c) /\ calls[x].rec \in DOMAIN records BY Parts1, MovesRecords, AwaitedRecord
<1>2. calls[x].pc = "create" /\ x # c => ~(Was(c, "create") /\ calls[x].rec = calls[c].rec)
  BY Parts1 DEF Creators, Was
<1> QED BY <1>1, <1>2 DEF RecordFacts, Awaited

LEMMA SupersededMoves ==
  ASSUME Inv, NEW made, NEW c, NEW rest, Moves(made, c, rest)
  PROVE  Superseded'
<1>1. SUFFICES ASSUME NEW x \in DOMAIN calls', calls'[x].pc = "create", calls'[x].rec # current'
      PROVE  \/ ~live' /\ records'[calls'[x].rec].outcome = "error"
             \/ /\ records'[calls'[x].rec].owners = {} /\ calls'[x].peer \notin registered'
                /\ live' => /\ records'[calls'[x].rec].args \notin Refusable
                            /\ records'[calls'[x].rec].outcome # "error"
  BY DEF Superseded, Awaited
<1>2. x # c BY <1>1, Parts1, MovesFounder
<1>3. x \in DOMAIN calls /\ calls'[x] = calls[x] /\ calls[x].pc = "create" /\ calls[x].pc \in Place
  BY <1>1, <1>2, Parts1, OtherCalls DEF Place
<1>4. live' = live /\ registered' = registered BY DEF Moves
<1>5. CASE calls[x].rec # current
  BY <1>2, <1>3, <1>4, <1>5, Parts1, OtherRecords DEF Superseded
<1>6. CASE calls[x].rec = current
  <2>1. Awaited(x).outcome = "error" /\ Was(c, "create") /\ RollsBack(c, rest)
    BY <1>1, <1>2, <1>3, <1>6, LosesRecord
  <2>2. calls[c].rec # current
    BY <1>2, <1>3, <1>6, <2>1, Parts1 DEF Creators, Was
  <2>3. ~live BY <2>1, <2>2, RollbackFacts
  <2> QED BY <1>3, <1>4, <2>1, <2>3, OtherRecords
<1> QED BY <1>5, <1>6

(* A peer whose creator has yet to roll back stays one.                    *)
LEMMA OrphanMoves ==
  ASSUME Inv, NEW made, NEW c, NEW rest, Moves(made, c, rest), NEW q, Orphan(q),
         q \in registered, q \in owned'
  PROVE  Orphan(q)'
<1>1. PICK x \in DOMAIN calls :
        /\ calls[x].pc = "create" /\ calls[x].rec # current /\ Awaited(x).outcome = "error"
        /\ q \in Awaited(x).owners
  BY DEF Orphan
<1>2. ~live /\ live' = live BY DEF Orphan, Moves
<1>3. calls[x].pc \in Place BY <1>1 DEF Place
<1>4. x # c
  <2>1. SUFFICES ASSUME x = c PROVE FALSE OBVIOUS
  <2>2. Was(c, "create") BY <1>1, <2>1 DEF Was
  <2>3. RollsBack(c, rest) BY <1>1, <2>1, <2>2, CreatorsTurn DEF Confirms
  <2>4. owned' = owned \ (Awaited(c).owners \cap registered) BY <2>3 DEF RollsBack
  <2> QED BY <1>1, <2>1, <2>4
<1>5. CallFacts(made, c) BY Parts1, MovesCalls
<1>6. x \in DOMAIN calls' /\ calls'[x] = calls[x] BY <1>4, <1>5 DEF CallFacts
<1>7. calls[x].rec \in DOMAIN records /\ calls[x].rec # 0 BY <1>3, Parts1, AwaitedRecord
<1>8. calls[x].rec # current'
  <2>1. CASE current' = current BY <1>1, <2>1
  <2>2. CASE current' # current
    <3>1. current' = 0 \/ (Founds(made, c, rest)) BY <2>2, Parts1, MovesCurrent
    <3>2. Founds(made, c, rest) => current' = Len(records) + 1 /\ Len(records) + 1 \notin DOMAIN records
      BY Parts1, MovesFounder
    <3> QED BY <1>7, <3>1, <3>2
  <2> QED BY <2>1, <2>2
<1>9. /\ records'[calls[x].rec].outcome = "error" /\ records'[calls[x].rec].owners = Awaited(x).owners
  BY <1>1, <1>3, <1>4, OtherRecords
<1> QED BY <1>1, <1>2, <1>6, <1>8, <1>9 DEF Orphan, Awaited

LEMMA OwnedOrOrphanMoves ==
  ASSUME Inv, NEW made, NEW c, NEW rest, Moves(made, c, rest)
  PROVE  OwnedOrOrphan'
<1>1. SUFFICES ASSUME NEW q \in registered', q \in owned'
      PROVE  q \in Owners' \/ Orphan(q)'
  BY DEF OwnedOrOrphan
<1>2. q \in registered BY DEF Moves
<1>3. q \in owned => q \in Owners \/ Orphan(q)' BY <1>1, <1>2, Parts1, OrphanMoves DEF OwnedOrOrphan
<1>4. CASE owned' = owned /\ Owners' = Owners BY <1>1, <1>3, <1>4
<1>5. CASE /\ owned' = owned \cup {made[c].peer}
           /\ IF made[c].peer \in owned THEN Owners' = Owners
                ELSE Owners' = Owners \cup {made[c].peer}
  BY <1>1, <1>3, <1>5
<1>6. CASE /\ current = 0 /\ owned' = owned \cup {made[c].peer} /\ Owners' = {made[c].peer}
  BY <1>1, <1>3, <1>6 DEF Owners
<1>7. CASE LastOwnersOf({made[c].peer}) /\ owned' = owned \ {made[c].peer}
  <2>1. Owners \subseteq {made[c].peer} BY <1>7 DEF LastOwnersOf, Owners, Held
  <2> QED BY <1>1, <1>3, <1>7, <2>1
<1>8. CASE owned' = owned \ {made[c].peer} /\ Owners' = Owners \ {made[c].peer}
  BY <1>1, <1>3, <1>8
<1>9. CASE /\ Was(c, "create") /\ RollsBack(c, rest) /\ current' = 0
           /\ owned' = owned \ (Awaited(c).owners \cap registered)
  <2>1. q \in owned /\ q \notin Awaited(c).owners BY <1>1, <1>2, <1>9
  <2>2. SUFFICES ASSUME q \in Owners PROVE Orphan(q)' BY <1>3, <2>1
  <2>3. current # 0 /\ q \in Held.owners BY <2>2 DEF Owners
  <2>4. calls[c].rec # current BY <2>1, <2>3 DEF Held, Awaited
  <2>5. ~live /\ live' = live /\ \A d \in DOMAIN calls : calls[d].pc \in Place => Awaited(d).outcome = "error"
    BY <1>9, <2>4, RollbackFacts DEF Moves
  <2>6. c \in DOMAIN calls /\ calls[c].pc = "create" /\ calls[c].pc \in Place BY <1>9 DEF Was, Place
  <2>7. /\ calls[c].rec \in DOMAIN records /\ calls[c].rec < current /\ current \in DOMAIN records
    BY <2>3, <2>4, <2>6, Parts1, AwaitedRecord, HeldRecord
  <2>8. records[calls[c].rec].inflight BY <2>6, Parts1 DEF Creators, Awaited
  <2>9. records[current].inflight BY <2>7, <2>8, Parts1 DEF Fifo
  <2>10. PICK y \in DOMAIN calls : calls[y].pc = "create" /\ calls[y].rec = current
    BY <2>7, <2>9, Parts1 DEF Creators
  <2>11. y # c /\ calls[y].pc \in Place BY <2>4, <2>10 DEF Place
  <2>12. CallFacts(made, c) BY Parts1, MovesCalls
  <2>13. y \in DOMAIN calls' /\ calls'[y] = calls[y] BY <2>11, <2>12 DEF CallFacts
  <2>14. records'[current] = records[current] BY <1>9, <2>4, <2>7 DEF RollsBack, Reowns
  <2>15. records[current].outcome = "error" BY <2>5, <2>10, <2>11 DEF Awaited
  <2> QED BY <1>9, <2>3, <2>5, <2>10, <2>13, <2>14, <2>15 DEF Orphan, Awaited, Held
<1> QED BY <1>4, <1>5, <1>6, <1>7, <1>8, <1>9, Parts1, MovesOwners

(* The record in `subscriptions' is in flight: its creator waits for it.   *)
LEMMA HeldCreator ==
  ASSUME Inv, current # 0, Held.inflight
  PROVE  /\ current \in DOMAIN records
         /\ \E y \in DOMAIN calls : /\ calls[y].pc = "create" /\ calls[y].rec = current
                                    /\ calls[y].pc \in Place /\ Owners = {calls[y].peer}
<1>1. current \in DOMAIN records BY Parts1, HeldRecord
<1>2. PICK y \in DOMAIN calls : calls[y].pc = "create" /\ calls[y].rec = current
  BY <1>1, Parts1 DEF Creators, Held
<1> QED BY <1>1, <1>2, Parts1 DEF Kept, Place

LEMMA DeadHeld ==
  ASSUME Inv, current # 0, Held.inflight, ~live
  PROVE  Held.outcome # "ok" /\ (sent = <<>> => Held.outcome = "error")
<1>1. PICK y \in DOMAIN calls : calls[y].pc = "create" /\ calls[y].rec = current /\ calls[y].pc \in Place
  BY HeldCreator
<1> QED BY <1>1, Parts1, DeadIsError DEF DeadSettle, Held, Awaited

LEMMA DeadSettleMoves ==
  ASSUME Inv, NEW made, NEW c, NEW rest, Moves(made, c, rest)
  PROVE  DeadSettle'
<1>1. SUFFICES ASSUME ~live', NEW x \in DOMAIN calls', calls'[x].pc \in Place
      PROVE  records'[calls'[x].rec].outcome # "ok"
  BY DEF DeadSettle, Awaited
<1>2. ~live BY <1>1 DEF Moves
<1>3. CASE x # c
  <2>1. x \in DOMAIN calls /\ calls'[x] = calls[x] BY <1>3, Parts1, OtherCalls
  <2> QED BY <1>1, <1>2, <2>1, Parts1, OtherRecords DEF DeadSettle
<1>4. CASE x = c /\ calls'[c].pc = "create"
  <2>1. Opened(made, c).outcome = "error" BY <1>2 DEF Opened
  <2> QED BY <1>4, <2>1, Parts1, MovesFounder
<1>5. CASE x = c /\ calls'[c].pc \in {"join", "drop"}
  <2>1. calls'[c].rec = current /\ current # 0 /\ current' = current
        /\ (Joins(made, c, rest) \/ Lingers(made, c, rest))
    BY <1>5, Parts1, MoverWaits
  <2>2. Held.inflight BY <2>1 DEF Joins, Lingers, Parks, Lines
  <2>3. Held.outcome # "ok" BY <1>2, <2>1, <2>2, DeadHeld
  <2>4. Held'.outcome = Held.outcome BY <2>1, HeldMoves
  <2> QED BY <1>5, <2>1, <2>3, <2>4 DEF Held
<1> QED BY <1>1, <1>3, <1>4, <1>5 DEF Place

(* The release of one of several owners is nobody's who waits to drop.      *)
LEMMA OthersDrop ==
  ASSUME Inv, NEW made, NEW c, NEW rest, Moves(made, c, rest), Parts(made, c, rest),
         ~LastOwnersOf({made[c].peer}),
         NEW d \in DOMAIN calls, d # c, calls[d].pc = "drop", calls[d].peer \in registered,
         Awaited(d).outcome # "error"
  PROVE  calls[d].peer # made[c].peer
<1>1. SUFFICES ASSUME calls[d].peer = made[c].peer PROVE FALSE OBVIOUS
<1>2. calls[d].pc \in Place /\ calls[d].rec = current /\ calls[d].peer \in Owners /\ current # 0
  <2>1. calls[d].pc \in Place BY DEF Place
  <2>2. calls[d].rec = current /\ calls[d].peer \in Owners BY Parts1 DEF DropsHeld
  <2> QED BY <2>1, <2>2, Parts1, AwaitedRecord
<1>3. Desk(made, c, rest) BY DEF Moves
<1>4. ~In(jobs, d)
  <2>1. SUFFICES ASSUME In(jobs, d) PROVE FALSE OBVIOUS
  <2>2. ~New(c) BY <1>3, <2>1, NothingIn DEF Desk, New
  <2>3. Was(c, "yield") BY <2>2 DEF Parts, New
  <2>4. made[c] = calls[c] BY <1>3, <2>2 DEF Desk, New
  <2>5. Releases(c) /\ c \in DOMAIN calls BY <1>1, <2>3, <2>4 DEF Releases, Was
  <2>6. Ahead(jobs, c, d) BY <1>3, <2>1, HeadIsAhead
  <2> QED BY <2>5, <2>6, Parts1 DEF JobsOrder
<1>5. Awaited(d).outcome = "none" BY <1>2, <1>4, Parts1 DEF Placed
<1>6. current \in DOMAIN records BY <1>2, Parts1, HeldRecord
<1>7. Held.inflight BY <1>2, <1>5, <1>6, Parts1 DEF Creators, Awaited, Held
<1>8. Owners = {calls[d].peer} BY <1>2, <1>7, HeldCreator
<1> QED BY <1>1, <1>2, <1>8 DEF LastOwnersOf, Owners, Held

LEMMA DropsHeldMoves ==
  ASSUME Inv, NEW made, NEW c, NEW rest, Moves(made, c, rest)
  PROVE  DropsHeld'
<1>1. SUFFICES ASSUME NEW d \in DOMAIN calls', calls'[d].pc = "drop", calls'[d].peer \in registered',
                      records'[calls'[d].rec].outcome # "error"
      PROVE  calls'[d].rec = current' /\ calls'[d].peer \in Owners'
  BY DEF DropsHeld, Awaited
<1>2. registered' = registered BY DEF Moves
<1>3. CASE d = c
  <2>1. Lingers(made, c, rest) /\ calls'[c].rec = current /\ current' = current /\ current # 0
    BY <1>1, <1>3, Parts1, MoverWaits
  <2>2. Held.inflight /\ Owners' = Owners
    BY <2>1, Parts1, OwnersOfEffects DEF Lingers, Parks, Lines
  <2>3. made[c].peer \in registered \cap owned /\ calls'[c].peer = made[c].peer
    <3>1. CallFacts(made, c) BY Parts1, MovesCalls
    <3> QED BY <2>1, <3>1 DEF Lingers, CallFacts
  <2>4. ASSUME Orphan(made[c].peer) PROVE FALSE
    <3>1. ~live /\ sent = <<>> BY <2>4 DEF Orphan, Moves
    <3>2. Held.outcome = "error" BY <2>1, <2>2, <3>1, DeadHeld
    <3>3. Held'.outcome = "error" BY <2>1, <3>2, HeldMoves
    <3> QED BY <1>1, <1>3, <2>1, <3>3 DEF Held
  <2> QED BY <1>3, <2>1, <2>2, <2>3, <2>4, Parts1 DEF OwnedOrOrphan
<1>4. CASE d # c
  <2>1. d \in DOMAIN calls /\ calls'[d] = calls[d] /\ calls[d].pc = "drop" /\ calls[d].pc \in Place
    BY <1>1, <1>4, Parts1, OtherCalls DEF Place
  <2>2. Awaited(d).outcome # "error" BY <1>1, <2>1, OtherRecords
  <2>3. calls[d].rec = current /\ calls[d].peer \in Owners
    BY <1>1, <1>2, <2>1, <2>2, Parts1 DEF DropsHeld
  <2>4. current' = current BY <1>4, <2>1, <2>2, <2>3, LosesRecord
  <2>5. current # 0 BY <2>1, <2>3, Parts1, AwaitedRecord
  <2>6. ASSUME Parts(made, c, rest), ~LastOwnersOf({made[c].peer}), Owners' = Owners \ {made[c].peer}
        PROVE  calls[d].peer \in Owners'
    <3>1. calls[d].peer # made[c].peer BY <1>1, <1>2, <1>4, <2>1, <2>2, <2>6, OthersDrop
    <3> QED BY <2>3, <2>6, <3>1
  <2>7. calls[d].peer \in Owners' BY <2>3, <2>4, <2>5, <2>6, Parts1, MovesOwners
  <2> QED BY <2>1, <2>3, <2>4, <2>7
<1> QED BY <1>3, <1>4

LEMMA DropsOwnMoves ==
  ASSUME Inv, NEW made, NEW c, NEW rest, Moves(made, c, rest)
  PROVE  DropsOwn'
<1>1. SUFFICES ASSUME NEW x \in DOMAIN calls', NEW d \in DOMAIN calls',
                      calls'[d].pc \in {"drop", "yield"}, calls'[d].peer \in registered',
                      calls'[x].peer = calls'[d].peer
      PROVE  /\ calls'[x].pc = "create" => calls'[d].pc = "drop" /\ calls'[d].rec = calls'[x].rec
             /\ calls'[x].pc = "join" =>
                  \/ calls'[d].pc = "drop" /\ calls'[d].rec = current'
                  \/ calls'[x].rec = current'
                  \/ records'[calls'[x].rec].outcome = "error"
  BY DEF DropsOwn, Drops, Awaited
<1>2. registered' = registered /\ Desk(made, c, rest) BY DEF Moves
<1>3. CallFacts(made, c) BY Parts1, MovesCalls
<1>4. CASE x # c /\ d # c
  <2>1. /\ x \in DOMAIN calls /\ calls'[x] = calls[x] /\ d \in DOMAIN calls /\ calls'[d] = calls[d]
    BY <1>4, Parts1, OtherCalls
  <2>2. Drops(d) /\ calls[x].peer = calls[d].peer BY <1>1, <1>2, <2>1 DEF Drops
  <2>3. calls[x].pc = "create" => calls[d].pc = "drop" /\ calls[d].rec = calls[x].rec
    BY <2>1, <2>2, Parts1 DEF DropsOwn
  <2>4. ASSUME calls[x].pc = "join"
        PROVE  \/ calls[d].pc = "drop" /\ calls[d].rec = current'
               \/ calls[x].rec = current'
               \/ records'[calls[x].rec].outcome = "error"
    <3>1. calls[x].pc \in Place /\ calls[x].rec \in DOMAIN records /\ calls[x].rec \in Nat
          /\ calls[x].rec <= Len(records)
      BY <2>1, <2>4, Parts1, AwaitedRecord DEF Place
    <3>2. \/ calls[d].pc = "drop" /\ calls[d].rec = current
          \/ calls[x].rec = current \/ Awaited(x).outcome = "error"
      BY <2>1, <2>2, <2>4, Parts1 DEF DropsOwn
    <3>3. CASE Awaited(x).outcome = "error" BY <2>1, <3>1, <3>3, OtherRecords
    <3>4. CASE calls[x].rec = current /\ current' # current
      <4>1. Awaited(x).outcome = "error" BY <1>4, <2>1, <3>1, <3>4, LosesRecord
      <4> QED BY <2>1, <3>1, <4>1, OtherRecords
    <3>5. CASE /\ calls[d].pc = "drop" /\ calls[d].rec = current /\ current' # current
               /\ calls[x].rec # current
      <4>1. /\ Was(c, "create") /\ RollsBack(c, rest) /\ current # 0 /\ current \in Nat
            /\ calls[d].pc \in Place /\ current = Len(records) /\ current \in DOMAIN records
        <5>1. calls[d].pc \in Place BY <3>5 DEF Place
        <5>2. Was(c, "create") /\ RollsBack(c, rest) BY <1>4, <2>1, <3>5, <5>1, LosesRecord
        <5> QED BY <2>1, <3>5, <5>1, <5>2, Parts1, AwaitedRecord, HeldRecord
      <4>2. CASE ~live /\ \A e \in DOMAIN calls : calls[e].pc \in Place => Awaited(e).outcome = "error"
        BY <2>1, <3>1, <4>2, OtherRecords
      <4>3. CASE calls[c].rec = current /\ Awaited(c).outcome = "error"
        <5>1. calls[x].rec < current BY <3>1, <3>5, <4>1
        <5>2. In(jobs, x) BY <2>1, <3>1, <4>1, <4>3, <5>1, EarlierIsSettled DEF Awaited
        <5>3. Ahead(jobs, c, x) BY <1>2, <1>4, <5>2, HeadIsAhead
        <5>4. calls[c].rec <= calls[x].rec
          BY <2>1, <3>1, <4>1, <5>3, Parts1 DEF JobsOrder, Was
        <5> QED BY <3>1, <4>1, <4>3, <5>1, <5>4
      <4> QED BY <4>1, <4>2, <4>3, RollbackFacts
    <3> QED BY <3>2, <3>3, <3>4, <3>5
  <2> QED BY <2>1, <2>3, <2>4
<1>5. CASE x # c /\ d = c
  <2>1. x \in DOMAIN calls /\ calls'[x] = calls[x] BY <1>5, Parts1, OtherCalls
  <2>2. CASE calls'[c].pc = "drop"
    <3>1. Lingers(made, c, rest) /\ calls'[c].rec = current /\ current' = current /\ current # 0
      BY <2>2, Parts1, MoverWaits
    <3>2. jobs = <<>> BY <1>2, <3>1 DEF Lingers, Desk, New
    <3>3. ASSUME calls[x].pc = "create", calls[x].rec # current PROVE FALSE
      <4>1. calls[x].pc \in Place BY <3>3 DEF Place
      <4>2. Awaited(x).outcome = "none" BY <2>1, <3>2, <4>1, AtRest
      <4> QED BY <1>1, <1>2, <1>5, <2>1, <3>3, <4>2, Parts1 DEF Superseded
    <3> QED BY <1>5, <2>1, <2>2, <3>1, <3>3
  <2>3. CASE calls'[c].pc = "yield"
    <3>1. Was(c, "drop") /\ Yields(c, rest) /\ made = calls /\ Awaited(c).outcome # "none"
      BY <2>3, Parts1, MoverWaits
    <3>2. /\ c \in DOMAIN calls /\ calls[c].pc = "drop" /\ calls[c].pc \in Place
          /\ calls'[c].peer = calls[c].peer /\ current' = current
      BY <1>3, <3>1 DEF Was, CallFacts, Place, Yields
    <3>3. Drops(c) /\ calls[x].peer = calls[c].peer BY <1>1, <1>2, <1>5, <2>1, <3>2 DEF Drops
    <3>4. calls[c].rec \in DOMAIN records /\ calls[c].rec \in Nat BY <3>2, Parts1, AwaitedRecord
    <3>5. ASSUME calls[x].pc = "create" PROVE FALSE
      <4>1. calls[c].rec = calls[x].rec BY <2>1, <3>2, <3>3, <3>5, Parts1 DEF DropsOwn
      <4>2. calls[x].pc \in Place BY <3>5 DEF Place
      <4>3. In(jobs, x) BY <2>1, <3>1, <4>1, <4>2, Parts1 DEF Placed, Awaited
      <4>4. Ahead(jobs, c, x) BY <1>2, <1>5, <4>3, HeadIsAhead
      <4>5. calls[c].rec < calls[x].rec BY <2>1, <3>2, <3>5, <4>4, Parts1 DEF JobsOrder
      <4> QED BY <3>4, <4>1, <4>5
    <3>6. ASSUME calls[x].pc = "join"
          PROVE  calls[x].rec = current \/ Awaited(x).outcome = "error"
      <4>1. SUFFICES ASSUME calls[x].rec # current, Awaited(x).outcome # "error" PROVE FALSE OBVIOUS
      <4>2. calls[c].rec = current BY <2>1, <3>2, <3>3, <3>6, <4>1, Parts1 DEF DropsOwn
      <4>3. calls[x].pc \in Place BY <3>6 DEF Place
      <4>4. /\ calls[x].rec \in Nat /\ calls[x].rec <= current
            /\ Awaited(x).outcome \in {"none", "ok", "error"}
        BY <2>1, <3>2, <4>2, <4>3, Parts1, AwaitedRecord, HeldRecord
      <4>5. Awaited(x).outcome # "none" /\ In(jobs, x)
        BY <2>1, <3>1, <3>4, <4>2, <4>3, <4>4, EarlierIsSettled DEF Awaited
      <4>6. Stale(x) BY <3>6, <4>1, <4>4, <4>5 DEF Stale
      <4>7. Ahead(jobs, c, x) BY <1>2, <1>5, <4>5, HeadIsAhead
      <4> QED BY <2>1, <3>2, <3>3, <4>6, <4>7, Parts1 DEF JobsOrder
    <3>7. calls[x].pc = "join" => records'[calls[x].rec].outcome = Awaited(x).outcome
      BY <2>1, OtherRecords DEF Place
    <3> QED BY <2>1, <3>2, <3>5, <3>6, <3>7
  <2> QED BY <1>1, <1>5, <2>2, <2>3
<1>6. CASE x = c /\ d # c
  <2>1. d \in DOMAIN calls /\ calls'[d] = calls[d] BY <1>6, Parts1, OtherCalls
  <2>2. Drops(d) /\ calls[d].peer = made[c].peer BY <1>1, <1>2, <1>3, <1>6, <2>1 DEF Drops, CallFacts
  <2>3. ASSUME calls'[c].pc = "create" PROVE FALSE
    <3>1. Founds(made, c, rest) /\ current = 0 BY <2>3, Parts1, MovesFounder
    <3>2. CASE New(c)
      <4>1. made[c].op = "subscribe" BY <3>1 DEF Founds
      <4>2. calls[d].pc \in Waits /\ calls[d].op = "unsubscribe"
        BY <2>1, <2>2, Parts1 DEF Drops, Waits, Base, CallsOK
      <4>3. d \in Unanswered(made[c].peer) BY <2>1, <2>2, <4>2 DEF Unanswered
      <4> QED BY <3>2, <4>1, <4>2, <4>3 DEF Moves
    <3>3. CASE Stale(c) /\ c \in DOMAIN calls
      <4>1. made[c] = calls[c] BY <1>2, <3>3 DEF Desk
      <4>2. calls[d].pc = "drop" /\ calls[d].rec = current
        BY <2>1, <2>2, <3>3, <4>1, Parts1 DEF DropsOwn, Stale
      <4>3. calls[d].rec # 0 BY <2>1, <4>2, Parts1, AwaitedRecord DEF Place
      <4> QED BY <3>1, <4>2, <4>3
    <3> QED BY <3>1, <3>2, <3>3 DEF Founds
  <2>4. calls'[c].pc = "join" => calls'[c].rec = current' BY Parts1, MoverWaits
  <2> QED BY <1>6, <2>3, <2>4
<1>7. CASE x = c /\ d = c BY <1>1, <1>7
<1> QED BY <1>4, <1>5, <1>6, <1>7

(* A command that takes tmux from what it will be bound to to what the      *)
(* ledger now holds.                                                       *)
LEMMA SentAlternates ==
  ASSUME Inv, live, NEW m \in Command, sent' = Append(sent, m), bound' = bound, live' = live,
         m.rec = current', current = 0 <=> m.rec # 0,
         sent = <<>> => (m.rec # 0 <=> bound = None)
  PROVE  Binding'
<1>1. /\ DOMAIN sent' = 1..(Len(sent) + 1) /\ DOMAIN sent = 1..Len(sent) /\ Len(sent) \in Nat
      /\ Len(sent') = Len(sent) + 1 /\ sent' # <<>>
      /\ \A i \in DOMAIN sent : i \in DOMAIN sent' /\ sent'[i] = sent[i]
      /\ sent'[Len(sent) + 1] = m /\ Len(sent) + 1 \in DOMAIN sent'
  BY Parts1, SentGrows
<1>2. sent \in Seq(Command) BY Parts1 DEF Base, Types
<1>3. /\ \A i, j \in DOMAIN sent : j = i + 1 => (sent[i].rec = 0 <=> sent[j].rec # 0)
      /\ sent # <<>> => (sent[1].rec # 0 <=> bound = None) /\ sent[Len(sent)].rec = current
  BY Parts1 DEF Binding
<1>4. sent # <<>> => 1 \in DOMAIN sent /\ Len(sent) \in DOMAIN sent BY <1>1, <1>2
<1>5. sent = <<>> => Len(sent) = 0 BY <1>2
<1>6. ASSUME NEW i \in DOMAIN sent', NEW j \in DOMAIN sent', j = i + 1
      PROVE  sent'[i].rec = 0 <=> sent'[j].rec # 0
  <2>1. i \in DOMAIN sent BY <1>1, <1>6
  <2>2. CASE j \in DOMAIN sent BY <1>1, <1>3, <1>6, <2>1, <2>2
  <2>3. CASE j \notin DOMAIN sent
    <3>1. j = Len(sent) + 1 /\ i = Len(sent) BY <1>1, <1>6, <2>1, <2>3
    <3>2. sent # <<>> BY <1>1, <1>5, <2>1
    <3>3. sent'[i].rec = current /\ sent'[j] = m BY <1>1, <1>3, <2>1, <3>1, <3>2
    <3> QED BY <3>3
  <2> QED BY <2>2, <2>3
<1>7. sent'[1].rec # 0 <=> bound' = None
  <2>1. CASE sent = <<>> BY <1>1, <1>5, <2>1
  <2>2. CASE sent # <<>> BY <1>1, <1>3, <1>4, <2>2
  <2> QED BY <2>1, <2>2
<1>8. sent'[Len(sent')].rec = current' BY <1>1
<1> QED BY <1>1, <1>6, <1>7, <1>8 DEF Binding

(* Of the record in `subscriptions' in flight, tmux has not been told yet   *)
(* or has just answered.                                                   *)
LEMMA RolledBackAlone ==
  ASSUME Inv, live, NEW r, r = current, current # 0, records[r].outcome = "error"
  PROVE  sent = <<>> /\ bound = None
<1>1. sent = <<>>
  <2>1. SUFFICES ASSUME sent # <<>> PROVE FALSE OBVIOUS
  <2>2. Len(sent) \in DOMAIN sent BY <2>1, Parts1, SentHead
  <2>3. sent[Len(sent)].rec = current BY <2>1, Parts1 DEF Binding
  <2>4. records[current].outcome = "none" BY <2>2, <2>3, Parts1 DEF Base, SentOK, SentFits
  <2> QED BY <2>4
<1> QED BY <1>1, Parts1 DEF Binding, Held

LEMMA BindingMoves ==
  ASSUME Inv, NEW made, NEW c, NEW rest, Moves(made, c, rest)
  PROVE  Binding'
<1>1. SUFFICES ASSUME live PROVE Binding' BY DEF Moves, Binding
<1>2. live' = live /\ bound' = bound /\ c \in Nat BY DEF Moves, Desk
<1>3. Len(records) \in Nat BY Parts1, HeldRecord
<1>4. CASE Founds(made, c, rest)
  <2>1. PICK m : m = [rec |-> Len(records) + 1, call |-> c] OBVIOUS
  <2>2. m \in Command /\ m.rec = Len(records) + 1 BY <1>2, <1>3, <2>1 DEF Command
  <2>3. sent' = Append(sent, m) /\ current = 0 /\ current' = m.rec /\ m.rec # 0
    BY <1>1, <1>3, <1>4, <2>1, <2>2 DEF Founds, Creates
  <2>4. sent = <<>> => bound = None BY <1>1, <2>3, Parts1 DEF Binding
  <2> QED BY <1>1, <1>2, <2>2, <2>3, <2>4, SentAlternates
<1>5. CASE Parts(made, c, rest) /\ LastOwnersOf({made[c].peer})
  <2>1. PICK m : m = [rec |-> 0, call |-> c] OBVIOUS
  <2>2. m \in Command /\ m.rec = 0 BY <1>2, <2>1 DEF Command
  <2>3. sent' = Append(sent, m) /\ current' = 0
    BY <1>1, <1>5, <2>1 DEF Parts, Unowns, Relieves
  <2>4. current # 0 /\ ~Held.inflight BY <1>5, Takedown
  <2>5. Held.outcome = "ok" BY <2>4, Parts1 DEF Kept
  <2>6. Held.args # None
    <3>1. current \in DOMAIN records BY <2>4, Parts1, HeldRecord
    <3>2. Held.args \in Args BY <3>1, Parts1, HeldRecord, RecordFields DEF Held
    <3> QED BY <3>2, LedgerAssumption
  <2>7. sent = <<>> => bound # None BY <1>1, <2>4, <2>5, <2>6, Parts1 DEF Binding
  <2> QED BY <1>1, <1>2, <2>2, <2>3, <2>4, <2>7, SentAlternates
<1>6. CASE ~Founds(made, c, rest) /\ ~(Parts(made, c, rest) /\ LastOwnersOf({made[c].peer}))
  <2>1. sent' = sent BY <1>6, Parts1, MovesSent DEF Told
  <2>2. CASE current' = current
    <3>1. current # 0 => Held'.args = Held.args /\ Held'.outcome = Held.outcome
      BY <2>2, HeldMoves
    <3>2. live /\ Binding BY <1>1, Parts1
    <3> QED BY <1>2, <2>1, <2>2, <3>1, <3>2 DEF Binding
  <2>3. CASE current' # current
    <3>1. Was(c, "create") /\ RollsBack(c, rest) /\ current' = 0
      BY <1>6, <2>3, Parts1, MovesCurrent
    <3>2. calls[c].rec = current /\ current # 0 /\ Awaited(c).outcome = "error"
      BY <1>1, <3>1, RollbackFacts
    <3>3. sent = <<>> /\ bound = None BY <1>1, <3>2, RolledBackAlone DEF Awaited
    <3>4. DOMAIN sent' = {} BY <2>1, <3>3
    <3> QED BY <1>2, <2>1, <3>1, <3>3, <3>4 DEF Binding
  <2> QED BY <2>2, <2>3
<1> QED BY <1>4, <1>5, <1>6

LEMMA MoverIsOk ==
  ASSUME Base, NEW made, NEW c, NEW rest, Moves(made, c, rest),
         calls'[c].pc = "ok", made[c].op = "subscribe"
  PROVE  Shares(made, c, rest) \/ (made = calls /\ Was(c, "create") /\ Confirms(c, rest))
<1>1. CASE Stays(made, c, rest) BY <1>1 DEF Stays, Quits, Turns
<1>2. CASE Joins(made, c, rest) BY <1>2 DEF Joins, Parks, Lines, Turns
<1>3. CASE Lingers(made, c, rest) BY <1>3 DEF Lingers, Parks, Lines, Turns
<1>4. CASE Founds(made, c, rest) BY <1>4 DEF Founds, Creates, Turns
<1>5. CASE Parts(made, c, rest) BY <1>5 DEF Parts
<1>6. CASE RollsBack(c, rest) BY <1>6 DEF RollsBack, Turns
<1>7. CASE Yields(c, rest) BY <1>7 DEF Yields, Turns
<1> QED BY <1>1, <1>2, <1>3, <1>4, <1>5, <1>6, <1>7 DEF Moves

LEMMA MoverPended ==
  ASSUME Base, NEW made, NEW c, NEW rest, Moves(made, c, rest), ~New(c)
  PROVE  c \in DOMAIN calls /\ made[c] = calls[c] /\ calls[c].pc \in Waits
<1>1. c \in DOMAIN calls /\ made[c] = calls[c] BY DEF New, Moves, Desk
<1>2. Was(c, "join") \/ Was(c, "yield") \/ Was(c, "create") \/ Was(c, "drop") \/ Stale(c)
  BY DEF Moves, Stays, Joins, Lingers, Shares, Founds, Parts
<1> QED BY <1>1, <1>2 DEF Was, Stale, Waits

LEMMA MadeOwns ==
  ASSUME Inv, live, NEW made, NEW c, NEW rest, Moves(made, c, rest),
         calls'[c].pc = "ok", made[c].op = "subscribe", made[c].peer \in registered
  PROVE  /\ current' # 0 /\ made[c].peer \in Owners' /\ ~Held'.inflight
         /\ Held'.args = made[c].args
<1>1. CASE Shares(made, c, rest)
  <2>1. /\ current # 0 /\ current' = current /\ ~Held.inflight /\ Held.args = made[c].args
    BY <1>1 DEF Shares, Claims
  <2>2. made[c].peer \in owned => made[c].peer \in Owners
    BY Parts1 DEF OwnedOrOrphan, Orphan
  <2>3. made[c].peer \in Owners'
    <3>1. IF made[c].peer \in owned THEN records' = records
            ELSE Reowns(current, Held.owners \cup {made[c].peer}, Held.inflight)
      BY <1>1 DEF Shares, Claims
    <3>2. made[c].peer \in owned => Owners' = Owners BY <2>1, <3>1, Parts1, OwnersOfEffects
    <3>3. made[c].peer \notin owned => Owners' = Held.owners \cup {made[c].peer}
      BY <2>1, <3>1, Parts1, OwnersOfEffects
    <3> QED BY <2>2, <3>2, <3>3
  <2> QED BY <2>1, <2>3, HeldMoves
<1>2. CASE made = calls /\ Was(c, "create") /\ Confirms(c, rest)
  <2>1. c \in DOMAIN calls /\ calls[c].pc = "create" /\ calls[c].pc \in Place BY <1>2 DEF Was, Place
  <2>2. calls[c].rec = current BY <1>2, <2>1, Parts1 DEF Superseded
  <2>3. current # 0 /\ current' = current BY <1>2, <2>1, <2>2, Parts1, AwaitedRecord DEF Confirms
  <2>4. Owners = {calls[c].peer} BY <2>1, <2>2, <2>3, Parts1 DEF Kept
  <2>5. Held.args = calls[c].args BY <2>1, <2>2, Parts1 DEF Base, CallsOK, Held, Awaited
  <2>6. Owners' = Owners
    <3>1. Reowns(current, Owners, FALSE) BY <1>2, <2>2, <2>3 DEF Confirms, Owners, Held, Awaited
    <3> QED BY <2>3, <3>1, Parts1, OwnersOfEffects
  <2> QED BY <1>2, <2>2, <2>3, <2>4, <2>5, <2>6, HeldMoves
<1> QED BY <1>1, <1>2, Parts1, MoverIsOk

LEMMA LatestHoldsMoves ==
  ASSUME Inv, NEW made, NEW c, NEW rest, Moves(made, c, rest)
  PROVE  LatestHolds'
<1>1. SUFFICES ASSUME NEW p \in Peers, last'[p] # 0
      PROVE  /\ calls'[last'[p]].peer = p
             /\ calls'[last'[p]].op = "subscribe" =>
                 /\ \A d \in DOMAIN calls' :
                      calls'[d].peer = p /\ calls'[d].pc \in Waits => calls'[d].op = "subscribe"
                 /\ live' /\ calls'[last'[p]].pc = "ok" /\ p \in registered' =>
                      /\ current' # 0 /\ p \in Owners' /\ ~Held'.inflight
                      /\ Held'.args = calls'[last'[p]].args
  BY DEF LatestHolds
<1>2. /\ live' = live /\ registered' = registered /\ Desk(made, c, rest)
      /\ New(c) => last' = [last EXCEPT ![made[c].peer] = c]
      /\ ~New(c) => last' = last
  BY DEF Moves
<1>3. CallFacts(made, c) BY Parts1, MovesCalls
<1>4. last \in [Peers -> Nat] /\ last[p] <= Len(calls) /\ DOMAIN calls = 1..Len(calls)
  BY Parts1 DEF Base, Types, LastOK
<1>5. \A d \in DOMAIN calls' : d # c => d \in DOMAIN calls /\ calls'[d] = calls[d]
  BY <1>3 DEF CallFacts
<1>6. CASE New(c) /\ p = made[c].peer
  <2>1. last'[p] = c BY <1>2, <1>4, <1>6
  <2>2. calls'[c].peer = p /\ calls'[c].op = made[c].op /\ calls'[c].args = made[c].args
    BY <1>3, <1>6 DEF CallFacts
  <2>3. ASSUME made[c].op = "subscribe", NEW d \in DOMAIN calls', calls'[d].peer = p,
               calls'[d].pc \in Waits
        PROVE  calls'[d].op = "subscribe"
    <3>1. CASE d = c BY <2>2, <2>3, <3>1
    <3>2. CASE d # c
      <4>1. d \in DOMAIN calls /\ calls'[d] = calls[d] BY <1>5, <3>2
      <4>2. d \in Unanswered(made[c].peer) BY <1>6, <2>3, <4>1 DEF Unanswered
      <4>3. calls[d].op = "subscribe" BY <1>6, <2>3, <4>2 DEF Moves
      <4> QED BY <4>1, <4>3
    <3> QED BY <3>1, <3>2
  <2>4. ASSUME made[c].op = "subscribe", live', calls'[c].pc = "ok", p \in registered'
        PROVE  current' # 0 /\ p \in Owners' /\ ~Held'.inflight /\ Held'.args = made[c].args
    BY <1>2, <1>6, <2>4, MadeOwns
  <2> QED BY <2>1, <2>2, <2>3, <2>4
<1>7. CASE ~(New(c) /\ p = made[c].peer)
  <2>1. last'[p] = last[p] BY <1>2, <1>4, <1>7
  <2>2. PICK l : l = last[p] OBVIOUS
  <2>3. l \in DOMAIN calls /\ l # 0 BY <1>1, <1>4, <2>1, <2>2
  <2>4. calls[l].peer = p BY <2>2, <2>3, Parts1 DEF LatestHolds
  <2>5. l = c => ~New(c) BY <2>3 DEF New
  <2>6. calls'[l].peer = p /\ calls'[l].op = calls[l].op /\ calls'[l].args = calls[l].args
    BY <1>3, <2>3, <2>4, <2>5 DEF CallFacts
  <2>7. SUFFICES ASSUME calls[l].op = "subscribe"
        PROVE  /\ \A d \in DOMAIN calls' :
                     calls'[d].peer = p /\ calls'[d].pc \in Waits => calls'[d].op = "subscribe"
               /\ live' /\ calls'[l].pc = "ok" /\ p \in registered' =>
                     /\ current' # 0 /\ p \in Owners' /\ ~Held'.inflight
                     /\ Held'.args = calls'[l].args
    BY <2>1, <2>2, <2>6
  <2>8. \A d \in DOMAIN calls : calls[d].peer = p /\ calls[d].pc \in Waits => calls[d].op = "subscribe"
    BY <2>2, <2>3, <2>7, Parts1 DEF LatestHolds
  <2>9. ASSUME ~New(c), made[c].peer = p PROVE made[c].op = "subscribe"
    <3>1. c \in DOMAIN calls /\ made[c] = calls[c] /\ calls[c].pc \in Waits
      BY <2>9, Parts1, MoverPended
    <3> QED BY <2>8, <2>9, <3>1
  <2>10. ASSUME NEW d \in DOMAIN calls', calls'[d].peer = p, calls'[d].pc \in Waits
         PROVE  calls'[d].op = "subscribe"
    <3>1. CASE d # c BY <1>5, <2>8, <2>10, <3>1
    <3>2. CASE d = c
      <4>1. calls'[c].peer = made[c].peer /\ calls'[c].op = made[c].op BY <1>3 DEF CallFacts
      <4> QED BY <1>7, <2>9, <2>10, <3>2, <4>1
    <3> QED BY <3>1, <3>2
  <2>11. ASSUME live', calls'[l].pc = "ok", p \in registered'
         PROVE  current' # 0 /\ p \in Owners' /\ ~Held'.inflight /\ Held'.args = calls'[l].args
    <3>1. CASE l = c
      <4>1. made[c] = calls[c] BY <1>2, <2>3, <3>1 DEF Desk
      <4> QED BY <1>2, <2>4, <2>6, <2>7, <2>11, <3>1, <4>1, MadeOwns
    <3>2. CASE l # c
      <4>1. calls'[l] = calls[l] BY <1>3, <2>3, <3>2 DEF CallFacts
      <4>2. current # 0 /\ p \in Owners /\ ~Held.inflight /\ Held.args = calls[l].args
        BY <1>2, <2>2, <2>3, <2>7, <2>11, <4>1, Parts1 DEF LatestHolds
      <4>3. ASSUME Parts(made, c, rest) PROVE made[c].peer # p
        <5>1. made[c].op = "unsubscribe" BY <4>3 DEF Parts
        <5> QED BY <1>7, <2>9, <5>1
      <4>4. ~(Parts(made, c, rest) /\ LastOwnersOf({made[c].peer})) BY <4>2, <4>3, Takedown
      <4>5. ~(Was(c, "create") /\ RollsBack(c, rest))
        <5>1. SUFFICES ASSUME Was(c, "create"), RollsBack(c, rest) PROVE FALSE OBVIOUS
        <5>2. calls[c].rec = current BY <1>2, <2>11, <5>1, RollbackFacts
        <5>3. Held.inflight BY <5>1, <5>2, Parts1 DEF Creators, Awaited, Held, Was
        <5> QED BY <4>2, <5>3
      <4>6. current' = current BY <4>2, <4>4, <4>5, Parts1, MovesCurrent
      <4>7. p \in Owners'
        <5>1. \/ Owners' = Owners \/ Owners' = Owners \cup {made[c].peer}
              \/ Parts(made, c, rest) /\ Owners' = Owners \ {made[c].peer}
          BY <4>2, <4>4, <4>5, Parts1, MovesOwners
        <5> QED BY <4>2, <4>3, <5>1
      <4> QED BY <2>6, <4>2, <4>6, <4>7, HeldMoves
    <3> QED BY <3>1, <3>2
  <2> QED BY <2>10, <2>11
<1> QED BY <1>6, <1>7

(* A turn of a call keeps the lot.                                         *)
LEMMA MovesOrderly ==
  ASSUME Inv, NEW made, NEW c, NEW rest, Moves(made, c, rest)
  PROVE  Orderly'
BY PlacedMoves, CreatorsMoves, FifoMoves, JobsOrderMoves, FreshMoves, KeptMoves, SupersededMoves,
   OwnedOrOrphanMoves, DeadSettleMoves, DropsHeldMoves, DropsOwnMoves, BindingMoves,
   LatestHoldsMoves DEF Orderly

-----------------------------------------------------------------------------
(* So does an answer of tmux                                               *)

(* To the subscribe of record r.                                           *)
Replies(r, outcome) ==
  /\ outcome \in Answers
  /\ sent # <<>> /\ sent' = Tail(sent) /\ r = sent[1].rec /\ r \in DOMAIN records
  /\ Settles(r, outcome) /\ calls' = calls /\ jobs' = jobs \o records[r].waiters
  /\ UNCHANGED <<registered, owned, current, live, draining, last>>
  /\ bound' = IF outcome = "error" THEN bound ELSE records[r].args
  /\ live => ~(draining /\ jobs # <<>>)
  /\ live /\ outcome = "error" => records[r].args \in Refusable
  /\ ~live => outcome = "error"

(* Only r's outcome changes, and whoever waited for it is in the queue,     *)
(* behind those of earlier records.                                        *)
ReplyFacts(r, outcome) ==
  /\ records[r].outcome = "none" /\ records[r].inflight /\ outcome \in {"ok", "error"}
  /\ DOMAIN records' = DOMAIN records /\ r \in DOMAIN records /\ r \in Nat /\ r <= Len(records)
  /\ records'[r].outcome = outcome
  /\ \A s \in DOMAIN records : s # r => records'[s] = records[s]
  /\ \A s \in DOMAIN records :
       /\ records'[s].args = records[s].args /\ records'[s].owners = records[s].owners
       /\ records'[s].inflight = records[s].inflight
  /\ Owners' = Owners /\ (current # 0 => current \in DOMAIN records)
  /\ \A d \in DOMAIN calls : calls[d].pc \in Place => calls[d].rec \in DOMAIN records

Behind(r) ==
  /\ \A d : In(jobs', d) <=> In(jobs, d) \/ In(records[r].waiters, d)
  /\ \A d, e : Ahead(jobs', d, e) =>
       \/ Ahead(jobs, d, e) /\ In(jobs, d) /\ In(jobs, e)
       \/ Ahead(records[r].waiters, d, e) /\ In(records[r].waiters, d) /\ In(records[r].waiters, e)
       \/ In(jobs, d) /\ In(records[r].waiters, e)
  /\ \A d : In(records[r].waiters, d) =>
       d \in DOMAIN calls /\ calls[d].pc \in Place /\ calls[d].rec = r
  /\ \A d \in DOMAIN calls : In(jobs, d) =>
       /\ calls[d].pc \in Place /\ Awaited(d).inflight /\ Awaited(d).outcome # "none"
       /\ calls[d].rec \in Nat /\ calls[d].rec < r

LEMMA Reply1 ==
  ASSUME Inv, NEW r, NEW outcome, Replies(r, outcome)
  PROVE  ReplyFacts(r, outcome)
<1>1. 1 \in DOMAIN sent /\ r = sent[1].rec /\ r \in DOMAIN records /\ outcome \in {"ok", "error"}
  BY Parts1, SentHead DEF Replies, Answers
<1>2. r # 0 /\ r \in Nat /\ r <= Len(records) BY <1>1, Parts1, HeldRecord
<1>3. records[r].outcome = "none" BY <1>1, <1>2, Parts1 DEF Base, SentOK, SentFits
<1>4. records[r].inflight BY <1>1, <1>3, Parts1 DEF Creators
<1>5. Settles(r, outcome) /\ current' = current BY DEF Replies
<1>6. Owners' = Owners BY <1>1, <1>5, Parts1, OwnersOfEffects
<1>7. current # 0 => current \in DOMAIN records BY Parts1, HeldRecord
<1>8. \A d \in DOMAIN calls : calls[d].pc \in Place => calls[d].rec \in DOMAIN records
  BY Parts1, AwaitedRecord
<1> QED BY <1>1, <1>2, <1>3, <1>4, <1>5, <1>6, <1>7, <1>8 DEF Settles, ReplyFacts

LEMMA Reply2 ==
  ASSUME Inv, NEW r, NEW outcome, Replies(r, outcome)
  PROVE  Behind(r)
<1>1. ReplyFacts(r, outcome) BY Reply1
<1>2. /\ \A d : In(jobs', d) <=> In(jobs, d) \/ In(records[r].waiters, d)
      /\ \A d, e : Ahead(jobs', d, e) =>
           \/ Ahead(jobs, d, e) \/ Ahead(records[r].waiters, d, e)
           \/ In(jobs, d) /\ In(records[r].waiters, e)
  BY Parts1, SettledSound DEF Replies
<1>3. \A s, x, y : Ahead(s, x, y) => In(s, x) /\ In(s, y) BY AheadIn
<1>4. ASSUME NEW d, In(records[r].waiters, d)
      PROVE  d \in DOMAIN calls /\ calls[d].pc \in Place /\ calls[d].rec = r
  <2>1. r \in DOMAIN records /\ records \in Seq(SubscriptionRecord)
    BY <1>1, Parts1, HeldRecord DEF ReplyFacts
  <2>2. records[r].waiters \in Seq(1..MaxCalls) BY <2>1, RecordFields
  <2>3. d \in 1..MaxCalls BY <1>4, <2>2, InType
  <2> QED BY <1>4, <2>1, <2>3, Parts1 DEF Base, WaitersOK
<1>5. ASSUME NEW d \in DOMAIN calls, In(jobs, d)
      PROVE  /\ calls[d].pc \in Place /\ Awaited(d).inflight /\ Awaited(d).outcome # "none"
             /\ calls[d].rec \in Nat /\ calls[d].rec < r
  <2>1. ~draining \/ (~live /\ sent # <<>>)
    <3>1. jobs # <<>> BY <1>5, NothingIn
    <3>2. draining \in BOOLEAN /\ live \in BOOLEAN BY Parts1 DEF Base, Types
    <3> QED BY <3>1, <3>2 DEF Replies
  <2>2. calls[d].pc \in Place /\ Awaited(d).inflight BY <1>5, <2>1, Parts1 DEF Fresh
  <2>3. Awaited(d).outcome # "none"
    <3>1. jobs \in Seq(1..MaxCalls) BY Parts1 DEF Base, Types
    <3>2. d \in 1..MaxCalls BY <1>5, <3>1, InType
    <3> QED BY <1>5, <2>2, <3>2, Parts1 DEF Base, JobsOK, Place
  <2>4. calls[d].rec \in Nat /\ calls[d].rec \in DOMAIN records BY <2>2, Parts1, AwaitedRecord
  <2>5. calls[d].rec < r
    <3>1. SUFFICES ASSUME ~(calls[d].rec < r) PROVE FALSE OBVIOUS
    <3>2. r \in Nat /\ r \in DOMAIN records /\ records[r].outcome = "none" BY <1>1 DEF ReplyFacts
    <3>3. calls[d].rec # r BY <2>3, <3>2 DEF Awaited
    <3>4. r < calls[d].rec BY <2>4, <3>1, <3>2, <3>3
    <3> QED BY <2>3, <2>4, <3>2, <3>4, Parts1 DEF Fifo, Awaited
  <2> QED BY <2>2, <2>3, <2>4, <2>5
<1> QED BY <1>2, <1>3, <1>4, <1>5 DEF Behind

LEMMA ReplyOrder ==
  ASSUME Inv, NEW r, NEW outcome, Replies(r, outcome)
  PROVE  Placed' /\ Creators' /\ Fifo' /\ Fresh'
<1>1. ReplyFacts(r, outcome) /\ Behind(r) BY Reply1, Reply2
<1>2. calls' = calls /\ sent' = Tail(sent) /\ sent # <<>> /\ r = sent[1].rec BY DEF Replies
<1>3. \A s \in DOMAIN records : records'[s].outcome = "none" => s # r /\ records[s].outcome = "none"
  BY <1>1 DEF ReplyFacts
<1>4. Placed'
  <2>1. SUFFICES ASSUME NEW x \in DOMAIN calls
        PROVE  /\ calls[x].pc \in Place =>
                    IF records'[calls[x].rec].outcome = "none"
                    THEN In(records'[calls[x].rec].waiters, x) ELSE In(jobs', x)
               /\ calls[x].pc = "yield" => In(jobs', x)
    BY <1>2 DEF Placed, Awaited
  <2>2. /\ calls[x].pc \in Place =>
               IF Awaited(x).outcome = "none" THEN In(Awaited(x).waiters, x) ELSE In(jobs, x)
        /\ calls[x].pc = "yield" => In(jobs, x)
    BY Parts1 DEF Placed
  <2> QED BY <1>1, <1>3, <2>2 DEF Behind, ReplyFacts, Awaited
<1>5. Creators'
  <2>1. Creators BY Parts1
  <2>2. \A x \in DOMAIN calls : calls[x].pc = "create" => calls[x].rec \in DOMAIN records
    BY <1>1 DEF ReplyFacts, Place
  <2>3. /\ \A s \in DOMAIN records : records'[s].inflight = records[s].inflight
        /\ DOMAIN records' = DOMAIN records
    BY <1>1 DEF ReplyFacts
  <2> QED BY <1>2, <1>3, <2>1, <2>2, <2>3 DEF Creators, Awaited
<1>6. Fifo'
  <2>1. \A s \in DOMAIN records : records'[s].inflight = records[s].inflight
    BY <1>1 DEF ReplyFacts
  <2>2. DOMAIN records' = DOMAIN records /\ r \in DOMAIN records /\ r \in Nat
        /\ \A s \in DOMAIN records : s # r => records'[s] = records[s]
    BY <1>1 DEF ReplyFacts
  <2>3. /\ \A i \in DOMAIN sent : i \in Nat
        /\ Len(sent) \in Nat /\ DOMAIN sent = 1..Len(sent) /\ DOMAIN sent' = 1..(Len(sent) - 1)
        /\ \A i \in DOMAIN sent' : sent'[i] = sent[i + 1]
    BY <1>2, Parts1, SentHead
  <2>4. ASSUME NEW s \in DOMAIN records, records'[s].outcome = "none"
        PROVE  \E i \in DOMAIN sent : i # 1 /\ sent[i].rec = s
    <3>1. s # r /\ records[s].outcome = "none" BY <1>3, <2>4
    <3>2. PICK i \in DOMAIN sent : sent[i].rec = s BY <3>1, Parts1 DEF Fifo
    <3> QED BY <1>2, <3>1, <3>2
  <2>5. ASSUME NEW s \in DOMAIN records, records'[s].outcome = "none"
        PROVE  \E i \in DOMAIN sent' : sent'[i].rec = s
    <3>1. PICK i \in DOMAIN sent : i # 1 /\ sent[i].rec = s BY <2>4, <2>5
    <3>2. i - 1 \in DOMAIN sent' /\ (i - 1) + 1 = i BY <2>3, <3>1
    <3> QED BY <2>3, <3>1, <3>2
  <2>6. ASSUME NEW s \in DOMAIN records, records'[s].outcome = "none" PROVE r < s
    <3>1. PICK i \in DOMAIN sent : i # 1 /\ sent[i].rec = s BY <2>4, <2>6
    <3>2. 1 \in DOMAIN sent /\ 1 < i BY <2>3, <3>1
    <3>3. s # 0 /\ r # 0 BY <2>2, Parts1, HeldRecord
    <3> QED BY <1>2, <3>1, <3>2, <3>3, Parts1 DEF Base, SentOK, SentRises
  <2>7. ASSUME NEW s \in DOMAIN records, NEW t \in DOMAIN records, s < t, records'[s].outcome = "none"
        PROVE  records'[t].outcome = "none"
    <3>1. r < s /\ s \in Nat /\ t \in Nat BY <2>6, <2>7, Parts1, HeldRecord
    <3>2. t # r BY <2>2, <2>7, <3>1
    <3>3. records[s].outcome = "none" BY <1>3, <2>7
    <3>4. records[t].outcome = "none" BY <2>7, <3>3, Parts1 DEF Fifo
    <3> QED BY <2>2, <3>2, <3>4
  <2>8. \A s, t \in DOMAIN records : s < t => (records[s].inflight => records[t].inflight)
    BY Parts1 DEF Fifo
  <2> QED BY <2>1, <2>2, <2>5, <2>7, <2>8 DEF Fifo
<1>7. Fresh'
  <2>1. ASSUME NEW x \in DOMAIN calls, In(jobs', x)
        PROVE  calls[x].pc \in Place /\ records[calls[x].rec].inflight
               /\ calls[x].rec \in DOMAIN records
    BY <1>1, <2>1 DEF Behind, ReplyFacts, Awaited
  <2> QED BY <1>1, <1>2, <2>1 DEF Fresh, Awaited, ReplyFacts
<1> QED BY <1>4, <1>5, <1>6, <1>7

LEMMA ReplyJobs ==
  ASSUME Inv, NEW r, NEW outcome, Replies(r, outcome)
  PROVE  JobsOrder'
<1>1. ReplyFacts(r, outcome) /\ Behind(r) BY Reply1, Reply2
<1>2. /\ calls' = calls /\ current' = current /\ registered' = registered
      /\ ~live => outcome = "error"
  BY DEF Replies
<1>3. \A x \in DOMAIN calls : In(jobs', x) => ~Releases(x)'
  BY <1>1, <1>2 DEF Behind, Releases, Place
<1>4. \A x \in DOMAIN calls : Drops(x)' <=> Drops(x) BY <1>2 DEF Drops
<1>5. ASSUME NEW y \in DOMAIN calls, Stale(y)', In(jobs, y) PROVE Stale(y)
  <2>1. calls[y].rec < r /\ calls[y].rec \in Nat /\ r \in Nat /\ calls[y].rec \in DOMAIN records
    BY <1>1, <1>5 DEF Behind, ReplyFacts
  <2>2. records'[calls[y].rec] = records[calls[y].rec] BY <1>1, <2>1 DEF ReplyFacts
  <2> QED BY <1>2, <1>5, <2>2 DEF Stale, Awaited
<1>6. ASSUME NEW x \in DOMAIN calls, NEW y \in DOMAIN calls, In(records[r].waiters, y), Stale(y)',
             In(jobs, x) \/ In(records[r].waiters, x)
      PROVE  ~Drops(x)
  <2>1. SUFFICES ASSUME Drops(x) PROVE FALSE OBVIOUS
  <2>2. calls[y].rec = r /\ outcome = "ok" /\ r # current /\ live
    <3>1. calls[y].rec = r /\ records'[r].outcome = outcome /\ live \in BOOLEAN
      BY <1>1, <1>6, Parts1 DEF Behind, ReplyFacts, Base, Types
    <3> QED BY <1>2, <1>6, <3>1 DEF Stale, Awaited
  <2>3. calls[x].pc = "drop" /\ calls[x].pc \in Place /\ calls[x].peer \in registered
    BY <1>1, <1>6, <2>1 DEF Drops, Behind, Place
  <2>4. CASE In(records[r].waiters, x)
    <3>1. calls[x].rec = r /\ records[r].outcome = "none" BY <1>1, <2>4 DEF Behind, ReplyFacts
    <3>2. calls[x].rec = current BY <2>3, <3>1, Parts1 DEF DropsHeld, Awaited
    <3> QED BY <2>2, <3>1, <3>2
  <2>5. CASE In(jobs, x)
    <3>1. calls[x].rec < r /\ calls[x].rec \in Nat /\ Awaited(x).inflight /\ r \in Nat /\ r <= Len(records)
          /\ calls[x].rec \in DOMAIN records
      BY <1>1, <2>5 DEF Behind, ReplyFacts
    <3>2. current \in {0, Len(records)} /\ Len(records) \in Nat /\ calls[x].rec # 0
      BY <2>3, Parts1, AwaitedRecord DEF Base, Types
    <3>3. calls[x].rec # current BY <3>1, <3>2
    <3>4. Awaited(x).outcome = "error" BY <2>3, <3>3, Parts1 DEF DropsHeld
    <3>5. PICK z \in DOMAIN calls : calls[z].pc = "create" /\ calls[z].rec = calls[x].rec
      BY <3>1, Parts1 DEF Creators, Awaited
    <3> QED BY <2>2, <3>3, <3>4, <3>5, Parts1 DEF Superseded, Awaited
  <2> QED BY <1>6, <2>4, <2>5
<1>7. ASSUME NEW x \in DOMAIN calls, NEW y \in DOMAIN calls, Ahead(jobs', x, y)
      PROVE  /\ calls[y].pc = "create" /\ calls[x].pc \in Place => calls[x].rec < calls[y].rec
             /\ calls[x].pc = "create" /\ calls[y].pc \in Place => calls[x].rec <= calls[y].rec
             /\ Drops(x) => ~Stale(y)'
  <2>1. CASE Ahead(jobs, x, y) /\ In(jobs, x) /\ In(jobs, y)
    <3>1. Stale(y)' => Stale(y) BY <1>5, <2>1
    <3> QED BY <2>1, <3>1, Parts1 DEF JobsOrder
  <2>2. CASE /\ Ahead(records[r].waiters, x, y)
             /\ In(records[r].waiters, x) /\ In(records[r].waiters, y)
    <3>1. r \in DOMAIN records /\ r \in Nat /\ calls[x].rec = r /\ calls[y].rec = r
      BY <1>1, <2>2 DEF Behind, ReplyFacts
    <3>2. records[r].waiters \in Seq(1..MaxCalls)
      BY <3>1, Parts1, HeldRecord, RecordFields
    <3>3. x \in 1..MaxCalls /\ y \in 1..MaxCalls BY <2>2, <3>2, InType
    <3>4. calls[y].pc # "create" BY <2>2, <3>1, <3>3, Parts1 DEF Base, WaitersOK
    <3> QED BY <1>6, <2>2, <3>1, <3>4
  <2>3. CASE In(jobs, x) /\ In(records[r].waiters, y)
    <3>1. /\ calls[y].rec = r /\ r \in Nat
          /\ calls[x].rec \in Nat /\ calls[x].rec < r
      BY <1>1, <2>3 DEF Behind, ReplyFacts
    <3> QED BY <1>6, <2>3, <3>1
  <2> QED BY <1>1, <1>7, <2>1, <2>2, <2>3 DEF Behind
<1>8. \A x, y : Ahead(jobs', x, y) => In(jobs', x) BY AheadIn
<1> QED BY <1>2, <1>3, <1>4, <1>7, <1>8 DEF JobsOrder

LEMMA ReplyOwners ==
  ASSUME Inv, NEW r, NEW outcome, Replies(r, outcome)
  PROVE  Kept' /\ Superseded' /\ OwnedOrOrphan' /\ DeadSettle' /\ DropsHeld' /\ DropsOwn' /\ LatestHolds'
<1>1. ReplyFacts(r, outcome) BY Reply1
<1>2. /\ calls' = calls /\ current' = current /\ registered' = registered /\ owned' = owned
      /\ live' = live /\ last' = last
      /\ live /\ outcome = "error" => records[r].args \in Refusable
      /\ ~live => outcome = "error"
  BY DEF Replies
<1>3. Owners' = Owners BY <1>1 DEF ReplyFacts
<1>4. \A x \in DOMAIN calls : calls[x].pc \in Place =>
        /\ calls[x].rec = r => /\ records'[calls[x].rec].outcome = outcome
                               /\ Awaited(x).outcome = "none"
        /\ calls[x].rec # r => records'[calls[x].rec].outcome = Awaited(x).outcome
        /\ records'[calls[x].rec].owners = Awaited(x).owners
        /\ records'[calls[x].rec].args = Awaited(x).args
  BY <1>1 DEF ReplyFacts, Awaited
<1>5. current # 0 => /\ Held'.args = Held.args /\ Held'.inflight = Held.inflight
                     /\ ~Held.inflight => Held'.outcome = Held.outcome
  BY <1>1, <1>2 DEF ReplyFacts, Held
<1>6. Kept' BY <1>2, <1>3, <1>5, Parts1 DEF Kept
<1>7. Superseded'
  <2>1. SUFFICES ASSUME NEW x \in DOMAIN calls, calls[x].pc = "create", calls[x].rec # current
        PROVE  \/ ~live /\ records'[calls[x].rec].outcome = "error"
               \/ /\ records'[calls[x].rec].owners = {} /\ calls[x].peer \notin registered
                  /\ live => /\ records'[calls[x].rec].args \notin Refusable
                             /\ records'[calls[x].rec].outcome # "error"
    BY <1>2 DEF Superseded, Awaited
  <2>2. calls[x].pc \in Place BY <2>1 DEF Place
  <2>3. \/ ~live /\ Awaited(x).outcome = "error"
        \/ /\ Awaited(x).owners = {} /\ calls[x].peer \notin registered
           /\ live => Awaited(x).args \notin Refusable /\ Awaited(x).outcome # "error"
    BY <2>1, Parts1 DEF Superseded
  <2>4. CASE calls[x].rec # r BY <1>4, <2>1, <2>2, <2>3, <2>4
  <2>5. CASE calls[x].rec = r
    <3>1. records'[calls[x].rec].outcome = outcome /\ Awaited(x).outcome = "none"
          /\ records'[calls[x].rec].owners = Awaited(x).owners
          /\ records'[calls[x].rec].args = Awaited(x).args /\ Awaited(x).args = records[r].args
      BY <1>4, <2>1, <2>2, <2>5 DEF Awaited
    <3> QED BY <1>2, <2>3, <3>1
  <2> QED BY <2>4, <2>5
<1>8. OwnedOrOrphan'
  <2>1. ASSUME NEW q, Orphan(q) PROVE Orphan(q)'
    <3>1. PICK x \in DOMAIN calls :
            /\ calls[x].pc = "create" /\ calls[x].rec # current /\ Awaited(x).outcome = "error"
            /\ q \in Awaited(x).owners
      BY <2>1 DEF Orphan
    <3>2. records'[calls[x].rec].outcome = "error" /\ records'[calls[x].rec].owners = Awaited(x).owners
      BY <1>4, <3>1 DEF Place
    <3> QED BY <1>2, <2>1, <3>1, <3>2 DEF Orphan, Awaited
  <2> QED BY <1>2, <1>3, <2>1, Parts1 DEF OwnedOrOrphan
<1>9. DeadSettle'
  <2>1. ASSUME ~live, NEW x \in DOMAIN calls, calls[x].pc \in Place
        PROVE  records'[calls[x].rec].outcome # "ok"
    BY <1>2, <1>4, <2>1, Parts1 DEF DeadSettle
  <2> QED BY <1>2, <2>1 DEF DeadSettle, Awaited
<1>10. DropsHeld'
  <2>1. ASSUME NEW d \in DOMAIN calls, calls[d].pc = "drop", calls[d].peer \in registered,
               records'[calls[d].rec].outcome # "error"
        PROVE  calls[d].rec = current /\ calls[d].peer \in Owners
    <3>1. Awaited(d).outcome # "error" BY <1>4, <2>1 DEF Place
    <3> QED BY <2>1, <3>1, Parts1 DEF DropsHeld
  <2> QED BY <1>2, <1>3, <2>1 DEF DropsHeld, Awaited
<1>11. DropsOwn'
  <2>1. \A d \in DOMAIN calls : Drops(d)' <=> Drops(d) BY <1>2 DEF Drops
  <2>2. \A x \in DOMAIN calls : calls[x].pc = "join" /\ Awaited(x).outcome = "error" =>
          records'[calls[x].rec].outcome = "error"
    BY <1>4 DEF Place
  <2>3. \A x, d \in DOMAIN calls : Drops(d) /\ calls[x].peer = calls[d].peer =>
          /\ calls[x].pc = "create" => calls[d].pc = "drop" /\ calls[d].rec = calls[x].rec
          /\ calls[x].pc = "join" =>
               \/ calls[d].pc = "drop" /\ calls[d].rec = current
               \/ calls[x].rec = current
               \/ records'[calls[x].rec].outcome = "error"
    BY <2>2, Parts1 DEF DropsOwn
  <2> QED BY <1>2, <2>1, <2>3 DEF DropsOwn, Awaited
<1>12. LatestHolds' BY <1>2, <1>3, <1>5, Parts1 DEF LatestHolds
<1> QED BY <1>6, <1>7, <1>8, <1>9, <1>10, <1>11, <1>12

(* What is left of the commands on their way.                              *)
LEMMA SentShrinks ==
  ASSUME Inv, live, sent # <<>>, sent' = Tail(sent)
  PROVE  /\ \A i, j \in DOMAIN sent' : j = i + 1 => (sent'[i].rec = 0 <=> sent'[j].rec # 0)
         /\ sent' # <<>> => /\ sent'[1].rec = 0 <=> sent[1].rec # 0
                            /\ sent'[Len(sent')].rec = current
                            /\ Len(sent) # 1
         /\ sent' = <<>> => sent[1].rec = current
<1>1. /\ sent' \in Seq(Command)
      /\ Len(sent) \in Nat \ {0} /\ DOMAIN sent = 1..Len(sent)
      /\ DOMAIN sent' = 1..(Len(sent) - 1) /\ Len(sent') = Len(sent) - 1
      /\ \A i \in DOMAIN sent' : sent'[i] = sent[i + 1] /\ i + 1 \in DOMAIN sent
  BY Parts1, SentHead
<1>2. /\ \A i, j \in DOMAIN sent : j = i + 1 => (sent[i].rec = 0 <=> sent[j].rec # 0)
      /\ sent[Len(sent)].rec = current
  BY Parts1 DEF Binding
<1>3. ASSUME NEW i \in DOMAIN sent', NEW j \in DOMAIN sent', j = i + 1
      PROVE  sent'[i].rec = 0 <=> sent'[j].rec # 0
  <2>1. i + 1 \in DOMAIN sent /\ j + 1 \in DOMAIN sent /\ j + 1 = (i + 1) + 1 BY <1>1, <1>3
  <2> QED BY <1>1, <1>2, <1>3, <2>1
<1>4. ASSUME sent' # <<>>
      PROVE  /\ sent'[1].rec = 0 <=> sent[1].rec # 0
             /\ sent'[Len(sent')].rec = current /\ Len(sent) # 1
  <2>1. Len(sent') # 0 BY <1>1, <1>4
  <2>2. 1 \in DOMAIN sent' /\ Len(sent') \in DOMAIN sent' /\ 1 \in DOMAIN sent /\ 2 \in DOMAIN sent
        /\ Len(sent') + 1 = Len(sent)
    BY <1>1, <2>1
  <2>3. sent'[1] = sent[2] /\ sent'[Len(sent')] = sent[Len(sent)] BY <1>1, <2>2
  <2>4. sent[1].rec = 0 <=> sent[2].rec # 0
    <3>1. PICK one, two : one = 1 /\ two = 2 OBVIOUS
    <3>2. two = one + 1 /\ one \in DOMAIN sent /\ two \in DOMAIN sent BY <2>2, <3>1
    <3>3. sent[one].rec = 0 <=> sent[two].rec # 0 BY <1>2, <3>2
    <3> QED BY <3>1, <3>3
  <2>5. Len(sent) # 1 BY <1>1, <2>1
  <2> QED BY <1>2, <2>3, <2>4, <2>5
<1>5. sent' = <<>> => sent[1].rec = current
  <2>1. ASSUME sent' = <<>> PROVE sent[1].rec = current
    <3>1. Len(sent') = 0
      <4>1. PICK s : s = sent' OBVIOUS
      <4>2. s = <<>> BY <2>1, <4>1
      <4>3. Len(s) = 0 BY ONLY <4>2
      <4> QED BY <4>1, <4>3
    <3>2. Len(sent) = 1 BY <1>1, <3>1
    <3> QED BY <1>2, <3>2
  <2> QED BY <2>1
<1> QED BY <1>3, <1>4, <1>5

LEMMA ReplyBinding ==
  ASSUME Inv, NEW r, NEW outcome, Replies(r, outcome)
  PROVE  Binding'
<1>1. SUFFICES ASSUME live PROVE Binding' BY DEF Replies, Binding
<1>2. ReplyFacts(r, outcome) BY Reply1
<1>3. /\ sent # <<>> /\ sent' = Tail(sent) /\ r = sent[1].rec /\ live' = live /\ current' = current
      /\ bound' = IF outcome = "error" THEN bound ELSE records[r].args
      /\ outcome = "error" => records[r].args \in Refusable
  BY <1>1 DEF Replies
<1>4. /\ \A i, j \in DOMAIN sent' : j = i + 1 => (sent'[i].rec = 0 <=> sent'[j].rec # 0)
      /\ sent' # <<>> => /\ sent'[1].rec = 0 <=> sent[1].rec # 0
                         /\ sent'[Len(sent')].rec = current /\ Len(sent) # 1
      /\ sent' = <<>> => sent[1].rec = current
  BY <1>1, <1>3, SentShrinks
<1>5. r \in DOMAIN records /\ r # 0 /\ outcome \in {"ok", "error"} /\ records[r].args \in Args
  <2>1. r \in DOMAIN records /\ outcome \in {"ok", "error"} BY <1>2 DEF ReplyFacts
  <2> QED BY <2>1, Parts1, HeldRecord, RecordFields
<1>6. bound = None BY <1>1, <1>3, <1>5, Parts1 DEF Binding
<1>7. records'[r].outcome = outcome /\ records'[r].args = records[r].args
  BY <1>2 DEF ReplyFacts
<1>8. CASE outcome = "ok"
  <2>1. bound' = records[r].args /\ bound' # None BY <1>3, <1>5, <1>8, LedgerAssumption
  <2>2. sent' # <<>> => sent'[1].rec = 0 BY <1>3, <1>4, <1>5
  <2>3. sent' = <<>> => r = current BY <1>3, <1>4
  <2>4. sent' = <<>> => Held'.outcome = "ok" /\ bound' = Held'.args /\ current' # 0
    BY <1>3, <1>5, <1>7, <1>8, <2>1, <2>3 DEF Held
  <2> QED BY <1>3, <1>4, <2>1, <2>2, <2>4 DEF Binding
<1>9. CASE outcome = "error"
  <2>1. r = current
    <3>1. PICK y \in DOMAIN calls : calls[y].pc = "create" /\ calls[y].rec = r
      BY <1>2, <1>5, Parts1 DEF Creators, ReplyFacts
    <3> QED BY <1>1, <1>3, <1>9, <3>1, Parts1 DEF Superseded, Awaited
  <2>2. sent' = <<>>
    <3>1. SUFFICES ASSUME sent' # <<>> PROVE FALSE OBVIOUS
    <3>2. Len(sent) # 1 /\ Len(sent) \in Nat \ {0} /\ DOMAIN sent = 1..Len(sent)
      BY <1>3, <1>4, <3>1, Parts1, SentHead
    <3>3. 1 \in DOMAIN sent /\ Len(sent) \in DOMAIN sent /\ 1 < Len(sent) BY <3>2
    <3>4. sent[Len(sent)].rec = r BY <1>1, <1>3, <2>1, Parts1 DEF Binding
    <3>5. r < r BY <1>3, <1>5, <3>3, <3>4, Parts1 DEF Base, SentOK, SentRises
    <3>6. r \in Nat BY <1>2 DEF ReplyFacts
    <3> QED BY <3>5, <3>6
  <2>3. Held'.outcome = "error" /\ bound' = None /\ current' # 0
    BY <1>3, <1>5, <1>6, <1>7, <1>9, <2>1 DEF Held
  <2>4. DOMAIN sent' = {} BY <2>2
  <2> QED BY <2>2, <2>3, <2>4 DEF Binding
<1> QED BY <1>5, <1>8, <1>9

(* To an unsubscribe: whoever awaits it is told, and nobody else waits.     *)
LEMMA AnswersOrderly ==
  ASSUME Inv, NEW outcome \in Answers, sent # <<>>, sent[1].rec = 0,
         Answered(sent[1].call, outcome), sent' = Tail(sent),
         UNCHANGED <<registered, owned, current, live, draining, last>>,
         live => bound' = None
  PROVE  Orderly'
<1> DEFINE by == sent[1].call
<1>1. 1 \in DOMAIN sent BY Parts1, SentHead
<1>2. by # 0 => calls[by].op = "unsubscribe" /\ calls[by].pc \notin Waits \ {"forward"}
  BY <1>1, Parts1 DEF Base, SentOK, SentFits
<1>3. records' = records /\ jobs' = jobs BY DEF Answered
<1>4. /\ DOMAIN calls' = DOMAIN calls
      /\ \A d \in DOMAIN calls :
           \/ calls'[d] = calls[d]
           \/ /\ calls[d].op = "unsubscribe" /\ calls[d].pc \notin Place \cup {"yield"}
              /\ calls'[d].op = "unsubscribe" /\ calls'[d].pc \in Answers
              /\ calls'[d].peer = calls[d].peer
  BY <1>2 DEF Answered, Turns, Waits, Place
<1> HIDE DEF by
<1>5. \A d \in DOMAIN calls :
        \/ calls'[d] = calls[d]
        \/ /\ calls[d].op = "unsubscribe" /\ calls[d].pc \notin {"create", "join", "drop", "yield"}
           /\ calls'[d].op = "unsubscribe" /\ calls'[d].pc \notin {"create", "join", "drop", "yield"}
           /\ calls'[d].pc \notin Waits
           /\ calls'[d].peer = calls[d].peer
  BY <1>4 DEF Place, Answers, Waits
<1>6. Owners' = Owners /\ Held' = Held BY <1>3 DEF Owners, Held
<1>7. Placed' /\ Creators' BY <1>3, <1>4, <1>5, Parts1 DEF Placed, Creators, Awaited, Place
<1>8. Fifo'
  <2>1. sent' \in Seq(Command) /\ Len(sent) \in Nat /\ DOMAIN sent = 1..Len(sent)
        /\ DOMAIN sent' = 1..(Len(sent) - 1)
        /\ \A i \in DOMAIN sent' : sent'[i] = sent[i + 1]
    BY Parts1, SentHead
  <2>2. ASSUME NEW s \in DOMAIN records, records[s].outcome = "none"
        PROVE  \E i \in DOMAIN sent' : sent'[i].rec = s
    <3>1. PICK i \in DOMAIN sent : sent[i].rec = s BY <2>2, Parts1 DEF Fifo
    <3>2. s # 0 BY Parts1, HeldRecord
    <3>3. i # 1 BY <3>1, <3>2
    <3>4. i - 1 \in DOMAIN sent' /\ (i - 1) + 1 = i BY <2>1, <3>3
    <3> QED BY <2>1, <3>1, <3>4
  <2> QED BY <1>3, <2>2, Parts1 DEF Fifo
<1>9. JobsOrder'
  <2>1. \A d \in DOMAIN calls : /\ Releases(d)' <=> Releases(d)
                                /\ Drops(d)' <=> Drops(d)
                                /\ Stale(d)' <=> Stale(d)
    BY <1>3, <1>5 DEF Releases, Drops, Stale, Awaited
  <2>2. \A x, y : Ahead(jobs, x, y) => In(jobs, x) /\ In(jobs, y) BY AheadIn
  <2>3. \A d \in DOMAIN calls : In(jobs, d) => calls'[d] = calls[d]
    <3>1. jobs \in Seq(1..MaxCalls) BY Parts1 DEF Base, Types
    <3>2. \A d : In(jobs, d) => d \in 1..MaxCalls BY <3>1, InType
    <3> QED BY <1>5, <3>2, Parts1 DEF Base, JobsOK, Place
  <2> QED BY <1>3, <1>4, <2>1, <2>2, <2>3, Parts1 DEF JobsOrder
<1>10. Fresh'
  <2>1. ~draining' \/ (~live' /\ sent' # <<>>) => ~draining \/ (~live /\ sent # <<>>) OBVIOUS
  <2>2. ASSUME NEW d \in DOMAIN calls, calls[d].pc \in Place PROVE calls'[d] = calls[d]
    BY <1>5, <2>2 DEF Place
  <2> QED BY <1>3, <1>4, <2>1, <2>2, Parts1 DEF Fresh, Awaited
<1>11. Kept' BY <1>4, <1>5, <1>6, Parts1 DEF Kept
<1>12. Superseded' BY <1>3, <1>4, <1>5, Parts1 DEF Superseded, Awaited
<1>13. OwnedOrOrphan'
  <2>1. ASSUME NEW q, Orphan(q) PROVE Orphan(q)' BY <1>3, <1>4, <1>5, <2>1 DEF Orphan, Awaited
  <2> QED BY <1>6, <2>1, Parts1 DEF OwnedOrOrphan
<1>14. DeadSettle' BY <1>3, <1>4, <1>5, Parts1 DEF DeadSettle, Awaited, Place
<1>15. DropsHeld' BY <1>3, <1>4, <1>5, <1>6, Parts1 DEF DropsHeld, Awaited
<1>16. DropsOwn'
  <2>1. \A d \in DOMAIN calls : /\ calls'[d].peer = calls[d].peer
                                /\ Drops(d)' => Drops(d) /\ calls'[d] = calls[d]
    BY <1>5 DEF Drops
  <2> QED BY <1>3, <1>4, <1>5, <2>1, Parts1 DEF DropsOwn, Awaited
<1>17. Binding'
  <2>1. SUFFICES ASSUME live PROVE Binding' BY DEF Binding
  <2>2. /\ \A i, j \in DOMAIN sent' : j = i + 1 => (sent'[i].rec = 0 <=> sent'[j].rec # 0)
        /\ sent' # <<>> => /\ sent'[1].rec = 0 <=> sent[1].rec # 0
                           /\ sent'[Len(sent')].rec = current
        /\ sent' = <<>> => sent[1].rec = current
    BY <2>1, SentShrinks
  <2> QED BY <2>1, <2>2 DEF Binding
<1>18. LatestHolds'
  <2>1. SUFFICES ASSUME NEW p \in Peers, last[p] # 0
        PROVE  /\ calls'[last[p]].peer = p
               /\ calls'[last[p]].op = "subscribe" =>
                   /\ \A d \in DOMAIN calls :
                        calls'[d].peer = p /\ calls'[d].pc \in Waits => calls'[d].op = "subscribe"
                   /\ live /\ calls'[last[p]].pc = "ok" /\ p \in registered =>
                        current # 0 /\ p \in Owners /\ ~Held.inflight /\ Held.args = calls'[last[p]].args
    BY <1>4, <1>6 DEF LatestHolds
  <2>2. PICK l : l = last[p] OBVIOUS
  <2>3. l \in DOMAIN calls
    <3>1. last \in [Peers -> Nat] /\ last[p] <= Len(calls) /\ DOMAIN calls = 1..Len(calls)
      BY Parts1 DEF Base, Types, LastOK
    <3> QED BY <2>1, <2>2, <3>1
  <2>4. /\ calls[l].peer = p
        /\ calls[l].op = "subscribe" =>
             /\ \A d \in DOMAIN calls :
                  calls[d].peer = p /\ calls[d].pc \in Waits => calls[d].op = "subscribe"
             /\ live /\ calls[l].pc = "ok" /\ p \in registered =>
                  current # 0 /\ p \in Owners /\ ~Held.inflight /\ Held.args = calls[l].args
    BY <2>1, <2>2, Parts1 DEF LatestHolds
  <2>5. calls'[l].peer = p BY <1>5, <2>3, <2>4
  <2>6. calls'[l].op = "subscribe" => calls'[l] = calls[l] BY <1>5, <2>3
  <2>7. \A d \in DOMAIN calls : calls'[d].pc \in Waits => calls'[d] = calls[d] BY <1>5
  <2> QED BY <2>2, <2>4, <2>5, <2>6, <2>7
<1> QED BY <1>7, <1>8, <1>9, <1>10, <1>11, <1>12, <1>13, <1>14, <1>15, <1>16, <1>17, <1>18 DEF Orderly

LEMMA SettleOrderly ==
  ASSUME Inv, Reply \/ Reject
  PROVE  Orderly'
<1>1. PICK outcome \in Answers :
        /\ Settle(outcome)
        /\ live => ~(draining /\ jobs # <<>>)
        /\ live /\ outcome = "error" => sent[1].rec # 0 /\ records[sent[1].rec].args \in Refusable
        /\ ~live => outcome = "error"
  BY DEF Reply, Reject, Answers
<1>2. /\ sent # <<>> /\ sent' = Tail(sent)
      /\ UNCHANGED <<registered, owned, current, live, draining, last>>
      /\ bound' = IF outcome = "error" THEN bound
                    ELSE IF sent[1].rec = 0 THEN None ELSE records[sent[1].rec].args
      /\ \/ sent[1].rec = 0 /\ Answered(sent[1].call, outcome)
         \/ /\ sent[1].rec \in DOMAIN records /\ Settles(sent[1].rec, outcome)
            /\ jobs' = jobs \o records[sent[1].rec].waiters
            /\ calls' = calls
  BY <1>1, Parts1, SettleEffects
<1>3. CASE sent[1].rec = 0 /\ Answered(sent[1].call, outcome)
  BY <1>1, <1>2, <1>3, AnswersOrderly
<1>4. CASE /\ sent[1].rec \in DOMAIN records /\ Settles(sent[1].rec, outcome)
           /\ jobs' = jobs \o records[sent[1].rec].waiters
           /\ calls' = calls
  <2>1. sent[1].rec # 0 BY <1>4, Parts1, HeldRecord
  <2>2. PICK r : r = sent[1].rec OBVIOUS
  <2>3. Replies(r, outcome) BY <1>1, <1>2, <1>4, <2>1, <2>2 DEF Replies
  <2> QED BY <2>3, ReplyOrder, ReplyJobs, ReplyOwners, ReplyBinding DEF Orderly
<1> QED BY <1>2, <1>3, <1>4

-----------------------------------------------------------------------------
(* So do departures and the end of the connection                          *)

(* With no continuation waiting, the record in `subscriptions' was accepted *)
(* or waits for tmux.                                                      *)
LEMMA HeldAtRest ==
  ASSUME Inv, jobs = <<>>, current # 0
  PROVE  Held.outcome # "error"
<1>1. CASE Held.inflight
  <2>1. PICK y \in DOMAIN calls : calls[y].rec = current /\ calls[y].pc \in Place
    BY <1>1, HeldCreator
  <2>2. Awaited(y).outcome = "none" BY <2>1, AtRest
  <2> QED BY <2>1, <2>2 DEF Awaited, Held
<1>2. CASE ~Held.inflight BY <1>2, Parts1 DEF Kept
<1> QED BY <1>1, <1>2

Leaves(peers) ==
  /\ Relieves(peers \cap owned) /\ registered' = registered \ peers /\ jobs = <<>>
  /\ sent' = IF LastOwnersOf(peers \cap owned) /\ live THEN Append(sent, [rec |-> 0, call |-> 0])
               ELSE sent
  /\ draining' = FALSE
  /\ UNCHANGED <<owned, calls, bound, live, jobs, last>>
  /\ \A p \in peers : \A c \in Unanswered(p) : calls[c].args \notin Refusable

LeaveFacts(peers) ==
  /\ DOMAIN records' = DOMAIN records
  /\ \A s \in DOMAIN records :
       /\ records'[s].args = records[s].args /\ records'[s].outcome = records[s].outcome
       /\ records'[s].inflight = records[s].inflight /\ records'[s].waiters = records[s].waiters
       /\ s # current => records'[s].owners = records[s].owners
  /\ LastOwnersOf(peers \cap owned) =>
       /\ current' = 0 /\ Owners' = {} /\ current # 0 /\ Owners \subseteq peers \cap owned
       /\ records'[current].owners = {}
  /\ ~LastOwnersOf(peers \cap owned) =>
       /\ current' = current /\ Owners' = Owners \ (peers \cap owned)
       /\ current # 0 => /\ Held'.args = Held.args /\ Held'.outcome = Held.outcome
                         /\ Held'.inflight = Held.inflight
                         /\ peers \cap owned = {} \/ ~(Owners \subseteq peers \cap owned)

LEMMA Leaving ==
  ASSUME Inv, NEW peers \in SUBSET Peers, Leaves(peers)
  PROVE  LeaveFacts(peers)
<1> DEFINE mine == peers \cap owned
<1>1. Relieves(mine) BY DEF Leaves
<1> HIDE DEF mine
<1>2. /\ LastOwnersOf(mine) => current' = 0 /\ Owners' = {}
      /\ ~LastOwnersOf(mine) => current' = current /\ Owners' = Owners \ mine
  BY <1>1, Parts1, RelievedOwners
<1>3. /\ current = 0 => records' = records
      /\ current # 0 => Reowns(current, Held.owners \ mine, Held.inflight)
  BY <1>1 DEF Relieves
<1>4. current # 0 => current \in DOMAIN records BY Parts1, HeldRecord
<1>5. /\ DOMAIN records' = DOMAIN records
      /\ \A s \in DOMAIN records :
           /\ records'[s].args = records[s].args /\ records'[s].outcome = records[s].outcome
           /\ records'[s].inflight = records[s].inflight /\ records'[s].waiters = records[s].waiters
           /\ s # current => records'[s].owners = records[s].owners
  BY <1>3, <1>4 DEF Reowns, Held
<1>6. ASSUME LastOwnersOf(mine)
      PROVE  current # 0 /\ Owners \subseteq mine /\ records'[current].owners = {}
  BY <1>3, <1>4, <1>6 DEF LastOwnersOf, Owners, Held, Reowns
<1>7. ASSUME ~LastOwnersOf(mine), current # 0
      PROVE  /\ Held'.args = Held.args /\ Held'.outcome = Held.outcome
             /\ Held'.inflight = Held.inflight
             /\ mine = {} \/ ~(Owners \subseteq mine)
  BY <1>2, <1>4, <1>5, <1>7 DEF Held, LastOwnersOf, Owners
<1>8. mine = peers \cap owned BY DEF mine
<1> QED BY <1>2, <1>5, <1>6, <1>7, <1>8 DEF LeaveFacts

LEMMA LeavesOrderly ==
  ASSUME Inv, NEW peers \in SUBSET Peers, Leaves(peers)
  PROVE  Orderly'
<1>1. LeaveFacts(peers) BY Leaving
<1>2. /\ registered' = registered \ peers /\ jobs = <<>> /\ jobs' = <<>>
      /\ draining' = FALSE /\ calls' = calls /\ owned' = owned /\ live' = live /\ bound' = bound
      /\ last' = last
  BY DEF Leaves
<1>3. \A x \in DOMAIN calls :
        /\ calls[x].pc # "yield"
        /\ calls[x].pc \in Place => /\ Awaited(x).outcome = "none" /\ Awaited(x).inflight
                                    /\ calls[x].rec \in DOMAIN records
  BY <1>2, AtRest, Parts1, AwaitedRecord
<1>4. \A x : ~In(jobs', x) BY <1>2, NothingIn
<1>5. \A x, y : ~Ahead(jobs', x, y) BY <1>2, EmptyOrder
<1>6. \A x \in DOMAIN calls : calls[x].pc \in Place =>
        records'[calls[x].rec].outcome = "none" /\ records'[calls[x].rec].args = Awaited(x).args
        /\ records'[calls[x].rec].waiters = Awaited(x).waiters
  BY <1>1, <1>3 DEF LeaveFacts, Awaited
<1>7. Placed' BY <1>2, <1>3, <1>6, Parts1 DEF Placed, Awaited
<1>8. Creators'
  <2>1. \A x \in DOMAIN calls : calls[x].pc = "create" => calls[x].rec \in DOMAIN records
    BY <1>3 DEF Place
  <2> QED BY <1>1, <1>2, <2>1, Parts1 DEF Creators, Awaited, LeaveFacts
<1>9. \A i \in DOMAIN sent : i \in DOMAIN sent' /\ sent'[i] = sent[i]
  <2>1. PICK m : m = [rec |-> 0, call |-> 0] OBVIOUS
  <2>2. m \in Command BY <2>1 DEF Command
  <2>3. sent' = sent \/ sent' = Append(sent, m) BY <2>1 DEF Leaves
  <2> QED BY <2>2, <2>3, Parts1, SentGrows
<1>10. Fifo' BY <1>1, <1>9, Parts1 DEF Fifo, LeaveFacts
<1>11. JobsOrder' BY <1>4, <1>5 DEF JobsOrder
<1>12. Fresh' BY <1>4 DEF Fresh
<1>13. Kept'
  <2>1. SUFFICES ASSUME current' # 0
        PROVE  /\ Owners' # {}
               /\ ~Held'.inflight => Held'.outcome = "ok"
               /\ \A x \in DOMAIN calls : calls[x].pc = "create" /\ calls[x].rec = current' =>
                    Owners' = {calls[x].peer}
    BY <1>2 DEF Kept
  <2>2. ~LastOwnersOf(peers \cap owned) BY <1>1, <2>1 DEF LeaveFacts
  <2>3. /\ current' = current /\ current # 0 /\ Owners' = Owners \ (peers \cap owned)
        /\ Held'.outcome = Held.outcome /\ Held'.inflight = Held.inflight
        /\ peers \cap owned = {} \/ ~(Owners \subseteq peers \cap owned)
    BY <1>1, <2>1, <2>2 DEF LeaveFacts
  <2> QED BY <2>3, Parts1 DEF Kept
<1>14. Superseded'
  <2>1. SUFFICES ASSUME NEW x \in DOMAIN calls, calls[x].pc = "create", calls[x].rec # current'
        PROVE  /\ records'[calls[x].rec].owners = {} /\ calls[x].peer \notin registered'
               /\ records'[calls[x].rec].outcome = "none"
               /\ live => records'[calls[x].rec].args \notin Refusable
    BY <1>2 DEF Superseded, Awaited
  <2>2. /\ calls[x].rec \in DOMAIN records /\ Awaited(x).outcome = "none"
        /\ records'[calls[x].rec].outcome = "none" /\ records'[calls[x].rec].args = Awaited(x).args
    BY <1>3, <1>6, <2>1 DEF Place
  <2>3. CASE calls[x].rec # current
    <3>1. records'[calls[x].rec].owners = Awaited(x).owners
      BY <1>1, <2>2, <2>3 DEF LeaveFacts, Awaited
    <3> QED BY <1>2, <2>1, <2>2, <2>3, <3>1, Parts1 DEF Superseded
  <2>4. CASE calls[x].rec = current
    <3>1. LastOwnersOf(peers \cap owned) BY <1>1, <2>1, <2>4 DEF LeaveFacts
    <3>2. current # 0 /\ Owners \subseteq peers /\ records'[current].owners = {}
      BY <1>1, <3>1 DEF LeaveFacts
    <3>3. Owners = {calls[x].peer} BY <2>1, <2>4, <3>2, Parts1 DEF Kept
    <3>4. calls[x].peer \in peers BY <3>2, <3>3
    <3>5. x \in Unanswered(calls[x].peer) BY <2>1 DEF Unanswered, Waits
    <3>6. calls[x].args \notin Refusable BY <3>4, <3>5 DEF Leaves
    <3>7. calls[x].args = Awaited(x).args BY <2>1, Parts1 DEF Base, CallsOK
    <3> QED BY <1>2, <2>2, <2>4, <3>2, <3>4, <3>6, <3>7
  <2> QED BY <2>3, <2>4
<1>15. ASSUME NEW q \in Owners, q \notin peers
       PROVE  current # 0 /\ ~LastOwnersOf(peers \cap owned) /\ current' = current /\ q \in Owners'
  <2>1. current # 0 BY <1>15 DEF Owners
  <2>2. ~LastOwnersOf(peers \cap owned) BY <1>1, <1>15 DEF LeaveFacts
  <2> QED BY <1>1, <1>15, <2>1, <2>2 DEF LeaveFacts
<1>16. OwnedOrOrphan'
  <2>1. SUFFICES ASSUME NEW q \in registered, q \notin peers, q \in owned PROVE q \in Owners'
    BY <1>2 DEF OwnedOrOrphan
  <2>2. ~Orphan(q) BY <1>3 DEF Orphan, Place
  <2>3. q \in Owners BY <2>1, <2>2, Parts1 DEF OwnedOrOrphan
  <2> QED BY <1>15, <2>1, <2>3
<1>17. DeadSettle' BY <1>2, <1>6 DEF DeadSettle, Awaited
<1>18. ASSUME NEW d \in DOMAIN calls, calls[d].pc = "drop", calls[d].peer \in registered'
       PROVE  calls[d].rec = current' /\ calls[d].peer \in Owners'
  <2>1. Awaited(d).outcome = "none" BY <1>3, <1>18 DEF Place
  <2>2. calls[d].rec = current /\ calls[d].peer \in Owners
    BY <1>2, <1>18, <2>1, Parts1 DEF DropsHeld
  <2> QED BY <1>2, <1>15, <1>18, <2>2
<1>19. DropsHeld' BY <1>2, <1>18 DEF DropsHeld
<1>20. DropsOwn'
  <2>1. SUFFICES ASSUME NEW x \in DOMAIN calls, NEW d \in DOMAIN calls,
                        calls[d].pc \in {"drop", "yield"}, calls[d].peer \in registered',
                        calls[x].peer = calls[d].peer
        PROVE  /\ calls[x].pc = "create" => calls[d].pc = "drop" /\ calls[d].rec = calls[x].rec
               /\ calls[d].pc = "drop" /\ calls[d].rec = current'
    BY <1>2 DEF DropsOwn, Drops
  <2>2. calls[d].pc = "drop" /\ calls[d].rec = current' BY <1>3, <1>18, <2>1
  <2>3. Drops(d) BY <1>2, <2>1 DEF Drops
  <2> QED BY <2>1, <2>2, <2>3, Parts1 DEF DropsOwn
<1>21. Binding'
  <2>1. SUFFICES ASSUME live PROVE Binding' BY <1>2 DEF Binding
  <2>2. sent = <<>> /\ current # 0 => bound = Held.args
    BY <1>2, <2>1, HeldAtRest, Parts1 DEF Binding
  <2>3. CASE LastOwnersOf(peers \cap owned)
    <3>1. PICK m : m = [rec |-> 0, call |-> 0] OBVIOUS
    <3>2. m \in Command /\ m.rec = 0 BY <3>1 DEF Command
    <3>3. sent' = Append(sent, m) BY <2>1, <2>3, <3>1 DEF Leaves
    <3>4. current' = 0 /\ current # 0 BY <1>1, <2>3 DEF LeaveFacts
    <3>5. Held.args # None
      <4>1. current \in DOMAIN records BY <3>4, Parts1, HeldRecord
      <4>2. Held.args \in Args BY <4>1, Parts1, HeldRecord, RecordFields DEF Held
      <4> QED BY <4>2, LedgerAssumption
    <3>6. sent = <<>> => bound # None BY <2>2, <3>4, <3>5
    <3> QED BY <1>2, <2>1, <3>2, <3>3, <3>4, <3>6, SentAlternates
  <2>4. CASE ~LastOwnersOf(peers \cap owned)
    <3>1. sent' = sent /\ current' = current BY <1>1, <2>4 DEF Leaves, LeaveFacts
    <3>2. current # 0 => Held'.args = Held.args /\ Held'.outcome = Held.outcome
      BY <1>1, <2>4 DEF LeaveFacts
    <3>3. Binding BY Parts1
    <3> QED BY <1>2, <2>1, <3>1, <3>2, <3>3 DEF Binding
  <2> QED BY <2>3, <2>4
<1>22. LatestHolds'
  <2>1. SUFFICES ASSUME NEW p \in Peers, last[p] # 0
        PROVE  /\ calls[last[p]].peer = p
               /\ calls[last[p]].op = "subscribe" =>
                   /\ \A d \in DOMAIN calls :
                        calls[d].peer = p /\ calls[d].pc \in Waits => calls[d].op = "subscribe"
                   /\ live /\ calls[last[p]].pc = "ok" /\ p \in registered' =>
                        /\ current' # 0 /\ p \in Owners' /\ ~Held'.inflight
                        /\ Held'.args = calls[last[p]].args
    BY <1>2 DEF LatestHolds
  <2>2. /\ calls[last[p]].peer = p
        /\ calls[last[p]].op = "subscribe" =>
             /\ \A d \in DOMAIN calls :
                  calls[d].peer = p /\ calls[d].pc \in Waits => calls[d].op = "subscribe"
             /\ live /\ calls[last[p]].pc = "ok" /\ p \in registered =>
                  current # 0 /\ p \in Owners /\ ~Held.inflight /\ Held.args = calls[last[p]].args
    BY <2>1, Parts1 DEF LatestHolds
  <2>3. ASSUME p \in Owners, p \notin peers, ~Held.inflight
        PROVE  /\ current' # 0 /\ p \in Owners' /\ ~Held'.inflight /\ Held'.args = Held.args
    BY <1>1, <1>15, <2>3 DEF LeaveFacts
  <2> QED BY <1>2, <2>2, <2>3
<1> QED BY <1>7, <1>8, <1>10, <1>11, <1>12, <1>13, <1>14, <1>16, <1>17, <1>19, <1>20, <1>21, <1>22
        DEF Orderly

LEMMA ReleaseOrderly ==
  ASSUME Inv, Unruly = {}, NEW peers \in SUBSET Peers, Release(peers)
  PROVE  Orderly'
<1>1. Leaves(peers) BY Parts1, ReleaseSteps DEF Leaves, Release
<1> QED BY <1>1, LeavesOrderly

LEMMA DisconnectOrderly ==
  ASSUME Inv, Disconnect
  PROVE  Orderly'
<1>1. /\ live /\ jobs = <<>> /\ ~live'
      /\ registered' = registered /\ owned' = owned /\ records' = records /\ current' = current
      /\ calls' = calls /\ sent' = sent /\ bound' = bound /\ jobs' = jobs /\ draining' = draining
      /\ last' = last
  BY DEF Disconnect, Idle
<1>2. Owners' = Owners /\ Held' = Held BY <1>1 DEF Owners, Held
<1>3. \A x : ~In(jobs', x) BY <1>1, NothingIn
<1>4. Placed' /\ Creators' /\ Fifo' BY <1>1, Parts1 DEF Placed, Creators, Fifo, Awaited
<1>5. JobsOrder'
  <2>1. \A x, y : ~Ahead(jobs', x, y) BY <1>1, EmptyOrder
  <2> QED BY <1>3, <2>1 DEF JobsOrder
<1>6. Fresh' BY <1>3 DEF Fresh
<1>7. Kept' /\ Superseded' BY <1>1, <1>2, Parts1 DEF Kept, Superseded, Awaited
<1>8. OwnedOrOrphan' BY <1>1, <1>2, Parts1 DEF OwnedOrOrphan, Orphan
<1>9. DeadSettle'
  <2>1. \A x \in DOMAIN calls : calls[x].pc \in Place => Awaited(x).outcome = "none" BY <1>1, AtRest
  <2> QED BY <1>1, <2>1 DEF DeadSettle, Awaited
<1>10. DropsHeld' BY <1>1, <1>2, Parts1 DEF DropsHeld, Awaited
<1>11. DropsOwn' BY <1>1, Parts1 DEF DropsOwn, Drops, Awaited
<1>12. Binding' BY <1>1 DEF Binding
<1>13. LatestHolds' BY <1>1, <1>2, Parts1 DEF LatestHolds
<1> QED BY <1>4, <1>5, <1>6, <1>7, <1>8, <1>9, <1>10, <1>11, <1>12, <1>13 DEF Orderly

LEMMA StutterOrderly ==
  ASSUME Orderly, UNCHANGED vars
  PROVE  Orderly'
<1>1. /\ registered' = registered /\ owned' = owned /\ records' = records /\ current' = current
      /\ calls' = calls /\ sent' = sent /\ bound' = bound /\ live' = live /\ jobs' = jobs
      /\ draining' = draining /\ last' = last
  BY DEF vars
<1>2. Owners' = Owners /\ Held' = Held BY <1>1 DEF Owners, Held
<1>3. Placed' /\ Creators' /\ Fifo'
  BY <1>1 DEF Orderly, Placed, Creators, Fifo, Awaited
<1>4. JobsOrder' /\ Fresh'
  BY <1>1 DEF Orderly, JobsOrder, Fresh, Releases, Drops, Stale, Awaited
<1>5. Kept' /\ Superseded' BY <1>1, <1>2 DEF Orderly, Kept, Superseded, Awaited
<1>6. OwnedOrOrphan' BY <1>1, <1>2 DEF Orderly, OwnedOrOrphan, Orphan, Awaited
<1>7. DeadSettle' /\ DropsHeld' BY <1>1, <1>2 DEF Orderly, DeadSettle, DropsHeld, Awaited
<1>8. DropsOwn' BY <1>1 DEF Orderly, DropsOwn, Drops, Awaited
<1>9. Binding' BY <1>1, <1>2 DEF Orderly, Binding
<1>10. LatestHolds' BY <1>1, <1>2 DEF Orderly, LatestHolds
<1> QED BY <1>3, <1>4, <1>5, <1>6, <1>7, <1>8, <1>9, <1>10 DEF Orderly

LEMMA OrderlyInit == ASSUME Init PROVE Orderly
<1>1. /\ registered = Peers /\ owned = {} /\ records = <<>> /\ current = 0 /\ calls = <<>>
      /\ sent = <<>> /\ bound = None /\ live = TRUE /\ jobs = <<>>
      /\ last = [p \in Peers |-> 0]
  BY DEF Init
<1>2. DOMAIN calls = {} /\ DOMAIN records = {} /\ DOMAIN sent = {} BY <1>1
<1>3. Placed /\ Creators /\ Fifo BY <1>2 DEF Placed, Creators, Fifo
<1>4. JobsOrder /\ Fresh /\ Superseded BY <1>2 DEF JobsOrder, Fresh, Superseded
<1>5. Kept /\ OwnedOrOrphan BY <1>1 DEF Kept, OwnedOrOrphan
<1>6. DeadSettle /\ DropsHeld /\ DropsOwn BY <1>2 DEF DeadSettle, DropsHeld, DropsOwn
<1>7. Binding BY <1>1, <1>2 DEF Binding
<1>8. LatestHolds BY <1>1 DEF LatestHolds
<1> QED BY <1>3, <1>4, <1>5, <1>6, <1>7, <1>8 DEF Orderly

LEMMA InvNext == ASSUME Unruly = {}, Inv, [Next]_vars PROVE Inv'
<1> SUFFICES Orderly'
  <2>1. Base' /\ Refcount' BY BaseNext, RefcountNext DEF Inv
  <2> QED BY <2>1 DEF Inv
<1>2. ASSUME NEW p \in Peers, NEW a \in Args, Subscribe(p, a) PROVE Orderly'
  <2>1. Moves(Request("subscribe", p, a), Asking, <<>>) BY <1>2, SubscribeMoves
  <2> QED BY <2>1, MovesOrderly
<1>3. ASSUME NEW p \in Peers, Unsubscribe(p) PROVE Orderly'
  <2>1. Moves(Request("unsubscribe", p, None), Asking, <<>>) BY <1>3, UnsubscribeMoves
  <2> QED BY <2>1, MovesOrderly
<1>4. ASSUME NEW p \in Peers, ReleasePeer(p) PROVE Orderly'
  <2>1. {p} \in SUBSET Peers /\ Release({p}) BY <1>4 DEF ReleasePeer
  <2> QED BY <2>1, ReleaseOrderly
<1>5. CASE Dispose
  <2>1. registered \in SUBSET Peers /\ Release(registered)
    BY <1>5, Parts1 DEF Dispose, Base, Types
  <2> QED BY <2>1, ReleaseOrderly
<1>6. CASE Reply \/ Reject BY <1>6, SettleOrderly
<1>7. CASE Disconnect BY <1>7, DisconnectOrderly
<1>8. CASE Job
  <2>1. PICK c, rest : Moves(calls, c, rest) BY <1>8, JobMoves
  <2> QED BY <2>1, MovesOrderly
<1>9. CASE UNCHANGED vars BY <1>9, StutterOrderly DEF Inv
<1> QED BY <1>2, <1>3, <1>4, <1>5, <1>6, <1>7, <1>8, <1>9 DEF Next

LEMMA InvHolds == Unruly = {} => (Spec => []Inv)
<1>1. ASSUME Unruly = {} PROVE Spec => []Inv
  <2>1. Init => Inv
    <3>1. ASSUME Init PROVE Refcount
      <4>1. calls = <<>> BY <3>1 DEF Init
      <4> QED BY <3>1, <4>1 DEF Init, Refcount, OwnersAreLive, OwnersKnow, Owners, JoinersAreLive
    <3> QED BY <3>1, BaseInit, OrderlyInit DEF Inv
  <2>2. Inv /\ [Next]_vars => Inv' BY <1>1, InvNext
  <2> QED BY <2>1, <2>2, PTL DEF Spec
<1> QED BY <1>1

LEMMA InvLockstep == ASSUME Inv PROVE Lockstep
<1>1. TypeOK BY Parts1, BaseTypes
<1>2. ASSUME jobs = <<>>, NEW p \in registered PROVE p \in owned <=> p \in Owners
  <2>1. p \in Owners => p \in owned BY Parts1 DEF OwnersKnow
  <2>2. ~Orphan(p)
    <3>1. SUFFICES ASSUME NEW c \in DOMAIN calls, calls[c].pc = "create", Awaited(c).outcome = "error"
          PROVE  FALSE
      BY DEF Orphan
    <3>2. Awaited(c).outcome = "none" BY <1>2, <3>1, AtRest DEF Place
    <3> QED BY <3>1, <3>2
  <2> QED BY <2>1, <2>2, Parts1 DEF OwnedOrOrphan
<1> QED BY <1>1, <1>2 DEF Lockstep

LEMMA InvFollows == ASSUME Inv PROVE TmuxFollowsLedger
<1>1. ASSUME Quiet, live PROVE bound = IF current = 0 THEN None ELSE Held.args
  <2>1. sent = <<>> /\ jobs = <<>> BY <1>1 DEF Quiet
  <2>2. current # 0 => Held.outcome # "error" BY <2>1, HeldAtRest
  <2> QED BY <1>1, <2>1, <2>2, Parts1 DEF Binding
<1>2. AnsweredIsBound
  <2>1. SUFFICES ASSUME Quiet, live, NEW p \in registered, last[p] # 0,
                        calls[last[p]].op = "subscribe", calls[last[p]].pc = "ok"
        PROVE  bound = calls[last[p]].args
    BY DEF AnsweredIsBound
  <2>2. p \in Peers BY Parts1 DEF Base, Types
  <2>3. current # 0 /\ Held.args = calls[last[p]].args
    BY <2>1, <2>2, Parts1 DEF LatestHolds
  <2> QED BY <1>1, <2>1, <2>3
<1> QED BY <1>1, <1>2 DEF TmuxFollowsLedger

(* When peers wait for their own calls, the ledger's two indexes agree     *)
(* whenever no continuation waits to run: what releasePeer walks           *)
(* (`ownedByPeer') is what the refcounts of `subscriptions' count.         *)
THEOREM IndexesAgree == Unruly = {} => (Spec => []Lockstep)
<1>1. Inv => Lockstep BY InvLockstep
<1> QED BY <1>1, InvHolds, PTL

(* And once tmux has answered everything, what it has bound to the name is *)
(* what the ledger holds and what each peer's latest subscribe was answered *)
(* `ok' for, through refusals, joins, takeovers and departures.            *)
THEOREM TmuxAgrees == Unruly = {} => (Spec => []TmuxFollowsLedger)
<1>1. Inv => TmuxFollowsLedger BY InvFollows
<1> QED BY <1>1, InvHolds, PTL
=====
