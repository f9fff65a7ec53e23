------------------------ MODULE ElectronBridgeProofs ------------------------
(***************************************************************************)
(* Theorems about ElectronBridge, for every set of windows, every batch    *)
(* and every watermark: what a window leaves behind is forgotten, and no   *)
(* credit is lost between the processes, so that a pane somebody watches   *)
(* is held back by nobody once every message has been delivered.           *)
(*                                                                         *)
(* What the methods of the BackpressureLedger do is known from its own     *)
(* proofs; `L' makes their lemmas available for this ledger.               *)
(***************************************************************************)
EXTENDS ElectronBridge, FiniteSetTheorems, SequenceTheorems, TLAPS

L == INSTANCE BackpressureLedgerProofs WITH MaxRefusals <- 0, MaxOutput <- MaxEvents

-----------------------------------------------------------------------------
(* The lemmas of the ledger's proofs, for the ledger of the bridge *)

LEMMA SameFinite == ASSUME NEW S PROVE IsFiniteSet(S) <=> L!IsFiniteSet(S)
BY DEF IsFiniteSet, L!IsFiniteSet

LEMMA LedgerAssumptions == L!WatermarkAssumption /\ L!PeersAssumption /\ L!BoundAssumption
<1>1. 0 \in Nat OBVIOUS
<1> QED BY <1>1, BridgeAssumption, SameFinite DEF L!WatermarkAssumption, L!PeersAssumption, L!BoundAssumption

LEMMA RangeInduction ==
  ASSUME NEW N \in Nat, NEW Good \in SUBSET (0..N), 0 \in Good,
         \A n \in 0..N : n # N /\ n \in Good => n + 1 \in Good
  PROVE  N \in Good
BY LedgerAssumptions, L!RangeInduction

LEMMA SumType ==
  ASSUME NEW f \in [Peers -> Nat]
  PROVE  L!SumFunction(f) \in Nat
BY LedgerAssumptions, SameFinite, BridgeAssumption, L!SumType

LEMMA SumExcept ==
  ASSUME NEW f \in [Peers -> Nat], NEW d \in Peers, NEW n \in Nat
  PROVE  L!SumFunction([f EXCEPT ![d] = n]) = L!SumFunction(f) - f[d] + n
BY LedgerAssumptions, SameFinite, BridgeAssumption, L!SumExcept

LEMMA SameSum ==
  ASSUME NEW f
  PROVE  Flow!SumFunction(f) = L!SumFunction(f)
BY DEF L!SumFunction, Flow!SumFunction, L!SumFunctionOnSet, Flow!SumFunctionOnSet,
       L!FoldFunctionOnSet, Flow!FoldFunctionOnSet, L!MapThenFoldSet, Flow!MapThenFoldSet

LEMMA SameResume == ASSUME NEW l PROVE Flow!maybeResume(l) = L!maybeResume(l)
BY SameSum DEF Flow!maybeResume, L!maybeResume, Flow!totalOutstanding, L!totalOutstanding, Flow!Issue, L!Issue

LEMMA SameIssue ==
  ASSUME NEW l, NEW action, NEW flush
  PROVE  Flow!Issue(l, action, flush) = L!Issue(l, action, flush)
BY DEF Flow!Issue, L!Issue

LEMMA SameAccount ==
  ASSUME NEW l, NEW p
  PROVE  Flow!account(l, p) = L!maybePause([l EXCEPT !.outstanding[p] = @ + 1])
BY SameSum DEF Flow!account, Flow!maybePause, L!maybePause, Flow!totalOutstanding, L!totalOutstanding,
               Flow!Issue, L!Issue

LEMMA SameAck ==
  ASSUME NEW l, NEW p, NEW n
  PROVE  Flow!ack(l, p, n) = L!maybeResume([l EXCEPT !.outstanding[p] = IF n < @ THEN @ - n ELSE 0])
BY SameResume DEF Flow!ack

LEMMA SameRelease ==
  ASSUME NEW l, NEW p
  PROVE  LET m == [l EXCEPT !.registered = @ \ {p}] IN
         Flow!releasePeer(l, p) = IF m.outstanding[p] = 0 THEN m ELSE L!maybeResume([m EXCEPT !.outstanding[p] = 0])
BY SameResume DEF Flow!releasePeer, Flow!clearPeer

LEMMA SameFlush ==
  ASSUME NEW l
  PROVE  Flow!flushPausedPanes(l) = L!Drop(IF l.flow = 0 \/ l.resuming THEN l ELSE L!Issue(l, "continue", TRUE))
BY DEF Flow!flushPausedPanes, Flow!Drop, L!Drop, Flow!Issue, L!Issue

LEMMA SameCommit ==
  ASSUME NEW l, NEW rest, Flow!Commit(l, rest)
  PROVE  /\ ledger' = [l EXCEPT !.issued = <<>>]
         /\ IF live THEN sent' = sent \o l.issued /\ jobs' = rest
                    ELSE sent' = sent /\ jobs' = rest \o L!Rejected(l.issued)
BY Zenon DEF Flow!Commit, Flow!Rejected, L!Rejected, Flow!LoopContinues, L!LoopContinues,
       Flow!LoopContinue, L!LoopContinue

LEMMA SameTypes == Flow!TypeOK <=> L!TypeOK
BY DEF Flow!TypeOK, L!TypeOK, Flow!Command, L!Command

-----------------------------------------------------------------------------
(* What the methods do to a ledger *)

(* The pause loop is where it was, and nothing is sent.                    *)
Quiet(l, k) ==
  /\ k \in L!LedgerRecord /\ k.flow = l.flow /\ k.resuming = l.resuming
  /\ k.episodes = l.episodes /\ k.issued = l.issued

Owing(l, k, p, n) ==
  Quiet(l, k) /\ k.outstanding = [l.outstanding EXCEPT ![p] = n]

LEMMA RecordTypes ==
  ASSUME NEW l \in L!LedgerRecord
  PROVE  /\ l.registered \in SUBSET Peers /\ l.outstanding \in [Peers -> Nat] /\ l.flow \in Nat
         /\ l.resuming \in BOOLEAN /\ l.episodes \in Nat /\ l.issued \in Seq(L!Command)
         /\ L!totalOutstanding(l) \in Nat
<1>1. l.outstanding \in [Peers -> Nat] BY DEF L!LedgerRecord
<1>2. L!totalOutstanding(l) \in Nat BY <1>1, SumType DEF L!totalOutstanding
<1> QED BY <1>2 DEF L!LedgerRecord

LEMMA OwesNow ==
  ASSUME NEW l \in L!LedgerRecord, NEW p \in Peers, NEW n \in Nat
  PROVE  LET k == [l EXCEPT !.outstanding[p] = n] IN
         Owing(l, k, p, n) /\ k.registered = l.registered
BY LedgerAssumptions, L!EmptyPeer DEF Owing, Quiet

LEMMA TotalMoves ==
  ASSUME NEW l \in L!LedgerRecord, NEW k, NEW p \in Peers, NEW n \in Nat, Owing(l, k, p, n)
  PROVE  L!totalOutstanding(k) = L!totalOutstanding(l) - l.outstanding[p] + n
BY RecordTypes, SumExcept DEF Owing, Quiet, L!totalOutstanding

LEMMA RegisterDoes ==
  ASSUME NEW l \in L!LedgerRecord, NEW R \in SUBSET Peers
  PROVE  LET k == [l EXCEPT !.registered = R] IN
         Quiet(l, k) /\ k.registered = R /\ k.outstanding = l.outstanding
BY DEF Quiet, L!LedgerRecord

LEMMA AccountDoes ==
  ASSUME NEW l \in L!LedgerRecord, NEW p \in Peers
  PROVE  \E k : /\ Owing(l, k, p, l.outstanding[p] + 1) /\ k.registered = l.registered
                /\ L!MayPause(k, Flow!account(l, p))
<1>1. l.outstanding[p] + 1 \in Nat BY RecordTypes
<1> DEFINE n == l.outstanding[p] + 1  k == [l EXCEPT !.outstanding[p] = n]
<1>2. Flow!account(l, p) = L!maybePause(k) BY SameAccount DEF L!LedgerRecord
<1>3. Owing(l, k, p, n) /\ k.registered = l.registered
  <2>1. \A x \in Nat : Owing(l, [l EXCEPT !.outstanding[p] = x], p, x)
                        /\ [l EXCEPT !.outstanding[p] = x].registered = l.registered
    BY OwesNow
  <2> QED BY <1>1, <2>1
<1> HIDE DEF k
<1>4. L!MayPause(k, L!maybePause(k)) BY <1>3, LedgerAssumptions, L!MaybePauseDoes DEF Owing, Quiet
<1> QED BY <1>2, <1>3, <1>4

LEMMA AckDoes ==
  ASSUME NEW l \in L!LedgerRecord, NEW p \in Peers, NEW n \in Nat
  PROVE  \E k : /\ Owing(l, k, p, IF n < l.outstanding[p] THEN l.outstanding[p] - n ELSE 0)
                /\ k.registered = l.registered /\ L!MayResume(k, Flow!ack(l, p, n))
<1> DEFINE o == IF n < l.outstanding[p] THEN l.outstanding[p] - n ELSE 0
           k == [l EXCEPT !.outstanding[p] = o]
<1>1. o \in Nat BY RecordTypes
<1>2. Flow!ack(l, p, n) = L!maybeResume(k) BY SameAck DEF L!LedgerRecord
<1>3. Owing(l, k, p, o) /\ k.registered = l.registered
  <2>1. \A x \in Nat : Owing(l, [l EXCEPT !.outstanding[p] = x], p, x)
                        /\ [l EXCEPT !.outstanding[p] = x].registered = l.registered
    BY OwesNow
  <2> QED BY <1>1, <2>1
<1> HIDE DEF k
<1>4. L!MayResume(k, L!maybeResume(k)) BY <1>3, LedgerAssumptions, L!MaybeResumeDoes DEF Owing, Quiet
<1> QED BY <1>2, <1>3, <1>4

(* A peer that owed nothing has nobody looked at.                          *)
LEMMA ReleaseDoes ==
  ASSUME NEW l \in L!LedgerRecord, NEW p \in Peers
  PROVE  \E k : /\ Owing(l, k, p, 0) /\ k.registered = l.registered \ {p}
                /\ \/ Flow!releasePeer(l, p) = k /\ l.outstanding[p] = 0
                   \/ L!MayResume(k, Flow!releasePeer(l, p))
<1> DEFINE m == [l EXCEPT !.registered = @ \ {p}]  k == [m EXCEPT !.outstanding[p] = 0]
<1>1. Quiet(l, m) /\ m.registered = l.registered \ {p} /\ m.outstanding = l.outstanding
  <2>1. l.registered \ {p} \in SUBSET Peers BY RecordTypes
  <2> QED BY <2>1 DEF Quiet, L!LedgerRecord
<1>2. Flow!releasePeer(l, p) = IF m.outstanding[p] = 0 THEN m ELSE L!maybeResume(k) BY Zenon, SameRelease
<1> HIDE DEF m
<1>3. Owing(m, k, p, 0) /\ k.registered = m.registered BY <1>1, OwesNow DEF Quiet
<1>4. Owing(l, k, p, 0) /\ k.registered = l.registered \ {p} BY <1>1, <1>3 DEF Owing, Quiet
<1>5. CASE l.outstanding[p] = 0
  <2>1. l.outstanding = [l.outstanding EXCEPT ![p] = 0] BY <1>5, RecordTypes
  <2>2. Owing(l, m, p, 0) BY <1>1, <2>1 DEF Owing
  <2> QED BY <1>1, <1>2, <1>5, <2>2
<1>6. CASE l.outstanding[p] # 0
  <2> HIDE DEF k
  <2>1. L!MayResume(k, L!maybeResume(k)) BY <1>4, LedgerAssumptions, L!MaybeResumeDoes DEF Owing, Quiet
  <2> QED BY <1>1, <1>2, <1>4, <1>6, <2>1
<1> QED BY <1>5, <1>6

(* A command of the suppressor, or of flushPausedPanes.                    *)
Sends(l, k, action) ==
  /\ k \in L!LedgerRecord /\ k.flow = l.flow /\ k.resuming = l.resuming
  /\ k.episodes = l.episodes /\ k.outstanding = l.outstanding /\ k.registered = l.registered
  /\ k.issued = Append(l.issued, [action |-> action, episode |-> l.flow, flush |-> TRUE])

LEMMA IssueDoes ==
  ASSUME NEW l \in L!LedgerRecord, NEW action \in {"pause", "continue"}
  PROVE  Sends(l, L!Issue(l, action, TRUE), action)
BY LedgerAssumptions, L!IssueOne DEF Sends

LEMMA PaneActionDoes ==
  ASSUME NEW l \in L!LedgerRecord, NEW action \in {"pause", "continue"}
  PROVE  IF Suppress THEN Sends(l, paneAction(l, action), action) ELSE paneAction(l, action) = l
BY IssueDoes, SameIssue DEF paneAction

LEMMA FlushDoes ==
  ASSUME NEW l \in L!LedgerRecord
  PROVE  LET m == Flow!flushPausedPanes(l) IN
         /\ m \in L!LedgerRecord /\ m.flow = 0 /\ ~m.resuming /\ m.episodes = l.episodes
         /\ m.outstanding = l.outstanding /\ m.registered = l.registered
         /\ IF l.flow = 0 \/ l.resuming THEN m.issued = l.issued
            ELSE m.issued = Append(l.issued, [action |-> "continue", episode |-> l.flow, flush |-> TRUE])
<1> DEFINE i == L!Issue(l, "continue", TRUE)
<1>1. Sends(l, i, "continue") BY IssueDoes
<1> HIDE DEF i
<1>2. i \in L!LedgerRecord BY <1>1 DEF Sends
<1>3. \A k \in L!LedgerRecord :
        /\ L!Drop(k) \in L!LedgerRecord /\ L!Drop(k).flow = 0 /\ ~L!Drop(k).resuming
        /\ L!Drop(k).episodes = k.episodes /\ L!Drop(k).issued = k.issued
        /\ L!Drop(k).outstanding = k.outstanding /\ L!Drop(k).registered = k.registered
  BY LedgerAssumptions, L!DropDoes
<1>4. Flow!flushPausedPanes(l) = L!Drop(IF l.flow = 0 \/ l.resuming THEN l ELSE i) BY SameFlush DEF i
<1> QED BY <1>1, <1>2, <1>3, <1>4 DEF Sends

-----------------------------------------------------------------------------
(* The registry.  A token is one sender's, and is not given out again; a   *)
(* WebContents that is gone has none.                                      *)
Registry ==
  /\ senders \in [Renderers -> [peer : Peers \cup {0}, subscribed : BOOLEAN]]
  /\ made \in Peers \cup {0} /\ ledger \in L!LedgerRecord
  /\ \A r, q \in Known : senders[r].peer = senders[q].peer => r = q
  /\ \A r \in Known : senders[r].peer \in 1..made
  /\ Subscribed \subseteq Known
  /\ ledger.registered = PeersOf(Known)
  /\ \A r \in Renderers : wc[r] = "gone" => ~Knows(r)
  /\ disposed => Known = {}

LEMMA PeersCount ==
  /\ Cardinality(Peers) \in Nat /\ Peers = 1..Cardinality(Peers)
  /\ \A p \in Peers : p \in Nat /\ p # 0
<1> DEFINE N == Cardinality(Peers)
<1>1. N \in Nat /\ Peers = 1..N BY BridgeAssumption, FS_CardinalityType
<1> HIDE DEF N
<1>2. \A p \in Peers : p \in Nat /\ p # 0 BY <1>1
<1> QED BY <1>1, <1>2 DEF N

LEMMA Tokens ==
  ASSUME Registry
  PROVE  /\ made \in Nat /\ 1..made \subseteq Peers
         /\ \A r \in Known : r \in Renderers /\ senders[r].peer \in 1..made /\ senders[r].peer \in Peers
<1>1. Peers = 1..Cardinality(Peers) /\ Cardinality(Peers) \in Nat BY PeersCount
<1>2. made \in Nat /\ 1..made \subseteq Peers
  <2> DEFINE N == Cardinality(Peers)
  <2> HIDE DEF N
  <2> QED BY <1>1 DEF Registry, N
<1> QED BY <1>2 DEF Registry, Known

LEMMA SenderOf ==
  ASSUME Registry, NEW R \in SUBSET Known
  PROVE  /\ \A r \in Known : Sender(senders[r].peer) = r
         /\ \A p \in PeersOf(R) : /\ p \in 1..made /\ p \in Peers
                                  /\ Sender(p) \in R /\ senders[Sender(p)].peer = p
<1>1. ASSUME NEW r \in Known PROVE Sender(senders[r].peer) = r BY DEF Sender, Registry
<1>2. ASSUME NEW p \in PeersOf(R)
      PROVE  /\ p \in 1..made /\ p \in Peers /\ Sender(p) \in R /\ senders[Sender(p)].peer = p
  <2>1. PICK r \in R : p = senders[r].peer BY <1>2 DEF PeersOf
  <2>2. Sender(p) = r BY <1>1, <2>1
  <2> QED BY <2>1, <2>2, Tokens
<1> QED BY <1>1, <1>2

(* A function that is given at 0, and at n by what it is at n - 1.         *)
Maps(T, N) == [1..N -> [T -> T]]
Chain(g, T, N, a, F) ==
  g \in [0..N -> T] /\ g[0] = a /\ \A n \in 1..N : g[n] = F[n][g[n - 1]]

LEMMA ChainExists ==
  ASSUME NEW T, NEW N \in Nat, NEW a \in T, NEW F \in Maps(T, N)
  PROVE  \E g : Chain(g, T, N, a, F)
<1> USE DEF Maps, Chain
<1> DEFINE Good(n) == \E g \in [0..n -> T] : g[0] = a /\ \A i \in 1..n : g[i] = F[i][g[i - 1]]
           Levels == {n \in 0..N : Good(n)}
<1>1. Good(0)
  <2> DEFINE z == [i \in 0..0 |-> a]
  <2>1. z \in [0..0 -> T] /\ z[0] = a /\ \A i \in 1..0 : z[i] = F[i][z[i - 1]] OBVIOUS
  <2> HIDE DEF z
  <2> QED BY <2>1
<1>2. ASSUME NEW n \in 0..N, n # N, Good(n) PROVE Good(n + 1)
  <2>1. PICK g \in [0..n -> T] : g[0] = a /\ \A i \in 1..n : g[i] = F[i][g[i - 1]] BY <1>2
  <2>2. n \in Nat /\ n + 1 \in 1..N /\ n \in 0..n /\ n + 1 \notin 0..n /\ n + 1 # 0 BY <1>2
  <2> DEFINE x == F[n + 1][g[n]]
             h == [i \in 0..(n + 1) |-> IF i = n + 1 THEN x ELSE g[i]]
  <2>3. x \in T
    <3>1. g[n] \in T /\ F[n + 1] \in [T -> T] BY <2>2
    <3> QED BY <3>1
  <2>4. \A i \in 0..(n + 1) : i # n + 1 => i \in 0..n BY <2>2
  <2> HIDE DEF x
  <2>5. h \in [0..(n + 1) -> T] BY <2>3, <2>4
  <2>6. \A i \in 0..n : i \in 0..(n + 1) /\ i # n + 1 BY <2>2
  <2>7. h[n + 1] = x /\ \A i \in 0..n : h[i] = g[i] BY <2>2, <2>6
  <2> HIDE DEF h
  <2>8. ASSUME NEW i \in 1..(n + 1) PROVE h[i] = F[i][h[i - 1]]
    <3>1. CASE i = n + 1
      <4>1. i - 1 = n BY <2>2, <3>1
      <4> QED BY <2>2, <2>7, <3>1, <4>1 DEF x
    <3>2. CASE i # n + 1
      <4>1. i \in 1..n /\ i \in 0..n /\ i - 1 \in 0..n BY <2>2, <3>2
      <4> QED BY <2>1, <2>7, <4>1
    <3> QED BY <3>1, <3>2
  <2>9. h[0] = a
    <3>1. 0 \in 0..n BY <2>2
    <3> QED BY <2>1, <2>7, <3>1
  <2> QED BY <2>5, <2>8, <2>9
<1>3. N \in Levels
  <2> HIDE DEF Good
  <2>1. 0 \in Levels /\ Levels \in SUBSET (0..N) BY <1>1
  <2>2. ASSUME NEW n \in 0..N, n # N, n \in Levels PROVE n + 1 \in Levels
    <3>1. n + 1 \in 0..N BY <2>2
    <3> QED BY <1>2, <2>2, <3>1
  <2> HIDE DEF Levels
  <2> QED BY <2>1, <2>2, RangeInduction
<1> QED BY <1>3

(* Each sender of R leaves at its token.                                   *)
Younger(p, R) == Known \ {x \in R : senders[x].peer <= p}
Leaving1(l, p, R) == Leaves(l, Sender(p), Younger(p, R))

WalksOut(g, R) ==
  /\ g \in [0..made -> L!LedgerRecord] /\ g[0] = ledger /\ LedgerWithout(R) = g[made]
  /\ \A p \in 1..made : g[p] = IF p \in PeersOf(R) THEN Leaving1(g[p - 1], p, R) ELSE g[p - 1]

LEMMA LeavesType ==
  ASSUME NEW l \in L!LedgerRecord, NEW r, senders[r].peer \in Peers, NEW rest
  PROVE  Leaves(l, r, rest) \in L!LedgerRecord
<1> DEFINE i == IF senders[r].subscribed /\ rest \cap Subscribed = {} THEN paneAction(l, "pause") ELSE l
<1>1. i \in L!LedgerRecord BY PaneActionDoes DEF Sends
<1>2. Leaves(l, r, rest) = Flow!releasePeer(i, senders[r].peer) BY DEF Leaves
<1> HIDE DEF i
<1>3. PICK k : /\ Owing(i, k, senders[r].peer, 0)
               /\ \/ Flow!releasePeer(i, senders[r].peer) = k
                  \/ L!MayResume(k, Flow!releasePeer(i, senders[r].peer))
  BY <1>1, ReleaseDoes
<1> QED BY <1>2, <1>3 DEF Owing, Quiet, L!MayResume

LEMMA WithoutWalks ==
  ASSUME Registry, NEW R \in SUBSET Known
  PROVE  \E g : WalksOut(g, R)
<1> DEFINE Body(g, p) == IF p = 0 THEN ledger
                         ELSE IF p \in PeersOf(R) THEN Leaving1(g[p - 1], p, R) ELSE g[p - 1]
           F == [p \in 1..made |-> [l \in L!LedgerRecord |-> IF p \in PeersOf(R) THEN Leaving1(l, p, R) ELSE l]]
<1>0. made \in Nat /\ ledger \in L!LedgerRecord BY Tokens DEF Registry
<1>1. F \in [1..made -> [L!LedgerRecord -> L!LedgerRecord]]
  <2>1. ASSUME NEW p \in 1..made, NEW l \in L!LedgerRecord, p \in PeersOf(R)
        PROVE  Leaving1(l, p, R) \in L!LedgerRecord
    BY <2>1, SenderOf, LeavesType DEF Leaving1
  <2> QED BY <2>1
<1>2. \A p \in 1..made : \A l \in L!LedgerRecord :
        F[p][l] = IF p \in PeersOf(R) THEN Leaving1(l, p, R) ELSE l
  OBVIOUS
<1> HIDE DEF F
<1>3. PICK h \in [0..made -> L!LedgerRecord] : h[0] = ledger /\ \A p \in 1..made : h[p] = F[p][h[p - 1]]
  <2> DEFINE T == L!LedgerRecord  N == made  a == ledger
  <2>1. N \in Nat /\ a \in T /\ F \in [1..N -> [T -> T]] BY <1>0, <1>1
  <2> HIDE DEF T, N, a
  <2>2. F \in Maps(T, N) BY <2>1 DEF Maps
  <2>3. \E h : Chain(h, T, N, a, F) BY <2>1, <2>2, ChainExists
  <2> QED BY <2>3 DEF T, N, a, Chain
<1>4. \A p \in 1..made : h[p] = IF p \in PeersOf(R) THEN Leaving1(h[p - 1], p, R) ELSE h[p - 1]
  <2>1. \A p \in 1..made : p - 1 \in 0..made BY <1>0
  <2>2. \A p \in 1..made : h[p - 1] \in L!LedgerRecord BY <1>3, <2>1
  <2> QED BY <1>2, <1>3, <2>2
<1>5. \A p \in 0..made : h[p] = Body(h, p)
  <2>1. \A p \in 0..made : p # 0 => p \in 1..made BY <1>0
  <2> QED BY <1>3, <1>4, <2>1
<1>6. h = [p \in 0..made |-> Body(h, p)]
  <2> HIDE DEF Body
  <2> QED BY <1>3, <1>5
<1> DEFINE g == CHOOSE k : k = [p \in 0..made |-> Body(k, p)]
<1>7. g = [p \in 0..made |-> Body(g, p)] BY <1>6
<1>8. LedgerWithout(R) = g[made] BY DEF LedgerWithout, Leaving1, Younger
<1> HIDE DEF g
<1>9. \A p \in 0..made : g[p] = Body(g, p)
  <2> HIDE DEF Body
  <2> QED BY <1>7
<1>10. g[0] = ledger BY <1>0, <1>9
<1>11. \A p \in 1..made : g[p] = IF p \in PeersOf(R) THEN Leaving1(g[p - 1], p, R) ELSE g[p - 1]
  <2>1. \A p \in 1..made : p # 0 /\ p \in 0..made BY <1>0
  <2> QED BY <1>9, <2>1
<1>12. \A p \in 0..made : g[p] \in L!LedgerRecord
  <2> DEFINE Good == {p \in 0..made : \A q \in 0..p : g[q] = h[q]}
  <2>1. 0 \in Good
    <3>1. \A q \in 0..0 : q = 0 OBVIOUS
    <3> QED BY <1>0, <1>3, <1>10, <3>1
  <2>2. ASSUME NEW p \in 0..made, p # made, p \in Good PROVE p + 1 \in Good
    <3>1. p \in Nat /\ p + 1 \in 1..made /\ p + 1 \in 0..made /\ p + 1 - 1 = p /\ p \in 0..p BY <1>0, <2>2
    <3>2. g[p] = h[p] BY <2>2, <3>1
    <3>3. g[p + 1] = h[p + 1] BY <1>4, <1>11, <3>1, <3>2
    <3>4. \A q \in 0..(p + 1) : q = p + 1 \/ q \in 0..p BY <3>1
    <3> QED BY <2>2, <3>1, <3>3, <3>4
  <2>3. made \in Good
    <3>1. Good \in SUBSET (0..made) OBVIOUS
    <3> HIDE DEF Good
    <3> QED BY <1>0, <2>1, <2>2, <3>1, RangeInduction
  <2> QED BY <1>3, <2>3
<1>13. g \in [0..made -> L!LedgerRecord]
  <2> HIDE DEF Body
  <2> QED BY <1>7, <1>12
<1> QED BY <1>8, <1>10, <1>11, <1>13 DEF WalksOut

(* What the calls of one handler have asked of tmux since it began, all    *)
(* for the episode of the ledger: a Continue of the loop exactly if the    *)
(* ledger began to resume, and no Pause while `on'.                        *)
Asked(m, on) ==
  /\ ledger.resuming => m.resuming
  /\ m.resuming => ledger.resuming \/ ledger.flow # 0
  /\ \A i \in DOMAIN m.issued : m.issued[i].episode = ledger.flow
  /\ (\E i \in DOMAIN m.issued : L!LoopContinue(m.issued[i])) <=> (m.resuming /\ ~ledger.resuming)
  /\ on => \A i \in DOMAIN m.issued : m.issued[i].action = "continue"

HeldBack(l) == l.flow # 0 /\ ~l.resuming => L!totalOutstanding(l) > Low

LEMMA AppendedCommand ==
  ASSUME NEW s \in Seq(L!Command), NEW c
  PROVE  /\ DOMAIN Append(s, c) = (DOMAIN s) \cup {Len(s) + 1}
         /\ Append(s, c)[Len(s) + 1] = c
         /\ \A i \in DOMAIN s : Append(s, c)[i] = s[i] /\ i # Len(s) + 1
<1> DEFINE n == Len(s)
<1>1. n \in Nat /\ DOMAIN s = 1..n OBVIOUS
<1>2. Len(Append(s, c)) = n + 1 /\ DOMAIN Append(s, c) = 1..(n + 1)
      /\ Append(s, c)[n + 1] = c /\ \A i \in 1..n : Append(s, c)[i] = s[i]
  OBVIOUS
<1> HIDE DEF n
<1> QED BY <1>1, <1>2 DEF n

LEMMA AskedSend ==
  ASSUME NEW m \in L!LedgerRecord, NEW k, NEW action, NEW on \in BOOLEAN,
         Asked(m, on), Sends(m, k, action), m.flow = ledger.flow, on => action = "continue"
  PROVE  Asked(k, on)
<1> DEFINE c == [action |-> action, episode |-> m.flow, flush |-> TRUE]  s == m.issued
<1>1. k.issued = Append(s, c) /\ k.resuming = m.resuming BY DEF Sends
<1>2. s \in Seq(L!Command) BY RecordTypes
<1>3. ~L!LoopContinue(c) /\ c.episode = ledger.flow /\ c.action = action BY DEF L!LoopContinue
<1> HIDE DEF c, s
<1>4. /\ DOMAIN k.issued = (DOMAIN s) \cup {Len(s) + 1} /\ k.issued[Len(s) + 1] = c
      /\ \A i \in DOMAIN s : k.issued[i] = s[i] /\ i # Len(s) + 1
  BY <1>1, <1>2, AppendedCommand
<1> QED BY <1>1, <1>3, <1>4 DEF Asked, s

LEMMA AskedResume ==
  ASSUME NEW m \in L!LedgerRecord, NEW k, NEW on \in BOOLEAN,
         Asked(m, on), L!MayResume(m, k), m.flow = ledger.flow
  PROVE  Asked(k, on)
<1>1. CASE k.resuming = m.resuming /\ k.issued = m.issued BY <1>1 DEF Asked
<1>2. CASE m.flow # 0 /\ ~m.resuming /\ k.resuming /\ k.issued = Append(m.issued, L!Continue(m.flow, FALSE))
  <2> DEFINE c == L!Continue(m.flow, FALSE)  s == m.issued
  <2>1. L!LoopContinue(c) /\ c.episode = ledger.flow /\ c.action = "continue" BY DEF L!LoopContinue, L!Continue
  <2>2. s \in Seq(L!Command) /\ k.issued = Append(s, c) BY <1>2, RecordTypes
  <2> HIDE DEF c, s
  <2>3. /\ DOMAIN k.issued = (DOMAIN s) \cup {Len(s) + 1} /\ k.issued[Len(s) + 1] = c
        /\ \A i \in DOMAIN s : k.issued[i] = s[i] /\ i # Len(s) + 1
    BY <2>2, AppendedCommand
  <2>4. ~ledger.resuming BY <1>2 DEF Asked
  <2> QED BY <1>2, <2>1, <2>3, <2>4 DEF Asked, s
<1> QED BY <1>1, <1>2 DEF L!MayResume

LEMMA LeavesDoes ==
  ASSUME NEW l \in L!LedgerRecord, NEW r, senders[r].peer \in Peers, NEW rest, NEW on \in BOOLEAN,
         Asked(l, on), HeldBack(l), l.flow = ledger.flow,
         on => ~Suppress \/ rest \cap Subscribed # {}
  PROVE  LET m == Leaves(l, r, rest) IN
         /\ m \in L!LedgerRecord /\ m.flow = l.flow /\ m.episodes = l.episodes
         /\ m.registered = l.registered \ {senders[r].peer}
         /\ m.outstanding = [l.outstanding EXCEPT ![senders[r].peer] = 0]
         /\ Asked(m, on) /\ HeldBack(m)
<1> DEFINE i == IF senders[r].subscribed /\ rest \cap Subscribed = {} THEN paneAction(l, "pause") ELSE l
           p == senders[r].peer
           m == Leaves(l, r, rest)
<1>1. /\ i \in L!LedgerRecord /\ i.flow = l.flow /\ i.resuming = l.resuming
      /\ i.episodes = l.episodes /\ i.outstanding = l.outstanding /\ i.registered = l.registered
      /\ Asked(i, on)
  <2>1. CASE i = l BY <2>1
  <2>2. CASE i # l
    <3>1. Suppress /\ rest \cap Subscribed = {} /\ i = paneAction(l, "pause")
          /\ Sends(l, paneAction(l, "pause"), "pause")
      BY <2>2, PaneActionDoes
    <3>2. ~on BY <3>1
    <3> HIDE DEF i
    <3>3. Asked(i, on) BY <3>1, <3>2, AskedSend
    <3> QED BY <3>1, <3>3 DEF Sends
  <2> QED BY <2>1, <2>2
<1>2. m = Flow!releasePeer(i, p) /\ p \in Peers BY DEF Leaves
<1> HIDE DEF i, m, p
<1>3. PICK k : /\ Owing(i, k, p, 0) /\ k.registered = i.registered \ {p}
               /\ (m = k /\ i.outstanding[p] = 0) \/ L!MayResume(k, m)
  BY <1>1, <1>2, ReleaseDoes
<1>4. /\ k \in L!LedgerRecord /\ k.flow = i.flow /\ k.resuming = i.resuming
      /\ k.episodes = i.episodes /\ k.issued = i.issued /\ k.outstanding = [l.outstanding EXCEPT ![p] = 0]
      /\ k.registered = l.registered \ {p}
  BY <1>1, <1>3 DEF Owing, Quiet
<1>5. Asked(k, on) BY <1>1, <1>4 DEF Asked
<1>6. CASE m = k /\ i.outstanding[p] = 0
  <2>1. L!totalOutstanding(k) = L!totalOutstanding(l)
    <3>1. k.outstanding = l.outstanding BY <1>1, <1>2, <1>4, <1>6, RecordTypes
    <3> QED BY <3>1 DEF L!totalOutstanding
  <2>2. HeldBack(k) BY <1>1, <1>4, <2>1 DEF HeldBack
  <2> QED BY <1>1, <1>4, <1>5, <1>6, <2>2 DEF m, p
<1>7. CASE L!MayResume(k, m)
  <2>1. Asked(m, on) BY <1>1, <1>4, <1>5, <1>7, AskedResume
  <2>2. HeldBack(m)
    <3>1. m \in L!LedgerRecord /\ (m.flow # 0 /\ L!totalOutstanding(m) <= Low => m.resuming)
      BY <1>7 DEF L!MayResume
    <3>2. L!totalOutstanding(m) \in Nat /\ Low \in Nat BY <3>1, RecordTypes, BridgeAssumption
    <3> QED BY <3>1, <3>2 DEF HeldBack
  <2> QED BY <1>1, <1>4, <1>7, <2>1, <2>2 DEF L!MayResume, m, p
<1> QED BY <1>3, <1>6, <1>7

(* What the senders of R leave behind: their peers owe nothing, and the    *)
(* rest is held back as before.                                            *)
Watched(R) == ~Suppress \/ Subscribed \ R # {}
Gone(R, q) == {p \in PeersOf(R) : p <= q}
Left(m, R, q) ==
  /\ m \in L!LedgerRecord /\ m.flow = ledger.flow /\ m.episodes = ledger.episodes
  /\ m.registered = ledger.registered \ Gone(R, q)
  /\ \A p \in Peers : m.outstanding[p] = IF p \in Gone(R, q) THEN 0 ELSE ledger.outstanding[p]
  /\ Asked(m, Watched(R)) /\ HeldBack(m)

LEMMA WithoutDoes ==
  ASSUME Registry, NEW R \in SUBSET Known, HeldBack(ledger), ledger.issued = <<>>
  PROVE  Left(LedgerWithout(R), R, made)
<1>1. PICK g : WalksOut(g, R) BY WithoutWalks
<1>2. made \in Nat /\ (1..made \subseteq Peers) /\ ledger \in L!LedgerRecord /\ PeersOf(R) \subseteq 1..made
  BY Tokens, SenderOf DEF Registry
<1> DEFINE Good == {q \in 0..made : Left(g[q], R, q)}
<1>3. 0 \in Good
  <2>1. Gone(R, 0) = {} BY <1>2 DEF Gone
  <2>2. Asked(ledger, Watched(R)) BY <1>2 DEF Asked
  <2>3. g[0] = ledger BY <1>1 DEF WalksOut
  <2> QED BY <1>2, <2>1, <2>2, <2>3 DEF Left
<1>4. ASSUME NEW n \in 0..made, n # made, n \in Good PROVE n + 1 \in Good
  <2> DEFINE p == n + 1  l == g[n]
  <2>1. p \in 1..made /\ p \in 0..made /\ p - 1 = n /\ p \in Peers BY <1>2, <1>4
  <2>2. Left(l, R, n) BY <1>4
  <2>3. g[p] = IF p \in PeersOf(R) THEN Leaving1(l, p, R) ELSE l BY <1>1, <2>1 DEF WalksOut
  <2>4. \A x \in PeersOf(R) : x <= p <=> (x <= n \/ x = p) BY <1>2, <1>4
  <2>5. CASE p \notin PeersOf(R)
    <3>1. Gone(R, p) = Gone(R, n) BY <2>4, <2>5 DEF Gone
    <3> QED BY <2>1, <2>2, <2>3, <2>5, <3>1 DEF Left
  <2>6. CASE p \in PeersOf(R)
    <3>1. Gone(R, p) = Gone(R, n) \cup {p} BY <2>4, <2>6 DEF Gone
    <3> DEFINE r == Sender(p)  rest == Younger(p, R)  on == Watched(R)  m == Leaves(l, r, rest)
    <3>2. r \in R /\ senders[r].peer = p BY <2>6, SenderOf
    <3>3. on => ~Suppress \/ rest \cap Subscribed # {} BY DEF Watched, Younger, Registry
    <3>4. on \in BOOLEAN /\ Asked(l, on) /\ HeldBack(l) /\ l.flow = ledger.flow /\ l \in L!LedgerRecord
      BY <2>2 DEF Left, Watched
    <3>5. g[p] = m BY <2>3, <2>6 DEF Leaving1
    <3> HIDE DEF r, rest, on, m, l, p
    <3>6. /\ m \in L!LedgerRecord /\ m.flow = l.flow /\ m.episodes = l.episodes
          /\ m.registered = l.registered \ {p}
          /\ m.outstanding = [l.outstanding EXCEPT ![p] = 0]
          /\ Asked(m, on) /\ HeldBack(m)
      <4>1. senders[r].peer \in Peers BY <2>1, <3>2
      <4>2. /\ m \in L!LedgerRecord /\ m.flow = l.flow /\ m.episodes = l.episodes
            /\ m.registered = l.registered \ {senders[r].peer}
            /\ m.outstanding = [l.outstanding EXCEPT ![senders[r].peer] = 0]
            /\ Asked(m, on) /\ HeldBack(m)
        BY <3>3, <3>4, <4>1, LeavesDoes DEF m
      <4> QED BY <3>2, <4>2
    <3>7. l.outstanding \in [Peers -> Nat] BY <3>4, RecordTypes
    <3>8. \A x \in Peers : m.outstanding[x] = IF x \in Gone(R, p) THEN 0 ELSE ledger.outstanding[x]
      BY <2>1, <2>2, <3>1, <3>6, <3>7 DEF Left
    <3>9. m.registered = ledger.registered \ Gone(R, p) BY <2>2, <3>1, <3>6 DEF Left
    <3>10. m.flow = ledger.flow /\ m.episodes = ledger.episodes BY <2>2, <3>6 DEF Left
    <3>11. Left(m, R, p) BY <3>6, <3>8, <3>9, <3>10 DEF Left, on
    <3> QED BY <2>1, <3>5, <3>11 DEF p
  <2> QED BY <2>5, <2>6
<1>5. made \in Good
  <2>1. Good \in SUBSET (0..made) OBVIOUS
  <2> HIDE DEF Good
  <2> QED BY <1>2, <1>3, <1>4, <2>1, RangeInduction
<1> QED BY <1>1, <1>5 DEF WalksOut

(* The whole of R leaves.                                                  *)
LEMMA WithoutAll ==
  ASSUME Registry, NEW R \in SUBSET Known, HeldBack(ledger), ledger.issued = <<>>
  PROVE  LET m == LedgerWithout(R) IN
         /\ m \in L!LedgerRecord /\ m.flow = ledger.flow /\ m.episodes = ledger.episodes
         /\ m.registered = ledger.registered \ PeersOf(R)
         /\ \A p \in Peers : m.outstanding[p] = IF p \in PeersOf(R) THEN 0 ELSE ledger.outstanding[p]
         /\ Asked(m, Watched(R)) /\ HeldBack(m)
<1>1. Gone(R, made) = PeersOf(R) BY SenderOf, Tokens DEF Gone
<1> QED BY <1>1, WithoutDoes DEF Left

-----------------------------------------------------------------------------
(* The pause the chunk of a pane may bring about.                          *)
Billing1(l, p) == Flow!account(l, p)
WalksBilling(g, S) ==
  /\ g \in [0..made -> L!LedgerRecord] /\ g[0] = ledger /\ LedgerBilling(S) = g[made]
  /\ \A p \in 1..made : g[p] = IF p \in PeersOf(S) THEN Billing1(g[p - 1], p) ELSE g[p - 1]

LEMMA BillingWalks ==
  ASSUME Registry, NEW S \in SUBSET Known
  PROVE  \E g : WalksBilling(g, S)
<1> DEFINE Body(g, p) == IF p = 0 THEN ledger
                         ELSE IF p \in PeersOf(S) THEN Billing1(g[p - 1], p) ELSE g[p - 1]
           F == [p \in 1..made |-> [l \in L!LedgerRecord |-> IF p \in PeersOf(S) THEN Billing1(l, p) ELSE l]]
<1>0. made \in Nat /\ ledger \in L!LedgerRecord BY Tokens DEF Registry
<1>1. F \in [1..made -> [L!LedgerRecord -> L!LedgerRecord]]
  <2>1. ASSUME NEW p \in 1..made, NEW l \in L!LedgerRecord, p \in PeersOf(S)
        PROVE  Billing1(l, p) \in L!LedgerRecord
    <3>1. p \in Peers BY <2>1, SenderOf
    <3>2. \E k : L!MayPause(k, Flow!account(l, p)) BY <3>1, AccountDoes
    <3> QED BY <3>2 DEF L!MayPause, Billing1
  <2> QED BY <2>1
<1>2. \A p \in 1..made : \A l \in L!LedgerRecord :
        F[p][l] = IF p \in PeersOf(S) THEN Billing1(l, p) ELSE l
  OBVIOUS
<1> HIDE DEF F
<1>3. PICK h \in [0..made -> L!LedgerRecord] : h[0] = ledger /\ \A p \in 1..made : h[p] = F[p][h[p - 1]]
  <2> DEFINE T == L!LedgerRecord  N == made  a == ledger
  <2>1. N \in Nat /\ a \in T /\ F \in [1..N -> [T -> T]] BY <1>0, <1>1
  <2> HIDE DEF T, N, a
  <2>2. F \in Maps(T, N) BY <2>1 DEF Maps
  <2>3. \E h : Chain(h, T, N, a, F) BY <2>1, <2>2, ChainExists
  <2> QED BY <2>3 DEF T, N, a, Chain
<1>4. \A p \in 1..made : h[p] = IF p \in PeersOf(S) THEN Billing1(h[p - 1], p) ELSE h[p - 1]
  <2>1. \A p \in 1..made : p - 1 \in 0..made BY <1>0
  <2>2. \A p \in 1..made : h[p - 1] \in L!LedgerRecord BY <1>3, <2>1
  <2> QED BY <1>2, <1>3, <2>2
<1>5. \A p \in 0..made : h[p] = Body(h, p)
  <2>1. \A p \in 0..made : p # 0 => p \in 1..made BY <1>0
  <2> QED BY <1>3, <1>4, <2>1
<1>6. h = [p \in 0..made |-> Body(h, p)]
  <2> HIDE DEF Body
  <2> QED BY <1>3, <1>5
<1> DEFINE g == CHOOSE k : k = [p \in 0..made |-> Body(k, p)]
<1>7. g = [p \in 0..made |-> Body(g, p)] BY <1>6
<1>8. LedgerBilling(S) = g[made] BY DEF LedgerBilling, Billing1
<1> HIDE DEF g
<1>9. \A p \in 0..made : g[p] = Body(g, p)
  <2> HIDE DEF Body
  <2> QED BY <1>7
<1>10. g[0] = ledger BY <1>0, <1>9
<1>11. \A p \in 1..made : g[p] = IF p \in PeersOf(S) THEN Billing1(g[p - 1], p) ELSE g[p - 1]
  <2>1. \A p \in 1..made : p # 0 /\ p \in 0..made BY <1>0
  <2> QED BY <1>9, <2>1
<1>12. \A p \in 0..made : g[p] \in L!LedgerRecord
  <2> DEFINE Good == {p \in 0..made : \A q \in 0..p : g[q] = h[q]}
  <2>1. 0 \in Good
    <3>1. \A q \in 0..0 : q = 0 OBVIOUS
    <3> QED BY <1>0, <1>3, <1>10, <3>1
  <2>2. ASSUME NEW p \in 0..made, p # made, p \in Good PROVE p + 1 \in Good
    <3>1. p \in Nat /\ p + 1 \in 1..made /\ p + 1 \in 0..made /\ p + 1 - 1 = p /\ p \in 0..p BY <1>0, <2>2
    <3>2. g[p] = h[p] BY <2>2, <3>1
    <3>3. g[p + 1] = h[p + 1] BY <1>4, <1>11, <3>1, <3>2
    <3>4. \A q \in 0..(p + 1) : q = p + 1 \/ q \in 0..p BY <3>1
    <3> QED BY <2>2, <3>1, <3>3, <3>4
  <2>3. made \in Good
    <3>1. Good \in SUBSET (0..made) OBVIOUS
    <3> HIDE DEF Good
    <3> QED BY <1>0, <2>1, <2>2, <3>1, RangeInduction
  <2> QED BY <1>3, <2>3
<1>13. g \in [0..made -> L!LedgerRecord]
  <2> HIDE DEF Body
  <2> QED BY <1>7, <1>12
<1> QED BY <1>8, <1>10, <1>11, <1>13 DEF WalksBilling

Billing(m, S, q) ==
  /\ m \in L!LedgerRecord /\ m.registered = ledger.registered /\ m.resuming = ledger.resuming
  /\ \A p \in Peers : m.outstanding[p] = ledger.outstanding[p] + IF p \in Gone(S, q) THEN 1 ELSE 0
  /\ L!totalOutstanding(m) >= L!totalOutstanding(ledger)
  /\ \/ m.flow = ledger.flow /\ m.episodes = ledger.episodes /\ m.issued = <<>>
     \/ /\ ledger.flow = 0 /\ m.flow = ledger.episodes + 1 /\ m.episodes = ledger.episodes + 1
        /\ m.issued = <<L!Pause(m.flow)>> /\ L!totalOutstanding(m) > Low

LEMMA BillsOne ==
  ASSUME Registry, NEW S \in SUBSET Known, NEW n \in Nat, NEW l, NEW p \in Peers,
         Billing(l, S, n), p \notin Gone(S, n), Gone(S, p) = Gone(S, n) \cup {p}
  PROVE  Billing(Flow!account(l, p), S, p)
<1> DEFINE m == Flow!account(l, p)
<1>1. l \in L!LedgerRecord /\ l.outstanding \in [Peers -> Nat] BY RecordTypes DEF Billing
<1> HIDE DEF m
<1>2. PICK k : /\ Owing(l, k, p, l.outstanding[p] + 1) /\ k.registered = l.registered /\ L!MayPause(k, m)
  BY <1>1, AccountDoes DEF m
<1>3. /\ k \in L!LedgerRecord /\ k.flow = l.flow /\ k.resuming = l.resuming
      /\ k.episodes = l.episodes /\ k.issued = l.issued
      /\ k.outstanding = [l.outstanding EXCEPT ![p] = l.outstanding[p] + 1]
  BY <1>2 DEF Owing, Quiet
<1>4. L!totalOutstanding(k) = L!totalOutstanding(l) + 1
  <2>1. l.outstanding[p] \in Nat /\ l.outstanding[p] + 1 \in Nat BY <1>1
  <2>2. L!totalOutstanding(k) = L!totalOutstanding(l) - l.outstanding[p] + (l.outstanding[p] + 1)
    BY <1>1, <1>2, <2>1, TotalMoves
  <2>3. L!totalOutstanding(l) \in Nat BY <1>1, RecordTypes
  <2> QED BY <2>1, <2>2, <2>3
<1>5. L!totalOutstanding(m) = L!totalOutstanding(k) /\ m.outstanding = k.outstanding
      /\ m \in L!LedgerRecord /\ m.registered = k.registered /\ m.resuming = k.resuming
  BY <1>2 DEF L!MayPause, L!totalOutstanding
<1>6. \A x \in Peers : m.outstanding[x] = ledger.outstanding[x] + IF x \in Gone(S, p) THEN 1 ELSE 0
  <2>1. \A x \in Peers : m.outstanding[x] = IF x = p THEN l.outstanding[p] + 1 ELSE l.outstanding[x]
    BY <1>1, <1>3, <1>5
  <2>2. \A x \in Peers : ledger.outstanding[x] \in Nat BY RecordTypes DEF Registry
  <2> QED BY <2>1, <2>2 DEF Billing
<1>7. /\ L!totalOutstanding(l) \in Nat /\ L!totalOutstanding(ledger) \in Nat /\ Low \in Nat
      /\ l.issued \in Seq(L!Command) /\ ledger.episodes \in Nat
  BY <1>1, RecordTypes, BridgeAssumption DEF Registry
<1>8. CASE m.flow = k.flow /\ m.episodes = k.episodes /\ m.issued = k.issued
  <2>1. CASE l.flow = ledger.flow /\ l.episodes = ledger.episodes /\ l.issued = <<>>
    BY <1>2, <1>3, <1>4, <1>5, <1>6, <1>7, <1>8, <2>1 DEF Billing, m
  <2>2. CASE /\ ledger.flow = 0 /\ l.flow = ledger.episodes + 1 /\ l.episodes = ledger.episodes + 1
             /\ l.issued = <<L!Pause(l.flow)>> /\ L!totalOutstanding(l) > Low
    BY <1>2, <1>3, <1>4, <1>5, <1>6, <1>7, <1>8, <2>2 DEF Billing, m
  <2> QED BY <2>1, <2>2 DEF Billing
<1>9. CASE /\ k.flow = 0 /\ L!totalOutstanding(k) > Low
           /\ m.flow = k.episodes + 1 /\ m.episodes = k.episodes + 1
           /\ m.issued = Append(k.issued, L!Pause(m.flow))
  <2>1. l.flow = ledger.flow /\ l.episodes = ledger.episodes /\ l.issued = <<>>
    BY <1>3, <1>7, <1>9 DEF Billing
  <2>2. m.issued = <<L!Pause(m.flow)>> BY <1>3, <1>9, <2>1
  <2> QED BY <1>2, <1>3, <1>4, <1>5, <1>6, <1>7, <1>9, <2>1, <2>2 DEF Billing, m
<1> QED BY <1>2, <1>8, <1>9 DEF L!MayPause

LEMMA BillingDoes ==
  ASSUME Registry, NEW S \in SUBSET Known, ledger.issued = <<>>
  PROVE  Billing(LedgerBilling(S), S, made)
<1>1. PICK g : WalksBilling(g, S) BY BillingWalks
<1>2. made \in Nat /\ (1..made \subseteq Peers) /\ ledger \in L!LedgerRecord /\ PeersOf(S) \subseteq 1..made
  BY Tokens, SenderOf DEF Registry
<1> DEFINE Good == {q \in 0..made : Billing(g[q], S, q)}
<1>3. 0 \in Good
  <2>1. Gone(S, 0) = {} BY <1>2 DEF Gone
  <2>2. g[0] = ledger BY <1>1 DEF WalksBilling
  <2>3. \A p \in Peers : ledger.outstanding[p] \in Nat BY <1>2, RecordTypes
  <2>4. L!totalOutstanding(ledger) \in Nat BY <1>2, RecordTypes
  <2> QED BY <1>2, <2>1, <2>2, <2>3, <2>4 DEF Billing
<1>4. ASSUME NEW n \in 0..made, n # made, n \in Good PROVE n + 1 \in Good
  <2> DEFINE p == n + 1  l == g[n]
  <2>1. p \in 1..made /\ p \in 0..made /\ p - 1 = n /\ p \in Peers /\ n \in Nat BY <1>2, <1>4
  <2>2. Billing(l, S, n) BY <1>4
  <2>3. g[p] = IF p \in PeersOf(S) THEN Flow!account(l, p) ELSE l BY <1>1, <2>1 DEF WalksBilling, Billing1
  <2>4. \A x \in PeersOf(S) : x <= p <=> (x <= n \/ x = p) BY <1>2, <1>4
  <2>5. p \notin Gone(S, n) BY <1>2, <1>4 DEF Gone
  <2> HIDE DEF l, p
  <2>6. CASE p \notin PeersOf(S)
    <3>1. Gone(S, p) = Gone(S, n) BY <2>4, <2>6 DEF Gone
    <3>2. Billing(l, S, p) BY <2>2, <3>1 DEF Billing
    <3> QED BY <2>1, <2>3, <2>6, <3>2 DEF p
  <2>7. CASE p \in PeersOf(S)
    <3>1. Gone(S, p) = Gone(S, n) \cup {p} BY <2>4, <2>7 DEF Gone
    <3>2. Billing(Flow!account(l, p), S, p) BY <2>1, <2>2, <2>5, <3>1, BillsOne
    <3> QED BY <2>1, <2>3, <2>7, <3>2 DEF p
  <2> QED BY <2>6, <2>7
<1>5. made \in Good
  <2>1. Good \in SUBSET (0..made) OBVIOUS
  <2> HIDE DEF Good
  <2> QED BY <1>2, <1>3, <1>4, <2>1, RangeInduction
<1> QED BY <1>1, <1>5 DEF WalksBilling

LEMMA BillingAll ==
  ASSUME Registry, NEW S \in SUBSET Known, ledger.issued = <<>>
  PROVE  /\ Gone(S, made) = PeersOf(S) /\ Billing(LedgerBilling(S), S, made)
<1>1. Gone(S, made) = PeersOf(S) BY SenderOf, Tokens DEF Gone
<1> QED BY <1>1, BillingDoes

-----------------------------------------------------------------------------
(* The pane: what the ledger holds back it has a reason to, and without a  *)
(* refusal of tmux every Continue ends its episode.                        *)
FlowOK ==
  /\ L!TypeOK
  /\ due = {} /\ reported = {} /\ refusals = 0
  /\ ledger.flow <= ledger.episodes /\ HeldBack(ledger)
  /\ \A i \in DOMAIN inbox : inbox[i].ok
  /\ \A i \in DOMAIN jobs : jobs[i].outcome # "refused"

LEMMA LedgerNow ==
  ASSUME L!TypeOK
  PROVE  ledger \in L!LedgerRecord /\ ledger.issued = <<>>
<1>1. <<>> \in Seq(L!Command) OBVIOUS
<1> QED BY <1>1 DEF L!TypeOK, L!LedgerRecord

LEMMA RestOfQueue ==
  ASSUME NEW T, NEW s \in Seq(T), s # <<>>
  PROVE  /\ Tail(s) \in Seq(T) /\ s[1] \in T /\ 1 \in DOMAIN s
         /\ \A i \in DOMAIN Tail(s) : i + 1 \in DOMAIN s /\ Tail(s)[i] = s[i + 1]
<1>1. Len(s) \in Nat /\ Len(s) # 0 /\ DOMAIN s = 1..Len(s) BY EmptySeq
<1>2. DOMAIN Tail(s) = 1..(Len(s) - 1) /\ \A i \in 1..(Len(s) - 1) : Tail(s)[i] = s[i + 1] BY <1>1
<1> QED BY <1>1, <1>2

(* A call that leaves the ledger as m, in a handler or while a chunk is    *)
(* dispatched.                                                             *)
Commits(m, rest) ==
  /\ Flow!Commit(m, rest)
  /\ m \in L!LedgerRecord /\ m.flow <= m.episodes /\ HeldBack(m)
  /\ rest \in {<<>>, jobs}

LEMMA CommitDoes ==
  ASSUME FlowOK, NEW m, NEW rest, Commits(m, rest)
  PROVE  /\ ledger' \in L!LedgerRecord /\ ledger'.issued = <<>> /\ ledger'.flow = m.flow
         /\ ledger'.registered = m.registered /\ ledger'.outstanding = m.outstanding
         /\ ledger'.resuming = m.resuming /\ ledger'.episodes = m.episodes
         /\ sent' \in Seq(L!Command) /\ jobs' \in Seq(L!Settlement)
         /\ \A i \in DOMAIN jobs' : jobs'[i].outcome # "refused"
         /\ live => sent' = sent \o m.issued /\ jobs' = rest
<1>1. m \in L!LedgerRecord /\ m.issued \in Seq(L!Command) BY RecordTypes DEF Commits
<1>2. <<>> \in Seq(L!Command) OBVIOUS
<1>3. ledger' = [m EXCEPT !.issued = <<>>]
      /\ IF live THEN sent' = sent \o m.issued /\ jobs' = rest
                 ELSE sent' = sent /\ jobs' = rest \o L!Rejected(m.issued)
  BY SameCommit DEF Commits
<1>4. sent \in Seq(L!Command) /\ jobs \in Seq(L!Settlement) BY DEF FlowOK, L!TypeOK, L!Settlement
<1>5. rest \in Seq(L!Settlement) /\ \A i \in DOMAIN rest : rest[i].outcome # "refused"
  <2>1. CASE rest = <<>> BY <2>1
  <2>2. CASE rest = jobs BY <1>4, <2>2 DEF FlowOK
  <2> QED BY <2>1, <2>2 DEF Commits
<1>6. L!Rejected(m.issued) \in Seq(L!Settlement)
      /\ \A i \in DOMAIN L!Rejected(m.issued) : L!Rejected(m.issued)[i].outcome = "gone"
  BY <1>1, LedgerAssumptions, L!RejectedCount
<1>7. sent' \in Seq(L!Command)
  <2>1. sent \o m.issued \in Seq(L!Command) BY <1>1, <1>4, ConcatProperties
  <2> QED BY <1>3, <1>4, <2>1
<1> DEFINE K == L!Rejected(m.issued)
<1> HIDE DEF K
<1>8. jobs' \in Seq(L!Settlement) /\ \A i \in DOMAIN jobs' : jobs'[i].outcome # "refused"
  <2>1. rest \o K \in Seq(L!Settlement) /\ \A i \in DOMAIN (rest \o K) : (rest \o K)[i].outcome # "refused"
    <3>1. K \in Seq(L!Settlement) /\ \A i \in DOMAIN K : K[i].outcome = "gone" BY <1>6 DEF K
    <3>2. /\ rest \o K \in Seq(L!Settlement) /\ Len(rest \o K) = Len(rest) + Len(K)
          /\ \A i \in 1..(Len(rest) + Len(K)) :
               (rest \o K)[i] = IF i <= Len(rest) THEN rest[i] ELSE K[i - Len(rest)]
      BY <1>5, <3>1, ConcatProperties
    <3>3. Len(rest) \in Nat /\ Len(K) \in Nat /\ DOMAIN rest = 1..Len(rest) /\ DOMAIN K = 1..Len(K)
          /\ DOMAIN (rest \o K) = 1..(Len(rest) + Len(K))
      BY <1>5, <3>1, <3>2
    <3>4. ASSUME NEW i \in DOMAIN (rest \o K) PROVE (rest \o K)[i].outcome # "refused"
      <4>1. CASE i <= Len(rest)
        <5>1. i \in DOMAIN rest /\ (rest \o K)[i] = rest[i] BY <3>2, <3>3, <4>1
        <5> QED BY <1>5, <5>1
      <4>2. CASE ~(i <= Len(rest))
        <5>1. i - Len(rest) \in DOMAIN K /\ (rest \o K)[i] = K[i - Len(rest)] BY <3>2, <3>3, <4>2
        <5> QED BY <3>1, <5>1
      <4> QED BY <4>1, <4>2
    <3> QED BY <3>2, <3>4
  <2> QED BY <1>3, <1>5, <2>1 DEF K
<1> QED BY <1>1, <1>2, <1>3, <1>7, <1>8 DEF L!LedgerRecord

(* What tmux and the connection did is as it was, but for a chunk read.    *)
Undisturbed ==
  /\ UNCHANGED <<tmuxPaused, live, fixedVars>>
  /\ disposed' \in BOOLEAN /\ draining' \in BOOLEAN
  /\ inbox' = inbox \/ (inbox # <<>> /\ inbox' = Tail(inbox))

LEMMA CommitFlow ==
  ASSUME FlowOK, NEW m, NEW rest, Commits(m, rest), Undisturbed
  PROVE  FlowOK'
<1> DEFINE Note == [reply : BOOLEAN, ok : BOOLEAN, of : L!Command]
<1>1. /\ ledger' \in L!LedgerRecord /\ ledger'.issued = <<>> /\ ledger'.flow = m.flow
      /\ ledger'.outstanding = m.outstanding /\ ledger'.resuming = m.resuming /\ ledger'.episodes = m.episodes
      /\ sent' \in Seq(L!Command) /\ jobs' \in Seq(L!Settlement)
      /\ \A i \in DOMAIN jobs' : jobs'[i].outcome # "refused"
  BY CommitDoes
<1>2. ledger'.flow <= ledger'.episodes /\ HeldBack(ledger')
  BY <1>1 DEF Commits, HeldBack, L!totalOutstanding
<1>3. inbox' \in Seq(Note) /\ \A i \in DOMAIN inbox' : inbox'[i].ok
  <2>1. inbox \in Seq(Note) /\ \A i \in DOMAIN inbox : inbox[i].ok BY DEF FlowOK, L!TypeOK
  <2> HIDE DEF Note
  <2>2. CASE inbox' = inbox BY <2>1, <2>2
  <2>3. CASE inbox # <<>> /\ inbox' = Tail(inbox)
    <3>1. Tail(inbox) \in Seq(Note) /\ \A i \in DOMAIN Tail(inbox) : i + 1 \in DOMAIN inbox /\ Tail(inbox)[i] = inbox[i + 1]
      BY <2>1, <2>3, RestOfQueue
    <3> QED BY <2>1, <2>3, <3>1
  <2> QED BY <2>2, <2>3 DEF Undisturbed
<1>4. ledger' \in [registered : SUBSET Peers, outstanding : [Peers -> Nat],
                   flow : Nat, resuming : BOOLEAN, episodes : Nat, issued : {<<>>}]
  BY <1>1 DEF L!LedgerRecord
<1>5. L!TypeOK'
  BY <1>1, <1>3, <1>4 DEF FlowOK, L!TypeOK, Undisturbed, fixedVars, L!Settlement
<1> QED BY <1>1, <1>2, <1>3, <1>5 DEF FlowOK, Undisturbed, fixedVars

-----------------------------------------------------------------------------
(* The rest of the invariant, in parts that each speak of a few variables  *)

Request == [what : {"register", "unregister", "ack", "invoke"}, n : Nat]
Notice == [what : {"state", "output", "reply"}, n : Nat]

PagesOK ==
  /\ wc \in [Renderers -> {"alive", "destroyed", "gone"}]
  /\ proxy \in [Renderers -> [open : BOOLEAN, state : {"none", "connecting", "ready", "closed"},
                              pending : 0..(Batch - 1)]]
  /\ toMain \in [Renderers -> Seq(Request)] /\ toPage \in [Renderers -> Seq(Notice)]
  /\ events \in 0..MaxEvents /\ refused \in 0..MaxRefusals /\ told \in BOOLEAN

(* A token is billed only for a subscriber.                                *)
Billed == \A p \in Peers \ PeersOf(Subscribed) : ledger.outstanding[p] = 0

CallsOK ==
  /\ calls \in Seq(Call) /\ Len(calls) <= events
  /\ \A i \in DOMAIN calls :
       /\ calls[i].peer <= made /\ (calls[i].peer = 0 => ~calls[i].aborted)
       /\ Running(calls[i]) => (calls[i].aborted <=> calls[i].peer \notin PeersOf(Known))

(* An invoke on its way has not been run, and is the only message of its   *)
(* call; a reply on its way is that of a call that has come out.           *)
Invokes(s, r, c) ==
  \A i \in DOMAIN s : s[i].what = "invoke" =>
    /\ s[i].n \in DOMAIN c /\ c[s[i].n].page = r /\ c[s[i].n].peer = 0
    /\ \A j \in DOMAIN s : j # i /\ s[j].what = "invoke" => s[j].n # s[i].n
Replies(s, c) ==
  \A i \in DOMAIN s : s[i].what = "reply" => s[i].n \in DOMAIN c /\ c[s[i].n].outcome # "none"
MailOK == \A r \in Renderers : Invokes(toMain[r], r, calls) /\ Replies(toPage[r], calls)

(* What a peer that is no sender's has left, the release of its coverage   *)
(* at the end of its queue will undo.                                      *)
Queued(c) ==
  /\ c.awaits # "nothing" => c.steps # <<>>
  /\ c.awaits = "disable" => ~c.held
Forgotten(c) ==
  /\ c.count = 0
  /\ c.steps = <<>> => ~c.held
  /\ c.awaits = "enable" => Len(c.steps) >= 2
  /\ c.steps # <<>> => c.steps[Len(c.steps)].op # "wait"
Cover == [count : Nat, held : BOOLEAN, awaits : {"nothing", "enable", "disable"}, steps : Seq(Step)]
Refers(c, n) == \A i \in DOMAIN c.steps : c.steps[i].call \in 0..n
CoverageOK ==
  /\ coverage \in [Peers -> Cover]
  /\ \A p \in Peers : Queued(coverage[p]) /\ Refers(coverage[p], Len(calls))
  /\ \A p \in Peers \ PeersOf(Known) : Forgotten(coverage[p])

IInv == PagesOK /\ FlowOK /\ Registry /\ Billed /\ CallsOK /\ MailOK /\ CoverageOK

LEMMA Forgets ==
  ASSUME IInv
  PROVE  GoneIsForgotten
<1>1. TypeOK
  BY SameTypes DEF IInv, PagesOK, FlowOK, Registry, CallsOK, CoverageOK, Cover, TypeOK
<1>2. PeersOf(Subscribed) \subseteq PeersOf(Known) BY DEF IInv, Registry, PeersOf
<1>3. ledger.registered = PeersOf(Known) BY DEF IInv, Registry
<1>4. ASSUME NEW p \in Peers \ ledger.registered
      PROVE  /\ ledger.outstanding[p] = 0
             /\ coverage[p].count = 0 /\ (coverage[p].steps = <<>> => ~coverage[p].held)
  BY <1>2, <1>3, <1>4 DEF IInv, Billed, CoverageOK, Forgotten
<1>5. \A i \in DOMAIN calls : Running(calls[i]) => (calls[i].aborted <=> calls[i].peer \notin ledger.registered)
  BY <1>3 DEF IInv, CallsOK
<1>6. \A r \in Renderers : wc[r] = "gone" => ~Knows(r) BY DEF IInv, Registry
<1> QED BY <1>1, <1>3, <1>4, <1>5, <1>6 DEF GoneIsForgotten

-----------------------------------------------------------------------------
(* Messages *)

LEMMA LongerBox ==
  ASSUME NEW T, NEW s \in Seq(T), NEW m \in T
  PROVE  /\ Append(s, m) \in Seq(T) /\ DOMAIN Append(s, m) = (DOMAIN s) \cup {Len(s) + 1}
         /\ Append(s, m)[Len(s) + 1] = m /\ Len(s) + 1 \notin DOMAIN s
         /\ \A i \in DOMAIN s : Append(s, m)[i] = s[i] /\ i # Len(s) + 1
<1>1. Len(s) \in Nat /\ DOMAIN s = 1..Len(s) OBVIOUS
<1>2. Append(s, m) \in Seq(T) /\ DOMAIN Append(s, m) = 1..(Len(s) + 1)
      /\ Append(s, m)[Len(s) + 1] = m /\ \A i \in 1..Len(s) : Append(s, m)[i] = s[i]
  OBVIOUS
<1> QED BY <1>1, <1>2

LEMMA PostType ==
  ASSUME PagesOK, NEW r \in Renderers, NEW m \in Request
  PROVE  LET b == Post(toMain, r, m) IN
         /\ b \in [Renderers -> Seq(Request)] /\ b[r] = Append(toMain[r], m)
         /\ \A q \in Renderers : q # r => b[q] = toMain[q]
<1>1. toMain \in [Renderers -> Seq(Request)] BY DEF PagesOK
<1>2. Append(toMain[r], m) \in Seq(Request) BY <1>1
<1> QED BY <1>1, <1>2 DEF Post

LEMMA GiveType ==
  ASSUME NEW T, NEW box \in [Renderers -> Seq(T)], NEW R, NEW m \in T
  PROVE  /\ Give(box, R, m) \in [Renderers -> Seq(T)]
         /\ \A q \in Renderers : Give(box, R, m)[q] = IF q \in R /\ Alive(q) THEN Append(box[q], m) ELSE box[q]
<1>1. \A q \in Renderers : Append(box[q], m) \in Seq(T) OBVIOUS
<1> QED BY <1>1 DEF Give

LEMMA TailType ==
  ASSUME NEW T, NEW box \in [Renderers -> Seq(T)], NEW r \in Renderers, box[r] # <<>>
  PROVE  LET b == [box EXCEPT ![r] = Tail(@)] IN
         /\ b \in [Renderers -> Seq(T)] /\ b[r] = Tail(box[r])
         /\ \A q \in Renderers : q # r => b[q] = box[q]
<1>1. Tail(box[r]) \in Seq(T) BY RestOfQueue
<1> QED BY <1>1

(* What may become of the calls: none is forgotten, run again, or given    *)
(* another page, and an outcome stays one.                                 *)
Progress(c, d) ==
  /\ DOMAIN c \subseteq DOMAIN d
  /\ \A i \in DOMAIN c : /\ d[i].page = c[i].page
                         /\ c[i].outcome # "none" => d[i].outcome # "none"
Unrun(c, d) == \A i \in DOMAIN c : d[i].peer = c[i].peer

LEMMA InvokesKeep ==
  ASSUME NEW s, NEW r, NEW c, NEW d, Invokes(s, r, c), Progress(c, d), Unrun(c, d)
  PROVE  Invokes(s, r, d)
BY DEF Invokes, Progress, Unrun

LEMMA InvokesTail ==
  ASSUME NEW s \in Seq(Request), s # <<>>, NEW r, NEW c, Invokes(s, r, c)
  PROVE  Invokes(Tail(s), r, c)
<1>1. \A i \in DOMAIN Tail(s) : i + 1 \in DOMAIN s /\ Tail(s)[i] = s[i + 1] BY RestOfQueue
<1>2. \A i, j \in DOMAIN Tail(s) : i # j => i + 1 # j + 1
  <2>1. DOMAIN Tail(s) \subseteq Int
    <3>1. Tail(s) \in Seq(Request) BY RestOfQueue
    <3> QED BY <3>1
  <2> QED BY <2>1
<1> QED BY <1>1, <1>2 DEF Invokes

LEMMA InvokesPost ==
  ASSUME NEW s \in Seq(Request), NEW m \in Request, m.what # "invoke", NEW r, NEW c, Invokes(s, r, c)
  PROVE  Invokes(Append(s, m), r, c)
BY LongerBox DEF Invokes

LEMMA RepliesKeep ==
  ASSUME NEW s, NEW c, NEW d, Replies(s, c), Progress(c, d)
  PROVE  Replies(s, d)
BY DEF Replies, Progress

LEMMA RepliesTail ==
  ASSUME NEW s \in Seq(Notice), s # <<>>, NEW c, Replies(s, c)
  PROVE  Replies(Tail(s), c)
BY RestOfQueue DEF Replies

LEMMA RepliesPost ==
  ASSUME NEW s \in Seq(Notice), NEW m \in Notice, NEW c, Replies(s, c),
         m.what = "reply" => m.n \in DOMAIN c /\ c[m.n].outcome # "none"
  PROVE  Replies(Append(s, m), c)
BY LongerBox DEF Replies

LEMMA RepliesGive ==
  ASSUME NEW box \in [Renderers -> Seq(Notice)], NEW R, NEW m \in Notice, NEW c,
         \A r \in Renderers : Replies(box[r], c),
         m.what = "reply" => m.n \in DOMAIN c /\ c[m.n].outcome # "none"
  PROVE  \A r \in Renderers : Replies(Give(box, R, m)[r], c)
<1>1. \A r \in Renderers : Replies(Append(box[r], m), c) BY RepliesPost
<1> QED BY <1>1, GiveType

-----------------------------------------------------------------------------
(* Coming and going *)

LEMMA Departs ==
  ASSUME Registry, Billed, NEW R \in SUBSET Known, teardown(R),
         ledger' \in L!LedgerRecord, ledger'.registered = ledger.registered \ PeersOf(R),
         \A p \in Peers : ledger'.outstanding[p] = IF p \in PeersOf(R) THEN 0 ELSE ledger.outstanding[p],
         disposed' => disposed \/ R = Known,
         \A r \in Renderers : wc'[r] = "gone" => wc[r] = "gone" \/ r \notin Known \ R
  PROVE  /\ Registry' /\ Billed' /\ made' = made
         /\ Known' = Known \ R /\ Subscribed' = Subscribed \ R
         /\ PeersOf(Known)' = PeersOf(Known) \ PeersOf(R)
         /\ \A r \in Renderers \ R : senders'[r] = senders[r]
<1> DEFINE none == [peer |-> 0, subscribed |-> FALSE]
           Entry == [peer : Peers \cup {0}, subscribed : BOOLEAN]
<1>1. /\ senders \in [Renderers -> Entry] /\ made' = made
      /\ senders' = [r \in Renderers |-> IF r \in R THEN none ELSE senders[r]]
  BY Zenon DEF Registry, teardown
<1>2. none \in Entry /\ none.peer = 0 /\ none.subscribed = FALSE OBVIOUS
<1> HIDE DEF none, Entry
<1>3. senders' \in [Renderers -> Entry] BY <1>1, <1>2
<1>4. \A r \in Renderers : senders'[r] = IF r \in R THEN none ELSE senders[r] BY <1>1
<1>5. Known' = Known \ R BY <1>2, <1>4 DEF Known, Knows
<1>6. Subscribed' = Subscribed \ R BY <1>2, <1>4 DEF Subscribed
<1>7. \A X \in SUBSET (Known \ R) : \A r \in X : senders'[r].peer = senders[r].peer /\ r \in Renderers
  BY <1>4 DEF Known
<1>8. PeersOf(Known)' = PeersOf(Known) \ PeersOf(R)
  <2>1. PeersOf(Known)' = {senders[r].peer : r \in Known \ R} BY <1>5, <1>7 DEF PeersOf
  <2>2. \A r \in Known \ R : \A q \in R : senders[r].peer # senders[q].peer BY DEF Registry
  <2> QED BY <2>1, <2>2 DEF PeersOf
<1>9. PeersOf(Subscribed)' = {senders[r].peer : r \in Subscribed \ R}
  <2>1. Subscribed \ R \subseteq Known \ R BY DEF Registry
  <2> QED BY <1>6, <1>7, <2>1 DEF PeersOf
<1>10. Billed'
  <2>1. ASSUME NEW p \in Peers, p \notin PeersOf(Subscribed)' PROVE ledger'.outstanding[p] = 0
    <3>1. CASE p \in PeersOf(R) BY <3>1
    <3>2. CASE p \notin PeersOf(R)
      <4>1. p \notin PeersOf(Subscribed) BY <1>9, <2>1, <3>2 DEF PeersOf
      <4> QED BY <3>2, <4>1 DEF Billed
    <3> QED BY <3>1, <3>2
  <2> QED BY <2>1 DEF Billed
<1>11. Registry'
  <2>1. \A r, q \in Known' : senders'[r].peer = senders'[q].peer => r = q
    BY <1>5, <1>7 DEF Registry
  <2>2. \A r \in Known' : senders'[r].peer \in 1..made' BY <1>1, <1>5, <1>7 DEF Registry
  <2>3. Subscribed' \subseteq Known' BY <1>5, <1>6 DEF Registry
  <2>4. ledger'.registered = PeersOf(Known)' BY <1>8 DEF Registry
  <2>5. \A r \in Renderers : wc'[r] = "gone" => ~Knows(r)'
    BY <1>2, <1>4 DEF Registry, Known, Knows
  <2>6. disposed' => Known' = {} BY <1>5 DEF Registry
  <2> QED BY <1>1, <1>3, <2>1, <2>2, <2>3, <2>4, <2>5, <2>6 DEF Registry, Entry
<1> QED BY <1>1, <1>4, <1>5, <1>6, <1>8, <1>10, <1>11

Enrolled(r, subscribes) ==
  /\ made' = IF Knows(r) THEN made ELSE made + 1
  /\ senders' = IF subscribes THEN [senders EXCEPT ![r] = [peer |-> Token(r), subscribed |-> TRUE]]
                ELSE [senders EXCEPT ![r].peer = Token(r)]

LEMMA Enrols ==
  ASSUME Registry, Billed, NEW r \in Renderers, Token(r) \in Peers, Reachable(r),
         NEW subscribes \in BOOLEAN, Enrolled(r, subscribes),
         ledger' \in L!LedgerRecord, ledger'.registered = ledger.registered \cup {Token(r)},
         ledger'.outstanding = ledger.outstanding, ~disposed', wc' = wc
  PROVE  /\ Registry' /\ Billed'
         /\ Known' = Known \cup {r} /\ Subscribed' = IF subscribes THEN Subscribed \cup {r} ELSE Subscribed
         /\ PeersOf(Known)' = PeersOf(Known) \cup {Token(r)} /\ made' >= made /\ Token(r) <= made'
         /\ ~Knows(r) => Token(r) = made + 1
         /\ senders'[r].peer = Token(r)
         /\ \A q \in Renderers : q # r => senders'[q] = senders[q]
<1> DEFINE Entry == [peer : Peers \cup {0}, subscribed : BOOLEAN]
           p == Token(r)
           e == [peer |-> p, subscribed |-> (IF subscribes THEN TRUE ELSE senders[r].subscribed)]
<1>1. senders \in [Renderers -> Entry] /\ made \in Nat /\ made \in Peers \cup {0}
  BY Tokens DEF Registry
<1>2. e \in Entry /\ e.peer = p /\ e.subscribed = (IF subscribes THEN TRUE ELSE senders[r].subscribed)
  BY <1>1
<1>3. senders' = [senders EXCEPT ![r] = e]
  <2>1. CASE subscribes BY <2>1 DEF Enrolled
  <2>2. CASE ~subscribes
    <3>1. senders[r] \in Entry BY <1>1
    <3>2. [senders[r] EXCEPT !.peer = p] = e BY <2>2, <3>1
    <3>3. senders' = [senders EXCEPT ![r] = [senders[r] EXCEPT !.peer = p]] BY <2>2 DEF Enrolled
    <3> QED BY <3>2, <3>3
  <2> QED BY <2>1, <2>2
<1>4. /\ p \in Peers /\ p # 0 /\ p \in Nat /\ (~Knows(r) => p = made + 1) /\ (Knows(r) => p = senders[r].peer /\ p \in 1..made)
      /\ made' \in Nat /\ made' \in Peers \cup {0} /\ made' >= made /\ p <= made' /\ (1..made) \cup {p} \subseteq 1..made'
  <2>1. \A x \in Peers : x \in Nat /\ x # 0 BY PeersCount
  <2>2. CASE Knows(r)
    <3>1. p = senders[r].peer /\ made' = made /\ r \in Known BY <2>2 DEF Token, Enrolled, Known
    <3> HIDE DEF p
    <3> QED BY <1>1, <2>1, <2>2, <3>1, Tokens
  <2>3. CASE ~Knows(r)
    <3>1. p = made + 1 /\ made' = made + 1 BY <2>3 DEF Token, Enrolled
    <3>2. p \in Peers OBVIOUS
    <3> HIDE DEF p
    <3> QED BY <1>1, <2>1, <2>3, <3>1, <3>2
  <2> QED BY <2>2, <2>3
<1> HIDE DEF e, p, Entry
<1>5. senders' \in [Renderers -> Entry] /\ senders'[r] = e /\ \A q \in Renderers : q # r => senders'[q] = senders[q]
  BY <1>1, <1>2, <1>3
<1>6. Known' = Known \cup {r} BY <1>2, <1>4, <1>5 DEF Known, Knows
<1>7. Subscribed' = IF subscribes THEN Subscribed \cup {r} ELSE Subscribed
  BY <1>2, <1>5 DEF Subscribed
<1>8. \A q \in Known : q # r => senders[q].peer # p /\ senders[q].peer \in 1..made
  <2>1. \A q \in Known : senders[q].peer \in 1..made BY DEF Registry
  <2>2. CASE Knows(r)
    <3>1. r \in Known BY <2>2 DEF Known
    <3> QED BY <1>4, <2>1, <2>2, <3>1 DEF Registry
  <2>3. CASE ~Knows(r) BY <1>1, <1>4, <2>1, <2>3
  <2> QED BY <2>2, <2>3
<1>9. PeersOf(Known)' = PeersOf(Known) \cup {p}
  <2>1. Known \subseteq Renderers BY DEF Known
  <2>2. \A q \in Known : q # r => senders'[q].peer = senders[q].peer BY <1>5, <2>1
  <2>3. r \in Known => senders[r].peer = p BY <1>4 DEF Known
  <2> QED BY <1>2, <1>5, <1>6, <2>2, <2>3 DEF PeersOf
<1>10. PeersOf(Subscribed) \subseteq PeersOf(Subscribed)'
  <2>1. \A q \in Subscribed : q \in Renderers /\ q \in Known BY DEF Registry, Known
  <2>2. \A q \in Subscribed : senders'[q].peer = senders[q].peer
    <3>1. \A q \in Subscribed : q = r => senders[q].peer = p BY <1>4, <2>1 DEF Known
    <3> QED BY <1>2, <1>5, <2>1, <3>1
  <2> QED BY <1>7, <2>2 DEF PeersOf
<1>11. Billed' BY <1>10 DEF Billed
<1>12. Registry'
  <2>1. \A x, y \in Known' : senders'[x].peer = senders'[y].peer => x = y
    <3>1. Known \subseteq Renderers BY DEF Known
    <3> QED BY <1>2, <1>5, <1>6, <1>8, <3>1 DEF Registry
  <2>2. \A x \in Known' : senders'[x].peer \in 1..made'
    <3>1. Known \subseteq Renderers BY DEF Known
    <3> QED BY <1>2, <1>4, <1>5, <1>6, <1>8, <3>1
  <2>3. Subscribed' \subseteq Known' BY <1>6, <1>7 DEF Registry
  <2>4. ledger'.registered = PeersOf(Known)' BY <1>9 DEF Registry, p
  <2>5. \A x \in Renderers : wc'[x] = "gone" => ~Knows(x)'
    <3>1. wc[r] # "gone" BY DEF Reachable, Registry, Alive
    <3> QED BY <1>5, <3>1 DEF Registry, Knows
  <2> QED BY <1>4, <1>5, <2>1, <2>2, <2>3, <2>4, <2>5 DEF Registry, Entry
<1> QED BY <1>2, <1>4, <1>5, <1>6, <1>7, <1>9, <1>11, <1>12 DEF p

-----------------------------------------------------------------------------
(* The calls and the coverage of those that come and go *)

LEMMA SameLength ==
  ASSUME NEW T, NEW s \in Seq(T), NEW f \in [DOMAIN s -> T]
  PROVE  f \in Seq(T) /\ Len(f) = Len(s) /\ DOMAIN f = DOMAIN s
<1>1. Len(s) \in Nat /\ DOMAIN s = 1..Len(s) OBVIOUS
<1>2. f \in [1..Len(s) -> T] BY <1>1
<1>3. f \in Seq(T) BY <1>1, <1>2, IsASeq
<1>4. Len(f) = Len(s)
  <2>1. Len(f) \in Nat /\ DOMAIN f = 1..Len(f) BY <1>3
  <2>2. DOMAIN f = 1..Len(s) BY <1>2
  <2> DEFINE n == Len(f)  k == Len(s)
  <2>3. n \in Nat /\ k \in Nat /\ 1..n = 1..k BY <1>1, <2>1, <2>2
  <2> HIDE DEF n, k
  <2>4. \A x \in Int : x \in 1..n <=> x \in 1..k BY <2>3
  <2>5. n \in Int /\ k \in Int /\ n + 1 \in Int /\ k + 1 \in Int BY <2>3
  <2>6. n = k BY <2>3, <2>4, <2>5
  <2> QED BY <2>6 DEF n, k
<1> QED BY <1>1, <1>2, <1>3, <1>4

LEMMA TornCalls ==
  ASSUME Registry, CallsOK, NEW R \in SUBSET Known, teardown(R),
         PeersOf(Known)' = PeersOf(Known) \ PeersOf(R), events' \in Nat, events' >= events, events \in Nat
  PROVE  CallsOK' /\ Progress(calls, calls') /\ Unrun(calls, calls') /\ Len(calls') = Len(calls)
<1> DEFINE torn(i) == Running(calls[i]) /\ calls[i].peer \in PeersOf(R)
           to(i) == IF torn(i) THEN [calls[i] EXCEPT !.aborted = TRUE] ELSE calls[i]
<1>1. calls' = [i \in DOMAIN calls |-> to(i)] /\ made' = made BY Zenon DEF teardown
<1>2. calls \in Seq(Call) /\ \A i \in DOMAIN calls : calls[i] \in Call
  <2>1. calls \in Seq(Call) BY DEF CallsOK
  <2> QED BY <2>1, ElementOfSeq
<1>3. \A i \in DOMAIN calls :
        /\ to(i) \in Call /\ to(i).page = calls[i].page /\ to(i).peer = calls[i].peer
        /\ to(i).outcome = calls[i].outcome /\ to(i).aborted = (torn(i) \/ calls[i].aborted)
  <2>1. ASSUME NEW i \in DOMAIN calls
        PROVE  /\ to(i) \in Call /\ to(i).page = calls[i].page /\ to(i).peer = calls[i].peer
               /\ to(i).outcome = calls[i].outcome /\ to(i).aborted = (torn(i) \/ calls[i].aborted)
    <3>1. calls[i] \in Call BY <1>2
    <3>2. CASE torn(i)
      <4> DEFINE c == [calls[i] EXCEPT !.aborted = TRUE]
      <4>1. c \in Call /\ c.page = calls[i].page /\ c.peer = calls[i].peer
            /\ c.outcome = calls[i].outcome /\ c.aborted = TRUE
        BY <3>1 DEF Call
      <4> QED BY <3>2, <4>1
    <3>3. CASE ~torn(i)
      <4>1. calls[i].aborted \in BOOLEAN BY <3>1 DEF Call
      <4> QED BY <3>1, <3>3, <4>1
    <3> QED BY <3>2, <3>3
  <2> QED BY <2>1
<1> HIDE DEF to
<1>4. calls' \in Seq(Call) /\ Len(calls') = Len(calls) /\ DOMAIN calls' = DOMAIN calls
  <2>1. calls' \in [DOMAIN calls -> Call] BY <1>1, <1>3
  <2> QED BY <1>2, <2>1, SameLength
<1>5. \A i \in DOMAIN calls : calls'[i] = to(i) BY <1>1
<1>6. Len(calls') <= events'
  <2>1. Len(calls) \in Nat BY <1>2
  <2> QED BY <1>4, <2>1 DEF CallsOK
<1>7. ASSUME NEW i \in DOMAIN calls
      PROVE  /\ calls'[i].peer <= made' /\ (calls'[i].peer = 0 => ~calls'[i].aborted)
             /\ Running(calls'[i]) => (calls'[i].aborted <=> calls'[i].peer \notin PeersOf(Known)')
  <2>1. Running(calls'[i]) <=> Running(calls[i]) BY <1>3, <1>5 DEF Running
  <2>2. torn(i) => calls[i].peer # 0 BY DEF Running
  <2> HIDE DEF torn
  <2>3. calls'[i].aborted = (torn(i) \/ calls[i].aborted) /\ calls'[i].peer = calls[i].peer BY <1>3, <1>5
  <2>4. PeersOf(R) \subseteq PeersOf(Known) BY DEF PeersOf
  <2> QED BY <1>1, <2>1, <2>2, <2>3, <2>4 DEF CallsOK, torn
<1>8. Progress(calls, calls') /\ Unrun(calls, calls') BY <1>3, <1>4, <1>5 DEF Progress, Unrun
<1> QED BY <1>4, <1>6, <1>7, <1>8 DEF CallsOK

LEMMA TornCoverage ==
  ASSUME Registry, CoverageOK, NEW R \in SUBSET Known, teardown(R), Len(calls') = Len(calls),
         Len(calls) \in Nat, PeersOf(Known)' = PeersOf(Known) \ PeersOf(R)
  PROVE  CoverageOK'
<1> DEFINE release == [op |-> "release", call |-> 0]
           to(p) == IF p \in PeersOf(R) THEN [coverage[p] EXCEPT !.count = 0, !.steps = Append(@, release)]
                    ELSE coverage[p]
<1>1. coverage' = [p \in Peers |-> to(p)] BY Zenon DEF teardown
<1>2. release \in Step /\ release.call \in 0..Len(calls) /\ release.op # "wait"
  <2>1. 0 \in 0..MaxEvents BY BridgeAssumption
  <2> QED BY <2>1 DEF Step
<1> HIDE DEF release
<1>3. ASSUME NEW p \in Peers, p \in PeersOf(R)
      PROVE  to(p) \in Cover /\ Queued(to(p)) /\ Refers(to(p), Len(calls)) /\ Forgotten(to(p))
  <2> DEFINE c == coverage[p]  d == [c EXCEPT !.count = 0, !.steps = Append(@, release)]
  <2>1. c \in Cover /\ Queued(c) /\ Refers(c, Len(calls)) BY DEF CoverageOK
  <2>2. to(p) = d BY <1>3
  <2> HIDE DEF c, to
  <2>3. c.steps \in Seq(Step) BY <2>1 DEF Cover
  <2>4. /\ Append(c.steps, release) \in Seq(Step)
        /\ DOMAIN Append(c.steps, release) = (DOMAIN c.steps) \cup {Len(c.steps) + 1}
        /\ Append(c.steps, release)[Len(c.steps) + 1] = release
        /\ \A i \in DOMAIN c.steps : Append(c.steps, release)[i] = c.steps[i]
    BY <1>2, <2>3, LongerBox
  <2>5. /\ d \in Cover /\ d.count = 0 /\ d.held = c.held /\ d.awaits = c.awaits
        /\ d.steps = Append(c.steps, release)
    BY <2>1, <2>4 DEF Cover
  <2> HIDE DEF d
  <2>6. Len(d.steps) = Len(c.steps) + 1 /\ Len(c.steps) \in Nat /\ d.steps # <<>>
        /\ (c.steps # <<>> => Len(d.steps) >= 2)
    <3>1. Len(Append(c.steps, release)) = Len(c.steps) + 1 /\ Len(c.steps) \in Nat BY <2>3
    <3>2. c.steps # <<>> => Len(c.steps) # 0 BY <2>3, EmptySeq
    <3>3. d.steps # <<>>
      <4>1. Len(c.steps) + 1 # 0 BY <3>1
      <4> QED BY <2>4, <2>5, <3>1, <4>1, EmptySeq
    <3> QED BY <2>5, <3>1, <3>2, <3>3
  <2>7. Queued(d) BY <2>1, <2>5, <2>6 DEF Queued
  <2>8. Refers(d, Len(calls)) BY <1>2, <2>1, <2>4, <2>5 DEF Refers
  <2>9. Forgotten(d) BY <1>2, <2>1, <2>4, <2>5, <2>6 DEF Forgotten, Queued
  <2> QED BY <2>2, <2>5, <2>7, <2>8, <2>9
<1>4. ASSUME NEW p \in Peers, p \notin PeersOf(R)
      PROVE  to(p) = coverage[p] /\ coverage[p] \in Cover /\ Queued(coverage[p]) /\ Refers(coverage[p], Len(calls))
  BY <1>4 DEF CoverageOK
<1> HIDE DEF to
<1>5. \A p \in Peers : coverage'[p] = to(p) BY <1>1
<1>6. coverage' \in [Peers -> Cover] BY <1>1, <1>3, <1>4
<1>7. \A p \in Peers : Queued(coverage'[p]) /\ Refers(coverage'[p], Len(calls)) BY <1>3, <1>4, <1>5
<1>8. \A p \in Peers \ (PeersOf(Known) \ PeersOf(R)) : Forgotten(coverage'[p])
  BY <1>3, <1>4, <1>5 DEF CoverageOK
<1> QED BY <1>6, <1>7, <1>8 DEF CoverageOK

(* Senders leave, and the bridge may be disposed with the last of them.    *)
LEMMA CommitWithout ==
  ASSUME Registry, FlowOK, NEW R \in SUBSET Known, NEW m, NEW rest \in {<<>>, jobs},
         m = LedgerWithout(R) \/ m = Flow!flushPausedPanes(LedgerWithout(R)), Flow!Commit(m, rest)
  PROVE  /\ Commits(m, rest)
         /\ m.registered = ledger.registered \ PeersOf(R)
         /\ \A p \in Peers : m.outstanding[p] = IF p \in PeersOf(R) THEN 0 ELSE ledger.outstanding[p]
<1> DEFINE w == LedgerWithout(R)
<1>1. /\ w \in L!LedgerRecord /\ w.flow = ledger.flow /\ w.episodes = ledger.episodes
      /\ w.registered = ledger.registered \ PeersOf(R)
      /\ \A p \in Peers : w.outstanding[p] = IF p \in PeersOf(R) THEN 0 ELSE ledger.outstanding[p]
      /\ HeldBack(w)
  BY WithoutAll, LedgerNow DEF FlowOK
<1> HIDE DEF w
<1>2. CASE m = w BY <1>1, <1>2 DEF Commits, FlowOK
<1>3. CASE m = Flow!flushPausedPanes(w)
  <2>1. /\ m \in L!LedgerRecord /\ m.flow = 0 /\ ~m.resuming /\ m.episodes = w.episodes
        /\ m.outstanding = w.outstanding /\ m.registered = w.registered
    BY <1>1, <1>3, FlushDoes
  <2>2. m.episodes \in Nat BY <2>1, RecordTypes
  <2>3. m.flow <= m.episodes /\ HeldBack(m) BY <2>1, <2>2 DEF HeldBack
  <2> QED BY <1>1, <2>1, <2>3 DEF Commits
<1> QED BY <1>2, <1>3 DEF w

Unlost == Progress(calls, calls') /\ Unrun(calls, calls')

LEMMA Torn ==
  ASSUME IInv, NEW R \in SUBSET Known, teardown(R), NEW m, NEW rest \in {<<>>, jobs},
         m = LedgerWithout(R) \/ m = Flow!flushPausedPanes(LedgerWithout(R)), Flow!Commit(m, rest),
         Undisturbed, disposed' => disposed \/ R = Known,
         \A r \in Renderers : wc'[r] = "gone" => wc[r] = "gone" \/ r \notin Known \ R,
         events' \in Nat, events' >= events
  PROVE  FlowOK' /\ Registry' /\ Billed' /\ CallsOK' /\ CoverageOK' /\ Unlost
<1>1. Registry /\ FlowOK /\ Billed /\ CallsOK /\ CoverageOK /\ events \in Nat BY DEF IInv, PagesOK
<1>2. /\ Commits(m, rest) /\ m.registered = ledger.registered \ PeersOf(R)
      /\ \A p \in Peers : m.outstanding[p] = IF p \in PeersOf(R) THEN 0 ELSE ledger.outstanding[p]
  BY <1>1, CommitWithout
<1>3. FlowOK' BY <1>1, <1>2, CommitFlow
<1>4. ledger' \in L!LedgerRecord /\ ledger'.registered = m.registered /\ ledger'.outstanding = m.outstanding
  BY <1>1, <1>2, CommitDoes
<1>5. Registry' /\ Billed' /\ PeersOf(Known)' = PeersOf(Known) \ PeersOf(R) BY <1>1, <1>2, <1>4, Departs
<1>6. CallsOK' /\ Unlost /\ Len(calls') = Len(calls) BY <1>1, <1>5, TornCalls DEF Unlost
<1>7. Len(calls) \in Nat BY <1>1 DEF CallsOK
<1>8. CoverageOK' BY <1>1, <1>5, <1>6, <1>7, TornCoverage
<1> QED BY <1>3, <1>5, <1>6, <1>8

LEMMA MailKeeps ==
  ASSUME PagesOK, MailOK, Unlost,
         \/ toMain' = toMain
         \/ \E r \in Renderers : toMain[r] # <<>> /\ toMain' = [toMain EXCEPT ![r] = Tail(@)],
         \/ toPage' = toPage
         \/ \E R \in SUBSET Renderers, m \in Notice : m.what # "reply" /\ toPage' = Give(toPage, R, m)
  PROVE  /\ MailOK'
         /\ toMain' \in [Renderers -> Seq(Request)] /\ toPage' \in [Renderers -> Seq(Notice)]
<1>1. toMain \in [Renderers -> Seq(Request)] /\ toPage \in [Renderers -> Seq(Notice)] BY DEF PagesOK
<1>2. \A r \in Renderers : Invokes(toMain[r], r, calls') /\ Replies(toPage[r], calls')
  BY InvokesKeep, RepliesKeep DEF MailOK, Unlost
<1>3. toMain' \in [Renderers -> Seq(Request)] /\ \A r \in Renderers : Invokes(toMain'[r], r, calls')
  <2>1. CASE toMain' = toMain BY <1>1, <1>2, <2>1
  <2>2. ASSUME NEW r \in Renderers, toMain[r] # <<>>, toMain' = [toMain EXCEPT ![r] = Tail(@)]
        PROVE  toMain' \in [Renderers -> Seq(Request)] /\ \A q \in Renderers : Invokes(toMain'[q], q, calls')
    <3>1. /\ toMain' \in [Renderers -> Seq(Request)] /\ toMain'[r] = Tail(toMain[r])
          /\ \A q \in Renderers : q # r => toMain'[q] = toMain[q]
      BY <1>1, <2>2, TailType
    <3>2. Invokes(Tail(toMain[r]), r, calls') BY <1>1, <1>2, <2>2, InvokesTail
    <3> QED BY <1>2, <3>1, <3>2
  <2> QED BY <2>1, <2>2
<1>4. toPage' \in [Renderers -> Seq(Notice)] /\ \A r \in Renderers : Replies(toPage'[r], calls')
  <2>1. CASE toPage' = toPage BY <1>1, <1>2, <2>1
  <2>2. ASSUME NEW R \in SUBSET Renderers, NEW m \in Notice, m.what # "reply", toPage' = Give(toPage, R, m)
        PROVE  toPage' \in [Renderers -> Seq(Notice)] /\ \A r \in Renderers : Replies(toPage'[r], calls')
    BY <1>1, <1>2, <2>2, GiveType, RepliesGive
  <2> QED BY <2>1, <2>2
<1> QED BY <1>3, <1>4 DEF MailOK

LEMMA CallsStay ==
  ASSUME NEW c, c = calls PROVE Progress(calls, c) /\ Unrun(calls, c)
BY DEF Progress, Unrun

-----------------------------------------------------------------------------
(* One step: senders leave *)

LEMMA Plain ==
  ASSUME IInv
  PROVE  /\ events \in Nat /\ events \in 0..MaxEvents /\ MaxEvents \in Nat
         /\ disposed \in BOOLEAN /\ draining \in BOOLEAN /\ live \in BOOLEAN
<1>1. MaxEvents \in Nat BY BridgeAssumption
<1>2. events \in 0..MaxEvents BY DEF IInv, PagesOK
<1>3. disposed \in BOOLEAN /\ draining \in BOOLEAN /\ live \in BOOLEAN BY DEF IInv, FlowOK, L!TypeOK
<1> QED BY <1>1, <1>2, <1>3

LEMMA unregisterKeeps ==
  ASSUME IInv, NEW r \in Renderers, unregister(r)
  PROVE  IInv'
<1> DEFINE R == {r} \cap Known
<1>1. /\ R \in SUBSET Known /\ teardown(R) /\ Flow!Commit(LedgerWithout(R), <<>>)
      /\ toMain[r] # <<>> /\ toMain' = [toMain EXCEPT ![r] = Tail(@)] /\ draining' = FALSE
      /\ UNCHANGED <<toPage, mainRest>> /\ refused' = refused
  BY Zenon DEF unregister, Reads, teardown
<1>2. UNCHANGED <<events, disposed, inbox, tmuxPaused, live, fixedVars, wc, proxy, told, toPage>>
  BY <1>1 DEF mainRest, pageVars
<1>3. Undisturbed /\ events \in Nat
  <2>1. disposed \in BOOLEAN /\ events \in Nat BY Plain
  <2> QED BY <1>1, <1>2, <2>1 DEF Undisturbed
<1> HIDE DEF R
<1>4. FlowOK' /\ Registry' /\ Billed' /\ CallsOK' /\ CoverageOK' /\ Unlost BY <1>1, <1>2, <1>3, Torn
<1>5. MailOK' /\ toMain' \in [Renderers -> Seq(Request)] /\ toPage' \in [Renderers -> Seq(Notice)]
  BY <1>1, <1>2, <1>4, MailKeeps DEF IInv
<1>6. PagesOK' BY <1>1, <1>2, <1>5 DEF IInv, PagesOK
<1> QED BY <1>4, <1>5, <1>6 DEF IInv

LEMMA onDestroyedKeeps ==
  ASSUME IInv, NEW r \in Renderers, onDestroyed(r)
  PROVE  IInv'
<1> DEFINE R == {r} \cap Known
<1>1. /\ R \in SUBSET Known /\ teardown(R) /\ Flow!Commit(LedgerWithout(R), <<>>)
      /\ draining' = FALSE /\ wc' = [wc EXCEPT ![r] = "gone"] /\ refused' = refused
      /\ UNCHANGED <<events, disposed, inbox, tmuxPaused, live, fixedVars, proxy, told, toMain, toPage>>
  BY Zenon DEF onDestroyed, teardown
<1>2. Undisturbed /\ events \in Nat
  <2>1. disposed \in BOOLEAN /\ events \in Nat BY Plain
  <2> QED BY <1>1, <2>1 DEF Undisturbed
<1>3. wc' \in [Renderers -> {"alive", "destroyed", "gone"}] /\ \A q \in Renderers : q # r => wc'[q] = wc[q]
  BY <1>1 DEF IInv, PagesOK
<1>4. \A q \in Renderers : wc'[q] = "gone" => wc[q] = "gone" \/ q \notin Known \ R BY <1>3
<1> HIDE DEF R
<1>5. FlowOK' /\ Registry' /\ Billed' /\ CallsOK' /\ CoverageOK' /\ Unlost BY <1>1, <1>2, <1>4, Torn
<1>6. MailOK' /\ toMain' \in [Renderers -> Seq(Request)] /\ toPage' \in [Renderers -> Seq(Notice)]
  BY <1>1, <1>5, MailKeeps DEF IInv
<1>7. PagesOK' BY <1>1, <1>3, <1>6 DEF IInv, PagesOK
<1> QED BY <1>5, <1>6, <1>7 DEF IInv

LEMMA broadcastKeeps ==
  ASSUME IInv, broadcast
  PROVE  IInv'
<1> DEFINE R == Stale
<1>1. /\ R \in SUBSET Known /\ teardown(R) /\ Flow!Commit(LedgerWithout(R), <<>>)
      /\ draining' = FALSE /\ refused' = refused /\ UNCHANGED <<mainRest, toMain, toPage>>
  BY Zenon DEF broadcast, teardown, Stale
<1>2. UNCHANGED <<events, disposed, inbox, tmuxPaused, live, fixedVars, wc, proxy, told, toMain, toPage>>
  BY <1>1 DEF mainRest, pageVars
<1>3. Undisturbed /\ events \in Nat
  <2>1. disposed \in BOOLEAN /\ events \in Nat BY Plain
  <2> QED BY <1>1, <1>2, <2>1 DEF Undisturbed
<1> HIDE DEF R
<1>4. FlowOK' /\ Registry' /\ Billed' /\ CallsOK' /\ CoverageOK' /\ Unlost BY <1>1, <1>2, <1>3, Torn
<1>5. MailOK' /\ toMain' \in [Renderers -> Seq(Request)] /\ toPage' \in [Renderers -> Seq(Notice)]
  BY <1>2, <1>4, MailKeeps DEF IInv
<1>6. PagesOK' BY <1>1, <1>2, <1>5 DEF IInv, PagesOK
<1> QED BY <1>4, <1>5, <1>6 DEF IInv

LEMMA disposeKeeps ==
  ASSUME IInv, dispose
  PROVE  IInv'
<1>1. /\ teardown(Known) /\ Flow!Commit(Flow!flushPausedPanes(LedgerWithout(Known)), <<>>)
      /\ draining' = FALSE /\ refused' = refused /\ disposed' = TRUE
      /\ UNCHANGED <<inbox, tmuxPaused, live, fixedVars, wc, proxy, told, toMain, toPage>>
      /\ events < MaxEvents /\ events' = events + 1
  BY Zenon DEF dispose, teardown, pageVars, Unasked
<1>2. Undisturbed BY <1>1 DEF Undisturbed
<1>3. events' \in Nat /\ events' >= events /\ events' \in 0..MaxEvents
  <2>1. events \in 0..MaxEvents /\ MaxEvents \in Nat BY BridgeAssumption DEF IInv, PagesOK
  <2> QED BY <1>1, <2>1
<1>4. FlowOK' /\ Registry' /\ Billed' /\ CallsOK' /\ CoverageOK' /\ Unlost BY <1>1, <1>2, <1>3, Torn
<1>5. MailOK' /\ toMain' \in [Renderers -> Seq(Request)] /\ toPage' \in [Renderers -> Seq(Notice)]
  BY <1>1, <1>4, MailKeeps DEF IInv
<1>6. PagesOK' BY <1>1, <1>3, <1>5 DEF IInv, PagesOK
<1> QED BY <1>4, <1>5, <1>6 DEF IInv

LEMMA broadcastClosedKeeps ==
  ASSUME IInv, broadcastClosed
  PROVE  IInv'
<1>1. /\ told' = TRUE
      /\ UNCHANGED <<events, disposed, inbox, tmuxPaused, live, draining, fixedVars, wc, proxy, toMain>>
  BY DEF broadcastClosed, pageVars
<1>2. events \in Nat /\ disposed \in BOOLEAN /\ draining \in BOOLEAN BY DEF IInv, PagesOK, FlowOK, L!TypeOK
<1>3. CASE disposed
  <2>1. UNCHANGED <<ledger, sent, jobs, senders, made, coverage, calls, refused, toPage>>
    BY <1>3 DEF broadcastClosed, Nothing
  <2>2. PagesOK' BY <1>1, <2>1 DEF IInv, PagesOK
  <2>3. FlowOK' BY <1>1, <2>1 DEF IInv, FlowOK, L!TypeOK, HeldBack, L!totalOutstanding, fixedVars
  <2>4. Known' = Known /\ Subscribed' = Subscribed BY <2>1 DEF Known, Knows, Subscribed
  <2>5. Registry' BY <1>1, <2>1, <2>4 DEF IInv, Registry, PeersOf, Knows
  <2>6. Billed' BY <2>1, <2>4 DEF IInv, Billed, PeersOf
  <2>7. CallsOK' BY <1>1, <2>1, <2>4 DEF IInv, CallsOK, PeersOf
  <2>8. MailOK' BY <1>1, <2>1 DEF IInv, MailOK
  <2>9. CoverageOK' BY <2>1, <2>4 DEF IInv, CoverageOK, PeersOf
  <2> QED BY <2>2, <2>3, <2>5, <2>6, <2>7, <2>8, <2>9 DEF IInv
<1>4. CASE ~disposed
  <2>1. /\ teardown(Stale) /\ Flow!Commit(LedgerWithout(Stale), jobs) /\ refused' = refused
        /\ toPage' = Give(toPage, Subscribed, Message("state", 1))
    BY Zenon, <1>4 DEF broadcastClosed, teardown
  <2>2. Stale \in SUBSET Known /\ Subscribed \in SUBSET Renderers BY DEF Stale, Subscribed
  <2>3. Undisturbed BY <1>1, <1>2 DEF Undisturbed
  <2>4. FlowOK' /\ Registry' /\ Billed' /\ CallsOK' /\ CoverageOK' /\ Unlost
    BY <1>1, <1>2, <2>1, <2>2, <2>3, Torn
  <2>5. Message("state", 1) \in Notice /\ Message("state", 1).what # "reply" BY DEF Message, Notice
  <2>6. MailOK' /\ toMain' \in [Renderers -> Seq(Request)] /\ toPage' \in [Renderers -> Seq(Notice)]
    BY <1>1, <2>1, <2>2, <2>4, <2>5, MailKeeps DEF IInv
  <2>7. PagesOK' BY <1>1, <2>1, <2>6 DEF IInv, PagesOK
  <2> QED BY <2>4, <2>6, <2>7 DEF IInv
<1> QED BY <1>3, <1>4

-----------------------------------------------------------------------------
(* One step: the page *)

LEMMA MainKeeps ==
  ASSUME IInv, UNCHANGED <<flowVars, mainVars>>, Len(calls') >= Len(calls), Len(calls') \in Nat,
         \A r \in Renderers : wc'[r] = "gone" => wc[r] = "gone"
  PROVE  /\ FlowOK' /\ Registry' /\ Billed' /\ CoverageOK' /\ PeersOf(Known)' = PeersOf(Known)
         /\ refused' = refused /\ told' = told /\ made' = made /\ senders' = senders
<1>1. /\ UNCHANGED <<ledger, disposed, sent, inbox, tmuxPaused, live, jobs, draining, due, written,
                     refusals, reported, moot>>
      /\ UNCHANGED <<senders, made, coverage, told, refused>>
  BY DEF flowVars, mainVars, fixedVars
<1>2. FlowOK' BY <1>1 DEF IInv, FlowOK, L!TypeOK, HeldBack, L!totalOutstanding
<1>3. Known' = Known /\ Subscribed' = Subscribed BY <1>1 DEF Known, Knows, Subscribed
<1>4. PeersOf(Known)' = PeersOf(Known) BY <1>1, <1>3 DEF PeersOf
<1>5. PeersOf(Subscribed)' = PeersOf(Subscribed) BY <1>1, <1>3 DEF PeersOf
<1>6. Registry' BY <1>1, <1>3, <1>4 DEF IInv, Registry, Knows
<1>7. Billed' BY <1>1, <1>5 DEF IInv, Billed
<1>8. CoverageOK'
  <2>1. Len(calls) \in Nat /\ 0..Len(calls) \subseteq 0..Len(calls')
    <3> DEFINE n == Len(calls)  k == Len(calls')
    <3>1. n \in Nat BY DEF IInv, CallsOK
    <3>2. k \in Nat /\ k >= n OBVIOUS
    <3> HIDE DEF n, k
    <3>3. n \in Nat /\ 0..n \subseteq 0..k BY <3>1, <3>2
    <3> QED BY <3>3 DEF n, k
  <2> QED BY <1>1, <1>4, <2>1 DEF IInv, CoverageOK, Refers
<1> QED BY <1>1, <1>2, <1>4, <1>6, <1>7, <1>8

(* Only a promise of the page changes.                                     *)
SameRun(c, d) ==
  /\ d \in Seq(Call) /\ DOMAIN d = DOMAIN c /\ Len(d) = Len(c)
  /\ \A i \in DOMAIN c : /\ d[i].page = c[i].page /\ d[i].peer = c[i].peer /\ d[i].method = c[i].method
                         /\ d[i].aborted = c[i].aborted /\ d[i].outcome = c[i].outcome

LEMMA CallsType ==
  ASSUME CallsOK
  PROVE  calls \in Seq(Call) /\ Len(calls) \in Nat /\ DOMAIN calls = 1..Len(calls)
         /\ \A i \in DOMAIN calls : calls[i] \in Call
<1>1. calls \in Seq(Call) BY DEF CallsOK
<1> HIDE DEF Call
<1> QED BY <1>1, ElementOfSeq

Promised(c, x) == [c EXCEPT !.promise = x]

LEMMA Promises ==
  ASSUME NEW c \in Call, NEW x \in {"pending", "ok", "error", "aborted", "timeout", "lost"}
  PROVE  /\ Promised(c, x) \in Call /\ Promised(c, x).page = c.page /\ Promised(c, x).peer = c.peer
         /\ Promised(c, x).method = c.method /\ Promised(c, x).aborted = c.aborted
         /\ Promised(c, x).outcome = c.outcome
BY DEF Call, Promised

LEMMA LoseDoes ==
  ASSUME CallsOK, NEW r
  PROVE  SameRun(calls, Lose(r))
<1> DEFINE lost(i) == calls[i].page = r /\ calls[i].promise = "pending"
           to(i) == IF lost(i) THEN [calls[i] EXCEPT !.promise = "lost"] ELSE calls[i]
<1>1. Lose(r) = [i \in DOMAIN calls |-> to(i)] BY DEF Lose
<1>2. \A i \in DOMAIN calls :
        /\ to(i) \in Call /\ to(i).page = calls[i].page /\ to(i).peer = calls[i].peer /\ to(i).method = calls[i].method
        /\ to(i).aborted = calls[i].aborted /\ to(i).outcome = calls[i].outcome
  <2> SUFFICES ASSUME NEW i \in DOMAIN calls
               PROVE  /\ to(i) \in Call /\ to(i).page = calls[i].page
                      /\ to(i).peer = calls[i].peer /\ to(i).method = calls[i].method
                      /\ to(i).aborted = calls[i].aborted /\ to(i).outcome = calls[i].outcome
    OBVIOUS
  <2>1. calls[i] \in Call BY CallsType
  <2>2. CASE lost(i)
    <3>1. to(i) = Promised(calls[i], "lost") BY <2>2 DEF Promised
    <3> HIDE DEF to, lost
    <3> QED BY <2>1, <3>1, Promises
  <2>3. CASE ~lost(i) BY <2>1, <2>3
  <2> QED BY <2>2, <2>3
<1> HIDE DEF to
<1>3. Lose(r) \in [DOMAIN calls -> Call] BY <1>1, <1>2
<1>4. Lose(r) \in Seq(Call) /\ Len(Lose(r)) = Len(calls) /\ DOMAIN Lose(r) = DOMAIN calls
  BY <1>3, CallsType, SameLength
<1>5. \A i \in DOMAIN calls : Lose(r)[i] = to(i) BY <1>1
<1> QED BY <1>2, <1>4, <1>5 DEF SameRun

LEMMA PromiseDoes ==
  ASSUME CallsOK, NEW i \in DOMAIN calls, NEW x \in {"pending", "ok", "error", "aborted", "timeout", "lost"}
  PROVE  SameRun(calls, [calls EXCEPT ![i].promise = x])
<1> DEFINE d == [calls EXCEPT ![i].promise = x]  e == [calls[i] EXCEPT !.promise = x]
<1>1. calls \in [DOMAIN calls -> Call] /\ calls \in Seq(Call) BY CallsType
<1>i. calls[i] \in Call BY CallsType
<1>2. /\ e \in Call /\ e.page = calls[i].page /\ e.peer = calls[i].peer /\ e.method = calls[i].method
      /\ e.aborted = calls[i].aborted /\ e.outcome = calls[i].outcome
  <2>1. e = Promised(calls[i], x) BY DEF Promised
  <2> HIDE DEF e
  <2> QED BY <1>i, <2>1, Promises
<1>3. d = [calls EXCEPT ![i] = e] OBVIOUS
<1> HIDE DEF d, e
<1>4. d \in [DOMAIN calls -> Call] /\ d[i] = e /\ \A j \in DOMAIN calls : j # i => d[j] = calls[j]
  BY <1>1, <1>2, <1>3
<1>5. d \in Seq(Call) /\ Len(d) = Len(calls) /\ DOMAIN d = DOMAIN calls BY <1>1, <1>4, SameLength
<1> QED BY <1>2, <1>4, <1>5 DEF SameRun, d

LEMMA SameRunKeeps ==
  ASSUME CallsOK, SameRun(calls, calls') \/ calls' = calls, made' = made,
         PeersOf(Known)' = PeersOf(Known), events \in Nat, events' \in Nat, events' >= events
  PROVE  CallsOK' /\ Unlost /\ Len(calls') = Len(calls) /\ Len(calls') \in Nat
<1>1. SameRun(calls, calls') BY CallsType DEF SameRun
<1>2. Len(calls') = Len(calls) /\ Len(calls) \in Nat BY <1>1, CallsType DEF SameRun
<1>3. Unlost BY <1>1 DEF SameRun, Unlost, Progress, Unrun
<1>4. Len(calls') <= events' BY <1>2 DEF CallsOK
<1>5. \A i \in DOMAIN calls : Running(calls'[i]) <=> Running(calls[i]) BY <1>1 DEF SameRun, Running
<1>6. CallsOK' BY <1>1, <1>4, <1>5 DEF SameRun, CallsOK
<1> QED BY <1>2, <1>3, <1>6

LEMMA UnaskedOnce ==
  ASSUME IInv, Unasked
  PROVE  events' \in 0..MaxEvents /\ events' \in Nat /\ events' >= events /\ events' = events + 1
BY Plain DEF Unasked

LEMMA PageTypes ==
  ASSUME PagesOK, NEW r \in Renderers
  PROVE  /\ toMain[r] \in Seq(Request) /\ toPage[r] \in Seq(Notice)
         /\ proxy[r].open \in BOOLEAN /\ proxy[r].pending \in 0..(Batch - 1)
         /\ proxy[r].state \in {"none", "connecting", "ready", "closed"}
BY DEF PagesOK

LEMMA ProxyBecomes ==
  ASSUME PagesOK, NEW r \in Renderers, NEW open \in BOOLEAN, NEW n \in 0..(Batch - 1),
         NEW state \in {"none", "connecting", "ready", "closed"}
  PROVE  [proxy EXCEPT ![r] = [open |-> open, state |-> state, pending |-> n]] \in
           [Renderers -> [open : BOOLEAN, state : {"none", "connecting", "ready", "closed"}, pending : 0..(Batch - 1)]]
BY DEF PagesOK

(* The boxes of one page change, no call is sent and none is answered.     *)
LEMMA BoxesKeep ==
  ASSUME PagesOK, MailOK, Unlost, NEW r \in Renderers,
         \/ toMain' = toMain
         \/ \E m \in Request : m.what # "invoke" /\ toMain' = Post(toMain, r, m),
         \/ toPage' = toPage \/ toPage' = [toPage EXCEPT ![r] = <<>>]
         \/ (toPage[r] # <<>> /\ toPage' = [toPage EXCEPT ![r] = Tail(@)])
  PROVE  /\ MailOK'
         /\ toMain' \in [Renderers -> Seq(Request)] /\ toPage' \in [Renderers -> Seq(Notice)]
<1>1. toMain \in [Renderers -> Seq(Request)] /\ toPage \in [Renderers -> Seq(Notice)] BY DEF PagesOK
<1>2. \A q \in Renderers : Invokes(toMain[q], q, calls') /\ Replies(toPage[q], calls')
  BY InvokesKeep, RepliesKeep DEF MailOK, Unlost
<1>3. toMain' \in [Renderers -> Seq(Request)] /\ \A q \in Renderers : Invokes(toMain'[q], q, calls')
  <2>1. CASE toMain' = toMain BY <1>1, <1>2, <2>1
  <2>2. ASSUME NEW m \in Request, m.what # "invoke", toMain' = Post(toMain, r, m)
        PROVE  toMain' \in [Renderers -> Seq(Request)] /\ \A q \in Renderers : Invokes(toMain'[q], q, calls')
    <3>1. /\ toMain' \in [Renderers -> Seq(Request)] /\ toMain'[r] = Append(toMain[r], m)
          /\ \A q \in Renderers : q # r => toMain'[q] = toMain[q]
      <4> DEFINE b == Post(toMain, r, m)
      <4>1. b \in [Renderers -> Seq(Request)] /\ b[r] = Append(toMain[r], m)
            /\ \A q \in Renderers : q # r => b[q] = toMain[q]
        BY <1>1, PostType
      <4> QED BY <2>2, <4>1
    <3>2. Invokes(Append(toMain[r], m), r, calls') BY <1>1, <1>2, <2>2, InvokesPost
    <3> QED BY <1>2, <3>1, <3>2
  <2> QED BY <2>1, <2>2
<1>4. toPage' \in [Renderers -> Seq(Notice)] /\ \A q \in Renderers : Replies(toPage'[q], calls')
  <2>1. CASE toPage' = toPage BY <1>1, <1>2, <2>1
  <2>2. CASE toPage' = [toPage EXCEPT ![r] = <<>>]
    <3>1. <<>> \in Seq(Notice) /\ Replies(<<>>, calls') BY DEF Replies
    <3> QED BY <1>1, <1>2, <2>2, <3>1
  <2>3. CASE toPage[r] # <<>> /\ toPage' = [toPage EXCEPT ![r] = Tail(@)]
    <3>1. /\ toPage' \in [Renderers -> Seq(Notice)] /\ toPage'[r] = Tail(toPage[r])
          /\ \A q \in Renderers : q # r => toPage'[q] = toPage[q]
      BY <1>1, <2>3, TailType
    <3>2. Replies(Tail(toPage[r]), calls') BY <1>1, <1>2, <2>3, RepliesTail
    <3> QED BY <1>2, <3>1, <3>2
  <2> QED BY <2>1, <2>2, <2>3
<1> QED BY <1>3, <1>4 DEF MailOK

LEMMA createRendererBridgeKeeps ==
  ASSUME IInv, NEW r \in Renderers, createRendererBridge(r)
  PROVE  IInv'
<1>1. /\ proxy' = [proxy EXCEPT ![r] = [open |-> TRUE, state |-> "connecting", pending |-> 0]]
      /\ toMain' = Post(toMain, r, Message("register", 0))
      /\ toPage' = toPage \/ toPage' = [toPage EXCEPT ![r] = <<>>]
      /\ calls' = calls \/ calls' = Lose(r)
      /\ UNCHANGED <<flowVars, wc, mainVars>> /\ Unasked
  BY DEF createRendererBridge
<1>2. calls' = calls \/ SameRun(calls, calls') BY <1>1, LoseDoes DEF IInv
<1>3. events' \in 0..MaxEvents /\ events' \in Nat /\ events' >= events /\ events \in Nat
  BY <1>1, UnaskedOnce, Plain
<1>4. Len(calls') = Len(calls) /\ Len(calls) \in Nat BY <1>2, CallsType DEF IInv, SameRun
<1>5. FlowOK' /\ Registry' /\ Billed' /\ CoverageOK' /\ PeersOf(Known)' = PeersOf(Known)
      /\ refused' = refused /\ told' = told /\ made' = made
  BY <1>1, <1>4, MainKeeps
<1>6. CallsOK' /\ Unlost BY <1>2, <1>3, <1>5, SameRunKeeps DEF IInv
<1>7. Message("register", 0) \in Request /\ Message("register", 0).what # "invoke" BY DEF Message, Request
<1>8. MailOK' /\ toMain' \in [Renderers -> Seq(Request)] /\ toPage' \in [Renderers -> Seq(Notice)]
  BY <1>1, <1>6, <1>7, BoxesKeep DEF IInv
<1>9. 0 \in 0..(Batch - 1) BY BridgeAssumption
<1>10. PagesOK'
  <2>1. proxy' \in [Renderers -> [open : BOOLEAN, state : {"none", "connecting", "ready", "closed"},
                                 pending : 0..(Batch - 1)]]
    BY <1>1, <1>9, ProxyBecomes DEF IInv
  <2> QED BY <1>1, <1>3, <1>5, <1>8, <2>1 DEF IInv, PagesOK
<1> QED BY <1>5, <1>6, <1>8, <1>10 DEF IInv

LEMMA closeKeeps ==
  ASSUME IInv, NEW r \in Renderers, close(r)
  PROVE  IInv'
<1>1. /\ proxy' = [proxy EXCEPT ![r] = [open |-> FALSE, state |-> "closed", pending |-> 0]]
      /\ toMain' = Post(toMain, r, Message("unregister", 0))
      /\ toPage' = toPage /\ calls' = calls
      /\ UNCHANGED <<flowVars, wc, mainVars>> /\ Unasked
  BY DEF close
<1>3. events' \in 0..MaxEvents /\ events' \in Nat /\ events' >= events /\ events \in Nat
  BY <1>1, UnaskedOnce, Plain
<1>4. Len(calls') = Len(calls) /\ Len(calls) \in Nat BY <1>1, CallsType DEF IInv
<1>5. FlowOK' /\ Registry' /\ Billed' /\ CoverageOK' /\ PeersOf(Known)' = PeersOf(Known)
      /\ refused' = refused /\ told' = told /\ made' = made
  BY <1>1, <1>4, MainKeeps
<1>6. CallsOK' /\ Unlost BY <1>1, <1>3, <1>5, SameRunKeeps DEF IInv
<1>7. Message("unregister", 0) \in Request /\ Message("unregister", 0).what # "invoke" BY DEF Message, Request
<1>8. MailOK' /\ toMain' \in [Renderers -> Seq(Request)] /\ toPage' \in [Renderers -> Seq(Notice)]
  BY <1>1, <1>6, <1>7, BoxesKeep DEF IInv
<1>9. 0 \in 0..(Batch - 1) BY BridgeAssumption
<1>10. PagesOK'
  <2>1. proxy' \in [Renderers -> [open : BOOLEAN, state : {"none", "connecting", "ready", "closed"},
                                 pending : 0..(Batch - 1)]]
    BY <1>1, <1>9, ProxyBecomes DEF IInv
  <2> QED BY <1>1, <1>3, <1>5, <1>8, <2>1 DEF IInv, PagesOK
<1> QED BY <1>5, <1>6, <1>8, <1>10 DEF IInv

LEMMA DestroyKeeps ==
  ASSUME IInv, NEW r \in Renderers, Destroy(r)
  PROVE  IInv'
<1>1. /\ proxy' = [proxy EXCEPT ![r] = [open |-> FALSE, state |-> "closed", pending |-> 0]]
      /\ toMain' = toMain /\ toPage' = [toPage EXCEPT ![r] = <<>>]
      /\ calls' = Lose(r) /\ wc' = [wc EXCEPT ![r] = "destroyed"]
      /\ UNCHANGED <<flowVars, mainVars>> /\ Unasked
  BY DEF Destroy
<1>2. SameRun(calls, calls') BY <1>1, LoseDoes DEF IInv
<1>3. events' \in 0..MaxEvents /\ events' \in Nat /\ events' >= events /\ events \in Nat
  BY <1>1, UnaskedOnce, Plain
<1>4. Len(calls') = Len(calls) /\ Len(calls) \in Nat BY <1>2, CallsType DEF IInv, SameRun
<1>11. wc' \in [Renderers -> {"alive", "destroyed", "gone"}]
       /\ \A q \in Renderers : wc'[q] = "gone" => wc[q] = "gone"
  BY <1>1 DEF IInv, PagesOK
<1>5. FlowOK' /\ Registry' /\ Billed' /\ CoverageOK' /\ PeersOf(Known)' = PeersOf(Known)
      /\ refused' = refused /\ told' = told /\ made' = made
  BY <1>1, <1>4, <1>11, MainKeeps
<1>6. CallsOK' /\ Unlost BY <1>2, <1>3, <1>5, SameRunKeeps DEF IInv
<1>8. MailOK' /\ toMain' \in [Renderers -> Seq(Request)] /\ toPage' \in [Renderers -> Seq(Notice)]
  BY <1>1, <1>6, BoxesKeep DEF IInv
<1>9. 0 \in 0..(Batch - 1) BY BridgeAssumption
<1>10. PagesOK'
  <2>1. proxy' \in [Renderers -> [open : BOOLEAN, state : {"none", "connecting", "ready", "closed"},
                                 pending : 0..(Batch - 1)]]
    BY <1>1, <1>9, ProxyBecomes DEF IInv
  <2> QED BY <1>1, <1>3, <1>5, <1>8, <1>11, <2>1 DEF IInv, PagesOK
<1> QED BY <1>5, <1>6, <1>8, <1>10 DEF IInv

LEMMA withTimeoutKeeps ==
  ASSUME IInv, NEW i \in DOMAIN calls, withTimeout(i)
  PROVE  IInv'
<1>1. /\ calls' = [calls EXCEPT ![i].promise = "timeout"]
      /\ UNCHANGED <<flowVars, wc, proxy, toMain, toPage, mainVars>> /\ Unasked
  BY DEF withTimeout, pageVars
<1>2. SameRun(calls, calls') BY <1>1, PromiseDoes DEF IInv
<1>3. events' \in 0..MaxEvents /\ events' \in Nat /\ events' >= events /\ events \in Nat
  BY <1>1, UnaskedOnce, Plain
<1>4. Len(calls') = Len(calls) /\ Len(calls) \in Nat BY <1>2, CallsType DEF IInv, SameRun
<1>5. FlowOK' /\ Registry' /\ Billed' /\ CoverageOK' /\ PeersOf(Known)' = PeersOf(Known)
      /\ refused' = refused /\ told' = told /\ made' = made
  BY <1>1, <1>4, MainKeeps
<1>6. CallsOK' /\ Unlost BY <1>2, <1>3, <1>5, SameRunKeeps DEF IInv
<1>8. MailOK' BY <1>1, <1>6, MailKeeps DEF IInv
<1>10. PagesOK' BY <1>1, <1>3, <1>5 DEF IInv, PagesOK
<1> QED BY <1>5, <1>6, <1>8, <1>10 DEF IInv

LEMMA onReplyKeeps ==
  ASSUME IInv, NEW r \in Renderers, onReply(r)
  PROVE  IInv'
<1> DEFINE i == toPage[r][1].n
           x == IF calls[i].promise = "pending" THEN calls[i].outcome ELSE calls[i].promise
<1>1. /\ calls' = [calls EXCEPT ![i].promise = IF @ = "pending" THEN calls[i].outcome ELSE @]
      /\ toPage[r] # <<>> /\ toPage[r][1].what = "reply" /\ toPage' = [toPage EXCEPT ![r] = Tail(@)]
      /\ UNCHANGED <<events, flowVars, wc, proxy, toMain, mainVars>>
  BY DEF onReply, Takes, pageVars
<1>2. i \in DOMAIN calls /\ x \in {"pending", "ok", "error", "aborted", "timeout", "lost"}
  <2>1. toPage[r] \in Seq(Notice) BY PageTypes DEF IInv
  <2>2. 1 \in DOMAIN toPage[r] BY <1>1, <2>1, RestOfQueue
  <2>3. i \in DOMAIN calls /\ calls[i].outcome # "none" BY <1>1, <2>2 DEF IInv, MailOK, Replies
  <2>4. calls[i] \in Call BY <2>3, CallsType DEF IInv
  <2> QED BY <2>3, <2>4 DEF Call
<1>3. calls' = [calls EXCEPT ![i].promise = x] BY <1>1
<1> HIDE DEF i, x
<1>4. SameRun(calls, calls') BY <1>2, <1>3, PromiseDoes DEF IInv
<1>5. Len(calls') = Len(calls) /\ Len(calls) \in Nat /\ events \in Nat BY <1>4, CallsType, Plain DEF IInv, SameRun
<1>6. FlowOK' /\ Registry' /\ Billed' /\ CoverageOK' /\ PeersOf(Known)' = PeersOf(Known)
      /\ refused' = refused /\ told' = told /\ made' = made
  BY <1>1, <1>5, MainKeeps
<1>7. CallsOK' /\ Unlost BY <1>1, <1>4, <1>5, <1>6, SameRunKeeps DEF IInv
<1>8. MailOK' /\ toMain' \in [Renderers -> Seq(Request)] /\ toPage' \in [Renderers -> Seq(Notice)]
  BY <1>1, <1>7, BoxesKeep DEF IInv
<1>9. PagesOK' BY <1>1, <1>6, <1>8 DEF IInv, PagesOK
<1> QED BY <1>6, <1>7, <1>8, <1>9 DEF IInv

LEMMA onConnectionStateKeeps ==
  ASSUME IInv, NEW r \in Renderers, onConnectionState(r)
  PROVE  IInv'
<1> DEFINE s == IF toPage[r][1].n = 0 THEN "ready" ELSE "closed"
<1>1. /\ proxy' = proxy \/ proxy' = [proxy EXCEPT ![r].state = s]
      /\ toPage[r] # <<>> /\ toPage' = [toPage EXCEPT ![r] = Tail(@)]
      /\ UNCHANGED <<events, flowVars, wc, toMain, mainVars, calls>>
  BY DEF onConnectionState, Takes
<1>2. s \in {"none", "connecting", "ready", "closed"} OBVIOUS
<1> HIDE DEF s
<1>5. Len(calls') = Len(calls) /\ Len(calls) \in Nat /\ events \in Nat BY <1>1, CallsType, Plain DEF IInv
<1>6. FlowOK' /\ Registry' /\ Billed' /\ CoverageOK' /\ PeersOf(Known)' = PeersOf(Known)
      /\ refused' = refused /\ told' = told /\ made' = made
  BY <1>1, <1>5, MainKeeps
<1>7. CallsOK' /\ Unlost BY <1>1, <1>5, <1>6, SameRunKeeps DEF IInv
<1>8. MailOK' /\ toMain' \in [Renderers -> Seq(Request)] /\ toPage' \in [Renderers -> Seq(Notice)]
  BY <1>1, <1>7, BoxesKeep DEF IInv
<1>9. PagesOK'
  <2>1. proxy' \in [Renderers -> [open : BOOLEAN, state : {"none", "connecting", "ready", "closed"},
                                 pending : 0..(Batch - 1)]]
    BY Zenon, <1>1, <1>2 DEF IInv, PagesOK
  <2> QED BY <1>1, <1>6, <1>8, <2>1 DEF IInv, PagesOK
<1> QED BY <1>6, <1>7, <1>8, <1>9 DEF IInv

(* What the page keeps, and what it acknowledges.                          *)
LEMMA AccountSplits ==
  ASSUME NEW n \in 0..(Batch - 1)
  PROVE  /\ account(n).pending \in 0..(Batch - 1) /\ account(n).bytes \in Nat
         /\ account(n).pending + account(n).bytes = n + 1
         /\ account(n).bytes # 0 => account(n).bytes = Batch
BY BridgeAssumption DEF account

LEMMA onOutputKeeps ==
  ASSUME IInv, NEW r \in Renderers, onOutput(r)
  PROVE  IInv'
<1> DEFINE next == account(proxy[r].pending)
<1>1. /\ \/ proxy' = proxy /\ toMain' = toMain
         \/ /\ proxy' = [proxy EXCEPT ![r].pending = next.pending]
            /\ toMain' = toMain \/ toMain' = Post(toMain, r, Message("ack", next.bytes))
      /\ toPage[r] # <<>> /\ toPage' = [toPage EXCEPT ![r] = Tail(@)]
      /\ UNCHANGED <<events, flowVars, wc, mainVars, calls>>
  BY DEF onOutput, Takes
<1>2. next.pending \in 0..(Batch - 1) /\ next.bytes \in Nat
  BY PageTypes, AccountSplits DEF IInv
<1> HIDE DEF next
<1>3. \A n \in Nat : Message("ack", n) \in Request /\ Message("ack", n).what # "invoke" BY DEF Message, Request
<1>5. Len(calls') = Len(calls) /\ Len(calls) \in Nat /\ events \in Nat BY <1>1, CallsType, Plain DEF IInv
<1>6. FlowOK' /\ Registry' /\ Billed' /\ CoverageOK' /\ PeersOf(Known)' = PeersOf(Known)
      /\ refused' = refused /\ told' = told /\ made' = made
  BY <1>1, <1>5, MainKeeps
<1>7. CallsOK' /\ Unlost BY <1>1, <1>5, <1>6, SameRunKeeps DEF IInv
<1>8. MailOK' /\ toMain' \in [Renderers -> Seq(Request)] /\ toPage' \in [Renderers -> Seq(Notice)]
  <2>1. toMain' = toMain \/ \E m \in Request : m.what # "invoke" /\ toMain' = Post(toMain, r, m)
    BY <1>1, <1>2, <1>3
  <2> QED BY <1>1, <1>7, <2>1, BoxesKeep DEF IInv
<1>9. PagesOK'
  <2>1. proxy' \in [Renderers -> [open : BOOLEAN, state : {"none", "connecting", "ready", "closed"},
                                 pending : 0..(Batch - 1)]]
    BY Zenon, <1>1, <1>2 DEF IInv, PagesOK
  <2> QED BY <1>1, <1>6, <1>8, <2>1 DEF IInv, PagesOK
<1> QED BY <1>6, <1>7, <1>8, <1>9 DEF IInv

-----------------------------------------------------------------------------
(* One step: a call is made, run and answered *)

LEMMA CallBecomes ==
  ASSUME CallsOK, NEW i \in DOMAIN calls, NEW e \in Call
  PROVE  LET d == [calls EXCEPT ![i] = e] IN
         /\ d \in Seq(Call) /\ Len(d) = Len(calls) /\ DOMAIN d = DOMAIN calls /\ d[i] = e
         /\ \A j \in DOMAIN calls : j # i => d[j] = calls[j]
<1> DEFINE d == [calls EXCEPT ![i] = e]
<1>1. calls \in [DOMAIN calls -> Call] /\ calls \in Seq(Call) BY CallsType
<1>2. d \in [DOMAIN calls -> Call] /\ d[i] = e /\ \A j \in DOMAIN calls : j # i => d[j] = calls[j]
  BY <1>1
<1> HIDE DEF d
<1>3. d \in Seq(Call) /\ Len(d) = Len(calls) /\ DOMAIN d = DOMAIN calls BY <1>1, <1>2, SameLength
<1> QED BY <1>2, <1>3 DEF d

LEMMA Answered ==
  ASSUME CallsOK, NEW i \in DOMAIN calls, NEW x \in {"ok", "error", "aborted"},
         calls' = [calls EXCEPT ![i].outcome = x], made' = made,
         PeersOf(Known)' = PeersOf(Known), events \in Nat, events' = events
  PROVE  CallsOK' /\ Unlost /\ Len(calls') = Len(calls) /\ i \in DOMAIN calls' /\ calls'[i].outcome # "none"
         /\ calls'[i].outcome = x
<1> DEFINE e == [calls[i] EXCEPT !.outcome = x]
<1>1. /\ e \in Call /\ e.page = calls[i].page /\ e.peer = calls[i].peer
      /\ e.aborted = calls[i].aborted /\ e.outcome = x
  <2>1. calls[i] \in Call BY CallsType
  <2> QED BY <2>1 DEF Call
<1>2. calls' = [calls EXCEPT ![i] = e] OBVIOUS
<1> HIDE DEF e
<1>3. /\ calls' \in Seq(Call) /\ Len(calls') = Len(calls) /\ DOMAIN calls' = DOMAIN calls /\ calls'[i] = e
      /\ \A j \in DOMAIN calls : j # i => calls'[j] = calls[j]
  BY <1>1, <1>2, CallBecomes
<1>4. x # "none" OBVIOUS
<1>5. Unlost BY <1>1, <1>3, <1>4 DEF Unlost, Progress, Unrun
<1>6. CallsOK'
  <2>1. \A j \in DOMAIN calls' :
          /\ calls'[j].peer <= made' /\ (calls'[j].peer = 0 => ~calls'[j].aborted)
          /\ Running(calls'[j]) => (calls'[j].aborted <=> calls'[j].peer \notin PeersOf(Known)')
    BY <1>1, <1>3, <1>4 DEF CallsOK, Running
  <2> QED BY <1>3, <2>1 DEF CallsOK
<1> QED BY <1>1, <1>3, <1>4, <1>5, <1>6

LEMMA invokeKeeps ==
  ASSUME IInv, NEW r \in Renderers, NEW method \in {"enable", "disable"}, invoke(r, method)
  PROVE  IInv'
<1> DEFINE c == [page |-> r, method |-> method, peer |-> 0, aborted |-> FALSE,
                 outcome |-> "none", promise |-> "pending"]
           n == Len(calls) + 1
           m == Message("invoke", n)
<1>1. /\ calls' = Append(calls, c) /\ toMain' = Post(toMain, r, m)
      /\ UNCHANGED <<flowVars, wc, proxy, toPage, mainVars>> /\ Unasked
  BY DEF invoke, pageVars
<1>2. c \in Call /\ c.page = r /\ c.peer = 0 /\ ~c.aborted /\ c.outcome = "none" BY DEF Call
<1>3. calls \in Seq(Call) /\ Len(calls) \in Nat /\ DOMAIN calls = 1..Len(calls) BY CallsType DEF IInv
<1>4. n \in Nat /\ m \in Request /\ m.what = "invoke" /\ m.n = n
  <2>1. n \in Nat BY <1>3
  <2> HIDE DEF n
  <2> QED BY <2>1 DEF Message, Request
<1>5. n \notin DOMAIN calls BY <1>3
<1> HIDE DEF c, m
<1>6. /\ calls' \in Seq(Call) /\ DOMAIN calls' = (DOMAIN calls) \cup {n} /\ calls'[n] = c
      /\ \A i \in DOMAIN calls : calls'[i] = calls[i]
  BY <1>1, <1>2, <1>3, LongerBox
<1>7. Len(calls') = Len(calls) + 1 BY <1>1, <1>3
<1>8. events' \in 0..MaxEvents /\ events' \in Nat /\ events' = events + 1 /\ events \in Nat
  BY <1>1, UnaskedOnce, Plain
<1>9. FlowOK' /\ Registry' /\ Billed' /\ CoverageOK' /\ PeersOf(Known)' = PeersOf(Known)
      /\ refused' = refused /\ told' = told /\ made' = made
  <2>1. Len(calls') >= Len(calls) /\ Len(calls') \in Nat BY <1>3, <1>7
  <2> QED BY <1>1, <2>1, MainKeeps
<1>10. CallsOK'
  <2>1. Len(calls') <= events' BY <1>3, <1>7, <1>8 DEF IInv, CallsOK
  <2>2. 0 <= made BY Tokens DEF IInv
  <2>3. \A i \in DOMAIN calls' :
          /\ calls'[i].peer <= made' /\ (calls'[i].peer = 0 => ~calls'[i].aborted)
          /\ Running(calls'[i]) => (calls'[i].aborted <=> calls'[i].peer \notin PeersOf(Known)')
    BY <1>2, <1>6, <1>9, <2>2 DEF IInv, CallsOK, Running
  <2> QED BY <1>6, <2>1, <2>3 DEF CallsOK
<1>11. Unlost BY <1>6 DEF Unlost, Progress, Unrun
<1>12. /\ toMain' \in [Renderers -> Seq(Request)] /\ toMain'[r] = Append(toMain[r], m)
       /\ \A q \in Renderers : q # r => toMain'[q] = toMain[q]
  <2> DEFINE b == Post(toMain, r, m)
  <2>1. b \in [Renderers -> Seq(Request)] /\ b[r] = Append(toMain[r], m)
        /\ \A q \in Renderers : q # r => b[q] = toMain[q]
    BY <1>4, PostType DEF IInv
  <2> QED BY <1>1, <2>1
<1>13. MailOK'
  <2>1. \A q \in Renderers : Invokes(toMain[q], q, calls) /\ Invokes(toMain[q], q, calls')
                             /\ Replies(toPage[q], calls')
    BY <1>11, InvokesKeep, RepliesKeep DEF IInv, MailOK, Unlost
  <2>2. Invokes(toMain'[r], r, calls')
    <3> DEFINE s == toMain[r]  t == Append(s, m)
    <3>1. s \in Seq(Request) BY PageTypes DEF IInv
    <3>2. Invokes(s, r, calls) /\ Invokes(s, r, calls') BY <2>1
    <3> HIDE DEF s, n
    <3>3. /\ DOMAIN t = (DOMAIN s) \cup {Len(s) + 1} /\ t[Len(s) + 1] = m /\ Len(s) + 1 \notin DOMAIN s
          /\ \A i \in DOMAIN s : t[i] = s[i]
      BY <1>4, <3>1, LongerBox
    <3> HIDE DEF t
    <3>4. \A i \in DOMAIN s : s[i].what = "invoke" => s[i].n # n BY <1>5, <3>2 DEF Invokes
    <3>5. Invokes(t, r, calls') BY <1>2, <1>4, <1>6, <3>2, <3>3, <3>4 DEF Invokes
    <3> QED BY <1>12, <3>5 DEF t, s
  <2> QED BY <1>1, <1>12, <2>1, <2>2 DEF MailOK
<1>14. PagesOK' BY <1>1, <1>8, <1>9, <1>12 DEF IInv, PagesOK
<1> QED BY <1>9, <1>10, <1>13, <1>14 DEF IInv

LEMMA UnheardKeeps ==
  ASSUME IInv, NEW r \in Renderers, Unheard(r)
  PROVE  IInv'
<1> DEFINE m == toMain[r][1]
<1>1. /\ toMain[r] # <<>> /\ toMain' = [toMain EXCEPT ![r] = Tail(@)]
      /\ \/ m.what # "invoke" /\ calls' = calls /\ toPage' = toPage
         \/ /\ m.what = "invoke" /\ calls' = [calls EXCEPT ![m.n].outcome = "error"]
            /\ toPage' = Give(toPage, {r}, Message("reply", m.n))
      /\ UNCHANGED <<events, flowVars, wc, proxy, mainVars>>
  BY DEF Unheard, pageVars
<1>2. m \in Request /\ 1 \in DOMAIN toMain[r]
  <2>1. toMain[r] \in Seq(Request) BY PageTypes DEF IInv
  <2> QED BY <1>1, <2>1, RestOfQueue
<1>3. m.what = "invoke" => m.n \in DOMAIN calls BY <1>2 DEF IInv, MailOK, Invokes
<1>4. events \in Nat /\ events' = events BY <1>1, Plain
<1> HIDE DEF m
<1>5. Len(calls') = Len(calls) /\ Len(calls) \in Nat
  <2>1. CASE calls' = calls BY <2>1, CallsType DEF IInv
  <2>2. CASE m.what = "invoke" /\ calls' = [calls EXCEPT ![m.n].outcome = "error"]
    <3> DEFINE e == [calls[m.n] EXCEPT !.outcome = "error"]
    <3>1. e \in Call
      <4>1. calls[m.n] \in Call BY <1>3, <2>2, CallsType DEF IInv
      <4> QED BY <4>1 DEF Call
    <3>2. calls' = [calls EXCEPT ![m.n] = e] BY <2>2
    <3> HIDE DEF e
    <3> QED BY <1>3, <2>2, <3>1, <3>2, CallBecomes, CallsType DEF IInv
  <2> QED BY <1>1, <2>1, <2>2
<1>6. FlowOK' /\ Registry' /\ Billed' /\ CoverageOK' /\ PeersOf(Known)' = PeersOf(Known)
      /\ refused' = refused /\ told' = told /\ made' = made
  BY <1>1, <1>5, MainKeeps
<1>7. CallsOK' /\ MailOK'
      /\ toMain' \in [Renderers -> Seq(Request)] /\ toPage' \in [Renderers -> Seq(Notice)]
  <2>1. CASE m.what # "invoke" /\ calls' = calls /\ toPage' = toPage
    <3>1. CallsOK' /\ Unlost BY <1>4, <1>6, <2>1, SameRunKeeps DEF IInv
    <3> QED BY <1>1, <2>1, <3>1, MailKeeps DEF IInv
  <2>2. CASE /\ m.what = "invoke" /\ calls' = [calls EXCEPT ![m.n].outcome = "error"]
             /\ toPage' = Give(toPage, {r}, Message("reply", m.n))
    <3>1. CallsOK' /\ Unlost /\ m.n \in DOMAIN calls' /\ calls'[m.n].outcome # "none"
      BY <1>3, <1>4, <1>6, <2>2, Answered DEF IInv
    <3> DEFINE a == Message("reply", m.n)
    <3>2. a \in Notice /\ a.n = m.n
      <4>1. m.n \in Nat BY <1>2 DEF Request
      <4> QED BY <4>1 DEF Message, Notice
    <3> HIDE DEF a
    <3>3. \A q \in Renderers : Replies(toPage[q], calls')
      BY <3>1, RepliesKeep DEF IInv, MailOK, Unlost
    <3>4. toPage \in [Renderers -> Seq(Notice)] BY DEF IInv, PagesOK
    <3>5. toPage' \in [Renderers -> Seq(Notice)] /\ \A q \in Renderers : Replies(toPage'[q], calls')
      <4> DEFINE G == Give(toPage, {r}, a)
      <4>1. G \in [Renderers -> Seq(Notice)] BY <3>2, <3>4, GiveType
      <4>2. \A q \in Renderers : Replies(G[q], calls') BY <3>1, <3>2, <3>3, <3>4, RepliesGive
      <4>3. toPage' = G BY <2>2 DEF a
      <4> QED BY <4>1, <4>2, <4>3
    <3>6. \A q \in Renderers : Invokes(toMain[q], q, calls')
      BY <3>1, InvokesKeep DEF IInv, MailOK, Unlost
    <3>7. /\ toMain' \in [Renderers -> Seq(Request)] /\ toMain'[r] = Tail(toMain[r])
          /\ \A q \in Renderers : q # r => toMain'[q] = toMain[q]
      <4>1. toMain \in [Renderers -> Seq(Request)] BY DEF IInv, PagesOK
      <4> QED BY <1>1, <4>1, TailType
    <3>8. Invokes(Tail(toMain[r]), r, calls')
      <4>1. toMain[r] \in Seq(Request) BY PageTypes DEF IInv
      <4> QED BY <1>1, <3>6, <4>1, InvokesTail
    <3> QED BY <3>1, <3>5, <3>6, <3>7, <3>8 DEF MailOK
  <2> QED BY <1>1, <2>1, <2>2
<1>8. PagesOK' BY <1>1, <1>6, <1>7 DEF IInv, PagesOK
<1> QED BY <1>6, <1>7, <1>8 DEF IInv

-----------------------------------------------------------------------------
(* One step: a page registers, calls for the first time, or acknowledges   *)

LEMMA EnrolledLedger ==
  ASSUME Registry, FlowOK, NEW p \in Peers
  PROVE  LET m == [ledger EXCEPT !.registered = @ \cup {p}] IN
         /\ m \in L!LedgerRecord /\ m.registered = ledger.registered \cup {p}
         /\ m.outstanding = ledger.outstanding /\ m.flow = ledger.flow /\ m.episodes = ledger.episodes
         /\ m.resuming = ledger.resuming /\ m.issued = <<>>
<1>1. ledger \in L!LedgerRecord /\ ledger.issued = <<>> BY LedgerNow DEF FlowOK
<1>2. ledger.registered \cup {p} \in SUBSET Peers BY <1>1, RecordTypes
<1> QED BY <1>1, <1>2, RegisterDoes DEF Quiet

(* The sink of a first subscriber lets tmux continue.                      *)
LEMMA SubscribedLedger ==
  ASSUME Registry, FlowOK, NEW p \in Peers
  PROVE  LET m == onPaneBecameInteresting([ledger EXCEPT !.registered = @ \cup {p}]) IN
         /\ m \in L!LedgerRecord /\ m.registered = ledger.registered \cup {p}
         /\ m.outstanding = ledger.outstanding /\ m.flow = ledger.flow /\ m.episodes = ledger.episodes
         /\ m.resuming = ledger.resuming
         /\ IF Subscribed = {} /\ Suppress
              THEN m.issued = <<[action |-> "continue", episode |-> ledger.flow, flush |-> TRUE]>>
              ELSE m.issued = <<>>
<1> DEFINE k == [ledger EXCEPT !.registered = @ \cup {p}]  m == onPaneBecameInteresting(k)
<1>1. /\ k \in L!LedgerRecord /\ k.registered = ledger.registered \cup {p}
      /\ k.outstanding = ledger.outstanding /\ k.flow = ledger.flow /\ k.episodes = ledger.episodes
      /\ k.resuming = ledger.resuming /\ k.issued = <<>>
  BY EnrolledLedger
<1> HIDE DEF k
<1>2. CASE Subscribed = {} /\ Suppress
  <2>1. m = paneAction(k, "continue") BY <1>2 DEF onPaneBecameInteresting
  <2>2. Sends(k, paneAction(k, "continue"), "continue") BY <1>1, <1>2, PaneActionDoes
  <2> HIDE DEF m
  <2>3. m.issued = Append(<<>>, [action |-> "continue", episode |-> ledger.flow, flush |-> TRUE])
    BY <1>1, <2>1, <2>2 DEF Sends
  <2>4. /\ m \in L!LedgerRecord /\ m.registered = ledger.registered \cup {p}
        /\ m.outstanding = ledger.outstanding /\ m.flow = ledger.flow /\ m.episodes = ledger.episodes
        /\ m.resuming = ledger.resuming
        /\ m.issued = <<[action |-> "continue", episode |-> ledger.flow, flush |-> TRUE]>>
    BY <1>1, <2>1, <2>2, <2>3 DEF Sends
  <2> QED BY <1>2, <2>4 DEF m, k
<1>3. CASE ~(Subscribed = {} /\ Suppress)
  <2>1. m = k
    <3>1. CASE Subscribed = {}
      <4>1. m = paneAction(k, "continue") /\ ~Suppress BY <1>3, <3>1 DEF onPaneBecameInteresting
      <4> QED BY <4>1, PaneActionDoes DEF paneAction
    <3>2. CASE Subscribed # {} BY <3>2 DEF onPaneBecameInteresting
    <3> QED BY <3>1, <3>2
  <2> QED BY <1>1, <1>3, <2>1 DEF m, k
<1> QED BY <1>2, <1>3

LEMMA EnrolledCalls ==
  ASSUME Registry, CallsOK, NEW p, PeersOf(Known)' = PeersOf(Known) \cup {p},
         p \in PeersOf(Known) \/ p = made + 1
  PROVE  \A i \in DOMAIN calls :
           Running(calls[i]) => (calls[i].aborted <=> calls[i].peer \notin PeersOf(Known)')
<1>1. ASSUME NEW i \in DOMAIN calls PROVE calls[i].peer = made + 1 => FALSE
  <2>1. calls[i].peer \in Nat /\ calls[i].peer <= made /\ made \in Nat
    <3>1. calls[i] \in Call BY CallsType
    <3>2. calls[i].peer \in Peers \cup {0} BY <3>1 DEF Call
    <3> QED BY <3>2, PeersCount, Tokens DEF CallsOK
  <2> QED BY <2>1
<1> QED BY <1>1 DEF CallsOK

LEMMA registerKeeps ==
  ASSUME IInv, NEW r \in Renderers, register(r)
  PROVE  IInv'
<1> DEFINE p == Token(r)  m == onPaneBecameInteresting(getOrCreate(r, ledger))
           b == Message("state", IF live THEN 0 ELSE 1)
<1>1. /\ toMain[r] # <<>> /\ toMain' = [toMain EXCEPT ![r] = Tail(@)] /\ draining' = FALSE /\ ~disposed
      /\ UNCHANGED <<events, disposed, inbox, tmuxPaused, live, fixedVars, wc, proxy, told>>
  BY DEF register, Reads, mainRest, pageVars
<1>2. Undisturbed /\ events \in Nat
  <2>1. disposed \in BOOLEAN /\ events \in Nat BY Plain
  <2> QED BY <1>1, <2>1 DEF Undisturbed
<1>3. CASE ~Reachable(r)
  <2>1. UNCHANGED <<ledger, sent, jobs, senders, made, coverage, calls, refused, toPage>>
    BY <1>3 DEF register, Nothing
  <2>2. Known' = Known /\ Subscribed' = Subscribed BY <2>1 DEF Known, Knows, Subscribed
  <2>3. FlowOK' BY <1>1, <2>1 DEF IInv, FlowOK, L!TypeOK, HeldBack, L!totalOutstanding, fixedVars
  <2>4. Registry' BY <1>1, <2>1, <2>2 DEF IInv, Registry, PeersOf, Knows
  <2>5. Billed' BY <2>1, <2>2 DEF IInv, Billed, PeersOf
  <2>6. CallsOK' BY <1>1, <2>1, <2>2 DEF IInv, CallsOK, PeersOf
  <2>7. CoverageOK' BY <2>1, <2>2 DEF IInv, CoverageOK, PeersOf
  <2>8. Unlost BY <2>1, CallsStay DEF Unlost
  <2>9. MailOK' /\ toMain' \in [Renderers -> Seq(Request)] /\ toPage' \in [Renderers -> Seq(Notice)]
    BY <1>1, <2>1, <2>8, MailKeeps DEF IInv
  <2>10. PagesOK' BY <1>1, <2>1, <2>9 DEF IInv, PagesOK
  <2> QED BY <2>3, <2>4, <2>5, <2>6, <2>7, <2>9, <2>10 DEF IInv
<1>4. CASE Reachable(r)
  <2>1. /\ p \in Peers /\ Enrolled(r, TRUE) /\ Flow!Commit(m, <<>>) /\ toPage' = Give(toPage, {r}, b)
        /\ UNCHANGED <<coverage, calls, refused>>
    BY <1>4 DEF register, Enrolled
  <2>2. m = onPaneBecameInteresting([ledger EXCEPT !.registered = @ \cup {p}]) BY DEF getOrCreate
  <2>3. b \in Notice /\ b.what # "reply" BY DEF Message, Notice
  <2>4. Registry /\ Billed /\ FlowOK /\ CallsOK BY DEF IInv
  <2> HIDE DEF m, b
  <2>5. /\ m \in L!LedgerRecord /\ m.registered = ledger.registered \cup {p}
        /\ m.outstanding = ledger.outstanding /\ m.flow = ledger.flow /\ m.episodes = ledger.episodes
        /\ m.resuming = ledger.resuming
    BY <2>1, <2>2, <2>4, SubscribedLedger
  <2>6. Commits(m, <<>>) BY <2>1, <2>4, <2>5 DEF Commits, FlowOK, HeldBack, L!totalOutstanding
  <2>7. FlowOK' BY <1>2, <2>4, <2>6, CommitFlow
  <2>8. /\ ledger' \in L!LedgerRecord /\ ledger'.registered = ledger.registered \cup {p}
        /\ ledger'.outstanding = ledger.outstanding
    BY <2>4, <2>5, <2>6, CommitDoes
  <2>9. /\ Registry' /\ Billed' /\ PeersOf(Known)' = PeersOf(Known) \cup {p} /\ made' >= made
        /\ ~Knows(r) => p = made + 1
    BY <1>1, <1>4, <2>1, <2>4, <2>8, Enrols
  <2>10. p \in PeersOf(Known) \/ p = made + 1 BY <2>9 DEF Token, PeersOf, Known
  <2>11. CallsOK'
    <3>1. \A i \in DOMAIN calls : calls[i].peer <= made'
      <4>1. \A i \in DOMAIN calls : calls[i].peer \in Nat
        <5>1. \A i \in DOMAIN calls : calls[i].peer \in Peers \cup {0} BY <2>4, CallsType DEF Call
        <5> QED BY <5>1, PeersCount
      <4>2. made \in Nat /\ made' \in Nat
        <5>1. made \in Peers \cup {0} /\ made' \in Peers \cup {0} BY <2>4, <2>9 DEF Registry
        <5> QED BY <5>1, PeersCount
      <4> QED BY <2>4, <2>9, <4>1, <4>2 DEF CallsOK
    <3>2. \A i \in DOMAIN calls :
            Running(calls[i]) => (calls[i].aborted <=> calls[i].peer \notin PeersOf(Known)')
      BY <2>4, <2>9, <2>10, EnrolledCalls
    <3> QED BY <1>1, <2>1, <2>4, <3>1, <3>2 DEF CallsOK
  <2>12. CoverageOK' BY <2>1, <2>9 DEF IInv, CoverageOK
  <2>13. Unlost BY <2>1, CallsStay DEF Unlost
  <2>14. MailOK' /\ toMain' \in [Renderers -> Seq(Request)] /\ toPage' \in [Renderers -> Seq(Notice)]
    BY <1>1, <2>1, <2>3, <2>13, MailKeeps DEF IInv
  <2>15. PagesOK' BY <1>1, <2>1, <2>14 DEF IInv, PagesOK
  <2> QED BY <2>7, <2>9, <2>11, <2>12, <2>14, <2>15 DEF IInv
<1> QED BY <1>3, <1>4

(* The senders are as they were.                                           *)
LEMMA SameSenders ==
  ASSUME Registry, UNCHANGED <<senders, made, wc, disposed>>, ledger' \in L!LedgerRecord,
         ledger'.registered = ledger.registered
  PROVE  /\ Registry' /\ PeersOf(Known)' = PeersOf(Known) /\ PeersOf(Subscribed)' = PeersOf(Subscribed)
         /\ Known' = Known /\ Subscribed' = Subscribed
<1>1. Known' = Known /\ Subscribed' = Subscribed BY DEF Known, Knows, Subscribed
<1> QED BY <1>1 DEF Registry, PeersOf, Knows

LEMMA ackLedger ==
  ASSUME Registry, FlowOK, Billed, NEW r \in Renderers, NEW n \in Nat
  PROVE  LET m == IF Knows(r) THEN Flow!ack(ledger, senders[r].peer, n) ELSE ledger IN
         /\ m \in L!LedgerRecord /\ m.registered = ledger.registered
         /\ m.flow = ledger.flow /\ m.episodes = ledger.episodes /\ HeldBack(m)
         /\ Asked(m, TRUE)
         /\ IF Knows(r) THEN m.outstanding = [ledger.outstanding EXCEPT ![senders[r].peer] =
                               IF n < @ THEN @ - n ELSE 0]
            ELSE m = ledger
<1> DEFINE p == senders[r].peer  m == IF Knows(r) THEN Flow!ack(ledger, p, n) ELSE ledger
<1>1. ledger \in L!LedgerRecord /\ ledger.issued = <<>> /\ HeldBack(ledger) BY LedgerNow DEF FlowOK
<1>2. Asked(ledger, TRUE) BY <1>1, RecordTypes DEF Asked
<1>3. CASE ~Knows(r) BY <1>1, <1>2, <1>3
<1>4. CASE Knows(r)
  <2> DEFINE o == IF n < ledger.outstanding[p] THEN ledger.outstanding[p] - n ELSE 0
  <2>1. p \in Peers BY <1>4, Tokens DEF Known
  <2>2. m = Flow!ack(ledger, p, n) BY <1>4
  <2> HIDE DEF m, p
  <2>3. PICK k : Owing(ledger, k, p, o) /\ k.registered = ledger.registered /\ L!MayResume(k, m)
    BY <1>1, <2>1, <2>2, AckDoes
  <2> HIDE DEF o
  <2>4. /\ k \in L!LedgerRecord /\ k.flow = ledger.flow /\ k.resuming = ledger.resuming
        /\ k.episodes = ledger.episodes /\ k.issued = ledger.issued
        /\ k.outstanding = [ledger.outstanding EXCEPT ![p] = o]
    BY <2>3 DEF Owing, Quiet
  <2>5. Asked(k, TRUE) BY <1>2, <2>4 DEF Asked
  <2>6. Asked(m, TRUE) BY <2>3, <2>4, <2>5, AskedResume
  <2>7. /\ m \in L!LedgerRecord /\ m.flow = k.flow /\ m.episodes = k.episodes /\ m.registered = k.registered
        /\ m.outstanding = k.outstanding /\ (m.flow # 0 /\ L!totalOutstanding(m) <= Low => m.resuming)
    BY <2>3 DEF L!MayResume
  <2>8. L!totalOutstanding(m) \in Nat /\ Low \in Nat BY <2>7, RecordTypes, BridgeAssumption
  <2>9. HeldBack(m) BY <2>7, <2>8 DEF HeldBack
  <2>10. m.outstanding = [ledger.outstanding EXCEPT ![p] = IF n < @ THEN @ - n ELSE 0]
    BY <2>4, <2>7 DEF o
  <2> QED BY <1>4, <2>3, <2>4, <2>6, <2>7, <2>9, <2>10 DEF m, p
<1> QED BY <1>3, <1>4

LEMMA ackKeeps ==
  ASSUME IInv, NEW r \in Renderers, ack(r)
  PROVE  IInv'
<1> DEFINE n == toMain[r][1].n  p == senders[r].peer
           m == IF Knows(r) THEN Flow!ack(ledger, p, n) ELSE ledger
<1>1. /\ toMain[r] # <<>> /\ toMain' = [toMain EXCEPT ![r] = Tail(@)] /\ draining' = FALSE
      /\ Flow!Commit(m, <<>>)
      /\ UNCHANGED <<events, disposed, inbox, tmuxPaused, live, fixedVars, wc, proxy, told, toPage>>
      /\ UNCHANGED <<senders, made, coverage, calls, refused>>
  BY DEF ack, Reads, mainRest, pageVars
<1>2. Undisturbed /\ events \in Nat
  <2>1. disposed \in BOOLEAN /\ events \in Nat BY Plain
  <2> QED BY <1>1, <2>1 DEF Undisturbed
<1>3. n \in Nat
  <2>1. toMain[r] \in Seq(Request) BY PageTypes DEF IInv
  <2>2. toMain[r][1] \in Request BY <1>1, <2>1, RestOfQueue
  <2> QED BY <2>2 DEF Request
<1>4. Registry /\ Billed /\ FlowOK /\ CallsOK BY DEF IInv
<1> HIDE DEF n
<1>5. /\ m \in L!LedgerRecord /\ m.registered = ledger.registered
      /\ m.flow = ledger.flow /\ m.episodes = ledger.episodes /\ HeldBack(m)
      /\ IF Knows(r) THEN m.outstanding = [ledger.outstanding EXCEPT ![p] = IF n < @ THEN @ - n ELSE 0]
         ELSE m = ledger
  BY <1>3, <1>4, ackLedger
<1> HIDE DEF m
<1>6. Commits(m, <<>>) BY <1>1, <1>4, <1>5 DEF Commits, FlowOK
<1>7. FlowOK' BY <1>2, <1>4, <1>6, CommitFlow
<1>8. /\ ledger' \in L!LedgerRecord /\ ledger'.registered = ledger.registered
      /\ ledger'.outstanding = m.outstanding
  BY <1>4, <1>5, <1>6, CommitDoes
<1>9. /\ Registry' /\ PeersOf(Known)' = PeersOf(Known) /\ PeersOf(Subscribed)' = PeersOf(Subscribed)
  BY <1>1, <1>4, <1>8, SameSenders
<1>10. \A q \in Peers : ledger.outstanding[q] = 0 => ledger'.outstanding[q] = 0
  <2>1. ledger.outstanding \in [Peers -> Nat] BY <1>4, RecordTypes DEF Registry
  <2> QED BY <1>3, <1>5, <1>8, <2>1
<1>11. Billed' BY <1>9, <1>10 DEF IInv, Billed
<1>12. CallsOK' BY <1>1, <1>9 DEF IInv, CallsOK
<1>13. CoverageOK' BY <1>1, <1>9 DEF IInv, CoverageOK
<1>14. Unlost BY <1>1, CallsStay DEF Unlost
<1>15. MailOK' /\ toMain' \in [Renderers -> Seq(Request)] /\ toPage' \in [Renderers -> Seq(Notice)]
  BY <1>1, <1>14, MailKeeps DEF IInv
<1>16. PagesOK' BY <1>1, <1>15 DEF IInv, PagesOK
<1> QED BY <1>7, <1>9, <1>11, <1>12, <1>13, <1>15, <1>16 DEF IInv

-----------------------------------------------------------------------------
(* One step: the layout ledger *)

LEMMA BridgeStays ==
  ASSUME IInv, UNCHANGED <<flowVars, senders, made, wc>>
  PROVE  FlowOK' /\ Registry' /\ Billed' /\ PeersOf(Known)' = PeersOf(Known)
<1>1. UNCHANGED <<ledger, disposed, sent, inbox, tmuxPaused, live, jobs, draining, due, written,
                  refusals, reported, moot>>
  BY DEF flowVars, fixedVars
<1>2. FlowOK' BY <1>1 DEF IInv, FlowOK, L!TypeOK, HeldBack, L!totalOutstanding
<1>3. Registry' /\ PeersOf(Known)' = PeersOf(Known) /\ PeersOf(Subscribed)' = PeersOf(Subscribed)
  <2>1. Registry /\ ledger' \in L!LedgerRecord BY <1>1 DEF IInv, Registry
  <2> QED BY <1>1, <2>1, SameSenders
<1> QED BY <1>1, <1>2, <1>3 DEF IInv, Billed

(* A reply to the page of a call that has come out.                        *)
LEMMA ReplyKeeps ==
  ASSUME PagesOK, MailOK, Unlost, NEW r, NEW i \in DOMAIN calls', calls'[i].outcome # "none", i \in Nat,
         toPage' = Give(toPage, {r}, Message("reply", i)), toMain' = toMain
  PROVE  MailOK' /\ toPage' \in [Renderers -> Seq(Notice)]
<1> DEFINE a == Message("reply", i)  G == Give(toPage, {r}, a)
<1>1. a \in Notice /\ a.n = i BY DEF Message, Notice
<1> HIDE DEF a
<1>2. \A q \in Renderers : Replies(toPage[q], calls') /\ Invokes(toMain[q], q, calls')
  BY RepliesKeep, InvokesKeep DEF MailOK, Unlost
<1>3. toPage \in [Renderers -> Seq(Notice)] BY DEF PagesOK
<1>4. G \in [Renderers -> Seq(Notice)] BY <1>1, <1>3, GiveType
<1>5. \A q \in Renderers : Replies(G[q], calls') BY <1>1, <1>2, <1>3, RepliesGive
<1>6. toPage' = G BY DEF a
<1> QED BY <1>2, <1>4, <1>5, <1>6 DEF MailOK

LEMMA FirstStepOver ==
  ASSUME NEW c \in Cover, c.steps # <<>>, NEW n, Refers(c, n),
         NEW forget \in BOOLEAN,
         forget => c.count = 0 /\ c.steps[Len(c.steps)].op # "wait" /\ (Tail(c.steps) = <<>> => ~c.held)
  PROVE  LET d == [c EXCEPT !.awaits = "nothing", !.steps = Tail(@)] IN
         /\ d \in Cover /\ Queued(d) /\ Refers(d, n) /\ (forget => Forgotten(d))
<1> DEFINE d == [c EXCEPT !.awaits = "nothing", !.steps = Tail(@)]  s == c.steps
<1>1. s \in Seq(Step) /\ s # <<>> BY DEF Cover
<1> HIDE DEF s
<1>2. Tail(s) \in Seq(Step) /\ \A i \in DOMAIN Tail(s) : i + 1 \in DOMAIN s /\ Tail(s)[i] = s[i + 1]
  BY <1>1, RestOfQueue
<1>3. d \in Cover /\ d.awaits = "nothing" /\ d.steps = Tail(s) /\ d.count = c.count /\ d.held = c.held
  <2>1. c.steps = s BY DEF s
  <2> QED BY <1>2, <2>1 DEF Cover
<1>4. Tail(s) # <<>> => Tail(s)[Len(Tail(s))] = s[Len(s)]
  <2>1. Len(s) \in Nat /\ Len(s) # 0 BY <1>1, EmptySeq
  <2>2. Len(Tail(s)) = Len(s) - 1 BY <1>1, <2>1
  <2>3. Tail(s) # <<>> => Len(Tail(s)) # 0 BY <1>2, EmptySeq
  <2> QED BY <1>1, <1>2, <2>1, <2>2, <2>3
<1> HIDE DEF d
<1>5. Queued(d) BY <1>3 DEF Queued
<1>6. Refers(d, n) BY <1>2, <1>3 DEF Refers, s
<1>7. forget => Forgotten(d) BY <1>3, <1>4 DEF Forgotten, s
<1> QED BY <1>3, <1>5, <1>6, <1>7 DEF d

LEMMA DoneKeeps ==
  ASSUME IInv, NEW p \in Peers, NEW c \in Cover, c.steps = coverage[p].steps, c.steps # <<>>,
         NEW outcome \in {"ok", "error"}, Done(p, c, outcome), UNCHANGED coverageRest,
         refused' \in 0..MaxRefusals,
         p \notin PeersOf(Known) => c.count = 0 /\ (Tail(c.steps) = <<>> => ~c.held)
  PROVE  IInv'
<1> DEFINE d == [c EXCEPT !.awaits = "nothing", !.steps = Tail(@)]  i == c.steps[1].call
           x == IF calls[i].aborted THEN "aborted" ELSE outcome
<1>1. /\ UNCHANGED <<flowVars, senders, made, wc, events, proxy, toMain, told>>
      /\ coverage' = [coverage EXCEPT ![p] = d]
      /\ IF i = 0 THEN calls' = calls /\ toPage' = toPage
         ELSE calls' = [calls EXCEPT ![i].outcome = x] /\ toPage' = Give(toPage, {calls[i].page}, Message("reply", i))
  BY DEF coverageRest, Done, pageVars
<1>2. FlowOK' /\ Registry' /\ Billed' /\ PeersOf(Known)' = PeersOf(Known) BY <1>1, BridgeStays
<1>3. d \in Cover /\ Queued(d) /\ Refers(d, Len(calls)) /\ (p \notin PeersOf(Known) => Forgotten(d))
  <2>1. Refers(c, Len(calls)) BY DEF IInv, CoverageOK, Refers
  <2>2. p \notin PeersOf(Known) => c.steps[Len(c.steps)].op # "wait" BY DEF IInv, CoverageOK, Forgotten
  <2> QED BY Zenon, <2>1, <2>2, FirstStepOver
<1>4. i \in 0..Len(calls) /\ (i # 0 => i \in DOMAIN calls /\ i \in Nat)
  <2>1. 1 \in DOMAIN c.steps
    <3>1. c.steps \in Seq(Step) BY DEF Cover
    <3> QED BY <3>1, RestOfQueue
  <2>2. i \in 0..Len(calls) BY <2>1 DEF IInv, CoverageOK, Refers
  <2> QED BY <2>2, CallsType DEF IInv
<1>5. x \in {"ok", "error", "aborted"} /\ events \in Nat BY Plain
<1> HIDE DEF d, i, x
<1>6. CallsOK' /\ MailOK' /\ toPage' \in [Renderers -> Seq(Notice)] /\ Len(calls') = Len(calls)
  <2>1. CASE i = 0
    <3>1. CallsOK' /\ Unlost /\ Len(calls') = Len(calls) BY <1>1, <1>2, <1>5, <2>1, SameRunKeeps DEF IInv
    <3>2. MailOK' /\ toPage' \in [Renderers -> Seq(Notice)] BY <1>1, <2>1, <3>1, MailKeeps DEF IInv
    <3> QED BY <3>1, <3>2
  <2>2. CASE i # 0
    <3>1. CallsOK' /\ Unlost /\ i \in DOMAIN calls' /\ calls'[i].outcome # "none" /\ Len(calls') = Len(calls)
      BY <1>1, <1>2, <1>4, <1>5, <2>2, Answered DEF IInv
    <3>2. MailOK' /\ toPage' \in [Renderers -> Seq(Notice)]
      BY <1>1, <1>4, <2>2, <3>1, ReplyKeeps DEF IInv
    <3> QED BY <3>1, <3>2
  <2> QED BY <2>1, <2>2
<1>7. CoverageOK'
  <2>1. /\ coverage' \in [Peers -> Cover] /\ coverage'[p] = d
        /\ \A q \in Peers : q # p => coverage'[q] = coverage[q]
    BY <1>1, <1>3 DEF IInv, CoverageOK
  <2> QED BY <1>2, <1>3, <1>6, <2>1 DEF IInv, CoverageOK
<1>8. PagesOK' BY <1>1, <1>6 DEF IInv, PagesOK
<1> QED BY <1>2, <1>6, <1>7, <1>8 DEF IInv

LEMMA reconcileKeeps ==
  ASSUME IInv, NEW p \in Peers, reconcile(p)
  PROVE  IInv'
<1> DEFINE c == coverage[p]  idle == c.steps[1].op = "wait" \/ ~(Wants(c) \/ Returns(c))
<1>1. /\ c.steps # <<>> /\ c.awaits = "nothing" /\ UNCHANGED coverageRest /\ refused' = refused
      /\ IF idle THEN Done(p, c, "ok")
         ELSE /\ coverage' = [coverage EXCEPT ![p] =
                   IF Wants(c) THEN [c EXCEPT !.awaits = "enable"] ELSE [c EXCEPT !.awaits = "disable", !.held = FALSE]]
              /\ calls' = calls /\ toPage' = toPage
  BY DEF reconcile, Runnable
<1>2. /\ c \in Cover /\ Queued(c) /\ Refers(c, Len(calls)) /\ (p \notin PeersOf(Known) => Forgotten(c))
      /\ refused \in 0..MaxRefusals
  BY DEF IInv, CoverageOK, PagesOK
<1>3. c.steps \in Seq(Step) /\ c.count \in Nat /\ c.held \in BOOLEAN BY <1>2 DEF Cover
<1>4. CASE idle
  <2>1. ASSUME p \notin PeersOf(Known), Tail(c.steps) = <<>> PROVE ~c.held
    <3>1. Len(c.steps) = 1
      <4>1. Len(c.steps) \in Nat /\ Len(c.steps) # 0 /\ Len(Tail(c.steps)) = 0 BY <1>1, <1>3, <2>1, EmptySeq
      <4>2. Len(Tail(c.steps)) = Len(c.steps) - 1 BY <1>3, <4>1
      <4> QED BY <4>1, <4>2
    <3>2. c.steps[1].op # "wait" /\ c.count = 0 BY <1>1, <1>2, <2>1, <3>1 DEF Forgotten
    <3> QED BY <1>3, <1>4, <3>2 DEF Returns
  <2>2. p \notin PeersOf(Known) => c.count = 0 BY <1>2 DEF Forgotten
  <2>3. Done(p, c, "ok") BY <1>1, <1>4
  <2> HIDE DEF idle
  <2> QED BY <1>1, <1>2, <2>1, <2>2, <2>3, DoneKeeps
<1>5. CASE ~idle
  <2> DEFINE d == IF Wants(c) THEN [c EXCEPT !.awaits = "enable"] ELSE [c EXCEPT !.awaits = "disable", !.held = FALSE]
  <2>1. /\ UNCHANGED <<flowVars, senders, made, wc, events, proxy, toMain, told, calls, toPage, refused>>
        /\ coverage' = [coverage EXCEPT ![p] = d]
    BY <1>1, <1>5 DEF coverageRest, pageVars
  <2>2. /\ d \in Cover /\ d.steps = c.steps /\ d.count = c.count /\ (d.awaits = "disable" => ~d.held)
        /\ (d.awaits = "enable" => c.count > 0) /\ (d.held => c.held)
    BY <1>2 DEF Cover, Wants
  <2> HIDE DEF d, idle, c
  <2>3. Queued(d) /\ Refers(d, Len(calls)) BY <1>1, <1>2, <2>2 DEF Queued, Refers
  <2>4. p \notin PeersOf(Known) => Forgotten(d) BY <1>1, <1>2, <1>3, <2>2 DEF Forgotten
  <2>5. FlowOK' /\ Registry' /\ Billed' /\ PeersOf(Known)' = PeersOf(Known) BY <2>1, BridgeStays
  <2>6. CallsOK' BY <2>1, <2>5 DEF IInv, CallsOK
  <2>7. MailOK' BY <2>1 DEF IInv, MailOK
  <2>8. PagesOK' BY <2>1 DEF IInv, PagesOK
  <2>9. CoverageOK'
    <3>1. /\ coverage' \in [Peers -> Cover] /\ coverage'[p] = d
          /\ \A q \in Peers : q # p => coverage'[q] = coverage[q]
      BY <2>1, <2>2 DEF IInv, CoverageOK
    <3> QED BY <2>1, <2>3, <2>4, <2>5, <3>1 DEF IInv, CoverageOK
  <2> QED BY <2>5, <2>6, <2>7, <2>8, <2>9 DEF IInv
<1> QED BY <1>4, <1>5

LEMMA RelayAnswersKeeps ==
  ASSUME IInv, NEW p \in Peers, RelayAnswers(p)
  PROVE  IInv'
<1> DEFINE c == coverage[p]
           granted == [c EXCEPT !.held = (c.awaits = "enable")]
           denied == IF c.awaits = "enable" THEN RefusedEnable(c) ELSE c
<1>1. /\ c.awaits # "nothing" /\ UNCHANGED coverageRest
      /\ \/ Done(p, granted, "ok") /\ refused' = refused
         \/ /\ ~live \/ refused < MaxRefusals
            /\ refused' = IF live THEN refused + 1 ELSE refused
            /\ Done(p, denied, "error")
  BY DEF RelayAnswers
<1>2. /\ c \in Cover /\ Queued(c) /\ (p \notin PeersOf(Known) => Forgotten(c))
      /\ refused \in 0..MaxRefusals /\ MaxRefusals \in Nat /\ live \in BOOLEAN
  BY Plain, BridgeAssumption DEF IInv, CoverageOK, PagesOK
<1>3. /\ c.steps \in Seq(Step) /\ c.count \in Nat /\ c.held \in BOOLEAN /\ c.steps # <<>>
      /\ c.awaits \in {"enable", "disable"}
  BY <1>1, <1>2 DEF Cover, Queued
<1>4. /\ granted \in Cover /\ granted.steps = c.steps /\ granted.count = c.count
      /\ granted.held = (c.awaits = "enable")
  BY <1>2, <1>3 DEF Cover
<1>5. /\ denied \in Cover /\ denied.steps = c.steps /\ denied.held = c.held
      /\ (c.count = 0 => denied.count = 0)
  <2>1. CASE c.awaits = "enable"
    <3> DEFINE n == IF c.steps[1].op = "enable" /\ c.count > 0 THEN c.count - 1 ELSE c.count
    <3>1. n \in Nat /\ (c.count = 0 => n = 0) BY <1>3
    <3>2. denied = [c EXCEPT !.count = n] BY <2>1 DEF RefusedEnable
    <3> HIDE DEF n, denied
    <3> QED BY <1>2, <3>1, <3>2 DEF Cover
  <2>2. CASE c.awaits # "enable" BY <1>2, <2>2
  <2> QED BY <2>1, <2>2
<1>6. p \notin PeersOf(Known) => c.count = 0 /\ (Tail(c.steps) = <<>> => c.awaits = "disable" /\ ~c.held)
  <2>1. Tail(c.steps) = <<>> => Len(c.steps) = 1
    <3>1. Len(c.steps) \in Nat /\ Len(c.steps) # 0 BY <1>3, EmptySeq
    <3>2. Len(Tail(c.steps)) = Len(c.steps) - 1 BY <1>3, <3>1
    <3>3. Tail(c.steps) = <<>> => Len(Tail(c.steps)) = 0 BY EmptySeq
    <3> QED BY <3>1, <3>2, <3>3
  <2> QED BY <1>2, <1>3, <2>1 DEF Forgotten, Queued
<1> HIDE DEF c, granted, denied
<1>7. c.steps = coverage[p].steps BY DEF c
<1>8. CASE Done(p, granted, "ok") /\ refused' = refused
  <2>1. p \notin PeersOf(Known) => granted.count = 0 /\ (Tail(granted.steps) = <<>> => ~granted.held)
    BY <1>4, <1>6
  <2> QED BY <1>1, <1>2, <1>3, <1>4, <1>7, <1>8, <2>1, DoneKeeps
<1>9. CASE /\ ~live \/ refused < MaxRefusals
           /\ refused' = IF live THEN refused + 1 ELSE refused
           /\ Done(p, denied, "error")
  <2>1. refused' \in 0..MaxRefusals BY <1>2, <1>9
  <2>2. p \notin PeersOf(Known) => denied.count = 0 /\ (Tail(denied.steps) = <<>> => ~denied.held)
    BY <1>5, <1>6
  <2> QED BY <1>1, <1>3, <1>5, <1>7, <1>9, <2>1, <2>2, DoneKeeps
<1> QED BY <1>1, <1>8, <1>9

LEMMA AsksType ==
  ASSUME NEW c \in Cover, NEW method \in {"enable", "disable"}, NEW i, NEW n \in Nat,
         i \in 0..n, n <= MaxEvents, Queued(c), Refers(c, n)
  PROVE  Asks(c, method, i) \in Cover /\ Queued(Asks(c, method, i)) /\ Refers(Asks(c, method, i), n)
<1> DEFINE step == [op |-> IF method = "disable" /\ c.count = 0 THEN "wait" ELSE method, call |-> i]
           k == IF method = "enable" THEN c.count + 1 ELSE IF c.count > 0 THEN c.count - 1 ELSE 0
           d == [c EXCEPT !.count = k, !.steps = Append(@, step)]
<1>1. step \in Step /\ step.call = i
  <2>1. i \in 0..MaxEvents BY BridgeAssumption
  <2> QED BY <2>1 DEF Step
<1>2. k \in Nat BY DEF Cover
<1>3. Asks(c, method, i) = d BY DEF Asks
<1>4. c.steps \in Seq(Step) BY DEF Cover
<1> HIDE DEF step, k
<1>5. /\ Append(c.steps, step) \in Seq(Step)
      /\ DOMAIN Append(c.steps, step) = (DOMAIN c.steps) \cup {Len(c.steps) + 1}
      /\ Append(c.steps, step)[Len(c.steps) + 1] = step
      /\ \A j \in DOMAIN c.steps : Append(c.steps, step)[j] = c.steps[j]
  BY <1>1, <1>4, LongerBox
<1>6. d \in Cover /\ d.held = c.held /\ d.awaits = c.awaits /\ d.steps = Append(c.steps, step)
  BY <1>2, <1>5 DEF Cover
<1> HIDE DEF d
<1>7. d.steps # <<>>
  <2>1. Len(c.steps) + 1 \in DOMAIN d.steps BY <1>5, <1>6
  <2> QED BY <2>1
<1>8. Queued(d) BY <1>6, <1>7 DEF Queued
<1>9. Refers(d, n) BY <1>1, <1>5, <1>6 DEF Refers
<1> QED BY <1>3, <1>6, <1>8, <1>9

LEMMA handleKeeps ==
  ASSUME IInv, NEW r \in Renderers, handle(r)
  PROVE  IInv'
<1> DEFINE i == toMain[r][1].n  p == Token(r)  m == getOrCreate(r, ledger)
<1>1. /\ toMain[r] # <<>> /\ toMain[r][1].what = "invoke"
      /\ toMain' = [toMain EXCEPT ![r] = Tail(@)] /\ draining' = FALSE /\ ~disposed
      /\ UNCHANGED <<events, disposed, inbox, tmuxPaused, live, fixedVars, wc, proxy, told, toPage, refused>>
      /\ IF ~Reachable(r)
           THEN /\ calls' = [calls EXCEPT ![i].outcome = "aborted"]
                /\ UNCHANGED <<ledger, sent, jobs, senders, made, coverage>>
           ELSE /\ p \in Peers /\ Enrolled(r, FALSE) /\ Flow!Commit(m, <<>>)
                /\ calls' = [calls EXCEPT ![i].peer = p]
                /\ coverage' = [coverage EXCEPT ![p] = Asks(@, calls[i].method, i)]
  BY DEF handle, Reads, mainRest, pageVars, Enrolled
<1>2. Undisturbed /\ events \in Nat
  <2>1. disposed \in BOOLEAN /\ events \in Nat BY Plain
  <2> QED BY <1>1, <2>1 DEF Undisturbed
<1>3. /\ toMain[r] \in Seq(Request) /\ 1 \in DOMAIN toMain[r] /\ Invokes(toMain[r], r, calls)
      /\ i \in DOMAIN calls /\ calls[i].page = r /\ calls[i].peer = 0 /\ calls[i] \in Call
  <2>1. toMain[r] \in Seq(Request) BY PageTypes DEF IInv
  <2>2. 1 \in DOMAIN toMain[r] BY <1>1, <2>1, RestOfQueue
  <2>3. Invokes(toMain[r], r, calls) BY DEF IInv, MailOK
  <2> QED BY <1>1, <2>1, <2>2, <2>3, CallsType DEF Invokes, IInv
<1>4. Registry /\ Billed /\ FlowOK /\ CallsOK BY DEF IInv
<1>5. CASE ~Reachable(r)
  <2>1. /\ calls' = [calls EXCEPT ![i].outcome = "aborted"]
        /\ UNCHANGED <<ledger, sent, jobs, senders, made, coverage>>
    BY <1>1, <1>5
  <2> HIDE DEF i
  <2>2. /\ Registry' /\ PeersOf(Known)' = PeersOf(Known) /\ PeersOf(Subscribed)' = PeersOf(Subscribed)
    <3>1. ledger' \in L!LedgerRecord BY <1>4, <2>1 DEF Registry
    <3> QED BY <1>1, <1>4, <2>1, <3>1, SameSenders
  <2>3. FlowOK' BY <1>1, <2>1 DEF IInv, FlowOK, L!TypeOK, HeldBack, L!totalOutstanding, fixedVars
  <2>4. Billed' BY <2>1, <2>2 DEF IInv, Billed
  <2>5. CallsOK' /\ Unlost /\ Len(calls') = Len(calls) BY <1>1, <1>2, <1>3, <1>4, <2>1, <2>2, Answered
  <2>6. CoverageOK' BY <2>1, <2>2, <2>5 DEF IInv, CoverageOK
  <2>7. MailOK' /\ toMain' \in [Renderers -> Seq(Request)] /\ toPage' \in [Renderers -> Seq(Notice)]
    BY <1>1, <2>5, MailKeeps DEF IInv
  <2>8. PagesOK' BY <1>1, <2>1, <2>7 DEF IInv, PagesOK
  <2> QED BY <2>2, <2>3, <2>4, <2>5, <2>6, <2>7, <2>8 DEF IInv
<1>6. CASE Reachable(r)
  <2>1. /\ p \in Peers /\ Enrolled(r, FALSE) /\ Flow!Commit(m, <<>>)
        /\ calls' = [calls EXCEPT ![i].peer = p]
        /\ coverage' = [coverage EXCEPT ![p] = Asks(@, calls[i].method, i)]
    BY <1>1, <1>6
  <2>2. m = [ledger EXCEPT !.registered = @ \cup {p}] BY DEF getOrCreate
  <2> DEFINE e == [calls[i] EXCEPT !.peer = p]
  <2>3. /\ e \in Call /\ e.page = r /\ e.peer = p /\ e.outcome = calls[i].outcome /\ e.aborted = calls[i].aborted
    BY <1>3, <2>1 DEF Call
  <2>4. calls' = [calls EXCEPT ![i] = e] BY <2>1
  <2> HIDE DEF m, i, p, e
  <2>5. /\ m \in L!LedgerRecord /\ m.registered = ledger.registered \cup {p}
        /\ m.outstanding = ledger.outstanding /\ m.flow = ledger.flow /\ m.episodes = ledger.episodes
        /\ m.resuming = ledger.resuming
    BY <1>4, <2>1, <2>2, EnrolledLedger
  <2>6. Commits(m, <<>>) BY <1>4, <2>1, <2>5 DEF Commits, FlowOK, HeldBack, L!totalOutstanding
  <2>7. FlowOK' BY <1>2, <1>4, <2>6, CommitFlow
  <2>8. /\ ledger' \in L!LedgerRecord /\ ledger'.registered = ledger.registered \cup {p}
        /\ ledger'.outstanding = ledger.outstanding
    BY <1>4, <2>5, <2>6, CommitDoes
  <2>9. /\ Registry' /\ Billed' /\ PeersOf(Known)' = PeersOf(Known) \cup {p} /\ made' >= made /\ p <= made'
        /\ (~Knows(r) => p = made + 1) /\ made \in Nat /\ made' \in Nat /\ p \in Nat /\ p # 0
    <3>1. /\ Registry' /\ Billed' /\ PeersOf(Known)' = PeersOf(Known) \cup {p} /\ made' >= made /\ p <= made'
          /\ ~Knows(r) => p = made + 1
      BY <1>1, <1>4, <1>6, <2>1, <2>8, Enrols DEF p
    <3>2. made \in Peers \cup {0} /\ made' \in Peers \cup {0} BY <1>4, <3>1 DEF Registry
    <3> QED BY <2>1, <3>1, <3>2, PeersCount
  <2>10. p \in PeersOf(Known) \/ p = made + 1 BY <2>9 DEF Token, PeersOf, Known, p
  <2>11. /\ calls' \in Seq(Call) /\ Len(calls') = Len(calls) /\ DOMAIN calls' = DOMAIN calls /\ calls'[i] = e
         /\ \A j \in DOMAIN calls : j # i => calls'[j] = calls[j]
    BY <1>3, <1>4, <2>3, <2>4, CallBecomes
  <2>12. CallsOK'
    <3>1. \A j \in DOMAIN calls : calls[j].peer \in Nat /\ calls[j].peer <= made'
      <4>1. \A j \in DOMAIN calls : calls[j].peer \in Peers \cup {0} BY <1>4, CallsType DEF Call
      <4>2. \A j \in DOMAIN calls : calls[j].peer \in Nat BY <4>1, PeersCount
      <4> QED BY <1>4, <2>9, <4>2 DEF CallsOK
    <3>2. \A j \in DOMAIN calls :
            Running(calls[j]) => (calls[j].aborted <=> calls[j].peer \notin PeersOf(Known)')
      BY <1>4, <2>9, <2>10, EnrolledCalls
    <3>3. ~calls[i].aborted BY <1>3, <1>4 DEF CallsOK
    <3>4. ASSUME NEW j \in DOMAIN calls'
          PROVE  /\ calls'[j].peer <= made' /\ (calls'[j].peer = 0 => ~calls'[j].aborted)
                 /\ Running(calls'[j]) => (calls'[j].aborted <=> calls'[j].peer \notin PeersOf(Known)')
      <4>1. CASE j = i BY <1>3, <2>3, <2>9, <2>11, <3>3, <4>1
      <4>2. CASE j # i
        <5>1. j \in DOMAIN calls /\ calls'[j] = calls[j] BY <2>11, <4>2
        <5> QED BY <1>4, <3>1, <3>2, <5>1 DEF CallsOK
      <4> QED BY <4>1, <4>2
    <3> QED BY <1>1, <1>4, <2>11, <3>4 DEF CallsOK
  <2>13. CoverageOK'
    <3> DEFINE d == Asks(coverage[p], calls[i].method, i)
    <3>1. /\ coverage \in [Peers -> Cover] /\ coverage[p] \in Cover /\ Queued(coverage[p])
          /\ Refers(coverage[p], Len(calls))
      BY <2>1 DEF IInv, CoverageOK
    <3>2. calls[i].method \in {"enable", "disable"} BY <1>3 DEF Call
    <3>3. Len(calls) \in Nat /\ i \in 0..Len(calls) /\ Len(calls) <= MaxEvents
      <4>1. Len(calls) \in Nat /\ i \in 1..Len(calls) BY <1>3, <1>4, CallsType
      <4>2. Len(calls) <= events BY <1>4 DEF CallsOK
      <4>3. events <= MaxEvents /\ MaxEvents \in Nat /\ events \in Nat BY Plain
      <4> QED BY <4>1, <4>2, <4>3
    <3>4. d \in Cover /\ Queued(d) /\ Refers(d, Len(calls)) BY <3>1, <3>2, <3>3, AsksType
    <3>5. coverage' = [coverage EXCEPT ![p] = d] BY <2>1
    <3> HIDE DEF d
    <3>6. coverage' \in [Peers -> Cover] /\ coverage'[p] = d /\ \A q \in Peers : q # p => coverage'[q] = coverage[q]
      BY <2>1, <3>1, <3>4, <3>5
    <3>7. \A q \in Peers \ PeersOf(Known)' : q # p /\ Forgotten(coverage[q]) BY <2>9 DEF IInv, CoverageOK
    <3> QED BY <2>11, <3>4, <3>6, <3>7 DEF IInv, CoverageOK
  <2>14. Progress(calls, calls') BY <1>3, <2>3, <2>11 DEF Progress
  <2>15. /\ toMain' \in [Renderers -> Seq(Request)] /\ toMain'[r] = Tail(toMain[r])
         /\ \A q \in Renderers : q # r => toMain'[q] = toMain[q]
    <3>1. toMain \in [Renderers -> Seq(Request)] BY DEF IInv, PagesOK
    <3> QED BY <1>1, <3>1, TailType
  <2>16. MailOK'
    <3>1. \A q \in Renderers : Replies(toPage[q], calls') BY <2>14, RepliesKeep DEF IInv, MailOK
    <3>2. ASSUME NEW q \in Renderers, q # r PROVE Invokes(toMain[q], q, calls')
      <4>1. Invokes(toMain[q], q, calls) BY DEF IInv, MailOK
      <4>2. \A j \in DOMAIN toMain[q] : toMain[q][j].what = "invoke" => toMain[q][j].n # i
        BY <1>3, <3>2, <4>1 DEF Invokes
      <4> QED BY <2>11, <4>1, <4>2 DEF Invokes
    <3>3. Invokes(Tail(toMain[r]), r, calls')
      <4> DEFINE s == toMain[r]  t == Tail(toMain[r])
      <4>1. \A j \in DOMAIN t : j + 1 \in DOMAIN s /\ t[j] = s[j + 1] /\ j \in Nat /\ j # 0
        <5>1. t \in Seq(Request) /\ \A j \in DOMAIN t : j + 1 \in DOMAIN s /\ t[j] = s[j + 1]
          BY <1>1, <1>3, RestOfQueue
        <5>2. DOMAIN t = 1..Len(t) /\ Len(t) \in Nat BY <5>1
        <5> QED BY <5>1, <5>2
      <4> HIDE DEF t
      <4>2. Invokes(t, r, calls) BY <1>1, <1>3, InvokesTail DEF t
      <4>3. \A j \in DOMAIN t : t[j].what = "invoke" => t[j].n # i
        <5>1. ASSUME NEW j \in DOMAIN t, t[j].what = "invoke" PROVE t[j].n # i
          <6>1. j + 1 \in DOMAIN s /\ j + 1 # 1 /\ t[j] = s[j + 1] BY <4>1
          <6> QED BY <1>1, <1>3, <5>1, <6>1 DEF Invokes, i
        <5> QED BY <5>1
      <4>4. Invokes(t, r, calls') BY <2>11, <4>2, <4>3 DEF Invokes
      <4> QED BY <4>4 DEF t
    <3> QED BY <1>1, <2>15, <3>1, <3>2, <3>3 DEF MailOK
  <2>17. PagesOK' BY <1>1, <2>15 DEF IInv, PagesOK
  <2> QED BY <2>7, <2>9, <2>12, <2>13, <2>16, <2>17 DEF IInv
<1> QED BY <1>5, <1>6

-----------------------------------------------------------------------------
(* One step: output, tmux and the connection *)

LEMMA writeLedger ==
  ASSUME Registry, FlowOK, NEW S \in SUBSET Known, NEW m, m = LedgerBilling(S), Flow!Commit(m, jobs)
  PROVE  /\ Commits(m, jobs) /\ Billing(m, S, made) /\ Gone(S, made) = PeersOf(S)
<1>1. ledger \in L!LedgerRecord /\ ledger.issued = <<>> BY LedgerNow DEF FlowOK
<1>2. Billing(m, S, made) /\ Gone(S, made) = PeersOf(S) BY <1>1, BillingAll
<1>3. /\ L!totalOutstanding(m) \in Nat /\ L!totalOutstanding(ledger) \in Nat /\ Low \in Nat
      /\ ledger.flow \in Nat /\ ledger.episodes \in Nat
  BY <1>1, <1>2, RecordTypes, BridgeAssumption DEF Billing
<1>4. m.flow <= m.episodes /\ HeldBack(m)
  <2>1. CASE m.flow = ledger.flow /\ m.episodes = ledger.episodes
    BY <1>2, <1>3, <2>1 DEF Billing, HeldBack, FlowOK
  <2>2. CASE m.flow = ledger.episodes + 1 /\ m.episodes = ledger.episodes + 1 /\ L!totalOutstanding(m) > Low
    BY <1>3, <2>2 DEF HeldBack
  <2> QED BY <1>2, <2>1, <2>2 DEF Billing
<1> QED BY <1>2, <1>4 DEF Commits, Billing

LEMMA writeKeeps ==
  ASSUME IInv, write
  PROVE  IInv'
<1> DEFINE S == {r \in Subscribed : Alive(r)}  m == LedgerBilling(S)
           out(r) == Message("output", senders[r].peer)
<1>1. /\ inbox # <<>> /\ inbox' = Tail(inbox) /\ Flow!Commit(m, jobs) /\ draining' = FALSE
      /\ toPage' = [r \in Renderers |-> IF r \in S THEN Append(toPage[r], out(r)) ELSE toPage[r]]
      /\ UNCHANGED <<events, disposed, tmuxPaused, live, fixedVars, senders, made, coverage, told, refused,
                     wc, proxy, toMain, calls>>
  BY DEF write, Flow!Reading, mainVars, pageVars
<1>2. Undisturbed /\ events \in Nat
  <2>1. disposed \in BOOLEAN /\ events \in Nat BY Plain
  <2> QED BY <1>1, <2>1 DEF Undisturbed
<1>3. Registry /\ Billed /\ FlowOK /\ CallsOK BY DEF IInv
<1>4. S \in SUBSET Known BY <1>3 DEF Registry
<1> HIDE DEF m, S
<1>5. Commits(m, jobs) /\ Billing(m, S, made) /\ Gone(S, made) = PeersOf(S)
  BY <1>1, <1>3, <1>4, writeLedger DEF m
<1>6. FlowOK' BY <1>2, <1>3, <1>5, CommitFlow
<1>7. /\ ledger' \in L!LedgerRecord /\ ledger'.registered = m.registered /\ ledger'.outstanding = m.outstanding
  BY <1>3, <1>5, CommitDoes
<1>8. /\ Registry' /\ PeersOf(Known)' = PeersOf(Known) /\ PeersOf(Subscribed)' = PeersOf(Subscribed)
  <2>1. ledger'.registered = ledger.registered BY <1>5, <1>7 DEF Billing
  <2> QED BY <1>1, <1>3, <1>7, <2>1, SameSenders
<1>9. Billed'
  <2>1. PeersOf(S) \subseteq PeersOf(Subscribed) BY DEF PeersOf, S
  <2>2. \A p \in Peers \ PeersOf(Subscribed) : ledger'.outstanding[p] = 0
    BY <1>3, <1>5, <1>7, <2>1 DEF Billing, Billed
  <2> QED BY <1>8, <2>2 DEF Billed
<1>10. CallsOK' BY <1>1, <1>8 DEF IInv, CallsOK
<1>11. CoverageOK' BY <1>1, <1>8 DEF IInv, CoverageOK
<1>12. toPage' \in [Renderers -> Seq(Notice)] /\ \A r \in Renderers : Replies(toPage'[r], calls)
  <2>1. ASSUME NEW r \in Renderers, r \in S PROVE out(r) \in Notice /\ out(r).what # "reply"
    <3>1. senders[r].peer \in Nat BY <1>3, <1>4, <2>1, Tokens
    <3> QED BY <3>1 DEF Message, Notice
  <2>2. toPage \in [Renderers -> Seq(Notice)] /\ \A r \in Renderers : Replies(toPage[r], calls)
    BY DEF IInv, PagesOK, MailOK
  <2> HIDE DEF out
  <2>3. ASSUME NEW r \in Renderers, r \in S
        PROVE  Append(toPage[r], out(r)) \in Seq(Notice) /\ Replies(Append(toPage[r], out(r)), calls)
    <3>1. toPage[r] \in Seq(Notice) /\ out(r) \in Notice /\ out(r).what # "reply" BY <2>1, <2>2, <2>3
    <3>2. Append(toPage[r], out(r)) \in Seq(Notice) BY <3>1
    <3> QED BY <2>2, <3>1, <3>2, RepliesPost
  <2> QED BY <1>1, <2>2, <2>3
<1>13. MailOK' BY <1>1, <1>12 DEF IInv, MailOK
<1>14. PagesOK' BY <1>1, <1>12 DEF IInv, PagesOK
<1> QED BY <1>6, <1>8, <1>9, <1>10, <1>11, <1>13, <1>14 DEF IInv

(* The ledger, or what the pane of it forgets, and nothing but the flow.   *)
FlowOnly ==
  /\ UNCHANGED <<disposed, senders, made, coverage, told, refused, wc, proxy, toMain, toPage, calls>>
  /\ ledger' = ledger
     \/ (/\ ledger' \in L!LedgerRecord /\ ledger'.registered = ledger.registered
         /\ ledger'.outstanding = ledger.outstanding)
  /\ events' \in 0..MaxEvents /\ events' >= events

LEMMA FlowOnlyKeeps ==
  ASSUME IInv, FlowOnly, FlowOK'
  PROVE  IInv'
<1>1. /\ UNCHANGED <<disposed, senders, made, coverage, told, refused, wc, proxy, toMain, toPage, calls>>
      /\ events' \in 0..MaxEvents /\ events' >= events
      /\ ledger' \in L!LedgerRecord /\ ledger'.registered = ledger.registered
      /\ ledger'.outstanding = ledger.outstanding
  BY DEF FlowOnly, IInv, Registry
<1>2. /\ Registry' /\ PeersOf(Known)' = PeersOf(Known) /\ PeersOf(Subscribed)' = PeersOf(Subscribed)
  BY <1>1, SameSenders DEF IInv
<1>3. Billed' BY <1>1, <1>2 DEF IInv, Billed
<1>4. CallsOK'
  <2>1. Len(calls) <= events'
    <3>1. events \in Nat /\ events' \in Nat /\ Len(calls) \in Nat BY <1>1, Plain, CallsType DEF IInv
    <3> QED BY <1>1, <3>1 DEF IInv, CallsOK
  <2> QED BY <1>1, <1>2, <2>1 DEF IInv, CallsOK
<1>5. CoverageOK' BY <1>1, <1>2 DEF IInv, CoverageOK
<1>6. MailOK' BY <1>1 DEF IInv, MailOK
<1>7. PagesOK' BY <1>1 DEF IInv, PagesOK
<1> QED BY <1>2, <1>3, <1>4, <1>5, <1>6, <1>7 DEF IInv

Note == [reply : BOOLEAN, ok : BOOLEAN, of : L!Command]

LEMMA FlowTypes ==
  ASSUME FlowOK
  PROVE  /\ inbox \in Seq(Note) /\ sent \in Seq(L!Command) /\ jobs \in Seq(L!Settlement)
         /\ tmuxPaused \in BOOLEAN /\ written \in 0..MaxEvents
         /\ \A i \in DOMAIN inbox : inbox[i].ok
         /\ \A i \in DOMAIN jobs : jobs[i].outcome # "refused"
BY DEF FlowOK, L!TypeOK, Note, L!Settlement

LEMMA FlowParts ==
  ASSUME FlowOK, UNCHANGED <<ledger, disposed, live, due, refusals, reported>>,
         inbox' \in Seq(Note), sent' \in Seq(L!Command), jobs' \in Seq(L!Settlement),
         tmuxPaused' \in BOOLEAN, written' \in 0..MaxEvents, draining' \in BOOLEAN, moot' \in BOOLEAN,
         \A i \in DOMAIN inbox' : inbox'[i].ok,
         \A i \in DOMAIN jobs' : jobs'[i].outcome # "refused"
  PROVE  FlowOK'
BY DEF FlowOK, L!TypeOK, Note, L!Settlement, HeldBack, L!totalOutstanding

LEMMA PutNote ==
  ASSUME FlowOK, NEW c \in L!Command, NEW reply \in BOOLEAN, Flow!Put(reply, TRUE, c)
  PROVE  /\ inbox' \in Seq(Note) /\ \A i \in DOMAIN inbox' : inbox'[i].ok
         /\ inbox' = Append(inbox, [reply |-> reply, ok |-> TRUE, of |-> c])
<1> DEFINE n == [reply |-> reply, ok |-> TRUE, of |-> c]
<1>1. n \in Note /\ n.ok BY DEF Note
<1>2. inbox' = Append(inbox, n) BY DEF Flow!Put
<1>3. inbox \in Seq(Note) /\ \A i \in DOMAIN inbox : inbox[i].ok BY FlowTypes
<1> HIDE DEF n
<1>4. /\ Append(inbox, n) \in Seq(Note) /\ DOMAIN Append(inbox, n) = (DOMAIN inbox) \cup {Len(inbox) + 1}
      /\ Append(inbox, n)[Len(inbox) + 1] = n
      /\ \A i \in DOMAIN inbox : Append(inbox, n)[i] = inbox[i]
  BY <1>1, <1>3, LongerBox
<1> QED BY <1>1, <1>2, <1>3, <1>4 DEF n

LEMMA ExecuteDoes ==
  ASSUME FlowOK, Flow!TmuxExecute
  PROVE  /\ live /\ sent # <<>> /\ sent[1] \in L!Command
         /\ sent' = Tail(sent) /\ tmuxPaused' = (sent[1].action = "pause")
         /\ inbox' = Append(inbox, [reply |-> TRUE, ok |-> TRUE, of |-> sent[1]])
         /\ UNCHANGED <<ledger, disposed, live, due, jobs, draining, written, refusals, reported, moot>>
         /\ FlowOK'
<1>1. refusals = 0 BY DEF FlowOK
<1>2. /\ live /\ sent # <<>> /\ sent' = Tail(sent) /\ tmuxPaused' = (sent[1].action = "pause")
      /\ Flow!Put(TRUE, TRUE, sent[1])
      /\ UNCHANGED <<ledger, disposed, live, due, jobs, draining, written, refusals, reported, moot>>
  <2>1. /\ live /\ sent # <<>> /\ sent' = Tail(sent)
        /\ \/ tmuxPaused' = (sent[1].action = "pause") /\ Flow!Put(TRUE, TRUE, sent[1]) /\ UNCHANGED refusals
           \/ refusals < 0
        /\ UNCHANGED <<ledger, disposed, live, due, jobs, draining, written, reported, moot>>
    BY DEF Flow!TmuxExecute
  <2>2. ~(refusals < 0) BY <1>1
  <2> QED BY <2>1, <2>2
<1>3. sent \in Seq(L!Command) BY FlowTypes
<1>4. Tail(sent) \in Seq(L!Command) /\ sent[1] \in L!Command BY <1>2, <1>3, RestOfQueue
<1>5. /\ inbox' \in Seq(Note) /\ \A i \in DOMAIN inbox' : inbox'[i].ok
      /\ inbox' = Append(inbox, [reply |-> TRUE, ok |-> TRUE, of |-> sent[1]])
  BY <1>2, <1>4, PutNote
<1>6. tmuxPaused' \in BOOLEAN BY <1>2
<1>7. draining \in BOOLEAN /\ moot \in BOOLEAN BY DEF FlowOK, L!TypeOK
<1>8. FlowOK' BY <1>2, <1>4, <1>5, <1>6, <1>7, FlowTypes, FlowParts
<1> QED BY <1>2, <1>4, <1>5, <1>8

LEMMA OutputDoes ==
  ASSUME FlowOK, Flow!TmuxOutput
  PROVE  /\ live /\ ~tmuxPaused /\ inbox' = Append(inbox, [reply |-> FALSE, ok |-> TRUE, of |-> Flow!NoCommand])
         /\ UNCHANGED <<ledger, disposed, sent, tmuxPaused, live, due, jobs, draining, refusals, reported, moot>>
         /\ Flow!NoCommand \in L!Command /\ ~L!LoopContinue(Flow!NoCommand) /\ Flow!NoCommand.episode = 0
         /\ FlowOK'
<1>1. /\ live /\ ~tmuxPaused /\ written < MaxEvents /\ written' = written + 1
      /\ Flow!Put(FALSE, TRUE, Flow!NoCommand)
      /\ UNCHANGED <<ledger, disposed, sent, tmuxPaused, live, due, jobs, draining, refusals, reported, moot>>
  BY DEF Flow!TmuxOutput
<1>2. Flow!NoCommand \in L!Command /\ ~L!LoopContinue(Flow!NoCommand) /\ Flow!NoCommand.episode = 0
  BY DEF Flow!NoCommand, L!Command, L!LoopContinue
<1>3. /\ inbox' \in Seq(Note) /\ \A i \in DOMAIN inbox' : inbox'[i].ok
      /\ inbox' = Append(inbox, [reply |-> FALSE, ok |-> TRUE, of |-> Flow!NoCommand])
  BY <1>1, <1>2, PutNote
<1>4. written' \in 0..MaxEvents
  <2>1. written \in 0..MaxEvents /\ MaxEvents \in Nat BY FlowTypes, BridgeAssumption
  <2> QED BY <1>1, <2>1
<1>5. draining \in BOOLEAN /\ moot \in BOOLEAN BY DEF FlowOK, L!TypeOK
<1>6. FlowOK' BY <1>1, <1>3, <1>4, <1>5, FlowTypes, FlowParts
<1> QED BY <1>1, <1>2, <1>3, <1>6

LEMMA ReplyDoes ==
  ASSUME FlowOK, Flow!ReceiveReply
  PROVE  /\ live /\ inbox # <<>> /\ inbox[1] \in Note /\ inbox[1].reply /\ inbox' = Tail(inbox)
         /\ jobs' = IF L!LoopContinue(inbox[1].of)
                      THEN Append(jobs, [episode |-> inbox[1].of.episode, outcome |-> "ok"]) ELSE jobs
         /\ UNCHANGED <<ledger, disposed, sent, tmuxPaused, live, due, written, refusals, reported>>
         /\ FlowOK'
<1>1. /\ live /\ inbox # <<>> /\ inbox[1].reply /\ inbox' = Tail(inbox) /\ draining' = FALSE
      /\ jobs' = IF L!LoopContinue(inbox[1].of)
                   THEN Append(jobs, [episode |-> inbox[1].of.episode,
                                      outcome |-> IF inbox[1].ok THEN "ok" ELSE "refused"])
                   ELSE jobs
      /\ moot' = (moot \/ (inbox[1].of.flush /\ ~inbox[1].ok))
      /\ UNCHANGED <<ledger, disposed, sent, tmuxPaused, live, due, written, refusals, reported>>
  BY DEF Flow!ReceiveReply, Flow!Reading, Flow!LoopContinue, L!LoopContinue
<1>2. inbox \in Seq(Note) /\ \A i \in DOMAIN inbox : inbox[i].ok BY FlowTypes
<1>3. /\ Tail(inbox) \in Seq(Note) /\ inbox[1] \in Note /\ 1 \in DOMAIN inbox
      /\ \A i \in DOMAIN Tail(inbox) : i + 1 \in DOMAIN inbox /\ Tail(inbox)[i] = inbox[i + 1]
  BY <1>1, <1>2, RestOfQueue
<1>4. inbox[1].ok /\ inbox[1].of \in L!Command BY <1>2, <1>3 DEF Note
<1> DEFINE j == [episode |-> inbox[1].of.episode, outcome |-> "ok"]
<1>5. jobs' = IF L!LoopContinue(inbox[1].of) THEN Append(jobs, j) ELSE jobs BY <1>1, <1>4
<1>6. j \in L!Settlement /\ j.outcome # "refused" BY <1>4 DEF L!Command, L!Settlement
<1>7. jobs' \in Seq(L!Settlement) /\ \A i \in DOMAIN jobs' : jobs'[i].outcome # "refused"
  <2>1. jobs \in Seq(L!Settlement) /\ \A i \in DOMAIN jobs : jobs[i].outcome # "refused" BY FlowTypes
  <2> HIDE DEF j
  <2>2. /\ Append(jobs, j) \in Seq(L!Settlement) /\ DOMAIN Append(jobs, j) = (DOMAIN jobs) \cup {Len(jobs) + 1}
        /\ Append(jobs, j)[Len(jobs) + 1] = j
        /\ \A i \in DOMAIN jobs : Append(jobs, j)[i] = jobs[i]
    BY <1>6, <2>1, LongerBox
  <2> QED BY <1>5, <1>6, <2>1, <2>2
<1>8. moot' \in BOOLEAN /\ draining' \in BOOLEAN BY <1>1
<1>9. \A i \in DOMAIN inbox' : inbox'[i].ok BY <1>1, <1>2, <1>3
<1>10. FlowOK' BY <1>1, <1>3, <1>7, <1>8, <1>9, FlowTypes, FlowParts
<1> QED BY <1>1, <1>3, <1>5, <1>10

LEMMA LostDoes ==
  ASSUME FlowOK, Flow!Disconnect
  PROVE  /\ ~live' /\ UNCHANGED <<ledger, disposed>> /\ FlowOK'
<1> DEFINE replied == [i \in DOMAIN inbox |-> inbox[i].of]  U == replied \o sent
<1>1. /\ live' = FALSE /\ jobs' = L!Rejected(U) /\ sent' = <<>> /\ inbox' = <<>> /\ draining' = FALSE
      /\ UNCHANGED <<ledger, disposed, tmuxPaused, due, written, refusals, reported, moot>>
  BY Zenon DEF Flow!Disconnect, Flow!Unanswered, Flow!Rejected, L!Rejected, Flow!LoopContinues, L!LoopContinues,
         Flow!LoopContinue, L!LoopContinue
<1>2. U \in Seq(L!Command)
  <2>1. inbox \in Seq(Note) /\ sent \in Seq(L!Command) BY FlowTypes
  <2>2. \A i \in DOMAIN inbox : inbox[i] \in Note
    <3> HIDE DEF Note
    <3> QED BY <2>1, ElementOfSeq
  <2>3. replied \in [DOMAIN inbox -> L!Command] BY <2>2 DEF Note
  <2>4. Len(inbox) \in Nat /\ DOMAIN inbox = 1..Len(inbox) BY <2>1
  <2>5. replied \in Seq(L!Command)
    <3> HIDE DEF replied
    <3>1. replied \in [1..Len(inbox) -> L!Command] BY <2>3, <2>4
    <3> QED BY <2>4, <3>1, IsASeq
  <2> HIDE DEF replied
  <2> QED BY <2>1, <2>5, ConcatProperties
<1> HIDE DEF U
<1>3. jobs' \in Seq(L!Settlement) /\ \A i \in DOMAIN jobs' : jobs'[i].outcome # "refused"
  <2>1. L!Rejected(U) \in Seq(L!Settlement)
        /\ \A i \in DOMAIN L!Rejected(U) : L!Rejected(U)[i].outcome = "gone"
    BY <1>2, LedgerAssumptions, L!RejectedCount
  <2> QED BY <1>1, <2>1
<1>4. sent' \in Seq(L!Command) /\ inbox' \in Seq(Note) /\ \A i \in DOMAIN inbox' : inbox'[i].ok BY <1>1
<1>5. FlowOK' BY <1>1, <1>3, <1>4 DEF FlowOK, L!TypeOK, Note, L!Settlement, HeldBack, L!totalOutstanding
<1> QED BY <1>1, <1>5

(* Without a refusal, every Continue that comes back ends its own episode. *)
LEMMA JobDoes ==
  ASSUME FlowOK, Flow!Job
  PROVE  /\ jobs # <<>> /\ jobs[1] \in L!Settlement /\ jobs' = Tail(jobs)
         /\ IF ledger.flow = jobs[1].episode THEN ledger'.flow = 0 /\ ~ledger'.resuming ELSE ledger' = ledger
         /\ ledger' \in L!LedgerRecord /\ ledger'.registered = ledger.registered
         /\ ledger'.outstanding = ledger.outstanding /\ ledger'.episodes = ledger.episodes
         /\ UNCHANGED <<disposed, sent, inbox, tmuxPaused, live, due, written, refusals>>
         /\ FlowOK'
<1>1. jobs \in Seq(L!Settlement) /\ \A i \in DOMAIN jobs : jobs[i].outcome # "refused" BY FlowTypes
<1>2. jobs # <<>> /\ jobs' = Tail(jobs) /\ draining' = TRUE
      /\ UNCHANGED <<disposed, sent, inbox, tmuxPaused, live, due, written, refusals>>
  BY DEF Flow!Job
<1>3. /\ Tail(jobs) \in Seq(L!Settlement) /\ jobs[1] \in L!Settlement /\ 1 \in DOMAIN jobs
      /\ \A i \in DOMAIN Tail(jobs) : i + 1 \in DOMAIN jobs /\ Tail(jobs)[i] = jobs[i + 1]
  BY <1>1, <1>2, RestOfQueue
<1>4. jobs[1].outcome # "refused" BY <1>1, <1>3
<1>5. reported' = reported /\ moot' = moot BY <1>4 DEF Flow!Job, FlowOK, L!TypeOK
<1>6. ledger \in L!LedgerRecord /\ ledger.issued = <<>> BY LedgerNow DEF FlowOK
<1>7. ledger' = IF ledger.flow # jobs[1].episode THEN ledger ELSE L!Drop(ledger)
  BY <1>4 DEF Flow!Job, Flow!Settled, Flow!Drop, L!Drop
<1>8. LET d == L!Drop(ledger) IN
      /\ d \in L!LedgerRecord /\ d.registered = ledger.registered /\ d.outstanding = ledger.outstanding
      /\ d.episodes = ledger.episodes /\ d.issued = ledger.issued /\ d.flow = 0 /\ ~d.resuming
  BY <1>6, LedgerAssumptions, L!DropDoes
<1>9. /\ IF ledger.flow = jobs[1].episode THEN ledger'.flow = 0 /\ ~ledger'.resuming ELSE ledger' = ledger
      /\ ledger' \in L!LedgerRecord /\ ledger'.registered = ledger.registered
      /\ ledger'.outstanding = ledger.outstanding /\ ledger'.episodes = ledger.episodes /\ ledger'.issued = <<>>
  <2>1. CASE ledger.flow = jobs[1].episode BY <1>6, <1>7, <1>8, <2>1
  <2>2. CASE ledger.flow # jobs[1].episode BY <1>6, <1>7, <2>2
  <2> QED BY <2>1, <2>2
<1>10. FlowOK'
  <2>1. ledger' \in [registered : SUBSET Peers, outstanding : [Peers -> Nat],
                    flow : Nat, resuming : BOOLEAN, episodes : Nat, issued : {<<>>}]
    BY <1>9 DEF L!LedgerRecord
  <2>2. ledger'.flow <= ledger'.episodes /\ HeldBack(ledger')
    <3>1. ledger.episodes \in Nat BY <1>6, RecordTypes
    <3>2. CASE ledger.flow = jobs[1].episode BY <1>9, <3>1, <3>2 DEF HeldBack
    <3>3. CASE ledger.flow # jobs[1].episode BY <1>9, <3>3 DEF FlowOK
    <3> QED BY <3>2, <3>3
  <2>3. jobs' \in Seq(L!Settlement) /\ \A i \in DOMAIN jobs' : jobs'[i].outcome # "refused"
    BY <1>1, <1>2, <1>3
  <2>4. L!TypeOK' BY <1>2, <1>5, <2>1, <2>3 DEF FlowOK, L!TypeOK, L!Settlement
  <2> QED BY <1>2, <1>5, <2>2, <2>3, <2>4 DEF FlowOK
<1> QED BY <1>2, <1>3, <1>9, <1>10

LEMMA tmuxKeeps ==
  ASSUME IInv, tmux, UNCHANGED bridgeVars
  PROVE  IInv'
<1>1. FlowOK /\ events \in Nat /\ events \in 0..MaxEvents BY Plain DEF IInv, PagesOK
<1>2. FlowOK' /\ UNCHANGED <<ledger, disposed>> /\ events' \in 0..MaxEvents /\ events' >= events
  <2>1. CASE Unasked /\ Flow!TmuxOutput BY <1>1, <2>1, OutputDoes, UnaskedOnce
  <2>2. CASE UNCHANGED events /\ Flow!TmuxExecute BY <1>1, <2>2, ExecuteDoes
  <2> QED BY <2>1, <2>2 DEF tmux
<1>3. FlowOnly BY <1>2 DEF FlowOnly, bridgeVars, mainVars, pageVars
<1> QED BY <1>2, <1>3, FlowOnlyKeeps

LEMMA AnswerKeeps ==
  ASSUME IInv, Reply, UNCHANGED bridgeVars
  PROVE  IInv'
<1>1. FlowOK /\ events \in Nat /\ events \in 0..MaxEvents BY Plain DEF IInv, PagesOK
<1>2. UNCHANGED events /\ Flow!ReceiveReply BY DEF Reply
<1>3. FlowOK' /\ UNCHANGED <<ledger, disposed>> BY <1>1, <1>2, ReplyDoes
<1>4. FlowOnly BY <1>1, <1>2, <1>3 DEF FlowOnly, bridgeVars, mainVars, pageVars
<1> QED BY <1>3, <1>4, FlowOnlyKeeps

LEMMA ConnectionLostKeeps ==
  ASSUME IInv, ConnectionLost, UNCHANGED bridgeVars
  PROVE  IInv'
<1>1. FlowOK BY DEF IInv
<1>2. Unasked /\ Flow!Disconnect BY DEF ConnectionLost
<1>3. FlowOK' /\ UNCHANGED <<ledger, disposed>> BY <1>1, <1>2, LostDoes
<1>4. events' \in 0..MaxEvents /\ events' >= events BY <1>2, UnaskedOnce
<1>5. FlowOnly BY <1>3, <1>4 DEF FlowOnly, bridgeVars, mainVars, pageVars
<1> QED BY <1>3, <1>5, FlowOnlyKeeps

LEMMA ContinuationKeeps ==
  ASSUME IInv, Continuation, UNCHANGED bridgeVars
  PROVE  IInv'
<1>1. FlowOK /\ events \in Nat /\ events \in 0..MaxEvents BY Plain DEF IInv, PagesOK
<1>2. UNCHANGED events /\ Flow!Job BY DEF Continuation
<1>3. /\ FlowOK' /\ UNCHANGED disposed /\ ledger' \in L!LedgerRecord
      /\ ledger'.registered = ledger.registered /\ ledger'.outstanding = ledger.outstanding
  BY <1>1, <1>2, JobDoes
<1>4. FlowOnly BY <1>1, <1>2, <1>3 DEF FlowOnly, bridgeVars, mainVars, pageVars
<1> QED BY <1>3, <1>4, FlowOnlyKeeps

LEMMA NothingKeeps ==
  ASSUME IInv, UNCHANGED vars
  PROVE  IInv'
<1>1. UNCHANGED <<ledger, disposed, sent, inbox, tmuxPaused, live, jobs, draining, due, written,
                  refusals, reported, moot, senders, made, coverage, told, refused, wc, proxy, toMain, toPage,
                  calls, events>>
  BY DEF vars, flowVars, fixedVars, mainVars, pageVars
<1>2. FlowOK' BY <1>1 DEF IInv, FlowOK, L!TypeOK, HeldBack, L!totalOutstanding
<1>3. events \in 0..MaxEvents /\ events' >= events
  <2>1. events \in Nat /\ events \in 0..MaxEvents BY Plain DEF IInv, PagesOK
  <2> QED BY <1>1, <2>1
<1>4. FlowOnly BY <1>1, <1>3 DEF FlowOnly
<1> QED BY <1>2, <1>4, FlowOnlyKeeps

-----------------------------------------------------------------------------
(* The theorem *)

LEMMA InitHolds ==
  ASSUME Init
  PROVE  IInv
<1>1. IsFiniteSet(Peers) /\ Batch \in Nat \ {0} /\ MaxEvents \in Nat /\ MaxRefusals \in Nat /\ Suppress \in BOOLEAN
  BY BridgeAssumption
<1>2. \A r \in Renderers : senders[r].peer = 0 /\ ~senders[r].subscribed BY DEF Init
<1>3. Known = {} /\ Subscribed = {} BY <1>2 DEF Known, Knows, Subscribed
<1>4. PeersOf(Known) = {} /\ PeersOf(Subscribed) = {} BY <1>3 DEF PeersOf
<1>5. PagesOK
  <2>1. <<>> \in Seq(Request) /\ <<>> \in Seq(Notice) OBVIOUS
  <2>2. 0 \in 0..(Batch - 1) BY <1>1
  <2>3. toMain \in [Renderers -> Seq(Request)] /\ toPage \in [Renderers -> Seq(Notice)]
    <3> HIDE DEF Request, Notice
    <3> QED BY <2>1 DEF Init
  <2>4. /\ wc \in [Renderers -> {"alive", "destroyed", "gone"}]
        /\ proxy \in [Renderers -> [open : BOOLEAN, state : {"none", "connecting", "ready", "closed"},
                                     pending : 0..(Batch - 1)]]
    BY <2>2 DEF Init
  <2>5. events = 0 /\ refused = 0 /\ told = FALSE BY DEF Init
  <2>6. events \in 0..MaxEvents /\ refused \in 0..MaxRefusals
    <3>1. MaxEvents \in Nat /\ MaxRefusals \in Nat /\ events = 0 /\ refused = 0 BY <1>1, <2>5
    <3> QED BY <3>1
  <2>7. told \in BOOLEAN BY <2>5
  <2> QED BY <2>3, <2>4, <2>6, <2>7 DEF PagesOK
<1>6. FlowOK
  <2>1. ledger.flow = 0 /\ ledger.episodes = 0 /\ ledger.resuming = FALSE BY DEF Init
  <2>2. L!TypeOK
    <3>1. /\ sent = <<>> /\ inbox = <<>> /\ jobs = <<>> /\ due = {} /\ reported = {} /\ written = 0 /\ refusals = 0
          /\ disposed = FALSE /\ live = TRUE /\ tmuxPaused = Suppress /\ draining = FALSE /\ moot = FALSE
      BY DEF Init
    <3>2. ledger \in [registered : SUBSET Peers, outstanding : [Peers -> Nat],
                      flow : Nat, resuming : BOOLEAN, episodes : Nat, issued : {<<>>}]
      BY DEF Init
    <3>3. sent \in Seq(L!Command) /\ inbox \in Seq([reply : BOOLEAN, ok : BOOLEAN, of : L!Command])
          /\ jobs \in Seq(L!Settlement)
      <4> HIDE DEF L!Command, L!Settlement
      <4> QED BY <3>1
    <3>4. due \subseteq ledger.registered /\ reported \subseteq 1..ledger.episodes BY <3>1
    <3>5. written \in 0..MaxEvents /\ refusals \in 0..0 BY <1>1, <3>1
    <3>6. disposed \in BOOLEAN /\ live \in BOOLEAN /\ draining \in BOOLEAN /\ moot \in BOOLEAN BY <3>1
    <3>7. tmuxPaused \in BOOLEAN BY <1>1, <3>1
    <3> QED BY <3>2, <3>3, <3>4, <3>5, <3>6, <3>7 DEF L!TypeOK, L!Settlement
  <2>3. \A i \in DOMAIN inbox : inbox[i].ok BY DEF Init
  <2>4. \A i \in DOMAIN jobs : jobs[i].outcome # "refused" BY DEF Init
  <2> QED BY <2>1, <2>2, <2>3, <2>4 DEF Init, FlowOK, HeldBack
<1>7. Registry BY <1>1, <1>2, <1>3, <1>4, <1>6, LedgerNow DEF Init, Registry, FlowOK, Knows
<1>8. Billed BY DEF Billed, Init
<1>9. CallsOK BY DEF Init, CallsOK
<1>10. MailOK BY DEF Init, MailOK, Invokes, Replies
<1>11. CoverageOK
  <2>1. <<>> \in Seq(Step) /\ 0 \in Nat OBVIOUS
  <2>2. \A p \in Peers : coverage[p] = [count |-> 0, held |-> FALSE, awaits |-> "nothing", steps |-> <<>>]
    BY DEF Init
  <2>3. coverage \in [Peers -> Cover] BY <2>1 DEF Init, Cover
  <2> QED BY <2>2, <2>3 DEF CoverageOK, Queued, Refers, Forgotten
<1> QED BY <1>5, <1>6, <1>7, <1>8, <1>9, <1>10, <1>11 DEF IInv

LEMMA StepKeeps ==
  ASSUME IInv, [Next]_vars
  PROVE  IInv'
<1>1. CASE \E r \in Renderers : createRendererBridge(r) BY <1>1, createRendererBridgeKeeps
<1>2. CASE \E r \in Renderers : close(r) BY <1>2, closeKeeps
<1>3. CASE \E r \in Renderers, method \in {"enable", "disable"} : invoke(r, method) BY <1>3, invokeKeeps
<1>4. CASE \E i \in DOMAIN calls : withTimeout(i) BY <1>4, withTimeoutKeeps
<1>5. CASE \E r \in Renderers : onOutput(r) BY <1>5, onOutputKeeps
<1>6. CASE \E r \in Renderers : onConnectionState(r) BY <1>6, onConnectionStateKeeps
<1>7. CASE \E r \in Renderers : onReply(r) BY <1>7, onReplyKeeps
<1>8. CASE \E r \in Renderers : Destroy(r) BY <1>8, DestroyKeeps
<1>9. CASE \E r \in Renderers : register(r) BY <1>9, registerKeeps
<1>10. CASE \E r \in Renderers : unregister(r) BY <1>10, unregisterKeeps
<1>11. CASE \E r \in Renderers : ack(r) BY <1>11, ackKeeps
<1>12. CASE \E r \in Renderers : onDestroyed(r) BY <1>12, onDestroyedKeeps
<1>13. CASE broadcast BY <1>13, broadcastKeeps
<1>14. CASE broadcastClosed BY <1>14, broadcastClosedKeeps
<1>15. CASE dispose BY <1>15, disposeKeeps
<1>16. CASE \E r \in Renderers : handle(r) BY <1>16, handleKeeps
<1>17. CASE \E r \in Renderers : Unheard(r) BY <1>17, UnheardKeeps
<1>18. CASE \E p \in Peers : reconcile(p) BY <1>18, reconcileKeeps
<1>19. CASE \E p \in Peers : RelayAnswers(p) BY <1>19, RelayAnswersKeeps
<1>20. CASE write BY <1>20, writeKeeps
<1>21. CASE tmux /\ UNCHANGED bridgeVars BY <1>21, tmuxKeeps
<1>22. CASE Reply /\ UNCHANGED bridgeVars BY <1>22, AnswerKeeps
<1>23. CASE ConnectionLost /\ UNCHANGED bridgeVars BY <1>23, ConnectionLostKeeps
<1>24. CASE Continuation /\ UNCHANGED bridgeVars BY <1>24, ContinuationKeeps
<1>25. CASE UNCHANGED vars BY <1>25, NothingKeeps
<1> QED
  BY <1>1, <1>2, <1>3, <1>4, <1>5, <1>6, <1>7, <1>8, <1>9, <1>10, <1>11, <1>12, <1>13, <1>14, <1>15,
     <1>16, <1>17, <1>18, <1>19, <1>20, <1>21, <1>22, <1>23, <1>24, <1>25 DEF Next

(* Nothing survives a renderer, in any number of them and through any      *)
(* order of their messages, destructions and calls: the registry, the      *)
(* ledger and the coverage forget a sender that was torn down              *)
(* (sender-registry.ts), and a WebContents that is gone has none at rest.  *)
THEOREM NothingSurvives == Spec => []GoneIsForgotten
<1>1. Init => IInv BY InitHolds
<1>2. IInv /\ [Next]_vars => IInv' BY StepKeeps
<1>3. IInv => GoneIsForgotten BY Forgets
<1> QED BY <1>1, <1>2, <1>3, PTL DEF Spec

-----------------------------------------------------------------------------
(* The credit of a window, without reloads.  First the messages of a page: *)
(* it registers and unregisters in turn, and acknowledges whole batches.   *)

Parted(s) == \A i, j \in DOMAIN s : i < j /\ s[i].what = "register" /\ s[j].what = "register" =>
               \E k \in DOMAIN s : i < k /\ k < j /\ s[k].what = "unregister"
Led(s) == \A j \in DOMAIN s : s[j].what = "register" => \E k \in DOMAIN s : k < j /\ s[k].what = "unregister"
Shut(s) == \A j \in DOMAIN s : s[j].what = "register" => \E k \in DOMAIN s : j < k /\ s[k].what = "unregister"
Ends(s) == \E k \in DOMAIN s : s[k].what = "unregister"
Batched(s) == \A i \in DOMAIN s : s[i].what = "ack" => s[i].n = Batch
Turns(s, on, open, alive) ==
  /\ Parted(s) /\ Batched(s) /\ (open => alive)
  /\ on => Led(s)
  /\ ~open /\ alive => Shut(s) /\ (on => Ends(s))

(* The indices of a longer box, and of the rest of one.                    *)
LEMMA Places ==
  ASSUME NEW s \in Seq(Request), NEW m \in Request
  PROVE  /\ DOMAIN s \subseteq Nat
         /\ DOMAIN Append(s, m) = (DOMAIN s) \cup {Len(s) + 1} /\ Len(s) + 1 \in Nat
         /\ Append(s, m)[Len(s) + 1] = m
         /\ \A i \in DOMAIN s : Append(s, m)[i] = s[i] /\ i < Len(s) + 1
<1>1. Len(s) \in Nat /\ DOMAIN s = 1..Len(s) OBVIOUS
<1>2. \A i \in DOMAIN s : i \in Nat /\ i < Len(s) + 1 BY <1>1
<1> QED BY <1>1, <1>2, LongerBox

LEMMA RestPlaces ==
  ASSUME NEW s \in Seq(Request), s # <<>>
  PROVE  /\ DOMAIN s \subseteq Nat /\ 1 \in DOMAIN s /\ DOMAIN Tail(s) \subseteq Nat
         /\ \A i \in DOMAIN s : i = 1 \/ (i > 1 /\ i - 1 \in DOMAIN Tail(s) /\ Tail(s)[i - 1] = s[i])
         /\ \A i \in DOMAIN Tail(s) : i + 1 \in DOMAIN s /\ i + 1 > 1 /\ Tail(s)[i] = s[i + 1]
<1>1. Len(s) \in Nat /\ DOMAIN s = 1..Len(s) /\ Len(s) # 0 BY EmptySeq
<1>2. DOMAIN Tail(s) = 1..(Len(s) - 1) BY <1>1
<1>3. \A i \in DOMAIN Tail(s) : i + 1 \in DOMAIN s /\ Tail(s)[i] = s[i + 1] BY RestOfQueue
<1>4. \A i \in DOMAIN s : i = 1 \/ (i > 1 /\ i - 1 \in DOMAIN Tail(s) /\ (i - 1) + 1 = i) BY <1>1, <1>2
<1> QED BY <1>1, <1>2, <1>3, <1>4

LEMMA TurnsPost ==
  ASSUME NEW s \in Seq(Request), NEW m \in Request, NEW on, NEW open, NEW alive, Turns(s, on, open, alive),
         m.what = "invoke" \/ (m.what = "ack" /\ m.n = Batch)
  PROVE  Turns(Append(s, m), on, open, alive)
<1> DEFINE t == Append(s, m)  n == Len(s) + 1
<1>1. /\ DOMAIN s \subseteq Nat /\ DOMAIN t = (DOMAIN s) \cup {n} /\ n \in Nat /\ t[n] = m
      /\ \A i \in DOMAIN s : t[i] = s[i] /\ i < n
  BY Places
<1> HIDE DEF t, n
<1>2. \A j \in DOMAIN t : t[j].what \in {"register", "unregister"} => j \in DOMAIN s BY <1>1
<1>3. Parted(s) => Parted(t) BY <1>1, <1>2 DEF Parted
<1>4. Batched(s) => Batched(t) BY <1>1 DEF Batched
<1>5. Led(s) => Led(t) BY <1>1, <1>2 DEF Led
<1>6. Shut(s) => Shut(t) BY <1>1, <1>2 DEF Shut
<1>7. Ends(s) => Ends(t) BY <1>1 DEF Ends
<1>8. Turns(t, on, open, alive) BY <1>3, <1>4, <1>5, <1>6, <1>7 DEF Turns
<1> QED BY <1>8 DEF t

LEMMA TurnsRegister ==
  ASSUME NEW s \in Seq(Request), NEW m \in Request, NEW on, Turns(s, on, FALSE, TRUE), m.what = "register"
  PROVE  Turns(Append(s, m), on, TRUE, TRUE)
<1> DEFINE t == Append(s, m)  n == Len(s) + 1
<1>1. /\ DOMAIN s \subseteq Nat /\ DOMAIN t = (DOMAIN s) \cup {n} /\ n \in Nat /\ t[n] = m
      /\ \A i \in DOMAIN s : t[i] = s[i] /\ i < n
  BY Places
<1> HIDE DEF t, n
<1>2. Parted(s) /\ Batched(s) /\ (on => Led(s) /\ Ends(s)) /\ Shut(s) BY DEF Turns
<1>3. Parted(t)
  <2>1. SUFFICES ASSUME NEW i \in DOMAIN t, NEW j \in DOMAIN t, i < j,
                        t[i].what = "register", t[j].what = "register"
                 PROVE  \E k \in DOMAIN t : i < k /\ k < j /\ t[k].what = "unregister"
    BY DEF Parted
  <2>2. i \in DOMAIN s /\ s[i].what = "register" /\ i \in Nat BY <1>1, <2>1
  <2>3. CASE j = n
    <3>1. PICK k \in DOMAIN s : i < k /\ s[k].what = "unregister" BY <1>2, <2>2 DEF Shut
    <3> QED BY <1>1, <2>3, <3>1
  <2>4. CASE j # n
    <3>1. j \in DOMAIN s /\ s[j].what = "register" BY <1>1, <2>1, <2>4
    <3>2. PICK k \in DOMAIN s : i < k /\ k < j /\ s[k].what = "unregister" BY <1>2, <2>1, <2>2, <3>1 DEF Parted
    <3> QED BY <1>1, <3>2
  <2> QED BY <2>3, <2>4
<1>4. Batched(t) BY <1>1, <1>2 DEF Batched
<1>5. on => Led(t) BY <1>1, <1>2 DEF Led, Ends
<1>6. Turns(t, on, TRUE, TRUE) BY <1>3, <1>4, <1>5 DEF Turns
<1> QED BY <1>6 DEF t

LEMMA TurnsClose ==
  ASSUME NEW s \in Seq(Request), NEW m \in Request, NEW on, NEW open, NEW alive, Turns(s, on, open, alive),
         m.what = "unregister"
  PROVE  Turns(Append(s, m), on, FALSE, alive)
<1> DEFINE t == Append(s, m)  n == Len(s) + 1
<1>1. /\ DOMAIN s \subseteq Nat /\ DOMAIN t = (DOMAIN s) \cup {n} /\ n \in Nat /\ t[n] = m
      /\ \A i \in DOMAIN s : t[i] = s[i] /\ i < n
  BY Places
<1> HIDE DEF t, n
<1>2. \A j \in DOMAIN t : t[j].what \in {"register", "ack"} => j \in DOMAIN s BY <1>1
<1>3. Parted(s) => Parted(t) BY <1>1, <1>2 DEF Parted
<1>4. Batched(s) => Batched(t) BY <1>1, <1>2 DEF Batched
<1>5. Led(s) => Led(t) BY <1>1, <1>2 DEF Led
<1>6. Shut(t) BY <1>1, <1>2 DEF Shut
<1>7. Ends(t) BY <1>1 DEF Ends
<1>8. Turns(t, on, FALSE, alive) BY <1>3, <1>4, <1>5, <1>6, <1>7 DEF Turns
<1> QED BY <1>8 DEF t

(* What is read, a window that unregistered or is unknown stays so.        *)
LEMMA TurnsRead ==
  ASSUME NEW s \in Seq(Request), s # <<>>, NEW on, NEW open, NEW alive, Turns(s, on, open, alive)
  PROVE  /\ Turns(Tail(s), FALSE, open, alive)
         /\ s[1].what = "register" => ~on /\ Turns(Tail(s), TRUE, open, alive)
         /\ s[1].what \in {"ack", "invoke"} => Turns(Tail(s), on, open, alive)
<1> DEFINE t == Tail(s)
<1>1. /\ DOMAIN s \subseteq Nat /\ 1 \in DOMAIN s /\ DOMAIN t \subseteq Nat
      /\ \A i \in DOMAIN s : i = 1 \/ (i > 1 /\ i - 1 \in DOMAIN t /\ t[i - 1] = s[i])
      /\ \A i \in DOMAIN t : i + 1 \in DOMAIN s /\ i + 1 > 1 /\ t[i] = s[i + 1]
  BY RestPlaces
<1> HIDE DEF t
<1>2. Parted(s) => Parted(t)
  <2>1. SUFFICES ASSUME Parted(s), NEW i \in DOMAIN t, NEW j \in DOMAIN t, i < j,
                        t[i].what = "register", t[j].what = "register"
                 PROVE  \E k \in DOMAIN t : i < k /\ k < j /\ t[k].what = "unregister"
    BY DEF Parted
  <2>2. i \in Nat /\ j \in Nat /\ i + 1 < j + 1 BY <1>1, <2>1
  <2>3. PICK k \in DOMAIN s : i + 1 < k /\ k < j + 1 /\ s[k].what = "unregister"
    BY <1>1, <2>1, <2>2 DEF Parted
  <2>4. k \in Nat /\ k - 1 \in DOMAIN t /\ t[k - 1] = s[k] BY <1>1, <2>2, <2>3
  <2> QED BY <2>2, <2>3, <2>4
<1>3. Batched(s) => Batched(t) BY <1>1 DEF Batched
<1>4. Shut(s) => Shut(t)
  <2>1. SUFFICES ASSUME Shut(s), NEW j \in DOMAIN t, t[j].what = "register"
                 PROVE  \E k \in DOMAIN t : j < k /\ t[k].what = "unregister"
    BY DEF Shut
  <2>2. j \in Nat BY <1>1
  <2>3. PICK k \in DOMAIN s : j + 1 < k /\ s[k].what = "unregister" BY <1>1, <2>1 DEF Shut
  <2>4. k \in Nat /\ k - 1 \in DOMAIN t /\ t[k - 1] = s[k] BY <1>1, <2>2, <2>3
  <2> QED BY <2>2, <2>3, <2>4
<1>5. Turns(t, FALSE, open, alive) BY <1>2, <1>3, <1>4 DEF Turns
<1>6. ASSUME s[1].what = "register" PROVE ~on /\ Turns(t, TRUE, open, alive)
  <2>1. ~Led(s) BY <1>1, <1>6 DEF Led
  <2>2. Parted(s) => Led(t)
    <3>1. SUFFICES ASSUME Parted(s), NEW j \in DOMAIN t, t[j].what = "register"
                   PROVE  \E k \in DOMAIN t : k < j /\ t[k].what = "unregister"
      BY DEF Led
    <3>2. j \in Nat BY <1>1
    <3>3. PICK k \in DOMAIN s : 1 < k /\ k < j + 1 /\ s[k].what = "unregister" BY <1>1, <1>6, <3>1, <3>2 DEF Parted
    <3>4. k \in Nat /\ k - 1 \in DOMAIN t /\ t[k - 1] = s[k] BY <1>1, <3>3
    <3> QED BY <3>2, <3>3, <3>4
  <2>3. Shut(s) => Ends(t)
    <3>1. SUFFICES ASSUME Shut(s) PROVE Ends(t) OBVIOUS
    <3>2. PICK k \in DOMAIN s : 1 < k /\ s[k].what = "unregister" BY <1>1, <1>6, <3>1 DEF Shut
    <3>3. k \in Nat /\ k - 1 \in DOMAIN t /\ t[k - 1] = s[k] BY <1>1, <3>2
    <3> QED BY <3>2, <3>3 DEF Ends
  <2> QED BY <1>2, <1>3, <1>4, <2>1, <2>2, <2>3 DEF Turns
<1>7. ASSUME s[1].what \in {"ack", "invoke"} PROVE Turns(t, on, open, alive)
  <2>1. \A k \in DOMAIN s : s[k].what = "unregister" => k > 1 /\ k - 1 \in DOMAIN t /\ t[k - 1] = s[k] BY <1>1, <1>7
  <2>2. Led(s) => Led(t)
    <3>1. SUFFICES ASSUME Led(s), NEW j \in DOMAIN t, t[j].what = "register"
                   PROVE  \E k \in DOMAIN t : k < j /\ t[k].what = "unregister"
      BY DEF Led
    <3>2. j \in Nat BY <1>1
    <3>3. PICK k \in DOMAIN s : k < j + 1 /\ s[k].what = "unregister" BY <1>1, <3>1 DEF Led
    <3>4. k \in Nat /\ k - 1 \in DOMAIN t /\ t[k - 1] = s[k] BY <1>1, <2>1, <3>3
    <3> QED BY <3>2, <3>3, <3>4
  <2>3. Ends(s) => Ends(t) BY <2>1 DEF Ends
  <2> QED BY <1>2, <1>3, <1>4, <2>2, <2>3 DEF Turns
<1> QED BY <1>5, <1>6, <1>7 DEF t

-----------------------------------------------------------------------------
(* What a window is billed for, against what it has and will acknowledge   *)

LEMMA SameCardinality == ASSUME NEW S PROVE Cardinality(S) = L!Cardinality(S)
BY DEF Cardinality, L!Cardinality

Acks(s) == L!Count(s, {m \in Request : m.what = "ack"})

LEMMA AcksDo ==
  ASSUME NEW s \in Seq(Request)
  PROVE  /\ Acks(s) \in Nat /\ Acks(<<>>) = 0
         /\ \A m \in Request : Acks(Append(s, m)) = Acks(s) + IF m.what = "ack" THEN 1 ELSE 0
         /\ s # <<>> => Acks(s) = Acks(Tail(s)) + IF s[1].what = "ack" THEN 1 ELSE 0
<1> DEFINE A == {m \in Request : m.what = "ack"}
<1> HIDE DEF A
<1>1. L!Count(s, A) \in Nat /\ L!Count(<<>>, A) = 0 BY LedgerAssumptions, L!CountType, L!CountEmpty
<1>2. \A m \in Request : L!Count(Append(s, m), A) = L!Count(s, A) + IF m \in A THEN 1 ELSE 0
  BY LedgerAssumptions, L!CountAppend
<1>3. s # <<>> => L!Count(s, A) = L!Count(Tail(s), A) + IF s[1] \in A THEN 1 ELSE 0
  BY LedgerAssumptions, L!CountTail
<1>4. s # <<>> => s[1] \in Request BY RestOfQueue
<1> QED BY <1>1, <1>2, <1>3, <1>4 DEF Acks, A

LEMMA ChunksDo ==
  ASSUME NEW s \in Seq(Notice), NEW p
  PROVE  /\ Chunks(s, p) \in Nat
         /\ \A m \in Notice : Chunks(Append(s, m), p) = Chunks(s, p) + IF m.what = "output" /\ m.n = p THEN 1 ELSE 0
         /\ s # <<>> => Chunks(s, p) = Chunks(Tail(s), p) + IF s[1].what = "output" /\ s[1].n = p THEN 1 ELSE 0
<1> DEFINE C == {m \in Notice : m.what = "output" /\ m.n = p}
<1>1. ASSUME NEW t \in Seq(Notice) PROVE Chunks(t, p) = L!Count(t, C)
  <2>1. \A i \in DOMAIN t : t[i] \in Notice
    <3> HIDE DEF Notice
    <3> QED BY ElementOfSeq
  <2>2. {i \in DOMAIN t : t[i].what = "output" /\ t[i].n = p} = {i \in DOMAIN t : t[i] \in C} BY <2>1
  <2> QED BY <2>2, SameCardinality DEF Chunks, L!Count, L!At
<1> HIDE DEF C
<1>2. L!Count(s, C) \in Nat BY LedgerAssumptions, L!CountType
<1>3. \A m \in Notice : L!Count(Append(s, m), C) = L!Count(s, C) + IF m \in C THEN 1 ELSE 0
  BY LedgerAssumptions, L!CountAppend
<1>4. s # <<>> => L!Count(s, C) = L!Count(Tail(s), C) + IF s[1] \in C THEN 1 ELSE 0
  BY LedgerAssumptions, L!CountTail
<1>5. \A m \in Notice : Append(s, m) \in Seq(Notice) OBVIOUS
<1>6. s # <<>> => s[1] \in Notice /\ Tail(s) \in Seq(Notice) BY RestOfQueue
<1>7. /\ \A m \in Notice : m \in C <=> m.what = "output" /\ m.n = p BY DEF C
<1> QED BY <1>1, <1>2, <1>3, <1>4, <1>5, <1>6, <1>7

(* Whole batches are counted by the batch.                                 *)
LEMMA AcknowledgedIs ==
  ASSUME NEW s \in Seq(Request), Batched(s)
  PROVE  Acknowledged(s) = Acks(s) * Batch
<1> DEFINE A == {m \in Request : m.what = "ack"}  at == L!At(s, A)  B == 1..Batch
<1>1. Batch \in Nat /\ IsFiniteSet(B) /\ Cardinality(B) = Batch
  <2>1. Batch \in Nat /\ 1 \in Nat BY BridgeAssumption
  <2> QED BY <2>1, FS_Interval
<1>2. IsFiniteSet(at)
  <2> HIDE DEF A
  <2> QED BY LedgerAssumptions, L!CountType, SameFinite
<1>3. \A i \in DOMAIN s : s[i] \in Request
  <2> HIDE DEF Request
  <2> QED BY ElementOfSeq
<1>4. at = {i \in DOMAIN s : s[i].what = "ack"} BY <1>3 DEF L!At
<1>5. {b \in (DOMAIN s) \X B : s[b[1]].what = "ack" /\ b[2] <= s[b[1]].n} = at \X B
  <2>1. ASSUME NEW b \in (DOMAIN s) \X B
        PROVE  (s[b[1]].what = "ack" /\ b[2] <= s[b[1]].n) <=> b \in at \X B
    <3>1. b[1] \in DOMAIN s /\ b[2] \in B /\ b = <<b[1], b[2]>> BY <2>1
    <3>2. s[b[1]].what = "ack" => s[b[1]].n = Batch /\ b[2] <= Batch BY <1>1, <3>1 DEF Batched
    <3>3. b \in at \X B <=> b[1] \in at BY <3>1
    <3> QED BY <1>4, <3>1, <3>2, <3>3
  <2>2. at \X B \subseteq (DOMAIN s) \X B BY <1>4
  <2> HIDE DEF at, B
  <2> QED BY <2>1, <2>2
<1>6. Cardinality(at \X B) = Cardinality(at) * Cardinality(B)
  <2> HIDE DEF at, B
  <2> QED BY <1>1, <1>2, FS_Product
<1> QED BY <1>1, <1>5, <1>6, SameCardinality DEF Acknowledged, Acks, L!Count

-----------------------------------------------------------------------------
(* A subscribed window that neither comes nor goes has, has on the way or  *)
(* acknowledges all it is billed for.                                      *)

Owed(r) ==
  ledger.outstanding[senders[r].peer] <=
    Chunks(toPage[r], senders[r].peer) + proxy[r].pending + Acks(toMain[r]) * Batch
WindowOK(r) ==
  /\ Turns(toMain[r], r \in Subscribed, proxy[r].open, Alive(r))
  /\ r \in Subscribed /\ proxy[r].open /\ ~Leaving(r) => Owed(r)
Windows == \A r \in Renderers : WindowOK(r)

(* What a step leaves as it was, for one window.                           *)
NoMore(r) ==
  r \in Subscribed' =>
    /\ r \in Subscribed /\ senders'[r].peer = senders[r].peer
    /\ ledger'.outstanding[senders[r].peer] <= ledger.outstanding[senders[r].peer]
SameProxy(r) ==
  proxy'[r].open = proxy[r].open /\ proxy'[r].pending = proxy[r].pending /\ (Alive(r)' <=> Alive(r))
SameBoxes(r) ==
  toMain'[r] = toMain[r] /\ \A p \in Peers : Chunks(toPage[r], p) <= Chunks(toPage'[r], p)

LEMMA OwedTypes ==
  ASSUME IInv, NEW r \in Renderers
  PROVE  /\ toMain[r] \in Seq(Request) /\ toPage[r] \in Seq(Notice)
         /\ proxy[r].pending \in Nat /\ proxy[r].open \in BOOLEAN
         /\ Acks(toMain[r]) \in Nat /\ Acks(toMain[r]) * Batch \in Nat /\ Batch \in Nat \ {0}
         /\ \A p \in Peers : ledger.outstanding[p] \in Nat /\ Chunks(toPage[r], p) \in Nat
         /\ r \in Subscribed => senders[r].peer \in Peers /\ senders[r].peer \in Nat /\ r \in Known
<1>1. /\ toMain[r] \in Seq(Request) /\ toPage[r] \in Seq(Notice)
      /\ proxy[r].pending \in 0..(Batch - 1) /\ proxy[r].open \in BOOLEAN
  BY PageTypes DEF IInv
<1>2. Batch \in Nat \ {0} BY BridgeAssumption
<1>3. Acks(toMain[r]) \in Nat BY <1>1, AcksDo
<1>4. Acks(toMain[r]) * Batch \in Nat BY <1>2, <1>3
<1>5. \A p \in Peers : Chunks(toPage[r], p) \in Nat BY <1>1, ChunksDo
<1>6. ledger.outstanding \in [Peers -> Nat] BY RecordTypes DEF IInv, Registry
<1>7. r \in Subscribed => senders[r].peer \in Peers /\ senders[r].peer \in Nat /\ r \in Known
  BY Tokens DEF IInv, Registry
<1>8. proxy[r].pending \in Nat BY <1>1, <1>2
<1> QED BY <1>1, <1>2, <1>3, <1>4, <1>5, <1>6, <1>7, <1>8

LEMMA OwedTypesNext ==
  ASSUME IInv', NEW r \in Renderers
  PROVE  /\ toMain'[r] \in Seq(Request) /\ toPage'[r] \in Seq(Notice)
         /\ proxy'[r].pending \in Nat /\ proxy'[r].open \in BOOLEAN
         /\ \A p \in Peers : ledger'.outstanding[p] \in Nat /\ Chunks(toPage'[r], p) \in Nat
         /\ r \in Subscribed' => senders'[r].peer \in Peers
<1>1. /\ toMain'[r] \in Seq(Request) /\ toPage'[r] \in Seq(Notice)
      /\ proxy'[r].pending \in 0..(Batch - 1) /\ proxy'[r].open \in BOOLEAN
  BY DEF IInv, PagesOK
<1>2. Batch \in Nat \ {0} BY BridgeAssumption
<1>3. \A p \in Peers : Chunks(toPage'[r], p) \in Nat BY <1>1, ChunksDo
<1>4. ledger' \in L!LedgerRecord BY DEF IInv, Registry
<1>5. ledger'.outstanding \in [Peers -> Nat] BY <1>4, RecordTypes
<1>6. r \in Subscribed' => senders'[r].peer \in Peers
  <2>1. senders' \in [Renderers -> [peer : Peers \cup {0}, subscribed : BOOLEAN]] BY DEF IInv, Registry
  <2>2. r \in Subscribed' => senders'[r].peer # 0 BY DEF IInv, Registry, Known, Knows
  <2> QED BY <2>1, <2>2
<1>7. proxy'[r].pending \in Nat BY <1>1, <1>2
<1> QED BY <1>1, <1>3, <1>5, <1>6, <1>7

LEMMA StillKeeps ==
  ASSUME IInv, IInv', NEW r \in Renderers, WindowOK(r), SameProxy(r), toMain'[r] = toMain[r],
         r \in Subscribed' => r \in Subscribed /\ senders'[r].peer = senders[r].peer,
         Alive(r) /\ r \in Subscribed =>
           ledger'.outstanding[senders[r].peer] + Chunks(toPage[r], senders[r].peer)
             <= ledger.outstanding[senders[r].peer] + Chunks(toPage'[r], senders[r].peer)
  PROVE  WindowOK(r)'
<1>1. Turns(toMain'[r], r \in Subscribed', proxy'[r].open, Alive(r)') BY DEF WindowOK, SameProxy, Turns
<1>2. ASSUME r \in Subscribed', proxy'[r].open, ~Leaving(r)' PROVE Owed(r)'
  <2>1. r \in Subscribed /\ senders'[r].peer = senders[r].peer /\ proxy[r].open /\ ~Leaving(r)
        /\ proxy'[r].pending = proxy[r].pending
    BY <1>2 DEF SameProxy, Leaving
  <2>2. Owed(r) /\ Alive(r) BY <2>1 DEF WindowOK, Turns
  <2> DEFINE p == senders[r].peer  o == ledger.outstanding[p]  o1 == ledger'.outstanding[p]
             c == Chunks(toPage[r], p)  c1 == Chunks(toPage'[r], p)  n == proxy[r].pending  a == Acks(toMain[r]) * Batch
  <2>3. p \in Peers /\ o \in Nat /\ o1 \in Nat /\ c \in Nat /\ c1 \in Nat /\ n \in Nat /\ a \in Nat
    BY <2>1, OwedTypes, OwedTypesNext
  <2>4. o <= c + n + a BY <2>2 DEF Owed
  <2>5. o1 + c <= o + c1 BY <2>1, <2>2
  <2> HIDE DEF o, o1, c, c1, n, a
  <2>6. o1 <= c1 + n + a BY <2>3, <2>4, <2>5
  <2> QED BY <2>1, <2>6 DEF Owed, o, o1, c, c1, n, a
<1> QED BY <1>1, <1>2 DEF WindowOK

LEMMA QuietKeeps ==
  ASSUME IInv, IInv', NEW r \in Renderers, WindowOK(r), SameProxy(r), SameBoxes(r), NoMore(r)
  PROVE  WindowOK(r)'
<1>1. CASE r \in Subscribed'
  <2> DEFINE p == senders[r].peer
  <2>1. r \in Subscribed /\ senders'[r].peer = p /\ p \in Peers BY <1>1, OwedTypes DEF NoMore
  <2>2. /\ ledger.outstanding[p] \in Nat /\ ledger'.outstanding[p] \in Nat
        /\ Chunks(toPage[r], p) \in Nat /\ Chunks(toPage'[r], p) \in Nat
    BY <2>1, OwedTypes, OwedTypesNext
  <2>3. ledger'.outstanding[p] + Chunks(toPage[r], p) <= ledger.outstanding[p] + Chunks(toPage'[r], p)
    <3>1. ledger'.outstanding[p] <= ledger.outstanding[p] /\ Chunks(toPage[r], p) <= Chunks(toPage'[r], p)
      BY <1>1, <2>1 DEF NoMore, SameBoxes
    <3> QED BY <2>2, <3>1
  <2> QED BY <2>1, <2>3, StillKeeps DEF SameBoxes
<1>2. CASE r \notin Subscribed'
  <2>1. Turns(toMain'[r], r \in Subscribed', proxy'[r].open, Alive(r)')
    BY <1>2 DEF WindowOK, SameProxy, SameBoxes, Turns
  <2> QED BY <1>2, <2>1 DEF WindowOK
<1> QED BY <1>1, <1>2

LEMMA SameBills ==
  ASSUME IInv, UNCHANGED senders, ledger'.outstanding = ledger.outstanding, NEW r \in Renderers
  PROVE  NoMore(r)
<1>1. Subscribed' = Subscribed BY DEF Subscribed
<1>2. r \in Subscribed => ledger.outstanding[senders[r].peer] \in Nat BY OwedTypes
<1> QED BY <1>1, <1>2 DEF NoMore

LEMMA SameChunks ==
  ASSUME IInv, NEW r \in Renderers,
         \/ toPage'[r] = toPage[r]
         \/ \E m \in Notice : m.what # "output" /\ toPage'[r] = Append(toPage[r], m)
         \/ toPage[r] # <<>> /\ toPage[r][1].what # "output" /\ toPage'[r] = Tail(toPage[r])
  PROVE  \A p \in Peers : Chunks(toPage[r], p) <= Chunks(toPage'[r], p)
<1>1. toPage[r] \in Seq(Notice) /\ \A p \in Peers : Chunks(toPage[r], p) \in Nat BY OwedTypes
<1>2. CASE toPage'[r] = toPage[r] BY <1>1, <1>2
<1>3. ASSUME NEW m \in Notice, m.what # "output", toPage'[r] = Append(toPage[r], m), NEW p \in Peers
      PROVE  Chunks(toPage[r], p) <= Chunks(toPage'[r], p)
  <2>1. Chunks(Append(toPage[r], m), p) = Chunks(toPage[r], p) + IF m.what = "output" /\ m.n = p THEN 1 ELSE 0
    BY <1>1, ChunksDo
  <2> QED BY <1>1, <1>3, <2>1
<1>4. CASE toPage[r] # <<>> /\ toPage[r][1].what # "output" /\ toPage'[r] = Tail(toPage[r])
  <2>1. \A p \in Peers : Chunks(toPage[r], p) = Chunks(Tail(toPage[r]), p)
          + IF toPage[r][1].what = "output" /\ toPage[r][1].n = p THEN 1 ELSE 0
    BY <1>1, <1>4, ChunksDo
  <2>2. Tail(toPage[r]) \in Seq(Notice) BY <1>1, <1>4, RestOfQueue
  <2>3. \A p \in Peers : Chunks(Tail(toPage[r]), p) \in Nat BY <2>2, ChunksDo
  <2> QED BY <1>4, <2>1, <2>3
<1> QED BY <1>2, <1>3, <1>4

Goes(s) == \E i \in DOMAIN s : s[i].what \in {"register", "unregister"}

LEMMA GoesPost ==
  ASSUME NEW s \in Seq(Request), NEW m \in Request
  PROVE  Goes(Append(s, m)) <=> Goes(s) \/ m.what \in {"register", "unregister"}
<1> DEFINE t == Append(s, m)  n == Len(s) + 1
<1>1. DOMAIN t = (DOMAIN s) \cup {n} /\ t[n] = m /\ \A i \in DOMAIN s : t[i] = s[i] BY Places
<1> HIDE DEF t, n
<1>2. Goes(t) <=> Goes(s) \/ m.what \in {"register", "unregister"} BY <1>1 DEF Goes
<1> QED BY <1>2 DEF t

LEMMA GoesRest ==
  ASSUME NEW s \in Seq(Request), s # <<>>
  PROVE  Goes(s) <=> Goes(Tail(s)) \/ s[1].what \in {"register", "unregister"}
<1> DEFINE t == Tail(s)
<1>1. /\ 1 \in DOMAIN s
      /\ \A i \in DOMAIN s : i = 1 \/ (i - 1 \in DOMAIN t /\ t[i - 1] = s[i])
      /\ \A i \in DOMAIN t : i + 1 \in DOMAIN s /\ t[i] = s[i + 1]
  BY RestPlaces
<1> HIDE DEF t
<1>2. Goes(s) <=> Goes(t) \/ s[1].what \in {"register", "unregister"} BY <1>1 DEF Goes
<1> QED BY <1>2 DEF t

LEMMA LeavingIs == \A r : (Leaving(r) <=> Goes(toMain[r])) /\ (Leaving(r)' <=> Goes(toMain'[r]))
BY DEF Leaving, Goes

-----------------------------------------------------------------------------
(* One step, for the windows: the page *)

LEMMA OneProxy ==
  ASSUME IInv, NEW r \in Renderers, NEW e, proxy' = [proxy EXCEPT ![r] = e], wc' = wc
  PROVE  proxy'[r] = e /\ \A q \in Renderers : q # r => SameProxy(q)
BY DEF IInv, PagesOK, SameProxy, Alive

LEMMA createRendererBridgeWindows ==
  ASSUME IInv, IInv', Windows, ~Reloads, NEW r \in Renderers, createRendererBridge(r)
  PROVE  Windows'
<1> DEFINE m == Message("register", 0)
<1>1. /\ Alive(r) /\ ~proxy[r].open /\ proxy' = [proxy EXCEPT ![r] = [open |-> TRUE, state |-> "connecting", pending |-> 0]]
      /\ toMain' = Post(toMain, r, m) /\ toPage' = toPage /\ wc' = wc /\ UNCHANGED <<ledger, senders>>
  BY DEF createRendererBridge, flowVars, mainVars
<1>2. m \in Request /\ m.what = "register" BY DEF Message, Request
<1> HIDE DEF m
<1>3. toMain'[r] = Append(toMain[r], m) /\ \A q \in Renderers : q # r => toMain'[q] = toMain[q]
  BY <1>1, <1>2, PostType DEF IInv
<1>4. proxy'[r].open /\ \A q \in Renderers : q # r => SameProxy(q)
  <2> DEFINE e == [open |-> TRUE, state |-> "connecting", pending |-> 0]
  <2>1. e.open = TRUE OBVIOUS
  <2>2. proxy' = [proxy EXCEPT ![r] = e] /\ wc' = wc BY <1>1
  <2> HIDE DEF e
  <2> QED BY <2>1, <2>2, OneProxy
<1>5. \A q \in Renderers : NoMore(q) BY <1>1, SameBills
<1>6. \A q \in Renderers : q # r => SameBoxes(q) BY <1>1, <1>3, SameChunks DEF SameBoxes
<1>7. \A q \in Renderers : q # r => WindowOK(q)' BY <1>4, <1>5, <1>6, QuietKeeps DEF Windows
<1>8. WindowOK(r)'
  <2>1. Turns(toMain[r], r \in Subscribed, proxy[r].open, Alive(r)) BY DEF Windows, WindowOK
  <2>2. toMain[r] \in Seq(Request) BY OwedTypes
  <2>3. Turns(Append(toMain[r], m), r \in Subscribed, TRUE, Alive(r))
    <3>1. Turns(toMain[r], r \in Subscribed, FALSE, TRUE) BY <1>1, <2>1 DEF Turns
    <3>2. Turns(Append(toMain[r], m), r \in Subscribed, TRUE, TRUE) BY <1>2, <2>2, <3>1, TurnsRegister
    <3> QED BY <1>1, <3>2 DEF Turns
  <2>4. Leaving(r)' BY <1>2, <1>3, <2>2, GoesPost, LeavingIs
  <2>5. (Alive(r)' <=> Alive(r)) /\ Subscribed' = Subscribed BY <1>1 DEF Alive, Subscribed
  <2>6. proxy'[r].open = TRUE BY <1>4, OwedTypesNext
  <2> QED BY <1>1, <1>3, <2>3, <2>4, <2>5, <2>6 DEF WindowOK, Turns
<1> QED BY <1>7, <1>8 DEF Windows

LEMMA closeWindows ==
  ASSUME IInv, IInv', Windows, NEW r \in Renderers, close(r)
  PROVE  Windows'
<1> DEFINE m == Message("unregister", 0)
<1>1. /\ proxy' = [proxy EXCEPT ![r] = [open |-> FALSE, state |-> "closed", pending |-> 0]]
      /\ toMain' = Post(toMain, r, m) /\ toPage' = toPage /\ wc' = wc /\ UNCHANGED <<ledger, senders>>
  BY DEF close, flowVars, mainVars
<1>2. m \in Request /\ m.what = "unregister" BY DEF Message, Request
<1> HIDE DEF m
<1>3. toMain'[r] = Append(toMain[r], m) /\ \A q \in Renderers : q # r => toMain'[q] = toMain[q]
  BY <1>1, <1>2, PostType DEF IInv
<1>4. ~proxy'[r].open /\ \A q \in Renderers : q # r => SameProxy(q)
  <2> DEFINE e == [open |-> FALSE, state |-> "closed", pending |-> 0]
  <2>1. e.open = FALSE OBVIOUS
  <2>2. proxy' = [proxy EXCEPT ![r] = e] /\ wc' = wc BY <1>1
  <2> HIDE DEF e
  <2> QED BY <2>1, <2>2, OneProxy
<1>5. \A q \in Renderers : NoMore(q) BY <1>1, SameBills
<1>6. \A q \in Renderers : q # r => SameBoxes(q) BY <1>1, <1>3, SameChunks DEF SameBoxes
<1>7. \A q \in Renderers : q # r => WindowOK(q)' BY <1>4, <1>5, <1>6, QuietKeeps DEF Windows
<1>8. WindowOK(r)'
  <2>1. Turns(toMain[r], r \in Subscribed, proxy[r].open, Alive(r)) BY DEF Windows, WindowOK
  <2>2. toMain[r] \in Seq(Request) BY OwedTypes
  <2>3. Turns(Append(toMain[r], m), r \in Subscribed, FALSE, Alive(r)) BY <1>2, <2>1, <2>2, TurnsClose
  <2>4. (Alive(r)' <=> Alive(r)) /\ Subscribed' = Subscribed BY <1>1 DEF Alive, Subscribed
  <2> QED BY <1>3, <1>4, <2>3, <2>4 DEF WindowOK, Turns
<1> QED BY <1>7, <1>8 DEF Windows

LEMMA invokeWindows ==
  ASSUME IInv, IInv', Windows, NEW r \in Renderers, NEW method, invoke(r, method)
  PROVE  Windows'
<1> DEFINE m == Message("invoke", Len(calls) + 1)
<1>1. /\ toMain' = Post(toMain, r, m) /\ UNCHANGED <<toPage, wc, proxy, ledger, senders>>
  BY DEF invoke, flowVars, mainVars, pageVars
<1>2. m \in Request /\ m.what = "invoke"
  <2>1. Len(calls) + 1 \in Nat BY CallsType DEF IInv
  <2> QED BY <2>1 DEF Message, Request
<1> HIDE DEF m
<1>3. toMain'[r] = Append(toMain[r], m) /\ \A q \in Renderers : q # r => toMain'[q] = toMain[q]
  BY <1>1, <1>2, PostType DEF IInv
<1>4. \A q \in Renderers : SameProxy(q) BY <1>1 DEF SameProxy, Alive
<1>5. \A q \in Renderers : NoMore(q) BY <1>1, SameBills
<1>6. \A q \in Renderers : q # r => SameBoxes(q) BY <1>1, <1>3, SameChunks DEF SameBoxes
<1>7. \A q \in Renderers : q # r => WindowOK(q)' BY <1>4, <1>5, <1>6, QuietKeeps DEF Windows
<1>8. WindowOK(r)'
  <2>1. WindowOK(r) BY DEF Windows
  <2>2. toMain[r] \in Seq(Request) BY OwedTypes
  <2>3. Turns(Append(toMain[r], m), r \in Subscribed, proxy[r].open, Alive(r)) BY <1>2, <2>1, <2>2, TurnsPost DEF WindowOK
  <2>4. (Alive(r)' <=> Alive(r)) /\ Subscribed' = Subscribed BY <1>1 DEF Alive, Subscribed
  <2>5. Acks(toMain'[r]) = Acks(toMain[r])
    <3>1. Acks(Append(toMain[r], m)) = Acks(toMain[r]) + IF m.what = "ack" THEN 1 ELSE 0 BY <1>2, <2>2, AcksDo
    <3>2. Acks(toMain[r]) \in Nat BY OwedTypes
    <3> QED BY <1>2, <1>3, <3>1, <3>2
  <2>6. Leaving(r)' <=> Leaving(r)
    <3>1. Goes(Append(toMain[r], m)) <=> Goes(toMain[r]) \/ m.what \in {"register", "unregister"}
      BY <1>2, <2>2, GoesPost
    <3>2. m.what \notin {"register", "unregister"} BY <1>2
    <3> QED BY <1>3, <3>1, <3>2, LeavingIs
  <2> QED BY <1>1, <1>3, <2>1, <2>3, <2>4, <2>5, <2>6 DEF WindowOK, Turns, Owed
<1> QED BY <1>7, <1>8 DEF Windows

(* The mail to the pages is read, but for output, or none of it.           *)
LEMMA PageQuiet ==
  ASSUME IInv, IInv', Windows, \A q \in Renderers : SameProxy(q), toMain' = toMain,
         UNCHANGED senders, ledger'.outstanding = ledger.outstanding,
         \A q \in Renderers : \/ toPage'[q] = toPage[q]
                              \/ \E m \in Notice : m.what # "output" /\ toPage'[q] = Append(toPage[q], m)
                              \/ toPage[q] # <<>> /\ toPage[q][1].what # "output" /\ toPage'[q] = Tail(toPage[q])
  PROVE  Windows'
<1>1. \A q \in Renderers : NoMore(q) BY SameBills
<1>2. \A q \in Renderers : SameBoxes(q) BY SameChunks DEF SameBoxes
<1>3. \A q \in Renderers : WindowOK(q)' BY <1>1, <1>2, QuietKeeps DEF Windows
<1> QED BY <1>3 DEF Windows

LEMMA withTimeoutWindows ==
  ASSUME IInv, IInv', Windows, NEW i, withTimeout(i)
  PROVE  Windows'
<1>1. UNCHANGED <<wc, proxy, toMain, toPage, ledger, senders>> BY DEF withTimeout, flowVars, mainVars, pageVars
<1>2. \A q \in Renderers : SameProxy(q) BY <1>1 DEF SameProxy, Alive
<1> QED BY <1>1, <1>2, PageQuiet

LEMMA TakesOne ==
  ASSUME IInv, NEW r \in Renderers, NEW what, Takes(r, what)
  PROVE  /\ toPage[r] # <<>> /\ toPage[r][1].what = what /\ toPage'[r] = Tail(toPage[r])
         /\ \A q \in Renderers : q # r => toPage'[q] = toPage[q]
<1>1. toPage \in [Renderers -> Seq(Notice)] BY DEF IInv, PagesOK
<1> QED BY <1>1, TailType DEF Takes

LEMMA onConnectionStateWindows ==
  ASSUME IInv, IInv', Windows, NEW r \in Renderers, onConnectionState(r)
  PROVE  Windows'
<1>1. UNCHANGED <<wc, toMain, ledger, senders>> /\ Takes(r, "state")
  BY DEF onConnectionState, flowVars, mainVars
<1>2. \A q \in Renderers : SameProxy(q)
  <2>1. proxy \in [Renderers -> [open : BOOLEAN, state : {"none", "connecting", "ready", "closed"}, pending : 0..(Batch - 1)]]
    BY DEF IInv, PagesOK
  <2>2. \A q \in Renderers : proxy'[q].open = proxy[q].open /\ proxy'[q].pending = proxy[q].pending
    BY <2>1 DEF onConnectionState
  <2> QED BY <1>1, <2>2 DEF SameProxy, Alive
<1>3. \A q \in Renderers :
        \/ toPage'[q] = toPage[q]
        \/ toPage[q] # <<>> /\ toPage[q][1].what # "output" /\ toPage'[q] = Tail(toPage[q])
  <2>1. Takes(r, "state") BY <1>1
  <2>2. /\ toPage[r] # <<>> /\ toPage[r][1].what = "state" /\ toPage'[r] = Tail(toPage[r])
        /\ \A q \in Renderers : q # r => toPage'[q] = toPage[q]
    BY <2>1, TakesOne
  <2>3. toPage[r] # <<>> /\ toPage[r][1].what # "output" /\ toPage'[r] = Tail(toPage[r]) BY <2>2
  <2>4. ASSUME NEW q \in Renderers
        PROVE  \/ toPage'[q] = toPage[q]
               \/ toPage[q] # <<>> /\ toPage[q][1].what # "output" /\ toPage'[q] = Tail(toPage[q])
    <3>1. CASE q = r BY <2>3, <3>1, Zenon
    <3>2. CASE q # r BY <2>2, <3>2
    <3> QED BY <3>1, <3>2
  <2> QED BY <2>4
<1> QED BY <1>1, <1>2, <1>3, PageQuiet

LEMMA onReplyWindows ==
  ASSUME IInv, IInv', Windows, NEW r \in Renderers, onReply(r)
  PROVE  Windows'
<1>1. UNCHANGED <<wc, proxy, toMain, ledger, senders>> /\ Takes(r, "reply")
  BY DEF onReply, flowVars, mainVars, pageVars
<1>2. \A q \in Renderers : SameProxy(q) BY <1>1 DEF SameProxy, Alive
<1>3. \A q \in Renderers :
        \/ toPage'[q] = toPage[q]
        \/ toPage[q] # <<>> /\ toPage[q][1].what # "output" /\ toPage'[q] = Tail(toPage[q])
  <2>1. Takes(r, "reply") BY <1>1
  <2>2. /\ toPage[r] # <<>> /\ toPage[r][1].what = "reply" /\ toPage'[r] = Tail(toPage[r])
        /\ \A q \in Renderers : q # r => toPage'[q] = toPage[q]
    BY <2>1, TakesOne
  <2>3. toPage[r] # <<>> /\ toPage[r][1].what # "output" /\ toPage'[r] = Tail(toPage[r]) BY <2>2
  <2>4. ASSUME NEW q \in Renderers
        PROVE  \/ toPage'[q] = toPage[q]
               \/ toPage[q] # <<>> /\ toPage[q][1].what # "output" /\ toPage'[q] = Tail(toPage[q])
    <3>1. CASE q = r BY <2>3, <3>1, Zenon
    <3>2. CASE q # r BY <2>2, <3>2
    <3> QED BY <3>1, <3>2
  <2> QED BY <2>4
<1> QED BY <1>1, <1>2, <1>3, PageQuiet

LEMMA DestroyWindows ==
  ASSUME IInv, IInv', Windows, NEW r \in Renderers, Destroy(r)
  PROVE  Windows'
<1>1. /\ wc' = [wc EXCEPT ![r] = "destroyed"] /\ toPage' = [toPage EXCEPT ![r] = <<>>]
      /\ proxy' = [proxy EXCEPT ![r] = [open |-> FALSE, state |-> "closed", pending |-> 0]]
      /\ UNCHANGED <<toMain, ledger, senders>>
  BY DEF Destroy, flowVars, mainVars
<1>2. ~proxy'[r].open /\ ~Alive(r)' /\ \A q \in Renderers : q # r => SameProxy(q) /\ toPage'[q] = toPage[q]
  BY <1>1 DEF IInv, PagesOK, SameProxy, Alive
<1>3. \A q \in Renderers : NoMore(q) BY <1>1, SameBills
<1>4. \A q \in Renderers : q # r => SameBoxes(q) BY <1>1, <1>2, SameChunks DEF SameBoxes
<1>5. \A q \in Renderers : q # r => WindowOK(q)' BY <1>2, <1>3, <1>4, QuietKeeps DEF Windows
<1>6. WindowOK(r)'
  <2>1. Subscribed' = Subscribed BY <1>1 DEF Subscribed
  <2> QED BY <1>1, <1>2, <2>1 DEF Windows, WindowOK, Turns
<1> QED BY <1>5, <1>6 DEF Windows

(* A chunk is added to the batch, or fills it and the batch is posted.     *)
LEMMA onOutputWindows ==
  ASSUME IInv, IInv', Windows, NEW r \in Renderers, onOutput(r)
  PROVE  Windows'
<1> DEFINE next == account(proxy[r].pending)  m == Message("ack", next.bytes)
<1>1. UNCHANGED <<wc, ledger, senders>> /\ Takes(r, "output") BY DEF onOutput, flowVars, mainVars
<1>2. /\ toPage[r] # <<>> /\ toPage[r][1].what = "output" /\ toPage'[r] = Tail(toPage[r])
      /\ \A q \in Renderers : q # r => toPage'[q] = toPage[q]
  BY <1>1, TakesOne
<1>3. \/ ~proxy[r].open /\ UNCHANGED <<proxy, toMain>>
      \/ /\ proxy[r].open /\ proxy' = [proxy EXCEPT ![r].pending = next.pending]
         /\ toMain' = IF next.bytes = 0 THEN toMain ELSE Post(toMain, r, m)
  BY DEF onOutput
<1>4. \/ next.bytes = 0 /\ next.pending = proxy[r].pending + 1
      \/ next.bytes = Batch /\ next.pending = 0 /\ proxy[r].pending + 1 = Batch
  <2>1. proxy[r].pending \in 0..(Batch - 1) /\ Batch \in Nat \ {0} BY PageTypes, BridgeAssumption DEF IInv
  <2> QED BY <2>1 DEF account
<1>5. m.what = "ack" /\ m.n = next.bytes BY DEF Message
<1>6. m \in Request
  <2>1. next.bytes \in Nat BY <1>4, OwedTypes
  <2> QED BY <2>1 DEF Message, Request
<1> HIDE DEF next, m
<1>7. /\ \A q \in Renderers : q # r => SameProxy(q) /\ toMain'[q] = toMain[q]
      /\ ~proxy[r].open => SameProxy(r) /\ toMain'[r] = toMain[r]
      /\ proxy[r].open => /\ proxy'[r].pending = next.pending /\ proxy'[r].open = proxy[r].open
                          /\ toMain'[r] = IF next.bytes = 0 THEN toMain[r] ELSE Append(toMain[r], m)
  <2>1. proxy \in [Renderers -> [open : BOOLEAN, state : {"none", "connecting", "ready", "closed"}, pending : 0..(Batch - 1)]]
    BY DEF IInv, PagesOK
  <2>2. LET b == Post(toMain, r, m) IN b[r] = Append(toMain[r], m) /\ \A q \in Renderers : q # r => b[q] = toMain[q]
    BY <1>6, PostType DEF IInv
  <2> QED BY <1>1, <1>3, <2>1, <2>2 DEF SameProxy, Alive
<1>8. \A q \in Renderers : NoMore(q) BY <1>1, SameBills
<1>9. \A q \in Renderers : q # r => SameBoxes(q) BY <1>2, <1>7, SameChunks DEF SameBoxes
<1>10. \A q \in Renderers : q # r => WindowOK(q)' BY <1>7, <1>8, <1>9, QuietKeeps DEF Windows
<1>11. (Alive(r)' <=> Alive(r)) /\ Subscribed' = Subscribed BY <1>1 DEF Alive, Subscribed
<1>12. WindowOK(r)'
  <2>1. WindowOK(r) /\ toMain[r] \in Seq(Request) BY OwedTypes DEF Windows
  <2>2. CASE ~proxy[r].open BY <1>7, <1>11, <2>1, <2>2 DEF WindowOK, Turns, SameProxy
  <2>3. CASE proxy[r].open
    <3>1. Turns(toMain'[r], r \in Subscribed', proxy'[r].open, Alive(r)')
      <4>1. Turns(toMain'[r], r \in Subscribed, proxy[r].open, Alive(r))
        <5>1. Turns(toMain[r], r \in Subscribed, proxy[r].open, Alive(r)) BY <2>1 DEF WindowOK
        <5>2. next.bytes # 0 => m.n = Batch BY <1>4, <1>5
        <5>3. next.bytes # 0 => Turns(Append(toMain[r], m), r \in Subscribed, proxy[r].open, Alive(r))
          BY <1>5, <1>6, <2>1, <5>1, <5>2, TurnsPost
        <5> QED BY <1>7, <2>3, <5>1, <5>3
      <4> QED BY <1>7, <1>11, <2>3, <4>1 DEF Turns
    <3>2. (Leaving(r)' <=> Leaving(r)) BY <1>5, <1>6, <1>7, <2>1, <2>3, GoesPost, LeavingIs
    <3>3. ASSUME r \in Subscribed, ~Leaving(r) PROVE Owed(r)'
      <4> DEFINE p == senders[r].peer  o == ledger.outstanding[p]  c == Chunks(toPage[r], p)  c1 == Chunks(toPage'[r], p)
                 n == proxy[r].pending  n1 == proxy'[r].pending  a == Acks(toMain[r])  a1 == Acks(toMain'[r])
      <4>1. /\ p \in Peers /\ o \in Nat /\ c \in Nat /\ c1 \in Nat /\ n \in Nat /\ n1 \in Nat /\ a \in Nat
            /\ a * Batch \in Nat /\ Batch \in Nat
        BY <3>3, OwedTypes, OwedTypesNext
      <4>2. o <= c + n + a * Batch BY <2>1, <2>3, <3>3 DEF WindowOK, Owed
      <4>3. c <= c1 + 1
        <5>1. toPage[r] \in Seq(Notice) BY OwedTypes
        <5>2. c = Chunks(Tail(toPage[r]), p) + IF toPage[r][1].what = "output" /\ toPage[r][1].n = p THEN 1 ELSE 0
          BY <1>2, <5>1, ChunksDo
        <5>3. c1 = Chunks(Tail(toPage[r]), p) BY <1>2
        <5> HIDE DEF c, c1
        <5> QED BY <4>1, <5>2, <5>3
      <4>4. (a1 = a /\ n1 = n + 1) \/ (a1 = a + 1 /\ n1 = 0 /\ n + 1 = Batch)
        <5>1. Acks(Append(toMain[r], m)) = Acks(toMain[r]) + IF m.what = "ack" THEN 1 ELSE 0 BY <1>6, <2>1, AcksDo
        <5>2. Batch # 0 BY OwedTypes
        <5> QED BY <1>4, <1>5, <1>7, <2>3, <5>1, <5>2
      <4>5. (a + 1) * Batch = a * Batch + Batch BY <4>1
      <4> HIDE DEF o, c, c1, n, n1, a, a1
      <4>6. o <= c1 + n1 + a1 * Batch
        <5>1. CASE a1 = a /\ n1 = n + 1 BY <4>1, <4>2, <4>3, <5>1
        <5>2. CASE a1 = a + 1 /\ n1 = 0 /\ n + 1 = Batch BY <4>1, <4>2, <4>3, <4>5, <5>2
        <5> QED BY <4>4, <5>1, <5>2
      <4> QED BY <1>1, <4>6 DEF Owed, o, c, c1, n, n1, a, a1
    <3> QED BY <1>11, <3>1, <3>2, <3>3 DEF WindowOK
  <2> QED BY <2>2, <2>3
<1> QED BY <1>10, <1>12 DEF Windows

-----------------------------------------------------------------------------
(* One step, for the windows: what the main process reads                  *)

LEMMA MainQuiet ==
  ASSUME IInv, IInv', Windows, \A q \in Renderers : SameProxy(q) /\ NoMore(q), toMain' = toMain,
         toPage' = toPage \/ \E R \in SUBSET Renderers, m \in Notice : m.what # "output" /\ toPage' = Give(toPage, R, m)
  PROVE  Windows'
<1>1. ASSUME NEW q \in Renderers
      PROVE  \/ toPage'[q] = toPage[q]
             \/ \E m \in Notice : m.what # "output" /\ toPage'[q] = Append(toPage[q], m)
  BY DEF Give
<1>2. \A q \in Renderers : SameBoxes(q) BY <1>1, SameChunks DEF SameBoxes
<1>3. \A q \in Renderers : WindowOK(q)' BY <1>2, QuietKeeps DEF Windows
<1> QED BY <1>3 DEF Windows

(* The windows whose messages are not read.                                *)
LEMMA ReadQuiet ==
  ASSUME IInv, IInv', Windows, NEW r \in Renderers, \A q \in Renderers : q # r => SameProxy(q) /\ NoMore(q),
         toMain[r] # <<>>, toMain' = [toMain EXCEPT ![r] = Tail(@)],
         toPage' = toPage \/ \E R \in SUBSET Renderers, m \in Notice : m.what # "output" /\ toPage' = Give(toPage, R, m)
  PROVE  /\ \A q \in Renderers : q # r => WindowOK(q)'
         /\ toMain'[r] = Tail(toMain[r]) /\ toMain[r] \in Seq(Request)
         /\ \A p \in Peers : Chunks(toPage[r], p) <= Chunks(toPage'[r], p)
<1>1. ASSUME NEW q \in Renderers
      PROVE  \/ toPage'[q] = toPage[q]
             \/ \E m \in Notice : m.what # "output" /\ toPage'[q] = Append(toPage[q], m)
  BY DEF Give
<1>2. toMain \in [Renderers -> Seq(Request)] BY DEF IInv, PagesOK
<1>3. toMain'[r] = Tail(toMain[r]) /\ \A q \in Renderers : q # r => toMain'[q] = toMain[q] BY <1>2
<1>4. \A q \in Renderers : q # r => SameBoxes(q) BY <1>1, <1>3, SameChunks DEF SameBoxes
<1>5. \A q \in Renderers : q # r => WindowOK(q)' BY <1>4, QuietKeeps DEF Windows
<1>6. \A p \in Peers : Chunks(toPage[r], p) <= Chunks(toPage'[r], p) BY <1>1, SameChunks
<1> QED BY <1>2, <1>3, <1>5, <1>6

LEMMA ReadGone ==
  ASSUME NEW r \in Renderers, WindowOK(r), SameProxy(r), toMain[r] # <<>>, toMain[r] \in Seq(Request),
         toMain'[r] = Tail(toMain[r]), r \notin Subscribed'
  PROVE  WindowOK(r)'
<1>1. Turns(Tail(toMain[r]), FALSE, proxy[r].open, Alive(r)) BY TurnsRead DEF WindowOK
<1> QED BY <1>1 DEF WindowOK, SameProxy, Turns

LEMMA TornQuiet ==
  ASSUME IInv, NEW R \in SUBSET Known, teardown(R), NEW m, NEW rest \in {<<>>, jobs},
         m = LedgerWithout(R) \/ m = Flow!flushPausedPanes(LedgerWithout(R)), Flow!Commit(m, rest)
  PROVE  \A q \in Renderers : NoMore(q) /\ (q \in R => q \notin Subscribed')
<1>1. Registry /\ FlowOK BY DEF IInv
<1>2. Commits(m, rest) /\ \A p \in Peers : m.outstanding[p] = IF p \in PeersOf(R) THEN 0 ELSE ledger.outstanding[p]
  BY <1>1, CommitWithout
<1>3. ledger'.outstanding = m.outstanding BY <1>1, <1>2, CommitDoes
<1>4. \A q \in Renderers : senders'[q] = IF q \in R THEN [peer |-> 0, subscribed |-> FALSE] ELSE senders[q]
  BY Zenon DEF teardown
<1>5. \A q \in Renderers : q \in R => q \notin Subscribed' BY <1>4 DEF Subscribed
<1>6. ASSUME NEW q \in Renderers, q \in Subscribed' PROVE NoMore(q)
  <2>1. q \notin R /\ senders'[q] = senders[q] BY <1>4, <1>5, <1>6
  <2>2. q \in Subscribed BY <1>6, <2>1 DEF Subscribed
  <2>3. senders[q].peer \in Peers /\ ledger.outstanding[senders[q].peer] \in Nat BY <2>2, OwedTypes
  <2>4. ledger'.outstanding[senders[q].peer] <= ledger.outstanding[senders[q].peer] BY <1>2, <1>3, <2>3
  <2> QED BY <2>1, <2>2, <2>4 DEF NoMore
<1>7. \A q \in Renderers : NoMore(q) BY <1>6 DEF NoMore
<1> QED BY <1>5, <1>7

LEMMA unregisterWindows ==
  ASSUME IInv, IInv', Windows, NEW r \in Renderers, unregister(r)
  PROVE  Windows'
<1> DEFINE R == {r} \cap Known
<1>1. /\ toMain[r] # <<>> /\ toMain' = [toMain EXCEPT ![r] = Tail(@)] /\ UNCHANGED <<toPage, wc, proxy>>
      /\ teardown(R) /\ Flow!Commit(LedgerWithout(R), <<>>)
  BY DEF unregister, Reads, mainRest, pageVars
<1>2. R \in SUBSET Known OBVIOUS
<1>3. <<>> \in {<<>>, jobs} OBVIOUS
<1> HIDE DEF R
<1>4. \A q \in Renderers : NoMore(q) /\ (q \in R => q \notin Subscribed') BY <1>1, <1>2, <1>3, TornQuiet
<1>5. \A q \in Renderers : SameProxy(q) BY <1>1 DEF SameProxy, Alive
<1>6. r \notin Subscribed'
  <2>1. r \in Known => r \in R BY DEF R
  <2>2. r \in Subscribed => r \in Known BY OwedTypes
  <2> QED BY <1>4, <2>1, <2>2 DEF NoMore
<1>7. /\ \A q \in Renderers : q # r => WindowOK(q)'
      /\ toMain'[r] = Tail(toMain[r]) /\ toMain[r] \in Seq(Request)
  BY <1>1, <1>4, <1>5, ReadQuiet
<1>8. WindowOK(r) /\ SameProxy(r) BY <1>5 DEF Windows
<1>9. WindowOK(r)' BY <1>1, <1>6, <1>7, <1>8, ReadGone
<1> QED BY <1>7, <1>9 DEF Windows

LEMMA onDestroyedWindows ==
  ASSUME IInv, IInv', Windows, NEW r \in Renderers, onDestroyed(r)
  PROVE  Windows'
<1> DEFINE R == {r} \cap Known
<1>1. /\ wc[r] = "destroyed" /\ wc' = [wc EXCEPT ![r] = "gone"] /\ UNCHANGED <<toPage, toMain, proxy>>
      /\ teardown(R) /\ Flow!Commit(LedgerWithout(R), <<>>)
  BY DEF onDestroyed
<1>2. R \in SUBSET Known OBVIOUS
<1>3. <<>> \in {<<>>, jobs} OBVIOUS
<1> HIDE DEF R
<1>4. \A q \in Renderers : NoMore(q) BY <1>1, <1>2, <1>3, TornQuiet
<1>5. \A q \in Renderers : SameProxy(q) BY <1>1 DEF IInv, PagesOK, SameProxy, Alive
<1> QED BY <1>1, <1>4, <1>5, MainQuiet

LEMMA broadcastWindows ==
  ASSUME IInv, IInv', Windows, broadcast
  PROVE  Windows'
<1>1. UNCHANGED <<toPage, toMain, proxy, wc>> /\ teardown(Stale) /\ Flow!Commit(LedgerWithout(Stale), <<>>)
  BY DEF broadcast, mainRest, pageVars
<1>2. Stale \in SUBSET Known /\ <<>> \in {<<>>, jobs} BY DEF Stale
<1>3. \A q \in Renderers : NoMore(q) BY <1>1, <1>2, TornQuiet
<1>4. \A q \in Renderers : SameProxy(q) BY <1>1 DEF SameProxy, Alive
<1> QED BY <1>1, <1>3, <1>4, MainQuiet

LEMMA disposeWindows ==
  ASSUME IInv, IInv', Windows, dispose
  PROVE  Windows'
<1>1. /\ UNCHANGED <<toPage, toMain, proxy, wc>>
      /\ teardown(Known) /\ Flow!Commit(Flow!flushPausedPanes(LedgerWithout(Known)), <<>>)
  BY DEF dispose, pageVars
<1>2. Known \in SUBSET Known /\ <<>> \in {<<>>, jobs} OBVIOUS
<1>3. \A q \in Renderers : NoMore(q) BY <1>1, <1>2, TornQuiet
<1>4. \A q \in Renderers : SameProxy(q) BY <1>1 DEF SameProxy, Alive
<1> QED BY <1>1, <1>3, <1>4, MainQuiet

LEMMA broadcastClosedWindows ==
  ASSUME IInv, IInv', Windows, broadcastClosed
  PROVE  Windows'
<1>1. UNCHANGED <<toMain, proxy, wc>> BY DEF broadcastClosed, pageVars
<1>2. \A q \in Renderers : SameProxy(q) BY <1>1 DEF SameProxy, Alive
<1>3. CASE disposed
  <2>1. UNCHANGED <<ledger, senders, toPage>> BY <1>3 DEF broadcastClosed, Nothing
  <2>2. \A q \in Renderers : NoMore(q) BY <2>1, SameBills
  <2> QED BY <1>1, <1>2, <2>1, <2>2, MainQuiet
<1>4. CASE ~disposed
  <2>1. /\ teardown(Stale) /\ Flow!Commit(LedgerWithout(Stale), jobs)
        /\ toPage' = Give(toPage, Subscribed, Message("state", 1))
    BY <1>4 DEF broadcastClosed
  <2>2. Stale \in SUBSET Known /\ jobs \in {<<>>, jobs} BY DEF Stale
  <2>3. \A q \in Renderers : NoMore(q) BY <2>1, <2>2, TornQuiet
  <2>4. Message("state", 1) \in Notice /\ Message("state", 1).what # "output" BY DEF Message, Notice
  <2>5. Subscribed \in SUBSET Renderers BY DEF Subscribed
  <2>6. \E R \in SUBSET Renderers, m \in Notice : m.what # "output" /\ toPage' = Give(toPage, R, m)
    BY <2>1, <2>4, <2>5
  <2> QED BY <1>1, <1>2, <2>3, <2>6, MainQuiet
<1> QED BY <1>3, <1>4

LEMMA ReadInvoke ==
  ASSUME IInv, IInv', NEW r \in Renderers, WindowOK(r), SameProxy(r), NoMore(r),
         toMain[r] # <<>>, toMain[r][1].what = "invoke", toMain'[r] = Tail(toMain[r]), toMain[r] \in Seq(Request),
         \A p \in Peers : Chunks(toPage[r], p) <= Chunks(toPage'[r], p)
  PROVE  WindowOK(r)'
<1>1. CASE r \notin Subscribed' BY <1>1, ReadGone
<1>2. CASE r \in Subscribed'
  <2> DEFINE p == senders[r].peer  o == ledger.outstanding[p]  o1 == ledger'.outstanding[p]
             c == Chunks(toPage[r], p)  c1 == Chunks(toPage'[r], p)  n == proxy[r].pending  a == Acks(toMain[r]) * Batch
  <2>1. r \in Subscribed /\ senders'[r].peer = p /\ o1 <= o BY <1>2 DEF NoMore
  <2>2. Turns(Tail(toMain[r]), r \in Subscribed, proxy[r].open, Alive(r)) BY TurnsRead DEF WindowOK
  <2>3. Turns(toMain'[r], r \in Subscribed', proxy'[r].open, Alive(r)')
    BY <1>2, <2>1, <2>2 DEF SameProxy, Turns
  <2>4. Acks(toMain'[r]) = Acks(toMain[r])
    <3>1. Tail(toMain[r]) \in Seq(Request) BY RestOfQueue
    <3>2. Acks(Tail(toMain[r])) \in Nat BY <3>1, AcksDo
    <3>3. Acks(toMain[r]) = Acks(Tail(toMain[r])) + IF toMain[r][1].what = "ack" THEN 1 ELSE 0 BY AcksDo
    <3> QED BY <3>2, <3>3
  <2>5. Leaving(r)' <=> Leaving(r)
    <3>1. Goes(toMain[r]) <=> Goes(Tail(toMain[r])) \/ toMain[r][1].what \in {"register", "unregister"} BY GoesRest
    <3> QED BY <3>1, LeavingIs
  <2>6. p \in Peers /\ o \in Nat /\ o1 \in Nat /\ c \in Nat /\ c1 \in Nat /\ n \in Nat /\ a \in Nat
    BY <2>1, OwedTypes, OwedTypesNext
  <2>7. c <= c1 BY <2>6
  <2>8. ASSUME proxy'[r].open, ~Leaving(r)' PROVE Owed(r)'
    <3>1. o <= c + n + a BY <2>1, <2>5, <2>8 DEF WindowOK, Owed, SameProxy
    <3>2. proxy'[r].pending = n BY DEF SameProxy
    <3> HIDE DEF o, o1, c, c1, n, a
    <3>3. o1 <= c1 + n + a BY <2>1, <2>6, <2>7, <3>1
    <3> QED BY <2>1, <2>4, <3>2, <3>3 DEF Owed, o, o1, c, c1, n, a
  <2> QED BY <2>3, <2>8 DEF WindowOK
<1> QED BY <1>1, <1>2

(* An acknowledged batch is no longer billed.                              *)
LEMMA ReadAck ==
  ASSUME IInv, IInv', NEW r \in Renderers, WindowOK(r), SameProxy(r),
         toMain[r] # <<>>, toMain[r][1].what = "ack", toMain'[r] = Tail(toMain[r]), toMain[r] \in Seq(Request),
         toPage'[r] = toPage[r],
         r \in Subscribed' => /\ r \in Subscribed /\ senders'[r].peer = senders[r].peer
                              /\ LET p == senders[r].peer  n == toMain[r][1].n IN
                                 ledger'.outstanding[p] = IF n < ledger.outstanding[p] THEN ledger.outstanding[p] - n ELSE 0
  PROVE  WindowOK(r)'
<1>1. CASE r \notin Subscribed' BY <1>1, ReadGone
<1>2. CASE r \in Subscribed'
  <2> DEFINE p == senders[r].peer  o == ledger.outstanding[p]  o1 == ledger'.outstanding[p]
             c == Chunks(toPage[r], p)  n == proxy[r].pending  a == Acks(toMain[r])  a1 == Acks(toMain'[r])
  <2>1. r \in Subscribed /\ senders'[r].peer = p BY <1>2
  <2>2. toMain[r][1].n = Batch
    <3>1. Batched(toMain[r]) BY DEF WindowOK, Turns
    <3>2. 1 \in DOMAIN toMain[r] BY RestOfQueue
    <3> QED BY <3>1, <3>2 DEF Batched
  <2>3. o1 = IF Batch < o THEN o - Batch ELSE 0 BY <1>2, <2>2
  <2>4. Turns(Tail(toMain[r]), r \in Subscribed, proxy[r].open, Alive(r)) BY TurnsRead DEF WindowOK
  <2>5. Turns(toMain'[r], r \in Subscribed', proxy'[r].open, Alive(r)')
    BY <1>2, <2>1, <2>4 DEF SameProxy, Turns
  <2>6. a = a1 + 1 /\ a1 \in Nat
    <3>1. Tail(toMain[r]) \in Seq(Request) BY RestOfQueue
    <3>2. Acks(Tail(toMain[r])) \in Nat BY <3>1, AcksDo
    <3>3. Acks(toMain[r]) = Acks(Tail(toMain[r])) + IF toMain[r][1].what = "ack" THEN 1 ELSE 0 BY AcksDo
    <3> QED BY <3>2, <3>3
  <2>7. Leaving(r)' <=> Leaving(r)
    <3>1. Goes(toMain[r]) <=> Goes(Tail(toMain[r])) \/ toMain[r][1].what \in {"register", "unregister"} BY GoesRest
    <3> QED BY <3>1, LeavingIs
  <2>8. p \in Peers /\ o \in Nat /\ o1 \in Nat /\ c \in Nat /\ n \in Nat /\ Batch \in Nat
    BY <2>1, OwedTypes, OwedTypesNext
  <2>9. a * Batch = a1 * Batch + Batch /\ a1 * Batch \in Nat
    <3> HIDE DEF a, a1
    <3>1. (a1 + 1) * Batch = a1 * Batch + Batch BY <2>6, <2>8
    <3>2. a1 * Batch \in Nat BY <2>6, <2>8
    <3> QED BY <2>6, <3>1, <3>2
  <2>10. ASSUME proxy'[r].open, ~Leaving(r)' PROVE Owed(r)'
    <3>1. o <= c + n + a * Batch BY <2>1, <2>7, <2>10 DEF WindowOK, Owed, SameProxy
    <3>2. proxy'[r].pending = n BY DEF SameProxy
    <3> HIDE DEF o, o1, c, n, a, a1
    <3>3. o1 <= c + n + a1 * Batch
      <4> DEFINE x == a * Batch  y == a1 * Batch
      <4>1. o <= c + n + x /\ x = y + Batch /\ y \in Nat BY <2>9, <3>1
      <4> HIDE DEF x, y
      <4>2. o1 <= c + n + y BY <2>3, <2>8, <4>1
      <4> QED BY <4>2 DEF y
    <3> QED BY <2>1, <3>2, <3>3 DEF Owed, o, o1, c, n, a, a1
  <2> QED BY <2>5, <2>10 DEF WindowOK
<1> QED BY <1>1, <1>2

(* A window that comes owes nothing yet.                                   *)
LEMMA registerWindows ==
  ASSUME IInv, IInv', Windows, NEW r \in Renderers, register(r)
  PROVE  Windows'
<1> DEFINE p == Token(r)  m == onPaneBecameInteresting(getOrCreate(r, ledger))
           b == Message("state", IF live THEN 0 ELSE 1)
<1>1. /\ toMain[r] # <<>> /\ toMain[r][1].what = "register" /\ toMain' = [toMain EXCEPT ![r] = Tail(@)]
      /\ ~disposed /\ UNCHANGED <<disposed, wc, proxy>>
  BY DEF register, Reads, mainRest, pageVars
<1>2. \A q \in Renderers : SameProxy(q) BY <1>1 DEF SameProxy, Alive
<1>3. WindowOK(r) BY DEF Windows
<1>4. CASE ~Reachable(r)
  <2>1. UNCHANGED <<ledger, senders, toPage>> BY <1>4 DEF register, Nothing
  <2>2. \A q \in Renderers : NoMore(q) BY <2>1, SameBills
  <2>3. /\ \A q \in Renderers : q # r => WindowOK(q)'
        /\ toMain'[r] = Tail(toMain[r]) /\ toMain[r] \in Seq(Request)
    BY <1>1, <1>2, <2>1, <2>2, ReadQuiet
  <2>4. r \notin Subscribed'
    <3>1. r \notin Known BY <1>4 DEF Reachable, Known
    <3>2. r \notin Subscribed BY <3>1, OwedTypes
    <3> QED BY <2>1, <3>2 DEF Subscribed
  <2>5. WindowOK(r)' BY <1>1, <1>2, <1>3, <2>3, <2>4, ReadGone
  <2> QED BY <2>3, <2>5 DEF Windows
<1>5. CASE Reachable(r)
  <2>1. p \in Peers /\ Enrolled(r, TRUE) /\ Flow!Commit(m, <<>>) /\ toPage' = Give(toPage, {r}, b)
    BY <1>5 DEF register, Enrolled
  <2>2. m = onPaneBecameInteresting([ledger EXCEPT !.registered = @ \cup {p}]) BY DEF getOrCreate
  <2>3. b \in Notice /\ b.what # "output" BY DEF Message, Notice
  <2>4. Registry /\ Billed /\ FlowOK BY DEF IInv
  <2> HIDE DEF m, b
  <2>5. /\ m \in L!LedgerRecord /\ m.registered = ledger.registered \cup {p}
        /\ m.outstanding = ledger.outstanding /\ m.flow = ledger.flow /\ m.episodes = ledger.episodes
        /\ m.resuming = ledger.resuming
    BY <2>1, <2>2, <2>4, SubscribedLedger
  <2>6. Commits(m, <<>>) BY <2>1, <2>4, <2>5 DEF Commits, FlowOK, HeldBack, L!totalOutstanding
  <2>7. /\ ledger' \in L!LedgerRecord /\ ledger'.registered = ledger.registered \cup {p}
        /\ ledger'.outstanding = ledger.outstanding
    BY <2>4, <2>5, <2>6, CommitDoes
  <2>8. /\ Subscribed' = Subscribed \cup {r} /\ senders'[r].peer = p
        /\ ~Knows(r) => p = made + 1
        /\ \A q \in Renderers : q # r => senders'[q] = senders[q]
    BY <1>1, <1>5, <2>1, <2>4, <2>7, Enrols
  <2>9. ASSUME NEW q \in Renderers, q # r PROVE NoMore(q)
    <3>1. senders'[q] = senders[q] /\ (q \in Subscribed' => q \in Subscribed) BY <2>8, <2>9
    <3>2. q \in Subscribed => ledger.outstanding[senders[q].peer] \in Nat BY OwedTypes
    <3> QED BY <2>7, <3>1, <3>2 DEF NoMore
  <2>10. \E R \in SUBSET Renderers, x \in Notice : x.what # "output" /\ toPage' = Give(toPage, R, x)
    BY <2>1, <2>3
  <2>11. /\ \A q \in Renderers : q # r => WindowOK(q)'
         /\ toMain'[r] = Tail(toMain[r]) /\ toMain[r] \in Seq(Request)
    BY <1>1, <1>2, <2>9, <2>10, ReadQuiet
  <2>12. r \notin Subscribed /\ Turns(Tail(toMain[r]), TRUE, proxy[r].open, Alive(r))
    BY <1>1, <1>3, <2>11, TurnsRead DEF WindowOK
  <2>13. Turns(toMain'[r], r \in Subscribed', proxy'[r].open, Alive(r)')
    BY <1>2, <2>8, <2>11, <2>12 DEF SameProxy, Turns
  <2>14. p \notin PeersOf(Subscribed)
    <3>1. SUFFICES ASSUME NEW q \in Subscribed, senders[q].peer = p PROVE FALSE BY DEF PeersOf
    <3>2. q \in Known /\ senders[q].peer \in 1..made /\ made \in Nat BY <2>4, Tokens DEF Registry
    <3>3. CASE Knows(r) BY <2>4, <2>12, <3>1, <3>2, <3>3 DEF Registry, Token, Known
    <3>4. CASE ~Knows(r) BY <2>8, <3>1, <3>2, <3>4
    <3> QED BY <3>3, <3>4
  <2>15. ledger'.outstanding[p] = 0 BY <2>1, <2>4, <2>7, <2>14 DEF Billed
  <2>16. Owed(r)'
    <3> DEFINE c1 == Chunks(toPage'[r], p)  n1 == proxy'[r].pending  a1 == Acks(toMain'[r]) * Batch
    <3>1. c1 \in Nat /\ n1 \in Nat BY <2>1, OwedTypesNext
    <3>2. a1 \in Nat
      <4>1. Acks(toMain'[r]) \in Nat BY OwedTypesNext, AcksDo
      <4>2. Batch \in Nat BY BridgeAssumption
      <4> QED BY <4>1, <4>2
    <3> HIDE DEF c1, n1, a1
    <3>3. 0 <= c1 + n1 + a1 BY <3>1, <3>2
    <3> QED BY <2>8, <2>15, <3>3 DEF Owed, c1, n1, a1
  <2> QED BY <2>11, <2>13, <2>16 DEF Windows, WindowOK
<1> QED BY <1>4, <1>5

LEMMA ackWindows ==
  ASSUME IInv, IInv', Windows, NEW r \in Renderers, ack(r)
  PROVE  Windows'
<1> DEFINE n == toMain[r][1].n  m == IF Knows(r) THEN Flow!ack(ledger, senders[r].peer, n) ELSE ledger
<1>1. /\ toMain[r] # <<>> /\ toMain[r][1].what = "ack" /\ toMain' = [toMain EXCEPT ![r] = Tail(@)]
      /\ UNCHANGED <<toPage, wc, proxy, senders>> /\ Flow!Commit(m, <<>>)
  BY DEF ack, Reads, mainRest, pageVars
<1>2. n \in Nat
  <2>1. toMain[r] \in Seq(Request) BY OwedTypes
  <2>2. toMain[r][1] \in Request BY <1>1, <2>1, RestOfQueue
  <2> QED BY <2>2 DEF Request
<1>3. Registry /\ FlowOK /\ Billed BY DEF IInv
<1>4. /\ m \in L!LedgerRecord /\ m.flow = ledger.flow /\ m.episodes = ledger.episodes /\ HeldBack(m)
      /\ IF Knows(r) THEN m.outstanding = [ledger.outstanding EXCEPT ![senders[r].peer] = IF n < @ THEN @ - n ELSE 0]
         ELSE m = ledger
  BY <1>2, <1>3, ackLedger
<1> HIDE DEF m
<1>5. Commits(m, <<>>) BY <1>1, <1>3, <1>4 DEF Commits, FlowOK
<1>6. ledger'.outstanding = m.outstanding BY <1>3, <1>5, CommitDoes
<1>7. \A q \in Renderers : SameProxy(q) BY <1>1 DEF SameProxy, Alive
<1>8. Subscribed' = Subscribed BY <1>1 DEF Subscribed
<1>9. ledger.outstanding \in [Peers -> Nat] BY <1>3, RecordTypes DEF Registry
<1>10. ASSUME NEW q \in Renderers, q # r PROVE NoMore(q)
  <2>1. q \in Subscribed => q \in Known /\ ledger.outstanding[senders[q].peer] \in Nat BY OwedTypes
  <2>2. q \in Subscribed => ledger'.outstanding[senders[q].peer] = ledger.outstanding[senders[q].peer]
    <3>1. CASE Knows(r)
      <4>1. q \in Subscribed => senders[q].peer # senders[r].peer BY <1>3, <1>10, <2>1, <3>1 DEF Registry, Known
      <4> QED BY <1>4, <1>6, <1>9, <3>1, <4>1, OwedTypes
    <3>2. CASE ~Knows(r) BY <1>4, <1>6, <3>2
    <3> QED BY <3>1, <3>2
  <2> QED BY <1>1, <1>8, <2>1, <2>2 DEF NoMore
<1>11. /\ \A q \in Renderers : q # r => WindowOK(q)'
       /\ toMain'[r] = Tail(toMain[r]) /\ toMain[r] \in Seq(Request)
  BY <1>1, <1>7, <1>10, ReadQuiet
<1>12. ASSUME r \in Subscribed'
       PROVE  /\ r \in Subscribed /\ senders'[r].peer = senders[r].peer
              /\ ledger'.outstanding[senders[r].peer] =
                   IF n < ledger.outstanding[senders[r].peer] THEN ledger.outstanding[senders[r].peer] - n ELSE 0
  <2>1. r \in Subscribed /\ Knows(r) /\ senders[r].peer \in Peers BY <1>8, <1>12, OwedTypes DEF Known
  <2> QED BY <1>1, <1>4, <1>6, <1>9, <2>1
<1>13. WindowOK(r) BY DEF Windows
<1>14. toPage'[r] = toPage[r] BY <1>1
<1>15. WindowOK(r)' BY <1>1, <1>7, <1>11, <1>12, <1>13, <1>14, ReadAck
<1> QED BY <1>11, <1>15 DEF Windows

LEMMA handleWindows ==
  ASSUME IInv, IInv', Windows, NEW r \in Renderers, handle(r)
  PROVE  Windows'
<1> DEFINE p == Token(r)  m == getOrCreate(r, ledger)
<1>1. /\ toMain[r] # <<>> /\ toMain[r][1].what = "invoke" /\ toMain' = [toMain EXCEPT ![r] = Tail(@)]
      /\ ~disposed /\ UNCHANGED <<disposed, wc, proxy, toPage>>
  BY DEF handle, Reads, mainRest, pageVars
<1>2. \A q \in Renderers : SameProxy(q) BY <1>1 DEF SameProxy, Alive
<1>3. \A q \in Renderers : NoMore(q)
  <2>1. CASE ~Reachable(r)
    <3>1. UNCHANGED <<ledger, senders>> BY <2>1 DEF handle
    <3> QED BY <3>1, SameBills
  <2>2. CASE Reachable(r)
    <3>1. p \in Peers /\ Enrolled(r, FALSE) /\ Flow!Commit(m, <<>>) BY <2>2 DEF handle, Enrolled
    <3>2. Registry /\ Billed /\ FlowOK BY DEF IInv
    <3>3. m = [ledger EXCEPT !.registered = @ \cup {p}] BY DEF getOrCreate
    <3> HIDE DEF m
    <3>4. /\ m \in L!LedgerRecord /\ m.registered = ledger.registered \cup {p}
          /\ m.outstanding = ledger.outstanding /\ m.flow = ledger.flow /\ m.episodes = ledger.episodes
          /\ m.resuming = ledger.resuming
      BY <3>1, <3>2, <3>3, EnrolledLedger
    <3>5. Commits(m, <<>>) BY <3>1, <3>2, <3>4 DEF Commits, FlowOK, HeldBack, L!totalOutstanding
    <3>6. /\ ledger' \in L!LedgerRecord /\ ledger'.registered = ledger.registered \cup {p}
          /\ ledger'.outstanding = ledger.outstanding
      BY <3>2, <3>4, <3>5, CommitDoes
    <3>7. /\ Subscribed' = Subscribed /\ senders'[r].peer = p
          /\ \A q \in Renderers : q # r => senders'[q] = senders[q]
      BY <1>1, <2>2, <3>1, <3>2, <3>6, Enrols
    <3>8. Knows(r) => p = senders[r].peer BY DEF Token
    <3>9. ASSUME NEW q \in Renderers PROVE NoMore(q)
      <4>1. q \in Subscribed => Knows(q) /\ ledger.outstanding[senders[q].peer] \in Nat BY OwedTypes DEF Known
      <4>2. q \in Subscribed => senders'[q].peer = senders[q].peer BY <3>7, <3>8, <4>1
      <4> QED BY <3>6, <3>7, <4>1, <4>2 DEF NoMore
    <3> QED BY <3>9
  <2> QED BY <2>1, <2>2
<1>4. /\ \A q \in Renderers : q # r => WindowOK(q)'
      /\ toMain'[r] = Tail(toMain[r]) /\ toMain[r] \in Seq(Request)
      /\ \A x \in Peers : Chunks(toPage[r], x) <= Chunks(toPage'[r], x)
  BY <1>1, <1>2, <1>3, ReadQuiet
<1>5. WindowOK(r) /\ SameProxy(r) /\ NoMore(r) BY <1>2, <1>3 DEF Windows
<1>6. WindowOK(r)' BY <1>1, <1>4, <1>5, ReadInvoke
<1> QED BY <1>4, <1>6 DEF Windows

LEMMA UnheardWindows ==
  ASSUME IInv, IInv', Windows, NEW r \in Renderers, Unheard(r)
  PROVE  Windows'
<1>1. /\ toMain[r] # <<>> /\ toMain' = [toMain EXCEPT ![r] = Tail(@)] /\ disposed
      /\ UNCHANGED <<wc, proxy, ledger, senders>>
  BY DEF Unheard, flowVars, pageVars, mainVars
<1>2. \A q \in Renderers : SameProxy(q) BY <1>1 DEF SameProxy, Alive
<1>3. \A q \in Renderers : NoMore(q) BY <1>1, SameBills
<1>4. toPage' = toPage \/ \E R \in SUBSET Renderers, m \in Notice : m.what # "output" /\ toPage' = Give(toPage, R, m)
  <2> DEFINE m == toMain[r][1]  b == Message("reply", m.n)
  <2>1. toPage' = toPage \/ toPage' = Give(toPage, {r}, b) BY DEF Unheard
  <2>2. m \in Request
    <3>1. toMain[r] \in Seq(Request) BY OwedTypes
    <3> QED BY <1>1, <3>1, RestOfQueue
  <2>3. b \in Notice /\ b.what # "output" BY <2>2 DEF Request, Message, Notice
  <2> HIDE DEF b
  <2> QED BY <2>1, <2>3
<1>5. /\ \A q \in Renderers : q # r => WindowOK(q)'
      /\ toMain'[r] = Tail(toMain[r]) /\ toMain[r] \in Seq(Request)
  BY <1>1, <1>2, <1>3, <1>4, ReadQuiet
<1>6. r \notin Subscribed'
  <2>1. Known = {} BY <1>1 DEF IInv, Registry
  <2>2. r \notin Subscribed BY <2>1, OwedTypes
  <2> QED BY <1>1, <2>2 DEF Subscribed
<1>7. WindowOK(r) /\ SameProxy(r) BY <1>2 DEF Windows
<1>8. WindowOK(r)' BY <1>1, <1>5, <1>6, <1>7, ReadGone
<1> QED BY <1>5, <1>8 DEF Windows

LEMMA DoneWindows ==
  ASSUME IInv, IInv', Windows, NEW p \in Peers, NEW c \in Cover, c.steps # <<>>, NEW outcome,
         Done(p, c, outcome) \/ toPage' = toPage, UNCHANGED coverageRest
  PROVE  Windows'
<1>1. UNCHANGED <<wc, proxy, ledger, senders, toMain>> BY DEF coverageRest, flowVars, pageVars
<1>2. \A q \in Renderers : SameProxy(q) /\ NoMore(q) BY <1>1, SameBills DEF SameProxy, Alive
<1>3. toPage' = toPage \/ \E R \in SUBSET Renderers, m \in Notice : m.what # "output" /\ toPage' = Give(toPage, R, m)
  <2> DEFINE i == c.steps[1].call  R == {calls[i].page} \cap Renderers  b == Message("reply", i)
  <2>1. toPage' = toPage \/ toPage' = Give(toPage, {calls[i].page}, b) BY DEF Done
  <2>2. i \in Nat
    <3>1. c.steps \in Seq(Step) BY DEF Cover
    <3>2. c.steps[1] \in Step
      <4> HIDE DEF Step
      <4> QED BY <3>1, RestOfQueue
    <3>3. MaxEvents \in Nat BY BridgeAssumption
    <3> QED BY <3>2, <3>3 DEF Step
  <2>3. b \in Notice /\ b.what # "output" BY <2>2 DEF Message, Notice
  <2> HIDE DEF b, i
  <2>4. Give(toPage, {calls[i].page}, b) = Give(toPage, R, b) BY DEF Give, R
  <2> QED BY <2>1, <2>3, <2>4
<1> QED BY <1>1, <1>2, <1>3, MainQuiet

LEMMA reconcileWindows ==
  ASSUME IInv, IInv', Windows, NEW p \in Peers, reconcile(p)
  PROVE  Windows'
<1> DEFINE c == coverage[p]
<1>1. c \in Cover /\ c.steps # <<>> /\ UNCHANGED coverageRest BY DEF IInv, CoverageOK, reconcile, Runnable
<1>2. Done(p, c, "ok") \/ toPage' = toPage BY DEF reconcile
<1> HIDE DEF c
<1> QED BY <1>1, <1>2, DoneWindows

LEMMA RelayAnswersWindows ==
  ASSUME IInv, IInv', Windows, NEW p \in Peers, RelayAnswers(p)
  PROVE  Windows'
<1> DEFINE c == coverage[p]  d == [c EXCEPT !.held = (c.awaits = "enable")]
           e == IF c.awaits = "enable" THEN RefusedEnable(c) ELSE c
<1>1. c \in Cover /\ c.steps # <<>> /\ UNCHANGED coverageRest
  BY DEF IInv, CoverageOK, Queued, RelayAnswers
<1>2. Done(p, d, "ok") \/ Done(p, e, "error") BY DEF RelayAnswers
<1>3. d \in Cover /\ d.steps = c.steps BY <1>1 DEF Cover
<1>4. e \in Cover /\ e.steps = c.steps
  <2>1. c.count \in Nat BY <1>1 DEF Cover
  <2>2. (IF c.steps[1].op = "enable" /\ c.count > 0 THEN c.count - 1 ELSE c.count) \in Nat BY <2>1
  <2> QED BY <1>1, <2>2 DEF RefusedEnable, Cover
<1> HIDE DEF c, d, e
<1>5. CASE Done(p, d, "ok") BY <1>1, <1>3, <1>5, DoneWindows
<1>6. CASE Done(p, e, "error") BY <1>1, <1>4, <1>6, DoneWindows
<1> QED BY <1>2, <1>5, <1>6

(* A chunk is billed where it is sent.                                     *)
LEMMA writeWindows ==
  ASSUME IInv, IInv', Windows, write
  PROVE  Windows'
<1> DEFINE S == {r \in Subscribed : Alive(r)}  m == LedgerBilling(S)
<1>1. /\ UNCHANGED <<toMain, proxy, wc, senders>> /\ Flow!Commit(m, jobs)
      /\ toPage' = [r \in Renderers |-> IF r \in S THEN Append(toPage[r], Message("output", senders[r].peer)) ELSE toPage[r]]
  BY DEF write, mainVars, pageVars
<1>2. Registry /\ FlowOK BY DEF IInv
<1>3. S \in SUBSET Known BY <1>2 DEF Registry
<1> HIDE DEF S
<1>4. Commits(m, jobs) /\ Billing(m, S, made) /\ Gone(S, made) = PeersOf(S) BY <1>1, <1>2, <1>3, writeLedger
<1> HIDE DEF m
<1>5. \A p \in Peers : ledger'.outstanding[p] = ledger.outstanding[p] + IF p \in PeersOf(S) THEN 1 ELSE 0
  <2>1. ledger'.outstanding = m.outstanding BY <1>2, <1>4, CommitDoes
  <2> QED BY <1>4, <2>1 DEF Billing
<1>6. Subscribed' = Subscribed BY <1>1 DEF Subscribed
<1>7. ASSUME NEW q \in Renderers PROVE WindowOK(q)'
  <2> DEFINE p == senders[q].peer
  <2>1. SameProxy(q) BY <1>1 DEF SameProxy, Alive
  <2>2. ASSUME Alive(q), q \in Subscribed
        PROVE  ledger'.outstanding[p] + Chunks(toPage[q], p) <= ledger.outstanding[p] + Chunks(toPage'[q], p)
    <3>1. /\ p \in Peers /\ p \in Nat /\ ledger.outstanding[p] \in Nat /\ Chunks(toPage[q], p) \in Nat
          /\ toPage[q] \in Seq(Notice)
      BY <2>2, OwedTypes
    <3>2. q \in S BY <2>2 DEF S
    <3>3. ledger'.outstanding[p] = ledger.outstanding[p] + 1 BY <1>5, <3>1, <3>2 DEF PeersOf
    <3>4. toPage'[q] = Append(toPage[q], Message("output", p)) BY <1>1, <3>2
    <3>5. Message("output", p) \in Notice /\ Message("output", p).what = "output" /\ Message("output", p).n = p
      BY <3>1 DEF Message, Notice
    <3>6. Chunks(toPage'[q], p) = Chunks(toPage[q], p) + 1
      <4>1. \A x \in Notice : Chunks(Append(toPage[q], x), p) = Chunks(toPage[q], p) + IF x.what = "output" /\ x.n = p THEN 1 ELSE 0
        BY <3>1, ChunksDo
      <4> QED BY <3>4, <3>5, <4>1
    <3> QED BY <3>1, <3>3, <3>6
  <2> QED BY <1>1, <1>6, <1>7, <2>1, <2>2, StillKeeps DEF Windows
<1> QED BY <1>7 DEF Windows

LEMMA FlowWindows ==
  ASSUME IInv, IInv', Windows, UNCHANGED bridgeVars, tmux \/ Reply \/ ConnectionLost \/ Continuation
  PROVE  Windows'
<1>1. UNCHANGED <<toMain, toPage, proxy, wc, senders>> BY DEF bridgeVars, mainVars, pageVars
<1>2. FlowOK BY DEF IInv
<1>3. ledger'.outstanding = ledger.outstanding
  <2>1. CASE tmux BY <1>2, <2>1, OutputDoes, ExecuteDoes DEF tmux
  <2>2. CASE Reply BY <1>2, <2>2, ReplyDoes DEF Reply
  <2>3. CASE ConnectionLost BY <1>2, <2>3, LostDoes DEF ConnectionLost
  <2>4. CASE Continuation BY <1>2, <2>4, JobDoes DEF Continuation
  <2> QED BY <2>1, <2>2, <2>3, <2>4
<1>4. \A q \in Renderers : SameProxy(q) BY <1>1 DEF SameProxy, Alive
<1> QED BY <1>1, <1>3, <1>4, PageQuiet

LEMMA NothingWindows ==
  ASSUME IInv, IInv', Windows, UNCHANGED vars
  PROVE  Windows'
<1>1. UNCHANGED <<toMain, toPage, proxy, wc, senders, ledger>> BY DEF vars, flowVars, mainVars, pageVars
<1>2. \A q \in Renderers : SameProxy(q) BY <1>1 DEF SameProxy, Alive
<1> QED BY <1>1, <1>2, PageQuiet

LEMMA WindowsKeep ==
  ASSUME ~Reloads, IInv, IInv', Windows, [Next]_vars
  PROVE  Windows'
<1>1. ASSUME NEW r \in Renderers, createRendererBridge(r) PROVE Windows' BY <1>1, createRendererBridgeWindows
<1>2. ASSUME NEW r \in Renderers, close(r) PROVE Windows' BY <1>2, closeWindows
<1>3. ASSUME NEW r \in Renderers, NEW method \in {"enable", "disable"}, invoke(r, method) PROVE Windows'
  BY <1>3, invokeWindows
<1>4. ASSUME NEW i \in DOMAIN calls, withTimeout(i) PROVE Windows' BY <1>4, withTimeoutWindows
<1>5. ASSUME NEW r \in Renderers, onOutput(r) PROVE Windows' BY <1>5, onOutputWindows
<1>6. ASSUME NEW r \in Renderers, onConnectionState(r) PROVE Windows' BY <1>6, onConnectionStateWindows
<1>7. ASSUME NEW r \in Renderers, onReply(r) PROVE Windows' BY <1>7, onReplyWindows
<1>8. ASSUME NEW r \in Renderers, Destroy(r) PROVE Windows' BY <1>8, DestroyWindows
<1>9. ASSUME NEW r \in Renderers, register(r) PROVE Windows' BY <1>9, registerWindows
<1>10. ASSUME NEW r \in Renderers, unregister(r) PROVE Windows' BY <1>10, unregisterWindows
<1>11. ASSUME NEW r \in Renderers, ack(r) PROVE Windows' BY <1>11, ackWindows
<1>12. ASSUME NEW r \in Renderers, onDestroyed(r) PROVE Windows' BY <1>12, onDestroyedWindows
<1>13. ASSUME broadcast PROVE Windows' BY <1>13, broadcastWindows
<1>14. ASSUME broadcastClosed PROVE Windows' BY <1>14, broadcastClosedWindows
<1>15. ASSUME dispose PROVE Windows' BY <1>15, disposeWindows
<1>16. ASSUME NEW r \in Renderers, handle(r) PROVE Windows' BY <1>16, handleWindows
<1>17. ASSUME NEW r \in Renderers, Unheard(r) PROVE Windows' BY <1>17, UnheardWindows
<1>18. ASSUME NEW p \in Peers, reconcile(p) PROVE Windows' BY <1>18, reconcileWindows
<1>19. ASSUME NEW p \in Peers, RelayAnswers(p) PROVE Windows' BY <1>19, RelayAnswersWindows
<1>20. ASSUME write PROVE Windows' BY <1>20, writeWindows
<1>21. ASSUME tmux \/ Reply \/ ConnectionLost \/ Continuation, UNCHANGED bridgeVars PROVE Windows'
  BY <1>21, FlowWindows
<1>22. ASSUME UNCHANGED vars PROVE Windows' BY <1>22, NothingWindows
<1> QED BY <1>1, <1>2, <1>3, <1>4, <1>5, <1>6, <1>7, <1>8, <1>9, <1>10, <1>11, <1>12, <1>13, <1>14,
           <1>15, <1>16, <1>17, <1>18, <1>19, <1>20, <1>21, <1>22 DEF Next

LEMMA WindowsInit ==
  ASSUME Init
  PROVE  Windows
<1>1. ASSUME NEW r \in Renderers PROVE WindowOK(r)
  <2>1. toMain[r] = <<>> /\ r \notin Subscribed /\ ~proxy[r].open BY DEF Init, Subscribed
  <2>2. DOMAIN toMain[r] = {} BY <2>1
  <2>3. Turns(toMain[r], r \in Subscribed, proxy[r].open, Alive(r))
    BY <2>1, <2>2 DEF Turns, Parted, Batched, Shut, Led, Ends
  <2> QED BY <2>1, <2>3 DEF WindowOK
<1> QED BY <1>1 DEF Windows

-----------------------------------------------------------------------------
(* The Continue of an episode, and what tmux was told last                 *)

Has(s, A) == \E i \in DOMAIN s : s[i] \in A

LEMMA HasDoes ==
  ASSUME NEW T, NEW s \in Seq(T), NEW A
  PROVE  /\ ~Has(<<>>, A)
         /\ \A x \in T : Has(Append(s, x), A) <=> Has(s, A) \/ x \in A
         /\ s # <<>> => (Has(s, A) <=> s[1] \in A \/ Has(Tail(s), A))
<1>1. ~Has(<<>>, A) BY DEF Has
<1>2. ASSUME NEW x \in T PROVE Has(Append(s, x), A) <=> Has(s, A) \/ x \in A
  <2> DEFINE t == Append(s, x)  n == Len(s) + 1
  <2>1. DOMAIN t = (DOMAIN s) \cup {n} /\ t[n] = x /\ \A i \in DOMAIN s : t[i] = s[i] BY LongerBox
  <2> HIDE DEF t, n
  <2>2. Has(t, A) <=> Has(s, A) \/ x \in A BY <2>1 DEF Has
  <2> QED BY <2>2 DEF t
<1>3. ASSUME s # <<>> PROVE Has(s, A) <=> s[1] \in A \/ Has(Tail(s), A)
  <2> DEFINE t == Tail(s)
  <2>1. 1 \in DOMAIN s /\ \A i \in DOMAIN t : i + 1 \in DOMAIN s /\ t[i] = s[i + 1] BY <1>3, RestOfQueue
  <2>2. \A i \in DOMAIN s : i = 1 \/ (i - 1 \in DOMAIN t /\ t[i - 1] = s[i])
    <3>1. Len(s) \in Nat /\ DOMAIN s = 1..Len(s) /\ Len(s) # 0 BY <1>3, EmptySeq
    <3>2. DOMAIN t = 1..(Len(s) - 1) BY <1>3, <3>1
    <3>3. \A i \in DOMAIN s : i = 1 \/ (i - 1 \in DOMAIN t /\ (i - 1) + 1 = i) BY <3>1, <3>2
    <3> QED BY <2>1, <3>3
  <2> HIDE DEF t
  <2>3. Has(s, A) <=> s[1] \in A \/ Has(t, A) BY <2>1, <2>2 DEF Has
  <2> QED BY <2>3 DEF t
<1> QED BY <1>1, <1>2, <1>3

LEMMA HasConcat ==
  ASSUME NEW T, NEW s \in Seq(T), NEW t \in Seq(T), NEW A
  PROVE  Has(s \o t, A) <=> Has(s, A) \/ Has(t, A)
<1> DEFINE u == s \o t
<1>1. Len(s) \in Nat /\ DOMAIN s = 1..Len(s) /\ Len(t) \in Nat /\ DOMAIN t = 1..Len(t) OBVIOUS
<1>2. DOMAIN u = 1..(Len(s) + Len(t)) BY <1>1
<1>3. \A i \in DOMAIN s : i \in DOMAIN u /\ u[i] = s[i] BY <1>1, <1>2
<1>4. \A i \in DOMAIN t : Len(s) + i \in DOMAIN u /\ u[Len(s) + i] = t[i] BY <1>1, <1>2
<1>5. \A i \in DOMAIN u : i \in DOMAIN s \/ (i - Len(s) \in DOMAIN t /\ Len(s) + (i - Len(s)) = i) BY <1>1, <1>2
<1>6. \A i \in DOMAIN u : i \in DOMAIN s \/ (i - Len(s) \in DOMAIN t /\ u[i] = t[i - Len(s)]) BY <1>4, <1>5
<1> HIDE DEF u
<1>7. Has(u, A) <=> Has(s, A) \/ Has(t, A) BY <1>3, <1>4, <1>6 DEF Has
<1> QED BY <1>7 DEF u

Asking(e) == {c \in L!Command : L!LoopContinue(c) /\ c.episode = e}
Answering(e) == {n \in Note : n.reply /\ n.of \in Asking(e)}
Settling(e) == {j \in L!Settlement : j.episode = e}
Flying(e) == Has(sent, Asking(e)) \/ Has(inbox, Answering(e)) \/ Has(jobs, Settling(e))

LastOf(s) == s[Len(s)]
ToldLast == IF sent = <<>> THEN ~tmuxPaused ELSE LastOf(sent).action = "continue"
Wanted == ~Suppress \/ Subscribed # {}
LoopOK ==
  /\ ledger.resuming => ledger.flow # 0
  /\ live =>
       /\ ledger.flow # 0 => (ledger.resuming <=> Flying(ledger.flow))
       /\ \A e : Flying(e) => e <= ledger.episodes
       /\ Wanted /\ (ledger.flow = 0 \/ ledger.resuming) => ToldLast

LEMMA CommitFlies ==
  ASSUME FlowOK, live, NEW m, NEW rest, Commits(m, rest), rest = jobs,
         inbox' = inbox \/ (inbox # <<>> /\ ~inbox[1].reply /\ inbox' = Tail(inbox))
  PROVE  \A e : Flying(e)' <=> Flying(e) \/ Has(m.issued, Asking(e))
<1>1. sent' = sent \o m.issued /\ jobs' = jobs BY CommitDoes
<1>2. sent \in Seq(L!Command) /\ inbox \in Seq(Note) BY FlowTypes
<1>3. m.issued \in Seq(L!Command) BY RecordTypes DEF Commits
<1>4. ASSUME NEW e PROVE Flying(e)' <=> Flying(e) \/ Has(m.issued, Asking(e))
  <2> HIDE DEF L!Command, Note
  <2>1. Has(sent', Asking(e)) <=> Has(sent, Asking(e)) \/ Has(m.issued, Asking(e)) BY <1>1, <1>2, <1>3, HasConcat
  <2>2. Has(inbox', Answering(e)) <=> Has(inbox, Answering(e))
    <3>1. CASE inbox' = inbox BY <3>1
    <3>2. CASE inbox # <<>> /\ ~inbox[1].reply /\ inbox' = Tail(inbox)
      <4>1. Has(inbox, Answering(e)) <=> inbox[1] \in Answering(e) \/ Has(Tail(inbox), Answering(e))
        BY <1>2, <3>2, HasDoes
      <4>2. inbox[1] \notin Answering(e) BY <3>2 DEF Answering
      <4> QED BY <3>2, <4>1, <4>2
    <3> QED BY <3>1, <3>2
  <2> QED BY <1>1, <2>1, <2>2 DEF Flying
<1> QED BY <1>4

LEMMA LastOfConcat ==
  ASSUME NEW T, NEW s \in Seq(T), NEW t \in Seq(T), t # <<>>
  PROVE  s \o t # <<>> /\ LastOf(s \o t) = LastOf(t)
<1>1. Len(s) \in Nat /\ Len(t) \in Nat /\ Len(t) # 0 BY EmptySeq
<1>2. Len(s \o t) = Len(s) + Len(t) OBVIOUS
<1>3. (s \o t)[Len(s) + Len(t)] = t[Len(t)] BY <1>1
<1>4. Len(s \o t) # 0 BY <1>1, <1>2
<1> QED BY <1>2, <1>3, <1>4 DEF LastOf

(* What a call must issue for the loop to stay closed.                     *)
LEMMA LoopCommits ==
  ASSUME FlowOK, LoopOK, NEW m, NEW rest, Commits(m, rest), rest = jobs, UNCHANGED <<live, tmuxPaused>>,
         inbox' = inbox \/ (inbox # <<>> /\ ~inbox[1].reply /\ inbox' = Tail(inbox)),
         m.resuming => m.flow # 0, ledger.episodes <= m.episodes,
         live => /\ \A e : Has(m.issued, Asking(e)) => e <= m.episodes
                 /\ m.flow # 0 => (m.resuming <=> Flying(m.flow) \/ Has(m.issued, Asking(m.flow)))
                 /\ Wanted' /\ (m.flow = 0 \/ m.resuming) =>
                      IF m.issued = <<>> THEN ToldLast ELSE LastOf(m.issued).action = "continue"
  PROVE  LoopOK'
<1>1. /\ ledger'.flow = m.flow /\ ledger'.resuming = m.resuming /\ ledger'.episodes = m.episodes
      /\ live => sent' = sent \o m.issued
  BY CommitDoes
<1>2. ASSUME live
      PROVE  /\ m.flow # 0 => (m.resuming <=> Flying(m.flow)')
             /\ \A e : Flying(e)' => e <= m.episodes
             /\ Wanted' /\ (m.flow = 0 \/ m.resuming) => ToldLast'
  <2>1. \A e : Flying(e)' <=> Flying(e) \/ Has(m.issued, Asking(e)) BY <1>2, CommitFlies
  <2>2. m.flow # 0 => (m.resuming <=> Flying(m.flow)') BY <1>2, <2>1
  <2>3. ASSUME NEW e, Flying(e)' PROVE e <= m.episodes
    <3>1. ledger.episodes \in Nat /\ m.episodes \in Nat BY LedgerNow, RecordTypes DEF FlowOK, Commits
    <3>2. CASE Has(m.issued, Asking(e)) BY <1>2, <3>2
    <3>3. CASE Flying(e)
      <4>1. e <= ledger.episodes BY <1>2, <3>3 DEF LoopOK
      <4>2. e \in Nat
        <5>1. \A x \in L!Command : x.episode \in Nat BY DEF L!Command
        <5>2. \A x \in L!Settlement : x.episode \in Nat BY DEF L!Settlement
        <5> QED BY <3>3, <5>1, <5>2 DEF Flying, Has, Asking, Answering, Settling
      <4> QED BY <3>1, <4>1, <4>2
    <3> QED BY <2>1, <2>3, <3>2, <3>3
  <2>4. ASSUME Wanted', m.flow = 0 \/ m.resuming PROVE ToldLast'
    <3>1. sent \in Seq(L!Command) BY FlowTypes
    <3>2. m.issued \in Seq(L!Command) BY RecordTypes DEF Commits
    <3>3. CASE m.issued = <<>>
      <4>1. sent' = sent
        <5> HIDE DEF L!Command
        <5> QED BY <1>1, <1>2, <3>1, <3>3
      <4> QED BY <1>2, <2>4, <3>3, <4>1 DEF ToldLast, LastOf
    <3>4. CASE m.issued # <<>>
      <4>1. sent' # <<>> /\ LastOf(sent') = LastOf(m.issued)
        <5> HIDE DEF L!Command
        <5> QED BY <1>1, <1>2, <3>1, <3>2, <3>4, LastOfConcat
      <4> QED BY <1>2, <2>4, <3>4, <4>1 DEF ToldLast, LastOf
    <3> QED BY <3>3, <3>4
  <2> QED BY <2>2, <2>3, <2>4
<1>3. Flying(ledger.flow)' <=> Flying(m.flow)' BY <1>1 DEF Flying
<1> QED BY <1>1, <1>2, <1>3 DEF LoopOK

LEMMA LoopQuiet ==
  ASSUME LoopOK, UNCHANGED <<ledger, sent, inbox, jobs, live, tmuxPaused, senders>>
  PROVE  LoopOK'
<1>1. Subscribed' = Subscribed BY DEF Subscribed
<1>2. \A e : Flying(e)' <=> Flying(e) BY DEF Flying
<1>3. (Wanted' <=> Wanted) /\ (ToldLast' <=> ToldLast) BY <1>1 DEF Wanted, ToldLast
<1>4. Flying(ledger.flow)' <=> Flying(ledger.flow) BY DEF Flying
<1> QED BY <1>2, <1>3, <1>4 DEF LoopOK

(* What is issued for the episode there is, a Continue when it resumes.    *)
LEMMA AskedFlies ==
  ASSUME FlowOK, NEW m \in L!LedgerRecord, NEW on \in BOOLEAN, Asked(m, on)
  PROVE  /\ \A e : Has(m.issued, Asking(e)) => e = ledger.flow /\ e <= ledger.episodes
         /\ Has(m.issued, Asking(ledger.flow)) <=> m.resuming /\ ~ledger.resuming
<1>1. m.issued \in Seq(L!Command) BY RecordTypes
<1>2. \A i \in DOMAIN m.issued : m.issued[i] \in L!Command
  <2> HIDE DEF L!Command
  <2> QED BY <1>1, ElementOfSeq
<1>3. \A e : Has(m.issued, Asking(e)) => e = ledger.flow /\ e <= ledger.episodes
  BY DEF Has, Asking, Asked, FlowOK
<1>4. Has(m.issued, Asking(ledger.flow)) <=> \E i \in DOMAIN m.issued : L!LoopContinue(m.issued[i])
  BY <1>2 DEF Has, Asking, Asked
<1> QED BY <1>3, <1>4 DEF Asked

LEMMA LastCommand ==
  ASSUME NEW m \in L!LedgerRecord, m.issued # <<>>
  PROVE  Len(m.issued) \in DOMAIN m.issued
<1>1. m.issued \in Seq(L!Command) BY RecordTypes
<1>2. Len(m.issued) \in Nat /\ Len(m.issued) # 0 /\ DOMAIN m.issued = 1..Len(m.issued)
  <2> DEFINE s == m.issued
  <2>1. s \in Seq(L!Command) /\ s # <<>> BY <1>1
  <2> HIDE DEF s, L!Command
  <2>2. Len(s) \in Nat /\ Len(s) # 0 /\ DOMAIN s = 1..Len(s) BY <2>1, EmptySeq
  <2> QED BY <2>2 DEF s
<1> QED BY <1>2

LEMMA ToldAfter ==
  ASSUME FlowOK, LoopOK, live, NEW m \in L!LedgerRecord, NEW on, on = TRUE, Asked(m, on),
         Wanted \/ m.issued # <<>>, ledger.flow = 0 \/ m.resuming
  PROVE  IF m.issued = <<>> THEN ToldLast ELSE LastOf(m.issued).action = "continue"
<1>1. CASE m.issued # <<>> BY <1>1, LastCommand DEF Asked, LastOf
<1>2. CASE m.issued = <<>>
  <2>1. m.resuming => ledger.resuming
    <3>1. ~Has(<<>>, Asking(ledger.flow)) BY DEF Has
    <3>2. on \in BOOLEAN OBVIOUS
    <3>3. Has(m.issued, Asking(ledger.flow)) <=> m.resuming /\ ~ledger.resuming BY <3>2, AskedFlies
    <3> QED BY <1>2, <3>1, <3>3
  <2> QED BY <1>2, <2>1 DEF LoopOK
<1> QED BY <1>1, <1>2

LEMMA LoopAsked ==
  ASSUME FlowOK, LoopOK, NEW m, NEW rest, Commits(m, rest), rest = jobs,
         UNCHANGED <<live, tmuxPaused, inbox>>, m.flow = ledger.flow, m.episodes = ledger.episodes,
         NEW on \in BOOLEAN, Asked(m, on), Wanted' => on /\ (Wanted \/ m.issued # <<>>)
  PROVE  LoopOK'
<1>1. m \in L!LedgerRecord /\ m.resuming \in BOOLEAN /\ ledger.resuming \in BOOLEAN /\ ledger.episodes \in Nat
  BY LedgerNow, RecordTypes DEF Commits, FlowOK
<1>2. /\ \A e : Has(m.issued, Asking(e)) => e <= ledger.episodes
      /\ Has(m.issued, Asking(ledger.flow)) <=> m.resuming /\ ~ledger.resuming
  BY <1>1, AskedFlies
<1>3. (m.resuming => m.flow # 0) /\ (ledger.resuming => m.resuming) BY DEF Asked, LoopOK
<1>4. ledger.episodes <= m.episodes BY <1>1
<1>5. ASSUME live
      PROVE  /\ \A e : Has(m.issued, Asking(e)) => e <= m.episodes
             /\ m.flow # 0 => (m.resuming <=> Flying(m.flow) \/ Has(m.issued, Asking(m.flow)))
             /\ Wanted' /\ (m.flow = 0 \/ m.resuming) =>
                  IF m.issued = <<>> THEN ToldLast ELSE LastOf(m.issued).action = "continue"
  <2>1. \A e : Has(m.issued, Asking(e)) => e <= m.episodes BY <1>2
  <2>2. ASSUME m.flow # 0 PROVE m.resuming <=> Flying(m.flow) \/ Has(m.issued, Asking(m.flow))
    <3>1. ledger.resuming <=> Flying(m.flow) BY <1>5, <2>2 DEF LoopOK
    <3> QED BY <1>2, <1>3, <3>1
  <2>3. ASSUME Wanted', m.flow = 0 \/ m.resuming
        PROVE  IF m.issued = <<>> THEN ToldLast ELSE LastOf(m.issued).action = "continue"
    <3>1. on = TRUE /\ (Wanted \/ m.issued # <<>>) BY <2>3
    <3> QED BY <1>1, <1>5, <2>3, <3>1, ToldAfter
  <2> QED BY <2>1, <2>2, <2>3
<1>6. inbox' = inbox \/ (inbox # <<>> /\ ~inbox[1].reply /\ inbox' = Tail(inbox)) OBVIOUS
<1> QED BY <1>3, <1>4, <1>5, <1>6, LoopCommits

-----------------------------------------------------------------------------
(* One step, for the loop                                                  *)

LEMMA TurnRests ==
  ASSUME Turn
  PROVE  <<>> = jobs
BY DEF Turn, Flow!Idle

LEMMA TornLoop ==
  ASSUME IInv, LoopOK, NEW R \in SUBSET Known, teardown(R), NEW rest, rest = jobs,
         Flow!Commit(LedgerWithout(R), rest), UNCHANGED <<live, tmuxPaused, inbox>>
  PROVE  LoopOK'
<1> DEFINE m == LedgerWithout(R)
<1>1. Registry /\ FlowOK /\ HeldBack(ledger) /\ ledger.issued = <<>> BY LedgerNow DEF IInv, FlowOK
<1>2. m.flow = ledger.flow /\ m.episodes = ledger.episodes /\ Asked(m, Watched(R)) BY <1>1, WithoutAll
<1>3. Flow!Commit(m, rest) /\ (m = LedgerWithout(R) \/ m = Flow!flushPausedPanes(LedgerWithout(R))) OBVIOUS
<1> HIDE DEF m
<1>4. Commits(m, rest)
  <2>1. rest \in {<<>>, jobs} OBVIOUS
  <2> QED BY <1>1, <1>3, <2>1, CommitWithout
<1>5. Subscribed' = Subscribed \ R
  <2>1. \A q \in Renderers : senders'[q] = IF q \in R THEN [peer |-> 0, subscribed |-> FALSE] ELSE senders[q]
    BY Zenon DEF teardown
  <2> QED BY <2>1 DEF Subscribed
<1>6. Wanted' => Watched(R) /\ Wanted BY <1>5 DEF Wanted, Watched
<1> DEFINE on == Watched(R)
<1>7. on \in BOOLEAN /\ Asked(m, on) BY <1>2 DEF Watched
<1>8. Wanted' => on /\ (Wanted \/ m.issued # <<>>) BY <1>6
<1> HIDE DEF on
<1> QED BY <1>1, <1>2, <1>4, <1>7, <1>8, LoopAsked

LEMMA unregisterLoop ==
  ASSUME IInv, LoopOK, NEW r \in Renderers, unregister(r)
  PROVE  LoopOK'
<1>1. /\ teardown({r} \cap Known) /\ Flow!Commit(LedgerWithout({r} \cap Known), <<>>) /\ Turn
      /\ UNCHANGED <<live, tmuxPaused, inbox>>
  BY DEF unregister, Reads, mainRest
<1> QED BY <1>1, TurnRests, TornLoop

LEMMA onDestroyedLoop ==
  ASSUME IInv, LoopOK, NEW r \in Renderers, onDestroyed(r)
  PROVE  LoopOK'
<1>1. /\ teardown({r} \cap Known) /\ Flow!Commit(LedgerWithout({r} \cap Known), <<>>) /\ Turn
      /\ UNCHANGED <<live, tmuxPaused, inbox>>
  BY DEF onDestroyed
<1> QED BY <1>1, TurnRests, TornLoop

LEMMA broadcastLoop ==
  ASSUME IInv, LoopOK, broadcast
  PROVE  LoopOK'
<1>1. /\ teardown(Stale) /\ Flow!Commit(LedgerWithout(Stale), <<>>) /\ Turn
      /\ UNCHANGED <<live, tmuxPaused, inbox>>
  BY DEF broadcast, mainRest
<1>2. Stale \in SUBSET Known BY DEF Stale
<1> QED BY <1>1, <1>2, TurnRests, TornLoop

LEMMA broadcastClosedLoop ==
  ASSUME IInv, LoopOK, broadcastClosed
  PROVE  LoopOK'
<1>1. UNCHANGED <<live, tmuxPaused, inbox>> BY DEF broadcastClosed
<1>2. CASE disposed
  <2>1. UNCHANGED <<ledger, sent, jobs, senders>> BY <1>2 DEF broadcastClosed, Nothing
  <2> QED BY <1>1, <2>1, LoopQuiet
<1>3. CASE ~disposed
  <2>1. teardown(Stale) /\ Flow!Commit(LedgerWithout(Stale), jobs) BY <1>3 DEF broadcastClosed
  <2>2. Stale \in SUBSET Known BY DEF Stale
  <2> QED BY <1>1, <2>1, <2>2, TornLoop
<1> QED BY <1>2, <1>3

LEMMA disposeLoop ==
  ASSUME IInv, LoopOK, dispose
  PROVE  LoopOK'
<1> DEFINE w == LedgerWithout(Known)  m == Flow!flushPausedPanes(w)
           R == Known
<1>1. teardown(R) /\ Flow!Commit(m, <<>>) /\ UNCHANGED <<live, tmuxPaused, inbox>> /\ <<>> = jobs
  BY TurnRests DEF dispose
<1>2. Registry /\ FlowOK /\ HeldBack(ledger) /\ ledger.issued = <<>> BY LedgerNow DEF IInv, FlowOK
<1>3. R \in SUBSET Known OBVIOUS
<1>4. w \in L!LedgerRecord /\ w.flow = ledger.flow /\ w.episodes = ledger.episodes /\ Asked(w, Watched(R))
  BY <1>2, <1>3, WithoutAll
<1>5. Commits(m, <<>>)
  <2>1. <<>> \in {<<>>, jobs} OBVIOUS
  <2> QED BY <1>1, <1>2, <1>3, <2>1, CommitWithout
<1>6. Subscribed' = {}
  <2>1. \A q \in Renderers : senders'[q] = IF q \in Known THEN [peer |-> 0, subscribed |-> FALSE] ELSE senders[q]
    BY Zenon, <1>1 DEF teardown
  <2> QED BY <1>2, <2>1 DEF Subscribed, Registry
<1>7. Wanted' => Watched(R) /\ Wanted BY <1>6 DEF Wanted, Watched
<1> HIDE DEF w
<1>8. /\ m.flow = 0 /\ ~m.resuming /\ m.episodes = ledger.episodes
      /\ IF w.flow = 0 \/ w.resuming THEN m.issued = w.issued
         ELSE m.issued = Append(w.issued, [action |-> "continue", episode |-> w.flow, flush |-> TRUE])
  BY <1>4, FlushDoes
<1> DEFINE on == Watched(R)
<1>9. on \in BOOLEAN /\ Asked(w, on) BY <1>4 DEF Watched
<1>10. /\ w.issued \in Seq(L!Command) /\ w.resuming \in BOOLEAN
       /\ ledger.episodes \in Nat /\ ledger.flow \in Nat /\ ledger.resuming \in BOOLEAN
  BY <1>2, <1>4, LedgerNow, RecordTypes DEF FlowOK
<1> HIDE DEF on, m
<1>11. \A e : Has(w.issued, Asking(e)) => e <= ledger.episodes BY <1>2, <1>4, <1>9, AskedFlies
<1>12. ASSUME live
       PROVE  /\ \A e : Has(m.issued, Asking(e)) => e <= m.episodes
              /\ Wanted' => IF m.issued = <<>> THEN ToldLast ELSE LastOf(m.issued).action = "continue"
  <2>1. CASE w.flow = 0 \/ w.resuming
    <3>1. m.issued = w.issued BY <1>8, <2>1
    <3>2. \A e : Has(m.issued, Asking(e)) => e <= m.episodes BY <1>8, <1>11, <3>1
    <3>3. ASSUME Wanted' PROVE IF w.issued = <<>> THEN ToldLast ELSE LastOf(w.issued).action = "continue"
      <4>1. on = TRUE /\ Wanted BY <1>7, <1>9, <3>3 DEF on
      <4>2. ledger.flow = 0 \/ w.resuming BY <1>4, <2>1
      <4> QED BY <1>2, <1>4, <1>9, <1>12, <4>1, <4>2, ToldAfter
    <3> QED BY <3>1, <3>2, <3>3
  <2>2. CASE ~(w.flow = 0 \/ w.resuming)
    <3> DEFINE c == [action |-> "continue", episode |-> w.flow, flush |-> TRUE]
    <3>1. m.issued = Append(w.issued, c) BY <1>8, <2>2
    <3>2. c \in L!Command /\ c.action = "continue" /\ ~L!LoopContinue(c) BY <1>4, <1>10 DEF L!Command, L!LoopContinue
    <3> HIDE DEF c
    <3>3. ASSUME NEW e, Has(m.issued, Asking(e)) PROVE e <= m.episodes
      <4>1. c \notin Asking(e) BY <3>2 DEF Asking
      <4>2. Has(Append(w.issued, c), Asking(e)) <=> Has(w.issued, Asking(e)) \/ c \in Asking(e)
        <5> HIDE DEF L!Command
        <5> QED BY <1>10, <3>2, HasDoes
      <4> QED BY <1>8, <1>11, <3>1, <3>3, <4>1, <4>2
    <3>4. m.issued # <<>> /\ LastOf(m.issued) = c
      <4>1. Len(Append(w.issued, c)) = Len(w.issued) + 1 /\ Len(w.issued) \in Nat
            /\ Append(w.issued, c)[Len(w.issued) + 1] = c
        <5> HIDE DEF L!Command
        <5> QED BY <1>10, <3>2
      <4>2. Len(m.issued) # 0 /\ Len(<<>>) = 0 BY <3>1, <4>1
      <4> QED BY <3>1, <4>1, <4>2 DEF LastOf
    <3> QED BY <3>2, <3>3, <3>4
  <2> QED BY <2>1, <2>2
<1>13. live => /\ \A e : Has(m.issued, Asking(e)) => e <= m.episodes
               /\ m.flow # 0 => (m.resuming <=> Flying(m.flow) \/ Has(m.issued, Asking(m.flow)))
               /\ Wanted' /\ (m.flow = 0 \/ m.resuming) =>
                    IF m.issued = <<>> THEN ToldLast ELSE LastOf(m.issued).action = "continue"
  BY <1>8, <1>12
<1>14. /\ inbox' = inbox \/ (inbox # <<>> /\ ~inbox[1].reply /\ inbox' = Tail(inbox))
       /\ (m.resuming => m.flow # 0) /\ ledger.episodes <= m.episodes
  BY <1>1, <1>8, <1>10
<1> QED BY <1>1, <1>2, <1>5, <1>13, <1>14, LoopCommits

LEMMA registerLoop ==
  ASSUME IInv, LoopOK, NEW r \in Renderers, register(r)
  PROVE  LoopOK'
<1> DEFINE p == Token(r)  m == onPaneBecameInteresting(getOrCreate(r, ledger))
<1>1. Turn /\ UNCHANGED <<live, tmuxPaused, inbox>> BY DEF register, Reads, mainRest
<1>2. CASE ~Reachable(r)
  <2>1. UNCHANGED <<ledger, sent, jobs, senders>> BY <1>2 DEF register, Nothing
  <2> QED BY <1>1, <2>1, LoopQuiet
<1>3. CASE Reachable(r)
  <2>1. p \in Peers /\ Flow!Commit(m, <<>>)
        /\ senders' = [senders EXCEPT ![r] = [peer |-> Token(r), subscribed |-> TRUE]]
    BY <1>3 DEF register
  <2>2. m = onPaneBecameInteresting([ledger EXCEPT !.registered = @ \cup {p}]) BY DEF getOrCreate
  <2>3. Registry /\ FlowOK BY DEF IInv
  <2> HIDE DEF m
  <2>4. /\ m \in L!LedgerRecord /\ m.outstanding = ledger.outstanding /\ m.flow = ledger.flow
        /\ m.episodes = ledger.episodes /\ m.resuming = ledger.resuming
        /\ IF Subscribed = {} /\ Suppress
             THEN m.issued = <<[action |-> "continue", episode |-> ledger.flow, flush |-> TRUE]>>
             ELSE m.issued = <<>>
    BY <2>1, <2>2, <2>3, SubscribedLedger
  <2>5. Commits(m, <<>>) BY <2>1, <2>3, <2>4 DEF Commits, FlowOK, HeldBack, L!totalOutstanding
  <2>6. ledger.resuming \in BOOLEAN /\ ledger.flow \in Nat BY <2>3, LedgerNow, RecordTypes DEF FlowOK
  <2>7. Asked(m, TRUE)
    <3>1. \A i \in DOMAIN m.issued : /\ m.issued[i].episode = ledger.flow /\ m.issued[i].action = "continue"
                                     /\ ~L!LoopContinue(m.issued[i])
      <4>1. CASE m.issued = <<>> BY <4>1
      <4>2. CASE m.issued = <<[action |-> "continue", episode |-> ledger.flow, flush |-> TRUE]>>
        BY <4>2 DEF L!LoopContinue
      <4> QED BY <2>4, <4>1, <4>2
    <3> QED BY <2>4, <2>6, <3>1 DEF Asked
  <2>8. Wanted' => Wanted \/ m.issued # <<>>
    <3>1. <<[action |-> "continue", episode |-> ledger.flow, flush |-> TRUE]>> # <<>> OBVIOUS
    <3>2. ~Wanted => Subscribed = {} /\ Suppress BY DEF Wanted
    <3> QED BY <2>4, <3>1, <3>2
  <2> DEFINE on == TRUE
  <2>9. on \in BOOLEAN /\ Asked(m, on) /\ (Wanted' => on /\ (Wanted \/ m.issued # <<>>)) BY <2>7, <2>8
  <2> HIDE DEF on
  <2> QED BY <1>1, <2>3, <2>4, <2>5, <2>9, TurnRests, LoopAsked
<1> QED BY <1>2, <1>3

LEMMA ackLoop ==
  ASSUME IInv, LoopOK, NEW r \in Renderers, ack(r)
  PROVE  LoopOK'
<1> DEFINE n == toMain[r][1].n  m == IF Knows(r) THEN Flow!ack(ledger, senders[r].peer, n) ELSE ledger
<1>1. /\ toMain[r] # <<>> /\ Turn /\ UNCHANGED <<live, tmuxPaused, inbox, senders>> /\ Flow!Commit(m, <<>>)
  BY DEF ack, Reads, mainRest
<1>2. n \in Nat
  <2>1. toMain[r] \in Seq(Request) BY OwedTypes
  <2>2. toMain[r][1] \in Request BY <1>1, <2>1, RestOfQueue
  <2> QED BY <2>2 DEF Request
<1>3. Registry /\ FlowOK /\ Billed BY DEF IInv
<1>4. /\ m \in L!LedgerRecord /\ m.flow = ledger.flow /\ m.episodes = ledger.episodes /\ HeldBack(m)
      /\ Asked(m, TRUE)
  BY <1>2, <1>3, ackLedger
<1> HIDE DEF m
<1>5. Commits(m, <<>>) BY <1>1, <1>3, <1>4 DEF Commits, FlowOK
<1>6. Wanted' <=> Wanted BY <1>1 DEF Wanted, Subscribed
<1> DEFINE on == TRUE
<1>7. on \in BOOLEAN /\ Asked(m, on) /\ (Wanted' => on /\ (Wanted \/ m.issued # <<>>)) BY <1>4, <1>6
<1> HIDE DEF on
<1> QED BY <1>1, <1>3, <1>4, <1>5, <1>7, TurnRests, LoopAsked

LEMMA handleLoop ==
  ASSUME IInv, LoopOK, NEW r \in Renderers, handle(r)
  PROVE  LoopOK'
<1> DEFINE p == Token(r)  m == getOrCreate(r, ledger)
<1>1. Turn /\ UNCHANGED <<live, tmuxPaused, inbox>> BY DEF handle, Reads, mainRest
<1>2. CASE ~Reachable(r)
  <2>1. UNCHANGED <<ledger, sent, jobs, senders>> BY <1>2 DEF handle
  <2> QED BY <1>1, <2>1, LoopQuiet
<1>3. CASE Reachable(r)
  <2>1. p \in Peers /\ Flow!Commit(m, <<>>) /\ senders' = [senders EXCEPT ![r].peer = p]
    BY <1>3 DEF handle
  <2>2. m = [ledger EXCEPT !.registered = @ \cup {p}] BY DEF getOrCreate
  <2>3. Registry /\ FlowOK BY DEF IInv
  <2> HIDE DEF m
  <2>4. /\ m \in L!LedgerRecord /\ m.outstanding = ledger.outstanding /\ m.flow = ledger.flow
        /\ m.episodes = ledger.episodes /\ m.resuming = ledger.resuming /\ m.issued = <<>>
    BY <2>1, <2>2, <2>3, EnrolledLedger
  <2>5. Commits(m, <<>>) BY <2>1, <2>3, <2>4 DEF Commits, FlowOK, HeldBack, L!totalOutstanding
  <2>6. ledger.resuming \in BOOLEAN BY <2>3, LedgerNow, RecordTypes DEF FlowOK
  <2>7. Asked(m, TRUE) BY <2>4, <2>6 DEF Asked
  <2>8. Subscribed' = Subscribed BY <2>1, <2>3 DEF Subscribed, Registry
  <2>9. Wanted' => Wanted BY <2>8 DEF Wanted
  <2> DEFINE on == TRUE
  <2>10. on \in BOOLEAN /\ Asked(m, on) /\ (Wanted' => on /\ (Wanted \/ m.issued # <<>>)) BY <2>7, <2>9
  <2> HIDE DEF on
  <2> QED BY <1>1, <2>3, <2>4, <2>5, <2>10, TurnRests, LoopAsked
<1> QED BY <1>2, <1>3

LEMMA writeLoop ==
  ASSUME IInv, LoopOK, write
  PROVE  LoopOK'
<1> DEFINE S == {r \in Subscribed : Alive(r)}  m == LedgerBilling(S)
<1>1. /\ UNCHANGED <<live, tmuxPaused, senders>> /\ Flow!Commit(m, jobs)
      /\ inbox # <<>> /\ ~inbox[1].reply /\ inbox' = Tail(inbox)
  BY DEF write, mainVars, Flow!Reading
<1>2. Registry /\ FlowOK BY DEF IInv
<1>3. S \in SUBSET Known BY <1>2 DEF Registry
<1> HIDE DEF S
<1>4. Commits(m, jobs) /\ Billing(m, S, made) BY <1>1, <1>2, <1>3, writeLedger
<1> HIDE DEF m
<1>5. ledger.episodes \in Nat /\ ledger.flow \in Nat /\ ledger.flow <= ledger.episodes
  BY <1>2, LedgerNow, RecordTypes DEF FlowOK
<1>6. Wanted' <=> Wanted BY <1>1 DEF Wanted, Subscribed
<1>7. m.resuming = ledger.resuming BY <1>4 DEF Billing
<1>8. CASE m.flow = ledger.flow /\ m.episodes = ledger.episodes /\ m.issued = <<>>
  <2>1. \A e : ~Has(m.issued, Asking(e)) BY <1>8 DEF Has
  <2>2. (m.resuming => m.flow # 0) /\ ledger.episodes <= m.episodes BY <1>5, <1>7, <1>8 DEF LoopOK
  <2>3. ASSUME live
        PROVE  /\ m.flow # 0 => (m.resuming <=> Flying(m.flow) \/ Has(m.issued, Asking(m.flow)))
               /\ Wanted' /\ (m.flow = 0 \/ m.resuming) =>
                    IF m.issued = <<>> THEN ToldLast ELSE LastOf(m.issued).action = "continue"
    BY <1>6, <1>7, <1>8, <2>1, <2>3 DEF LoopOK
  <2> QED BY <1>1, <1>2, <1>4, <2>1, <2>2, <2>3, LoopCommits
<1>9. CASE /\ ledger.flow = 0 /\ m.flow = ledger.episodes + 1 /\ m.episodes = ledger.episodes + 1
           /\ m.issued = <<L!Pause(m.flow)>>
  <2>1. \A e : ~Has(m.issued, Asking(e)) BY <1>9 DEF Has, Asking, L!Pause, L!LoopContinue
  <2>2. ~m.resuming /\ m.flow # 0 /\ ledger.episodes <= m.episodes BY <1>5, <1>7, <1>9 DEF LoopOK
  <2>3. live => ~Flying(m.flow)
    <3>1. ~(m.flow <= ledger.episodes) BY <1>5, <1>9
    <3> QED BY <3>1 DEF LoopOK
  <2> QED BY <1>1, <1>2, <1>4, <2>1, <2>2, <2>3, LoopCommits
<1> QED BY <1>4, <1>8, <1>9 DEF Billing

(* A command that tmux executes is answered; its effect was the last.      *)
LEMMA ExecuteLoop ==
  ASSUME FlowOK, LoopOK, Flow!TmuxExecute, senders' = senders
  PROVE  LoopOK'
<1>1. /\ live /\ sent # <<>> /\ sent[1] \in L!Command
      /\ sent' = Tail(sent) /\ tmuxPaused' = (sent[1].action = "pause")
      /\ inbox' = Append(inbox, [reply |-> TRUE, ok |-> TRUE, of |-> sent[1]])
      /\ UNCHANGED <<ledger, live, jobs>>
  BY ExecuteDoes
<1>2. sent \in Seq(L!Command) /\ inbox \in Seq(Note) BY FlowTypes
<1> DEFINE n == [reply |-> TRUE, ok |-> TRUE, of |-> sent[1]]
<1>3. n \in Note /\ n.reply = TRUE /\ n.of = sent[1] BY <1>1 DEF Note
<1>4. inbox' = Append(inbox, n) BY <1>1
<1> HIDE DEF n, L!Command, Note
<1>5. ASSUME NEW e PROVE Flying(e)' <=> Flying(e)
  <2>1. Has(inbox', Answering(e)) <=> Has(inbox, Answering(e)) \/ n \in Answering(e) BY <1>2, <1>3, <1>4, HasDoes
  <2>2. n \in Answering(e) <=> sent[1] \in Asking(e) BY <1>3 DEF Answering
  <2>3. Has(sent, Asking(e)) <=> sent[1] \in Asking(e) \/ Has(sent', Asking(e)) BY <1>1, <1>2, HasDoes
  <2> QED BY <1>1, <2>1, <2>2, <2>3 DEF Flying
<1>6. ToldLast' <=> ToldLast
  <2>1. Len(sent) \in Nat /\ Len(sent) # 0 BY <1>1, <1>2, EmptySeq
  <2>2. Len(Tail(sent)) = Len(sent) - 1 BY <1>1, <1>2
  <2>3. CASE Len(sent) = 1
    <3>1. Tail(sent) \in Seq(L!Command) /\ Len(Tail(sent)) = 0 BY <1>1, <1>2, <2>2, <2>3
    <3>2. Tail(sent) = <<>> BY <3>1, EmptySeq
    <3>3. sent[1].action \in {"pause", "continue"} BY <1>1 DEF L!Command
    <3> QED BY <1>1, <2>3, <3>2, <3>3 DEF ToldLast, LastOf
  <2>4. CASE Len(sent) # 1
    <3>1. Len(sent) - 1 \in DOMAIN Tail(sent) BY <1>1, <1>2, <2>1, <2>2, <2>4
    <3>2. Tail(sent)[Len(sent) - 1] = sent[(Len(sent) - 1) + 1] BY <1>1, <1>2, <3>1, RestOfQueue
    <3>3. Tail(sent) # <<>>
      <4>1. Len(Tail(sent)) # 0 /\ Len(<<>>) = 0 BY <2>1, <2>2, <2>4
      <4> QED BY <4>1
    <3>4. (Len(sent) - 1) + 1 = Len(sent) BY <2>1
    <3> QED BY <1>1, <2>2, <3>2, <3>3, <3>4 DEF ToldLast, LastOf
  <2> QED BY <2>3, <2>4
<1>7. Wanted' <=> Wanted BY DEF Wanted, Subscribed
<1>8. Flying(ledger.flow)' <=> Flying(ledger.flow) BY <1>1, <1>5 DEF Flying
<1> QED BY <1>1, <1>5, <1>6, <1>7, <1>8 DEF LoopOK

LEMMA OutputLoop ==
  ASSUME FlowOK, LoopOK, Flow!TmuxOutput, senders' = senders
  PROVE  LoopOK'
<1> DEFINE n == [reply |-> FALSE, ok |-> TRUE, of |-> Flow!NoCommand]
<1>1. inbox' = Append(inbox, n) /\ UNCHANGED <<ledger, sent, tmuxPaused, live, jobs>> BY OutputDoes
<1>2. n \in Note /\ n.reply = FALSE BY OutputDoes DEF Note
<1>3. inbox \in Seq(Note) BY FlowTypes
<1> HIDE DEF n, Note
<1>4. ASSUME NEW e PROVE Flying(e)' <=> Flying(e)
  <2>1. Has(inbox', Answering(e)) <=> Has(inbox, Answering(e)) \/ n \in Answering(e) BY <1>1, <1>2, <1>3, HasDoes
  <2>2. n \notin Answering(e) BY <1>2 DEF Answering
  <2> QED BY <1>1, <2>1, <2>2 DEF Flying
<1>5. (ToldLast' <=> ToldLast) /\ (Wanted' <=> Wanted) BY <1>1 DEF ToldLast, Wanted, Subscribed
<1>6. Flying(ledger.flow)' <=> Flying(ledger.flow) BY <1>1, <1>4 DEF Flying
<1> QED BY <1>1, <1>4, <1>5, <1>6 DEF LoopOK

LEMMA AnswerLoop ==
  ASSUME FlowOK, LoopOK, Flow!ReceiveReply, senders' = senders
  PROVE  LoopOK'
<1>1. /\ inbox # <<>> /\ inbox[1] \in Note /\ inbox[1].reply /\ inbox' = Tail(inbox)
      /\ jobs' = IF L!LoopContinue(inbox[1].of)
                   THEN Append(jobs, [episode |-> inbox[1].of.episode, outcome |-> "ok"]) ELSE jobs
      /\ UNCHANGED <<ledger, sent, tmuxPaused, live>>
  BY ReplyDoes
<1>2. inbox \in Seq(Note) /\ jobs \in Seq(L!Settlement) BY FlowTypes
<1> DEFINE c == inbox[1].of  j == [episode |-> c.episode, outcome |-> "ok"]
<1>3. c \in L!Command BY <1>1 DEF Note
<1>4. j \in L!Settlement /\ j.episode = c.episode BY <1>3 DEF L!Settlement, L!Command
<1>5. jobs' = IF L!LoopContinue(c) THEN Append(jobs, j) ELSE jobs BY <1>1
<1>6. \A e : inbox[1] \in Answering(e) <=> L!LoopContinue(c) /\ c.episode = e BY <1>1, <1>3 DEF Answering, Asking
<1> HIDE DEF c, j, L!Settlement, Note
<1>7. ASSUME NEW e PROVE Flying(e)' <=> Flying(e)
  <2>1. Has(inbox, Answering(e)) <=> inbox[1] \in Answering(e) \/ Has(inbox', Answering(e))
    BY <1>1, <1>2, HasDoes
  <2>2. Has(jobs', Settling(e)) <=> Has(jobs, Settling(e)) \/ (L!LoopContinue(c) /\ c.episode = e)
    <3>1. Has(Append(jobs, j), Settling(e)) <=> Has(jobs, Settling(e)) \/ j \in Settling(e) BY <1>2, <1>4, HasDoes
    <3>2. j \in Settling(e) <=> c.episode = e BY <1>4 DEF Settling
    <3> QED BY <1>5, <3>1, <3>2
  <2> QED BY <1>1, <1>6, <2>1, <2>2 DEF Flying
<1>8. (ToldLast' <=> ToldLast) /\ (Wanted' <=> Wanted) BY <1>1 DEF ToldLast, Wanted, Subscribed
<1>9. Flying(ledger.flow)' <=> Flying(ledger.flow) BY <1>1, <1>7 DEF Flying
<1> QED BY <1>1, <1>7, <1>8, <1>9 DEF LoopOK

(* The continuation of the Continue of the entry removes it; that of an    *)
(* earlier one leaves a later entry alone.                                 *)
LEMMA ContinuationLoop ==
  ASSUME FlowOK, LoopOK, Flow!Job, senders' = senders
  PROVE  LoopOK'
<1>1. /\ jobs # <<>> /\ jobs[1] \in L!Settlement /\ jobs' = Tail(jobs)
      /\ IF ledger.flow = jobs[1].episode THEN ledger'.flow = 0 /\ ~ledger'.resuming ELSE ledger' = ledger
      /\ ledger'.episodes = ledger.episodes /\ UNCHANGED <<sent, inbox, tmuxPaused, live>>
  BY JobDoes
<1>2. jobs \in Seq(L!Settlement) BY FlowTypes
<1>3. jobs[1] \in Settling(jobs[1].episode) /\ \A e : jobs[1] \in Settling(e) => e = jobs[1].episode
  BY <1>1 DEF Settling
<1>4. ASSUME NEW e PROVE Flying(e) <=> Flying(e)' \/ e = jobs[1].episode
  <2>1. Has(jobs, Settling(e)) <=> jobs[1] \in Settling(e) \/ Has(jobs', Settling(e))
    <3> HIDE DEF L!Settlement
    <3> QED BY <1>1, <1>2, HasDoes
  <2> QED BY <1>1, <1>3, <2>1 DEF Flying
<1>5. (ToldLast' <=> ToldLast) /\ (Wanted' <=> Wanted) BY <1>1 DEF ToldLast, Wanted, Subscribed
<1>6. \A e : Flying(e)' => Flying(e) BY <1>4
<1>7. CASE ledger.flow = jobs[1].episode
  <2>1. ledger'.flow = 0 /\ ~ledger'.resuming BY <1>1, <1>7
  <2>2. live => Flying(ledger.flow) BY <1>4, <1>7
  <2>3. live /\ Wanted => ToldLast BY <2>2 DEF LoopOK
  <2>4. live => \A e : Flying(e)' => e <= ledger.episodes BY <1>6 DEF LoopOK
  <2> QED BY <1>1, <1>5, <2>1, <2>3, <2>4 DEF LoopOK
<1>8. CASE ledger.flow # jobs[1].episode
  <2>1. ledger' = ledger BY <1>1, <1>8
  <2>2. Flying(ledger.flow)' <=> Flying(ledger.flow)
    <3>1. LET f == ledger.flow IN (Flying(f) <=> Flying(f)' \/ f = jobs[1].episode)
      <4>1. Has(jobs, Settling(ledger.flow)) <=> jobs[1] \in Settling(ledger.flow) \/ Has(jobs', Settling(ledger.flow))
        <5> HIDE DEF L!Settlement
        <5> QED BY <1>1, <1>2, HasDoes
      <4> QED BY <1>1, <1>3, <2>1, <4>1 DEF Flying
    <3> QED BY <1>8, <2>1, <3>1 DEF Flying
  <2> QED BY <1>1, <1>5, <1>6, <2>1, <2>2 DEF LoopOK
<1> QED BY <1>7, <1>8

LEMMA LostLoop ==
  ASSUME FlowOK, LoopOK, Flow!Disconnect
  PROVE  LoopOK'
BY LostDoes DEF LoopOK

LEMMA LoopKeeps ==
  ASSUME IInv, LoopOK, [Next]_vars
  PROVE  LoopOK'
<1> DEFINE Same == UNCHANGED <<ledger, sent, inbox, jobs, live, tmuxPaused, senders>>
<1>1. FlowOK BY DEF IInv
<1>2. Same => LoopOK' BY LoopQuiet
<1>3. ASSUME NEW r \in Renderers, NEW method,
             \/ createRendererBridge(r) \/ close(r) \/ invoke(r, method) \/ onOutput(r)
             \/ onConnectionState(r) \/ onReply(r) \/ Destroy(r) \/ Unheard(r)
      PROVE  Same
  BY <1>3 DEF createRendererBridge, close, invoke, onOutput, onConnectionState, onReply, Destroy, Unheard,
              flowVars, mainVars
<1>4. ASSUME NEW i, withTimeout(i) PROVE Same BY <1>4 DEF withTimeout, flowVars, mainVars
<1>5. ASSUME NEW p, reconcile(p) \/ RelayAnswers(p) PROVE Same BY <1>5 DEF reconcile, RelayAnswers, coverageRest, flowVars
<1>6. UNCHANGED vars => Same BY DEF vars, flowVars, mainVars
<1> HIDE DEF Same
<1>7. ASSUME NEW r \in Renderers, register(r) \/ unregister(r) \/ ack(r) \/ onDestroyed(r) \/ handle(r)
      PROVE  LoopOK'
  BY <1>7, registerLoop, unregisterLoop, ackLoop, onDestroyedLoop, handleLoop
<1>8. broadcast \/ broadcastClosed \/ dispose \/ write => LoopOK'
  BY broadcastLoop, broadcastClosedLoop, disposeLoop, writeLoop
<1>9. ASSUME UNCHANGED bridgeVars, tmux \/ Reply \/ ConnectionLost \/ Continuation PROVE LoopOK'
  <2>1. senders' = senders BY <1>9 DEF bridgeVars, mainVars
  <2>2. CASE tmux BY <1>1, <2>1, <2>2, OutputLoop, ExecuteLoop DEF tmux
  <2>3. CASE Reply BY <1>1, <2>1, <2>3, AnswerLoop DEF Reply
  <2>4. CASE ConnectionLost BY <1>1, <2>4, LostLoop DEF ConnectionLost
  <2>5. CASE Continuation BY <1>1, <2>1, <2>5, ContinuationLoop DEF Continuation
  <2> QED BY <1>9, <2>2, <2>3, <2>4, <2>5
<1>10. CASE Same BY <1>2, <1>10
<1>11. ASSUME ~Same PROVE LoopOK'
  BY <1>3, <1>4, <1>5, <1>6, <1>7, <1>8, <1>9, <1>11 DEF Next
<1> QED BY <1>10, <1>11

LEMMA LoopInit ==
  ASSUME Init
  PROVE  LoopOK
<1>1. /\ ledger.flow = 0 /\ ~ledger.resuming /\ sent = <<>> /\ inbox = <<>> /\ jobs = <<>>
      /\ tmuxPaused = Suppress /\ Subscribed = {}
  BY DEF Init, Subscribed
<1>2. \A e : ~Flying(e) BY <1>1 DEF Flying, Has
<1>3. Wanted => ToldLast BY <1>1 DEF Wanted, ToldLast
<1> QED BY <1>1, <1>2, <1>3 DEF LoopOK

-----------------------------------------------------------------------------
(* At rest *)

(* What is owed by some tokens only, and bounded for each.                 *)
LEMMA SumBound ==
  ASSUME NEW f \in [Peers -> Nat], NEW b \in Nat, NEW P \in SUBSET Peers,
         \A p \in Peers : f[p] <= IF p \in P THEN b ELSE 0
  PROVE  L!SumFunction(f) <= Cardinality(P) * b
<1>1. IsFiniteSet(Peers) /\ L!IsFiniteSet(Peers) BY BridgeAssumption, SameFinite
<1>2. PICK g : L!Adds(g, f, Peers) BY <1>1, LedgerAssumptions, L!SumEquation
<1>3. \A s \in SUBSET Peers : IsFiniteSet(s \cap P) /\ Cardinality(s \cap P) \in Nat
  <2>1. ASSUME NEW s \in SUBSET Peers PROVE IsFiniteSet(s \cap P) /\ Cardinality(s \cap P) \in Nat
    <3>1. s \cap P \in SUBSET Peers OBVIOUS
    <3>2. IsFiniteSet(s \cap P) BY <1>1, <3>1, FS_Subset
    <3> QED BY <3>2, FS_CardinalityType
  <2> QED BY <2>1
<1> DEFINE Good == {s \in SUBSET Peers : g[s] \in Nat /\ g[s] <= Cardinality(s \cap P) * b}
<1>4. {} \in Good
  <2>1. {} \in SUBSET Peers /\ {} \cap P = {} /\ Cardinality({}) = 0 BY FS_EmptySet
  <2>2. g[{}] = 0 BY <1>2 DEF L!Adds
  <2>3. 0 * b = 0 OBVIOUS
  <2> QED BY <2>1, <2>2, <2>3
<1>5. ASSUME NEW s \in SUBSET Peers, s # {}, s \ {L!First(s)} \in Good PROVE s \in Good
  <2> DEFINE x == L!First(s)  t == s \ {x}  n == Cardinality(t \cap P)
  <2>1. x \in s /\ g[s] = f[x] + g[t] BY <1>2, <1>5 DEF L!Adds
  <2>2. g[t] \in Nat /\ g[t] <= n * b BY <1>5
  <2>3. n \in Nat /\ f[x] \in Nat /\ x \in Peers
    <3>1. t \in SUBSET Peers OBVIOUS
    <3> QED BY <1>3, <2>1, <3>1
  <2>4. CASE x \in P
    <3>1. s \cap P = (t \cap P) \cup {x} /\ x \notin t \cap P BY <2>1, <2>4
    <3>2. IsFiniteSet(t \cap P)
      <4>1. t \in SUBSET Peers OBVIOUS
      <4> QED BY <1>3, <4>1
    <3> HIDE DEF x, t
    <3>3. Cardinality(s \cap P) = n + 1 BY <3>1, <3>2, FS_AddElement
    <3>4. f[x] <= b BY <2>3, <2>4
    <3> HIDE DEF n
    <3>5. (n + 1) * b = n * b + b /\ n * b \in Nat BY <2>3
    <3>6. g[s] \in Nat /\ g[s] <= n * b + b
      <4> DEFINE y == n * b
      <4>1. y \in Nat /\ g[t] <= y BY <2>2, <3>5
      <4> HIDE DEF y
      <4>2. g[s] \in Nat /\ g[s] <= y + b BY <2>1, <2>2, <2>3, <3>4, <4>1
      <4> QED BY <4>2 DEF y
    <3> QED BY <3>3, <3>5, <3>6
  <2>5. CASE x \notin P
    <3>1. s \cap P = t \cap P BY <2>5
    <3>2. f[x] = 0 BY <2>3, <2>5
    <3> QED BY <2>1, <2>2, <3>1, <3>2
  <2> QED BY <2>4, <2>5
<1>6. Peers \in Good
  <2>1. Good \in SUBSET SUBSET Peers OBVIOUS
  <2> HIDE DEF Good
  <2> QED BY <1>1, <1>4, <1>5, <2>1, LedgerAssumptions, L!SubsetInduction
<1>7. Peers \cap P = P OBVIOUS
<1> QED BY <1>2, <1>6, <1>7 DEF L!Adds

LEMMA FewerTokens ==
  ASSUME Registry
  PROVE  /\ Cardinality(PeersOf(Subscribed)) \in Nat /\ Cardinality(Renderers) \in Nat
         /\ Cardinality(PeersOf(Subscribed)) <= Cardinality(Renderers)
<1> DEFINE f == [r \in Subscribed |-> senders[r].peer]
<1>1. f \in Surjection(Subscribed, PeersOf(Subscribed)) BY DEF Surjection, PeersOf
<1>2. IsFiniteSet(Renderers) /\ Subscribed \in SUBSET Renderers BY BridgeAssumption DEF Subscribed
<1>3. IsFiniteSet(Subscribed) /\ Cardinality(Subscribed) <= Cardinality(Renderers) BY <1>2, FS_Subset
<1> HIDE DEF f
<1>4. IsFiniteSet(PeersOf(Subscribed)) /\ Cardinality(PeersOf(Subscribed)) <= Cardinality(Subscribed)
  BY <1>1, <1>3, FS_Surjection
<1>5. Cardinality(PeersOf(Subscribed)) \in Nat /\ Cardinality(Subscribed) \in Nat /\ Cardinality(Renderers) \in Nat
  BY <1>2, <1>3, <1>4, FS_CardinalityType
<1> QED BY <1>3, <1>4, <1>5

(* At rest a subscribed window owes less than a batch.                     *)
LEMMA RestOwes ==
  ASSUME IInv, Windows, AtRest, NEW r \in Subscribed
  PROVE  ledger.outstanding[senders[r].peer] <= Batch - 1
<1>1. r \in Renderers /\ r \in Known BY OwedTypes DEF Subscribed
<1>2. toMain[r] = <<>> /\ toPage[r] = <<>> /\ wc[r] # "destroyed" BY <1>1 DEF AtRest
<1>3. Alive(r)
  <2>1. wc[r] \in {"alive", "destroyed", "gone"} BY <1>1 DEF IInv, PagesOK
  <2>2. wc[r] # "gone" BY <1>1 DEF IInv, Registry, Known
  <2> QED BY <1>2, <2>1, <2>2 DEF Alive
<1>4. ~Ends(toMain[r]) /\ ~Leaving(r) BY <1>2 DEF Ends, Leaving
<1>5. WindowOK(r) BY <1>1 DEF Windows
<1>6. proxy[r].open BY <1>3, <1>4, <1>5 DEF WindowOK, Turns
<1>7. Owed(r) BY <1>4, <1>5, <1>6 DEF WindowOK
<1> DEFINE p == senders[r].peer
<1>8. Chunks(toPage[r], p) = 0
  <2>1. {i \in DOMAIN toPage[r] : toPage[r][i].what = "output" /\ toPage[r][i].n = p} = {} BY <1>2
  <2> QED BY <2>1, FS_EmptySet DEF Chunks
<1>9. Acks(toMain[r]) * Batch = 0
  <2>1. <<>> \in Seq(Request) OBVIOUS
  <2>2. Acks(<<>>) = 0 BY <2>1, AcksDo
  <2>3. 0 * Batch = 0 BY BridgeAssumption
  <2> QED BY <1>2, <2>2, <2>3
<1>10. proxy[r].pending \in 0..(Batch - 1) BY <1>1, PageTypes DEF IInv
<1>11. ledger.outstanding[p] <= 0 + proxy[r].pending + 0 BY <1>7, <1>8, <1>9 DEF Owed
<1>12. Batch \in Nat /\ ledger.outstanding[p] \in Nat BY <1>1, OwedTypes
<1> HIDE DEF p
<1>13. ledger.outstanding[p] <= Batch - 1 BY <1>10, <1>11, <1>12
<1> QED BY <1>13 DEF p

LEMMA RestTotal ==
  ASSUME IInv, Windows, AtRest
  PROVE  L!totalOutstanding(ledger) <= Low
<1> DEFINE f == ledger.outstanding  b == Batch - 1  P == PeersOf(Subscribed)
<1>1. Registry /\ Billed BY DEF IInv
<1>2. f \in [Peers -> Nat] BY <1>1, RecordTypes DEF Registry
<1>3. b \in Nat BY BridgeAssumption
<1>4. P \in SUBSET Peers
  <2>1. \A r \in Subscribed : r \in Renderers BY DEF Subscribed
  <2> QED BY <2>1, OwedTypes DEF PeersOf
<1>5. ASSUME NEW p \in Peers PROVE f[p] <= IF p \in P THEN b ELSE 0
  <2>1. CASE p \in P
    <3>1. PICK r \in Subscribed : p = senders[r].peer BY <2>1 DEF PeersOf
    <3> QED BY <2>1, <3>1, RestOwes
  <2>2. CASE p \notin P BY <1>1, <2>2 DEF Billed
  <2> QED BY <2>1, <2>2
<1>6. L!totalOutstanding(ledger) = L!SumFunction(f) BY DEF L!totalOutstanding
<1>7. L!SumFunction(f) \in Nat BY <1>2, SumType
<1> HIDE DEF f, b, P
<1>8. L!SumFunction(f) <= Cardinality(P) * b BY <1>2, <1>3, <1>4, <1>5, SumBound
<1> DEFINE k == Cardinality(P)  n == Cardinality(Renderers)
<1>9. k \in Nat /\ n \in Nat /\ k <= n BY <1>1, FewerTokens DEF P
<1>10. n * b <= Low BY BatchAssumption DEF b
<1>11. Low \in Nat BY BridgeAssumption
<1> HIDE DEF k, n
<1>12. k * b <= n * b /\ k * b \in Nat /\ n * b \in Nat
  <2>1. n - k \in Nat /\ n = k + (n - k) BY <1>9
  <2>2. (n - k) * b \in Nat /\ k * b \in Nat BY <1>3, <1>9, <2>1
  <2>3. n * b = k * b + (n - k) * b BY <1>3, <1>9, <2>1
  <2> QED BY <2>2, <2>3
<1>13. L!SumFunction(f) <= k * b BY <1>8 DEF k
<1> QED BY <1>6, <1>7, <1>10, <1>11, <1>12, <1>13

LEMMA Credit ==
  ASSUME IInv, Windows, LoopOK
  PROVE  CreditIsKept
<1>1. ASSUME NEW r \in Subscribed, proxy[r].open, ~Leaving(r)
      PROVE  ledger.outstanding[senders[r].peer] <=
               Chunks(toPage[r], senders[r].peer) + proxy[r].pending + Acknowledged(toMain[r])
  <2>1. r \in Renderers BY DEF Subscribed
  <2>2. toMain[r] \in Seq(Request) /\ Batched(toMain[r]) BY <2>1, OwedTypes DEF Windows, WindowOK, Turns
  <2>3. Acknowledged(toMain[r]) = Acks(toMain[r]) * Batch BY <2>2, AcknowledgedIs
  <2> QED BY <1>1, <2>1, <2>3 DEF Windows, WindowOK, Owed
<1>2. ASSUME AtRest, live, Subscribed # {} PROVE ledger.flow = 0 /\ ~tmuxPaused
  <2>1. sent = <<>> /\ inbox = <<>> /\ jobs = <<>> BY <1>2, TurnRests DEF AtRest
  <2>2. ~Flying(ledger.flow) BY <2>1 DEF Flying, Has
  <2>3. ledger.flow = 0
    <3>1. SUFFICES ASSUME ledger.flow # 0 PROVE FALSE OBVIOUS
    <3>2. ~ledger.resuming BY <1>2, <2>2, <3>1 DEF LoopOK
    <3>3. L!totalOutstanding(ledger) > Low BY <3>1, <3>2 DEF IInv, FlowOK, HeldBack
    <3>4. L!totalOutstanding(ledger) \in Nat /\ Low \in Nat
      BY LedgerNow, RecordTypes, BridgeAssumption DEF IInv, FlowOK
    <3> QED BY <1>2, <3>3, <3>4, RestTotal
  <2>4. ToldLast BY <1>2, <2>3 DEF LoopOK, Wanted
  <2> QED BY <2>1, <2>3, <2>4 DEF ToldLast
<1> QED BY <1>1, <1>2 DEF CreditIsKept

(* No credit is lost between the processes, for any number of windows that *)
(* are not replaced without close() (sender-registry.ts keeps the sender of*)
(* a page that is): the bytes a window is billed for are on their way to   *)
(* the page, wait for a batch to fill, or are being acknowledged, and with *)
(* every message delivered tmux holds back no pane that somebody watches,  *)
(* whatever the order of acknowledgements, chunks, pauses and departures.  *)
THEOREM CreditSurvives ==
  ASSUME ~Reloads
  PROVE  Spec => []CreditIsKept
<1> DEFINE Inv == IInv /\ Windows /\ LoopOK
<1>1. Init => Inv BY InitHolds, WindowsInit, LoopInit
<1>2. Inv /\ [Next]_vars => Inv' BY StepKeeps, WindowsKeep, LoopKeeps
<1>3. Inv => CreditIsKept BY Credit
<1> QED BY <1>1, <1>2, <1>3, PTL DEF Spec
=============================================================================
