---------------------- MODULE ElectronBridgeRestProofs ----------------------
(***************************************************************************)
(* Theorem about ElectronBridge, at rest: when every message has been      *)
(* delivered, the two sides of the IPC agree, window by window and pane by *)
(* pane, for every set of windows that are not replaced without close().   *)
(* Each keeps its own record of the same calls, so three facts are kept    *)
(* beside the invariant of ElectronBridgeProofs: what the calls of each    *)
(* window come to on either side, with the messages in between (Books);    *)
(* what an open proxy shows, or will once it has read its mail (Faces);    *)
(* and where the answer to a pending promise is (PendingOK).               *)
(***************************************************************************)
EXTENDS ElectronBridgeProofs

-----------------------------------------------------------------------------
(* How many of some calls there are, up to the n-th.                       *)

Upto(A, n) == {i \in A : i <= n}
Number(A, n) == Cardinality(Upto(A, n))

LEMMA UptoDoes ==
  ASSUME NEW N \in Nat, NEW A \in SUBSET (1..N)
  PROVE  /\ IsFiniteSet(A) /\ Cardinality(A) \in Nat /\ Number(A, N) = Cardinality(A) /\ Number(A, 0) = 0
         /\ \A n \in Nat : Number(A, n) \in Nat /\ Number(A, n) <= Cardinality(A)
         /\ \A n \in 0..N : n # N => Number(A, n + 1) = Number(A, n) + IF n + 1 \in A THEN 1 ELSE 0
<1>1. IsFiniteSet(1..N) BY FS_Interval
<1>2. \A B \in SUBSET A : IsFiniteSet(B) /\ Cardinality(B) \in Nat /\ Cardinality(B) <= Cardinality(A)
  <2>1. IsFiniteSet(A) BY <1>1, FS_Subset
  <2> QED BY <2>1, FS_Subset, FS_CardinalityType
<1>3. \A n : Upto(A, n) \in SUBSET A BY DEF Upto
<1>4. Upto(A, N) = A /\ Upto(A, 0) = {}
  <2>1. \A i \in A : i \in 1..N OBVIOUS
  <2>2. \A i \in A : i <= N /\ ~(i <= 0) BY <2>1
  <2> QED BY <2>2 DEF Upto
<1>5. ASSUME NEW n \in 0..N, n # N
      PROVE  Number(A, n + 1) = Number(A, n) + IF n + 1 \in A THEN 1 ELSE 0
  <2>1. \A i \in A : i <= n + 1 <=> i <= n \/ i = n + 1
    <3>1. \A i \in A : i \in Int OBVIOUS
    <3> QED BY <1>5, <3>1
  <2>2. n + 1 \notin Upto(A, n)
    <3>1. ~(n + 1 <= n) BY <1>5
    <3> QED BY <3>1 DEF Upto
  <2>3. Upto(A, n + 1) = Upto(A, n) \cup (IF n + 1 \in A THEN {n + 1} ELSE {}) BY <2>1 DEF Upto
  <2>4. IsFiniteSet(Upto(A, n)) BY <1>2, <1>3
  <2>5. Cardinality(Upto(A, n) \cup {n + 1}) = Cardinality(Upto(A, n)) + 1 BY <2>2, <2>4, FS_AddElement
  <2>6. Cardinality(Upto(A, n)) \in Nat BY <1>2, <1>3
  <2>7. CASE n + 1 \in A BY <2>3, <2>5, <2>7 DEF Number
  <2>8. CASE n + 1 \notin A
    <3>1. Upto(A, n + 1) = Upto(A, n) BY <2>3, <2>8
    <3> QED BY <2>6, <2>8, <3>1 DEF Number
  <2> QED BY <2>7, <2>8
<1>6. Number(A, 0) = 0 BY <1>4, FS_EmptySet DEF Number
<1> QED BY <1>2, <1>3, <1>4, <1>5, <1>6 DEF Number

LEMMA FewerUpto ==
  ASSUME NEW N \in Nat, NEW A, NEW B \in SUBSET (1..N), NEW n, NEW m, Upto(A, n) \subseteq Upto(B, m)
  PROVE  Number(A, n) <= Number(B, m) /\ Number(A, n) \in Nat /\ Number(B, m) \in Nat
<1>1. Upto(B, m) \in SUBSET (1..N) BY DEF Upto
<1>2. IsFiniteSet(1..N) BY FS_Interval
<1>3. IsFiniteSet(Upto(B, m)) BY <1>1, <1>2, FS_Subset
<1>4. IsFiniteSet(Upto(A, n)) /\ Cardinality(Upto(A, n)) <= Cardinality(Upto(B, m)) BY <1>3, FS_Subset
<1> QED BY <1>3, <1>4, FS_CardinalityType DEF Number

-----------------------------------------------------------------------------
(* What stands is what was granted less what was undone, if nothing is     *)
(* ever undone that was not granted before.                                *)

Wins(c, p) == {i \in DOMAIN c : c[i].peer = p /\ c[i].method = "enable" /\ c[i].outcome = "ok"}
Undoes(c, p) == {i \in DOMAIN c : c[i].peer = p /\ c[i].method = "disable"}
Tries(c, r, p) == {i \in DOMAIN c : c[i].page = r /\ c[i].method = "disable" /\ c[i].peer \in {0, p}}
Earned(c, p) == \A i \in Undoes(c, p) : Number(Undoes(c, p), i) <= Number(Wins(c, p), i)

Tally(x, c, p) ==
  IF c.peer # p THEN x
  ELSE IF c.method = "disable" THEN IF x > 0 THEN x - 1 ELSE 0
  ELSE IF c.outcome = "ok" THEN x + 1 ELSE x

LEMMA StandingWalks ==
  ASSUME calls \in Seq(Call), NEW p
  PROVE  \E g : /\ g \in [0..Len(calls) -> Nat] /\ g[0] = 0 /\ Standing(p) = g[Len(calls)]
                /\ \A n \in 1..Len(calls) : g[n] = Tally(g[n - 1], calls[n], p)
<1> DEFINE N == Len(calls)
           Body(g, n) == IF n = 0 THEN 0
                         ELSE IF calls[n].peer # p THEN g[n - 1]
                         ELSE IF calls[n].method = "disable" THEN IF g[n - 1] > 0 THEN g[n - 1] - 1 ELSE 0
                         ELSE IF calls[n].outcome = "ok" THEN g[n - 1] + 1 ELSE g[n - 1]
           F == [n \in 1..N |-> [x \in Nat |-> Tally(x, calls[n], p)]]
<1>0. N \in Nat OBVIOUS
<1>a. \A g, n : Body(g, n) = IF n = 0 THEN 0 ELSE Tally(g[n - 1], calls[n], p) BY DEF Tally
<1>1. F \in [1..N -> [Nat -> Nat]]
  <2>1. \A x \in Nat : \A c : Tally(x, c, p) \in Nat BY DEF Tally
  <2> HIDE DEF N
  <2> QED BY <2>1
<1>2. \A n \in 1..N : \A x \in Nat : F[n][x] = Tally(x, calls[n], p) OBVIOUS
<1> DEFINE g == CHOOSE k : k = [n \in 0..N |-> Body(k, n)]
<1>3. Standing(p) = g[N] BY DEF Standing
<1> HIDE DEF F, N, Body
<1>4. PICK h \in [0..N -> Nat] : h[0] = 0 /\ \A n \in 1..N : h[n] = F[n][h[n - 1]]
  <2>1. F \in Maps(Nat, N) BY <1>1 DEF Maps
  <2>2. 0 \in Nat OBVIOUS
  <2>3. \E h : Chain(h, Nat, N, 0, F) BY <1>0, <2>1, <2>2, ChainExists
  <2> QED BY <2>3 DEF Chain
<1>5. \A n \in 1..N : n # 0 /\ n \in 0..N /\ n - 1 \in 0..N /\ h[n - 1] \in Nat BY <1>0, <1>4
<1>6. \A n \in 1..N : h[n] = Tally(h[n - 1], calls[n], p) BY <1>2, <1>4, <1>5
<1>7. h = [n \in 0..N |-> Body(h, n)]
  <2>1. \A n \in 0..N : n = 0 \/ n \in 1..N BY <1>0
  <2>2. \A n \in 0..N : h[n] = Body(h, n) BY <1>4, <1>5, <1>6, <1>a, <2>1
  <2> QED BY <1>4, <2>2
<1>8. g = [n \in 0..N |-> Body(g, n)] BY <1>7
<1> HIDE DEF g
<1>9. \A n \in 0..N : g[n] = Body(g, n) BY <1>8
<1>10. g[0] = 0 /\ \A n \in 1..N : g[n] = Tally(g[n - 1], calls[n], p)
  <2>1. 0 \in 0..N BY <1>0
  <2> QED BY <1>5, <1>9, <1>a, <2>1
<1>11. \A n \in 0..N : g[n] \in Nat
  <2> DEFINE Good == {n \in 0..N : g[n] \in Nat}
  <2>1. 0 \in Good BY <1>0, <1>10
  <2>2. ASSUME NEW n \in 0..N, n # N, n \in Good PROVE n + 1 \in Good
    <3>1. n + 1 \in 1..N /\ n + 1 \in 0..N /\ n + 1 - 1 = n BY <1>0, <2>2
    <3>2. g[n + 1] = Tally(g[n], calls[n + 1], p) BY <1>10, <3>1
    <3>3. g[n] \in Nat BY <2>2
    <3>4. Tally(g[n], calls[n + 1], p) \in Nat BY <3>3 DEF Tally
    <3> QED BY <3>1, <3>2, <3>4
  <2>3. ASSUME NEW m \in 0..N PROVE m \in Good
    <3> DEFINE Fine == {n \in 0..m : n \in Good}
    <3>1. m \in Nat /\ \A n \in 0..m : n \in 0..N /\ (n # m => n # N /\ n + 1 \in 0..m) BY <1>0, <2>3
    <3>2. 0 \in Fine /\ \A n \in 0..m : n # m /\ n \in Fine => n + 1 \in Fine
      <4>1. 0 \in 0..m BY <3>1
      <4> HIDE DEF Good
      <4> QED BY <2>1, <2>2, <3>1, <4>1
    <3>3. Fine \in SUBSET (0..m) OBVIOUS
    <3> HIDE DEF Fine
    <3>4. m \in Fine BY <3>1, <3>2, <3>3, RangeInduction
    <3> QED BY <3>4 DEF Fine
  <2> QED BY <2>3
<1>12. g \in [0..N -> Nat] BY <1>8, <1>11
<1> QED BY <1>3, <1>10, <1>12 DEF N

LEMMA StandingIs ==
  ASSUME calls \in Seq(Call), NEW p, Earned(calls, p)
  PROVE  /\ Cardinality(Wins(calls, p)) \in Nat /\ Cardinality(Undoes(calls, p)) \in Nat
         /\ Standing(p) = Cardinality(Wins(calls, p)) - Cardinality(Undoes(calls, p))
<1> DEFINE N == Len(calls)  W == Wins(calls, p)  U == Undoes(calls, p)
<1>0. N \in Nat /\ DOMAIN calls = 1..N OBVIOUS
<1>1. W \in SUBSET (1..N) /\ U \in SUBSET (1..N) BY <1>0 DEF Wins, Undoes
<1>2. PICK g \in [0..N -> Nat] : /\ g[0] = 0 /\ Standing(p) = g[N]
                                 /\ \A n \in 1..N : g[n] = Tally(g[n - 1], calls[n], p)
  BY StandingWalks
<1>3. \A n \in 1..N : /\ n \in W <=> calls[n].peer = p /\ calls[n].method = "enable" /\ calls[n].outcome = "ok"
                      /\ n \in U <=> calls[n].peer = p /\ calls[n].method = "disable"
                      /\ calls[n].method \in {"enable", "disable"}
  <2>1. \A n \in 1..N : calls[n] \in Call BY <1>0
  <2>2. \A n \in 1..N : calls[n].method \in {"enable", "disable"} BY <2>1 DEF Call
  <2> QED BY <1>0, <2>2 DEF Wins, Undoes
<1>4. \A n \in U : Number(U, n) <= Number(W, n) BY DEF Earned
<1> HIDE DEF N, W, U
<1> DEFINE Good == {n \in 0..N : g[n] = Number(W, n) - Number(U, n)}
<1>5. 0 \in Good
  <2>1. Number(W, 0) = 0 /\ Number(U, 0) = 0 BY <1>0, <1>1, UptoDoes
  <2> QED BY <1>0, <1>2, <2>1
<1>6. ASSUME NEW n \in 0..N, n # N, n \in Good PROVE n + 1 \in Good
  <2>1. n + 1 \in 1..N /\ n + 1 \in 0..N /\ n + 1 - 1 = n /\ n \in Nat /\ n + 1 \in Nat BY <1>0, <1>6
  <2>2. /\ Number(W, n + 1) = Number(W, n) + (IF n + 1 \in W THEN 1 ELSE 0)
        /\ Number(U, n + 1) = Number(U, n) + (IF n + 1 \in U THEN 1 ELSE 0)
    <3>1. ASSUME NEW A \in SUBSET (1..N)
          PROVE  Number(A, n + 1) = Number(A, n) + (IF n + 1 \in A THEN 1 ELSE 0)
      <4>1. \A m \in 0..N : m # N => Number(A, m + 1) = Number(A, m) + IF m + 1 \in A THEN 1 ELSE 0
        BY Zenon, <1>0, UptoDoes
      <4> QED BY <1>6, <4>1
    <3> QED BY <1>1, <3>1
  <2>3. PICK w \in Nat, u \in Nat : w = Number(W, n) /\ u = Number(U, n) BY <1>0, <1>1, <2>1, UptoDoes
  <2>4. g[n] = w - u /\ g[n] \in Nat BY <1>2, <1>6, <2>3
  <2>5. g[n + 1] = Tally(g[n], calls[n + 1], p) BY <1>2, <2>1
  <2>6. g[n + 1] = g[n] + (IF n + 1 \in W THEN 1 ELSE 0) - (IF n + 1 \in U THEN 1 ELSE 0)
    <3>1. CASE calls[n + 1].peer # p BY <1>3, <2>1, <2>4, <2>5, <3>1 DEF Tally
    <3>2. CASE calls[n + 1].peer = p /\ calls[n + 1].method = "disable"
      <4>1. n + 1 \in U /\ n + 1 \notin W BY <1>3, <2>1, <3>2
      <4>2. u + 1 <= w BY <1>4, <2>2, <2>3, <4>1
      <4>3. g[n] > 0 BY <2>3, <2>4, <4>2
      <4> QED BY <2>4, <2>5, <3>2, <4>1, <4>3 DEF Tally
    <3>3. CASE calls[n + 1].peer = p /\ calls[n + 1].method = "enable"
      <4>1. n + 1 \notin U /\ (n + 1 \in W <=> calls[n + 1].outcome = "ok") BY <1>3, <2>1, <3>3
      <4> QED BY <2>4, <2>5, <3>3, <4>1 DEF Tally
    <3> QED BY <1>3, <2>1, <3>1, <3>2, <3>3
  <2>7. g[n + 1] = Number(W, n + 1) - Number(U, n + 1) BY <2>2, <2>3, <2>4, <2>6
  <2> QED BY <2>1, <2>7
<1>7. N \in Good
  <2>1. Good \in SUBSET (0..N) OBVIOUS
  <2> HIDE DEF Good
  <2> QED BY <1>0, <1>5, <1>6, <2>1, RangeInduction
<1>8. /\ Number(W, N) = Cardinality(W) /\ Number(U, N) = Cardinality(U)
      /\ Cardinality(W) \in Nat /\ Cardinality(U) \in Nat
  BY <1>0, <1>1, UptoDoes
<1> QED BY <1>2, <1>7, <1>8 DEF W, U

-----------------------------------------------------------------------------
(* The queue of a peer and its count.                                      *)

Enables(s) == L!Count(s, {x \in Step : x.op = "enable"})

LEMMA EnablesDo ==
  ASSUME NEW s \in Seq(Step)
  PROVE  /\ Enables(s) \in Nat /\ Enables(<<>>) = 0
         /\ \A x \in Step : Enables(Append(s, x)) = Enables(s) + IF x.op = "enable" THEN 1 ELSE 0
         /\ s # <<>> => Enables(s) = Enables(Tail(s)) + IF s[1].op = "enable" THEN 1 ELSE 0
<1> DEFINE A == {x \in Step : x.op = "enable"}
<1> HIDE DEF A
<1>1. L!Count(s, A) \in Nat /\ L!Count(<<>>, A) = 0 BY LedgerAssumptions, L!CountType, L!CountEmpty
<1>2. \A x \in Step : L!Count(Append(s, x), A) = L!Count(s, A) + IF x \in A THEN 1 ELSE 0
  BY LedgerAssumptions, L!CountAppend
<1>3. s # <<>> => L!Count(s, A) = L!Count(Tail(s), A) + IF s[1] \in A THEN 1 ELSE 0
  BY LedgerAssumptions, L!CountTail
<1>4. s # <<>> => s[1] \in Step BY RestOfQueue
<1> QED BY <1>1, <1>2, <1>3, <1>4 DEF Enables, A

(* What was granted of the enables answered, and undone by the disables    *)
(* that were run.                                                          *)
Even(c, w, u) ==
  /\ u <= w /\ c.count = w - u + Enables(c.steps)
  /\ ~c.held => w = u
  /\ c.held /\ c.count = 0 => c.steps # <<>>
  /\ c.awaits = "enable" => ~c.held /\ (c.count > 0 \/ Len(c.steps) >= 2)
  /\ c.awaits = "disable" => ~c.held /\ c.steps[1].op = "disable"

LEMMA StepsQueue ==
  ASSUME NEW s \in Seq(Step), NEW x \in Step
  PROVE  /\ Append(s, x) \in Seq(Step) /\ Append(s, x) # <<>> /\ Len(Append(s, x)) = Len(s) + 1 /\ Len(s) \in Nat
         /\ s # <<>> => /\ Append(s, x)[1] = s[1] /\ Len(s) # 0 /\ s[1] \in Step
                        /\ Tail(s) \in Seq(Step) /\ (Len(s) >= 2 => Tail(s) # <<>>)
<1> HIDE DEF Step
<1>1. Append(s, x) \in Seq(Step) /\ Len(Append(s, x)) = Len(s) + 1 /\ Len(s) \in Nat OBVIOUS
<1>2. Append(s, x) # <<>>
  <2>1. Len(Append(s, x)) # 0 /\ Len(<<>>) = 0 BY <1>1
  <2> QED BY <2>1
<1>3. ASSUME s # <<>>
      PROVE  /\ Append(s, x)[1] = s[1] /\ Len(s) # 0 /\ s[1] \in Step /\ Tail(s) \in Seq(Step)
             /\ (Len(s) >= 2 => Tail(s) # <<>>)
  <2>1. Len(s) # 0 /\ Tail(s) \in Seq(Step) /\ Len(Tail(s)) = Len(s) - 1 /\ s[1] \in Step BY <1>3
  <2>2. Append(s, x)[1] = s[1] BY <1>1, <2>1
  <2>3. Len(s) >= 2 => Tail(s) # <<>>
    <3>1. Len(s) >= 2 => Len(Tail(s)) # 0 BY <1>1, <2>1
    <3>2. Len(<<>>) = 0 OBVIOUS
    <3> QED BY <3>1, <3>2
  <2> QED BY <2>1, <2>2, <2>3
<1> QED BY <1>1, <1>2, <1>3

LEMMA CoverParts ==
  ASSUME NEW c \in Cover
  PROVE  /\ c.count \in Nat /\ c.held \in BOOLEAN /\ c.awaits \in {"nothing", "enable", "disable"}
         /\ c.steps \in Seq(Step) /\ Enables(c.steps) \in Nat
BY EnablesDo DEF Cover

LEMMA EvenEnable ==
  ASSUME NEW c \in Cover, Queued(c), NEW w \in Nat, NEW u \in Nat, Even(c, w, u), NEW i \in 0..MaxEvents
  PROVE  Even(Asks(c, "enable", i), w, u)
<1> DEFINE d == Asks(c, "enable", i)  x == [op |-> "enable", call |-> i]
<1>1. /\ d.count = c.count + 1 /\ d.held = c.held /\ d.awaits = c.awaits /\ d.steps = Append(c.steps, x)
      /\ x \in Step /\ x.op = "enable"
  BY DEF Asks, Cover, Step
<1>2. c.count \in Nat /\ c.steps \in Seq(Step) /\ Enables(c.steps) \in Nat BY CoverParts
<1> HIDE DEF x, d
<1>3. Enables(d.steps) = Enables(c.steps) + 1 BY <1>1, <1>2, EnablesDo
<1>4. d.steps # <<>> BY <1>1, <1>2, StepsQueue
<1>5. d.awaits = "disable" => ~d.held /\ d.steps[1].op = "disable"
  <2>1. c.awaits = "disable" => c.steps # <<>> BY DEF Queued
  <2> QED BY <1>1, <1>2, <2>1, StepsQueue DEF Even
<1>6. u <= w /\ d.count = w - u + Enables(d.steps) /\ d.count > 0 BY <1>1, <1>2, <1>3 DEF Even
<1> QED BY <1>1, <1>4, <1>5, <1>6 DEF Even, d

LEMMA EvenDisable ==
  ASSUME NEW c \in Cover, Queued(c), NEW w \in Nat, NEW u \in Nat, Even(c, w, u), NEW i \in 0..MaxEvents, u + 1 <= w
  PROVE  /\ Even(Asks(c, "disable", i), w, u + 1)
         /\ Asks(c, "disable", i).steps = Append(c.steps, [op |-> "disable", call |-> i])
<1> DEFINE d == Asks(c, "disable", i)  x == [op |-> "disable", call |-> i]
<1>1. c.count \in Nat /\ c.steps \in Seq(Step) /\ Enables(c.steps) \in Nat /\ c.awaits \in {"nothing", "enable", "disable"}
  BY CoverParts
<1>2. c.count > 0 BY <1>1 DEF Even
<1>3. c.held
  <2>1. w # u OBVIOUS
  <2> QED BY <2>1 DEF Even
<1>4. c.awaits = "nothing" BY <1>1, <1>3 DEF Even
<1>5. /\ d.count = c.count - 1 /\ d.held = c.held /\ d.awaits = c.awaits /\ d.steps = Append(c.steps, x)
      /\ x \in Step /\ x.op # "enable"
  BY <1>1, <1>2 DEF Asks, Cover, Step
<1> HIDE DEF x, d
<1>6. Enables(d.steps) = Enables(c.steps) BY <1>1, <1>5, EnablesDo
<1>7. d.steps # <<>> BY <1>1, <1>5, StepsQueue
<1>8. u + 1 <= w /\ d.count = w - (u + 1) + Enables(d.steps) BY <1>1, <1>5, <1>6 DEF Even
<1> QED BY <1>3, <1>4, <1>5, <1>7, <1>8 DEF Even, d, x

(* The first step of the queue is over.                                    *)
Over(c) == [c EXCEPT !.awaits = "nothing", !.steps = Tail(@)]

LEMMA OverDoes ==
  ASSUME NEW c \in Cover, c.steps # <<>>
  PROVE  /\ Over(c).count = c.count /\ Over(c).held = c.held /\ Over(c).awaits = "nothing"
         /\ Over(c).steps = Tail(c.steps)
         /\ Enables(c.steps) = Enables(Tail(c.steps)) + IF c.steps[1].op = "enable" THEN 1 ELSE 0
         /\ Enables(Tail(c.steps)) \in Nat
<1>1. c.steps \in Seq(Step) BY CoverParts
<1>2. Tail(c.steps) \in Seq(Step)
  <2> HIDE DEF Step
  <2> QED BY <1>1
<1>3. Enables(Tail(c.steps)) \in Nat BY <1>2, EnablesDo
<1> QED BY <1>1, <1>3, EnablesDo DEF Over, Cover

LEMMA EvenIdle ==
  ASSUME NEW c \in Cover, c.steps # <<>>, c.awaits = "nothing", ~(Wants(c) \/ Returns(c)),
         NEW w \in Nat, NEW u \in Nat, Even(c, w, u)
  PROVE  Even(Over(c), IF c.steps[1].op = "enable" THEN w + 1 ELSE w, u)
<1>1. c.count \in Nat /\ c.held \in BOOLEAN /\ Enables(c.steps) \in Nat BY CoverParts
<1> DEFINE e == Enables(c.steps)  f == Enables(Tail(c.steps))
<1>2. /\ Over(c).count = c.count /\ Over(c).held = c.held /\ Over(c).awaits = "nothing"
      /\ Over(c).steps = Tail(c.steps) /\ f \in Nat /\ e = f + (IF c.steps[1].op = "enable" THEN 1 ELSE 0)
  BY OverDoes
<1>3. u <= w /\ c.count = w - u + e /\ (~c.held => w = u) BY DEF Even
<1>4. (c.held => c.count # 0) /\ (~c.held => c.count = 0) BY <1>1 DEF Wants, Returns
<1> HIDE DEF e, f
<1>5. CASE c.steps[1].op = "enable"
  <2>1. e = f + 1 BY <1>2, <1>5
  <2>2. c.held
    <3>1. c.count # 0 BY <1>2, <1>3, <2>1
    <3> QED BY <1>1, <1>4, <3>1
  <2>3. u <= w + 1 /\ c.count = (w + 1) - u + f BY <1>2, <1>3, <2>1
  <2> QED BY <1>2, <1>4, <1>5, <2>2, <2>3 DEF Even, f
<1>6. CASE c.steps[1].op # "enable"
  <2>1. c.count = w - u + f BY <1>2, <1>3, <1>6
  <2> QED BY <1>2, <1>3, <1>4, <1>6, <2>1 DEF Even, f
<1> QED BY <1>5, <1>6

LEMMA EvenAsks ==
  ASSUME NEW c \in Cover, c.steps # <<>>, c.awaits = "nothing", c.steps[1].op \in {"enable", "disable"},
         NEW w \in Nat, NEW u \in Nat, Even(c, w, u)
  PROVE  /\ Wants(c) => Even([c EXCEPT !.awaits = "enable"], w, u)
         /\ Returns(c) => Even([c EXCEPT !.awaits = "disable", !.held = FALSE], w, u)
<1>1. c.count \in Nat /\ c.held \in BOOLEAN /\ Enables(c.steps) \in Nat BY CoverParts
<1>2. ASSUME Wants(c) PROVE Even([c EXCEPT !.awaits = "enable"], w, u)
  <2> DEFINE d == [c EXCEPT !.awaits = "enable"]
  <2>1. d.count = c.count /\ d.held = c.held /\ d.steps = c.steps /\ d.awaits = "enable" BY DEF Cover
  <2> HIDE DEF d
  <2> QED BY <1>2, <2>1 DEF Even, Wants, d
<1>3. ASSUME Returns(c) PROVE Even([c EXCEPT !.awaits = "disable", !.held = FALSE], w, u)
  <2> DEFINE d == [c EXCEPT !.awaits = "disable", !.held = FALSE]
  <2>1. d.count = c.count /\ ~d.held /\ d.steps = c.steps /\ d.awaits = "disable" BY DEF Cover
  <2>2. Enables(c.steps) = 0 /\ w = u BY <1>1, <1>3 DEF Even, Returns
  <2>3. c.steps[1].op = "disable"
    <3>1. c.steps[1].op # "enable"
      <4>1. /\ Enables(c.steps) = Enables(Tail(c.steps)) + IF c.steps[1].op = "enable" THEN 1 ELSE 0
            /\ Enables(Tail(c.steps)) \in Nat
        BY OverDoes
      <4> QED BY <2>2, <4>1
    <3> QED BY <3>1
  <2> HIDE DEF d
  <2> QED BY <2>1, <2>2, <2>3 DEF Even, d
<1> QED BY <1>2, <1>3

(* The relay grants, or takes back, what it was asked for.                 *)
LEMMA EvenGranted ==
  ASSUME NEW c \in Cover, c.steps # <<>>, c.awaits # "nothing", NEW w \in Nat, NEW u \in Nat, Even(c, w, u)
  PROVE  Even(Over([c EXCEPT !.held = (c.awaits = "enable")]),
              IF c.steps[1].op = "enable" THEN w + 1 ELSE w, u)
<1>1. /\ c.count \in Nat /\ c.held \in BOOLEAN /\ Enables(c.steps) \in Nat /\ c.steps \in Seq(Step)
      /\ c.awaits \in {"enable", "disable"}
  BY CoverParts
<1> DEFINE h == (c.awaits = "enable")  d == [c EXCEPT !.held = h]  e == Enables(c.steps)  f == Enables(Tail(c.steps))
<1>2. d \in Cover /\ d.steps = c.steps /\ d.count = c.count /\ d.held = h BY DEF Cover
<1> HIDE DEF d, h
<1>3. /\ Over(d).count = c.count /\ Over(d).held = h /\ Over(d).awaits = "nothing"
      /\ Over(d).steps = Tail(c.steps) /\ f \in Nat /\ e = f + (IF c.steps[1].op = "enable" THEN 1 ELSE 0)
  BY <1>2, OverDoes
<1>4. u <= w /\ c.count = w - u + e BY DEF Even
<1>5. h => c.count > 0 \/ Len(c.steps) >= 2 BY DEF Even, h
<1>6. h /\ c.count = 0 => Tail(c.steps) # <<>>
  <2>1. Len(c.steps) >= 2 => Tail(c.steps) # <<>>
    <3>1. [op |-> "wait", call |-> 0] \in Step BY BridgeAssumption DEF Step
    <3> QED BY <1>1, <3>1, StepsQueue
  <2> QED BY <1>1, <1>5, <2>1
<1>7. ~h => w = u /\ c.steps[1].op = "disable"
  <2>1. ~h => c.awaits = "disable" BY <1>1 DEF h
  <2> QED BY <2>1 DEF Even
<1> HIDE DEF e, f
<1>8. CASE c.steps[1].op = "enable"
  <2>1. h BY <1>7, <1>8
  <2>2. u <= w + 1 /\ c.count = (w + 1) - u + f BY <1>3, <1>4, <1>8
  <2> QED BY <1>3, <1>6, <1>8, <2>1, <2>2 DEF Even, f, d, h
<1>9. CASE c.steps[1].op # "enable"
  <2>1. c.count = w - u + f BY <1>3, <1>4, <1>9
  <2> QED BY <1>3, <1>4, <1>6, <1>7, <1>9, <2>1 DEF Even, f, d, h
<1> QED BY <1>8, <1>9

LEMMA EvenRefused ==
  ASSUME NEW c \in Cover, c.steps # <<>>, c.awaits # "nothing", NEW w \in Nat, NEW u \in Nat, Even(c, w, u)
  PROVE  Even(Over(IF c.awaits = "enable" THEN RefusedEnable(c) ELSE c), w, u)
<1>1. /\ c.count \in Nat /\ c.held \in BOOLEAN /\ Enables(c.steps) \in Nat /\ c.awaits \in {"enable", "disable"}
  BY CoverParts
<1> DEFINE d == IF c.awaits = "enable" THEN RefusedEnable(c) ELSE c
           e == Enables(c.steps)  f == Enables(Tail(c.steps))
<1>2. u <= w /\ c.count = w - u + e /\ ~c.held /\ w = u BY <1>1 DEF Even
<1>3. f \in Nat /\ e = f + (IF c.steps[1].op = "enable" THEN 1 ELSE 0) BY OverDoes
<1>4. d \in Cover /\ d.steps = c.steps /\ d.held = c.held BY <1>1 DEF RefusedEnable, Cover
<1>5. d.count = f
  <2>1. CASE c.steps[1].op = "enable"
    <3>1. c.awaits = "enable" BY <1>1, <2>1 DEF Even
    <3>2. e = f + 1 BY <1>3, <2>1
    <3>3. c.count = f + 1 BY <1>1, <1>2, <3>2
    <3>4. c.count > 0 /\ c.count - 1 = f BY <1>3, <3>3
    <3>5. d.count = c.count - 1 BY <2>1, <3>1, <3>4 DEF RefusedEnable, Cover
    <3> QED BY <3>4, <3>5
  <2>2. CASE c.steps[1].op # "enable"
    <3>1. e = f BY <1>3, <2>2
    <3>2. c.count = f BY <1>1, <1>2, <3>1
    <3>3. d.count = c.count BY <2>2 DEF RefusedEnable, Cover
    <3> QED BY <3>2, <3>3
  <2> QED BY <2>1, <2>2
<1> HIDE DEF d
<1>6. /\ Over(d).count = f /\ ~Over(d).held /\ Over(d).awaits = "nothing" /\ Over(d).steps = Tail(c.steps)
  BY <1>2, <1>4, <1>5, OverDoes
<1>7. f = w - u + f BY <1>2, <1>3
<1> HIDE DEF f
<1> QED BY <1>2, <1>6, <1>7 DEF Even, f, d

-----------------------------------------------------------------------------
(* The calls in the mailbox of a page.                                     *)

Invoked(s) == {n \in Nat : \E k \in DOMAIN s : s[k].what = "invoke" /\ s[k].n = n}
Waits(s, c) == {n \in Invoked(s) : c[n].method = "disable"}
Sorted(s) == \A j, k \in DOMAIN s : j < k /\ s[j].what = "invoke" /\ s[k].what = "invoke" => s[j].n < s[k].n
Moving == {"register", "unregister"}
Ahead(s, c) ==
  \A j, k \in DOMAIN s : s[k].what = "invoke" /\ c[s[k].n].method = "disable" /\ j < k => s[j].what \notin Moving

Shifts(s, t) ==
  \/ t = s
  \/ s # <<>> /\ t = Tail(s)
  \/ \E m \in Request : m.what # "invoke" /\ t = Append(s, m)

LEMMA TailShifts ==
  ASSUME NEW s \in Seq(Request), s # <<>>, NEW c
  PROVE  /\ Invoked(Tail(s)) \subseteq Invoked(s)
         /\ Sorted(s) => Sorted(Tail(s)) /\ (s[1].what = "invoke" => \A n \in Invoked(Tail(s)) : s[1].n < n)
         /\ Ahead(s, c) => Ahead(Tail(s), c) /\ (s[1].what \in Moving => Waits(Tail(s), c) = {})
         /\ s[1].what = "invoke" => s[1].n \in Invoked(s)
<1> DEFINE t == Tail(s)
<1>1. /\ DOMAIN s \subseteq Nat /\ 1 \in DOMAIN s /\ DOMAIN t \subseteq Nat
      /\ \A i \in DOMAIN t : i + 1 \in DOMAIN s /\ i + 1 > 1 /\ t[i] = s[i + 1]
  BY RestPlaces
<1>2. \A i \in DOMAIN s : s[i] \in Request /\ s[i].n \in Nat
  <2>1. \A i \in DOMAIN s : s[i] \in Request
    <3> HIDE DEF Request
    <3> QED BY ElementOfSeq
  <2> QED BY <2>1 DEF Request
<1> HIDE DEF t
<1>3. \A j, k \in DOMAIN t : j < k => j + 1 < k + 1 BY <1>1
<1>4. Invoked(t) \subseteq Invoked(s) BY <1>1 DEF Invoked
<1>5. ASSUME Sorted(s) PROVE Sorted(t) /\ (s[1].what = "invoke" => \A n \in Invoked(t) : s[1].n < n)
  <2>1. Sorted(t) BY <1>1, <1>3, <1>5 DEF Sorted
  <2>2. ASSUME NEW n \in Invoked(t), s[1].what = "invoke" PROVE s[1].n < n
    <3>1. PICK k \in DOMAIN t : t[k].what = "invoke" /\ t[k].n = n BY <2>2 DEF Invoked
    <3>2. k + 1 \in DOMAIN s /\ 1 < k + 1 /\ s[k + 1] = t[k] BY <1>1
    <3> QED BY <1>1, <1>5, <2>2, <3>1, <3>2 DEF Sorted
  <2> QED BY <2>1, <2>2
<1>6. ASSUME Ahead(s, c) PROVE Ahead(t, c) /\ (s[1].what \in Moving => Waits(t, c) = {})
  <2>1. Ahead(t, c) BY <1>1, <1>3, <1>6 DEF Ahead
  <2>2. ASSUME NEW n \in Waits(t, c), s[1].what \in Moving PROVE FALSE
    <3>1. PICK k \in DOMAIN t : t[k].what = "invoke" /\ t[k].n = n BY <2>2 DEF Waits, Invoked
    <3>2. k + 1 \in DOMAIN s /\ 1 < k + 1 /\ s[k + 1] = t[k] BY <1>1
    <3> QED BY <1>1, <1>6, <2>2, <3>1, <3>2 DEF Ahead, Waits
  <2> QED BY <2>1, <2>2
<1>7. s[1].what = "invoke" => s[1].n \in Invoked(s) BY <1>1, <1>2 DEF Invoked
<1> QED BY <1>4, <1>5, <1>6, <1>7 DEF t

LEMMA PostShifts ==
  ASSUME NEW s \in Seq(Request), NEW m \in Request, m.what # "invoke", NEW c
  PROVE  /\ Invoked(Append(s, m)) \subseteq Invoked(s)
         /\ Sorted(s) => Sorted(Append(s, m))
         /\ Ahead(s, c) => Ahead(Append(s, m), c)
<1> DEFINE t == Append(s, m)  l == Len(s) + 1
<1>1. /\ DOMAIN s \subseteq Nat /\ DOMAIN t = (DOMAIN s) \cup {l} /\ t[l] = m /\ l \in Nat
      /\ \A i \in DOMAIN s : t[i] = s[i] /\ i < l
  BY Places
<1> HIDE DEF t, l
<1>2. \A k \in DOMAIN t : t[k].what = "invoke" => k \in DOMAIN s /\ t[k] = s[k] BY <1>1
<1>3. \A j \in DOMAIN t, k \in DOMAIN s : j < k => j \in DOMAIN s BY <1>1
<1>4. Invoked(t) \subseteq Invoked(s) BY <1>2 DEF Invoked
<1>5. Sorted(s) => Sorted(t) BY <1>2 DEF Sorted
<1>6. Ahead(s, c) => Ahead(t, c) BY <1>1, <1>2, <1>3 DEF Ahead
<1> QED BY <1>4, <1>5, <1>6 DEF t

LEMMA ShiftDoes ==
  ASSUME NEW s \in Seq(Request), NEW t, Shifts(s, t), NEW c, Sorted(s), Ahead(s, c)
  PROVE  Invoked(t) \subseteq Invoked(s) /\ Sorted(t) /\ Ahead(t, c) /\ Waits(t, c) \subseteq Waits(s, c)
<1>1. Invoked(t) \subseteq Invoked(s) /\ Sorted(t) /\ Ahead(t, c)
  <2>1. CASE t = s BY <2>1
  <2>2. CASE s # <<>> /\ t = Tail(s) BY <2>2, TailShifts
  <2>3. ASSUME NEW m \in Request, m.what # "invoke", t = Append(s, m)
        PROVE  Invoked(t) \subseteq Invoked(s) /\ Sorted(t) /\ Ahead(t, c)
    BY <2>3, PostShifts
  <2> QED BY <2>1, <2>2, <2>3 DEF Shifts
<1> QED BY <1>1 DEF Waits

(* A call is added.                                                        *)
LEMMA PostInvoke ==
  ASSUME NEW s \in Seq(Request), NEW n \in Nat, NEW c, Sorted(s), Ahead(s, c), \A x \in Invoked(s) : x < n,
         c[n].method = "disable" => ~Goes(s)
  PROVE  LET t == Append(s, Message("invoke", n)) IN
         Invoked(t) = Invoked(s) \cup {n} /\ Sorted(t) /\ Ahead(t, c)
<1> DEFINE m == Message("invoke", n)  t == Append(s, m)  l == Len(s) + 1
<1>1. m \in Request /\ m.what = "invoke" /\ m.n = n BY DEF Message, Request
<1>2. /\ DOMAIN s \subseteq Nat /\ DOMAIN t = (DOMAIN s) \cup {l} /\ t[l] = m /\ l \in Nat
      /\ \A i \in DOMAIN s : t[i] = s[i] /\ i < l
  <2> HIDE DEF m
  <2> QED BY <1>1, Places
<1>3. \A i \in DOMAIN s : s[i].n \in Nat
  <2>1. \A i \in DOMAIN s : s[i] \in Request
    <3> HIDE DEF Request
    <3> QED BY ElementOfSeq
  <2> QED BY <2>1 DEF Request
<1> HIDE DEF t, l, m
<1>4. \A i \in DOMAIN s : s[i].what = "invoke" => s[i].n < n BY <1>3 DEF Invoked
<1>5. Invoked(t) = Invoked(s) \cup {n} BY <1>1, <1>2 DEF Invoked
<1>6. \A j, k \in DOMAIN t : j < k => j \in DOMAIN s /\ t[j] = s[j] /\ (k = l \/ k \in DOMAIN s)
  <2>1. \A k \in DOMAIN s : ~(l < k) BY <1>2
  <2>2. ~(l < l) BY <1>2
  <2> QED BY <1>2, <2>1, <2>2
<1>7. Sorted(t) BY <1>1, <1>2, <1>4, <1>6 DEF Sorted
<1>8. Ahead(t, c) BY <1>1, <1>2, <1>6 DEF Ahead, Goes, Moving
<1> QED BY <1>5, <1>7, <1>8 DEF t, m

-----------------------------------------------------------------------------
(* The calls of pages that are not eager.                                  *)

TruthOK ==
  \A i \in DOMAIN calls :
    /\ calls[i].promise = "ok" => calls[i].outcome = "ok"
    /\ calls[i].peer = 0 => calls[i].outcome # "ok"
    /\ \A r \in Known : calls[i].peer = senders[r].peer => calls[i].page = r

(* A page's calls are run in their order, and answered once.               *)
OrderOK ==
  \A r \in Renderers :
    /\ Sorted(toMain[r]) /\ Ahead(toMain[r], calls)
    /\ \A n \in Invoked(toMain[r]) :
         /\ calls[n].outcome = "none"
         /\ \A i \in DOMAIN calls : calls[i].page = r /\ calls[i].peer # 0 => i < n
StepsOK ==
  \A p \in Peers : LET s == coverage[p].steps IN \A k \in DOMAIN s :
    /\ s[k].call # 0 => /\ calls[s[k].call].peer = p /\ calls[s[k].call].outcome = "none"
                        /\ \A j \in DOMAIN s : s[j].call = s[k].call => j = k
    /\ p \in PeersOf(Known) => s[k].call # 0 /\ s[k].op = calls[s[k].call].method

(* What is given up was granted, from the call on that gives it up.        *)
WaitOK ==
  \A r \in Renderers : \A n \in Waits(toMain[r], calls) :
    /\ Alive(r) /\ ~disposed => Knows(r)
    /\ Knows(r) => Number(Tries(calls, r, senders[r].peer), n) <= Number(Wins(calls, senders[r].peer), n)
EarnOK == \A p \in PeersOf(Known) : Earned(calls, p)
FreshOK ==
  \A p \in Peers : p > made => coverage[p] = [count |-> 0, held |-> FALSE, awaits |-> "nothing", steps |-> <<>>]
BalanceOK ==
  \A p \in PeersOf(Known) :
    Even(coverage[p], Cardinality(Wins(calls, p)), Cardinality(Undoes(calls, p)))
Books == TruthOK /\ OrderOK /\ StepsOK /\ WaitOK /\ EarnOK /\ FreshOK /\ BalanceOK

-----------------------------------------------------------------------------
(* Steps that leave the books as they are                                  *)

SameBooks(c, d) ==
  /\ d \in Seq(Call) /\ DOMAIN d = DOMAIN c /\ Len(d) = Len(c)
  /\ \A i \in DOMAIN c :
       /\ d[i].page = c[i].page /\ d[i].method = c[i].method /\ d[i].peer = c[i].peer
       /\ d[i].outcome = c[i].outcome \/ (c[i].peer = 0 /\ d[i].outcome # "ok")
       /\ \/ d[i].promise = c[i].promise \/ d[i].promise # "ok"
          \/ d[i].promise = c[i].outcome /\ d[i].outcome = c[i].outcome

(* A window is known as before, or no longer; or it is new.                *)
SameToken(r) == r \in Known' => r \in Known /\ senders'[r].peer = senders[r].peer
NewToken(r) == senders'[r].peer > made
NoLess(r) == Alive(r)' /\ ~disposed' => Alive(r) /\ ~disposed /\ (Knows(r) => Knows(r)')
SameCover(p) ==
  \/ coverage'[p] = coverage[p]
  \/ /\ p \in PeersOf(Known) /\ p \notin PeersOf(Known)'
     /\ \E x \in Step : x.call = 0 /\ coverage'[p].steps = Append(coverage[p].steps, x)

LEMMA BookTypes ==
  ASSUME IInv
  PROVE  /\ calls \in Seq(Call) /\ Len(calls) \in Nat /\ DOMAIN calls = 1..Len(calls) /\ made \in Nat
         /\ \A i \in DOMAIN calls : calls[i] \in Call /\ calls[i].peer \in Nat /\ calls[i].peer <= made
         /\ \A p \in Peers : p \in Nat /\ p # 0 /\ coverage[p] \in Cover /\ coverage[p].steps \in Seq(Step)
         /\ \A p \in Peers : \A k \in DOMAIN coverage[p].steps :
              /\ coverage[p].steps[k].call \in 0..Len(calls)
              /\ coverage[p].steps[k].call # 0 => coverage[p].steps[k].call \in DOMAIN calls
         /\ PeersOf(Known) \subseteq Peers
         /\ \A r \in Renderers : toMain[r] \in Seq(Request) /\ toPage[r] \in Seq(Notice)
         /\ \A r \in Renderers : \A n \in Invoked(toMain[r]) :
              n \in DOMAIN calls /\ calls[n].page = r /\ calls[n].peer = 0
<1>1. /\ calls \in Seq(Call) /\ Len(calls) \in Nat /\ DOMAIN calls = 1..Len(calls)
      /\ \A i \in DOMAIN calls : calls[i] \in Call
  BY CallsType DEF IInv
<1>2. \A i \in DOMAIN calls : calls[i].peer \in Nat /\ calls[i].peer <= made
  <2>1. \A i \in DOMAIN calls : calls[i].peer \in Peers \cup {0} BY <1>1 DEF Call
  <2> QED BY <2>1, PeersCount DEF IInv, CallsOK
<1>3. made \in Nat
  <2>1. made \in Peers \cup {0} BY DEF IInv, Registry
  <2> QED BY <2>1, PeersCount
<1>4. \A p \in Peers : p \in Nat /\ p # 0 /\ coverage[p] \in Cover /\ coverage[p].steps \in Seq(Step)
  <2>1. \A p \in Peers : coverage[p] \in Cover BY DEF IInv, CoverageOK
  <2> QED BY <2>1, PeersCount, CoverParts
<1>5. \A p \in Peers : \A k \in DOMAIN coverage[p].steps : coverage[p].steps[k].call \in 0..Len(calls)
  BY DEF IInv, CoverageOK, Refers
<1>6. \A i \in 0..Len(calls) : i # 0 => i \in DOMAIN calls BY <1>1
<1>7. PeersOf(Known) \subseteq Peers BY Tokens DEF IInv, PeersOf
<1>8. \A r \in Renderers : toMain[r] \in Seq(Request) /\ toPage[r] \in Seq(Notice) BY PageTypes DEF IInv
<1>9. \A r \in Renderers : \A n \in Invoked(toMain[r]) : n \in DOMAIN calls /\ calls[n].page = r /\ calls[n].peer = 0
  BY DEF IInv, MailOK, Invokes, Invoked
<1> QED BY <1>1, <1>2, <1>3, <1>4, <1>5, <1>6, <1>7, <1>8, <1>9

LEMMA SameSets ==
  ASSUME NEW c, NEW d, SameBooks(c, d), NEW p, p # 0
  PROVE  Wins(d, p) = Wins(c, p) /\ Undoes(d, p) = Undoes(c, p) /\ \A r : Tries(d, r, p) = Tries(c, r, p)
<1>1. Wins(d, p) = Wins(c, p) BY DEF SameBooks, Wins
<1>2. Undoes(d, p) = Undoes(c, p) BY DEF SameBooks, Undoes
<1>3. \A r : Tries(d, r, p) = Tries(c, r, p) BY DEF SameBooks, Tries
<1> QED BY <1>1, <1>2, <1>3

LEMMA FreshEven ==
  ASSUME IInv, NEW p, p > made, p \in Nat
  PROVE  /\ Wins(calls, p) = {} /\ Undoes(calls, p) = {} /\ Earned(calls, p)
         /\ Cardinality({}) = 0
         /\ Even([count |-> 0, held |-> FALSE, awaits |-> "nothing", steps |-> <<>>], 0, 0)
<1>1. \A i \in DOMAIN calls : calls[i].peer # p
  <2>1. made \in Nat /\ \A i \in DOMAIN calls : calls[i].peer \in Nat /\ calls[i].peer <= made BY BookTypes
  <2> QED BY <2>1
<1>2. Wins(calls, p) = {} /\ Undoes(calls, p) = {} BY <1>1 DEF Wins, Undoes
<1>3. Earned(calls, p) BY <1>2 DEF Earned
<1>4. Enables(<<>>) = 0
  <2>1. <<>> \in Seq(Step) OBVIOUS
  <2> QED BY <2>1, EnablesDo
<1> QED BY <1>2, <1>3, <1>4, FS_EmptySet DEF Even

LEMMA BooksQuiet ==
  ASSUME IInv, IInv', Books, SameBooks(calls, calls'), made' >= made,
         \A r \in Renderers : \A n \in Invoked(toMain'[r]) : calls'[n].outcome = calls[n].outcome,
         \A r \in Renderers : Shifts(toMain[r], toMain'[r]),
         \A r \in Renderers : SameToken(r) \/ NewToken(r),
         \A r \in Renderers : Waits(toMain'[r], calls) = {} \/ (SameToken(r) /\ NoLess(r)),
         \A p \in Peers : SameCover(p)
  PROVE  Books'
<1>1. /\ made \in Nat /\ \A i \in DOMAIN calls : calls[i].peer \in Nat /\ calls[i].peer <= made
      /\ \A p \in Peers : p \in Nat /\ p # 0
      /\ \A r \in Renderers : \A n \in Invoked(toMain[r]) : n \in DOMAIN calls
  BY BookTypes
<1>2. /\ DOMAIN calls' = DOMAIN calls
      /\ \A i \in DOMAIN calls :
           /\ calls'[i].page = calls[i].page /\ calls'[i].method = calls[i].method /\ calls'[i].peer = calls[i].peer
           /\ calls'[i].outcome = calls[i].outcome \/ (calls[i].peer = 0 /\ calls'[i].outcome # "ok")
           /\ \/ calls'[i].promise = calls[i].promise \/ calls'[i].promise # "ok"
              \/ calls'[i].promise = calls[i].outcome /\ calls'[i].outcome = calls[i].outcome
  BY DEF SameBooks
<1>3. \A r \in Renderers : senders'[r].peer \in Nat /\ senders[r].peer \in Nat
  <2>1. \A r \in Renderers : senders[r].peer \in Peers \cup {0} BY DEF IInv, Registry
  <2>2. \A r \in Renderers : senders'[r].peer \in Peers \cup {0} BY DEF IInv, Registry
  <2> QED BY <1>1, <2>1, <2>2
<1>4. \A p \in PeersOf(Known)' : p \in Peers /\ (p \in PeersOf(Known) \/ p > made)
  <2>1. \A r \in Known' : r \in Renderers /\ senders'[r].peer \in Peers
    <3>1. \A r \in Known' : r \in Renderers /\ senders'[r].peer # 0 BY DEF Known, Knows
    <3>2. \A r \in Renderers : senders'[r].peer \in Peers \cup {0} BY DEF IInv, Registry
    <3> QED BY <3>1, <3>2
  <2>2. \A r \in Known' : (r \in Known /\ senders'[r].peer = senders[r].peer) \/ senders'[r].peer > made
    BY <2>1 DEF SameToken, NewToken
  <2> QED BY <2>1, <2>2 DEF PeersOf
<1>5. \A p \in Peers : /\ Wins(calls', p) = Wins(calls, p) /\ Undoes(calls', p) = Undoes(calls, p)
                       /\ \A r : Tries(calls', r, p) = Tries(calls, r, p)
  BY <1>1, SameSets
<1>6. \A r \in Renderers :
        /\ Invoked(toMain'[r]) \subseteq Invoked(toMain[r]) /\ Sorted(toMain'[r]) /\ Ahead(toMain'[r], calls)
        /\ Waits(toMain'[r], calls) \subseteq Waits(toMain[r], calls)
  BY BookTypes, ShiftDoes DEF Books, OrderOK
<1>7. TruthOK'
  <2>1. ASSUME NEW i \in DOMAIN calls
        PROVE  /\ calls'[i].promise = "ok" => calls'[i].outcome = "ok"
               /\ calls'[i].peer = 0 => calls'[i].outcome # "ok"
    BY <1>2 DEF Books, TruthOK
  <2>2. ASSUME NEW i \in DOMAIN calls, NEW r \in Known', calls'[i].peer = senders'[r].peer
        PROVE  calls'[i].page = r
    <3>1. r \in Renderers BY DEF Known
    <3>2. ~NewToken(r) BY <1>1, <1>2, <1>3, <2>2, <3>1 DEF NewToken
    <3>3. r \in Known /\ senders'[r].peer = senders[r].peer BY <3>1, <3>2 DEF SameToken
    <3> QED BY <1>2, <2>2, <3>3 DEF Books, TruthOK
  <2> QED BY <1>2, <2>1, <2>2 DEF TruthOK
<1>8. OrderOK'
  <2>1. ASSUME NEW r \in Renderers
        PROVE  /\ Sorted(toMain'[r]) /\ Ahead(toMain'[r], calls')
               /\ \A n \in Invoked(toMain'[r]) :
                    /\ calls'[n].outcome = "none"
                    /\ \A i \in DOMAIN calls' : calls'[i].page = r /\ calls'[i].peer # 0 => i < n
    <3>1. \A n \in Invoked(toMain'[r]) : n \in DOMAIN calls /\ calls'[n].method = calls[n].method BY <1>1, <1>2, <1>6
    <3>2. Ahead(toMain'[r], calls')
      <4>1. \A k \in DOMAIN toMain'[r] : toMain'[r][k].what = "invoke" => toMain'[r][k].n \in Invoked(toMain'[r])
        <5>1. \A k \in DOMAIN toMain'[r] : toMain'[r][k] \in Request
          <6>1. toMain'[r] \in Seq(Request) BY DEF IInv, PagesOK
          <6> HIDE DEF Request
          <6> QED BY <6>1, ElementOfSeq
        <5> QED BY <5>1 DEF Invoked, Request
      <4> QED BY <1>6, <3>1, <4>1 DEF Ahead
    <3>3. ASSUME NEW n \in Invoked(toMain'[r])
          PROVE  /\ calls'[n].outcome = "none"
                 /\ \A i \in DOMAIN calls' : calls'[i].page = r /\ calls'[i].peer # 0 => i < n
      <4>1. n \in Invoked(toMain[r]) BY <1>6
      <4>2. /\ calls[n].outcome = "none"
            /\ \A i \in DOMAIN calls : calls[i].page = r /\ calls[i].peer # 0 => i < n
        BY <4>1 DEF Books, OrderOK
      <4> QED BY <1>2, <4>2
    <3> QED BY <1>6, <3>2, <3>3
  <2> QED BY <2>1 DEF OrderOK
<1>9. StepsOK'
  <2> DEFINE Fine(s, p, c, on) ==
        \A k \in DOMAIN s :
          /\ s[k].call # 0 => /\ c[s[k].call].peer = p /\ c[s[k].call].outcome = "none"
                              /\ \A j \in DOMAIN s : s[j].call = s[k].call => j = k
          /\ on => s[k].call # 0 /\ s[k].op = c[s[k].call].method
  <2>1. ASSUME NEW p \in Peers
        PROVE  Fine(coverage'[p].steps, p, calls', p \in PeersOf(Known)')
    <3> DEFINE s == coverage[p].steps
    <3>1. /\ s \in Seq(Step)
          /\ \A k \in DOMAIN s : s[k].call # 0 => s[k].call \in DOMAIN calls
          /\ Fine(s, p, calls, p \in PeersOf(Known))
      BY BookTypes DEF Books, StepsOK
    <3>2. \A k \in DOMAIN s : s[k].call # 0 =>
            /\ calls'[s[k].call].peer = p /\ calls'[s[k].call].outcome = "none"
            /\ calls'[s[k].call].method = calls[s[k].call].method
      BY <1>1, <1>2, <3>1
    <3>3. CASE coverage'[p] = coverage[p]
      <4>1. CASE p \in PeersOf(Known) BY <3>1, <3>2, <3>3, <4>1
      <4>2. CASE p \notin PeersOf(Known)' BY <3>1, <3>2, <3>3, <4>2
      <4>3. CASE p > made
        <5>1. s = <<>> BY <4>3 DEF Books, FreshOK
        <5> QED BY <3>3, <5>1
      <4> QED BY <1>4, <4>1, <4>2, <4>3
    <3>4. ASSUME p \notin PeersOf(Known)', NEW x \in Step, x.call = 0, coverage'[p].steps = Append(s, x)
          PROVE  Fine(coverage'[p].steps, p, calls', p \in PeersOf(Known)')
      <4> DEFINE t == Append(s, x)
      <4>1. /\ DOMAIN t = (DOMAIN s) \cup {Len(s) + 1} /\ t[Len(s) + 1] = x
            /\ \A i \in DOMAIN s : t[i] = s[i]
        <5> HIDE DEF s, Step
        <5> QED BY <3>1, LongerBox
      <4> HIDE DEF t, s
      <4>2. \A k \in DOMAIN t : t[k].call # 0 => k \in DOMAIN s /\ t[k] = s[k] BY <3>4, <4>1
      <4> QED BY <3>1, <3>2, <3>4, <4>2 DEF t
    <3> QED BY <3>3, <3>4 DEF SameCover
  <2> QED BY <2>1 DEF StepsOK
<1>10. WaitOK'
  <2>1. ASSUME NEW r \in Renderers, NEW n \in Waits(toMain'[r], calls')
        PROVE  /\ Alive(r)' /\ ~disposed' => Knows(r)'
               /\ Knows(r)' => Number(Tries(calls', r, senders'[r].peer), n) <= Number(Wins(calls', senders'[r].peer), n)
    <3>1. n \in Waits(toMain'[r], calls) BY <1>1, <1>2, <1>6, <2>1 DEF Waits
    <3>2. n \in Waits(toMain[r], calls) /\ SameToken(r) /\ NoLess(r) BY <1>6, <3>1
    <3>3. /\ Alive(r) /\ ~disposed => Knows(r)
          /\ Knows(r) => Number(Tries(calls, r, senders[r].peer), n) <= Number(Wins(calls, senders[r].peer), n)
      BY <3>2 DEF Books, WaitOK
    <3>4. Alive(r)' /\ ~disposed' => Knows(r)' BY <3>2, <3>3 DEF NoLess
    <3>5. ASSUME Knows(r)'
          PROVE  Number(Tries(calls', r, senders'[r].peer), n) <= Number(Wins(calls', senders'[r].peer), n)
      <4>1. r \in Known /\ senders'[r].peer = senders[r].peer /\ Knows(r)
        <5>1. r \in Known' BY <3>5 DEF Known
        <5> QED BY <3>2, <5>1 DEF SameToken, Known
      <4>2. senders[r].peer \in Peers BY <4>1, Tokens DEF IInv
      <4> QED BY <1>5, <3>3, <4>1, <4>2
    <3> QED BY <3>4, <3>5
  <2> QED BY <2>1 DEF WaitOK
<1>11. EarnOK' /\ BalanceOK'
  <2>1. ASSUME NEW p \in PeersOf(Known)'
        PROVE  /\ Earned(calls', p)
               /\ Even(coverage'[p], Cardinality(Wins(calls', p)), Cardinality(Undoes(calls', p)))
    <3>1. p \in Peers /\ coverage'[p] = coverage[p] BY <1>4 DEF SameCover
    <3>2. Wins(calls', p) = Wins(calls, p) /\ Undoes(calls', p) = Undoes(calls, p) BY <1>5, <3>1
    <3>3. CASE p \in PeersOf(Known) BY <3>1, <3>2, <3>3 DEF Books, EarnOK, BalanceOK, Earned
    <3>4. CASE p > made
      <4>1. coverage[p] = [count |-> 0, held |-> FALSE, awaits |-> "nothing", steps |-> <<>>]
        BY <3>1, <3>4 DEF Books, FreshOK
      <4> QED BY <1>1, <3>1, <3>2, <3>4, <4>1, FreshEven DEF Earned
    <3> QED BY <1>4, <3>3, <3>4
  <2> QED BY <2>1 DEF EarnOK, BalanceOK
<1>12. FreshOK'
  <2>1. ASSUME NEW p \in Peers, p > made'
        PROVE  coverage'[p] = [count |-> 0, held |-> FALSE, awaits |-> "nothing", steps |-> <<>>]
    <3>1. made' \in Nat
      <4>1. made' \in Peers \cup {0} BY DEF IInv, Registry
      <4> QED BY <1>1, <4>1
    <3>2. p > made BY <1>1, <2>1, <3>1
    <3>3. p \notin PeersOf(Known)
      <4>1. \A q \in PeersOf(Known) : q <= made
        <5>1. \A r \in Known : senders[r].peer \in 1..made BY DEF IInv, Registry
        <5> QED BY <1>1, <5>1 DEF PeersOf
      <4> QED BY <1>1, <3>2, <4>1
    <3> QED BY <3>2, <3>3 DEF SameCover, Books, FreshOK
  <2> QED BY <2>1 DEF FreshOK
<1> QED BY <1>7, <1>8, <1>9, <1>10, <1>11, <1>12 DEF Books

-----------------------------------------------------------------------------
(* A call is made.                                                         *)

LEMMA SameAhead ==
  ASSUME NEW s \in Seq(Request), NEW c, NEW d, \A n \in Invoked(s) : d[n].method = c[n].method
  PROVE  (Ahead(s, c) => Ahead(s, d)) /\ Waits(s, d) = Waits(s, c)
<1>1. \A k \in DOMAIN s : s[k].n \in Nat
  <2>1. \A k \in DOMAIN s : s[k] \in Request
    <3> HIDE DEF Request
    <3> QED BY ElementOfSeq
  <2> QED BY <2>1 DEF Request
<1>2. \A k \in DOMAIN s : s[k].what = "invoke" => d[s[k].n].method = c[s[k].n].method BY <1>1 DEF Invoked
<1>3. Ahead(s, c) => Ahead(s, d) BY <1>2 DEF Ahead
<1>4. Waits(s, d) = Waits(s, c) BY DEF Waits
<1> QED BY <1>3, <1>4

LEMMA SetTypes ==
  ASSUME IInv, NEW r, NEW p
  PROVE  /\ Len(calls) \in Nat
         /\ Wins(calls, p) \in SUBSET (1..Len(calls)) /\ Undoes(calls, p) \in SUBSET (1..Len(calls))
         /\ Tries(calls, r, p) \in SUBSET (1..Len(calls))
         /\ Cardinality(Wins(calls, p)) \in Nat /\ Cardinality(Undoes(calls, p)) \in Nat
         /\ Cardinality(Tries(calls, r, p)) \in Nat
         /\ IsFiniteSet(Wins(calls, p)) /\ IsFiniteSet(Undoes(calls, p)) /\ IsFiniteSet(Tries(calls, r, p))
<1>1. DOMAIN calls = 1..Len(calls) /\ Len(calls) \in Nat BY BookTypes
<1>2. /\ Wins(calls, p) \in SUBSET (1..Len(calls)) /\ Undoes(calls, p) \in SUBSET (1..Len(calls))
      /\ Tries(calls, r, p) \in SUBSET (1..Len(calls))
  BY <1>1 DEF Wins, Undoes, Tries
<1> QED BY <1>1, <1>2, UptoDoes

LEMMA UptoAll ==
  ASSUME NEW N \in Nat, NEW A \in SUBSET (1..N), NEW n \in Nat, n >= N
  PROVE  Upto(A, n) = A /\ Number(A, n) = Cardinality(A)
<1>1. \A i \in A : i \in 1..N OBVIOUS
<1>2. \A i \in A : i <= n BY <1>1
<1> QED BY <1>2 DEF Upto, Number

LEMMA invokeBooks ==
  ASSUME IInv, IInv', Books, ~Eager, NEW r \in Renderers, NEW method \in {"enable", "disable"}, invoke(r, method)
  PROVE  Books'
<1> DEFINE c == [page |-> r, method |-> method, peer |-> 0, aborted |-> FALSE,
                 outcome |-> "none", promise |-> "pending"]
           N == Len(calls)  n == N + 1  p == senders[r].peer
           m == Message("invoke", n)
<1>1. /\ calls' = Append(calls, c) /\ toMain' = Post(toMain, r, m)
      /\ UNCHANGED <<senders, made, coverage, wc, disposed>>
      /\ method = "disable" => Granted(r)
  BY DEF invoke, pageVars, flowVars, mainVars
<1>2. c \in Call /\ c.page = r /\ c.method = method /\ c.peer = 0 /\ c.outcome = "none" /\ c.promise = "pending"
  BY DEF Call
<1>3. /\ calls \in Seq(Call) /\ N \in Nat /\ DOMAIN calls = 1..N
      /\ \A i \in DOMAIN calls : calls[i] \in Call
  BY BookTypes
<1>4. n \in Nat /\ n > N /\ n \notin DOMAIN calls /\ m \in Request /\ \A i \in DOMAIN calls : i < n /\ i \in Nat
  <2>1. n \in Nat /\ n > N /\ n \notin DOMAIN calls /\ \A i \in DOMAIN calls : i < n /\ i \in Nat BY <1>3
  <2> HIDE DEF n
  <2> QED BY <2>1 DEF Message, Request
<1> HIDE DEF c
<1>5. /\ DOMAIN calls' = (DOMAIN calls) \cup {n} /\ calls'[n] = c
      /\ \A i \in DOMAIN calls : calls'[i] = calls[i]
  <2> HIDE DEF Call
  <2> QED BY <1>1, <1>2, <1>3, LongerBox
<1>6. /\ toMain'[r] = Append(toMain[r], m) /\ \A q \in Renderers : q # r => toMain'[q] = toMain[q]
      /\ \A q \in Renderers : toMain[q] \in Seq(Request)
      /\ \A q \in Renderers : \A k \in Invoked(toMain[q]) : k \in DOMAIN calls /\ calls[k].page = q
  <2> DEFINE b == Post(toMain, r, m)
  <2>1. b[r] = Append(toMain[r], m) /\ \A q \in Renderers : q # r => b[q] = toMain[q]
    BY <1>4, PostType DEF IInv
  <2>2. /\ \A q \in Renderers : toMain[q] \in Seq(Request)
        /\ \A q \in Renderers : \A k \in Invoked(toMain[q]) : k \in DOMAIN calls /\ calls[k].page = q
    BY BookTypes
  <2> QED BY <1>1, <2>1, <2>2
<1>7. Known' = Known /\ PeersOf(Known)' = PeersOf(Known) BY <1>1 DEF Known, Knows, PeersOf
<1>8. \A q : q # 0 => /\ Wins(calls', q) = Wins(calls, q) /\ Undoes(calls', q) = Undoes(calls, q)
  BY <1>2, <1>5 DEF Wins, Undoes
<1>9. \A q, x : q # r => Tries(calls', q, x) = Tries(calls, q, x) BY <1>2, <1>5 DEF Tries
<1>10. \A x : Tries(calls', r, x) = IF method = "disable" THEN Tries(calls, r, x) \cup {n} ELSE Tries(calls, r, x)
  BY <1>2, <1>5 DEF Tries
<1>11. TruthOK' BY <1>1, <1>2, <1>5, <1>7 DEF Books, TruthOK, Known, Knows
<1>12. \A q \in Renderers :
         /\ Sorted(toMain[q]) /\ Ahead(toMain[q], calls') /\ Waits(toMain[q], calls') = Waits(toMain[q], calls)
  BY Zenon, <1>5, <1>6, SameAhead DEF Books, OrderOK
<1>13. method = "disable" => /\ ~Goes(toMain[r]) /\ Knows(r)
                             /\ Cardinality(Tries(calls, r, p)) + 1 <= Cardinality(Wins(calls, p))
  <2> SUFFICES ASSUME method = "disable"
               PROVE  ~Goes(toMain[r]) /\ Knows(r)
                      /\ Cardinality(Tries(calls, r, p)) + 1 <= Cardinality(Wins(calls, p))
    OBVIOUS
  <2> DEFINE S == {i \in Of(r, "enable", {p}) : calls[i].promise = "ok"}
  <2>1. ~Leaving(r) /\ Cardinality(S) > Cardinality(Of(r, "disable", {0, p})) BY <1>1 DEF Granted
  <2>2. S \subseteq Wins(calls, p) BY DEF Of, Wins, Books, TruthOK
  <2>3. Of(r, "disable", {0, p}) = Tries(calls, r, p) BY DEF Of, Tries
  <2>4. /\ Cardinality(Wins(calls, p)) \in Nat /\ Cardinality(Tries(calls, r, p)) \in Nat
        /\ IsFiniteSet(Wins(calls, p))
    BY SetTypes
  <2>5. Cardinality(S) <= Cardinality(Wins(calls, p)) /\ Cardinality(S) \in Nat
    <3>1. IsFiniteSet(S) /\ Cardinality(S) <= Cardinality(Wins(calls, p)) BY <2>2, <2>4, FS_Subset
    <3> QED BY <3>1, FS_CardinalityType
  <2> HIDE DEF S
  <2>6. Knows(r)
    <3>1. SUFFICES ASSUME p = 0 PROVE FALSE BY DEF Knows
    <3>2. Wins(calls, p) = {} BY <3>1 DEF Wins, Books, TruthOK
    <3>3. Cardinality(Wins(calls, p)) = 0 BY <3>2, FS_EmptySet
    <3> HIDE DEF p
    <3> QED BY <2>1, <2>3, <2>4, <2>5, <3>3
  <2>7. Cardinality(Tries(calls, r, p)) + 1 <= Cardinality(Wins(calls, p))
    <3> DEFINE t == Cardinality(Tries(calls, r, p))  w == Cardinality(Wins(calls, p))  z == Cardinality(S)
    <3>1. t \in Nat /\ w \in Nat /\ z \in Nat /\ z > t /\ z <= w BY <2>1, <2>3, <2>4, <2>5
    <3> HIDE DEF t, w, z
    <3>2. t + 1 <= w BY <3>1
    <3> QED BY <3>2 DEF t, w
  <2> QED BY <2>1, <2>6, <2>7, LeavingIs
<1>14. Invoked(toMain'[r]) = Invoked(toMain[r]) \cup {n} /\ Sorted(toMain'[r]) /\ Ahead(toMain'[r], calls')
  <2>1. \A x \in Invoked(toMain[r]) : x < n BY <1>4, <1>6
  <2>2. calls'[n].method = "disable" => ~Goes(toMain[r]) BY <1>2, <1>5, <1>13
  <2> HIDE DEF n, N
  <2> QED BY <1>4, <1>6, <1>12, <2>1, <2>2, PostInvoke
<1> HIDE DEF n, m
<1>15. OrderOK'
  <2>1. ASSUME NEW q \in Renderers
        PROVE  /\ Sorted(toMain'[q]) /\ Ahead(toMain'[q], calls')
               /\ \A k \in Invoked(toMain'[q]) :
                    /\ calls'[k].outcome = "none"
                    /\ \A i \in DOMAIN calls' : calls'[i].page = q /\ calls'[i].peer # 0 => i < k
    <3>1. Sorted(toMain'[q]) /\ Ahead(toMain'[q], calls')
      <4>1. CASE q = r BY <1>14, <4>1
      <4>2. CASE q # r BY <1>6, <1>12, <4>2
      <4> QED BY <4>1, <4>2
    <3>2. ASSUME NEW k \in Invoked(toMain[q])
          PROVE  /\ calls'[k].outcome = "none"
                 /\ \A i \in DOMAIN calls' : calls'[i].page = q /\ calls'[i].peer # 0 => i < k
      <4>1. /\ calls[k].outcome = "none" /\ k \in DOMAIN calls
            /\ \A i \in DOMAIN calls : calls[i].page = q /\ calls[i].peer # 0 => i < k
        BY <1>6 DEF Books, OrderOK
      <4> QED BY <1>2, <1>5, <4>1
    <3>3. /\ calls'[n].outcome = "none"
          /\ \A i \in DOMAIN calls' : calls'[i].peer # 0 => i < n
      BY <1>2, <1>4, <1>5
    <3>4. Invoked(toMain'[q]) \subseteq Invoked(toMain[q]) \cup {n} BY <1>6, <1>14
    <3> QED BY <3>1, <3>2, <3>3, <3>4
  <2> QED BY <2>1 DEF OrderOK
<1>16. StepsOK'
  <2>1. \A x \in Peers : \A k \in DOMAIN coverage[x].steps :
          coverage[x].steps[k].call # 0 => coverage[x].steps[k].call \in DOMAIN calls
    BY BookTypes
  <2> QED BY <1>1, <1>5, <1>7, <2>1 DEF Books, StepsOK
<1>17. WaitOK'
  <2>1. ASSUME NEW q \in Renderers, NEW k \in Waits(toMain'[q], calls')
        PROVE  /\ Alive(q) /\ ~disposed => Knows(q)
               /\ Knows(q) => Number(Tries(calls', q, senders[q].peer), k) <= Number(Wins(calls', senders[q].peer), k)
    <3>1. CASE k \in Waits(toMain[q], calls)
      <4>1. k \in DOMAIN calls /\ k < n /\ k \in Nat BY <1>4, <1>6, <3>1 DEF Waits
      <4>2. /\ Alive(q) /\ ~disposed => Knows(q)
            /\ Knows(q) => Number(Tries(calls, q, senders[q].peer), k) <= Number(Wins(calls, senders[q].peer), k)
        BY <3>1 DEF Books, WaitOK
      <4>3. Upto(Tries(calls', q, senders[q].peer), k) = Upto(Tries(calls, q, senders[q].peer), k)
        <5>1. ~(n <= k) BY <1>4, <4>1
        <5>2. Upto(Tries(calls, q, senders[q].peer) \cup {n}, k) = Upto(Tries(calls, q, senders[q].peer), k)
          BY <5>1 DEF Upto
        <5> QED BY <1>9, <1>10, <5>2
      <4>4. Knows(q) => Wins(calls', senders[q].peer) = Wins(calls, senders[q].peer) BY <1>8 DEF Knows
      <4> QED BY <4>2, <4>3, <4>4 DEF Number
    <3>2. CASE q = r /\ k = n /\ method = "disable"
      <4> DEFINE A == Tries(calls, r, p)  W == Wins(calls, p)
      <4>1. /\ A \in SUBSET (1..N) /\ W \in SUBSET (1..N) /\ Cardinality(A) \in Nat /\ Cardinality(W) \in Nat
            /\ IsFiniteSet(A)
        BY SetTypes
      <4>2. Knows(r) /\ Cardinality(A) + 1 <= Cardinality(W) BY <1>13, <3>2
      <4>3. Tries(calls', r, p) = A \cup {n} /\ Wins(calls', p) = W BY <1>8, <1>10, <3>2, <4>2 DEF Knows
      <4>4. Number(W, n) = Cardinality(W) BY <1>3, <1>4, <4>1, UptoAll
      <4>5. Number(A \cup {n}, n) = Cardinality(A) + 1
        <5>1. n \notin A /\ \A i \in A : i <= n BY <1>3, <1>4, <4>1
        <5>2. n <= n BY <1>4
        <5>3. Upto(A \cup {n}, n) = A \cup {n} BY <5>1, <5>2 DEF Upto
        <5>4. Cardinality(A \cup {n}) = Cardinality(A) + 1 BY <4>1, <5>1, FS_AddElement
        <5> QED BY <5>3, <5>4 DEF Number
      <4> QED BY <3>2, <4>2, <4>3, <4>4, <4>5
    <3>3. k \in Waits(toMain[q], calls) \/ (q = r /\ k = n /\ method = "disable")
      <4>1. CASE q # r BY <1>6, <1>12, <2>1, <4>1
      <4>2. CASE q = r
        <5>1. calls'[k].method = "disable" /\ (k \in Invoked(toMain[q]) \/ k = n) BY <1>14, <2>1, <4>2 DEF Waits
        <5>2. CASE k \in Invoked(toMain[q]) BY <1>12, <5>1, <5>2 DEF Waits
        <5>3. CASE k = n BY <1>2, <1>5, <4>2, <5>1, <5>3
        <5> QED BY <5>1, <5>2, <5>3
      <4> QED BY <4>1, <4>2
    <3> QED BY <3>1, <3>2, <3>3
  <2> QED BY <1>1, <2>1 DEF WaitOK, Alive, Knows
<1>18. \A q \in PeersOf(Known) : q # 0 BY DEF PeersOf, Known, Knows
<1>19. EarnOK' BY <1>7, <1>8, <1>18 DEF Books, EarnOK, Earned
<1>20. BalanceOK' BY <1>1, <1>7, <1>8, <1>18 DEF Books, BalanceOK
<1>21. FreshOK' BY <1>1 DEF Books, FreshOK
<1> QED BY <1>11, <1>15, <1>16, <1>17, <1>19, <1>20, <1>21 DEF Books

-----------------------------------------------------------------------------
(* A call is run.                                                          *)

Unaware(r) == Reachable(r) /\ ~disposed /\ ~Knows(r)

LEMMA RunAhead ==
  ASSUME IInv, Books, NEW r \in Renderers, toMain[r] # <<>>, toMain[r][1].what = "invoke"
  PROVE  LET i == toMain[r][1].n  t == Tail(toMain[r]) IN
         /\ i \in DOMAIN calls /\ i \in Nat /\ calls[i].page = r /\ calls[i].peer = 0 /\ calls[i].outcome = "none"
         /\ Invoked(t) \subseteq Invoked(toMain[r]) /\ Sorted(t) /\ Ahead(t, calls)
         /\ Waits(t, calls) \subseteq Waits(toMain[r], calls)
         /\ \A n \in Invoked(t) : i < n
         /\ \A j \in DOMAIN calls : calls[j].page = r /\ calls[j].peer # 0 => j < i
         /\ Unaware(r) => calls[i].method = "enable" /\ Waits(toMain[r], calls) = {}
<1> DEFINE s == toMain[r]  i == s[1].n  t == Tail(s)
<1>1. s \in Seq(Request) /\ Sorted(s) /\ Ahead(s, calls) BY BookTypes DEF Books, OrderOK
<1>2. /\ Invoked(t) \subseteq Invoked(s) /\ Sorted(t) /\ Ahead(t, calls) /\ i \in Invoked(s)
      /\ \A n \in Invoked(t) : i < n
  BY <1>1, TailShifts
<1>3. i \in DOMAIN calls /\ calls[i].page = r /\ calls[i].peer = 0 BY <1>2, BookTypes
<1>4. /\ calls[i].outcome = "none" /\ \A j \in DOMAIN calls : calls[j].page = r /\ calls[j].peer # 0 => j < i
  BY <1>2 DEF Books, OrderOK
<1>5. Waits(t, calls) \subseteq Waits(s, calls) BY <1>2 DEF Waits
<1>6. Unaware(r) => Waits(s, calls) = {}
  <2>1. Unaware(r) => Alive(r) /\ ~disposed /\ ~Knows(r) BY DEF Unaware, Reachable
  <2> QED BY <2>1 DEF Books, WaitOK
<1>7. calls[i].method \in {"enable", "disable"}
  <2>1. calls[i] \in Call BY <1>3, BookTypes
  <2> QED BY <2>1 DEF Call
<1>8. Unaware(r) => calls[i].method = "enable" BY <1>2, <1>6, <1>7 DEF Waits
<1>9. i \in Nat BY <1>2 DEF Invoked
<1> QED BY <1>2, <1>3, <1>4, <1>5, <1>6, <1>8, <1>9

(* The call is its peer's latest.                                          *)
Runs(i, p) ==
  /\ i \in DOMAIN calls /\ p # 0 /\ DOMAIN calls' = DOMAIN calls
  /\ calls'[i].page = calls[i].page /\ calls'[i].method = calls[i].method /\ calls'[i].outcome = calls[i].outcome
  /\ calls'[i].promise = calls[i].promise /\ calls[i].peer = 0 /\ calls'[i].peer = p /\ calls[i].outcome = "none"
  /\ \A j \in DOMAIN calls : j # i => calls'[j] = calls[j]

LEMMA RunSets ==
  ASSUME NEW i, NEW p, Runs(i, p)
  PROVE  /\ \A q : Wins(calls', q) = IF q = 0 THEN Wins(calls', q) ELSE Wins(calls, q)
         /\ Undoes(calls', p) = IF calls[i].method = "disable" THEN Undoes(calls, p) \cup {i} ELSE Undoes(calls, p)
         /\ \A q : q # 0 /\ q # p => Undoes(calls', q) = Undoes(calls, q)
         /\ \A r : Tries(calls', r, p) = Tries(calls, r, p)
         /\ \A r, q : r # calls[i].page => Tries(calls', r, q) = Tries(calls, r, q)
<1>1. \A q : q # 0 => Wins(calls', q) = Wins(calls, q)
  <2>1. ASSUME NEW q, q # 0, NEW j \in DOMAIN calls PROVE j \in Wins(calls', q) <=> j \in Wins(calls, q)
    <3>1. CASE j = i BY <3>1 DEF Runs, Wins
    <3>2. CASE j # i BY <3>2 DEF Runs, Wins
    <3> QED BY <3>1, <3>2
  <2> QED BY <2>1 DEF Wins, Runs
<1>2. Undoes(calls', p) = IF calls[i].method = "disable" THEN Undoes(calls, p) \cup {i} ELSE Undoes(calls, p)
  BY DEF Runs, Undoes
<1>3. \A q : q # 0 /\ q # p => Undoes(calls', q) = Undoes(calls, q) BY DEF Runs, Undoes
<1>4. \A r : Tries(calls', r, p) = Tries(calls, r, p) BY DEF Runs, Tries
<1>5. \A r, q : r # calls[i].page => Tries(calls', r, q) = Tries(calls, r, q) BY DEF Runs, Tries
<1> QED BY <1>1, <1>2, <1>3, <1>4, <1>5

LEMMA handleRuns ==
  ASSUME IInv, IInv', Books, NEW r \in Renderers, handle(r), Reachable(r)
  PROVE  LET i == toMain[r][1].n  p == Token(r) IN
         /\ Runs(i, p) /\ p \in Peers /\ toMain[r] # <<>> /\ toMain[r][1].what = "invoke" /\ ~disposed
         /\ disposed' = disposed /\ wc' = wc
         /\ toMain'[r] = Tail(toMain[r]) /\ \A q \in Renderers : q # r => toMain'[q] = toMain[q]
         /\ coverage'[p] = Asks(coverage[p], calls[i].method, i)
         /\ \A q \in Peers : q # p => coverage'[q] = coverage[q]
         /\ senders'[r].peer = p /\ \A q \in Renderers : q # r => senders'[q].peer = senders[q].peer
         /\ made' >= made /\ p <= made' /\ made' \in Nat
         /\ IF Knows(r) THEN p = senders[r].peer /\ p \in PeersOf(Known) /\ PeersOf(Known)' = PeersOf(Known)
            ELSE p = made + 1 /\ PeersOf(Known)' = PeersOf(Known) \cup {p}
         /\ Known' = Known \cup {r} /\ (~Knows(r) => Unaware(r))
<1> DEFINE i == toMain[r][1].n  p == Token(r)
<1>1. /\ toMain[r] # <<>> /\ toMain[r][1].what = "invoke" /\ ~disposed
      /\ toMain' = [toMain EXCEPT ![r] = Tail(@)] /\ disposed' = disposed /\ wc' = wc
      /\ p \in Peers /\ Enrolled(r, FALSE) /\ calls' = [calls EXCEPT ![i].peer = p]
      /\ coverage' = [coverage EXCEPT ![p] = Asks(@, calls[i].method, i)]
  BY DEF handle, Reads, mainRest, pageVars, Enrolled
<1>2. /\ i \in DOMAIN calls /\ calls[i].page = r /\ calls[i].peer = 0 /\ calls[i].outcome = "none"
      /\ calls[i] \in Call /\ p # 0 /\ p \in Nat
  BY <1>1, RunAhead, BookTypes
<1>3. Runs(i, p)
  <2> DEFINE e == [calls[i] EXCEPT !.peer = p]
  <2>1. /\ e \in Call /\ e.page = calls[i].page /\ e.peer = p /\ e.outcome = calls[i].outcome
        /\ e.method = calls[i].method /\ e.promise = calls[i].promise
    BY <1>1, <1>2 DEF Call
  <2>2. calls' = [calls EXCEPT ![i] = e] BY <1>1
  <2> HIDE DEF e, i, p
  <2>3. /\ DOMAIN calls' = DOMAIN calls /\ calls'[i] = e /\ \A j \in DOMAIN calls : j # i => calls'[j] = calls[j]
    BY <1>2, <2>1, <2>2, CallBecomes DEF IInv
  <2> QED BY <1>2, <2>1, <2>3 DEF Runs
<1>4. /\ toMain'[r] = Tail(toMain[r]) /\ \A q \in Renderers : q # r => toMain'[q] = toMain[q]
  BY <1>1 DEF IInv, PagesOK
<1>5. /\ coverage'[p] = Asks(coverage[p], calls[i].method, i)
      /\ \A q \in Peers : q # p => coverage'[q] = coverage[q]
  <2>1. coverage \in [Peers -> Cover] BY DEF IInv, CoverageOK
  <2> HIDE DEF i, p
  <2> QED BY <1>1, <2>1
<1>6. senders'[r].peer = p /\ \A q \in Renderers : q # r => senders'[q].peer = senders[q].peer
  <2>1. senders \in [Renderers -> [peer : Peers \cup {0}, subscribed : BOOLEAN]] BY DEF IInv, Registry
  <2> HIDE DEF p
  <2>2. senders' = [senders EXCEPT ![r].peer = p] BY <1>1 DEF Enrolled, p
  <2> QED BY <1>1, <2>1, <2>2
<1>7. Known' = Known \cup {r} BY <1>2, <1>6 DEF Known, Knows
<1>8. /\ made' = (IF Knows(r) THEN made ELSE made + 1) /\ made \in Nat
      /\ p = (IF Knows(r) THEN senders[r].peer ELSE made + 1)
  BY <1>1, BookTypes DEF Enrolled, Token
<1>9. Knows(r) => r \in Known /\ senders[r].peer \in Nat /\ senders[r].peer <= made
  <2>1. Knows(r) => r \in Known BY DEF Known
  <2>2. Knows(r) => senders[r].peer \in 1..made BY <2>1, Tokens DEF IInv
  <2> QED BY <1>8, <2>1, <2>2
<1> HIDE DEF p, i
<1>10. made' >= made /\ p <= made' /\ made' \in Nat BY <1>8, <1>9
<1>11. Knows(r) => p = senders[r].peer /\ p \in PeersOf(Known) /\ PeersOf(Known)' = PeersOf(Known)
  BY <1>6, <1>7, <1>8, <1>9 DEF PeersOf, Known
<1>12. ~Knows(r) => p = made + 1 /\ PeersOf(Known)' = PeersOf(Known) \cup {p}
  <2>1. \A q \in Known : q \in Renderers /\ Knows(q) BY DEF Known
  <2> QED BY <1>6, <1>7, <1>8, <2>1 DEF PeersOf
<1> QED BY <1>1, <1>3, <1>4, <1>5, <1>6, <1>7, <1>10, <1>11, <1>12 DEF Unaware, p, i

LEMMA handleBooks ==
  ASSUME IInv, IInv', Books, NEW r \in Renderers, handle(r), Reachable(r)
  PROVE  Books'
<1> DEFINE i == toMain[r][1].n  p == Token(r)  t == Tail(toMain[r])  N == Len(calls)
           method == calls[i].method
<1>1. /\ Runs(i, p) /\ p \in Peers /\ toMain[r] # <<>> /\ toMain[r][1].what = "invoke" /\ ~disposed
      /\ disposed' = disposed /\ wc' = wc
      /\ toMain'[r] = t /\ \A q \in Renderers : q # r => toMain'[q] = toMain[q]
      /\ coverage'[p] = Asks(coverage[p], method, i)
      /\ \A q \in Peers : q # p => coverage'[q] = coverage[q]
      /\ senders'[r].peer = p /\ \A q \in Renderers : q # r => senders'[q].peer = senders[q].peer
      /\ made' >= made /\ p <= made' /\ made' \in Nat
      /\ IF Knows(r) THEN p = senders[r].peer /\ p \in PeersOf(Known) /\ PeersOf(Known)' = PeersOf(Known)
         ELSE p = made + 1 /\ PeersOf(Known)' = PeersOf(Known) \cup {p}
      /\ Known' = Known \cup {r} /\ (~Knows(r) => Unaware(r))
  BY handleRuns
<1>2. /\ i \in DOMAIN calls /\ i \in Nat /\ calls[i].page = r /\ calls[i].peer = 0 /\ calls[i].outcome = "none"
      /\ Invoked(t) \subseteq Invoked(toMain[r]) /\ Sorted(t) /\ Ahead(t, calls)
      /\ Waits(t, calls) \subseteq Waits(toMain[r], calls)
      /\ \A n \in Invoked(t) : i < n
      /\ \A j \in DOMAIN calls : calls[j].page = r /\ calls[j].peer # 0 => j < i
      /\ Unaware(r) => method = "enable" /\ Waits(toMain[r], calls) = {}
  BY <1>1, RunAhead
<1>3. /\ made \in Nat /\ N \in Nat /\ DOMAIN calls = 1..N
      /\ \A j \in DOMAIN calls : calls[j] \in Call /\ calls[j].peer \in Nat /\ calls[j].peer <= made /\ j \in Nat
      /\ \A q \in Peers : q \in Nat /\ q # 0
      /\ \A q \in Renderers : toMain[q] \in Seq(Request)
      /\ \A q \in Renderers : \A n \in Invoked(toMain[q]) : n \in DOMAIN calls /\ n \in Nat /\ calls[n].page = q
  <2>1. \A j \in DOMAIN calls : j \in Nat BY BookTypes
  <2> QED BY <2>1, BookTypes
<1>4. method \in {"enable", "disable"}
  <2>1. calls[i] \in Call BY <1>2, <1>3
  <2> QED BY <2>1 DEF Call
<1>5. /\ \A q \in Peers : Wins(calls', q) = Wins(calls, q)
      /\ Undoes(calls', p) = IF method = "disable" THEN Undoes(calls, p) \cup {i} ELSE Undoes(calls, p)
      /\ \A q \in Peers : q # p => Undoes(calls', q) = Undoes(calls, q)
      /\ \A x : Tries(calls', x, p) = Tries(calls, x, p)
      /\ \A x, q : x # r => Tries(calls', x, q) = Tries(calls, x, q)
  BY <1>1, <1>2, <1>3, RunSets
<1>6. t \in Seq(Request)
  <2> HIDE DEF Request
  <2> QED BY <1>1, <1>3, RestOfQueue
<1> HIDE DEF i, p, t, N
<1>7. /\ DOMAIN calls' = DOMAIN calls /\ calls'[i].page = r /\ calls'[i].method = method /\ calls'[i].peer = p
      /\ calls'[i].outcome = "none" /\ calls'[i].promise = calls[i].promise /\ p # 0
      /\ \A j \in DOMAIN calls : j # i => calls'[j] = calls[j]
  BY <1>1, <1>2 DEF Runs
<1> HIDE DEF method
<1>8. \A q \in PeersOf(Known)' : q \in Peers
  <2>1. PeersOf(Known) \subseteq Peers BY BookTypes
  <2> QED BY <1>1, <2>1
<1>9. /\ \A q \in Known : q # r /\ q \in Known' => senders[q].peer # p
      /\ p \in PeersOf(Known) => Knows(r)
      /\ ~Knows(r) => p > made
  <2>1. \A q \in Known' : q # r => senders'[q].peer # senders'[r].peer
    <3>1. r \in Known' BY <1>1
    <3> QED BY <3>1 DEF IInv, Registry
  <2>2. \A q \in Known : q \in Renderers BY DEF Known
  <2>3. ~Knows(r) => p > made BY <1>1, <1>3
  <2>4. p \in PeersOf(Known) => p <= made
    <3>1. \A q \in Known : senders[q].peer \in 1..made BY Tokens DEF IInv
    <3>2. p \in PeersOf(Known) => p \in 1..made BY <3>1 DEF PeersOf
    <3> QED BY <1>3, <3>2
  <2>5. p \in PeersOf(Known) => Knows(r) BY <1>1, <1>3, <2>3, <2>4
  <2> QED BY <1>1, <2>1, <2>2, <2>3, <2>5
<1>10. TruthOK'
  <2>1. ASSUME NEW j \in DOMAIN calls
        PROVE  /\ calls'[j].promise = "ok" => calls'[j].outcome = "ok"
               /\ calls'[j].peer = 0 => calls'[j].outcome # "ok"
    <3>1. CASE j = i BY <1>2, <1>7, <3>1 DEF Books, TruthOK
    <3>2. CASE j # i BY <1>7, <3>2 DEF Books, TruthOK
    <3> QED BY <3>1, <3>2
  <2>2. ASSUME NEW j \in DOMAIN calls, NEW q \in Known', calls'[j].peer = senders'[q].peer
        PROVE  calls'[j].page = q
    <3>1. CASE q = r
      <4>1. CASE j = i BY <1>7, <3>1, <4>1
      <4>2. CASE j # i
        <5>1. calls[j].peer = p /\ calls'[j].page = calls[j].page BY <1>1, <1>7, <2>2, <3>1, <4>2
        <5>2. Knows(r)
          <6>1. ~(p > made) BY <1>3, <5>1
          <6> QED BY <1>9, <6>1
        <5>3. r \in Known /\ p = senders[r].peer BY <1>1, <5>2 DEF Known
        <5> QED BY <3>1, <5>1, <5>3 DEF Books, TruthOK
      <4> QED BY <4>1, <4>2
    <3>2. CASE q # r
      <4>1. q \in Known /\ q \in Renderers /\ senders'[q].peer = senders[q].peer BY <1>1, <3>2 DEF Known
      <4>2. j # i BY <1>7, <1>9, <2>2, <3>2, <4>1
      <4> QED BY <1>7, <2>2, <4>1, <4>2 DEF Books, TruthOK
    <3> QED BY <3>1, <3>2
  <2> QED BY <1>7, <2>1, <2>2 DEF TruthOK
<1>11. \A q \in Renderers :
         /\ Invoked(toMain'[q]) \subseteq Invoked(toMain[q]) /\ Sorted(toMain'[q]) /\ Ahead(toMain'[q], calls')
         /\ Waits(toMain'[q], calls') = Waits(toMain'[q], calls)
         /\ Waits(toMain'[q], calls) \subseteq Waits(toMain[q], calls)
         /\ i \notin Invoked(toMain'[q])
  <2>1. ASSUME NEW q \in Renderers
        PROVE  /\ Invoked(toMain'[q]) \subseteq Invoked(toMain[q]) /\ Sorted(toMain'[q]) /\ Ahead(toMain'[q], calls)
               /\ toMain'[q] \in Seq(Request) /\ i \notin Invoked(toMain'[q])
               /\ Waits(toMain'[q], calls) \subseteq Waits(toMain[q], calls)
    <3>1. CASE q = r
      <4>1. i \notin Invoked(t) BY <1>2
      <4> QED BY <1>1, <1>2, <1>6, <3>1, <4>1
    <3>2. CASE q # r BY <1>1, <1>2, <1>3, <3>2 DEF Books, OrderOK
    <3> QED BY <3>1, <3>2
  <2>2. ASSUME NEW q \in Renderers, NEW n \in Invoked(toMain'[q]) PROVE calls'[n].method = calls[n].method
    <3>1. n \in Invoked(toMain[q]) /\ n # i BY <2>1
    <3>2. n \in DOMAIN calls BY <1>3, <3>1
    <3> QED BY <1>7, <3>1, <3>2
  <2> QED BY <2>1, <2>2, SameAhead
<1>12. OrderOK'
  <2>1. ASSUME NEW q \in Renderers, NEW n \in Invoked(toMain'[q])
        PROVE  /\ calls'[n].outcome = "none"
               /\ \A j \in DOMAIN calls' : calls'[j].page = q /\ calls'[j].peer # 0 => j < n
    <3>1. n \in Invoked(toMain[q]) /\ n # i /\ n \in DOMAIN calls BY <1>3, <1>11
    <3>2. /\ calls[n].outcome = "none"
          /\ \A j \in DOMAIN calls : calls[j].page = q /\ calls[j].peer # 0 => j < n
      BY <3>1 DEF Books, OrderOK
    <3>3. q = r => i < n BY <1>1, <1>2, <2>1
    <3> QED BY <1>7, <3>1, <3>2, <3>3
  <2> QED BY <1>11, <2>1 DEF OrderOK
<1>13. WaitOK'
  <2>1. ASSUME NEW q \in Renderers, NEW n \in Waits(toMain'[q], calls')
        PROVE  /\ Alive(q)' /\ ~disposed' => Knows(q)'
               /\ Knows(q)' => Number(Tries(calls', q, senders'[q].peer), n) <= Number(Wins(calls', senders'[q].peer), n)
    <3>1. n \in Waits(toMain[q], calls) BY <1>11
    <3>2. /\ Alive(q) /\ ~disposed => Knows(q)
          /\ Knows(q) => Number(Tries(calls, q, senders[q].peer), n) <= Number(Wins(calls, senders[q].peer), n)
      BY <3>1 DEF Books, WaitOK
    <3>3. q = r => Knows(r) BY <1>1, <1>2, <3>1
    <3>4. Knows(q)' => Knows(q) /\ senders'[q].peer = senders[q].peer
      <4>1. CASE q = r BY <1>1, <3>3, <4>1
      <4>2. CASE q # r BY <1>1, <4>2 DEF Knows
      <4> QED BY <4>1, <4>2
    <3>5. Knows(q) => senders[q].peer \in Peers
      <4>1. Knows(q) => q \in Known BY DEF Known
      <4> QED BY <4>1, Tokens DEF IInv
    <3>6. ASSUME Knows(q)' PROVE Tries(calls', q, senders[q].peer) = Tries(calls, q, senders[q].peer)
      <4>1. CASE q = r BY <1>1, <1>5, <3>3, <4>1
      <4>2. CASE q # r BY <1>5, <4>2
      <4> QED BY <4>1, <4>2
    <3>7. Alive(q)' /\ ~disposed' => Knows(q)'
      <4>1. Knows(q) => Knows(q)' BY <1>1, <1>7 DEF Knows
      <4> QED BY <1>1, <3>2, <4>1 DEF Alive
    <3> QED BY <1>5, <3>2, <3>4, <3>5, <3>6, <3>7
  <2> QED BY <2>1 DEF WaitOK
<1>14. \A q \in PeersOf(Known)' : q # p => q \in PeersOf(Known)
  BY <1>1
(* What the peer undid before, and undoes now, it was granted before.      *)
<1>15. method = "disable" =>
         /\ Knows(r) /\ p \in PeersOf(Known)
         /\ \A j \in Undoes(calls, p) : j < i
         /\ Number(Undoes(calls', p), i) <= Number(Wins(calls, p), i)
         /\ Cardinality(Undoes(calls, p)) + 1 <= Cardinality(Wins(calls, p))
         /\ Cardinality(Undoes(calls', p)) = Cardinality(Undoes(calls, p)) + 1
  <2> SUFFICES ASSUME method = "disable"
               PROVE  /\ Knows(r) /\ p \in PeersOf(Known)
                      /\ \A j \in Undoes(calls, p) : j < i
                      /\ Number(Undoes(calls', p), i) <= Number(Wins(calls, p), i)
                      /\ Cardinality(Undoes(calls, p)) + 1 <= Cardinality(Wins(calls, p))
                      /\ Cardinality(Undoes(calls', p)) = Cardinality(Undoes(calls, p)) + 1
    OBVIOUS
  <2> DEFINE U == Undoes(calls, p)  V == Undoes(calls', p)  W == Wins(calls, p)  A == Tries(calls, r, p)
  <2>1. Knows(r) /\ p \in PeersOf(Known) /\ p = senders[r].peer /\ r \in Known
    <3>1. Knows(r) BY <1>1, <1>2
    <3> QED BY <1>1, <3>1 DEF Known
  <2>2. \A j \in U : j \in DOMAIN calls /\ calls[j].page = r /\ j < i
    <3>1. \A j \in U : j \in DOMAIN calls /\ calls[j].peer = p BY DEF Undoes
    <3>2. \A j \in U : calls[j].page = r BY <2>1, <3>1 DEF Books, TruthOK
    <3> QED BY <1>2, <1>7, <3>1, <3>2
  <2>3. V = U \cup {i} BY <1>5
  <2>4. /\ W \in SUBSET (1..N) /\ U \in SUBSET (1..N) /\ A \in SUBSET (1..N)
        /\ Cardinality(U) \in Nat /\ IsFiniteSet(U) /\ Cardinality(W) \in Nat
    BY SetTypes DEF N
  <2>5. V \subseteq A
    <3>1. i \in A BY <1>2 DEF Tries, method
    <3>2. U \subseteq A
      <4>1. \A j \in U : calls[j].method = "disable" /\ calls[j].peer = p BY DEF Undoes
      <4> QED BY <2>2, <4>1 DEF Tries
    <3> QED BY <2>3, <3>1, <3>2
  <2>6. Cardinality(V) = Cardinality(U) + 1
    <3>1. i \notin U BY <1>2, <2>2
    <3> QED BY <2>3, <2>4, <3>1, FS_AddElement
  <2>7. Number(A, i) <= Number(W, i)
    <3>1. i \in Waits(toMain[r], calls)
      <4>1. toMain[r] \in Seq(Request) BY <1>3
      <4>2. i \in Invoked(toMain[r]) BY <1>1, <4>1, TailShifts DEF i
      <4> QED BY <4>2 DEF Waits, method
    <3> QED BY <2>1, <3>1 DEF Books, WaitOK
  <2>8. \A j \in V : j \in Nat /\ j <= i
    <3>1. \A j \in U : j \in Nat BY <1>3, <2>2
    <3> QED BY <1>2, <2>2, <2>3, <3>1
  <2>9. Upto(V, i) = V BY <2>8 DEF Upto
  <2>10. Number(V, i) <= Number(A, i) /\ Number(V, i) \in Nat /\ Number(A, i) \in Nat
    <3>1. Upto(V, i) \subseteq Upto(A, i) BY <2>5 DEF Upto
    <3> QED BY <1>3, <2>4, <3>1, FewerUpto
  <2>11. Number(W, i) \in Nat /\ Number(W, i) <= Cardinality(W)
    <3>1. W \in SUBSET (1..N) BY <2>4
    <3> HIDE DEF W
    <3> QED BY <1>2, <1>3, <3>1, UptoDoes
  <2>12. Number(V, i) = Cardinality(U) + 1 BY <2>6, <2>9 DEF Number
  <2> HIDE DEF U, V, W, A
  <2>13. Number(V, i) <= Number(W, i) BY <2>7, <2>10, <2>11
  <2>14. Cardinality(U) + 1 <= Cardinality(W) BY <2>4, <2>11, <2>12, <2>13
  <2> QED BY <2>1, <2>2, <2>6, <2>13, <2>14 DEF U, V, W
<1>16. EarnOK'
  <2>1. ASSUME NEW q \in PeersOf(Known)' PROVE Earned(calls', q)
    <3>1. CASE q # p BY <1>5, <1>8, <1>14, <3>1 DEF Books, EarnOK, Earned
    <3>2. CASE q = p /\ method = "enable"
      <4>1. Earned(calls, p)
        <5>1. CASE Knows(r) BY <1>1, <5>1 DEF Books, EarnOK
        <5>2. CASE ~Knows(r) BY <1>1, <1>3, <1>9, <5>2, FreshEven
        <5> QED BY <5>1, <5>2
      <4> QED BY <1>1, <1>5, <3>2, <4>1 DEF Earned
    <3>3. CASE q = p /\ method = "disable"
      <4>1. ASSUME NEW j \in Undoes(calls', p) PROVE Number(Undoes(calls', p), j) <= Number(Wins(calls', p), j)
        <5>1. CASE j = i BY <1>1, <1>5, <1>15, <3>3, <5>1
        <5>2. CASE j # i
          <6>1. j \in Undoes(calls, p) /\ j < i /\ j \in Nat
            <7>1. j \in Undoes(calls, p) BY <1>5, <3>3, <5>2
            <7>2. j \in DOMAIN calls BY <7>1 DEF Undoes
            <7> QED BY <1>3, <1>15, <3>3, <7>1, <7>2
          <6>2. ~(i <= j) BY <1>2, <6>1
          <6>3. Upto(Undoes(calls', p), j) = Upto(Undoes(calls, p), j) BY <1>5, <3>3, <6>2 DEF Upto
          <6>4. Number(Undoes(calls, p), j) <= Number(Wins(calls, p), j)
            BY <1>15, <3>3, <6>1 DEF Books, EarnOK, Earned
          <6> QED BY <1>1, <1>5, <6>3, <6>4 DEF Number
        <5> QED BY <5>1, <5>2
      <4> QED BY <3>3, <4>1 DEF Earned
    <3> QED BY <1>4, <3>1, <3>2, <3>3
  <2> QED BY <2>1 DEF EarnOK
<1>17. /\ coverage[p] \in Cover /\ Queued(coverage[p]) /\ coverage[p].steps \in Seq(Step) /\ i \in 0..MaxEvents
       /\ Cardinality(Wins(calls, p)) \in Nat /\ Cardinality(Undoes(calls, p)) \in Nat
       /\ Even(coverage[p], Cardinality(Wins(calls, p)), Cardinality(Undoes(calls, p)))
       /\ ~Knows(r) => coverage[p].steps = <<>>
  <2>1. coverage[p] \in Cover /\ Queued(coverage[p]) /\ coverage[p].steps \in Seq(Step)
    BY <1>1, BookTypes DEF IInv, CoverageOK
  <2>2. Cardinality(Wins(calls, p)) \in Nat /\ Cardinality(Undoes(calls, p)) \in Nat BY SetTypes
  <2>3. i \in 0..MaxEvents
    <3>1. N <= events BY DEF IInv, CallsOK, N
    <3>2. events <= MaxEvents /\ MaxEvents \in Nat /\ events \in Nat BY Plain
    <3>3. i <= N BY <1>2, <1>3
    <3> QED BY <1>2, <1>3, <3>1, <3>2, <3>3
  <2>4. CASE Knows(r) BY <1>1, <2>1, <2>2, <2>3, <2>4 DEF Books, BalanceOK
  <2>5. CASE ~Knows(r)
    <3>1. p > made /\ p \in Nat BY <1>1, <1>3, <1>9, <2>5
    <3>2. coverage[p] = [count |-> 0, held |-> FALSE, awaits |-> "nothing", steps |-> <<>>]
      BY <1>1, <3>1 DEF Books, FreshOK
    <3>3. Wins(calls, p) = {} /\ Undoes(calls, p) = {} /\ Cardinality({}) = 0
          /\ Even([count |-> 0, held |-> FALSE, awaits |-> "nothing", steps |-> <<>>], 0, 0)
      BY <3>1, FreshEven
    <3> QED BY <2>1, <2>2, <2>3, <3>2, <3>3
  <2> QED BY <2>4, <2>5
<1>18. /\ Even(coverage'[p], Cardinality(Wins(calls', p)), Cardinality(Undoes(calls', p)))
       /\ coverage'[p].steps = Append(coverage[p].steps, [op |-> method, call |-> i])
  <2>1. CASE method = "enable"
    <3>1. Even(Asks(coverage[p], "enable", i), Cardinality(Wins(calls, p)), Cardinality(Undoes(calls, p)))
      BY <1>17, EvenEnable
    <3>2. Asks(coverage[p], "enable", i).steps = Append(coverage[p].steps, [op |-> "enable", call |-> i])
      BY <1>17 DEF Asks, Cover
    <3> QED BY <1>1, <1>5, <2>1, <3>1, <3>2
  <2>2. CASE method = "disable"
    <3>1. /\ Even(Asks(coverage[p], "disable", i), Cardinality(Wins(calls, p)), Cardinality(Undoes(calls, p)) + 1)
          /\ Asks(coverage[p], "disable", i).steps = Append(coverage[p].steps, [op |-> "disable", call |-> i])
      BY <1>15, <1>17, <2>2, EvenDisable
    <3> QED BY <1>1, <1>5, <1>15, <2>2, <3>1
  <2> QED BY <1>4, <2>1, <2>2
<1>19. BalanceOK'
  <2>1. ASSUME NEW q \in PeersOf(Known)', q # p
        PROVE  Even(coverage'[q], Cardinality(Wins(calls', q)), Cardinality(Undoes(calls', q)))
    BY <1>1, <1>5, <1>8, <1>14, <2>1 DEF Books, BalanceOK
  <2> QED BY <1>18, <2>1 DEF BalanceOK
<1>20. StepsOK'
  <2>1. ASSUME NEW q \in Peers
        PROVE  LET s == coverage[q].steps IN
               /\ s \in Seq(Step)
               /\ \A k \in DOMAIN s : s[k].call # 0 =>
                    /\ s[k].call # i /\ s[k].call \in DOMAIN calls
                    /\ calls'[s[k].call] = calls[s[k].call]
                    /\ calls'[s[k].call].peer = q /\ calls'[s[k].call].outcome = "none"
                    /\ \A j \in DOMAIN s : s[j].call = s[k].call => j = k
               /\ q \in PeersOf(Known) => \A k \in DOMAIN s : s[k].call # 0 /\ s[k].op = calls'[s[k].call].method
    <3> DEFINE s == coverage[q].steps
    <3>1. s \in Seq(Step) /\ \A k \in DOMAIN s : s[k].call # 0 => s[k].call \in DOMAIN calls BY BookTypes
    <3>2. \A k \in DOMAIN s :
            /\ s[k].call # 0 => /\ calls[s[k].call].peer = q /\ calls[s[k].call].outcome = "none"
                                /\ \A j \in DOMAIN s : s[j].call = s[k].call => j = k
            /\ q \in PeersOf(Known) => s[k].call # 0 /\ s[k].op = calls[s[k].call].method
      BY DEF Books, StepsOK
    <3> HIDE DEF s
    <3>3. \A k \in DOMAIN s : s[k].call # 0 => s[k].call # i BY <1>2, <1>3, <3>2
    <3>4. \A k \in DOMAIN s : s[k].call # 0 => calls'[s[k].call] = calls[s[k].call] BY <1>7, <3>1, <3>3
    <3> QED BY <3>1, <3>2, <3>3, <3>4 DEF s
  <2>2. ASSUME NEW q \in Peers, q # p
        PROVE  LET s == coverage'[q].steps IN \A k \in DOMAIN s :
                 /\ s[k].call # 0 => /\ calls'[s[k].call].peer = q /\ calls'[s[k].call].outcome = "none"
                                     /\ \A j \in DOMAIN s : s[j].call = s[k].call => j = k
                 /\ q \in PeersOf(Known)' => s[k].call # 0 /\ s[k].op = calls'[s[k].call].method
    <3> DEFINE s == coverage[q].steps
    <3>1. coverage'[q].steps = s /\ (q \in PeersOf(Known)' => q \in PeersOf(Known)) BY <1>1, <1>14, <2>2
    <3>2. /\ \A k \in DOMAIN s : s[k].call # 0 =>
               /\ calls'[s[k].call].peer = q /\ calls'[s[k].call].outcome = "none"
               /\ \A j \in DOMAIN s : s[j].call = s[k].call => j = k
          /\ q \in PeersOf(Known) => \A k \in DOMAIN s : s[k].call # 0 /\ s[k].op = calls'[s[k].call].method
      BY <2>1
    <3> HIDE DEF s
    <3> QED BY <3>1, <3>2
  <2>3. LET s == coverage'[p].steps IN \A k \in DOMAIN s :
          /\ s[k].call # 0 => /\ calls'[s[k].call].peer = p /\ calls'[s[k].call].outcome = "none"
                              /\ \A j \in DOMAIN s : s[j].call = s[k].call => j = k
          /\ p \in PeersOf(Known)' => s[k].call # 0 /\ s[k].op = calls'[s[k].call].method
    <3> DEFINE s == coverage[p].steps  x == [op |-> method, call |-> i]  u == Append(s, x)  l == Len(s) + 1
    <3>1. /\ s \in Seq(Step)
          /\ \A k \in DOMAIN s : s[k].call # 0 =>
               /\ s[k].call # i /\ calls'[s[k].call].peer = p /\ calls'[s[k].call].outcome = "none"
               /\ \A j \in DOMAIN s : s[j].call = s[k].call => j = k
          /\ \A k \in DOMAIN s : s[k].call # 0 /\ s[k].op = calls'[s[k].call].method
      <4>1. ~Knows(r) => s = <<>> BY <1>17
      <4>2. Knows(r) => p \in PeersOf(Known) BY <1>1
      <4> QED BY <1>1, <2>1, <4>1, <4>2
    <3>2. x \in Step /\ x.call = i /\ x.op = method BY <1>4, <1>17 DEF Step
    <3> HIDE DEF s, x
    <3>3. /\ DOMAIN u = (DOMAIN s) \cup {l} /\ u[l] = x /\ l \notin DOMAIN s
          /\ \A k \in DOMAIN s : u[k] = s[k]
      <4> HIDE DEF Step
      <4> QED BY <3>1, <3>2, LongerBox
    <3>4. coverage'[p].steps = u BY <1>18 DEF s, x
    <3>5. i # 0 BY <1>2, <1>3
    <3> HIDE DEF u, l
    <3>6. ASSUME NEW k \in DOMAIN u
          PROVE  /\ u[k].call # 0 /\ calls'[u[k].call].peer = p /\ calls'[u[k].call].outcome = "none"
                 /\ u[k].op = calls'[u[k].call].method
                 /\ \A j \in DOMAIN u : u[j].call = u[k].call => j = k
      <4>1. CASE k \in DOMAIN s BY <3>1, <3>2, <3>3, <4>1
      <4>2. CASE k = l BY <1>7, <3>1, <3>2, <3>3, <3>5, <4>2
      <4> QED BY <3>3, <4>1, <4>2
    <3> QED BY <3>4, <3>6
  <2> QED BY <2>2, <2>3 DEF StepsOK
<1>21. FreshOK'
  <2>1. ASSUME NEW q \in Peers, q > made'
        PROVE  coverage'[q] = [count |-> 0, held |-> FALSE, awaits |-> "nothing", steps |-> <<>>]
    <3>1. q # p /\ q > made BY <1>1, <1>3, <2>1
    <3> QED BY <1>1, <3>1 DEF Books, FreshOK
  <2> QED BY <2>1 DEF FreshOK
<1> QED BY <1>10, <1>12, <1>13, <1>16, <1>19, <1>20, <1>21 DEF Books

-----------------------------------------------------------------------------
(* A call is answered.                                                     *)

Outcome(i, x) ==
  /\ i \in DOMAIN calls /\ DOMAIN calls' = DOMAIN calls /\ calls[i].outcome = "none"
  /\ calls'[i].page = calls[i].page /\ calls'[i].method = calls[i].method /\ calls'[i].peer = calls[i].peer
  /\ calls'[i].promise = calls[i].promise /\ calls'[i].outcome = x
  /\ \A j \in DOMAIN calls : j # i => calls'[j] = calls[j]

LEMMA OutcomeSets ==
  ASSUME NEW i, NEW x, Outcome(i, x)
  PROVE  /\ \A q : Undoes(calls', q) = Undoes(calls, q)
         /\ \A r, q : Tries(calls', r, q) = Tries(calls, r, q)
         /\ \A q : Wins(calls, q) \subseteq Wins(calls', q)
         /\ \A q : Wins(calls', q) = IF calls[i].peer = q /\ calls[i].method = "enable" /\ x = "ok"
                                       THEN Wins(calls, q) \cup {i} ELSE Wins(calls, q)
         /\ \A q : i \notin Wins(calls, q)
<1>1. \A q : Undoes(calls', q) = Undoes(calls, q) BY DEF Outcome, Undoes
<1>2. \A r, q : Tries(calls', r, q) = Tries(calls, r, q) BY DEF Outcome, Tries
<1>3. \A q : i \notin Wins(calls, q) BY DEF Outcome, Wins
<1>4. ASSUME NEW q
      PROVE  Wins(calls', q) = IF calls[i].peer = q /\ calls[i].method = "enable" /\ x = "ok"
                                 THEN Wins(calls, q) \cup {i} ELSE Wins(calls, q)
  <2>1. ASSUME NEW j \in DOMAIN calls, j # i PROVE j \in Wins(calls', q) <=> j \in Wins(calls, q)
    BY <2>1 DEF Outcome, Wins
  <2>2. i \in Wins(calls', q) <=> calls[i].peer = q /\ calls[i].method = "enable" /\ x = "ok"
    BY DEF Outcome, Wins
  <2>3. Wins(calls', q) \subseteq DOMAIN calls /\ Wins(calls, q) \subseteq DOMAIN calls BY DEF Outcome, Wins
  <2> QED BY <1>3, <2>1, <2>2, <2>3 DEF Outcome
<1>5. \A q : Wins(calls, q) \subseteq Wins(calls', q) BY <1>4
<1> QED BY <1>1, <1>2, <1>3, <1>4, <1>5

LEMMA WinsGrow ==
  ASSUME IInv, NEW i, NEW x, Outcome(i, x), NEW q, NEW n
  PROVE  /\ Number(Wins(calls, q), n) <= Number(Wins(calls', q), n)
         /\ Number(Wins(calls, q), n) \in Nat /\ Number(Wins(calls', q), n) \in Nat
<1>1. Len(calls) \in Nat /\ DOMAIN calls = 1..Len(calls) BY BookTypes
<1>2. Wins(calls', q) \in SUBSET (1..Len(calls)) BY <1>1 DEF Wins, Outcome
<1>3. Upto(Wins(calls, q), n) \subseteq Upto(Wins(calls', q), n) BY OutcomeSets DEF Upto
<1> QED BY <1>1, <1>2, <1>3, FewerUpto

(* What the end of a step leaves alone, whosever it was.                   *)
LEMMA OutcomeBooks ==
  ASSUME IInv, Books, NEW i, NEW x, Outcome(i, x), calls[i].peer # 0,
         UNCHANGED <<senders, toMain, wc, disposed>>
  PROVE  TruthOK' /\ OrderOK' /\ WaitOK' /\ EarnOK'
<1>1. Known' = Known /\ PeersOf(Known)' = PeersOf(Known) BY DEF Known, Knows, PeersOf
<1>2. /\ i \in DOMAIN calls /\ DOMAIN calls' = DOMAIN calls /\ calls[i].outcome = "none"
      /\ calls'[i].page = calls[i].page /\ calls'[i].method = calls[i].method /\ calls'[i].peer = calls[i].peer
      /\ calls'[i].promise = calls[i].promise /\ calls'[i].outcome = x
      /\ \A j \in DOMAIN calls : j # i => calls'[j] = calls[j]
  BY DEF Outcome
<1>3. TruthOK'
  <2>1. ASSUME NEW j \in DOMAIN calls
        PROVE  /\ calls'[j].promise = "ok" => calls'[j].outcome = "ok"
               /\ calls'[j].peer = 0 => calls'[j].outcome # "ok"
               /\ \A r \in Known : calls'[j].peer = senders[r].peer => calls'[j].page = r
    <3>1. CASE j = i BY <1>2, <3>1 DEF Books, TruthOK
    <3>2. CASE j # i BY <1>2, <3>2 DEF Books, TruthOK
    <3> QED BY <3>1, <3>2
  <2> QED BY <1>1, <1>2, <2>1 DEF TruthOK
<1>4. \A r \in Renderers : toMain[r] \in Seq(Request)
                           /\ \A n \in Invoked(toMain[r]) : n \in DOMAIN calls /\ n # i /\ calls'[n] = calls[n]
  BY <1>2, BookTypes
<1>5. \A r \in Renderers : Ahead(toMain[r], calls') /\ Waits(toMain[r], calls') = Waits(toMain[r], calls)
  BY <1>4, SameAhead DEF Books, OrderOK
<1>6. OrderOK'
  <2>1. ASSUME NEW r \in Renderers, NEW n \in Invoked(toMain[r])
        PROVE  /\ calls'[n].outcome = "none"
               /\ \A j \in DOMAIN calls' : calls'[j].page = r /\ calls'[j].peer # 0 => j < n
    <3>1. calls[n].outcome = "none" /\ \A j \in DOMAIN calls : calls[j].page = r /\ calls[j].peer # 0 => j < n
      BY DEF Books, OrderOK
    <3>2. \A j \in DOMAIN calls : calls'[j].page = calls[j].page /\ calls'[j].peer = calls[j].peer BY <1>2
    <3> QED BY <1>2, <1>4, <3>1, <3>2
  <2> QED BY <1>5, <2>1 DEF Books, OrderOK
<1>7. WaitOK'
  <2>1. ASSUME NEW r \in Renderers, NEW n \in Waits(toMain[r], calls'), Knows(r)
        PROVE  Number(Tries(calls', r, senders[r].peer), n) <= Number(Wins(calls', senders[r].peer), n)
    <3> DEFINE p == senders[r].peer
    <3>1. Number(Tries(calls, r, p), n) <= Number(Wins(calls, p), n) BY <1>5, <2>1 DEF Books, WaitOK
    <3>2. /\ Number(Wins(calls, p), n) <= Number(Wins(calls', p), n)
          /\ Number(Wins(calls, p), n) \in Nat /\ Number(Wins(calls', p), n) \in Nat
      BY WinsGrow
    <3>3. Tries(calls', r, p) = Tries(calls, r, p) BY OutcomeSets
    <3>4. Number(Tries(calls, r, p), n) \in Nat
      <4>1. Len(calls) \in Nat /\ Tries(calls, r, p) \in SUBSET (1..Len(calls)) BY SetTypes
      <4> DEFINE A == Tries(calls, r, p)
      <4>2. A \in SUBSET (1..Len(calls)) /\ Upto(A, n) \subseteq Upto(A, n) BY <4>1
      <4> HIDE DEF A
      <4>3. Number(A, n) \in Nat BY <4>1, <4>2, FewerUpto
      <4> QED BY <4>3 DEF A
    <3> HIDE DEF p
    <3>5. Number(Tries(calls', r, p), n) <= Number(Wins(calls', p), n) BY <3>1, <3>2, <3>3, <3>4
    <3> QED BY <3>5 DEF p
  <2>2. \A r \in Renderers : \A n \in Waits(toMain[r], calls') : Alive(r) /\ ~disposed => Knows(r)
    BY <1>5 DEF Books, WaitOK
  <2> QED BY <2>1, <2>2 DEF WaitOK, Alive, Knows
<1>8. EarnOK'
  <2>1. ASSUME NEW p \in PeersOf(Known), NEW j \in Undoes(calls', p)
        PROVE  Number(Undoes(calls', p), j) <= Number(Wins(calls', p), j)
    <3>1. Undoes(calls', p) = Undoes(calls, p) BY OutcomeSets
    <3>2. Number(Undoes(calls, p), j) <= Number(Wins(calls, p), j) BY <2>1, <3>1 DEF Books, EarnOK, Earned
    <3>3. /\ Number(Wins(calls, p), j) <= Number(Wins(calls', p), j)
          /\ Number(Wins(calls, p), j) \in Nat /\ Number(Wins(calls', p), j) \in Nat
      BY WinsGrow
    <3>4. Number(Undoes(calls, p), j) \in Nat
      <4> DEFINE A == Undoes(calls, p)
      <4>1. Len(calls) \in Nat /\ A \in SUBSET (1..Len(calls)) BY SetTypes
      <4>2. Upto(A, j) \subseteq Upto(A, j) OBVIOUS
      <4> HIDE DEF A
      <4>3. Number(A, j) \in Nat BY <4>1, <4>2, FewerUpto
      <4> QED BY <4>3 DEF A
    <3> QED BY <3>1, <3>2, <3>3, <3>4
  <2> QED BY <1>1, <2>1 DEF EarnOK, Earned
<1> QED BY <1>3, <1>6, <1>7, <1>8

LEMMA DoneBooks ==
  ASSUME IInv, Books, NEW p \in Peers, NEW d \in Cover, d.steps = coverage[p].steps, d.steps # <<>>,
         NEW outcome \in {"ok", "error"}, Done(p, d, outcome), UNCHANGED coverageRest,
         p \in PeersOf(Known) =>
           Even(Over(d), IF outcome = "ok" /\ d.steps[1].op = "enable" THEN Cardinality(Wins(calls, p)) + 1
                         ELSE Cardinality(Wins(calls, p)), Cardinality(Undoes(calls, p)))
  PROVE  Books'
<1> DEFINE s == d.steps  t == Tail(s)  i == s[1].call
           x == IF calls[i].aborted THEN "aborted" ELSE outcome
<1>1. /\ UNCHANGED <<senders, made, wc, toMain, disposed>>
      /\ coverage' = [coverage EXCEPT ![p] = Over(d)]
      /\ IF i = 0 THEN calls' = calls ELSE calls' = [calls EXCEPT ![i].outcome = x]
  BY DEF coverageRest, Done, pageVars, flowVars, Over
<1>2. Known' = Known /\ PeersOf(Known)' = PeersOf(Known) BY <1>1 DEF Known, Knows, PeersOf
<1>3. /\ s \in Seq(Step) /\ coverage \in [Peers -> Cover]
      /\ \A k \in DOMAIN s : s[k].call # 0 => s[k].call \in DOMAIN calls
      /\ \A k \in DOMAIN s : s[k].call \in Nat
      /\ \A k \in DOMAIN s :
           /\ s[k].call # 0 => /\ calls[s[k].call].peer = p /\ calls[s[k].call].outcome = "none"
                               /\ \A j \in DOMAIN s : s[j].call = s[k].call => j = k
           /\ p \in PeersOf(Known) => s[k].call # 0 /\ s[k].op = calls[s[k].call].method
  <2>1. \A k \in DOMAIN s : s[k].call \in 0..Len(calls) BY BookTypes
  <2> QED BY <2>1, BookTypes DEF Books, StepsOK, IInv, CoverageOK
<1>4. /\ Over(d).steps = t /\ 1 \in DOMAIN s
      /\ \A k \in DOMAIN t : k + 1 \in DOMAIN s /\ k + 1 > 1 /\ t[k] = s[k + 1]
  <2>1. Over(d).steps = t BY OverDoes
  <2>2. /\ 1 \in DOMAIN s
        /\ \A k \in DOMAIN t : k + 1 \in DOMAIN s /\ k + 1 > 1 /\ t[k] = s[k + 1]
    <3> HIDE DEF s, Step
    <3> QED BY <1>3, RestPlaces DEF s
  <2> QED BY <2>1, <2>2
<1>5. coverage'[p] = Over(d) /\ \A q \in Peers : q # p => coverage'[q] = coverage[q] BY <1>1, <1>3
<1> HIDE DEF s, t, i, x
<1>6. i \in Nat /\ (i # 0 => i \in DOMAIN calls /\ calls[i].peer = p /\ calls[i].outcome = "none")
      /\ (p \in PeersOf(Known) => i # 0 /\ s[1].op = calls[i].method)
      /\ \A k \in DOMAIN t : i # 0 => t[k].call # i
  <2>1. \A k \in DOMAIN t : i # 0 => t[k].call # i
    <3>1. ASSUME NEW k \in DOMAIN t, i # 0, t[k].call = i PROVE FALSE
      <4>1. k + 1 \in DOMAIN s /\ k + 1 # 1 /\ s[k + 1].call = s[1].call BY <1>4, <3>1 DEF i
      <4> QED BY <1>3, <1>4, <3>1, <4>1 DEF i
    <3> QED BY <3>1
  <2> QED BY <1>3, <1>4, <2>1 DEF i
<1>7. p # 0 BY BookTypes
<1>8. i # 0 => Outcome(i, x)
  <2> SUFFICES ASSUME i # 0 PROVE Outcome(i, x) OBVIOUS
  <2> DEFINE e == [calls[i] EXCEPT !.outcome = x]
  <2>1. x \in {"ok", "error", "aborted"} BY DEF x
  <2>2. /\ e \in Call /\ e.page = calls[i].page /\ e.peer = calls[i].peer /\ e.outcome = x
        /\ e.method = calls[i].method /\ e.promise = calls[i].promise
    <3>1. calls[i] \in Call BY <1>6, BookTypes
    <3> QED BY <2>1, <3>1 DEF Call
  <2>3. calls' = [calls EXCEPT ![i] = e] BY <1>1
  <2> HIDE DEF e
  <2>4. /\ DOMAIN calls' = DOMAIN calls /\ calls'[i] = e /\ \A j \in DOMAIN calls : j # i => calls'[j] = calls[j]
    BY <1>6, <2>2, <2>3, CallBecomes DEF IInv
  <2> QED BY <1>6, <2>2, <2>4 DEF Outcome
<1>9. TruthOK' /\ OrderOK' /\ WaitOK' /\ EarnOK'
  <2>1. CASE i = 0
    <3>1. calls' = calls BY <1>1, <2>1
    <3> QED BY <1>1, <1>2, <3>1 DEF Books, TruthOK, OrderOK, WaitOK, EarnOK, Earned, Alive, Knows
  <2>2. CASE i # 0 BY <1>1, <1>6, <1>7, <1>8, <2>2, OutcomeBooks
  <2> QED BY <2>1, <2>2
<1>10. \A n \in DOMAIN calls : n # i \/ i = 0 =>
         /\ calls'[n].peer = calls[n].peer /\ calls'[n].outcome = calls[n].outcome
         /\ calls'[n].method = calls[n].method
  <2>1. CASE i = 0 BY <1>1, <2>1
  <2>2. CASE i # 0 BY <1>8, <2>2 DEF Outcome
  <2> QED BY <2>1, <2>2
<1>11. StepsOK'
  <2>1. ASSUME NEW q \in Peers, q # p
        PROVE  LET u == coverage'[q].steps IN \A k \in DOMAIN u :
                 /\ u[k].call # 0 => /\ calls'[u[k].call].peer = q /\ calls'[u[k].call].outcome = "none"
                                     /\ \A j \in DOMAIN u : u[j].call = u[k].call => j = k
                 /\ q \in PeersOf(Known)' => u[k].call # 0 /\ u[k].op = calls'[u[k].call].method
    <3> DEFINE u == coverage[q].steps
    <3>1. \A k \in DOMAIN u :
            /\ u[k].call # 0 => /\ calls[u[k].call].peer = q /\ calls[u[k].call].outcome = "none"
                                /\ u[k].call \in DOMAIN calls
                                /\ \A j \in DOMAIN u : u[j].call = u[k].call => j = k
            /\ q \in PeersOf(Known) => u[k].call # 0 /\ u[k].op = calls[u[k].call].method
      BY BookTypes DEF Books, StepsOK
    <3>2. coverage'[q].steps = u BY <1>5, <2>1
    <3> HIDE DEF u
    <3>3. \A k \in DOMAIN u : u[k].call # 0 => u[k].call # i BY <1>6, <2>1, <3>1
    <3> QED BY <1>2, <1>10, <3>1, <3>2, <3>3
  <2>2. LET u == coverage'[p].steps IN \A k \in DOMAIN u :
          /\ u[k].call # 0 => /\ calls'[u[k].call].peer = p /\ calls'[u[k].call].outcome = "none"
                              /\ \A j \in DOMAIN u : u[j].call = u[k].call => j = k
          /\ p \in PeersOf(Known)' => u[k].call # 0 /\ u[k].op = calls'[u[k].call].method
    <3>1. coverage'[p].steps = t BY <1>4, <1>5
    <3>2. ASSUME NEW k \in DOMAIN t
          PROVE  /\ t[k].call # 0 => /\ calls'[t[k].call].peer = p /\ calls'[t[k].call].outcome = "none"
                                     /\ \A j \in DOMAIN t : t[j].call = t[k].call => j = k
                 /\ p \in PeersOf(Known) => t[k].call # 0 /\ t[k].op = calls'[t[k].call].method
      <4>1. k + 1 \in DOMAIN s /\ t[k] = s[k + 1] BY <1>4
      <4>2. t[k].call # 0 => t[k].call \in DOMAIN calls /\ (t[k].call # i \/ i = 0) BY <1>3, <1>6, <4>1
      <4>3. t[k].call # 0 => \A j \in DOMAIN t : t[j].call = t[k].call => j = k
        <5>1. ASSUME NEW j \in DOMAIN t, t[j].call = t[k].call, t[k].call # 0 PROVE j = k
          <6>1. j + 1 \in DOMAIN s /\ t[j] = s[j + 1] BY <1>4
          <6>2. j + 1 = k + 1 BY <1>3, <4>1, <5>1, <6>1
          <6>3. j \in Nat /\ k \in Nat
            <7>1. DOMAIN t \subseteq Nat
              <8> HIDE DEF Step
              <8>1. t \in Seq(Step) BY <1>3, <1>4, RestOfQueue DEF t, s
              <8> QED BY <8>1
            <7> QED BY <7>1
          <6> QED BY <6>2, <6>3
        <5> QED BY <5>1
      <4> QED BY <1>3, <1>10, <4>1, <4>2, <4>3
    <3> QED BY <1>2, <3>1, <3>2
  <2> QED BY <2>1, <2>2 DEF StepsOK
<1>12. BalanceOK'
  <2>1. ASSUME NEW q \in PeersOf(Known), q # p
        PROVE  Even(coverage'[q], Cardinality(Wins(calls', q)), Cardinality(Undoes(calls', q)))
    <3>1. q \in Peers BY BookTypes
    <3>2. Wins(calls', q) = Wins(calls, q) /\ Undoes(calls', q) = Undoes(calls, q)
      <4>1. CASE i = 0 BY <1>1, <4>1
      <4>2. CASE i # 0 BY <1>6, <1>8, <2>1, <4>2, OutcomeSets
      <4> QED BY <4>1, <4>2
    <3> QED BY <1>5, <2>1, <3>1, <3>2 DEF Books, BalanceOK
  <2>2. ASSUME p \in PeersOf(Known)
        PROVE  Even(coverage'[p], Cardinality(Wins(calls', p)), Cardinality(Undoes(calls', p)))
    <3>1. i # 0 /\ s[1].op = calls[i].method /\ calls[i].peer = p /\ i \in DOMAIN calls BY <1>6, <2>2
    <3>2. x = outcome
      <4>1. Running(calls[i]) BY <1>6, <1>7, <3>1 DEF Running
      <4>2. ~calls[i].aborted BY <2>2, <3>1, <4>1 DEF IInv, CallsOK
      <4> QED BY <4>2 DEF x
    <3>3. Undoes(calls', p) = Undoes(calls, p) BY <1>8, <3>1, OutcomeSets
    <3>4. Wins(calls', p) = IF s[1].op = "enable" /\ outcome = "ok" THEN Wins(calls, p) \cup {i} ELSE Wins(calls, p)
      BY <1>8, <3>1, <3>2, OutcomeSets
    <3>5. Cardinality(Wins(calls, p) \cup {i}) = Cardinality(Wins(calls, p)) + 1
      <4>1. i \notin Wins(calls, p) BY <1>8, <3>1, OutcomeSets
      <4>2. IsFiniteSet(Wins(calls, p)) BY SetTypes
      <4> QED BY <4>1, <4>2, FS_AddElement
    <3>6. Cardinality(Wins(calls', p)) = IF outcome = "ok" /\ s[1].op = "enable"
                                           THEN Cardinality(Wins(calls, p)) + 1 ELSE Cardinality(Wins(calls, p))
      BY <3>4, <3>5
    <3> QED BY <1>5, <2>2, <3>3, <3>6 DEF s
  <2> QED BY <1>2, <2>1, <2>2 DEF BalanceOK
<1>13. FreshOK'
  <2>1. ASSUME NEW q \in Peers, q > made
        PROVE  coverage'[q] = [count |-> 0, held |-> FALSE, awaits |-> "nothing", steps |-> <<>>]
    <3>1. coverage[q] = [count |-> 0, held |-> FALSE, awaits |-> "nothing", steps |-> <<>>]
      BY <2>1 DEF Books, FreshOK
    <3>2. q # p BY <3>1
    <3> QED BY <1>5, <3>1, <3>2
  <2> QED BY <1>1, <2>1 DEF FreshOK
<1> QED BY <1>9, <1>11, <1>12, <1>13 DEF Books

LEMMA AskedBooks ==
  ASSUME IInv, Books, NEW p \in Peers, NEW d, coverage' = [coverage EXCEPT ![p] = d], d.steps = coverage[p].steps,
         coverage[p].steps # <<>>, calls' = calls, UNCHANGED coverageRest,
         p \in PeersOf(Known) => Even(d, Cardinality(Wins(calls, p)), Cardinality(Undoes(calls, p)))
  PROVE  Books'
<1>1. UNCHANGED <<senders, made, wc, toMain, disposed>> BY DEF coverageRest, pageVars, flowVars
<1>2. Known' = Known /\ PeersOf(Known)' = PeersOf(Known) BY <1>1 DEF Known, Knows, PeersOf
<1>3. coverage'[p] = d /\ \A q \in Peers : q # p => coverage'[q] = coverage[q] BY DEF IInv, CoverageOK
<1>4. TruthOK' /\ OrderOK' /\ WaitOK' /\ EarnOK'
  BY <1>1, <1>2 DEF Books, TruthOK, OrderOK, WaitOK, EarnOK, Earned, Alive, Knows
<1>5. \A q \in Peers : coverage'[q].steps = coverage[q].steps BY <1>3
<1>6. StepsOK' BY <1>2, <1>5 DEF Books, StepsOK
<1>7. BalanceOK'
  <2>1. ASSUME NEW q \in PeersOf(Known)
        PROVE  Even(coverage'[q], Cardinality(Wins(calls, q)), Cardinality(Undoes(calls, q)))
    <3>1. CASE q = p BY <1>3, <3>1
    <3>2. CASE q # p
      <4>1. q \in Peers BY BookTypes
      <4> QED BY <1>3, <3>2, <4>1 DEF Books, BalanceOK
    <3> QED BY <3>1, <3>2
  <2> QED BY <1>2, <2>1 DEF BalanceOK
<1>8. FreshOK'
  <2>1. ASSUME NEW q \in Peers, q > made
        PROVE  coverage'[q] = [count |-> 0, held |-> FALSE, awaits |-> "nothing", steps |-> <<>>]
    <3>1. coverage[q] = [count |-> 0, held |-> FALSE, awaits |-> "nothing", steps |-> <<>>]
      BY <2>1 DEF Books, FreshOK
    <3>2. q # p BY <3>1
    <3> QED BY <1>3, <3>1, <3>2
  <2> QED BY <1>1, <2>1 DEF FreshOK
<1> QED BY <1>4, <1>6, <1>7, <1>8 DEF Books

LEMMA EvenNow ==
  ASSUME IInv, Books, NEW p \in Peers
  PROVE  /\ coverage[p] \in Cover /\ Queued(coverage[p])
         /\ Cardinality(Wins(calls, p)) \in Nat /\ Cardinality(Undoes(calls, p)) \in Nat
         /\ p \in PeersOf(Known) =>
              /\ Even(coverage[p], Cardinality(Wins(calls, p)), Cardinality(Undoes(calls, p)))
              /\ coverage[p].steps # <<>> => coverage[p].steps[1].op \in {"enable", "disable"}
<1>1. /\ coverage[p] \in Cover /\ Queued(coverage[p])
      /\ Cardinality(Wins(calls, p)) \in Nat /\ Cardinality(Undoes(calls, p)) \in Nat
  BY SetTypes DEF IInv, CoverageOK
<1>2. ASSUME p \in PeersOf(Known), coverage[p].steps # <<>> PROVE coverage[p].steps[1].op \in {"enable", "disable"}
  <2> DEFINE s == coverage[p].steps
  <2>1. s \in Seq(Step) /\ 1 \in DOMAIN s
    <3>1. s \in Seq(Step) BY BookTypes
    <3> HIDE DEF s, Step
    <3> QED BY <1>2, <3>1, RestOfQueue DEF s
  <2>2. s[1].call # 0 /\ s[1].op = calls[s[1].call].method BY <1>2, <2>1 DEF Books, StepsOK
  <2>3. s[1].call \in DOMAIN calls BY <2>1, <2>2, BookTypes
  <2>4. calls[s[1].call] \in Call BY <2>3, BookTypes
  <2>5. calls[s[1].call].method \in {"enable", "disable"} BY <2>4 DEF Call
  <2> QED BY <2>2, <2>5
<1> QED BY <1>1, <1>2 DEF Books, BalanceOK

LEMMA reconcileBooks ==
  ASSUME IInv, Books, NEW p \in Peers, reconcile(p)
  PROVE  Books'
<1> DEFINE c == coverage[p]  idle == c.steps[1].op = "wait" \/ ~(Wants(c) \/ Returns(c))
           w == Cardinality(Wins(calls, p))  u == Cardinality(Undoes(calls, p))
           d == IF Wants(c) THEN [c EXCEPT !.awaits = "enable"] ELSE [c EXCEPT !.awaits = "disable", !.held = FALSE]
<1>1. /\ c.steps # <<>> /\ c.awaits = "nothing" /\ UNCHANGED coverageRest
      /\ IF idle THEN Done(p, c, "ok") ELSE coverage' = [coverage EXCEPT ![p] = d] /\ calls' = calls
  BY DEF reconcile, Runnable
<1>2. /\ c \in Cover /\ w \in Nat /\ u \in Nat
      /\ p \in PeersOf(Known) => Even(c, w, u) /\ c.steps[1].op \in {"enable", "disable"}
  BY <1>1, EvenNow
<1>3. CASE idle
  <2>1. p \in PeersOf(Known) => Even(Over(c), IF c.steps[1].op = "enable" THEN w + 1 ELSE w, u)
    <3>1. p \in PeersOf(Known) => ~(Wants(c) \/ Returns(c)) BY <1>2, <1>3
    <3> HIDE DEF c, w, u
    <3> QED BY <1>1, <1>2, <3>1, EvenIdle
  <2>2. Done(p, c, "ok") BY <1>1, <1>3
  <2> DEFINE outcome == "ok"
  <2>3. p \in PeersOf(Known) =>
          Even(Over(c), IF outcome = "ok" /\ c.steps[1].op = "enable" THEN w + 1 ELSE w, u)
    BY <2>1
  <2>4. outcome \in {"ok", "error"} /\ Done(p, c, outcome) /\ c.steps = coverage[p].steps BY <2>2
  <2> HIDE DEF c, outcome, idle
  <2> QED BY <1>1, <1>2, <2>3, <2>4, DoneBooks
<1>4. CASE ~idle
  <2>1. d.steps = c.steps BY <1>2 DEF Cover
  <2>2. Wants(c) \/ Returns(c) BY <1>4
  <2>3. p \in PeersOf(Known) => Even(d, w, u)
    <3> HIDE DEF c, w, u, idle
    <3>1. p \in PeersOf(Known) => /\ Wants(c) => Even([c EXCEPT !.awaits = "enable"], w, u)
                                  /\ Returns(c) => Even([c EXCEPT !.awaits = "disable", !.held = FALSE], w, u)
      BY Zenon, <1>1, <1>2, EvenAsks
    <3> QED BY <2>2, <3>1
  <2>4. coverage' = [coverage EXCEPT ![p] = d] /\ calls' = calls BY <1>1, <1>4
  <2> HIDE DEF d, idle
  <2> QED BY <1>1, <2>1, <2>3, <2>4, AskedBooks
<1> QED BY <1>3, <1>4

LEMMA RelayAnswersBooks ==
  ASSUME IInv, Books, NEW p \in Peers, RelayAnswers(p)
  PROVE  Books'
<1> DEFINE c == coverage[p]  w == Cardinality(Wins(calls, p))  u == Cardinality(Undoes(calls, p))
           d == [c EXCEPT !.held = (c.awaits = "enable")]
           e == IF c.awaits = "enable" THEN RefusedEnable(c) ELSE c
<1>1. c.awaits # "nothing" /\ UNCHANGED coverageRest /\ (Done(p, d, "ok") \/ Done(p, e, "error"))
  BY DEF RelayAnswers
<1>2. /\ c \in Cover /\ Queued(c) /\ w \in Nat /\ u \in Nat
      /\ p \in PeersOf(Known) => Even(c, w, u)
  BY EvenNow
<1>3. c.steps # <<>> BY <1>1, <1>2 DEF Queued
<1>4. d \in Cover /\ d.steps = c.steps BY <1>2 DEF Cover
<1>5. e \in Cover /\ e.steps = c.steps
  <2>1. c.count \in Nat BY <1>2 DEF Cover
  <2>2. (IF c.steps[1].op = "enable" /\ c.count > 0 THEN c.count - 1 ELSE c.count) \in Nat BY <2>1
  <2> QED BY <1>2, <2>2 DEF RefusedEnable, Cover
<1>6. p \in PeersOf(Known) => /\ Even(Over(d), IF c.steps[1].op = "enable" THEN w + 1 ELSE w, u)
                              /\ Even(Over(e), w, u)
  <2> HIDE DEF c, w, u
  <2> QED BY <1>1, <1>2, <1>3, EvenGranted, EvenRefused
<1>7. c.steps = coverage[p].steps OBVIOUS
<1> HIDE DEF c, d, e
<1>8. ASSUME NEW outcome, outcome = "ok", Done(p, d, outcome) PROVE Books'
  <2>1. p \in PeersOf(Known) =>
          Even(Over(d), IF outcome = "ok" /\ d.steps[1].op = "enable" THEN w + 1 ELSE w, u)
    BY <1>4, <1>6, <1>8
  <2> QED BY <1>1, <1>3, <1>4, <1>7, <1>8, <2>1, DoneBooks
<1>9. ASSUME NEW outcome, outcome = "error", Done(p, e, outcome) PROVE Books'
  <2>1. p \in PeersOf(Known) =>
          Even(Over(e), IF outcome = "ok" /\ e.steps[1].op = "enable" THEN w + 1 ELSE w, u)
    BY <1>6, <1>9
  <2> QED BY <1>1, <1>3, <1>5, <1>7, <1>9, <2>1, DoneBooks
<1> QED BY <1>1, <1>8, <1>9

-----------------------------------------------------------------------------
(* The steps that leave the books as they are                              *)

LEMMA SameCalls ==
  ASSUME IInv, calls' = calls
  PROVE  SameBooks(calls, calls')
BY BookTypes DEF SameBooks

LEMMA OnlyPromises ==
  ASSUME IInv, SameRun(calls, calls'),
         \A i \in DOMAIN calls : \/ calls'[i].promise = calls[i].promise \/ calls'[i].promise # "ok"
                                 \/ calls'[i].promise = calls[i].outcome
  PROVE  SameBooks(calls, calls') /\ \A i \in DOMAIN calls : calls'[i].outcome = calls[i].outcome
BY DEF SameRun, SameBooks

LEMMA AllShift ==
  ASSUME IInv,
         \/ toMain' = toMain
         \/ \E r \in Renderers : toMain[r] # <<>> /\ toMain' = [toMain EXCEPT ![r] = Tail(@)]
         \/ \E r \in Renderers, m \in Request : m.what # "invoke" /\ toMain' = Post(toMain, r, m)
  PROVE  \A q \in Renderers : Shifts(toMain[q], toMain'[q])
<1>1. CASE toMain' = toMain BY <1>1 DEF Shifts
<1>2. ASSUME NEW r \in Renderers, toMain[r] # <<>>, toMain' = [toMain EXCEPT ![r] = Tail(@)]
      PROVE  \A q \in Renderers : Shifts(toMain[q], toMain'[q])
  <2>1. toMain \in [Renderers -> Seq(Request)] BY DEF IInv, PagesOK
  <2>2. toMain'[r] = Tail(toMain[r]) /\ \A q \in Renderers : q # r => toMain'[q] = toMain[q]
    BY <1>2, <2>1, TailType
  <2> QED BY <1>2, <2>2 DEF Shifts
<1>3. ASSUME NEW r \in Renderers, NEW m \in Request, m.what # "invoke", toMain' = Post(toMain, r, m)
      PROVE  \A q \in Renderers : Shifts(toMain[q], toMain'[q])
  <2>1. toMain'[r] = Append(toMain[r], m) /\ \A q \in Renderers : q # r => toMain'[q] = toMain[q]
    BY <1>3, PostType DEF IInv
  <2> QED BY <1>3, <2>1 DEF Shifts
<1> QED BY <1>1, <1>2, <1>3

(* A step of a page, or one that is read and does nothing to the senders.  *)
LEMMA QuietBooks ==
  ASSUME IInv, IInv', Books, SameBooks(calls, calls'),
         \A i \in DOMAIN calls : calls'[i].outcome = calls[i].outcome,
         senders' = senders, made' = made, coverage' = coverage, disposed' = disposed,
         \A r \in Renderers : Alive(r)' => Alive(r),
         \A r \in Renderers : Shifts(toMain[r], toMain'[r])
  PROVE  Books'
<1>1. \A r \in Renderers : SameToken(r) /\ NoLess(r) BY DEF SameToken, NoLess, Known, Knows
<1>2. \A p \in Peers : SameCover(p) BY DEF SameCover
<1>3. \A r \in Renderers : \A n \in Invoked(toMain'[r]) : n \in DOMAIN calls
  <2>1. \A r \in Renderers : Invoked(toMain'[r]) \subseteq Invoked(toMain[r])
    BY BookTypes, ShiftDoes DEF Books, OrderOK
  <2> QED BY <2>1, BookTypes
<1>4. made' >= made BY BookTypes
<1> QED BY <1>1, <1>2, <1>3, <1>4, BooksQuiet

LEMMA createRendererBridgeBooks ==
  ASSUME IInv, IInv', Books, NEW r \in Renderers, createRendererBridge(r)
  PROVE  Books'
<1> DEFINE m == Message("register", 0)
<1>1. /\ toMain' = Post(toMain, r, m) /\ calls' = (IF proxy[r].open THEN Lose(r) ELSE calls)
      /\ UNCHANGED <<senders, made, coverage, disposed, wc>>
  BY DEF createRendererBridge, flowVars, mainVars
<1>2. m \in Request /\ m.what # "invoke" BY DEF Message, Request
<1> HIDE DEF m
<1>3. \A q \in Renderers : Shifts(toMain[q], toMain'[q]) BY <1>1, <1>2, AllShift
<1>4. SameBooks(calls, calls') /\ \A i \in DOMAIN calls : calls'[i].outcome = calls[i].outcome
  <2>1. CASE calls' = calls BY <2>1, SameCalls
  <2>2. CASE calls' = Lose(r)
    <3>1. SameRun(calls, calls') BY <2>2, LoseDoes DEF IInv
    <3>2. \A i \in DOMAIN calls : calls'[i].promise = calls[i].promise \/ calls'[i].promise # "ok"
      <4>1. \A i \in DOMAIN calls : calls[i] \in Call BY BookTypes
      <4> QED BY <2>2, <4>1 DEF Lose, Call
    <3> QED BY <3>1, <3>2, OnlyPromises
  <2> QED BY <1>1, <2>1, <2>2
<1> QED BY <1>1, <1>3, <1>4, QuietBooks DEF Alive

LEMMA closeBooks ==
  ASSUME IInv, IInv', Books, NEW r \in Renderers, close(r)
  PROVE  Books'
<1> DEFINE m == Message("unregister", 0)
<1>1. /\ toMain' = Post(toMain, r, m) /\ UNCHANGED <<senders, made, coverage, disposed, wc, calls>>
  BY DEF close, flowVars, mainVars
<1>2. m \in Request /\ m.what # "invoke" BY DEF Message, Request
<1> HIDE DEF m
<1>3. \A q \in Renderers : Shifts(toMain[q], toMain'[q]) BY <1>1, <1>2, AllShift
<1>4. SameBooks(calls, calls') BY <1>1, SameCalls
<1> QED BY <1>1, <1>3, <1>4, QuietBooks DEF Alive

LEMMA DestroyBooks ==
  ASSUME IInv, IInv', Books, NEW r \in Renderers, Destroy(r)
  PROVE  Books'
<1>1. /\ calls' = Lose(r) /\ wc' = [wc EXCEPT ![r] = "destroyed"]
      /\ UNCHANGED <<toMain, senders, made, coverage, disposed>>
  BY DEF Destroy, flowVars, mainVars
<1>2. \A q \in Renderers : Shifts(toMain[q], toMain'[q]) BY <1>1, AllShift
<1>3. SameRun(calls, calls') BY <1>1, LoseDoes DEF IInv
<1>4. \A i \in DOMAIN calls : calls'[i].promise = calls[i].promise \/ calls'[i].promise # "ok"
  <2>1. \A i \in DOMAIN calls : calls[i] \in Call BY BookTypes
  <2> QED BY <1>1, <2>1 DEF Lose, Call
<1>5. SameBooks(calls, calls') /\ \A i \in DOMAIN calls : calls'[i].outcome = calls[i].outcome
  BY <1>3, <1>4, OnlyPromises
<1>6. \A q \in Renderers : Alive(q)' => Alive(q) BY <1>1 DEF IInv, PagesOK, Alive
<1> QED BY <1>1, <1>2, <1>5, <1>6, QuietBooks

LEMMA withTimeoutBooks ==
  ASSUME IInv, IInv', Books, NEW i \in DOMAIN calls, withTimeout(i)
  PROVE  Books'
<1>1. /\ calls' = [calls EXCEPT ![i].promise = "timeout"]
      /\ UNCHANGED <<toMain, senders, made, coverage, disposed, wc>>
  BY DEF withTimeout, flowVars, mainVars, pageVars
<1>2. \A q \in Renderers : Shifts(toMain[q], toMain'[q]) BY <1>1, AllShift
<1>3. SameRun(calls, calls') BY <1>1, PromiseDoes DEF IInv
<1>4. \A j \in DOMAIN calls : calls'[j].promise = calls[j].promise \/ calls'[j].promise # "ok"
  <2>1. calls \in Seq(Call) /\ \A j \in DOMAIN calls : calls[j] \in Call BY BookTypes
  <2> QED BY <1>1, <2>1 DEF Call
<1>5. SameBooks(calls, calls') /\ \A j \in DOMAIN calls : calls'[j].outcome = calls[j].outcome
  BY <1>3, <1>4, OnlyPromises
<1> QED BY <1>1, <1>2, <1>5, QuietBooks DEF Alive

(* The answer that reaches a promise is that of its call.                  *)
LEMMA Reaches ==
  ASSUME IInv, NEW r \in Renderers, onReply(r)
  PROVE  LET i == toPage[r][1].n  x == IF calls[i].promise = "pending" THEN calls[i].outcome ELSE calls[i].promise IN
         /\ i \in DOMAIN calls /\ calls[i].outcome # "none" /\ calls[i] \in Call
         /\ x \in {"pending", "ok", "error", "aborted", "timeout", "lost"} /\ x # "pending"
         /\ calls' = [calls EXCEPT ![i].promise = x]
         /\ SameRun(calls, calls')
         /\ calls'[i].promise = x /\ \A j \in DOMAIN calls : j # i => calls'[j] = calls[j]
<1> DEFINE i == toPage[r][1].n  x == IF calls[i].promise = "pending" THEN calls[i].outcome ELSE calls[i].promise
<1>1. Takes(r, "reply") /\ calls' = [calls EXCEPT ![i].promise = IF @ = "pending" THEN calls[i].outcome ELSE @]
  BY DEF onReply
<1>2. toPage[r] # <<>> /\ toPage[r][1].what = "reply" BY <1>1, TakesOne
<1>3. 1 \in DOMAIN toPage[r]
  <2>1. toPage[r] \in Seq(Notice) BY BookTypes
  <2> HIDE DEF Notice
  <2> QED BY <1>2, <2>1, RestOfQueue
<1>4. i \in DOMAIN calls /\ calls[i].outcome # "none" BY <1>2, <1>3 DEF IInv, MailOK, Replies
<1>5. calls \in Seq(Call) /\ calls[i] \in Call BY <1>4, BookTypes
<1>6. x \in {"pending", "ok", "error", "aborted", "timeout", "lost"} /\ x # "pending" BY <1>4, <1>5 DEF Call
<1>7. calls' = [calls EXCEPT ![i].promise = x] BY <1>1, <1>4
<1>8. SameRun(calls, calls')
  <2> HIDE DEF x, i
  <2> QED BY <1>4, <1>6, <1>7, PromiseDoes DEF IInv
<1>9. calls'[i].promise = x /\ \A j \in DOMAIN calls : j # i => calls'[j] = calls[j]
  <2> DEFINE e == Promised(calls[i], x)
  <2>1. e.promise = x BY <1>5 DEF Promised, Call
  <2>2. calls' = [calls EXCEPT ![i] = e] BY <1>7 DEF Promised
  <2>3. \A j \in DOMAIN calls : j # i => calls'[j] = calls[j] BY <2>2
  <2>4. calls'[i] = e BY <1>4, <2>2
  <2> QED BY <2>1, <2>3, <2>4
<1> QED BY <1>4, <1>5, <1>6, <1>7, <1>8, <1>9

LEMMA onReplyBooks ==
  ASSUME IInv, IInv', Books, NEW r \in Renderers, onReply(r)
  PROVE  Books'
<1> DEFINE i == toPage[r][1].n  x == IF calls[i].promise = "pending" THEN calls[i].outcome ELSE calls[i].promise
<1>1. UNCHANGED <<toMain, senders, made, coverage, disposed, wc>> BY DEF onReply, flowVars, mainVars, pageVars
<1>2. \A q \in Renderers : Shifts(toMain[q], toMain'[q]) BY <1>1, AllShift
<1>3. /\ i \in DOMAIN calls /\ SameRun(calls, calls')
      /\ calls'[i].promise = x /\ \A j \in DOMAIN calls : j # i => calls'[j] = calls[j]
  BY Reaches
<1>4. \A j \in DOMAIN calls : calls'[j].promise = calls[j].promise \/ calls'[j].promise = calls[j].outcome
  BY <1>3
<1>5. SameBooks(calls, calls') /\ \A j \in DOMAIN calls : calls'[j].outcome = calls[j].outcome
  BY <1>3, <1>4, OnlyPromises
<1> QED BY <1>1, <1>2, <1>5, QuietBooks DEF Alive

LEMMA onConnectionStateBooks ==
  ASSUME IInv, IInv', Books, NEW r \in Renderers, onConnectionState(r)
  PROVE  Books'
<1>1. UNCHANGED <<toMain, senders, made, coverage, disposed, wc, calls>> BY DEF onConnectionState, flowVars, mainVars
<1>2. \A q \in Renderers : Shifts(toMain[q], toMain'[q]) BY <1>1, AllShift
<1>3. SameBooks(calls, calls') BY <1>1, SameCalls
<1> QED BY <1>1, <1>2, <1>3, QuietBooks DEF Alive

LEMMA onOutputBooks ==
  ASSUME IInv, IInv', Books, NEW r \in Renderers, onOutput(r)
  PROVE  Books'
<1> DEFINE next == account(proxy[r].pending)  m == Message("ack", next.bytes)
<1>1. UNCHANGED <<senders, made, coverage, disposed, wc, calls>> BY DEF onOutput, flowVars, mainVars
<1>2. toMain' = toMain \/ toMain' = Post(toMain, r, m) BY DEF onOutput
<1>3. m \in Request /\ m.what # "invoke"
  <2>1. proxy[r].pending \in 0..(Batch - 1) BY PageTypes DEF IInv
  <2>2. next.bytes \in Nat BY <2>1, AccountSplits
  <2> QED BY <2>2 DEF Message, Request
<1> HIDE DEF m
<1>4. \A q \in Renderers : Shifts(toMain[q], toMain'[q]) BY <1>2, <1>3, AllShift
<1>5. SameBooks(calls, calls') BY <1>1, SameCalls
<1> QED BY <1>1, <1>4, <1>5, QuietBooks DEF Alive

LEMMA ackBooks ==
  ASSUME IInv, IInv', Books, NEW r \in Renderers, ack(r)
  PROVE  Books'
<1>1. /\ toMain[r] # <<>> /\ toMain' = [toMain EXCEPT ![r] = Tail(@)]
      /\ UNCHANGED <<senders, made, coverage, disposed, wc, calls>>
  BY DEF ack, Reads, mainRest, pageVars
<1>2. \A q \in Renderers : Shifts(toMain[q], toMain'[q]) BY <1>1, AllShift
<1>3. SameBooks(calls, calls') BY <1>1, SameCalls
<1> QED BY <1>1, <1>2, <1>3, QuietBooks DEF Alive

LEMMA writeBooks ==
  ASSUME IInv, IInv', Books, write
  PROVE  Books'
<1>1. UNCHANGED <<toMain, senders, made, coverage, disposed, wc, calls>> BY DEF write, mainVars, pageVars
<1>2. \A q \in Renderers : Shifts(toMain[q], toMain'[q]) BY <1>1, AllShift
<1>3. SameBooks(calls, calls') BY <1>1, SameCalls
<1> QED BY <1>1, <1>2, <1>3, QuietBooks DEF Alive

LEMMA FlowBooks ==
  ASSUME IInv, IInv', Books, UNCHANGED bridgeVars, disposed' = disposed
  PROVE  Books'
<1>1. UNCHANGED <<toMain, senders, made, coverage, disposed, wc, calls>> BY DEF bridgeVars, mainVars, pageVars
<1>2. \A q \in Renderers : Shifts(toMain[q], toMain'[q]) BY <1>1, AllShift
<1>3. SameBooks(calls, calls') BY <1>1, SameCalls
<1> QED BY <1>1, <1>2, <1>3, QuietBooks DEF Alive

-----------------------------------------------------------------------------
(* A call nobody runs, and senders that come and go                        *)

LEMMA RefusedBooks ==
  ASSUME IInv, IInv', Books, NEW r \in Renderers, toMain[r] # <<>>, toMain[r][1].what = "invoke",
         toMain' = [toMain EXCEPT ![r] = Tail(@)], NEW x \in {"error", "aborted"},
         calls' = [calls EXCEPT ![toMain[r][1].n].outcome = x], UNCHANGED <<senders, made, coverage, disposed, wc>>
  PROVE  Books'
<1> DEFINE i == toMain[r][1].n  e == [calls[i] EXCEPT !.outcome = x]
<1>1. /\ i \in DOMAIN calls /\ i \in Nat /\ calls[i].page = r /\ calls[i].peer = 0 /\ calls[i].outcome = "none"
      /\ \A n \in Invoked(Tail(toMain[r])) : i < n
  BY RunAhead
<1>2. calls[i] \in Call BY <1>1, BookTypes
<1>3. /\ e \in Call /\ e.page = calls[i].page /\ e.method = calls[i].method /\ e.peer = calls[i].peer
      /\ e.outcome = x /\ e.promise = calls[i].promise
  BY <1>2 DEF Call
<1>4. /\ calls' \in Seq(Call) /\ Len(calls') = Len(calls) /\ DOMAIN calls' = DOMAIN calls /\ calls'[i] = e
      /\ \A j \in DOMAIN calls : j # i => calls'[j] = calls[j]
  <2>1. calls' = [calls EXCEPT ![i] = e] OBVIOUS
  <2> HIDE DEF e, i
  <2> QED BY <1>1, <1>3, <2>1, CallBecomes DEF IInv
<1> HIDE DEF e
<1>5. SameBooks(calls, calls') BY <1>1, <1>3, <1>4 DEF SameBooks
<1>6. \A q \in Renderers : Shifts(toMain[q], toMain'[q]) BY AllShift
<1>7. ASSUME NEW q \in Renderers, NEW n \in Invoked(toMain'[q]) PROVE calls'[n].outcome = calls[n].outcome
  <2>1. toMain'[r] = Tail(toMain[r]) /\ \A p \in Renderers : p # r => toMain'[p] = toMain[p]
    BY TailType DEF IInv, PagesOK
  <2>2. n \in DOMAIN calls /\ calls[n].page = q
    <3>1. Invoked(toMain'[q]) \subseteq Invoked(toMain[q]) BY <1>6, BookTypes, ShiftDoes DEF Books, OrderOK
    <3> QED BY <1>7, <3>1, BookTypes
  <2>3. n # i
    <3>1. CASE q = r
      <4>1. n \in Invoked(Tail(toMain[r])) BY <1>7, <2>1, <3>1
      <4>2. i < n BY <1>1, <4>1
      <4> QED BY <1>1, <4>2
    <3>2. CASE q # r BY <1>1, <2>2, <3>2
    <3> QED BY <3>1, <3>2
  <2> QED BY <1>4, <2>2, <2>3
<1>8. \A q \in Renderers : SameToken(q) /\ NoLess(q) BY DEF SameToken, NoLess, Known, Knows, Alive
<1>9. \A p \in Peers : SameCover(p) BY DEF SameCover
<1>10. made' >= made BY BookTypes
<1> QED BY <1>5, <1>6, <1>7, <1>8, <1>9, <1>10, BooksQuiet

LEMMA UnheardBooks ==
  ASSUME IInv, IInv', Books, NEW r \in Renderers, Unheard(r)
  PROVE  Books'
<1>1. /\ toMain[r] # <<>> /\ toMain' = [toMain EXCEPT ![r] = Tail(@)]
      /\ UNCHANGED <<senders, made, coverage, disposed, wc>>
      /\ \/ toMain[r][1].what # "invoke" /\ calls' = calls
         \/ toMain[r][1].what = "invoke" /\ calls' = [calls EXCEPT ![toMain[r][1].n].outcome = "error"]
  BY DEF Unheard, mainVars, flowVars, pageVars
<1>2. CASE calls' = calls
  <2>1. \A q \in Renderers : Shifts(toMain[q], toMain'[q]) BY <1>1, AllShift
  <2>2. SameBooks(calls, calls') BY <1>2, SameCalls
  <2> QED BY <1>1, <1>2, <2>1, <2>2, QuietBooks DEF Alive
<1>3. CASE toMain[r][1].what = "invoke" /\ calls' = [calls EXCEPT ![toMain[r][1].n].outcome = "error"]
  BY <1>1, <1>3, RefusedBooks
<1> QED BY <1>1, <1>2, <1>3

LEMMA handleAllBooks ==
  ASSUME IInv, IInv', Books, NEW r \in Renderers, handle(r)
  PROVE  Books'
<1>1. CASE Reachable(r) BY <1>1, handleBooks
<1>2. CASE ~Reachable(r)
  <2>1. /\ toMain[r] # <<>> /\ toMain[r][1].what = "invoke" /\ toMain' = [toMain EXCEPT ![r] = Tail(@)]
        /\ calls' = [calls EXCEPT ![toMain[r][1].n].outcome = "aborted"]
        /\ UNCHANGED <<senders, made, coverage, disposed, wc>>
    BY <1>2 DEF handle, Reads, mainRest, pageVars
  <2> QED BY <2>1, RefusedBooks
<1> QED BY <1>1, <1>2

(* Senders leave: none of them, or no page of theirs that lives, waits for *)
(* the disable of what it was granted.                                     *)
LEMMA TornBooks ==
  ASSUME IInv, IInv', Books, NEW R \in SUBSET Known, teardown(R),
         \A r \in Renderers : Shifts(toMain[r], toMain'[r]),
         \A r \in Renderers : Alive(r)' => Alive(r),
         disposed => disposed',
         \A q \in R : Waits(toMain'[q], calls) = {} \/ ~Alive(q)' \/ disposed'
  PROVE  Books'
<1>1. /\ senders' = [r \in Renderers |-> IF r \in R THEN [peer |-> 0, subscribed |-> FALSE] ELSE senders[r]]
      /\ coverage' = [p \in Peers |->
           IF p \in PeersOf(R)
             THEN [coverage[p] EXCEPT !.count = 0, !.steps = Append(@, [op |-> "release", call |-> 0])]
             ELSE coverage[p]]
      /\ calls' = [i \in DOMAIN calls |->
           IF Running(calls[i]) /\ calls[i].peer \in PeersOf(R) THEN [calls[i] EXCEPT !.aborted = TRUE] ELSE calls[i]]
      /\ made' = made
  BY Zenon DEF teardown
<1>2. \A q \in Renderers : /\ q \notin R => senders'[q] = senders[q] /\ (Knows(q)' <=> Knows(q))
                           /\ q \in R => ~Knows(q)'
  BY Zenon, <1>1 DEF Knows
<1>3. \A q \in Renderers : SameToken(q)
  <2>1. \A q \in Known' : q \in Renderers /\ Knows(q)' BY DEF Known
  <2> QED BY <1>2, <2>1 DEF SameToken, Known
<1>4. \A p \in Peers : SameCover(p)
  <2>1. ASSUME NEW p \in PeersOf(R), p \in Peers PROVE SameCover(p)
    <3> DEFINE x == [op |-> "release", call |-> 0]
    <3>1. x \in Step /\ x.call = 0
      <4>1. MaxEvents \in Nat BY BridgeAssumption
      <4> QED BY <4>1 DEF Step
    <3>2. coverage'[p].steps = Append(coverage[p].steps, x)
      <4>1. coverage[p] \in Cover BY <2>1, BookTypes
      <4>2. coverage'[p] = [coverage[p] EXCEPT !.count = 0, !.steps = Append(@, x)] BY Zenon, <1>1, <2>1
      <4> HIDE DEF x, Step
      <4> QED BY <4>1, <4>2 DEF Cover
    <3>3. p \in PeersOf(Known) BY <2>1 DEF PeersOf
    <3>4. p \notin PeersOf(Known)'
      <4>1. SUFFICES ASSUME NEW q \in Known', senders'[q].peer = p PROVE FALSE BY DEF PeersOf
      <4>2. q \in Renderers /\ Knows(q)' BY DEF Known
      <4>3. q \notin R /\ q \in Known /\ senders[q].peer = p BY <1>2, <4>1, <4>2 DEF Known
      <4>4. PICK y \in R : senders[y].peer = p BY <2>1 DEF PeersOf
      <4> QED BY <4>3, <4>4 DEF IInv, Registry
    <3> HIDE DEF x
    <3> QED BY <3>1, <3>2, <3>3, <3>4 DEF SameCover
  <2>2. ASSUME NEW p \in Peers, p \notin PeersOf(R) PROVE SameCover(p) BY Zenon, <1>1, <2>2 DEF SameCover
  <2> QED BY <2>1, <2>2
<1>5. calls \in Seq(Call) /\ \A i \in DOMAIN calls : calls[i] \in Call BY BookTypes
<1>6. /\ DOMAIN calls' = DOMAIN calls
      /\ \A i \in DOMAIN calls :
           /\ calls'[i].page = calls[i].page /\ calls'[i].method = calls[i].method /\ calls'[i].peer = calls[i].peer
           /\ calls'[i].outcome = calls[i].outcome /\ calls'[i].promise = calls[i].promise
  BY Zenon, <1>1, <1>5 DEF Call
<1>7. calls' \in Seq(Call) /\ Len(calls') = Len(calls)
  <2>1. \A i \in DOMAIN calls :
          (IF Running(calls[i]) /\ calls[i].peer \in PeersOf(R) THEN [calls[i] EXCEPT !.aborted = TRUE] ELSE calls[i])
            \in Call
    BY <1>5 DEF Call
  <2>2. calls' \in [DOMAIN calls -> Call] BY Zenon, <1>1, <2>1
  <2> HIDE DEF Call
  <2> QED BY <1>5, <2>2, SameLength
<1>8. SameBooks(calls, calls') BY <1>6, <1>7 DEF SameBooks
<1>9. \A r \in Renderers : \A n \in Invoked(toMain'[r]) : calls'[n].outcome = calls[n].outcome
  <2>1. \A r \in Renderers : Invoked(toMain'[r]) \subseteq Invoked(toMain[r])
    BY BookTypes, ShiftDoes DEF Books, OrderOK
  <2> QED BY <1>6, <2>1, BookTypes
<1>10. \A q \in Renderers : Waits(toMain'[q], calls) = {} \/ NoLess(q)
  <2>1. ASSUME NEW q \in Renderers, q \notin R PROVE NoLess(q) BY <1>2, <2>1 DEF NoLess
  <2>2. ASSUME NEW q \in R PROVE Waits(toMain'[q], calls) = {} \/ NoLess(q) BY DEF NoLess
  <2> QED BY <2>1, <2>2
<1>11. made' >= made
  <2>1. made \in Nat BY BookTypes
  <2>2. made' = made BY Zenon, <1>1
  <2> QED BY <2>1, <2>2
<1> QED BY <1>3, <1>4, <1>8, <1>9, <1>10, <1>11, BooksQuiet

LEMMA unregisterBooks ==
  ASSUME IInv, IInv', Books, NEW r \in Renderers, unregister(r)
  PROVE  Books'
<1> DEFINE R == {r} \cap Known
<1>1. /\ toMain[r] # <<>> /\ toMain[r][1].what = "unregister" /\ toMain' = [toMain EXCEPT ![r] = Tail(@)]
      /\ teardown(R) /\ UNCHANGED <<wc, disposed>>
  BY DEF unregister, Reads, mainRest, pageVars
<1>2. R \in SUBSET Known OBVIOUS
<1>3. \A q \in Renderers : Shifts(toMain[q], toMain'[q]) BY <1>1, AllShift
<1>4. Waits(toMain'[r], calls) = {}
  <2>1. toMain'[r] = Tail(toMain[r]) BY <1>1, TailType DEF IInv, PagesOK
  <2>2. toMain[r] \in Seq(Request) /\ Ahead(toMain[r], calls) BY BookTypes DEF Books, OrderOK
  <2>3. toMain[r][1].what \in Moving BY <1>1 DEF Moving
  <2> QED BY <1>1, <2>1, <2>2, <2>3, TailShifts
<1>5. \A q \in R : Waits(toMain'[q], calls) = {} BY <1>4
<1> HIDE DEF R
<1> QED BY <1>1, <1>2, <1>3, <1>5, TornBooks DEF Alive

LEMMA onDestroyedBooks ==
  ASSUME IInv, IInv', Books, NEW r \in Renderers, onDestroyed(r)
  PROVE  Books'
<1> DEFINE R == {r} \cap Known
<1>1. wc' = [wc EXCEPT ![r] = "gone"] /\ teardown(R) /\ UNCHANGED <<toMain, disposed>> BY DEF onDestroyed
<1>2. R \in SUBSET Known OBVIOUS
<1>3. \A q \in Renderers : Shifts(toMain[q], toMain'[q]) BY <1>1, AllShift
<1>4. ~Alive(r)' /\ \A q \in Renderers : Alive(q)' => Alive(q) BY <1>1 DEF IInv, PagesOK, Alive
<1>5. \A q \in R : ~Alive(q)' BY <1>4
<1> HIDE DEF R
<1> QED BY <1>1, <1>2, <1>3, <1>4, <1>5, TornBooks

LEMMA broadcastBooks ==
  ASSUME IInv, IInv', Books, broadcast
  PROVE  Books'
<1>1. teardown(Stale) /\ UNCHANGED <<toMain, wc, disposed>> BY DEF broadcast, mainRest, pageVars
<1>2. Stale \in SUBSET Known /\ \A q \in Stale : ~Alive(q) BY DEF Stale
<1>3. \A q \in Renderers : Shifts(toMain[q], toMain'[q]) BY <1>1, AllShift
<1>4. \A q \in Stale : ~Alive(q)' BY <1>1, <1>2 DEF Alive
<1> QED BY <1>1, <1>2, <1>3, <1>4, TornBooks DEF Alive

LEMMA broadcastClosedBooks ==
  ASSUME IInv, IInv', Books, broadcastClosed
  PROVE  Books'
<1>1. /\ UNCHANGED <<toMain, wc, disposed>>
      /\ IF disposed THEN UNCHANGED <<senders, made, coverage, calls>> ELSE teardown(Stale)
  BY DEF broadcastClosed, pageVars, Nothing
<1>2. \A q \in Renderers : Shifts(toMain[q], toMain'[q]) BY <1>1, AllShift
<1>3. CASE disposed
  <2>1. SameBooks(calls, calls') BY <1>1, <1>3, SameCalls
  <2> QED BY <1>1, <1>2, <1>3, <2>1, QuietBooks DEF Alive
<1>4. CASE ~disposed
  <2>1. Stale \in SUBSET Known /\ \A q \in Stale : ~Alive(q) BY DEF Stale
  <2>2. \A q \in Stale : ~Alive(q)' BY <1>1, <2>1 DEF Alive
  <2> QED BY <1>1, <1>2, <1>4, <2>1, <2>2, TornBooks DEF Alive
<1> QED BY <1>3, <1>4

LEMMA disposeBooks ==
  ASSUME IInv, IInv', Books, dispose
  PROVE  Books'
<1>1. teardown(Known) /\ disposed' /\ UNCHANGED <<toMain, wc>> BY DEF dispose, pageVars
<1>2. \A q \in Renderers : Shifts(toMain[q], toMain'[q]) BY <1>1, AllShift
<1> QED BY <1>1, <1>2, TornBooks DEF Alive

LEMMA registerBooks ==
  ASSUME IInv, IInv', Books, NEW r \in Renderers, register(r)
  PROVE  Books'
<1>1. /\ toMain[r] # <<>> /\ toMain[r][1].what = "register" /\ toMain' = [toMain EXCEPT ![r] = Tail(@)]
      /\ UNCHANGED <<wc, disposed, coverage, calls>>
  BY DEF register, Reads, mainRest, pageVars, Nothing
<1>2. \A q \in Renderers : Shifts(toMain[q], toMain'[q]) BY <1>1, AllShift
<1>3. SameBooks(calls, calls') BY <1>1, SameCalls
<1>4. CASE ~Reachable(r)
  <2>1. UNCHANGED <<senders, made>> BY <1>4 DEF register, Nothing
  <2> QED BY <1>1, <1>2, <1>3, <2>1, QuietBooks DEF Alive
<1>5. CASE Reachable(r)
  <2>1. /\ made' = IF Knows(r) THEN made ELSE made + 1
        /\ senders' = [senders EXCEPT ![r] = [peer |-> Token(r), subscribed |-> TRUE]]
    BY <1>5 DEF register
  <2>2. senders'[r].peer = Token(r) /\ \A q \in Renderers : q # r => senders'[q] = senders[q]
    BY <2>1 DEF IInv, Registry
  <2>3. made \in Nat /\ made' >= made BY <2>1, BookTypes
  <2>4. Waits(toMain'[r], calls) = {}
    <3>1. toMain'[r] = Tail(toMain[r]) BY <1>1, TailType DEF IInv, PagesOK
    <3>2. toMain[r] \in Seq(Request) /\ Ahead(toMain[r], calls) BY BookTypes DEF Books, OrderOK
    <3>3. toMain[r][1].what \in Moving BY <1>1 DEF Moving
    <3> QED BY <1>1, <3>1, <3>2, <3>3, TailShifts
  <2>5. ASSUME NEW q \in Renderers, q # r PROVE SameToken(q) /\ NoLess(q)
    <3>1. Knows(q)' <=> Knows(q) BY <2>2, <2>5 DEF Knows
    <3>2. q \in Known' => q \in Known BY <3>1 DEF Known
    <3>3. NoLess(q) BY <1>1, <3>1 DEF NoLess, Alive
    <3> QED BY <2>2, <2>5, <3>2, <3>3 DEF SameToken
  <2>6. SameToken(r) \/ NewToken(r)
    <3>1. CASE Knows(r) BY <2>2, <3>1 DEF Token, SameToken, Known
    <3>2. CASE ~Knows(r)
      <4>1. senders'[r].peer = made + 1 BY <2>2, <3>2 DEF Token
      <4> QED BY <2>3, <4>1 DEF NewToken
    <3> QED BY <3>1, <3>2
  <2>7. \A q \in Renderers : SameToken(q) \/ NewToken(q) BY <2>5, <2>6
  <2>8. \A q \in Renderers : Waits(toMain'[q], calls) = {} \/ (SameToken(q) /\ NoLess(q)) BY <2>4, <2>5
  <2>9. \A p \in Peers : SameCover(p) BY <1>1 DEF SameCover
  <2>10. \A q \in Renderers : \A n \in Invoked(toMain'[q]) : calls'[n].outcome = calls[n].outcome BY <1>1
  <2> QED BY <1>2, <1>3, <2>3, <2>7, <2>8, <2>9, <2>10, BooksQuiet
<1> QED BY <1>4, <1>5

LEMMA BooksInit ==
  ASSUME Init
  PROVE  Books
<1>1. /\ calls = <<>> /\ Known = {} /\ \A r \in Renderers : toMain[r] = <<>>
      /\ \A p \in Peers : coverage[p] = [count |-> 0, held |-> FALSE, awaits |-> "nothing", steps |-> <<>>]
  BY DEF Init, Known, Knows
<1>2. TruthOK BY <1>1 DEF TruthOK
<1>3. OrderOK BY <1>1 DEF OrderOK, Sorted, Ahead, Invoked
<1>4. StepsOK BY <1>1 DEF StepsOK
<1>5. WaitOK BY <1>1 DEF WaitOK, Waits, Invoked
<1>6. EarnOK /\ BalanceOK BY <1>1 DEF EarnOK, BalanceOK, PeersOf
<1>7. FreshOK BY <1>1 DEF FreshOK
<1> QED BY <1>2, <1>3, <1>4, <1>5, <1>6, <1>7 DEF Books

LEMMA BooksKeep ==
  ASSUME IInv, Books, ~Eager, [Next]_vars
  PROVE  Books'
<1>1. IInv' BY StepKeeps
<1>2. FlowOK BY DEF IInv
<1>3. ASSUME NEW r \in Renderers,
             \/ createRendererBridge(r) \/ close(r) \/ onOutput(r) \/ onConnectionState(r) \/ onReply(r)
             \/ Destroy(r) \/ register(r) \/ unregister(r) \/ ack(r) \/ onDestroyed(r) \/ handle(r) \/ Unheard(r)
      PROVE  Books'
  BY <1>1, <1>3, createRendererBridgeBooks, closeBooks, onOutputBooks, onConnectionStateBooks, onReplyBooks,
     DestroyBooks, registerBooks, unregisterBooks, ackBooks, onDestroyedBooks, handleAllBooks, UnheardBooks
<1>4. ASSUME NEW r \in Renderers, NEW method \in {"enable", "disable"}, invoke(r, method) PROVE Books'
  BY <1>1, <1>4, invokeBooks
<1>5. ASSUME NEW i \in DOMAIN calls, withTimeout(i) PROVE Books' BY <1>1, <1>5, withTimeoutBooks
<1>6. broadcast \/ broadcastClosed \/ dispose \/ write => Books'
  BY <1>1, broadcastBooks, broadcastClosedBooks, disposeBooks, writeBooks
<1>7. ASSUME NEW p \in Peers, reconcile(p) \/ RelayAnswers(p) PROVE Books' BY <1>7, reconcileBooks, RelayAnswersBooks
<1>8. ASSUME UNCHANGED bridgeVars, tmux \/ Reply \/ ConnectionLost \/ Continuation PROVE Books'
  <2>1. disposed' = disposed
    BY <1>2, <1>8, OutputDoes, ExecuteDoes, ReplyDoes, LostDoes, JobDoes DEF tmux, Reply, ConnectionLost, Continuation
  <2> QED BY <1>1, <1>8, <2>1, FlowBooks
<1>9. UNCHANGED vars => Books'
  <2>1. UNCHANGED vars => UNCHANGED bridgeVars /\ disposed' = disposed BY DEF vars, bridgeVars, flowVars
  <2> QED BY <1>1, <2>1, FlowBooks
<1> QED BY <1>3, <1>4, <1>5, <1>6, <1>7, <1>8, <1>9 DEF Next

-----------------------------------------------------------------------------
(* What an open proxy shows                                                *)

(* Its registration is on its way, or done; then the newest state on its   *)
(* way is the client's, or else the one it shows.                          *)
LastOpens(s) == \E i \in DOMAIN s : s[i].what = "register" /\ \A k \in DOMAIN s : k > i => s[k].what # "unregister"
Newest(s, n) == \E i \in DOMAIN s : /\ s[i].what = "state" /\ s[i].n = n
                                    /\ \A k \in DOMAIN s : k > i => s[k].what # "state"
Unsaid(s) == \A i \in DOMAIN s : s[i].what # "state"
Shows(s, state, end) ==
  \/ Newest(s, IF end THEN 1 ELSE 0)
  \/ Unsaid(s) /\ state = IF end THEN "closed" ELSE "ready"
FaceOK(r) ==
  ~disposed /\ proxy[r].open =>
    \/ LastOpens(toMain[r])
    \/ r \in Subscribed /\ ~Goes(toMain[r]) /\ Shows(toPage[r], proxy[r].state, told)
Faces == (told => ~live) /\ \A r \in Renderers : FaceOK(r)

LEMMA NoticePlaces ==
  ASSUME NEW s \in Seq(Notice), NEW m \in Notice
  PROVE  /\ DOMAIN s \subseteq Nat
         /\ DOMAIN Append(s, m) = (DOMAIN s) \cup {Len(s) + 1} /\ Len(s) + 1 \in Nat
         /\ Append(s, m)[Len(s) + 1] = m
         /\ \A i \in DOMAIN s : Append(s, m)[i] = s[i] /\ i < Len(s) + 1
<1>1. Len(s) \in Nat /\ DOMAIN s = 1..Len(s) OBVIOUS
<1>2. \A i \in DOMAIN s : i \in Nat /\ i < Len(s) + 1 BY <1>1
<1> QED BY <1>1, <1>2, LongerBox

LEMMA NoticeRest ==
  ASSUME NEW s \in Seq(Notice), s # <<>>
  PROVE  /\ DOMAIN s \subseteq Nat /\ 1 \in DOMAIN s /\ DOMAIN Tail(s) \subseteq Nat
         /\ \A i \in DOMAIN s : i = 1 \/ (i > 1 /\ i - 1 \in DOMAIN Tail(s) /\ Tail(s)[i - 1] = s[i])
         /\ \A i \in DOMAIN Tail(s) : i + 1 \in DOMAIN s /\ i + 1 > 1 /\ Tail(s)[i] = s[i + 1]
<1>1. Len(s) \in Nat /\ DOMAIN s = 1..Len(s) /\ Len(s) # 0 BY EmptySeq
<1>2. DOMAIN Tail(s) = 1..(Len(s) - 1) BY <1>1
<1>3. \A i \in DOMAIN Tail(s) : i + 1 \in DOMAIN s /\ Tail(s)[i] = s[i + 1] BY RestOfQueue
<1>4. \A i \in DOMAIN s : i = 1 \/ (i > 1 /\ i - 1 \in DOMAIN Tail(s) /\ (i - 1) + 1 = i) BY <1>1, <1>2
<1> QED BY <1>1, <1>2, <1>3, <1>4

LEMMA OpensPost ==
  ASSUME NEW s \in Seq(Request), NEW m \in Request
  PROVE  /\ m.what = "register" => LastOpens(Append(s, m))
         /\ LastOpens(s) /\ m.what # "unregister" => LastOpens(Append(s, m))
<1> DEFINE t == Append(s, m)  l == Len(s) + 1
<1>1. /\ DOMAIN s \subseteq Nat /\ DOMAIN t = (DOMAIN s) \cup {l} /\ l \in Nat /\ t[l] = m
      /\ \A i \in DOMAIN s : t[i] = s[i] /\ i < l
  BY Places
<1> HIDE DEF t, l
<1>2. ASSUME m.what = "register" PROVE LastOpens(t)
  <2>1. \A k \in DOMAIN t : ~(k > l) BY <1>1
  <2> QED BY <1>1, <1>2, <2>1 DEF LastOpens
<1>3. ASSUME LastOpens(s), m.what # "unregister" PROVE LastOpens(t)
  <2>1. PICK i \in DOMAIN s : s[i].what = "register" /\ \A k \in DOMAIN s : k > i => s[k].what # "unregister"
    BY <1>3 DEF LastOpens
  <2>2. i \in DOMAIN t /\ t[i].what = "register" BY <1>1, <2>1
  <2>3. \A k \in DOMAIN t : k > i => t[k].what # "unregister" BY <1>1, <1>3, <2>1
  <2> QED BY <2>2, <2>3 DEF LastOpens
<1> QED BY <1>2, <1>3 DEF t

(* Once the last registration is read, nothing moves any more.             *)
LEMMA OpensRest ==
  ASSUME NEW s \in Seq(Request), s # <<>>, LastOpens(s)
  PROVE  /\ s[1].what # "register" => LastOpens(Tail(s))
         /\ Parted(s) => LastOpens(Tail(s)) \/ ~Goes(Tail(s))
<1> DEFINE t == Tail(s)
<1>1. /\ DOMAIN s \subseteq Nat /\ 1 \in DOMAIN s /\ DOMAIN t \subseteq Nat
      /\ \A i \in DOMAIN s : i = 1 \/ (i > 1 /\ i - 1 \in DOMAIN t /\ t[i - 1] = s[i])
      /\ \A i \in DOMAIN t : i + 1 \in DOMAIN s /\ i + 1 > 1 /\ t[i] = s[i + 1]
  BY RestPlaces
<1> HIDE DEF t
<1>2. PICK i \in DOMAIN s : s[i].what = "register" /\ \A k \in DOMAIN s : k > i => s[k].what # "unregister"
  BY DEF LastOpens
<1>3. i \in Nat BY <1>1
<1>4. ASSUME i # 1 PROVE LastOpens(t)
  <2>1. i - 1 \in DOMAIN t /\ t[i - 1].what = "register" BY <1>1, <1>2, <1>4
  <2>2. \A k \in DOMAIN t : k > i - 1 => k + 1 \in DOMAIN s /\ k + 1 > i /\ t[k] = s[k + 1] BY <1>1, <1>3
  <2>3. \A k \in DOMAIN t : k > i - 1 => t[k].what # "unregister" BY <1>2, <2>2
  <2> QED BY <2>1, <2>3 DEF LastOpens
<1>5. ASSUME i = 1, Parted(s) PROVE ~Goes(t)
  <2>1. SUFFICES ASSUME NEW j \in DOMAIN t, t[j].what \in {"register", "unregister"} PROVE FALSE BY DEF Goes
  <2>2. j + 1 \in DOMAIN s /\ j + 1 > 1 /\ s[j + 1].what \in {"register", "unregister"} BY <1>1, <2>1
  <2>3. s[j + 1].what = "register" BY <1>2, <1>5, <2>2
  <2>4. PICK k \in DOMAIN s : 1 < k /\ k < j + 1 /\ s[k].what = "unregister" BY <1>1, <1>2, <1>5, <2>2, <2>3 DEF Parted
  <2>5. k > 1 BY <1>1, <2>4
  <2> QED BY <1>2, <1>5, <2>4, <2>5
<1>6. s[1].what # "register" => i # 1 BY <1>2
<1> QED BY <1>4, <1>5, <1>6 DEF t

LEMMA ShowsPost ==
  ASSUME NEW s \in Seq(Notice), NEW m \in Notice, NEW state, NEW end \in BOOLEAN
  PROVE  /\ m.what # "state" /\ Shows(s, state, end) => Shows(Append(s, m), state, end)
         /\ m.what = "state" /\ m.n = (IF end THEN 1 ELSE 0) => Shows(Append(s, m), state, end)
<1> DEFINE t == Append(s, m)  l == Len(s) + 1  n == IF end THEN 1 ELSE 0
<1>1. /\ DOMAIN s \subseteq Nat /\ DOMAIN t = (DOMAIN s) \cup {l} /\ l \in Nat /\ t[l] = m
      /\ \A i \in DOMAIN s : t[i] = s[i] /\ i < l
  BY NoticePlaces
<1> HIDE DEF t, l, n
<1>2. ASSUME m.what = "state", m.n = n PROVE Newest(t, n)
  <2>1. \A k \in DOMAIN t : ~(k > l) BY <1>1
  <2> QED BY <1>1, <1>2, <2>1 DEF Newest
<1>3. ASSUME m.what # "state", Newest(s, n) PROVE Newest(t, n)
  <2>1. PICK i \in DOMAIN s : s[i].what = "state" /\ s[i].n = n /\ \A k \in DOMAIN s : k > i => s[k].what # "state"
    BY <1>3 DEF Newest
  <2>2. i \in DOMAIN t /\ t[i].what = "state" /\ t[i].n = n BY <1>1, <2>1
  <2>3. \A k \in DOMAIN t : k > i => t[k].what # "state" BY <1>1, <1>3, <2>1
  <2> QED BY <2>2, <2>3 DEF Newest
<1>4. m.what # "state" /\ Unsaid(s) => Unsaid(t) BY <1>1 DEF Unsaid
<1> QED BY <1>2, <1>3, <1>4 DEF Shows, t, n

(* What is read of the state is what the proxy shows from then on.         *)
LEMMA ShowsRest ==
  ASSUME NEW s \in Seq(Notice), s # <<>>, NEW state, NEW end \in BOOLEAN, Shows(s, state, end)
  PROVE  /\ s[1].what # "state" => Shows(Tail(s), state, end)
         /\ s[1].what = "state" => Shows(Tail(s), IF s[1].n = 0 THEN "ready" ELSE "closed", end)
<1> DEFINE t == Tail(s)  n == IF end THEN 1 ELSE 0
<1>1. /\ DOMAIN s \subseteq Nat /\ 1 \in DOMAIN s /\ DOMAIN t \subseteq Nat
      /\ \A i \in DOMAIN s : i = 1 \/ (i > 1 /\ i - 1 \in DOMAIN t /\ t[i - 1] = s[i])
      /\ \A i \in DOMAIN t : i + 1 \in DOMAIN s /\ i + 1 > 1 /\ t[i] = s[i + 1]
  BY NoticeRest
<1> HIDE DEF t
<1>2. Unsaid(s) => Unsaid(t) /\ s[1].what # "state" BY <1>1 DEF Unsaid
<1>3. ASSUME Newest(s, n) PROVE Newest(t, n) \/ (s[1].what = "state" /\ s[1].n = n /\ Unsaid(t))
  <2>1. PICK i \in DOMAIN s : s[i].what = "state" /\ s[i].n = n /\ \A k \in DOMAIN s : k > i => s[k].what # "state"
    BY <1>3 DEF Newest
  <2>2. i \in Nat BY <1>1
  <2>3. \A k \in DOMAIN t : k + 1 > i => t[k].what # "state" BY <1>1, <2>1
  <2>4. CASE i = 1
    <3>1. \A k \in DOMAIN t : k + 1 > i BY <1>1, <2>4
    <3> QED BY <2>1, <2>3, <2>4, <3>1 DEF Unsaid
  <2>5. CASE i # 1
    <3>1. i - 1 \in DOMAIN t /\ t[i - 1] = s[i] BY <1>1, <2>5
    <3>2. \A k \in DOMAIN t : k > i - 1 => k + 1 > i BY <1>1, <2>2
    <3> QED BY <2>1, <2>3, <3>1, <3>2 DEF Newest
  <2> QED BY <2>4, <2>5
<1>4. n = 0 <=> ~end OBVIOUS
<1> QED BY <1>2, <1>3, <1>4 DEF Shows, t, n

(* A step that moves no page and tells none.                               *)
MainStays(s, t) ==
  \/ t = s
  \/ \E m \in Request : m.what \in {"ack", "invoke"} /\ t = Append(s, m)
  \/ s # <<>> /\ s[1].what \in {"ack", "invoke"} /\ t = Tail(s)
PageStays(s, t) ==
  \/ t = s
  \/ \E m \in Notice : m.what # "state" /\ t = Append(s, m)
  \/ s # <<>> /\ s[1].what # "state" /\ t = Tail(s)

LEMMA MainStaysDoes ==
  ASSUME NEW s \in Seq(Request), NEW t, MainStays(s, t)
  PROVE  (LastOpens(s) => LastOpens(t)) /\ (Goes(t) <=> Goes(s))
<1>1. CASE t = s BY <1>1
<1>2. ASSUME NEW m \in Request, m.what \in {"ack", "invoke"}, t = Append(s, m)
      PROVE  (LastOpens(s) => LastOpens(t)) /\ (Goes(t) <=> Goes(s))
  <2>1. m.what # "register" /\ m.what # "unregister" BY <1>2
  <2> QED BY <1>2, <2>1, OpensPost, GoesPost
<1>3. CASE s # <<>> /\ s[1].what \in {"ack", "invoke"} /\ t = Tail(s)
  <2>1. s[1].what # "register" /\ s[1].what # "unregister" BY <1>3
  <2> QED BY <1>3, <2>1, OpensRest, GoesRest
<1> QED BY <1>1, <1>2, <1>3 DEF MainStays

LEMMA PageStaysDoes ==
  ASSUME NEW s \in Seq(Notice), NEW t, PageStays(s, t), NEW state, NEW end \in BOOLEAN, Shows(s, state, end)
  PROVE  Shows(t, state, end)
BY ShowsPost, ShowsRest DEF PageStays

LEMMA FaceStays ==
  ASSUME IInv, NEW r \in Renderers, FaceOK(r), disposed' = disposed, told' = told,
         proxy'[r].open => proxy[r].open /\ proxy'[r].state = proxy[r].state,
         r \in Subscribed => r \in Subscribed' \/ ~proxy'[r].open,
         MainStays(toMain[r], toMain'[r]), PageStays(toPage[r], toPage'[r])
  PROVE  FaceOK(r)'
<1>1. /\ toMain[r] \in Seq(Request) /\ toPage[r] \in Seq(Notice) /\ told \in BOOLEAN
  BY BookTypes DEF IInv, PagesOK
<1>2. (LastOpens(toMain[r]) => LastOpens(toMain'[r])) /\ (Goes(toMain'[r]) <=> Goes(toMain[r]))
  BY <1>1, MainStaysDoes
<1>3. Shows(toPage[r], proxy[r].state, told) => Shows(toPage'[r], proxy[r].state, told)
  BY <1>1, PageStaysDoes
<1> QED BY <1>2, <1>3 DEF FaceOK

LEMMA FacesStay ==
  ASSUME IInv, Faces, told' = told, disposed' = disposed, live' => live,
         \A r \in Renderers : proxy'[r].open => proxy[r].open /\ proxy'[r].state = proxy[r].state,
         \A r \in Renderers : r \in Subscribed => r \in Subscribed' \/ ~proxy'[r].open,
         \A r \in Renderers : MainStays(toMain[r], toMain'[r]),
         \A r \in Renderers : PageStays(toPage[r], toPage'[r])
  PROVE  Faces'
<1>1. \A r \in Renderers : FaceOK(r)' BY FaceStays DEF Faces
<1> QED BY <1>1 DEF Faces

(* The boxes of one page.                                                  *)
LEMMA BoxStays ==
  ASSUME IInv, NEW r \in Renderers
  PROVE  /\ toMain' = toMain => \A q \in Renderers : MainStays(toMain[q], toMain'[q])
         /\ toPage' = toPage => \A q \in Renderers : PageStays(toPage[q], toPage'[q])
         /\ toPage' = [toPage EXCEPT ![r] = <<>>] => \A q \in Renderers : q # r => PageStays(toPage[q], toPage'[q])
         /\ \A m \in Request : toMain' = Post(toMain, r, m) =>
              /\ toMain'[r] = Append(toMain[r], m)
              /\ \A q \in Renderers : q # r => MainStays(toMain[q], toMain'[q])
              /\ m.what \in {"ack", "invoke"} => MainStays(toMain[r], toMain'[r])
         /\ toMain[r] # <<>> /\ toMain' = [toMain EXCEPT ![r] = Tail(@)] =>
              /\ toMain'[r] = Tail(toMain[r])
              /\ \A q \in Renderers : q # r => MainStays(toMain[q], toMain'[q])
              /\ toMain[r][1].what \in {"ack", "invoke"} => MainStays(toMain[r], toMain'[r])
         /\ \A what : Takes(r, what) =>
              /\ toPage[r] # <<>> /\ toPage[r][1].what = what /\ toPage'[r] = Tail(toPage[r])
              /\ \A q \in Renderers : q # r => PageStays(toPage[q], toPage'[q])
              /\ what # "state" => PageStays(toPage[r], toPage'[r])
<1>1. toMain \in [Renderers -> Seq(Request)] /\ toPage \in [Renderers -> Seq(Notice)] BY DEF IInv, PagesOK
<1>2. ASSUME NEW m \in Request, toMain' = Post(toMain, r, m)
      PROVE  /\ toMain'[r] = Append(toMain[r], m)
             /\ \A q \in Renderers : q # r => MainStays(toMain[q], toMain'[q])
             /\ m.what \in {"ack", "invoke"} => MainStays(toMain[r], toMain'[r])
  <2>1. toMain'[r] = Append(toMain[r], m) /\ \A q \in Renderers : q # r => toMain'[q] = toMain[q]
    BY <1>2, PostType DEF IInv
  <2> QED BY <2>1 DEF MainStays
<1>3. ASSUME toMain[r] # <<>>, toMain' = [toMain EXCEPT ![r] = Tail(@)]
      PROVE  /\ toMain'[r] = Tail(toMain[r])
             /\ \A q \in Renderers : q # r => MainStays(toMain[q], toMain'[q])
             /\ toMain[r][1].what \in {"ack", "invoke"} => MainStays(toMain[r], toMain'[r])
  <2>1. toMain'[r] = Tail(toMain[r]) /\ \A q \in Renderers : q # r => toMain'[q] = toMain[q]
    BY <1>1, <1>3, TailType
  <2> QED BY <1>3, <2>1 DEF MainStays
<1>4. ASSUME NEW what, Takes(r, what)
      PROVE  /\ toPage[r] # <<>> /\ toPage[r][1].what = what /\ toPage'[r] = Tail(toPage[r])
             /\ \A q \in Renderers : q # r => PageStays(toPage[q], toPage'[q])
             /\ what # "state" => PageStays(toPage[r], toPage'[r])
  <2>1. /\ toPage[r] # <<>> /\ toPage[r][1].what = what /\ toPage'[r] = Tail(toPage[r])
        /\ \A q \in Renderers : q # r => toPage'[q] = toPage[q]
    BY <1>4, TakesOne
  <2> QED BY <2>1 DEF PageStays
<1>5. toMain' = toMain => \A q \in Renderers : MainStays(toMain[q], toMain'[q]) BY DEF MainStays
<1>6. toPage' = toPage => \A q \in Renderers : PageStays(toPage[q], toPage'[q]) BY DEF PageStays
<1>7. toPage' = [toPage EXCEPT ![r] = <<>>] => \A q \in Renderers : q # r => PageStays(toPage[q], toPage'[q])
  BY <1>1 DEF PageStays
<1> QED BY <1>2, <1>3, <1>4, <1>5, <1>6, <1>7

LEMMA GiveStays ==
  ASSUME IInv, NEW R, NEW m \in Notice, m.what # "state", toPage' = Give(toPage, R, m)
  PROVE  \A q \in Renderers : PageStays(toPage[q], toPage'[q])
<1>1. toPage \in [Renderers -> Seq(Notice)] BY DEF IInv, PagesOK
<1>2. \A q \in Renderers : toPage'[q] = IF q \in R /\ Alive(q) THEN Append(toPage[q], m) ELSE toPage[q]
  <2> HIDE DEF Notice
  <2> QED BY <1>1, GiveType
<1> QED BY <1>2 DEF PageStays

-----------------------------------------------------------------------------
(* One step, for the faces *)

LEMMA createRendererBridgeFaces ==
  ASSUME IInv, Faces, ~Reloads, NEW r \in Renderers, createRendererBridge(r)
  PROVE  Faces'
<1> DEFINE m == Message("register", 0)
<1>1. /\ toMain' = Post(toMain, r, m) /\ toPage' = toPage /\ ~proxy[r].open
      /\ proxy' = [proxy EXCEPT ![r] = [open |-> TRUE, state |-> "connecting", pending |-> 0]]
      /\ UNCHANGED <<senders, disposed, told, live>>
  BY DEF createRendererBridge, flowVars, mainVars
<1>2. m \in Request /\ m.what = "register" BY DEF Message, Request
<1> HIDE DEF m
<1>3. /\ toMain'[r] = Append(toMain[r], m) /\ \A q \in Renderers : q # r => MainStays(toMain[q], toMain'[q])
      /\ \A q \in Renderers : PageStays(toPage[q], toPage'[q])
  BY <1>1, <1>2, BoxStays
<1>4. Subscribed' = Subscribed BY <1>1 DEF Subscribed
<1>5. ASSUME NEW q \in Renderers, q # r PROVE FaceOK(q)'
  <2>1. proxy'[q] = proxy[q] BY <1>1, <1>5 DEF IInv, PagesOK
  <2> QED BY <1>1, <1>3, <1>4, <1>5, <2>1, FaceStays DEF Faces
<1>6. FaceOK(r)'
  <2>1. toMain[r] \in Seq(Request) BY BookTypes
  <2> QED BY <1>2, <1>3, <2>1, OpensPost DEF FaceOK
<1> QED BY <1>1, <1>5, <1>6 DEF Faces

LEMMA closeFaces ==
  ASSUME IInv, Faces, NEW r \in Renderers, close(r)
  PROVE  Faces'
<1> DEFINE m == Message("unregister", 0)
<1>1. /\ toMain' = Post(toMain, r, m) /\ toPage' = toPage
      /\ proxy' = [proxy EXCEPT ![r] = [open |-> FALSE, state |-> "closed", pending |-> 0]]
      /\ UNCHANGED <<senders, disposed, told, live>>
  BY DEF close, flowVars, mainVars
<1>2. m \in Request BY DEF Message, Request
<1> HIDE DEF m
<1>3. /\ \A q \in Renderers : q # r => MainStays(toMain[q], toMain'[q])
      /\ \A q \in Renderers : PageStays(toPage[q], toPage'[q])
  BY <1>1, <1>2, BoxStays
<1>4. Subscribed' = Subscribed BY <1>1 DEF Subscribed
<1>5. ASSUME NEW q \in Renderers, q # r PROVE FaceOK(q)'
  <2>1. proxy'[q] = proxy[q] BY <1>1, <1>5 DEF IInv, PagesOK
  <2> QED BY <1>1, <1>3, <1>4, <1>5, <2>1, FaceStays DEF Faces
<1>6. FaceOK(r)'
  <2>1. ~proxy'[r].open BY <1>1 DEF IInv, PagesOK
  <2> QED BY <2>1 DEF FaceOK
<1> QED BY <1>1, <1>5, <1>6 DEF Faces

LEMMA DestroyFaces ==
  ASSUME IInv, Faces, NEW r \in Renderers, Destroy(r)
  PROVE  Faces'
<1>1. /\ toMain' = toMain /\ toPage' = [toPage EXCEPT ![r] = <<>>]
      /\ proxy' = [proxy EXCEPT ![r] = [open |-> FALSE, state |-> "closed", pending |-> 0]]
      /\ UNCHANGED <<senders, disposed, told, live>>
  BY DEF Destroy, flowVars, mainVars
<1>2. /\ \A q \in Renderers : MainStays(toMain[q], toMain'[q])
      /\ \A q \in Renderers : q # r => PageStays(toPage[q], toPage'[q])
  BY <1>1, BoxStays
<1>3. Subscribed' = Subscribed BY <1>1 DEF Subscribed
<1>4. ASSUME NEW q \in Renderers, q # r PROVE FaceOK(q)'
  <2>1. proxy'[q] = proxy[q] BY <1>1, <1>4 DEF IInv, PagesOK
  <2> QED BY <1>1, <1>2, <1>3, <1>4, <2>1, FaceStays DEF Faces
<1>5. FaceOK(r)'
  <2>1. ~proxy'[r].open BY <1>1 DEF IInv, PagesOK
  <2> QED BY <2>1 DEF FaceOK
<1> QED BY <1>1, <1>4, <1>5 DEF Faces

LEMMA invokeFaces ==
  ASSUME IInv, Faces, NEW r \in Renderers, NEW method, invoke(r, method)
  PROVE  Faces'
<1> DEFINE m == Message("invoke", Len(calls) + 1)
<1>1. /\ toMain' = Post(toMain, r, m) /\ UNCHANGED <<toPage, proxy, senders, disposed, told, live>>
  BY DEF invoke, flowVars, mainVars, pageVars
<1>2. m \in Request /\ m.what = "invoke"
  <2>1. Len(calls) + 1 \in Nat BY BookTypes
  <2> QED BY <2>1 DEF Message, Request
<1> HIDE DEF m
<1>3. /\ \A q \in Renderers : MainStays(toMain[q], toMain'[q])
      /\ \A q \in Renderers : PageStays(toPage[q], toPage'[q])
  BY <1>1, <1>2, BoxStays
<1>4. Subscribed' = Subscribed BY <1>1 DEF Subscribed
<1> QED BY <1>1, <1>3, <1>4, FacesStay

LEMMA withTimeoutFaces ==
  ASSUME IInv, Faces, NEW i, withTimeout(i)
  PROVE  Faces'
<1>1. UNCHANGED <<toMain, toPage, proxy, senders, disposed, told, live>>
  BY DEF withTimeout, flowVars, mainVars, pageVars
<1>2. Subscribed' = Subscribed BY <1>1 DEF Subscribed
<1> QED BY <1>1, <1>2, FacesStay DEF MainStays, PageStays

LEMMA onOutputFaces ==
  ASSUME IInv, Faces, NEW r \in Renderers, onOutput(r)
  PROVE  Faces'
<1> DEFINE next == account(proxy[r].pending)  m == Message("ack", next.bytes)
<1>1. Takes(r, "output") /\ UNCHANGED <<senders, disposed, told, live>> BY DEF onOutput, flowVars, mainVars
<1>2. toMain' = toMain \/ toMain' = Post(toMain, r, m) BY DEF onOutput
<1>3. m \in Request /\ m.what = "ack"
  <2>1. proxy[r].pending \in 0..(Batch - 1) BY PageTypes DEF IInv
  <2>2. next.bytes \in Nat BY <2>1, AccountSplits
  <2> QED BY <2>2 DEF Message, Request
<1> HIDE DEF m
<1>4. \A q \in Renderers : MainStays(toMain[q], toMain'[q]) BY <1>2, <1>3, BoxStays
<1>5. \A q \in Renderers : PageStays(toPage[q], toPage'[q])
  <2>1. "output" # "state" OBVIOUS
  <2> QED BY <1>1, <2>1, BoxStays
<1>6. \A q \in Renderers : proxy'[q].open = proxy[q].open /\ proxy'[q].state = proxy[q].state
  <2>1. proxy \in [Renderers -> [open : BOOLEAN, state : {"none", "connecting", "ready", "closed"}, pending : 0..(Batch - 1)]]
    BY DEF IInv, PagesOK
  <2> QED BY <2>1 DEF onOutput
<1>7. Subscribed' = Subscribed BY <1>1 DEF Subscribed
<1> QED BY <1>1, <1>4, <1>5, <1>6, <1>7, FacesStay

LEMMA onReplyFaces ==
  ASSUME IInv, Faces, NEW r \in Renderers, onReply(r)
  PROVE  Faces'
<1>1. Takes(r, "reply") /\ UNCHANGED <<toMain, proxy, senders, disposed, told, live>>
  BY DEF onReply, flowVars, mainVars, pageVars
<1>2. \A q \in Renderers : PageStays(toPage[q], toPage'[q])
  <2>1. "reply" # "state" OBVIOUS
  <2> QED BY <1>1, <2>1, BoxStays
<1>3. Subscribed' = Subscribed BY <1>1 DEF Subscribed
<1> QED BY <1>1, <1>2, <1>3, FacesStay DEF MainStays

LEMMA onConnectionStateFaces ==
  ASSUME IInv, Faces, NEW r \in Renderers, onConnectionState(r)
  PROVE  Faces'
<1>1. Takes(r, "state") /\ UNCHANGED <<toMain, senders, disposed, told, live>>
  BY DEF onConnectionState, flowVars, mainVars
<1>2. /\ toPage[r] # <<>> /\ toPage[r][1].what = "state" /\ toPage'[r] = Tail(toPage[r])
      /\ \A q \in Renderers : q # r => PageStays(toPage[q], toPage'[q])
  BY <1>1, BoxStays
<1>3. \A q \in Renderers : MainStays(toMain[q], toMain'[q]) BY <1>1 DEF MainStays
<1>4. Subscribed' = Subscribed BY <1>1 DEF Subscribed
<1>5. /\ \A q \in Renderers : q # r => proxy'[q] = proxy[q]
      /\ proxy'[r].open = proxy[r].open
      /\ proxy[r].open => proxy'[r].state = IF toPage[r][1].n = 0 THEN "ready" ELSE "closed"
  <2>1. proxy \in [Renderers -> [open : BOOLEAN, state : {"none", "connecting", "ready", "closed"}, pending : 0..(Batch - 1)]]
    BY DEF IInv, PagesOK
  <2> QED BY <2>1 DEF onConnectionState
<1>6. ASSUME NEW q \in Renderers, q # r PROVE FaceOK(q)'
  BY <1>1, <1>2, <1>3, <1>4, <1>5, <1>6, FaceStays DEF Faces
<1>7. FaceOK(r)'
  <2>1. toPage[r] \in Seq(Notice) /\ told \in BOOLEAN BY BookTypes DEF IInv, PagesOK
  <2>2. Shows(toPage[r], proxy[r].state, told) =>
          Shows(toPage'[r], IF toPage[r][1].n = 0 THEN "ready" ELSE "closed", told)
    BY <1>2, <2>1, ShowsRest
  <2>3. FaceOK(r) BY DEF Faces
  <2> QED BY <1>1, <1>4, <1>5, <2>2, <2>3 DEF FaceOK
<1> QED BY <1>1, <1>6, <1>7 DEF Faces

LEMMA DisposedFaces ==
  ASSUME Faces, disposed', told' = told, live' => live
  PROVE  Faces'
BY DEF Faces, FaceOK

LEMMA LeftSubscribed ==
  ASSUME NEW R, teardown(R)
  PROVE  \A q \in Renderers : q \in Subscribed /\ q \notin R => q \in Subscribed'
BY Zenon DEF teardown, Subscribed

(* An open proxy's page lives.                                             *)
LEMMA OpenLives ==
  ASSUME Windows, NEW r \in Renderers, proxy[r].open
  PROVE  Alive(r)
BY DEF Windows, WindowOK, Turns

LEMMA registerFaces ==
  ASSUME IInv, Windows, Faces, NEW r \in Renderers, register(r)
  PROVE  Faces'
<1> DEFINE m == Message("state", IF live THEN 0 ELSE 1)
<1>1. /\ toMain[r] # <<>> /\ toMain[r][1].what = "register" /\ toMain' = [toMain EXCEPT ![r] = Tail(@)]
      /\ Turn /\ UNCHANGED <<proxy, disposed, told, live, wc>>
  BY DEF register, Reads, mainRest, pageVars
<1>2. toMain'[r] = Tail(toMain[r]) /\ \A q \in Renderers : q # r => MainStays(toMain[q], toMain'[q])
  BY <1>1, BoxStays
<1>3. CASE Reachable(r)
  <2>1. /\ senders' = [senders EXCEPT ![r] = [peer |-> Token(r), subscribed |-> TRUE]]
        /\ toPage' = Give(toPage, {r}, m)
    BY <1>3 DEF register
  <2>2. m \in Notice /\ m.what = "state" BY DEF Message, Notice
  <2>3. m.n = IF told THEN 1 ELSE 0
    <3>1. told = ~live
      <4>1. told \in BOOLEAN /\ live \in BOOLEAN BY Plain DEF IInv, PagesOK
      <4> QED BY <1>1, <4>1 DEF Faces, Turn
    <3> QED BY <3>1 DEF Message
  <2> HIDE DEF m
  <2>4. \A q \in Renderers : toPage'[q] = IF q \in {r} /\ Alive(q) THEN Append(toPage[q], m) ELSE toPage[q]
    <3>1. toPage \in [Renderers -> Seq(Notice)] BY DEF IInv, PagesOK
    <3> HIDE DEF Notice
    <3> QED BY <2>1, <2>2, <3>1, GiveType
  <2>5. r \in Subscribed' /\ \A q \in Renderers : q # r => (q \in Subscribed' <=> q \in Subscribed)
    <3>1. senders'[r].subscribed /\ \A q \in Renderers : q # r => senders'[q] = senders[q]
      BY <2>1 DEF IInv, Registry
    <3> QED BY <3>1 DEF Subscribed
  <2>6. ASSUME NEW q \in Renderers, q # r PROVE FaceOK(q)'
    <3>1. PageStays(toPage[q], toPage'[q]) BY <2>4, <2>6 DEF PageStays
    <3> QED BY <1>1, <1>2, <2>5, <2>6, <3>1, FaceStays DEF Faces
  <2>7. ASSUME proxy[r].open, ~disposed PROVE FaceOK(r)'
    <3>1. toMain[r] \in Seq(Request) /\ toPage[r] \in Seq(Notice) /\ told \in BOOLEAN
      BY BookTypes DEF IInv, PagesOK
    <3>2. FaceOK(r) /\ Parted(toMain[r]) BY DEF Faces, Windows, WindowOK, Turns
    <3>3. Goes(toMain[r]) BY <1>1, <3>1, GoesRest
    <3>4. LastOpens(toMain[r]) BY <2>7, <3>2, <3>3 DEF FaceOK
    <3>5. LastOpens(toMain'[r]) \/ ~Goes(toMain'[r]) BY <1>1, <1>2, <3>1, <3>2, <3>4, OpensRest
    <3>6. Shows(toPage'[r], proxy[r].state, told)
      <4>1. toPage'[r] = Append(toPage[r], m) BY <2>4, <2>7, OpenLives
      <4> QED BY <2>2, <2>3, <3>1, <4>1, ShowsPost
    <3> QED BY <1>1, <2>5, <3>5, <3>6 DEF FaceOK
  <2>8. FaceOK(r)' BY <1>1, <2>7 DEF FaceOK
  <2> QED BY <1>1, <2>6, <2>8 DEF Faces
<1>4. CASE ~Reachable(r)
  <2>1. UNCHANGED <<senders, toPage>> BY <1>4 DEF register, Nothing
  <2>2. Subscribed' = Subscribed BY <2>1 DEF Subscribed
  <2>3. ASSUME NEW q \in Renderers, q # r PROVE FaceOK(q)'
    BY <1>1, <1>2, <2>1, <2>2, <2>3, FaceStays DEF Faces, PageStays
  <2>4. ~proxy[r].open BY <1>4, OpenLives DEF Reachable
  <2>5. FaceOK(r)' BY <1>1, <2>4 DEF FaceOK
  <2> QED BY <1>1, <2>3, <2>5 DEF Faces
<1> QED BY <1>3, <1>4

LEMMA unregisterFaces ==
  ASSUME IInv, Faces, NEW r \in Renderers, unregister(r)
  PROVE  Faces'
<1> DEFINE R == {r} \cap Known
<1>1. /\ toMain[r] # <<>> /\ toMain[r][1].what = "unregister" /\ toMain' = [toMain EXCEPT ![r] = Tail(@)]
      /\ teardown(R) /\ UNCHANGED <<proxy, disposed, told, live, toPage>>
  BY DEF unregister, Reads, mainRest, pageVars
<1>2. toMain'[r] = Tail(toMain[r]) /\ \A q \in Renderers : q # r => MainStays(toMain[q], toMain'[q])
  BY <1>1, BoxStays
<1>3. \A q \in Renderers : PageStays(toPage[q], toPage'[q]) BY <1>1 DEF PageStays
<1>4. \A q \in Renderers : q \in Subscribed /\ q # r => q \in Subscribed'
  <2>1. \A q \in Renderers : q # r => q \notin R OBVIOUS
  <2> HIDE DEF R
  <2> QED BY <1>1, <2>1, LeftSubscribed
<1>5. ASSUME NEW q \in Renderers, q # r PROVE FaceOK(q)'
  BY <1>1, <1>2, <1>3, <1>4, <1>5, FaceStays DEF Faces
<1>6. FaceOK(r)'
  <2>1. toMain[r] \in Seq(Request) BY BookTypes
  <2>2. Goes(toMain[r]) BY <1>1, <2>1, GoesRest
  <2>3. LastOpens(toMain[r]) => LastOpens(toMain'[r]) BY <1>1, <1>2, <2>1, OpensRest
  <2>4. FaceOK(r) BY DEF Faces
  <2> QED BY <1>1, <2>2, <2>3, <2>4 DEF FaceOK
<1> QED BY <1>1, <1>5, <1>6 DEF Faces

LEMMA ackFaces ==
  ASSUME IInv, Faces, NEW r \in Renderers, ack(r)
  PROVE  Faces'
<1>1. /\ toMain[r] # <<>> /\ toMain[r][1].what = "ack" /\ toMain' = [toMain EXCEPT ![r] = Tail(@)]
      /\ UNCHANGED <<proxy, senders, disposed, told, live, toPage>>
  BY DEF ack, Reads, mainRest, pageVars
<1>2. \A q \in Renderers : MainStays(toMain[q], toMain'[q]) BY <1>1, BoxStays
<1>3. Subscribed' = Subscribed BY <1>1 DEF Subscribed
<1> QED BY <1>1, <1>2, <1>3, FacesStay DEF PageStays

LEMMA handleFaces ==
  ASSUME IInv, Faces, NEW r \in Renderers, handle(r)
  PROVE  Faces'
<1>1. /\ toMain[r] # <<>> /\ toMain[r][1].what = "invoke" /\ toMain' = [toMain EXCEPT ![r] = Tail(@)]
      /\ UNCHANGED <<proxy, disposed, told, live, toPage>>
  BY DEF handle, Reads, mainRest, pageVars
<1>2. \A q \in Renderers : MainStays(toMain[q], toMain'[q]) BY <1>1, BoxStays
<1>3. Subscribed' = Subscribed
  <2>1. senders' = senders \/ senders' = [senders EXCEPT ![r].peer = Token(r)] BY DEF handle
  <2>2. \A q \in Renderers : senders'[q].subscribed = senders[q].subscribed BY <2>1 DEF IInv, Registry
  <2> QED BY <2>2 DEF Subscribed
<1> QED BY <1>1, <1>2, <1>3, FacesStay DEF PageStays

LEMMA onDestroyedFaces ==
  ASSUME IInv, Windows, Faces, NEW r \in Renderers, onDestroyed(r)
  PROVE  Faces'
<1> DEFINE R == {r} \cap Known
<1>1. wc[r] = "destroyed" /\ teardown(R) /\ UNCHANGED <<toMain, toPage, proxy, disposed, told, live>>
  BY DEF onDestroyed
<1>2. ~proxy[r].open BY <1>1, OpenLives DEF Alive
<1>3. \A q \in Renderers : q \in Subscribed => q \in Subscribed' \/ ~proxy'[q].open
  <2>1. \A q \in R : ~proxy'[q].open BY <1>1, <1>2
  <2> HIDE DEF R
  <2> QED BY <1>1, <2>1, LeftSubscribed
<1> QED BY <1>1, <1>3, FacesStay DEF MainStays, PageStays

LEMMA StaleShut ==
  ASSUME Windows, proxy' = proxy, teardown(Stale)
  PROVE  \A q \in Renderers : q \in Subscribed => q \in Subscribed' \/ ~proxy'[q].open
<1>1. \A q \in Stale : ~proxy'[q].open
  <2>1. \A q \in Stale : q \in Renderers /\ ~Alive(q) BY DEF Stale, Known
  <2> QED BY <2>1, OpenLives
<1> QED BY <1>1, LeftSubscribed

LEMMA broadcastFaces ==
  ASSUME IInv, Windows, Faces, broadcast
  PROVE  Faces'
<1>1. teardown(Stale) /\ UNCHANGED <<toMain, toPage, proxy, disposed, told, live>>
  BY DEF broadcast, mainRest, pageVars
<1>2. \A q \in Renderers : q \in Subscribed => q \in Subscribed' \/ ~proxy'[q].open BY <1>1, StaleShut
<1> QED BY <1>1, <1>2, FacesStay DEF MainStays, PageStays

(* Every window that is subscribed is told of the end.                     *)
LEMMA broadcastClosedFaces ==
  ASSUME IInv, Windows, Faces, broadcastClosed
  PROVE  Faces'
<1> DEFINE m == Message("state", 1)
<1>1. told' /\ ~live /\ UNCHANGED <<toMain, proxy, disposed, live>> BY DEF broadcastClosed, pageVars
<1>2. ASSUME NEW r \in Renderers, ~disposed, proxy[r].open PROVE FaceOK(r)'
  <2>1. teardown(Stale) /\ toPage' = Give(toPage, Subscribed, m) BY <1>2 DEF broadcastClosed
  <2>2. m \in Notice /\ m.what = "state" /\ m.n = 1 BY DEF Message, Notice
  <2> HIDE DEF m
  <2>3. CASE LastOpens(toMain[r]) BY <1>1, <2>3 DEF FaceOK
  <2>4. CASE r \in Subscribed /\ ~Goes(toMain[r])
    <3>1. r \in Subscribed' BY <1>1, <1>2, <2>1, <2>4, StaleShut
    <3>2. toPage'[r] = Append(toPage[r], m)
      <4>1. toPage \in [Renderers -> Seq(Notice)] BY DEF IInv, PagesOK
      <4>2. Alive(r) BY <1>2, OpenLives
      <4>3. \A q \in Renderers : toPage'[q] = IF q \in Subscribed /\ Alive(q) THEN Append(toPage[q], m) ELSE toPage[q]
        <5> HIDE DEF Notice
        <5> QED BY <2>1, <2>2, <4>1, GiveType
      <4> QED BY <2>4, <4>2, <4>3
    <3>3. toPage[r] \in Seq(Notice) BY BookTypes
    <3>4. Shows(toPage'[r], proxy[r].state, TRUE)
      <4>1. m.n = IF TRUE THEN 1 ELSE 0 BY <2>2
      <4> QED BY <2>2, <3>2, <3>3, <4>1, ShowsPost
    <3>5. told' = TRUE BY DEF broadcastClosed
    <3> QED BY <1>1, <2>4, <3>1, <3>4, <3>5 DEF FaceOK
  <2> QED BY <1>2, <2>3, <2>4 DEF Faces, FaceOK
<1>3. \A r \in Renderers : FaceOK(r)' BY Zenon, <1>1, <1>2 DEF FaceOK
<1> QED BY <1>1, <1>3 DEF Faces

(* The relay's answer, or that no answer is needed, ends the first step of *)
(* a peer; the page of its call is told.                                   *)
FirstOver(p) ==
  LET i == coverage[p].steps[1].call IN
  /\ coverage'[p].steps = Tail(coverage[p].steps)
  /\ i \in Nat
  /\ IF i = 0 THEN calls' = calls /\ toPage' = toPage
     ELSE /\ i \in DOMAIN calls
          /\ \E x \in {"ok", "error", "aborted"} : calls' = [calls EXCEPT ![i].outcome = x]
          /\ toPage' = Give(toPage, {calls[i].page}, Message("reply", i))

LEMMA DoneOver ==
  ASSUME IInv, NEW p \in Peers, NEW c \in Cover, c.steps = coverage[p].steps, c.steps # <<>>,
         NEW outcome \in {"ok", "error"}, Done(p, c, outcome)
  PROVE  FirstOver(p) /\ \A q \in Peers : q # p => coverage'[q] = coverage[q]
<1> DEFINE d == [c EXCEPT !.awaits = "nothing", !.steps = Tail(@)]  i == c.steps[1].call
           x == IF calls[i].aborted THEN "aborted" ELSE outcome
<1>1. /\ coverage' = [coverage EXCEPT ![p] = d]
      /\ IF i = 0 THEN calls' = calls /\ toPage' = toPage
         ELSE /\ calls' = [calls EXCEPT ![i].outcome = x]
              /\ toPage' = Give(toPage, {calls[i].page}, Message("reply", i))
  BY DEF Done
<1>2. d.steps = Tail(c.steps) BY DEF Cover
<1>3. 1 \in DOMAIN coverage[p].steps
  <2>1. coverage[p].steps \in Seq(Step) BY BookTypes
  <2> HIDE DEF Step
  <2> QED BY <2>1, RestOfQueue
<1>4. i \in Nat /\ (i # 0 => i \in DOMAIN calls)
  <2>1. i \in 0..Len(calls) /\ Len(calls) \in Nat /\ (i # 0 => i \in DOMAIN calls) BY <1>3, BookTypes
  <2> QED BY <2>1
<1>5. x \in {"ok", "error", "aborted"} OBVIOUS
<1> HIDE DEF d, x
<1>6. coverage'[p] = d /\ \A q \in Peers : q # p => coverage'[q] = coverage[q] BY <1>1 DEF IInv, CoverageOK
<1> QED BY Zenon, <1>1, <1>2, <1>4, <1>5, <1>6 DEF FirstOver

LEMMA Answers ==
  ASSUME IInv, NEW p \in Peers, reconcile(p) \/ RelayAnswers(p)
  PROVE  /\ UNCHANGED coverageRest /\ coverage[p].steps # <<>>
         /\ \A q \in Peers : q # p => coverage'[q] = coverage[q]
         /\ \/ coverage'[p].steps = coverage[p].steps /\ calls' = calls /\ toPage' = toPage
            \/ FirstOver(p)
<1> DEFINE c == coverage[p]  d == [c EXCEPT !.held = (c.awaits = "enable")]
           e == IF c.awaits = "enable" THEN RefusedEnable(c) ELSE c
           f == IF Wants(c) THEN [c EXCEPT !.awaits = "enable"] ELSE [c EXCEPT !.awaits = "disable", !.held = FALSE]
<1>1. c \in Cover /\ c.steps # <<>> /\ UNCHANGED coverageRest
  BY DEF IInv, CoverageOK, Queued, RelayAnswers, reconcile, Runnable
<1>2. \/ Done(p, c, "ok") \/ Done(p, d, "ok") \/ Done(p, e, "error")
      \/ coverage' = [coverage EXCEPT ![p] = f] /\ calls' = calls /\ toPage' = toPage
  BY DEF RelayAnswers, reconcile
<1>3. d \in Cover /\ d.steps = c.steps BY <1>1 DEF Cover
<1>4. e \in Cover /\ e.steps = c.steps
  <2>1. c.count \in Nat BY <1>1 DEF Cover
  <2>2. (IF c.steps[1].op = "enable" /\ c.count > 0 THEN c.count - 1 ELSE c.count) \in Nat BY <2>1
  <2> QED BY <1>1, <2>2 DEF RefusedEnable, Cover
<1>5. f.steps = c.steps BY <1>1 DEF Cover
<1>6. c.steps = coverage[p].steps OBVIOUS
<1> HIDE DEF c, d, e, f
<1>7. ASSUME Done(p, c, "ok") PROVE FirstOver(p) /\ \A q \in Peers : q # p => coverage'[q] = coverage[q]
  BY <1>1, <1>6, <1>7, DoneOver
<1>8. ASSUME Done(p, d, "ok") PROVE FirstOver(p) /\ \A q \in Peers : q # p => coverage'[q] = coverage[q]
  BY <1>1, <1>3, <1>6, <1>8, DoneOver
<1>9. ASSUME Done(p, e, "error") PROVE FirstOver(p) /\ \A q \in Peers : q # p => coverage'[q] = coverage[q]
  BY <1>1, <1>4, <1>6, <1>9, DoneOver
<1>10. ASSUME coverage' = [coverage EXCEPT ![p] = f]
       PROVE  coverage'[p] = f /\ \A q \in Peers : q # p => coverage'[q] = coverage[q]
  BY <1>10 DEF IInv, CoverageOK
<1> QED BY <1>1, <1>2, <1>5, <1>6, <1>7, <1>8, <1>9, <1>10

LEMMA AnswerFaces ==
  ASSUME IInv, Faces, NEW p \in Peers, reconcile(p) \/ RelayAnswers(p)
  PROVE  Faces'
<1> DEFINE i == coverage[p].steps[1].call  m == Message("reply", i)
<1>1. /\ UNCHANGED <<toMain, proxy, senders, disposed, told, live>>
      /\ toPage' = toPage \/ (i \in Nat /\ toPage' = Give(toPage, {calls[i].page}, m))
  BY Answers DEF coverageRest, flowVars, pageVars, FirstOver
<1>2. \A q \in Renderers : PageStays(toPage[q], toPage'[q])
  <2>1. CASE toPage' = toPage BY <2>1 DEF PageStays
  <2>2. CASE i \in Nat /\ toPage' = Give(toPage, {calls[i].page}, m)
    <3>1. m \in Notice /\ m.what # "state" BY <2>2 DEF Message, Notice
    <3> HIDE DEF m, i
    <3> QED BY <2>2, <3>1, GiveStays
  <2> QED BY <1>1, <2>1, <2>2
<1>3. Subscribed' = Subscribed BY <1>1 DEF Subscribed
<1> QED BY <1>1, <1>2, <1>3, FacesStay DEF MainStays

LEMMA writeFaces ==
  ASSUME IInv, Faces, write
  PROVE  Faces'
<1> DEFINE S == {r \in Subscribed : Alive(r)}
<1>1. /\ UNCHANGED <<toMain, proxy, senders, disposed, told, live>>
      /\ toPage' = [r \in Renderers |-> IF r \in S THEN Append(toPage[r], Message("output", senders[r].peer)) ELSE toPage[r]]
  BY DEF write, mainVars, pageVars
<1>2. \A q \in Renderers : PageStays(toPage[q], toPage'[q])
  <2>1. ASSUME NEW q \in Renderers PROVE PageStays(toPage[q], toPage'[q])
    <3> DEFINE m == Message("output", senders[q].peer)
    <3>1. m \in Notice /\ m.what # "state"
      <4>1. senders[q].peer \in Peers \cup {0} BY DEF IInv, Registry
      <4>2. senders[q].peer \in Nat BY <4>1, PeersCount
      <4> QED BY <4>2 DEF Message, Notice
    <3>2. toPage'[q] = toPage[q] \/ toPage'[q] = Append(toPage[q], m) BY <1>1
    <3> HIDE DEF m
    <3> QED BY <3>1, <3>2 DEF PageStays
  <2> QED BY <2>1
<1>3. Subscribed' = Subscribed BY <1>1 DEF Subscribed
<1> QED BY <1>1, <1>2, <1>3, FacesStay DEF MainStays

LEMMA FlowFaces ==
  ASSUME IInv, Faces, UNCHANGED bridgeVars, disposed' = disposed, live' => live
  PROVE  Faces'
<1>1. UNCHANGED <<toMain, toPage, proxy, senders, told>> BY DEF bridgeVars, mainVars, pageVars
<1>2. Subscribed' = Subscribed BY <1>1 DEF Subscribed
<1> QED BY <1>1, <1>2, FacesStay DEF MainStays, PageStays

LEMMA FacesInit ==
  ASSUME Init
  PROVE  Faces
BY DEF Init, Faces, FaceOK

LEMMA FacesKeep ==
  ASSUME IInv, Windows, Faces, ~Reloads, [Next]_vars
  PROVE  Faces'
<1>1. FlowOK BY DEF IInv
<1>2. ASSUME NEW r \in Renderers,
             \/ createRendererBridge(r) \/ close(r) \/ onOutput(r) \/ onConnectionState(r) \/ onReply(r)
             \/ Destroy(r) \/ register(r) \/ unregister(r) \/ ack(r) \/ onDestroyed(r) \/ handle(r)
      PROVE  Faces'
  BY <1>2, createRendererBridgeFaces, closeFaces, onOutputFaces, onConnectionStateFaces, onReplyFaces,
     DestroyFaces, registerFaces, unregisterFaces, ackFaces, onDestroyedFaces, handleFaces
<1>3. ASSUME NEW r \in Renderers, Unheard(r) PROVE Faces'
  <2>1. disposed /\ UNCHANGED <<disposed, told, live>> BY <1>3 DEF Unheard, flowVars, mainVars
  <2> QED BY <2>1, DisposedFaces
<1>4. ASSUME NEW r \in Renderers, NEW method \in {"enable", "disable"}, invoke(r, method) PROVE Faces'
  BY <1>4, invokeFaces
<1>5. ASSUME NEW i, withTimeout(i) PROVE Faces' BY <1>5, withTimeoutFaces
<1>6. broadcast \/ broadcastClosed \/ write => Faces' BY broadcastFaces, broadcastClosedFaces, writeFaces
<1>7. ASSUME dispose PROVE Faces'
  <2>1. disposed' /\ UNCHANGED <<told, live>> BY <1>7 DEF dispose
  <2> QED BY <2>1, DisposedFaces
<1>8. ASSUME NEW p \in Peers, reconcile(p) \/ RelayAnswers(p) PROVE Faces' BY <1>8, AnswerFaces
<1>9. ASSUME UNCHANGED bridgeVars, tmux \/ Reply \/ ConnectionLost \/ Continuation PROVE Faces'
  <2>1. disposed' = disposed /\ (live' => live)
    BY <1>1, <1>9, OutputDoes, ExecuteDoes, ReplyDoes, LostDoes, JobDoes DEF tmux, Reply, ConnectionLost, Continuation
  <2> QED BY <1>9, <2>1, FlowFaces
<1>10. UNCHANGED vars => Faces'
  <2>1. UNCHANGED vars => UNCHANGED bridgeVars /\ disposed' = disposed /\ live' = live BY DEF vars, bridgeVars, flowVars
  <2> QED BY <2>1, FlowFaces
<1> QED BY <1>2, <1>3, <1>4, <1>5, <1>6, <1>7, <1>8, <1>9, <1>10 DEF Next

-----------------------------------------------------------------------------
(* What a promise waits for                                                *)

(* The call is on its way, or in the queue of a peer, or its answer is on  *)
(* its way to the page, which lives.                                       *)
Replied(s) == {n \in Nat : \E k \in DOMAIN s : s[k].what = "reply" /\ s[k].n = n}
Serves(s) == {s[k].call : k \in DOMAIN s}
Held(i) ==
  \/ i \in Invoked(toMain[calls[i].page])
  \/ \E p \in Peers : i \in Serves(coverage[p].steps)
  \/ i \in Replied(toPage[calls[i].page])
PendingOK == \A i \in DOMAIN calls : calls[i].promise = "pending" => Alive(calls[i].page) /\ Held(i)

LEMMA InvokedMore ==
  ASSUME NEW s \in Seq(Request), NEW m \in Request
  PROVE  Invoked(s) \subseteq Invoked(Append(s, m)) /\ (m.what = "invoke" => m.n \in Invoked(Append(s, m)))
<1> DEFINE t == Append(s, m)  l == Len(s) + 1
<1>1. DOMAIN t = (DOMAIN s) \cup {l} /\ t[l] = m /\ \A i \in DOMAIN s : t[i] = s[i] BY Places
<1>2. m.n \in Nat BY DEF Request
<1> HIDE DEF t, l
<1>3. Invoked(s) \subseteq Invoked(t) /\ (m.what = "invoke" => m.n \in Invoked(t)) BY <1>1, <1>2 DEF Invoked
<1> QED BY <1>3 DEF t

LEMMA InvokedRest ==
  ASSUME NEW s \in Seq(Request), s # <<>>
  PROVE  /\ s[1].what # "invoke" => Invoked(s) \subseteq Invoked(Tail(s))
         /\ Invoked(s) \ {s[1].n} \subseteq Invoked(Tail(s))
<1> DEFINE t == Tail(s)
<1>1. \A i \in DOMAIN s : i = 1 \/ (i - 1 \in DOMAIN t /\ t[i - 1] = s[i]) BY RestPlaces
<1> HIDE DEF t
<1>2. /\ s[1].what # "invoke" => Invoked(s) \subseteq Invoked(t)
      /\ Invoked(s) \ {s[1].n} \subseteq Invoked(t)
  BY <1>1 DEF Invoked
<1> QED BY <1>2 DEF t

LEMMA RepliedMore ==
  ASSUME NEW s \in Seq(Notice), NEW m \in Notice
  PROVE  Replied(s) \subseteq Replied(Append(s, m)) /\ (m.what = "reply" => m.n \in Replied(Append(s, m)))
<1> DEFINE t == Append(s, m)  l == Len(s) + 1
<1>1. DOMAIN t = (DOMAIN s) \cup {l} /\ t[l] = m /\ \A i \in DOMAIN s : t[i] = s[i] BY NoticePlaces
<1>2. m.n \in Nat BY DEF Notice
<1> HIDE DEF t, l
<1>3. Replied(s) \subseteq Replied(t) /\ (m.what = "reply" => m.n \in Replied(t)) BY <1>1, <1>2 DEF Replied
<1> QED BY <1>3 DEF t

LEMMA RepliedRest ==
  ASSUME NEW s \in Seq(Notice), s # <<>>
  PROVE  /\ s[1].what # "reply" => Replied(s) \subseteq Replied(Tail(s))
         /\ Replied(s) \ {s[1].n} \subseteq Replied(Tail(s))
<1> DEFINE t == Tail(s)
<1>1. \A i \in DOMAIN s : i = 1 \/ (i - 1 \in DOMAIN t /\ t[i - 1] = s[i]) BY NoticeRest
<1> HIDE DEF t
<1>2. /\ s[1].what # "reply" => Replied(s) \subseteq Replied(t)
      /\ Replied(s) \ {s[1].n} \subseteq Replied(t)
  BY <1>1 DEF Replied
<1> QED BY <1>2 DEF t

LEMMA ServesMore ==
  ASSUME NEW s \in Seq(Step), NEW x \in Step
  PROVE  Serves(s) \subseteq Serves(Append(s, x)) /\ x.call \in Serves(Append(s, x))
<1> DEFINE t == Append(s, x)  l == Len(s) + 1
<1>1. DOMAIN t = (DOMAIN s) \cup {l} /\ t[l] = x /\ \A i \in DOMAIN s : t[i] = s[i]
  <2> HIDE DEF Step
  <2> QED BY LongerBox
<1> HIDE DEF t, l
<1>2. Serves(s) \subseteq Serves(t) /\ x.call \in Serves(t) BY <1>1 DEF Serves
<1> QED BY <1>2 DEF t

LEMMA ServesRest ==
  ASSUME NEW s \in Seq(Step), s # <<>>
  PROVE  Serves(s) \ {s[1].call} \subseteq Serves(Tail(s))
<1> DEFINE t == Tail(s)
<1>1. \A i \in DOMAIN s : i = 1 \/ (i - 1 \in DOMAIN t /\ t[i - 1] = s[i])
  <2>1. Len(s) \in Nat /\ DOMAIN s = 1..Len(s) /\ Len(s) # 0
    <3> HIDE DEF Step
    <3> QED BY EmptySeq
  <2>2. DOMAIN t = 1..(Len(s) - 1)
    <3> HIDE DEF Step
    <3> QED BY <2>1
  <2>3. \A i \in DOMAIN t : t[i] = s[i + 1]
    <3> HIDE DEF Step
    <3> QED BY RestOfQueue
  <2>4. \A i \in DOMAIN s : i = 1 \/ (i - 1 \in DOMAIN t /\ (i - 1) + 1 = i) BY <2>1, <2>2
  <2> HIDE DEF t
  <2> QED BY <2>3, <2>4
<1> HIDE DEF t
<1>2. Serves(s) \ {s[1].call} \subseteq Serves(t) BY <1>1 DEF Serves
<1> QED BY <1>2 DEF t

(* Nothing that is waited for is lost, but what one call waited for; that  *)
(* call has come out, or waits for something else.                         *)
Waited(x) ==
  /\ \A r \in Renderers : Invoked(toMain[r]) \ {x} \subseteq Invoked(toMain'[r])
  /\ \A r \in Renderers : Replied(toPage[r]) \ {x} \subseteq Replied(toPage'[r])
  /\ \A p \in Peers : Serves(coverage[p].steps) \ {x} \subseteq Serves(coverage'[p].steps)

SamePending ==
  /\ DOMAIN calls' = DOMAIN calls
  /\ \A i \in DOMAIN calls : /\ calls'[i].page = calls[i].page
                             /\ calls'[i].promise = "pending" => calls[i].promise = "pending"

LEMMA PendingStays ==
  ASSUME IInv, PendingOK, SamePending, NEW x, Waited(x), \A r \in Renderers : Alive(r) => Alive(r)',
         x \in DOMAIN calls /\ calls'[x].promise = "pending" => Held(x)'
  PROVE  PendingOK'
<1>1. SUFFICES ASSUME NEW i \in DOMAIN calls, calls'[i].promise = "pending"
               PROVE  wc'[calls'[i].page] = "alive" /\ Held(i)'
  BY DEF PendingOK, SamePending, Alive
<1> DEFINE r == calls[i].page
<1>2. calls'[i].page = r /\ r \in Renderers
  <2>1. calls[i] \in Call BY BookTypes
  <2> QED BY <2>1 DEF Call, SamePending
<1>3. Alive(r) /\ Held(i) BY <1>1 DEF PendingOK, SamePending
<1>4. wc'[calls'[i].page] = "alive" BY <1>2, <1>3 DEF Alive
<1>5. CASE i = x BY <1>1, <1>4, <1>5
<1>6. CASE i # x
  <2>1. i \in Invoked(toMain[r]) => i \in Invoked(toMain'[r]) BY <1>2, <1>6 DEF Waited
  <2>2. i \in Replied(toPage[r]) => i \in Replied(toPage'[r]) BY <1>2, <1>6 DEF Waited
  <2>3. \A p \in Peers : i \in Serves(coverage[p].steps) => i \in Serves(coverage'[p].steps)
    BY <1>6 DEF Waited
  <2> QED BY <1>2, <1>3, <1>4, <2>1, <2>2, <2>3 DEF Held
<1> QED BY <1>5, <1>6

(* The boxes of one page.                                                  *)
LEMMA BoxWaits ==
  ASSUME IInv, NEW r \in Renderers
  PROVE  /\ \A m \in Request : toMain' = Post(toMain, r, m) =>
              /\ \A q \in Renderers : Invoked(toMain[q]) \subseteq Invoked(toMain'[q])
              /\ m.what = "invoke" => m.n \in Invoked(toMain'[r])
         /\ toMain[r] # <<>> /\ toMain' = [toMain EXCEPT ![r] = Tail(@)] =>
              /\ toMain[r][1].what # "invoke" =>
                   \A q \in Renderers : Invoked(toMain[q]) \subseteq Invoked(toMain'[q])
              /\ \A q \in Renderers : Invoked(toMain[q]) \ {toMain[r][1].n} \subseteq Invoked(toMain'[q])
         /\ \A what : Takes(r, what) =>
              /\ what # "reply" => \A q \in Renderers : Replied(toPage[q]) \subseteq Replied(toPage'[q])
              /\ \A q \in Renderers : Replied(toPage[q]) \ {toPage[r][1].n} \subseteq Replied(toPage'[q])
<1>1. /\ toMain \in [Renderers -> Seq(Request)] /\ toPage \in [Renderers -> Seq(Notice)]
      /\ toMain[r] \in Seq(Request) /\ toPage[r] \in Seq(Notice)
  BY BookTypes DEF IInv, PagesOK
<1>2. ASSUME NEW m \in Request, toMain' = Post(toMain, r, m)
      PROVE  /\ \A q \in Renderers : Invoked(toMain[q]) \subseteq Invoked(toMain'[q])
             /\ m.what = "invoke" => m.n \in Invoked(toMain'[r])
  <2>1. toMain'[r] = Append(toMain[r], m) /\ \A q \in Renderers : q # r => toMain'[q] = toMain[q]
    BY <1>2, PostType DEF IInv
  <2>2. Invoked(toMain[r]) \subseteq Invoked(toMain'[r]) /\ (m.what = "invoke" => m.n \in Invoked(toMain'[r]))
    BY <1>1, <2>1, InvokedMore
  <2> QED BY <2>1, <2>2
<1>3. ASSUME toMain[r] # <<>>, toMain' = [toMain EXCEPT ![r] = Tail(@)]
      PROVE  /\ toMain[r][1].what # "invoke" =>
                  \A q \in Renderers : Invoked(toMain[q]) \subseteq Invoked(toMain'[q])
             /\ \A q \in Renderers : Invoked(toMain[q]) \ {toMain[r][1].n} \subseteq Invoked(toMain'[q])
  <2>1. toMain'[r] = Tail(toMain[r]) /\ \A q \in Renderers : q # r => toMain'[q] = toMain[q]
    BY <1>1, <1>3, TailType
  <2>2. /\ toMain[r][1].what # "invoke" => Invoked(toMain[r]) \subseteq Invoked(toMain'[r])
        /\ Invoked(toMain[r]) \ {toMain[r][1].n} \subseteq Invoked(toMain'[r])
    BY <1>1, <1>3, <2>1, InvokedRest
  <2> QED BY <2>1, <2>2
<1>4. ASSUME NEW what, Takes(r, what)
      PROVE  /\ what # "reply" => \A q \in Renderers : Replied(toPage[q]) \subseteq Replied(toPage'[q])
             /\ \A q \in Renderers : Replied(toPage[q]) \ {toPage[r][1].n} \subseteq Replied(toPage'[q])
  <2>1. /\ toPage[r] # <<>> /\ toPage[r][1].what = what /\ toPage'[r] = Tail(toPage[r])
        /\ \A q \in Renderers : q # r => toPage'[q] = toPage[q]
    BY <1>4, TakesOne
  <2>2. /\ toPage[r][1].what # "reply" => Replied(toPage[r]) \subseteq Replied(toPage'[r])
        /\ Replied(toPage[r]) \ {toPage[r][1].n} \subseteq Replied(toPage'[r])
    BY <1>1, <2>1, RepliedRest
  <2> QED BY <2>1, <2>2
<1> QED BY <1>2, <1>3, <1>4

LEMMA GiveWaits ==
  ASSUME IInv, NEW R, NEW m \in Notice, toPage' = Give(toPage, R, m)
  PROVE  /\ \A q \in Renderers : Replied(toPage[q]) \subseteq Replied(toPage'[q])
         /\ m.what = "reply" => \A q \in Renderers : q \in R /\ Alive(q) => m.n \in Replied(toPage'[q])
<1>1. toPage \in [Renderers -> Seq(Notice)] BY DEF IInv, PagesOK
<1>2. \A q \in Renderers : toPage'[q] = IF q \in R /\ Alive(q) THEN Append(toPage[q], m) ELSE toPage[q]
  <2> HIDE DEF Notice
  <2> QED BY <1>1, GiveType
<1>3. \A q \in Renderers : toPage[q] \in Seq(Notice) BY BookTypes
<1> QED BY <1>2, <1>3, RepliedMore

LEMMA PendingQuiet ==
  ASSUME IInv, PendingOK, SamePending, \A r \in Renderers : Alive(r) => Alive(r)',
         \A r \in Renderers : Invoked(toMain[r]) \subseteq Invoked(toMain'[r]),
         \A r \in Renderers : Replied(toPage[r]) \subseteq Replied(toPage'[r]),
         \A p \in Peers : Serves(coverage[p].steps) \subseteq Serves(coverage'[p].steps)
  PROVE  PendingOK'
<1>1. Waited(0) BY DEF Waited
<1>2. 0 \notin DOMAIN calls BY BookTypes
<1> QED BY <1>1, <1>2, PendingStays

LEMMA SameCallsPend ==
  ASSUME calls' = calls
  PROVE  SamePending
BY DEF SamePending

LEMMA SameRunPends ==
  ASSUME SameRun(calls, calls'), \A i \in DOMAIN calls : calls'[i].promise = "pending" => calls[i].promise = "pending"
  PROVE  SamePending
BY DEF SamePending, SameRun

(* Senders leave: the queues grow.                                         *)
LEMMA TornPending ==
  ASSUME IInv, NEW R, teardown(R)
  PROVE  /\ SamePending
         /\ \A p \in Peers : Serves(coverage[p].steps) \subseteq Serves(coverage'[p].steps)
<1>1. /\ coverage' = [p \in Peers |->
           IF p \in PeersOf(R)
             THEN [coverage[p] EXCEPT !.count = 0, !.steps = Append(@, [op |-> "release", call |-> 0])]
             ELSE coverage[p]]
      /\ calls' = [i \in DOMAIN calls |->
           IF Running(calls[i]) /\ calls[i].peer \in PeersOf(R) THEN [calls[i] EXCEPT !.aborted = TRUE] ELSE calls[i]]
  BY Zenon DEF teardown
<1>2. SamePending
  <2>1. \A i \in DOMAIN calls : calls[i] \in Call BY BookTypes
  <2> QED BY Zenon, <1>1, <2>1 DEF SamePending, Call
<1>3. ASSUME NEW p \in Peers PROVE Serves(coverage[p].steps) \subseteq Serves(coverage'[p].steps)
  <2> DEFINE x == [op |-> "release", call |-> 0]
  <2>1. x \in Step
    <3>1. MaxEvents \in Nat BY BridgeAssumption
    <3> QED BY <3>1 DEF Step
  <2>2. coverage[p] \in Cover /\ coverage[p].steps \in Seq(Step) BY BookTypes
  <2>3. coverage'[p].steps = Append(coverage[p].steps, x) \/ coverage'[p] = coverage[p]
    <3>1. coverage'[p] = IF p \in PeersOf(R) THEN [coverage[p] EXCEPT !.count = 0, !.steps = Append(@, x)] ELSE coverage[p]
      BY Zenon, <1>1
    <3> HIDE DEF x, Step
    <3> QED BY <2>2, <3>1 DEF Cover
  <2> HIDE DEF x
  <2> QED BY <2>1, <2>2, <2>3, ServesMore
<1> QED BY <1>2, <1>3

-----------------------------------------------------------------------------
(* One step, for the promises *)

LEMMA createRendererBridgePending ==
  ASSUME IInv, PendingOK, ~Reloads, NEW r \in Renderers, createRendererBridge(r)
  PROVE  PendingOK'
<1> DEFINE m == Message("register", 0)
<1>1. /\ toMain' = Post(toMain, r, m) /\ UNCHANGED <<toPage, calls, coverage, wc>>
  BY DEF createRendererBridge, flowVars, mainVars
<1>2. m \in Request BY DEF Message, Request
<1> HIDE DEF m
<1>3. \A q \in Renderers : Invoked(toMain[q]) \subseteq Invoked(toMain'[q]) BY <1>1, <1>2, BoxWaits
<1> QED BY <1>1, <1>3, SameCallsPend, PendingQuiet DEF Alive

LEMMA closePending ==
  ASSUME IInv, PendingOK, NEW r \in Renderers, close(r)
  PROVE  PendingOK'
<1> DEFINE m == Message("unregister", 0)
<1>1. /\ toMain' = Post(toMain, r, m) /\ UNCHANGED <<toPage, calls, coverage, wc>>
  BY DEF close, flowVars, mainVars
<1>2. m \in Request BY DEF Message, Request
<1> HIDE DEF m
<1>3. \A q \in Renderers : Invoked(toMain[q]) \subseteq Invoked(toMain'[q]) BY <1>1, <1>2, BoxWaits
<1> QED BY <1>1, <1>3, SameCallsPend, PendingQuiet DEF Alive

LEMMA invokePending ==
  ASSUME IInv, PendingOK, NEW r \in Renderers, NEW method, invoke(r, method)
  PROVE  PendingOK'
<1>0. PICK l \in Nat : l = Len(calls) + 1
  <2>1. Len(calls) + 1 \in Nat BY BookTypes
  <2> QED BY <2>1
<1> DEFINE m == Message("invoke", l)
           e == [page |-> r, method |-> method, peer |-> 0, aborted |-> FALSE, outcome |-> "none", promise |-> "pending"]
<1>1. /\ toMain' = Post(toMain, r, m) /\ calls' = Append(calls, e) /\ Alive(r)
      /\ UNCHANGED <<toPage, coverage, wc>>
  BY <1>0 DEF invoke, flowVars, mainVars, pageVars
<1>2. m \in Request /\ m.what = "invoke" /\ m.n = l BY DEF Message, Request
<1>3. /\ DOMAIN calls' = (DOMAIN calls) \cup {l} /\ calls'[l] = e
      /\ \A i \in DOMAIN calls : calls'[i] = calls[i]
  <2>1. calls \in Seq(Call) BY BookTypes
  <2>2. Len(calls) \in Nat /\ DOMAIN calls = 1..Len(calls) BY BookTypes
  <2> HIDE DEF e, Call
  <2> QED BY <1>0, <1>1, <2>1, <2>2
<1>4. e.page = r OBVIOUS
<1> HIDE DEF m, e
<1>5. /\ \A q \in Renderers : Invoked(toMain[q]) \subseteq Invoked(toMain'[q])
      /\ l \in Invoked(toMain'[r])
  BY <1>1, <1>2, BoxWaits
<1>6. ASSUME NEW i \in DOMAIN calls, calls'[i].promise = "pending"
      PROVE  wc'[calls'[i].page] = "alive" /\ Held(i)'
  <2>1. calls'[i] = calls[i] BY <1>3, <1>6
  <2>2. Alive(calls[i].page) /\ Held(i) BY <1>6, <2>1 DEF PendingOK
  <2>3. calls[i].page \in Renderers
    <3>1. calls[i] \in Call BY BookTypes
    <3> QED BY <3>1 DEF Call
  <2> QED BY <1>1, <1>5, <2>1, <2>2, <2>3 DEF Held, Alive
<1>7. wc'[calls'[l].page] = "alive" /\ Held(l)'
  <2>1. calls'[l].page = r BY <1>3, <1>4
  <2> QED BY <1>1, <1>5, <2>1 DEF Held, Alive
<1> QED BY <1>3, <1>6, <1>7 DEF PendingOK, Alive

LEMMA withTimeoutPending ==
  ASSUME IInv, PendingOK, NEW i \in DOMAIN calls, withTimeout(i)
  PROVE  PendingOK'
<1>1. /\ calls' = [calls EXCEPT ![i].promise = "timeout"] /\ UNCHANGED <<toMain, toPage, coverage, wc>>
  BY DEF withTimeout, flowVars, mainVars, pageVars
<1>2. SamePending
  <2>1. SameRun(calls, calls') BY <1>1, PromiseDoes DEF IInv
  <2>2. \A j \in DOMAIN calls : calls'[j].promise = calls[j].promise \/ calls'[j].promise # "pending"
    <3>1. calls \in Seq(Call) /\ \A j \in DOMAIN calls : calls[j] \in Call BY BookTypes
    <3> QED BY <1>1, <3>1 DEF Call
  <2> QED BY <2>1, <2>2, SameRunPends
<1> QED BY <1>1, <1>2, PendingQuiet DEF Alive

LEMMA onOutputPending ==
  ASSUME IInv, PendingOK, NEW r \in Renderers, onOutput(r)
  PROVE  PendingOK'
<1> DEFINE next == account(proxy[r].pending)  m == Message("ack", next.bytes)
<1>1. Takes(r, "output") /\ UNCHANGED <<calls, coverage, wc>> BY DEF onOutput, flowVars, mainVars
<1>2. toMain' = toMain \/ toMain' = Post(toMain, r, m) BY DEF onOutput
<1>3. m \in Request
  <2>1. proxy[r].pending \in 0..(Batch - 1) BY PageTypes DEF IInv
  <2>2. next.bytes \in Nat BY <2>1, AccountSplits
  <2> QED BY <2>2 DEF Message, Request
<1> HIDE DEF m
<1>4. \A q \in Renderers : Invoked(toMain[q]) \subseteq Invoked(toMain'[q]) BY <1>2, <1>3, BoxWaits
<1>5. \A q \in Renderers : Replied(toPage[q]) \subseteq Replied(toPage'[q])
  <2>1. "output" # "reply" OBVIOUS
  <2> QED BY <1>1, <2>1, BoxWaits
<1> QED BY <1>1, <1>4, <1>5, SameCallsPend, PendingQuiet DEF Alive

LEMMA onConnectionStatePending ==
  ASSUME IInv, PendingOK, NEW r \in Renderers, onConnectionState(r)
  PROVE  PendingOK'
<1>1. Takes(r, "state") /\ UNCHANGED <<toMain, calls, coverage, wc>> BY DEF onConnectionState, flowVars, mainVars
<1>2. \A q \in Renderers : Replied(toPage[q]) \subseteq Replied(toPage'[q])
  <2>1. "state" # "reply" OBVIOUS
  <2> QED BY <1>1, <2>1, BoxWaits
<1> QED BY <1>1, <1>2, SameCallsPend, PendingQuiet DEF Alive

LEMMA onReplyPending ==
  ASSUME IInv, PendingOK, NEW r \in Renderers, onReply(r)
  PROVE  PendingOK'
<1> DEFINE i == toPage[r][1].n  x == IF calls[i].promise = "pending" THEN calls[i].outcome ELSE calls[i].promise
<1>1. Takes(r, "reply") /\ UNCHANGED <<toMain, coverage, wc>> BY DEF onReply, flowVars, mainVars, pageVars
<1>2. /\ i \in DOMAIN calls /\ x # "pending" /\ SameRun(calls, calls')
      /\ calls'[i].promise = x /\ \A j \in DOMAIN calls : j # i => calls'[j] = calls[j]
  BY Reaches
<1>3. \A q \in Renderers : Replied(toPage[q]) \ {i} \subseteq Replied(toPage'[q]) BY <1>1, BoxWaits
<1>4. Waited(i) BY <1>1, <1>3 DEF Waited
<1> HIDE DEF x, i
<1>5. calls'[i].promise # "pending" BY <1>2
<1>6. SamePending
  <2>1. \A j \in DOMAIN calls : calls'[j].promise = "pending" => calls[j].promise = "pending"
    <3>1. \A j \in DOMAIN calls : j = i \/ calls'[j] = calls[j] BY <1>2
    <3> QED BY <1>5, <3>1
  <2> QED BY <1>2, <2>1, SameRunPends
<1>7. \A q \in Renderers : Alive(q) => Alive(q)' BY <1>1 DEF Alive
<1> QED BY <1>4, <1>5, <1>6, <1>7, PendingStays

LEMMA DestroyPending ==
  ASSUME IInv, PendingOK, NEW r \in Renderers, Destroy(r)
  PROVE  PendingOK'
<1>1. /\ calls' = Lose(r) /\ wc' = [wc EXCEPT ![r] = "destroyed"] /\ toPage' = [toPage EXCEPT ![r] = <<>>]
      /\ UNCHANGED <<toMain, coverage>>
  BY DEF Destroy, flowVars, mainVars
<1>2. \A i \in DOMAIN calls : calls[i] \in Call /\ calls[i].page \in Renderers
  <2>1. \A i \in DOMAIN calls : calls[i] \in Call BY BookTypes
  <2> QED BY <2>1 DEF Call
<1>3. DOMAIN calls' = DOMAIN calls BY <1>1 DEF Lose
<1>4. ASSUME NEW i \in DOMAIN calls, calls'[i].promise = "pending"
      PROVE  wc'[calls'[i].page] = "alive" /\ Held(i)'
  <2>1. calls'[i] = calls[i] /\ calls[i].page # r /\ calls[i].promise = "pending"
    <3>1. calls'[i] = IF calls[i].page = r /\ calls[i].promise = "pending"
                        THEN [calls[i] EXCEPT !.promise = "lost"] ELSE calls[i]
      BY <1>1 DEF Lose
    <3>2. [calls[i] EXCEPT !.promise = "lost"].promise = "lost" BY <1>2 DEF Call
    <3> QED BY <1>4, <3>1, <3>2
  <2>2. Alive(calls[i].page) /\ Held(i) BY <2>1 DEF PendingOK
  <2>3. wc'[calls[i].page] = wc[calls[i].page] /\ toPage'[calls[i].page] = toPage[calls[i].page]
    BY <1>1, <1>2, <2>1 DEF IInv, PagesOK
  <2> QED BY <1>1, <2>1, <2>2, <2>3 DEF Held, Alive
<1> QED BY <1>3, <1>4 DEF PendingOK, Alive

(* A message that is no call is read.                                      *)
LEMMA HeadReadPending ==
  ASSUME IInv, PendingOK, SamePending, NEW r \in Renderers, toMain[r] # <<>>, toMain[r][1].what # "invoke",
         toMain' = [toMain EXCEPT ![r] = Tail(@)], wc' = wc,
         \A q \in Renderers : Replied(toPage[q]) \subseteq Replied(toPage'[q]),
         \A p \in Peers : Serves(coverage[p].steps) \subseteq Serves(coverage'[p].steps)
  PROVE  PendingOK'
<1>1. \A q \in Renderers : Invoked(toMain[q]) \subseteq Invoked(toMain'[q]) BY BoxWaits
<1> QED BY <1>1, PendingQuiet DEF Alive

LEMMA registerPending ==
  ASSUME IInv, PendingOK, NEW r \in Renderers, register(r)
  PROVE  PendingOK'
<1> DEFINE m == Message("state", IF live THEN 0 ELSE 1)
<1>1. /\ toMain[r] # <<>> /\ toMain[r][1].what = "register" /\ toMain' = [toMain EXCEPT ![r] = Tail(@)]
      /\ UNCHANGED <<wc, coverage, calls>>
      /\ toPage' = toPage \/ toPage' = Give(toPage, {r}, m)
  BY DEF register, Reads, mainRest, pageVars, Nothing
<1>2. m \in Notice BY DEF Message, Notice
<1> HIDE DEF m
<1>3. \A q \in Renderers : Replied(toPage[q]) \subseteq Replied(toPage'[q]) BY <1>1, <1>2, GiveWaits
<1> QED BY <1>1, <1>3, SameCallsPend, HeadReadPending

LEMMA unregisterPending ==
  ASSUME IInv, PendingOK, NEW r \in Renderers, unregister(r)
  PROVE  PendingOK'
<1> DEFINE R == {r} \cap Known
<1>1. /\ toMain[r] # <<>> /\ toMain[r][1].what = "unregister" /\ toMain' = [toMain EXCEPT ![r] = Tail(@)]
      /\ teardown(R) /\ UNCHANGED <<wc, toPage>>
  BY DEF unregister, Reads, mainRest, pageVars
<1> HIDE DEF R
<1> QED BY <1>1, TornPending, HeadReadPending

LEMMA ackPending ==
  ASSUME IInv, PendingOK, NEW r \in Renderers, ack(r)
  PROVE  PendingOK'
<1>1. /\ toMain[r] # <<>> /\ toMain[r][1].what = "ack" /\ toMain' = [toMain EXCEPT ![r] = Tail(@)]
      /\ UNCHANGED <<wc, toPage, coverage, calls>>
  BY DEF ack, Reads, mainRest, pageVars
<1> QED BY <1>1, SameCallsPend, HeadReadPending

LEMMA departPending ==
  ASSUME IInv, PendingOK, NEW R, teardown(R), UNCHANGED <<toMain, toPage>>,
         \A r \in Renderers : Alive(r) => Alive(r)'
  PROVE  PendingOK'
BY TornPending, PendingQuiet

LEMMA onDestroyedPending ==
  ASSUME IInv, PendingOK, NEW r \in Renderers, onDestroyed(r)
  PROVE  PendingOK'
<1>1. /\ wc[r] = "destroyed" /\ wc' = [wc EXCEPT ![r] = "gone"]
      /\ teardown({r} \cap Known) /\ UNCHANGED <<toMain, toPage>>
  BY DEF onDestroyed
<1>2. \A q \in Renderers : Alive(q) => Alive(q)' BY <1>1 DEF Alive, IInv, PagesOK
<1> QED BY <1>1, <1>2, departPending

LEMMA broadcastPending ==
  ASSUME IInv, PendingOK, broadcast
  PROVE  PendingOK'
<1>1. teardown(Stale) /\ UNCHANGED <<toMain, toPage, wc>> BY DEF broadcast, mainRest, pageVars
<1> QED BY <1>1, departPending DEF Alive

LEMMA disposePending ==
  ASSUME IInv, PendingOK, dispose
  PROVE  PendingOK'
<1>1. teardown(Known) /\ UNCHANGED <<toMain, toPage, wc>> BY DEF dispose, pageVars
<1> QED BY <1>1, departPending DEF Alive

LEMMA broadcastClosedPending ==
  ASSUME IInv, PendingOK, broadcastClosed
  PROVE  PendingOK'
<1> DEFINE m == Message("state", 1)
<1>1. UNCHANGED <<toMain, wc>> BY DEF broadcastClosed, pageVars
<1>2. CASE disposed
  <2>1. UNCHANGED <<calls, coverage, toPage>> BY <1>2 DEF broadcastClosed, Nothing
  <2> QED BY <1>1, <2>1, SameCallsPend, PendingQuiet DEF Alive
<1>3. CASE ~disposed
  <2>1. teardown(Stale) /\ toPage' = Give(toPage, Subscribed, m) BY <1>3 DEF broadcastClosed
  <2>2. m \in Notice BY DEF Message, Notice
  <2> HIDE DEF m
  <2>3. \A q \in Renderers : Replied(toPage[q]) \subseteq Replied(toPage'[q]) BY <2>1, <2>2, GiveWaits
  <2> QED BY <1>1, <2>1, <2>3, TornPending, PendingQuiet DEF Alive
<1> QED BY <1>2, <1>3

LEMMA writePending ==
  ASSUME IInv, PendingOK, write
  PROVE  PendingOK'
<1> DEFINE S == {r \in Subscribed : Alive(r)}
<1>1. /\ UNCHANGED <<toMain, wc, calls, coverage>>
      /\ toPage' = [r \in Renderers |-> IF r \in S THEN Append(toPage[r], Message("output", senders[r].peer)) ELSE toPage[r]]
  BY DEF write, mainVars, pageVars
<1>2. ASSUME NEW q \in Renderers PROVE Replied(toPage[q]) \subseteq Replied(toPage'[q])
  <2> DEFINE m == Message("output", senders[q].peer)
  <2>1. m \in Notice
    <3>1. senders[q].peer \in Peers \cup {0} BY DEF IInv, Registry
    <3>2. senders[q].peer \in Nat BY <3>1, PeersCount
    <3> QED BY <3>2 DEF Message, Notice
  <2>2. toPage'[q] = toPage[q] \/ toPage'[q] = Append(toPage[q], m) BY <1>1
  <2>3. toPage[q] \in Seq(Notice) BY BookTypes
  <2> HIDE DEF m
  <2> QED BY <2>1, <2>2, <2>3, RepliedMore
<1> QED BY <1>1, <1>2, SameCallsPend, PendingQuiet DEF Alive

LEMMA FlowPending ==
  ASSUME IInv, PendingOK, UNCHANGED bridgeVars
  PROVE  PendingOK'
<1>1. UNCHANGED <<toMain, toPage, coverage, calls, wc>> BY DEF bridgeVars, mainVars, pageVars
<1> QED BY <1>1, SameCallsPend, PendingQuiet DEF Alive

(* A call is run, or nobody waits for it: its page is gone.                *)
LEMMA handlePending ==
  ASSUME IInv, IInv', Books, PendingOK, NEW r \in Renderers, handle(r)
  PROVE  PendingOK'
<1>1. /\ toMain[r] # <<>> /\ toMain[r][1].what = "invoke" /\ toMain' = [toMain EXCEPT ![r] = Tail(@)]
      /\ UNCHANGED <<wc, toPage>>
  BY DEF handle, Reads, mainRest, pageVars
<1>0. PICK i \in Nat : i = toMain[r][1].n BY <1>1, RunAhead
<1>2. i \in DOMAIN calls /\ calls[i].page = r BY <1>0, <1>1, RunAhead
<1>3. \A q \in Renderers : Invoked(toMain[q]) \ {i} \subseteq Invoked(toMain'[q]) BY <1>0, <1>1, BoxWaits
<1>4. \A q \in Renderers : Alive(q) => Alive(q)' BY <1>1 DEF Alive
<1>5. CASE Reachable(r)
  <2> DEFINE p == Token(r)
  <2>1. /\ Runs(i, p) /\ p \in Peers /\ coverage'[p] = Asks(coverage[p], calls[i].method, i)
        /\ \A q \in Peers : q # p => coverage'[q] = coverage[q]
    BY <1>0, <1>5, handleRuns
  <2> HIDE DEF p
  <2>2. Serves(coverage[p].steps) \subseteq Serves(coverage'[p].steps) /\ i \in Serves(coverage'[p].steps)
    <3> DEFINE x == [op |-> IF calls[i].method = "disable" /\ coverage[p].count = 0 THEN "wait" ELSE calls[i].method,
                     call |-> i]
    <3>1. x \in Step
      <4>1. calls[i] \in Call BY <1>2, BookTypes
      <4>2. i \in 0..MaxEvents
        <5>1. Len(calls) \in Nat /\ i \in 1..Len(calls) BY <1>2, BookTypes
        <5>2. Len(calls) <= events /\ events \in 0..MaxEvents /\ MaxEvents \in Nat BY Plain DEF IInv, CallsOK
        <5> QED BY <5>1, <5>2
      <4> QED BY <4>1, <4>2 DEF Step, Call
    <3>2. coverage[p] \in Cover /\ coverage[p].steps \in Seq(Step) BY <2>1, BookTypes
    <3>3. coverage'[p].steps = Append(coverage[p].steps, x) BY <2>1, <3>2 DEF Asks, Cover
    <3>4. x.call = i OBVIOUS
    <3> HIDE DEF x, Step
    <3> QED BY <3>1, <3>2, <3>3, <3>4, ServesMore
  <2>3. Waited(i)
    <3>1. \A q \in Peers : Serves(coverage[q].steps) \subseteq Serves(coverage'[q].steps) BY <2>1, <2>2
    <3> QED BY <1>1, <1>3, <3>1 DEF Waited
  <2>4. SamePending
    <3>1. \A j \in DOMAIN calls : j = i \/ calls'[j] = calls[j] BY <2>1 DEF Runs
    <3> QED BY <2>1, <3>1 DEF SamePending, Runs
  <2>5. Held(i)' BY <2>1, <2>2 DEF Held
  <2> QED BY <1>4, <2>3, <2>4, <2>5, PendingStays
<1>6. CASE ~Reachable(r)
  <2>1. calls' = [calls EXCEPT ![i].outcome = "aborted"] /\ UNCHANGED coverage BY <1>0, <1>6 DEF handle
  <2>2. /\ DOMAIN calls' = DOMAIN calls
        /\ \A j \in DOMAIN calls : calls'[j].page = calls[j].page /\ calls'[j].promise = calls[j].promise
    <3>1. \A j \in DOMAIN calls : calls[j] \in Call BY BookTypes
    <3> QED BY <2>1, <3>1 DEF Call
  <2>3. calls[i].promise # "pending" BY <1>2, <1>6 DEF PendingOK, Reachable
  <2>4. Waited(i) BY <1>1, <1>3, <2>1 DEF Waited
  <2>5. SamePending BY <2>2 DEF SamePending
  <2> QED BY <1>2, <1>4, <2>2, <2>3, <2>4, <2>5, PendingStays
<1> QED BY <1>5, <1>6

LEMMA UnheardPending ==
  ASSUME IInv, Books, PendingOK, NEW r \in Renderers, Unheard(r)
  PROVE  PendingOK'
<1>1. /\ toMain[r] # <<>> /\ toMain' = [toMain EXCEPT ![r] = Tail(@)] /\ UNCHANGED <<wc, coverage>>
  BY DEF Unheard, mainVars, pageVars
<1>2. CASE toMain[r][1].what # "invoke"
  <2>1. UNCHANGED <<calls, toPage>> BY <1>2 DEF Unheard
  <2> QED BY <1>1, <1>2, <2>1, SameCallsPend, HeadReadPending
<1>3. CASE toMain[r][1].what = "invoke"
  <2>0. PICK i \in Nat : i = toMain[r][1].n BY <1>1, <1>3, RunAhead
  <2> DEFINE m == Message("reply", i)
  <2>1. /\ calls' = [calls EXCEPT ![i].outcome = "error"] /\ toPage' = Give(toPage, {r}, m)
    BY <1>3, <2>0 DEF Unheard
  <2>2. i \in DOMAIN calls /\ calls[i].page = r BY <1>1, <1>3, <2>0, RunAhead
  <2>3. m \in Notice /\ m.what = "reply" /\ m.n = i BY DEF Message, Notice
  <2> HIDE DEF m
  <2>4. /\ DOMAIN calls' = DOMAIN calls
        /\ \A j \in DOMAIN calls : calls'[j].page = calls[j].page /\ calls'[j].promise = calls[j].promise
    <3>1. \A j \in DOMAIN calls : calls[j] \in Call BY BookTypes
    <3> QED BY <2>1, <3>1 DEF Call
  <2>5. SamePending BY <2>4 DEF SamePending
  <2>6. /\ \A q \in Renderers : Replied(toPage[q]) \subseteq Replied(toPage'[q])
        /\ Alive(r) => i \in Replied(toPage'[r])
    BY <2>1, <2>3, GiveWaits
  <2>7. Waited(i)
    <3>1. \A q \in Renderers : Invoked(toMain[q]) \ {i} \subseteq Invoked(toMain'[q]) BY <1>1, <2>0, BoxWaits
    <3> QED BY <1>1, <2>6, <3>1 DEF Waited
  <2>8. calls'[i].promise = "pending" => Held(i)'
    <3>1. calls'[i].promise = "pending" => Alive(r) BY <2>2, <2>4 DEF PendingOK
    <3> QED BY <2>2, <2>4, <2>6, <3>1 DEF Held
  <2>9. \A q \in Renderers : Alive(q) => Alive(q)' BY <1>1 DEF Alive
  <2> QED BY <2>5, <2>7, <2>8, <2>9, PendingStays
<1> QED BY <1>2, <1>3

(* The answer of a step that is over goes to the page that waits for it.   *)
LEMMA AnswerPending ==
  ASSUME IInv, PendingOK, NEW p \in Peers, reconcile(p) \/ RelayAnswers(p)
  PROVE  PendingOK'
<1>1. /\ UNCHANGED <<wc, toMain>> /\ coverage[p].steps # <<>>
      /\ \A q \in Peers : q # p => coverage'[q] = coverage[q]
  BY Answers DEF coverageRest, pageVars
<1>2. CASE coverage'[p].steps = coverage[p].steps /\ calls' = calls /\ toPage' = toPage
  <2>1. \A q \in Peers : Serves(coverage[q].steps) \subseteq Serves(coverage'[q].steps)
    <3>1. \A q \in Peers : coverage'[q].steps = coverage[q].steps BY <1>1, <1>2
    <3> QED BY <3>1
  <2> QED BY <1>1, <1>2, <2>1, SameCallsPend, PendingQuiet DEF Alive
<1>3. CASE FirstOver(p)
  <2>0. PICK i \in Nat : i = coverage[p].steps[1].call BY <1>3 DEF FirstOver
  <2> DEFINE m == Message("reply", i)
  <2>1. \A q \in Peers : Serves(coverage[q].steps) \ {i} \subseteq Serves(coverage'[q].steps)
    <3>1. coverage[p].steps \in Seq(Step) BY BookTypes
    <3>2. Serves(coverage[p].steps) \ {i} \subseteq Serves(coverage'[p].steps)
      BY <1>1, <1>3, <2>0, <3>1, ServesRest DEF FirstOver
    <3> QED BY <1>1, <3>2
  <2>2. \A q \in Renderers : Alive(q) => Alive(q)' BY <1>1 DEF Alive
  <2>3. CASE i = 0
    <3>1. calls' = calls /\ toPage' = toPage BY <1>3, <2>0, <2>3 DEF FirstOver
    <3>2. Waited(i) BY <1>1, <2>1, <3>1 DEF Waited
    <3>3. i \notin DOMAIN calls BY <2>3, BookTypes
    <3> QED BY <2>2, <3>1, <3>2, <3>3, SameCallsPend, PendingStays
  <2>4. CASE i # 0
    <3>0. PICK x \in {"ok", "error", "aborted"} : calls' = [calls EXCEPT ![i].outcome = x]
      BY <1>3, <2>0, <2>4 DEF FirstOver
    <3>1. i \in DOMAIN calls /\ toPage' = Give(toPage, {calls[i].page}, m)
      BY <1>3, <2>0, <2>4 DEF FirstOver
    <3>2. m \in Notice /\ m.what = "reply" /\ m.n = i BY DEF Message, Notice
    <3> HIDE DEF m
    <3>3. \A j \in DOMAIN calls : calls[j] \in Call /\ calls[j].page \in Renderers
      <4>1. \A j \in DOMAIN calls : calls[j] \in Call BY BookTypes
      <4> QED BY <4>1 DEF Call
    <3>4. /\ DOMAIN calls' = DOMAIN calls
          /\ \A j \in DOMAIN calls : calls'[j].page = calls[j].page /\ calls'[j].promise = calls[j].promise
      BY <3>0, <3>3 DEF Call
    <3>5. SamePending BY <3>4 DEF SamePending
    <3>6. /\ \A q \in Renderers : Replied(toPage[q]) \subseteq Replied(toPage'[q])
          /\ \A q \in Renderers : q \in {calls[i].page} /\ Alive(q) => i \in Replied(toPage'[q])
      BY <3>1, <3>2, GiveWaits
    <3>7. Waited(i) BY <1>1, <2>1, <3>6 DEF Waited
    <3>8. calls'[i].promise = "pending" => Held(i)'
      <4>1. calls'[i].promise = "pending" => Alive(calls[i].page) BY <3>1, <3>4 DEF PendingOK
      <4>2. calls'[i].promise = "pending" => i \in Replied(toPage'[calls[i].page]) BY <3>1, <3>3, <3>6, <4>1
      <4> QED BY <3>1, <3>4, <4>2 DEF Held
    <3> QED BY <2>2, <3>5, <3>7, <3>8, PendingStays
  <2> QED BY <2>3, <2>4
<1> QED BY <1>2, <1>3, Answers

LEMMA PendingInit ==
  ASSUME Init
  PROVE  PendingOK
BY DEF Init, PendingOK

LEMMA PendingKeep ==
  ASSUME IInv, IInv', Books, PendingOK, ~Reloads, [Next]_vars
  PROVE  PendingOK'
<1>1. ASSUME NEW r \in Renderers,
             \/ createRendererBridge(r) \/ close(r) \/ onOutput(r) \/ onConnectionState(r) \/ onReply(r)
             \/ Destroy(r) \/ register(r) \/ unregister(r) \/ ack(r) \/ onDestroyed(r)
      PROVE  PendingOK'
  BY <1>1, createRendererBridgePending, closePending, onOutputPending, onConnectionStatePending, onReplyPending,
     DestroyPending, registerPending, unregisterPending, ackPending, onDestroyedPending
<1>2. ASSUME NEW r \in Renderers, handle(r) \/ Unheard(r) PROVE PendingOK'
  BY <1>2, handlePending, UnheardPending
<1>3. ASSUME NEW r \in Renderers, NEW method \in {"enable", "disable"}, invoke(r, method) PROVE PendingOK'
  BY <1>3, invokePending
<1>4. ASSUME NEW i \in DOMAIN calls, withTimeout(i) PROVE PendingOK' BY <1>4, withTimeoutPending
<1>5. broadcast \/ broadcastClosed \/ dispose \/ write => PendingOK'
  BY broadcastPending, broadcastClosedPending, disposePending, writePending
<1>6. ASSUME NEW p \in Peers, reconcile(p) \/ RelayAnswers(p) PROVE PendingOK' BY <1>6, AnswerPending
<1>7. UNCHANGED bridgeVars => PendingOK' BY FlowPending
<1>8. UNCHANGED vars => UNCHANGED bridgeVars BY DEF vars, bridgeVars
<1> QED BY <1>1, <1>2, <1>3, <1>4, <1>5, <1>6, <1>7, <1>8 DEF Next

-----------------------------------------------------------------------------
(* At rest *)

LEMMA EmptyBoxes ==
  /\ Invoked(<<>>) = {} /\ Replied(<<>>) = {} /\ Serves(<<>>) = {}
  /\ ~LastOpens(<<>>) /\ \A state, end : Shows(<<>>, state, end) => state = IF end THEN "closed" ELSE "ready"
<1>1. DOMAIN <<>> = {} OBVIOUS
<1>2. \A s : DOMAIN s = {} => /\ Invoked(s) = {} /\ Replied(s) = {} /\ Serves(s) = {}
                              /\ ~LastOpens(s) /\ \A n : ~Newest(s, n)
  BY DEF Invoked, Replied, Serves, LastOpens, Newest
<1>3. /\ Invoked(<<>>) = {} /\ Replied(<<>>) = {} /\ Serves(<<>>) = {}
      /\ ~LastOpens(<<>>) /\ \A n : ~Newest(<<>>, n)
  BY <1>1, <1>2
<1> QED BY <1>3 DEF Shows

LEMMA InStep ==
  ASSUME IInv, Books, Faces, PendingOK
  PROVE  InStepAtRest
<1> SUFFICES ASSUME AtRest
             PROVE  /\ \A r \in Renderers : proxy[r].open /\ ~disposed =>
                         r \in Subscribed /\ proxy[r].state = IF live THEN "ready" ELSE "closed"
                    /\ \A i \in DOMAIN calls : calls[i].promise # "pending"
                    /\ \A p \in ledger.registered :
                         coverage[p].count = Standing(p) /\ (coverage[p].held <=> coverage[p].count > 0)
  BY DEF InStepAtRest
<1>1. /\ \A p \in Peers : coverage[p].steps = <<>>
      /\ \A r \in Renderers : toMain[r] = <<>> /\ toPage[r] = <<>>
      /\ live \/ told
  BY DEF AtRest, Turn
<1>2. ASSUME NEW r \in Renderers, proxy[r].open, ~disposed
      PROVE  r \in Subscribed /\ proxy[r].state = IF live THEN "ready" ELSE "closed"
  <2>1. FaceOK(r) /\ (told => ~live) BY DEF Faces
  <2>2. r \in Subscribed /\ Shows(<<>>, proxy[r].state, told) BY <1>1, <1>2, <2>1, EmptyBoxes DEF FaceOK
  <2>3. proxy[r].state = IF told THEN "closed" ELSE "ready" BY <2>2, EmptyBoxes
  <2> QED BY <1>1, <2>1, <2>2, <2>3
<1>3. ASSUME NEW i \in DOMAIN calls PROVE calls[i].promise # "pending"
  <2>1. calls[i].page \in Renderers
    <3>1. calls[i] \in Call BY BookTypes
    <3> QED BY <3>1 DEF Call
  <2>2. ~Held(i) BY <1>1, <2>1, EmptyBoxes DEF Held
  <2> QED BY <2>2 DEF PendingOK
<1>4. ASSUME NEW p \in ledger.registered
      PROVE  coverage[p].count = Standing(p) /\ (coverage[p].held <=> coverage[p].count > 0)
  <2> DEFINE w == Cardinality(Wins(calls, p))  u == Cardinality(Undoes(calls, p))
  <2>1. p \in PeersOf(Known) BY DEF IInv, Registry
  <2>2. p \in Peers /\ coverage[p] \in Cover /\ calls \in Seq(Call) BY <2>1, BookTypes
  <2>3. Even(coverage[p], w, u) /\ Earned(calls, p) BY <2>1 DEF Books, BalanceOK, EarnOK
  <2>4. w \in Nat /\ u \in Nat /\ Standing(p) = w - u BY <2>2, <2>3, StandingIs
  <2>5. coverage[p].steps = <<>> /\ Enables(coverage[p].steps) = 0
    <3>1. coverage[p].steps = <<>> BY <1>1, <2>2
    <3>2. <<>> \in Seq(Step) OBVIOUS
    <3> QED BY <3>1, <3>2, EnablesDo
  <2>6. coverage[p].count \in Nat /\ coverage[p].held \in BOOLEAN BY <2>2, CoverParts
  <2> HIDE DEF w, u
  <2>7. /\ coverage[p].count = w - u /\ (~coverage[p].held => w = u)
        /\ coverage[p].held => coverage[p].count # 0
    <3>1. coverage[p].count = w - u + Enables(coverage[p].steps) BY <2>3 DEF Even
    <3>2. (~coverage[p].held => w = u) /\ (coverage[p].held => coverage[p].count # 0) BY <2>3, <2>5 DEF Even
    <3> QED BY <2>4, <2>5, <3>1, <3>2
  <2>8. ~coverage[p].held => coverage[p].count = 0 BY <2>4, <2>7
  <2>9. coverage[p].count > 0 <=> coverage[p].count # 0 BY <2>6
  <2> QED BY <2>4, <2>6, <2>7, <2>8, <2>9
<1> QED BY <1>2, <1>3, <1>4

(* With every message delivered, the two processes agree, for any number   *)
(* of windows that are not replaced without close() and that give up only  *)
(* coverage they were granted (sender-registry.ts; invoke-pipeline.ts,     *)
(* cross-session-layout-ledger.ts): an open proxy is registered and shows  *)
(* the client's state, no promise is left without an answer, and the relay *)
(* holds its reference for a window exactly while enables it was granted   *)
(* stand, whatever the order of calls, refusals, time-outs and departures. *)
THEOREM SidesAgree ==
  ASSUME ~Reloads, ~Eager
  PROVE  Spec => []InStepAtRest
<1> DEFINE Inv == IInv /\ Windows /\ Books /\ Faces /\ PendingOK
<1>1. Init => Inv BY InitHolds, WindowsInit, BooksInit, FacesInit, PendingInit
<1>2. Inv /\ [Next]_vars => Inv'
  <2> SUFFICES ASSUME Inv, [Next]_vars PROVE Inv' OBVIOUS
  <2>1. IInv' BY StepKeeps
  <2>2. Windows' BY <2>1, WindowsKeep
  <2>3. Books' BY BooksKeep
  <2>4. Faces' BY FacesKeep
  <2>5. PendingOK' BY <2>1, PendingKeep
  <2> QED BY <2>1, <2>2, <2>3, <2>4, <2>5
<1>3. Inv => InStepAtRest BY InStep
<1> QED BY <1>1, <1>2, <1>3, PTL DEF Spec
=============================================================================
