-------------------------- MODULE PaneStreamProofs --------------------------
(***************************************************************************)
(* One capture of a stream is under way at most, for any panes, outages,   *)
(* mounts and refusals (PaneStream): what attach(), reseed() and seed() of *)
(* packages/pane-terminal/src/stream/pane-stream.ts guard with the phase   *)
(* of the seed cycle, and the scheduler's sweep relies on.                 *)
(***************************************************************************)
EXTENDS PaneStream, WellFoundedInduction, NaturalsInduction, FiniteSetTheorems, FunctionTheorems, TLAPS

Command == [what : {"capture", "state", "subscribe", "unsubscribe"}, pane : Panes]
Sent == [what : {"output", "capture", "no capture", "state", "size", "no subscribe"}, pane : Panes, n : Snapshot]

Fits(s) ==
  /\ s.attached <=> s.state \in {"seeding", "live"}
  /\ s.stale => s.phase = "capturing"

At(q, S) == {i \in 1..Len(q) : q[i] \in S}
Request(p) == {Asks("capture", p)}
Answer(p) == {m \in Sent : m.what \in {"capture", "no capture"} /\ m.pane = p}

(* A capture of a stream in state s is under way in commands q or answers  *)
(* w once at most, and only while the stream waits for its first answer.   *)
Due(s) == s.phase = "capturing" /\ s.answer = Nothing
One(s, q, w, p) ==
  /\ Single(At(q, Request(p))) /\ Single(At(w, Answer(p)))
  /\ At(q, Request(p)) = {} \/ At(w, Answer(p)) = {}
  /\ At(q, Request(p)) # {} \/ At(w, Answer(p)) # {} => Due(s)

Numbered(w) == \A i \in 1..Len(w) : w[i].what = "output" => w[i].n \in Chunks

IInv ==
  /\ TypeOK
  /\ Numbered(pipe)
  /\ \A p \in Panes : One(stream[p], asked, pipe, p)

-----------------------------------------------------------------------------
(* Sequences *)

LEMMA Least ==
  ASSUME NEW S \in SUBSET Nat, S # {}
  PROVE  \E n \in S : \A m \in S : n <= m
<1>1. IsWellFoundedOn(OpToRel(<, Nat), Nat) BY NatLessThanWellFounded
<1>2. PICK n \in S : \A m \in S : ~(<<m, n>> \in OpToRel(<, Nat)) BY <1>1, WFMin
<1>3. \A m \in S : ~(m < n) BY <1>2 DEF OpToRel
<1> QED BY <1>3

LEMMA AtTail ==
  ASSUME NEW T, NEW s \in Seq(T), s # <<>>, NEW S
  PROVE  /\ Tail(s) \in Seq(T) /\ Head(s) \in T
         /\ Single(At(s, S)) => Single(At(Tail(s), S))
         /\ At(s, S) = {} => At(Tail(s), S) = {}
         /\ Head(s) \in S => At(s, S) # {}
         /\ Head(s) \in S /\ Single(At(s, S)) => At(Tail(s), S) = {}
<1>1. /\ Tail(s) \in Seq(T) /\ Len(Tail(s)) = Len(s) - 1 /\ Len(s) \in Nat \ {0}
      /\ Head(s) = s[1] /\ 1 \in 1..Len(s) /\ Head(s) \in T
      /\ \A i \in 1..(Len(s) - 1) : i + 1 \in 1..Len(s) /\ Tail(s)[i] = s[i + 1]
  OBVIOUS
<1>2. \A i \in At(Tail(s), S) : i \in Nat \ {0} /\ i + 1 \in At(s, S) BY <1>1 DEF At
<1>3. Single(At(s, S)) => Single(At(Tail(s), S))
  <2>1. SUFFICES ASSUME Single(At(s, S)), NEW i \in At(Tail(s), S), NEW j \in At(Tail(s), S) PROVE i = j BY DEF Single
  <2>2. i + 1 = j + 1 /\ i \in Nat /\ j \in Nat BY <1>2, <2>1 DEF Single
  <2> QED BY <2>2
<1>4. Head(s) \in S => 1 \in At(s, S) BY <1>1 DEF At
<1>5. ASSUME Head(s) \in S, Single(At(s, S)), NEW i \in At(Tail(s), S) PROVE FALSE
  <2>1. i + 1 = 1 /\ i \in Nat \ {0} BY <1>2, <1>4, <1>5 DEF Single
  <2> QED BY <2>1
<1> QED BY <1>1, <1>2, <1>3, <1>4, <1>5

LEMMA AtAppend ==
  ASSUME NEW T, NEW s \in Seq(T), NEW x \in T, NEW S
  PROVE  /\ Append(s, x) \in Seq(T)
         /\ x \notin S => At(Append(s, x), S) = At(s, S)
         /\ At(s, S) = {} => Single(At(Append(s, x), S))
<1>1. /\ Append(s, x) \in Seq(T) /\ Len(Append(s, x)) = Len(s) + 1 /\ Len(s) \in Nat
      /\ Append(s, x)[Len(s) + 1] = x
      /\ \A i \in 1..Len(s) : i \in 1..(Len(s) + 1) /\ Append(s, x)[i] = s[i]
      /\ \A i \in 1..(Len(s) + 1) : i \in 1..Len(s) \/ i = Len(s) + 1
  OBVIOUS
<1>2. x \notin S => At(Append(s, x), S) = At(s, S) BY <1>1 DEF At
<1>3. ASSUME At(s, S) = {}, NEW i \in At(Append(s, x), S) PROVE i = Len(s) + 1
  BY <1>1, <1>3 DEF At
<1> QED BY <1>1, <1>2, <1>3 DEF Single

LEMMA AtConcat ==
  ASSUME NEW T, NEW s \in Seq(T), NEW t \in Seq(T), NEW S
  PROVE  /\ s \o t \in Seq(T)
         /\ At(t, S) = {} => At(s \o t, S) = At(s, S)
         /\ At(s, S) = {} /\ Single(At(t, S)) => Single(At(s \o t, S))
<1>1. /\ s \o t \in Seq(T) /\ Len(s \o t) = Len(s) + Len(t) /\ Len(s) \in Nat /\ Len(t) \in Nat
      /\ \A i \in 1..Len(s) : i \in 1..(Len(s) + Len(t)) /\ (s \o t)[i] = s[i]
      /\ \A i \in 1..(Len(s) + Len(t)) : i \notin 1..Len(s) => i - Len(s) \in 1..Len(t) /\ (s \o t)[i] = t[i - Len(s)]
  OBVIOUS
<1>2. ASSUME At(t, S) = {} PROVE At(s \o t, S) = At(s, S)
  <2>1. \A i \in At(s \o t, S) : i \in At(s, S) BY <1>1, <1>2 DEF At
  <2>2. \A i \in At(s, S) : i \in At(s \o t, S) BY <1>1 DEF At
  <2> QED BY <2>1, <2>2
<1>3. ASSUME At(s, S) = {}, Single(At(t, S)) PROVE Single(At(s \o t, S))
  <2>1. \A i \in At(s \o t, S) : i \in Nat /\ i - Len(s) \in At(t, S) BY <1>1, <1>3 DEF At
  <2>2. SUFFICES ASSUME NEW i \in At(s \o t, S), NEW j \in At(s \o t, S) PROVE i = j BY DEF Single
  <2>3. i - Len(s) = j - Len(s) BY <1>3, <2>1 DEF Single
  <2> QED BY <1>1, <2>1, <2>3
<1> QED BY <1>1, <1>2, <1>3

LEMMA AtNothing == ASSUME NEW S PROVE At(<<>>, S) = {}
BY DEF At

-----------------------------------------------------------------------------
(* The lists of commands a capture or a sweep asks for *)

LEMMA ListOf ==
  ASSUME NEW S, IsFiniteSet(S)
  PROVE  SetToSeq(S) \in Seq(S) /\ IsInjective(SetToSeq(S))
<1> DEFINE k == Cardinality(S)  f == SetToSeq(S)
<1>1. k \in Nat /\ ExistsBijection(1..k, S) BY FS_CardinalityType
<1>2. PICK b \in Bijection(1..k, S) : TRUE BY <1>1 DEF ExistsBijection
<1>3. b \in [1..k -> S] /\ IsInjective(b) BY <1>2 DEF Bijection, Injection, IsInjective
<1>4. f \in [1..k -> S] /\ IsInjective(f)
  <2> HIDE DEF k
  <2> QED BY <1>3 DEF SetToSeq, k
<1> HIDE DEF f, k
<1>5. f \in Seq(S) BY <1>1, <1>4
<1> QED BY <1>4, <1>5 DEF f

LEMMA FirstFound ==
  ASSUME NEW todo \in Seq(Panes), NEW ss
  PROVE  LET k == SelectInSeq(todo, LAMBDA p : Reseeds(ss[p]))
         IN  k \in Nat /\ (k # 0 => k \in 1..Len(todo) /\ Reseeds(ss[todo[k]]))
<1> DEFINE I == {i \in 1..Len(todo) : Reseeds(ss[todo[i]])}
<1>1. SelectInSeq(todo, LAMBDA p : Reseeds(ss[p])) = IF I # {} THEN Min(I) ELSE 0
  BY DEF SelectInSeq
<1>2. ASSUME I # {} PROVE Min(I) \in I
  <2>1. I \in SUBSET Nat OBVIOUS
  <2>2. \E n \in I : \A m \in I : n <= m
    <3> HIDE DEF I
    <3> QED BY <1>2, <2>1, Least
  <2> HIDE DEF I
  <2> QED BY <2>2 DEF Min
<1> QED BY <1>1, <1>2

LEMMA CapturesIn ==
  ASSUME NEW ps \in Seq(Panes), NEW p \in Panes, NEW i \in At(Captures(ps), Request(p))
  PROVE  \E j \in 1..Len(ps) : i = 2 * j - 1 /\ ps[j] = p
<1>1. Len(ps) \in Nat /\ Len(Captures(ps)) = 2 * Len(ps)
  BY DEF Captures
<1>2. i \in 1..(2 * Len(ps)) /\ Captures(ps)[i] = Asks("capture", p) BY <1>1 DEF At, Request
<1>3. Captures(ps)[i] = Asks(IF i % 2 = 1 THEN "capture" ELSE "state", ps[(i + 1) \div 2]) BY <1>2 DEF Captures
<1>4. i % 2 = 1 /\ ps[(i + 1) \div 2] = p BY <1>2, <1>3 DEF Asks
<1>5. (i + 1) \div 2 \in 1..Len(ps) /\ i = 2 * ((i + 1) \div 2) - 1 BY <1>1, <1>2, <1>4
<1> QED BY <1>4, <1>5

(* A list without repetitions asks once for the capture of each of its     *)
(* panes, and for no other.                                                *)
LEMMA CapturesOnce ==
  ASSUME NEW ps \in Seq(Panes), IsInjective(ps), NEW p \in Panes
  PROVE  /\ Captures(ps) \in Seq(Command)
         /\ Single(At(Captures(ps), Request(p)))
         /\ (\A j \in 1..Len(ps) : ps[j] # p) => At(Captures(ps), Request(p)) = {}
<1>1. Captures(ps) \in Seq(Command)
  <2>1. Len(ps) \in Nat /\ 2 * Len(ps) \in Nat /\ \A j \in 1..Len(ps) : ps[j] \in Panes OBVIOUS
  <2>2. ASSUME NEW i \in 1..(2 * Len(ps)) PROVE (i + 1) \div 2 \in 1..Len(ps) BY <2>1
  <2>3. ASSUME NEW i \in 1..(2 * Len(ps))
        PROVE  Asks(IF i % 2 = 1 THEN "capture" ELSE "state", ps[(i + 1) \div 2]) \in Command
    <3>1. ps[(i + 1) \div 2] \in Panes BY <2>1, <2>2
    <3> QED BY <3>1 DEF Asks, Command
  <2>4. Captures(ps) \in [1..(2 * Len(ps)) -> Command] BY <2>3 DEF Captures
  <2> QED BY <2>1, <2>4
<1>2. ASSUME NEW i \in At(Captures(ps), Request(p)), NEW j \in At(Captures(ps), Request(p)) PROVE i = j
  <2>1. PICK a \in 1..Len(ps) : i = 2 * a - 1 /\ ps[a] = p BY CapturesIn
  <2>2. PICK b \in 1..Len(ps) : j = 2 * b - 1 /\ ps[b] = p BY CapturesIn
  <2>3. a = b BY <2>1, <2>2 DEF IsInjective
  <2> QED BY <2>1, <2>2, <2>3
<1>3. ASSUME \A j \in 1..Len(ps) : ps[j] # p, NEW i \in At(Captures(ps), Request(p)) PROVE FALSE
  BY <1>3, CapturesIn
<1> QED BY <1>1, <1>2, <1>3 DEF Single

-----------------------------------------------------------------------------
(* Views and streams *)

LEMMA PaintedType ==
  ASSUME NEW screen \in Seq(Chunks), NEW n \in Snapshot
  PROVE  Painted(screen, n) \in Seq(Chunks)
<1>1. MaxOutput \in Nat BY PaneAssumption
<1>2. ASSUME n # Nothing PROVE [i \in 1..n |-> i] \in Seq(Chunks)
  <2>1. n \in Nat /\ \A i \in 1..n : i \in Chunks BY <1>1, <1>2 DEF Snapshot, Chunks
  <2> QED BY <2>1
<1> QED BY <1>2 DEF Painted

LEMMA FreshType == FreshView \in View
<1>1. Nothing \in Snapshot BY DEF Snapshot
<1>2. <<>> \in Seq(Chunks) OBVIOUS
<1> QED BY <1>1, <1>2 DEF FreshView, View

LEMMA DrainType == ASSUME NEW v \in View PROVE Drain(v) \in View
<1>1. Painted(v.screen, v.seed) \in Seq(Chunks) BY PaintedType DEF View
<1>2. Painted(v.screen, v.seed) \o v.writes \in Seq(Chunks) BY <1>1 DEF View
<1>3. Nothing \in Snapshot /\ <<>> \in Seq(Chunks) BY DEF Snapshot
<1> QED BY <1>2, <1>3 DEF Drain, View

LEMMA WriteType == ASSUME NEW v \in View, NEW c \in Seq(Chunks) PROVE Write(v, c) \in View
<1>1. v.screen \o c \in Seq(Chunks) /\ v.writes \o c \in Seq(Chunks) BY DEF View
<1> DEFINE held == [v EXCEPT !.writes = @ \o c]
<1>2. [v EXCEPT !.screen = @ \o c] \in View /\ held \in View BY <1>1 DEF View
<1>3. Drain(held) \in View BY <1>2, DrainType
<1> QED BY <1>2, <1>3 DEF Write

LEMMA SeededType ==
  ASSUME NEW v \in View, NEW n \in Snapshot, NEW c \in Seq(Chunks)
  PROVE  Seeded(v, n, c) \in View
<1>1. Painted(v.screen, n) \in Seq(Chunks) BY PaintedType DEF View
<1> DEFINE w == IF v.open THEN [v EXCEPT !.screen = Painted(@, n)] ELSE [v EXCEPT !.seed = n]
<1>2. w \in View BY <1>1 DEF View
<1>3. Seeded(v, n, c) = Write(w, c) BY DEF Seeded
<1> HIDE DEF w
<1> QED BY <1>2, <1>3, WriteType

LEMMA ShownType ==
  ASSUME NEW s \in Stream, NEW v \in View, NEW how
  PROVE  Shown(s, v, how) \in View
<1>1. Nothing \in Snapshot /\ s.answer \in Snapshot /\ s.buffer \in Seq(Chunks) BY DEF Stream, Snapshot
<1>2. (IF how = "ok" THEN s.answer ELSE Nothing) \in Snapshot BY <1>1
<1>3. Seeded(v, IF how = "ok" THEN s.answer ELSE Nothing, s.buffer) \in View BY <1>1, <1>2, SeededType
<1> QED BY <1>3 DEF Shown

LEMMA CapturingType ==
  ASSUME NEW s \in Stream
  PROVE  /\ Capturing(s) \in Stream /\ Idle(s) \in Stream
         /\ Due(Capturing(s)) /\ ~Capturing(s).stale /\ Capturing(s).phase = "capturing"
         /\ Capturing(s).state = s.state /\ Capturing(s).attached = s.attached
         /\ Idle(s).state = s.state /\ Idle(s).attached = s.attached /\ ~Idle(s).stale /\ Idle(s).phase = "idle"
<1>1. Nothing \in Snapshot BY DEF Snapshot
<1> QED BY <1>1 DEF Capturing, Idle, Due, Stream

LEMMA StaleType ==
  ASSUME NEW s \in Stream, Fits(s)
  PROVE  LET t == markSeedStale([s EXCEPT !.lastSeed = Nothing])
         IN  t \in Stream /\ Fits(t) /\ (Due(t) <=> Due(s))
<1>1. Nothing \in Snapshot BY DEF Snapshot
<1> QED BY <1>1 DEF markSeedStale, Due, Fits, Stream

(* A settled capture leaves a stream that is asked for again, or idle.     *)
LEMMA SettledType ==
  ASSUME NEW s \in Stream, Fits(s), NEW how, s.stale => s.phase = "capturing"
  PROVE  /\ Settled(s, how) \in Stream /\ Fits(Settled(s, how))
         /\ Reissues(s) => Due(Settled(s, how)) /\ Settled(s, how).phase = "capturing"
<1> DEFINE r == IF how = "refused" /\ s.state # "disposed" THEN [s EXCEPT !.errors = @ \cup {"seed"}] ELSE s
           c == IF how = "ok" THEN [r EXCEPT !.lastSeed = s.answer, !.errors = @ \ {"seed"}] ELSE r
<1>1. r \in Stream /\ r.state = s.state /\ r.attached = s.attached BY DEF Stream
<1>2. c \in Stream /\ c.state = s.state /\ c.attached = s.attached
  <2>1. s.answer \in Snapshot BY DEF Stream
  <2> HIDE DEF r
  <2>2. ASSUME how = "ok" PROVE c \in Stream /\ c.state = s.state /\ c.attached = s.attached
    <3>1. [r EXCEPT !.lastSeed = s.answer, !.errors = @ \ {"seed"}] = [[r EXCEPT !.lastSeed = s.answer] EXCEPT !.errors = @ \ {"seed"}]
      BY <1>1 DEF Stream
    <3> QED BY <1>1, <2>1, <2>2, <3>1 DEF Stream
  <2> QED BY <1>1, <2>2
<1>3. Settled(s, how) = IF s.state = "disposed" THEN Idle(s)
     ELSE IF Reissues(s) THEN [Capturing(r) EXCEPT !.buffer = <<>>]
     ELSE IF s.stale THEN Idle(r)
     ELSE IF s.attached THEN [Idle(c) EXCEPT !.state = "live", !.buffer = <<>>]
     ELSE Idle(c)
  BY DEF Settled
<1> HIDE DEF r, c
<1> DEFINE u == Capturing(r)  i == Idle(c)
<1>4. /\ Idle(s) \in Stream /\ Fits(Idle(s)) /\ Idle(r) \in Stream /\ Fits(Idle(r))
      /\ i \in Stream /\ Fits(i) /\ i.attached = s.attached /\ ~i.stale
      /\ u \in Stream /\ Due(u) /\ Fits(u) /\ u.phase = "capturing"
  BY <1>1, <1>2, CapturingType DEF Fits
<1>5. <<>> \in Seq(Chunks) OBVIOUS
<1>6. [u EXCEPT !.buffer = <<>>] \in Stream /\ Due([u EXCEPT !.buffer = <<>>]) /\ Fits([u EXCEPT !.buffer = <<>>])
      /\ [u EXCEPT !.buffer = <<>>].phase = "capturing"
  <2> HIDE DEF u
  <2> QED BY <1>4, <1>5 DEF Stream, Due, Fits
<1>7. ASSUME s.attached
      PROVE  [i EXCEPT !.state = "live", !.buffer = <<>>] \in Stream /\ Fits([i EXCEPT !.state = "live", !.buffer = <<>>])
  <2> HIDE DEF i
  <2> QED BY <1>4, <1>5, <1>7 DEF Stream, Fits
<1>8. Reissues(s) => s.state # "disposed" BY DEF Reissues
<1> HIDE DEF u, i
<1> QED BY <1>3, <1>4, <1>6, <1>7, <1>8 DEF u, i

-----------------------------------------------------------------------------
(* A capture that is asked for, a sweep that goes on, a capture that has   *)
(* settled                                                                 *)

LEMMA OneMore ==
  ASSUME NEW p \in Panes, NEW s, NEW t, NEW q \in Seq(Command), NEW c \in Seq(Command), NEW w
  PROVE  /\ One(s, q, w, p) /\ At(c, Request(p)) = {} /\ (Due(s) => Due(t)) => One(t, q \o c, w, p)
         /\ At(q, Request(p)) = {} /\ At(w, Answer(p)) = {} /\ Single(At(c, Request(p))) /\ Due(t)
              => One(t, q \o c, w, p)
<1>1. /\ At(c, Request(p)) = {} => At(q \o c, Request(p)) = At(q, Request(p))
      /\ At(q, Request(p)) = {} /\ Single(At(c, Request(p))) => Single(At(q \o c, Request(p)))
  BY AtConcat
<1>2. At(w, Answer(p)) = {} => Single(At(w, Answer(p))) BY DEF Single
<1> QED BY <1>1, <1>2 DEF One

LEMMA OneNone ==
  ASSUME NEW p, NEW s, NEW q, NEW w, At(q, Request(p)) = {}, At(w, Answer(p)) = {}
  PROVE  One(s, q, w, p)
BY DEF One, Single

LEMMA OnlyAsked ==
  ASSUME NEW a \in Panes, NEW p \in Panes
  PROVE  /\ Captures(<<a>>) \in Seq(Command) /\ Single(At(Captures(<<a>>), Request(p)))
         /\ p # a => At(Captures(<<a>>), Request(p)) = {}
<1>1. <<a>> \in Seq(Panes) /\ Len(<<a>>) = 1 /\ \A j \in 1..Len(<<a>>) : <<a>>[j] = a OBVIOUS
<1>2. IsInjective(<<a>>) BY <1>1 DEF IsInjective
<1> QED BY <1>1, <1>2, CapturesOnce

LEMMA RunsStep ==
  ASSUME NEW ss \in [Panes -> Stream], \A p \in Panes : Fits(ss[p]), NEW todo \in Seq(Panes),
         NEW q \in Seq(Command), NEW w, \A p \in Panes : One(ss[p], q, w, p)
  PROVE  LET k == SelectInSeq(todo, LAMBDA p : Reseeds(ss[p]))
             tt == IF k = 0 THEN ss ELSE [ss EXCEPT ![todo[k]] = Capturing([@ EXCEPT !.state = "seeding"])]
         IN  /\ tt \in [Panes -> Stream] /\ \A p \in Panes : Fits(tt[p])
             /\ RunsAsk(ss, todo) \in Seq(Command)
             /\ \A p \in Panes : One(tt[p], q \o RunsAsk(ss, todo), w, p)
             /\ k # 0 => todo[k] \in Panes /\ SubSeq(todo, k + 1, Len(todo)) \in Seq(Panes)
<1> DEFINE k == SelectInSeq(todo, LAMBDA p : Reseeds(ss[p]))
           tt == IF k = 0 THEN ss ELSE [ss EXCEPT ![todo[k]] = Capturing([@ EXCEPT !.state = "seeding"])]
<1>1. k \in Nat /\ (k # 0 => k \in 1..Len(todo) /\ Reseeds(ss[todo[k]])) BY FirstFound DEF SelectInSeq
<1>2. RunsAsk(ss, todo) = IF k = 0 THEN <<>> ELSE Captures(<<todo[k]>>) BY DEF RunsAsk
<1> HIDE DEF k
<1>3. CASE k = 0
  <2>1. tt = ss /\ RunsAsk(ss, todo) = <<>> /\ <<>> \in Seq(Command) BY <1>2, <1>3
  <2>2. ASSUME NEW p \in Panes PROVE One(ss[p], q \o <<>>, w, p)
    <3>1. q \o <<>> = q OBVIOUS
    <3> QED BY <3>1
  <2> QED BY <1>3, <2>1, <2>2 DEF k
<1>4. CASE k # 0
  <2> DEFINE a == todo[k]  s == [ss[a] EXCEPT !.state = "seeding"]
  <2>1. a \in Panes /\ Reseeds(ss[a]) /\ k + 1 \in Nat /\ Len(todo) \in Nat BY <1>1, <1>4
  <2>2. SubSeq(todo, k + 1, Len(todo)) \in Seq(Panes) BY <1>1, <1>4
  <2>3. RunsAsk(ss, todo) = Captures(<<a>>) BY <1>2, <1>4
  <2>4. s \in Stream /\ s.attached /\ s.state = "seeding"
    <3>1. ss[a] \in Stream BY <2>1
    <3>2. ss[a].attached BY <2>1 DEF Reseeds
    <3> HIDE DEF a
    <3> QED BY <3>1, <3>2 DEF Stream
  <2>5. Capturing(s) \in Stream /\ Fits(Capturing(s)) /\ Due(Capturing(s)) BY <2>4, CapturingType DEF Fits
  <2>6. ~Due(ss[a]) BY <2>1 DEF Reseeds, Due
  <2>7. tt = [ss EXCEPT ![a] = Capturing(s)] BY <1>4
  <2> HIDE DEF a, s, tt
  <2>8. tt \in [Panes -> Stream] /\ \A p \in Panes : Fits(tt[p]) BY <2>1, <2>5, <2>7
  <2>9. ASSUME NEW p \in Panes PROVE One(tt[p], q \o Captures(<<a>>), w, p)
    <3>1. Captures(<<a>>) \in Seq(Command) /\ Single(At(Captures(<<a>>), Request(p)))
          /\ (p # a => At(Captures(<<a>>), Request(p)) = {}) BY <2>1, OnlyAsked
    <3>2. CASE p = a
      <4>1. At(q, Request(p)) = {} /\ At(w, Answer(p)) = {} BY <2>1, <2>6, <3>2 DEF One
      <4>2. Due(tt[p]) BY <2>1, <2>5, <2>7, <3>2
      <4> QED BY <3>1, <4>1, <4>2, OneMore
    <3>3. CASE p # a
      <4>1. tt[p] = ss[p] BY <2>7, <3>3
      <4> QED BY <3>1, <3>3, <4>1, OneMore
    <3> QED BY <3>2, <3>3
  <2>10. Captures(<<a>>) \in Seq(Command) BY <2>1, OnlyAsked
  <2> QED BY <2>1, <2>2, <2>3, <2>8, <2>9, <2>10 DEF k, tt, a, s
<1> QED BY <1>3, <1>4

Sweep == [awaits : Panes \cup {NoPane}, todo : Seq(Panes)]

LEMMA RunsNext ==
  ASSUME NEW ss \in [Panes -> Stream], \A p \in Panes : Fits(ss[p]), NEW todo \in Seq(Panes),
         NEW q \in Seq(Command), NEW w, \A p \in Panes : One(ss[p], q, w, p), Runs(ss, todo)
  PROVE  /\ stream' \in [Panes -> Stream] /\ \A p \in Panes : Fits(stream'[p])
         /\ RunsAsk(ss, todo) \in Seq(Command) /\ sweep' \in Sweep
         /\ \A p \in Panes : One(stream'[p], q \o RunsAsk(ss, todo), w, p)
<1> DEFINE k == SelectInSeq(todo, LAMBDA p : Reseeds(ss[p]))
           tt == IF k = 0 THEN ss ELSE [ss EXCEPT ![todo[k]] = Capturing([@ EXCEPT !.state = "seeding"])]
<1>1. /\ tt \in [Panes -> Stream] /\ \A p \in Panes : Fits(tt[p])
      /\ RunsAsk(ss, todo) \in Seq(Command)
      /\ \A p \in Panes : One(tt[p], q \o RunsAsk(ss, todo), w, p)
      /\ k # 0 => todo[k] \in Panes /\ SubSeq(todo, k + 1, Len(todo)) \in Seq(Panes)
  BY RunsStep DEF SelectInSeq
<1>2. IF k = 0 THEN stream' = ss /\ sweep' = [awaits |-> NoPane, todo |-> <<>>]
      ELSE /\ stream' = [ss EXCEPT ![todo[k]] = Capturing([@ EXCEPT !.state = "seeding"])]
           /\ sweep' = [awaits |-> todo[k], todo |-> SubSeq(todo, k + 1, Len(todo))]
  BY DEF Runs, SelectInSeq
<1> HIDE DEF k
<1>3. stream' = tt BY <1>2
<1> HIDE DEF tt
<1>4. sweep' \in Sweep
  <2>1. <<>> \in Seq(Panes) OBVIOUS
  <2>2. CASE k = 0
    <3>1. sweep' = [awaits |-> NoPane, todo |-> <<>>] BY <1>2, <2>2
    <3> QED BY <2>1, <3>1 DEF Sweep
  <2>3. CASE k # 0
    <3> DEFINE a == todo[k]  rest == SubSeq(todo, k + 1, Len(todo))
    <3>1. a \in Panes /\ rest \in Seq(Panes) /\ sweep' = [awaits |-> a, todo |-> rest] BY <1>1, <1>2, <2>3
    <3> HIDE DEF a, rest
    <3> QED BY <3>1 DEF Sweep
  <2> QED BY <2>2, <2>3
<1> QED BY <1>1, <1>3, <1>4

LEMMA SettleStep ==
  ASSUME IInv, NEW ps \in SUBSET Panes, NEW how, Settle(ps, how),
         NEW q \in Seq(Command), q = IF how = "gone" THEN <<>> ELSE asked, NEW w,
         \A p \in ps : At(q, Request(p)) = {} /\ At(w, Answer(p)) = {},
         \A p \in Panes \ ps : One(stream[p], q, w, p)
  PROVE  /\ stream' \in [Panes -> Stream] /\ \A p \in Panes : Fits(stream'[p])
         /\ sweep' \in Sweep /\ asked' \in Seq(Command) /\ view' \in [Panes -> View]
         /\ \A p \in Panes : One(stream'[p], asked', w, p)
<1> DEFINE ss == [p \in Panes |-> IF p \in ps THEN Settled(stream[p], how) ELSE stream[p]]
           A == {p \in ps : Reissues(stream[p])}
           again == SetToSeq(A)
           c == Captures(again)
           next == IF sweep.awaits \in ps THEN sweep.todo ELSE <<>>
<1>1. /\ IF sweep.awaits \in ps THEN Runs(ss, next) ELSE stream' = ss /\ UNCHANGED sweep
      /\ asked' = q \o c \o RunsAsk(ss, next)
      /\ view' = [p \in Panes |-> IF p \in ps THEN Shown(stream[p], view[p], how) ELSE view[p]]
  BY DEF Settle
<1>2. /\ stream \in [Panes -> Stream] /\ view \in [Panes -> View] /\ sweep \in Sweep
      /\ \A p \in Panes : Fits(stream[p]) /\ stream[p] \in Stream /\ view[p] \in View
      /\ \A p \in Panes : stream[p].stale => stream[p].phase = "capturing"
  <2>1. stream \in [Panes -> Stream] /\ view \in [Panes -> View] /\ sweep \in Sweep
    BY DEF IInv, TypeOK, Sweep
  <2>2. \A p \in Panes : /\ stream[p].attached <=> stream[p].state \in {"seeding", "live"}
                         /\ stream[p].stale => stream[p].phase = "capturing"
    <3>1. TypeOK BY DEF IInv
    <3> QED BY ONLY <3>1 DEF TypeOK
  <2> QED BY <2>1, <2>2 DEF Fits
<1>3. \A p \in Panes : Settled(stream[p], how) \in Stream /\ Fits(Settled(stream[p], how))
                       /\ (Reissues(stream[p]) => Due(Settled(stream[p], how)))
  BY <1>2, SettledType
<1>4. ss \in [Panes -> Stream] /\ \A p \in Panes : Fits(ss[p]) BY <1>2, <1>3
<1>5. again \in Seq(Panes) /\ IsInjective(again) /\ \A j \in 1..Len(again) : again[j] \in A
  <2>1. IsFiniteSet(A) /\ A \subseteq Panes BY FS_Subset, PaneAssumption
  <2> HIDE DEF A
  <2>2. SetToSeq(A) \in Seq(A) /\ IsInjective(SetToSeq(A)) BY <2>1, ListOf
  <2> HIDE DEF again
  <2>3. again \in Seq(A) /\ IsInjective(again) BY <2>2 DEF again
  <2> QED BY <2>1, <2>3
<1>6. c \in Seq(Command) /\ \A p \in Panes : /\ Single(At(c, Request(p)))
                                             /\ p \notin A => At(c, Request(p)) = {}
  <2> HIDE DEF again, A
  <2>1. c \in Seq(Command)
    <3>1. SUFFICES ASSUME Panes # {} PROVE c \in Seq(Command)
      <4>1. ASSUME Panes = {} PROVE c \in Seq(Command)
        <5>1. again = <<>> BY <1>5, <4>1
        <5> QED BY <5>1 DEF Captures
      <4> QED BY <4>1
    <3> QED BY <1>5, <3>1, CapturesOnce
  <2> QED BY <1>5, <2>1, CapturesOnce
<1>7. q \o c \in Seq(Command)
  <2> HIDE DEF c
  <2> QED BY <1>6
<1>8. ASSUME NEW p \in Panes PROVE One(ss[p], q \o c, w, p)
  <2> HIDE DEF c
  <2>1. CASE p \in ps
    <3>1. ss[p] = Settled(stream[p], how) BY <2>1
    <3>2. CASE p \in A
      <4>1. Due(ss[p]) BY <1>3, <3>1, <3>2
      <4> HIDE DEF ss, A
      <4> QED BY <1>6, <2>1, <4>1, OneMore
    <3>3. CASE p \notin A
      <4> HIDE DEF ss, A
      <4>1. One(ss[p], q, w, p) BY <2>1, OneNone
      <4> QED BY <1>6, <3>3, <4>1, OneMore
    <3> QED BY <3>2, <3>3
  <2>2. CASE p \notin ps
    <3>1. ss[p] = stream[p] /\ p \notin A BY <2>2
    <3>2. One(ss[p], q, w, p) BY <2>2, <3>1
    <3> HIDE DEF ss, A
    <3> QED BY <1>6, <3>1, <3>2, OneMore
  <2> QED BY <2>1, <2>2
<1>9. view' \in [Panes -> View] BY <1>1, <1>2, ShownType
<1>10. next \in Seq(Panes) BY <1>2 DEF Sweep
<1> HIDE DEF ss, c
<1>11. CASE sweep.awaits \in ps
  <2>1. Runs(ss, next) BY <1>1, <1>11
  <2> DEFINE d == q \o c
  <2>2. d \in Seq(Command) /\ \A p \in Panes : One(ss[p], d, w, p) BY <1>7, <1>8
  <2>3. asked' = d \o RunsAsk(ss, next) BY <1>1
  <2> HIDE DEF d, next
  <2>4. /\ stream' \in [Panes -> Stream] /\ \A p \in Panes : Fits(stream'[p])
        /\ RunsAsk(ss, next) \in Seq(Command) /\ sweep' \in Sweep
        /\ \A p \in Panes : One(stream'[p], d \o RunsAsk(ss, next), w, p)
    BY <1>4, <1>10, <2>1, <2>2, RunsNext
  <2>5. asked' \in Seq(Command) BY <2>2, <2>3, <2>4
  <2> QED BY <1>9, <2>3, <2>4, <2>5
<1>12. CASE sweep.awaits \notin ps
  <2>1. stream' = ss /\ sweep' = sweep /\ next = <<>> BY <1>1, <1>12
  <2>2. RunsAsk(ss, <<>>) = <<>>
    <3>1. <<>> \in Seq(Panes) /\ Len(<<>>) = 0 OBVIOUS
    <3>2. SelectInSeq(<<>>, LAMBDA p : Reseeds(ss[p])) = 0 BY DEF SelectInSeq
    <3> QED BY <3>2 DEF RunsAsk, SelectInSeq
  <2>3. asked' = q \o c
    <3>1. asked' = (q \o c) \o <<>> BY <1>1, <2>1, <2>2
    <3> QED BY <1>7, <3>1
  <2> QED BY <1>2, <1>4, <1>7, <1>8, <1>9, <2>1, <2>3
<1> QED BY <1>11, <1>12

-----------------------------------------------------------------------------
(* The invariant in parts *)

Streams == stream \in [Panes -> Stream] /\ \A p \in Panes : Fits(stream[p])
Sinks == view \in [Panes -> View]
Wire == asked \in Seq(Command) /\ pipe \in Seq(Sent) /\ Numbered(pipe)
Others ==
  /\ made \in [Panes -> 0..MaxOutput] /\ bound \subseteq Panes
  /\ arrived \in [Panes -> [now : SUBSET Chunks, before : SUBSET Chunks]]
  /\ mounts \in 0..MaxMounts /\ drops \in 0..MaxDrops
  /\ up \in BOOLEAN /\ events \in 0..MaxEvents
Ones == \A p \in Panes : One(stream[p], asked, pipe, p)
Parts == Streams /\ Sinks /\ sweep \in Sweep /\ Wire /\ Others /\ Ones

LEMMA InParts == IInv => Parts
<1> SUFFICES ASSUME IInv PROVE Parts OBVIOUS
<1>1. TypeOK /\ Numbered(pipe) /\ Ones BY DEF IInv, Ones
<1>2. /\ stream \in [Panes -> Stream]
      /\ \A p \in Panes : /\ stream[p].attached <=> stream[p].state \in {"seeding", "live"}
                          /\ stream[p].stale => stream[p].phase = "capturing"
  BY ONLY <1>1 DEF TypeOK
<1>3. Streams BY <1>2 DEF Streams, Fits
<1>4. Sinks /\ sweep \in Sweep BY ONLY <1>1 DEF TypeOK, Sinks, Sweep
<1>5. Wire BY ONLY <1>1 DEF TypeOK, Wire, Command, Sent
<1>6. Others BY ONLY <1>1 DEF TypeOK, Others
<1> QED BY <1>1, <1>3, <1>4, <1>5, <1>6 DEF Parts

LEMMA FromParts == Parts => IInv
<1> SUFFICES ASSUME Parts PROVE IInv OBVIOUS
<1>1. /\ stream \in [Panes -> Stream]
      /\ \A p \in Panes : /\ stream[p].attached <=> stream[p].state \in {"seeding", "live"}
                          /\ stream[p].stale => stream[p].phase = "capturing"
  BY DEF Parts, Streams, Fits
<1>2. view \in [Panes -> View] /\ sweep \in [awaits : Panes \cup {NoPane}, todo : Seq(Panes)]
  BY DEF Parts, Sinks, Sweep
<1>3. /\ asked \in Seq([what : {"capture", "state", "subscribe", "unsubscribe"}, pane : Panes])
      /\ pipe \in Seq([what : {"output", "capture", "no capture", "state", "size", "no subscribe"},
                       pane : Panes, n : Snapshot])
  BY DEF Parts, Wire, Command, Sent
<1>4. TypeOK BY <1>1, <1>2, <1>3 DEF TypeOK, Parts, Others
<1> QED BY <1>4 DEF IInv, Parts, Wire, Ones

LEMMA OneSame ==
  ASSUME NEW p, NEW s, NEW t, NEW q, NEW w, One(s, q, w, p), Due(s) => Due(t)
  PROVE  One(t, q, w, p)
BY DEF One

LEMMA StreamSet ==
  ASSUME Streams, NEW p \in Panes, NEW t \in Stream, Fits(t), stream' = [stream EXCEPT ![p] = t]
  PROVE  /\ Streams' /\ stream'[p] = t /\ \A o \in Panes : o # p => stream'[o] = stream[o]
BY DEF Streams

(* A stream changes and keeps waiting for its answer, if it does.          *)
LEMMA StreamStep ==
  ASSUME Streams, Ones, NEW p \in Panes, NEW t \in Stream, Fits(t), Due(stream[p]) => Due(t),
         stream' = [stream EXCEPT ![p] = t], asked' = asked, pipe' = pipe
  PROVE  Streams' /\ Ones'
<1>1. Streams' /\ stream'[p] = t /\ \A o \in Panes : o # p => stream'[o] = stream[o] BY StreamSet
<1>2. ASSUME NEW o \in Panes PROVE One(stream'[o], asked, pipe, o)
  <2>1. One(stream[o], asked, pipe, o) BY DEF Ones
  <2> QED BY <1>1, <2>1, OneSame
<1> QED BY <1>1, <1>2 DEF Ones

LEMMA SinkSet ==
  ASSUME Sinks, NEW p \in Panes, NEW v \in View, view' = [view EXCEPT ![p] = v]
  PROVE  Sinks'
BY DEF Sinks

-----------------------------------------------------------------------------
(* The application *)

LEMMA AttachStep == ASSUME Parts, NEW p \in Panes, attach(p) PROVE Parts'
<1>1. /\ stream[p] \in Stream /\ Fits(stream[p]) /\ Streams /\ Sinks /\ Ones /\ Wire /\ Others /\ sweep \in Sweep
      /\ \A o \in Panes : One(stream[o], asked, pipe, o)
  BY DEF Parts, Streams, Ones
<1>2. /\ UNCHANGED <<sweep, up, pipe, made, bound, arrived, drops, events>>
      /\ mounts < MaxMounts /\ mounts' = mounts + 1
  BY DEF attach
<1>3. sweep' \in Sweep /\ Others'
  <2>1. MaxMounts \in Nat BY PaneAssumption
  <2> QED BY <1>1, <1>2, <2>1 DEF Others
<1>4. CASE stream[p].lastSeed # Nothing
  <2> DEFINE s == [stream[p] EXCEPT !.attached = TRUE]  t == [s EXCEPT !.state = "live"]
             v == Seeded(FreshView, stream[p].lastSeed, <<>>)
  <2>1. /\ stream' = [stream EXCEPT ![p].attached = TRUE, ![p].state = "live"]
        /\ view' = [view EXCEPT ![p] = v] /\ asked' = asked BY <1>4 DEF attach
  <2>2. stream' = [stream EXCEPT ![p] = t] BY <1>1, <2>1 DEF Streams
  <2>3. s \in Stream /\ t \in Stream /\ Fits(t) /\ (Due(stream[p]) => Due(t)) BY <1>1 DEF Stream, Fits, Due
  <2>4. v \in View
    <3>1. stream[p].lastSeed \in Snapshot /\ <<>> \in Seq(Chunks) BY <1>1 DEF Stream
    <3> QED BY <3>1, FreshType, SeededType
  <2> HIDE DEF t, v
  <2>5. Streams' /\ Ones' BY <1>1, <1>2, <2>1, <2>2, <2>3, StreamStep
  <2>6. Sinks' BY <1>1, <2>1, <2>4, SinkSet
  <2>7. Wire' BY <1>1, <1>2, <2>1 DEF Wire
  <2> QED BY <1>3, <2>5, <2>6, <2>7 DEF Parts
<1>5. CASE stream[p].lastSeed = Nothing /\ stream[p].phase = "capturing"
  <2> DEFINE s == [stream[p] EXCEPT !.attached = TRUE]  t == [s EXCEPT !.state = "seeding"]
  <2>1. /\ stream' = [stream EXCEPT ![p].attached = TRUE, ![p].state = "seeding"]
        /\ view' = [view EXCEPT ![p] = FreshView] /\ asked' = asked BY <1>5 DEF attach
  <2>2. stream' = [stream EXCEPT ![p] = t] BY <1>1, <2>1 DEF Streams
  <2>3. s \in Stream /\ t \in Stream /\ Fits(t) /\ (Due(stream[p]) => Due(t)) BY <1>1 DEF Stream, Fits, Due
  <2> HIDE DEF t
  <2>5. Streams' /\ Ones' BY <1>1, <1>2, <2>1, <2>2, <2>3, StreamStep
  <2>6. Sinks' BY <1>1, <2>1, FreshType, SinkSet
  <2>7. Wire' BY <1>1, <1>2, <2>1 DEF Wire
  <2> QED BY <1>3, <2>5, <2>6, <2>7 DEF Parts
<1>6. CASE stream[p].lastSeed = Nothing /\ stream[p].phase # "capturing"
  <2> DEFINE u == Capturing(stream[p])  s == [u EXCEPT !.attached = TRUE]  t == [s EXCEPT !.state = "seeding"]
  <2>1. /\ stream' = [stream EXCEPT ![p] = [Capturing(@) EXCEPT !.attached = TRUE, !.state = "seeding"]]
        /\ view' = [view EXCEPT ![p] = FreshView] /\ asked' = asked \o Captures(<<p>>) BY <1>6 DEF attach
  <2>2. u \in Stream /\ Due(u) /\ ~u.stale BY <1>1, CapturingType
  <2> HIDE DEF u
  <2>3. s \in Stream /\ t \in Stream /\ Fits(t) /\ Due(t) BY <2>2 DEF Stream, Fits, Due
  <2>4. stream' = [stream EXCEPT ![p] = t]
    <3>1. [u EXCEPT !.attached = TRUE, !.state = "seeding"] = t BY <2>2 DEF Stream
    <3> QED BY <1>1, <2>1, <3>1 DEF u, Streams
  <2> HIDE DEF t
  <2>5. Streams' /\ stream'[p] = t /\ \A o \in Panes : o # p => stream'[o] = stream[o] BY <1>1, <2>3, <2>4, StreamSet
  <2>6. Sinks' BY <1>1, <2>1, FreshType, SinkSet
  <2>7. asked \in Seq(Command) BY <1>1 DEF Wire
  <2>8. ASSUME NEW o \in Panes PROVE One(stream'[o], asked \o Captures(<<p>>), pipe, o)
    <3>1. Captures(<<p>>) \in Seq(Command) /\ Single(At(Captures(<<p>>), Request(o)))
          /\ (o # p => At(Captures(<<p>>), Request(o)) = {}) BY OnlyAsked
    <3>2. One(stream[o], asked, pipe, o) BY <1>1
    <3>3. CASE o = p
      <4>1. ~Due(stream[p]) BY <1>6 DEF Due
      <4>2. At(asked, Request(o)) = {} /\ At(pipe, Answer(o)) = {} BY <3>2, <3>3, <4>1 DEF One
      <4>3. Due(stream'[o]) BY <2>3, <2>5, <3>3
      <4> QED BY <2>7, <3>1, <4>2, <4>3, OneMore
    <3>4. CASE o # p
      <4>1. stream'[o] = stream[o] BY <2>5, <3>4
      <4> QED BY <2>7, <3>1, <3>2, <3>4, <4>1, OneMore
    <3> QED BY <3>3, <3>4
  <2>9. Ones' BY <1>2, <2>1, <2>8 DEF Ones
  <2>10. Captures(<<p>>) \in Seq(Command) BY OnlyAsked
  <2>11. Wire' BY <1>1, <1>2, <2>1, <2>7, <2>10 DEF Wire
  <2> QED BY <1>3, <2>5, <2>6, <2>9, <2>11 DEF Parts
<1> QED BY <1>4, <1>5, <1>6

LEMMA DetachStep == ASSUME Parts, NEW p \in Panes, detach(p) PROVE Parts'
<1>1. /\ stream[p] \in Stream /\ Fits(stream[p]) /\ Streams /\ Sinks /\ Ones /\ Wire /\ Others /\ sweep \in Sweep
  BY DEF Parts, Streams
<1>2. /\ stream' = [stream EXCEPT ![p].attached = FALSE, ![p].buffer = <<>>, ![p].state = "detached"]
      /\ view' = [view EXCEPT ![p] = FreshView]
      /\ arrived' = [arrived EXCEPT ![p] = [now |-> {}, before |-> @.before \cup @.now]]
      /\ UNCHANGED <<sweep, up, asked, pipe, made, bound, mounts, drops, events>>
  BY DEF detach, wireVars, countVars
<1> DEFINE r == [stream[p] EXCEPT !.attached = FALSE]  s == [r EXCEPT !.buffer = <<>>]
           t == [s EXCEPT !.state = "detached"]
<1>3. stream' = [stream EXCEPT ![p] = t] BY <1>1, <1>2 DEF Streams
<1>4. t \in Stream /\ Fits(t) /\ (Due(stream[p]) => Due(t))
  <2>1. r \in Stream /\ r.phase = stream[p].phase /\ r.answer = stream[p].answer /\ r.stale = stream[p].stale
        /\ ~r.attached
    BY <1>1 DEF Stream
  <2>2. <<>> \in Seq(Chunks) OBVIOUS
  <2> HIDE DEF r
  <2>3. s \in Stream /\ s.phase = r.phase /\ s.answer = r.answer /\ s.stale = r.stale /\ ~s.attached
    BY <2>1, <2>2 DEF Stream
  <2> HIDE DEF s
  <2> QED BY <1>1, <2>1, <2>3 DEF Stream, Fits, Due
<1> HIDE DEF t
<1>5. Streams' /\ Ones' BY <1>1, <1>2, <1>3, <1>4, StreamStep
<1>6. Sinks' BY <1>1, <1>2, FreshType, SinkSet
<1>7. Others' BY <1>1, <1>2 DEF Others
<1>8. Wire' BY <1>1, <1>2 DEF Wire
<1> QED BY <1>1, <1>2, <1>5, <1>6, <1>7, <1>8 DEF Parts

LEMMA DisposeStep == ASSUME Parts, NEW p \in Panes, dispose(p) PROVE Parts'
<1>1. /\ stream[p] \in Stream /\ Fits(stream[p]) /\ Streams /\ Sinks /\ Ones /\ Wire /\ Others /\ sweep \in Sweep
      /\ \A o \in Panes : One(stream[o], asked, pipe, o)
  BY DEF Parts, Streams, Ones
<1>2. /\ stream' = [stream EXCEPT ![p] = [@ EXCEPT !.state = "disposed", !.attached = FALSE,
                                              !.buffer = <<>>, !.errors = {}]]
      /\ view' = [view EXCEPT ![p] = FreshView]
      /\ asked' = Append(asked, Asks("unsubscribe", p))
      /\ UNCHANGED <<sweep, up, pipe, made, bound, arrived, mounts, drops, events>>
  BY DEF dispose, countVars
<1> DEFINE q == [stream[p] EXCEPT !.state = "disposed"]
           r == [q EXCEPT !.attached = FALSE]
           s == [r EXCEPT !.buffer = <<>>]
           t == [s EXCEPT !.errors = {}]
<1>3. stream' = [stream EXCEPT ![p] = t]
  <2>1. [stream[p] EXCEPT !.state = "disposed", !.attached = FALSE, !.buffer = <<>>, !.errors = {}] = t
    BY <1>1 DEF Stream
  <2> QED BY <1>1, <1>2, <2>1 DEF Streams
<1>4. t \in Stream /\ Fits(t) /\ (Due(stream[p]) => Due(t))
  <2>1. /\ r \in Stream /\ r.phase = stream[p].phase /\ r.answer = stream[p].answer /\ r.stale = stream[p].stale
        /\ ~r.attached /\ r.state = "disposed"
    BY <1>1 DEF Stream
  <2>2. <<>> \in Seq(Chunks) OBVIOUS
  <2> HIDE DEF r
  <2>3. s \in Stream /\ s.phase = r.phase /\ s.answer = r.answer /\ s.stale = r.stale /\ ~s.attached /\ s.state = r.state
    BY <2>1, <2>2 DEF Stream
  <2> HIDE DEF s
  <2> QED BY <1>1, <2>1, <2>3 DEF Stream, Fits, Due
<1> HIDE DEF t
<1>5. Streams' /\ stream'[p] = t /\ \A o \in Panes : o # p => stream'[o] = stream[o] BY <1>1, <1>3, <1>4, StreamSet
<1>6. Sinks' BY <1>1, <1>2, FreshType, SinkSet
<1>7. asked \in Seq(Command) /\ Asks("unsubscribe", p) \in Command
      /\ \A o \in Panes : Asks("unsubscribe", p) \notin Request(o)
  BY <1>1 DEF Wire, Asks, Command, Request
<1>8. ASSUME NEW o \in Panes PROVE One(stream'[o], asked', pipe', o)
  <2>1. One(stream[o], asked, pipe, o) BY <1>1
  <2>2. At(asked', Request(o)) = At(asked, Request(o)) BY <1>2, <1>7, AtAppend
  <2>3. Due(stream[o]) => Due(stream'[o]) BY <1>4, <1>5
  <2> QED BY <1>2, <2>1, <2>2, <2>3 DEF One
<1>9. Others' BY <1>1, <1>2 DEF Others
<1>10. Wire' BY <1>1, <1>2, <1>7 DEF Wire
<1> QED BY <1>1, <1>2, <1>5, <1>6, <1>8, <1>9, <1>10 DEF Parts, Ones

LEMMA FrameStep == ASSUME Parts, NEW p \in Panes, Frame(p) PROVE Parts'
<1>1. /\ view[p] \in View /\ Streams /\ Sinks /\ Ones /\ Wire /\ Others /\ sweep \in Sweep
  BY DEF Parts, Sinks
<1>2. /\ view' = [view EXCEPT ![p] = [Drain(@) EXCEPT !.resize = "done"]]
      /\ UNCHANGED <<stream, sweep, up, asked, pipe, made, bound, arrived, mounts, drops, events>>
  BY DEF Frame, wireVars, countVars
<1> DEFINE d == Drain(view[p])  v == [d EXCEPT !.resize = "done"]
<1>3. d \in View BY <1>1, DrainType
<1>4. view' = [view EXCEPT ![p] = v] BY <1>1, <1>2 DEF Sinks
<1> HIDE DEF d
<1>5. v \in View BY <1>3 DEF View
<1> HIDE DEF v
<1>6. Sinks' BY <1>1, <1>4, <1>5, SinkSet
<1>7. Others' BY <1>1, <1>2 DEF Others
<1>8. Wire' /\ Streams' /\ Ones' BY <1>1, <1>2 DEF Wire, Streams, Ones
<1> QED BY <1>1, <1>2, <1>6, <1>7, <1>8 DEF Parts

-----------------------------------------------------------------------------
(* tmux and the connection *)

(* What the bound leaves room for.                                         *)
LEMMA Room ==
  ASSUME made \in [Panes -> 0..MaxOutput], NEW p \in Panes, Cardinality(AllOutput) < MaxOutput
  PROVE  made[p] < MaxOutput
<1>1. MaxOutput \in Nat /\ IsFiniteSet(Panes) BY PaneAssumption
<1>2. \A o \in Panes : made[o] \in Nat /\ made[o] <= MaxOutput BY <1>1
<1>3. AllOutput \in SUBSET (Panes \X (1..MaxOutput)) BY <1>1, <1>2 DEF AllOutput
<1>4. IsFiniteSet(Panes \X (1..MaxOutput))
  <2>1. IsFiniteSet(1..MaxOutput)
    <3>1. 1 \in Int /\ MaxOutput \in Int BY <1>1
    <3> QED BY <3>1, FS_Interval
  <2> QED BY <1>1, <2>1, FS_Product
<1>5. IsFiniteSet(AllOutput) BY <1>3, <1>4, FS_Subset
<1> DEFINE P == {p} \X (1..made[p])
<1>6. P \in SUBSET AllOutput BY DEF AllOutput
<1>7. IsFiniteSet({p}) /\ Cardinality({p}) = 1 BY FS_Singleton
<1>8. IsFiniteSet(1..made[p]) /\ Cardinality(1..made[p]) = made[p] BY <1>2, FS_Interval
<1>9. Cardinality(P) = Cardinality({p}) * Cardinality(1..made[p]) BY <1>7, <1>8, FS_Product
<1>10. Cardinality(P) = made[p] BY <1>2, <1>7, <1>8, <1>9
<1> HIDE DEF P
<1>11. Cardinality(P) <= Cardinality(AllOutput) /\ Cardinality(AllOutput) \in Nat
  BY <1>5, <1>6, FS_Subset, FS_CardinalityType
<1> QED BY <1>1, <1>2, <1>10, <1>11

(* Something that is not the answer to a capture is sent.                  *)
LEMMA SendStep ==
  ASSUME Streams, Ones, Wire, NEW m \in Sent, m.what \notin {"capture", "no capture"},
         m.what = "output" => m.n \in Chunks,
         pipe' = Append(pipe, m), UNCHANGED <<stream, asked>>
  PROVE  Streams' /\ Ones' /\ Wire'
<1>1. pipe \in Seq(Sent) BY DEF Wire
<1>2. ASSUME NEW o \in Panes PROVE One(stream'[o], asked', pipe', o)
  <2>1. m \notin Answer(o) BY DEF Answer
  <2>2. At(pipe', Answer(o)) = At(pipe, Answer(o))
    <3>1. At(Append(pipe, m), Answer(o)) = At(pipe, Answer(o)) BY ONLY <1>1, <2>1, m \in Sent, AtAppend
    <3> QED BY <3>1
  <2>3. One(stream[o], asked, pipe, o) BY DEF Ones
  <2> QED BY <2>2, <2>3 DEF One
<1>3. asked' \in Seq(Command) /\ pipe' \in Seq(Sent)
  <2>1. pipe' = Append(pipe, m) /\ asked' = asked /\ asked \in Seq(Command) BY DEF Wire
  <2> QED BY ONLY <1>1, <2>1, m \in Sent
<1>4. Numbered(pipe')
  <2>1. \A i \in 1..Len(pipe') : pipe'[i] = m \/ (i \in 1..Len(pipe) /\ pipe'[i] = pipe[i])
    <3>1. pipe' = Append(pipe, m) OBVIOUS
    <3> QED BY ONLY <1>1, <3>1, m \in Sent
  <2>2. Numbered(pipe) BY DEF Wire
  <2> QED BY <2>1, <2>2 DEF Numbered
<1> QED BY <1>2, <1>3, <1>4 DEF Streams, Ones, Wire

LEMMA OutputStep == ASSUME Parts, NEW p \in Panes, Output(p) PROVE Parts'
<1>1. Streams /\ Sinks /\ Ones /\ Wire /\ Others /\ sweep \in Sweep BY DEF Parts
<1>2. /\ Cardinality(AllOutput) < MaxOutput /\ made' = [made EXCEPT ![p] = @ + 1]
      /\ pipe' = IF up THEN Append(pipe, Sends("output", p, made'[p])) ELSE pipe
      /\ UNCHANGED <<stream, view, sweep, up, asked, bound, arrived, mounts, drops, events>>
  BY DEF Output, countVars
<1>3. MaxOutput \in Nat /\ made \in [Panes -> 0..MaxOutput] /\ made[p] < MaxOutput
  BY <1>1, <1>2, Room, PaneAssumption DEF Others
<1>4. made' \in [Panes -> 0..MaxOutput] /\ made'[p] \in Chunks BY <1>2, <1>3 DEF Chunks
<1> DEFINE m == Sends("output", p, made'[p])
<1>5. m \in Sent /\ m.what = "output" /\ m.n \in Chunks BY <1>3, <1>4 DEF Sends, Sent, Snapshot, Chunks
<1> HIDE DEF m
<1>6. CASE up
  <2>1. pipe' = Append(pipe, m) BY <1>2, <1>6 DEF m
  <2> QED BY <1>1, <1>2, <1>4, <1>5, <2>1, SendStep DEF Parts, Sinks, Others
<1>7. CASE ~up
  <2>1. pipe' = pipe BY <1>2, <1>7
  <2>2. Wire' /\ Streams' /\ Ones' BY <1>1, <1>2, <2>1 DEF Wire, Streams, Ones
  <2> QED BY <1>1, <1>2, <1>4, <2>2 DEF Parts, Sinks, Others
<1> QED BY <1>6, <1>7

LEMMA ResizeStep == ASSUME Parts, NEW p \in Panes, Resize(p) PROVE Parts'
<1>1. Streams /\ Sinks /\ Ones /\ Wire /\ Others /\ sweep \in Sweep BY DEF Parts
<1> DEFINE m == Sends("size", p, Nothing)
<1>2. /\ pipe' = Append(pipe, m) /\ events < MaxEvents /\ events' = events + 1
      /\ UNCHANGED <<stream, view, sweep, up, asked, made, bound, arrived, mounts, drops>>
  BY DEF Resize
<1>3. m \in Sent /\ m.what = "size" BY DEF Sends, Sent, Snapshot
<1>4. Others'
  <2>1. MaxEvents \in Nat BY PaneAssumption
  <2> QED BY <1>1, <1>2, <2>1 DEF Others
<1> HIDE DEF m
<1>5. Streams' /\ Ones' /\ Wire' BY <1>1, <1>2, <1>3, SendStep
<1> QED BY <1>1, <1>2, <1>4, <1>5 DEF Parts, Sinks

(* tmux runs a command: an answer to a capture is sent for its request.    *)
LEMMA Served ==
  ASSUME Streams, Ones, Wire, asked # <<>>, asked' = Tail(asked), NEW m \in Sent, m.what # "output",
         m.what \in {"capture", "no capture"} => Head(asked) = Asks("capture", m.pane),
         pipe' = pipe \/ pipe' = Append(pipe, m), stream' = stream
  PROVE  Streams' /\ Ones' /\ Wire'
<1>1. asked \in Seq(Command) /\ pipe \in Seq(Sent) /\ Numbered(pipe) /\ asked # <<>> BY DEF Wire
<1>2. asked' \in Seq(Command) BY <1>1, AtTail
<1>3. pipe' \in Seq(Sent) /\ Numbered(pipe')
  <2>1. ASSUME pipe' = Append(pipe, m) PROVE pipe' \in Seq(Sent) /\ Numbered(pipe')
    <3>1. pipe' \in Seq(Sent) /\ \A i \in 1..Len(pipe') : pipe'[i] = m \/ (i \in 1..Len(pipe) /\ pipe'[i] = pipe[i])
      BY ONLY <1>1, <2>1, m \in Sent
    <3> QED BY <1>1, <3>1 DEF Numbered
  <2> QED BY <1>1, <2>1
<1>4. ASSUME NEW o \in Panes PROVE One(stream[o], asked', pipe', o)
  <2>1. One(stream[o], asked, pipe, o) BY DEF Ones
  <2>2. /\ Single(At(asked, Request(o))) => Single(At(asked', Request(o)))
        /\ At(asked, Request(o)) = {} => At(asked', Request(o)) = {}
        /\ Head(asked) \in Request(o) => At(asked, Request(o)) # {}
        /\ Head(asked) \in Request(o) /\ Single(At(asked, Request(o))) => At(asked', Request(o)) = {}
    BY <1>1, AtTail
  <2>3. /\ m \notin Answer(o) => At(Append(pipe, m), Answer(o)) = At(pipe, Answer(o))
        /\ At(pipe, Answer(o)) = {} => Single(At(Append(pipe, m), Answer(o)))
    BY ONLY <1>1, m \in Sent, AtAppend
  <2>4. CASE pipe' = pipe BY <2>1, <2>2, <2>4 DEF One
  <2>5. CASE pipe' = Append(pipe, m) /\ m \notin Answer(o)
    <3>1. At(pipe', Answer(o)) = At(pipe, Answer(o)) BY <2>3, <2>5
    <3> QED BY <2>1, <2>2, <3>1 DEF One
  <2>6. CASE pipe' = Append(pipe, m) /\ m \in Answer(o)
    <3>1. Head(asked) \in Request(o) BY <2>6 DEF Answer, Request
    <3>2. At(asked, Request(o)) # {} /\ At(asked', Request(o)) = {} /\ At(pipe, Answer(o)) = {} /\ Due(stream[o])
      BY <2>1, <2>2, <3>1 DEF One
    <3>3. Single(At(pipe', Answer(o))) BY <2>3, <2>6, <3>2
    <3> QED BY <3>2, <3>3 DEF One, Single
  <2> QED BY <2>4, <2>5, <2>6
<1> QED BY <1>2, <1>3, <1>4 DEF Wire, Streams, Ones

LEMMA ServeStep == ASSUME Parts, Serve PROVE Parts'
<1>1. Streams /\ Sinks /\ Ones /\ Wire /\ Others /\ sweep \in Sweep BY DEF Parts
<1> DEFINE c == Head(asked)
<1>2. /\ asked # <<>> /\ asked' = Tail(asked)
      /\ pipe' = CASE c.what = "capture"     -> Append(pipe, Sends("capture", c.pane, made[c.pane]))
                   [] c.what = "state"       -> Append(pipe, Sends("state", c.pane, Nothing))
                   [] c.what = "subscribe"   -> Append(pipe, Sends("size", c.pane, Nothing))
                   [] c.what = "unsubscribe" -> pipe
      /\ bound' = CASE c.what = "subscribe"   -> bound \cup {c.pane}
                    [] c.what = "unsubscribe" -> bound \ {c.pane}
                    [] OTHER -> bound
      /\ UNCHANGED <<stream, view, sweep, up, made, arrived, mounts, drops, events>>
  BY DEF Serve, countVars
<1>3. c \in Command
  <2>1. asked \in Seq(Command) BY <1>1 DEF Wire
  <2> QED BY <1>2, <2>1, AtTail
<1> HIDE DEF c
<1>4. c.pane \in Panes /\ c.what \in {"capture", "state", "subscribe", "unsubscribe"}
      /\ c = [what |-> c.what, pane |-> c.pane]
  BY <1>3 DEF Command
<1>5. Nothing \in Snapshot /\ made[c.pane] \in Snapshot BY <1>1, <1>4 DEF Others, Snapshot
<1>6. Streams' /\ Ones' /\ Wire'
  <2>1. ASSUME NEW m \in Sent, m.what # "output", pipe' = pipe \/ pipe' = Append(pipe, m),
               m.what \in {"capture", "no capture"} => Head(asked) = Asks("capture", m.pane)
        PROVE  Streams' /\ Ones' /\ Wire'
    BY <1>1, <1>2, <2>1, Served
  <2>2. CASE c.what = "capture"
    <3> DEFINE m == Sends("capture", c.pane, made[c.pane])
    <3>1. m \in Sent /\ m.what = "capture" /\ m.pane = c.pane BY <1>4, <1>5 DEF Sends, Sent
    <3>2. pipe' = Append(pipe, m) BY <1>2, <2>2
    <3>3. c = Asks("capture", m.pane) BY <1>4, <2>2, <3>1 DEF Asks
    <3> HIDE DEF m
    <3> QED BY <2>1, <3>1, <3>2, <3>3 DEF c
  <2>3. ASSUME NEW m \in Sent, m.what \in {"state", "size"}, pipe' = pipe \/ pipe' = Append(pipe, m)
        PROVE  Streams' /\ Ones' /\ Wire'
    BY <2>1, <2>3
  <2>4. CASE c.what = "state"
    <3>1. Sends("state", c.pane, Nothing) \in Sent /\ Sends("state", c.pane, Nothing).what = "state"
      BY <1>4, <1>5 DEF Sends, Sent
    <3>2. pipe' = Append(pipe, Sends("state", c.pane, Nothing)) BY <1>2, <2>4
    <3> QED BY <2>3, <3>1, <3>2
  <2>5. CASE c.what \in {"subscribe", "unsubscribe"}
    <3>1. Sends("size", c.pane, Nothing) \in Sent /\ Sends("size", c.pane, Nothing).what = "size"
      BY <1>4, <1>5 DEF Sends, Sent
    <3>2. pipe' = pipe \/ pipe' = Append(pipe, Sends("size", c.pane, Nothing)) BY <1>2, <2>5
    <3> QED BY <2>3, <3>1, <3>2
  <2> QED BY <1>4, <2>2, <2>4, <2>5
<1>7. bound' \subseteq Panes BY <1>1, <1>2, <1>4 DEF Others
<1>8. Others' BY <1>1, <1>2, <1>7 DEF Others
<1> QED BY <1>1, <1>2, <1>6, <1>8 DEF Parts, Sinks

LEMMA RefuseStep == ASSUME Parts, Refuse PROVE Parts'
<1>1. Streams /\ Sinks /\ Ones /\ Wire /\ Others /\ sweep \in Sweep BY DEF Parts
<1> DEFINE c == Head(asked)
           m == Sends(IF c.what = "capture" THEN "no capture" ELSE "no subscribe", c.pane, Nothing)
<1>2. /\ asked # <<>> /\ asked' = Tail(asked) /\ c.what \in {"capture", "subscribe"}
      /\ events < MaxEvents /\ events' = events + 1 /\ pipe' = Append(pipe, m)
      /\ UNCHANGED <<stream, view, sweep, up, made, bound, arrived, mounts, drops>>
  BY DEF Refuse
<1>3. c \in Command
  <2>1. asked \in Seq(Command) BY <1>1 DEF Wire
  <2> QED BY <1>2, <2>1, AtTail
<1> HIDE DEF c
<1>4. m \in Sent /\ m.what \in {"no capture", "no subscribe"} /\ (m.what = "no capture" => c = Asks("capture", m.pane))
  BY <1>3 DEF Sends, Sent, Command, Asks, Snapshot
<1> HIDE DEF m
<1>5. Streams' /\ Ones' /\ Wire'
  <2>1. m.what # "output" /\ (m.what \in {"capture", "no capture"} => Head(asked) = Asks("capture", m.pane))
    BY <1>4 DEF c
  <2> QED BY <1>1, <1>2, <1>4, <2>1, Served
<1>6. Others'
  <2>1. MaxEvents \in Nat BY PaneAssumption
  <2> QED BY <1>1, <1>2, <2>1 DEF Others
<1> QED BY <1>1, <1>2, <1>5, <1>6 DEF Parts, Sinks

LEMMA DropStep == ASSUME Parts, Drop PROVE Parts'
<1>1. Streams /\ Sinks /\ Ones /\ Wire /\ Others /\ sweep \in Sweep /\ IInv BY FromParts DEF Parts
<1> DEFINE ps == {p \in Panes : stream[p].phase = "capturing"}
<1>2. /\ drops < MaxDrops /\ drops' = drops + 1
      /\ up' = FALSE /\ pipe' = <<>> /\ bound' = {} /\ Settle(ps, "gone")
      /\ UNCHANGED <<made, arrived, mounts, events>>
  BY DEF Drop
<1>3. ps \in SUBSET Panes OBVIOUS
<1> HIDE DEF ps
<1>4. <<>> \in Seq(Command) /\ <<>> = IF "gone" = "gone" THEN <<>> ELSE asked OBVIOUS
<1>5. \A p \in ps : At(<<>>, Request(p)) = {} /\ At(<<>>, Answer(p)) = {} BY AtNothing
<1>6. \A p \in Panes \ ps : One(stream[p], <<>>, <<>>, p) BY AtNothing, OneNone
<1>7. /\ stream' \in [Panes -> Stream] /\ \A p \in Panes : Fits(stream'[p])
      /\ sweep' \in Sweep /\ asked' \in Seq(Command) /\ view' \in [Panes -> View]
      /\ \A p \in Panes : One(stream'[p], asked', <<>>, p)
  BY <1>1, <1>2, <1>3, <1>4, <1>5, <1>6, SettleStep
<1>8. Others'
  <2>1. MaxDrops \in Nat BY PaneAssumption
  <2>2. drops' \in 0..MaxDrops
    <3>1. drops \in 0..MaxDrops /\ drops < MaxDrops /\ drops' = drops + 1 BY <1>1, <1>2 DEF Others
    <3> QED BY ONLY <2>1, <3>1
  <2>3. up' = FALSE /\ bound' = {} /\ UNCHANGED <<made, arrived, mounts, events>> BY <1>2
  <2> QED BY <1>1, <2>2, <2>3 DEF Others
<1>9. <<>> \in Seq(Sent) /\ Numbered(<<>>) BY DEF Numbered
<1> QED BY <1>2, <1>7, <1>8, <1>9 DEF Parts, Streams, Sinks, Wire, Ones

LEMMA ReconnectStep == ASSUME Parts, Reconnect PROVE Parts'
<1>1. Streams /\ Sinks /\ Ones /\ Wire /\ Others /\ sweep \in Sweep BY DEF Parts
<1> DEFINE ss == [p \in Panes |-> IF stream[p].state = "disposed" THEN stream[p] ELSE onReconnected(stream[p])]
<1>2. /\ up' = TRUE
      /\ IF sweep.awaits # NoPane THEN stream' = ss /\ UNCHANGED <<sweep, asked>>
         ELSE \E order \in SetToSeqs(Panes) :
                AttachedFirst(order) /\ Runs(ss, order) /\ asked' = asked \o RunsAsk(ss, order)
      /\ UNCHANGED <<view, pipe, made, bound, arrived, mounts, drops, events>>
  BY DEF Reconnect, countVars
<1>3. \A p \in Panes : /\ onReconnected(stream[p]) \in Stream /\ Fits(onReconnected(stream[p]))
                       /\ Due(onReconnected(stream[p])) <=> Due(stream[p])
  BY <1>1, StaleType DEF onReconnected, Streams
<1>4. ss \in [Panes -> Stream] /\ \A p \in Panes : Fits(ss[p]) BY <1>1, <1>3 DEF Streams
<1>5. ASSUME NEW p \in Panes PROVE One(ss[p], asked, pipe, p)
  <2>1. Due(stream[p]) => Due(ss[p]) BY <1>3
  <2>2. One(stream[p], asked, pipe, p) BY <1>1 DEF Ones
  <2> HIDE DEF ss
  <2> QED BY <2>1, <2>2, OneSame
<1> HIDE DEF ss
<1>6. asked \in Seq(Command) BY <1>1 DEF Wire
<1>7. Others' BY <1>1, <1>2 DEF Others
<1>8. CASE sweep.awaits # NoPane
  <2>1. stream' = ss /\ sweep' = sweep /\ asked' = asked /\ pipe' = pipe /\ view' = view BY <1>2, <1>8
  <2> QED BY <1>1, <1>4, <1>5, <1>7, <2>1 DEF Parts, Streams, Sinks, Wire, Ones
<1>9. CASE sweep.awaits = NoPane
  <2>1. PICK order \in SetToSeqs(Panes) : Runs(ss, order) /\ asked' = asked \o RunsAsk(ss, order) BY <1>2, <1>9
  <2>2. order \in Seq(Panes)
    <3>1. Cardinality(Panes) \in Nat BY PaneAssumption, FS_CardinalityType
    <3>2. order \in [1..Cardinality(Panes) -> Panes] BY DEF SetToSeqs
    <3> QED BY <3>1, <3>2
  <2>3. \A p \in Panes : One(ss[p], asked, pipe, p) BY <1>5
  <2>4. /\ stream' \in [Panes -> Stream] /\ \A p \in Panes : Fits(stream'[p])
        /\ RunsAsk(ss, order) \in Seq(Command) /\ sweep' \in Sweep
        /\ \A p \in Panes : One(stream'[p], asked \o RunsAsk(ss, order), pipe, p)
    BY <1>4, <1>6, <2>1, <2>2, <2>3, RunsNext
  <2>5. asked' \in Seq(Command) BY <1>6, <2>1, <2>4
  <2>6. pipe' = pipe /\ view' = view BY <1>2
  <2> QED BY <1>1, <1>7, <2>1, <2>4, <2>5, <2>6 DEF Parts, Streams, Sinks, Wire, Ones
<1> QED BY <1>8, <1>9

-----------------------------------------------------------------------------
(* What the client delivers *)

LEMMA ReadStep ==
  ASSUME Ones, Wire, NEW what, Read(what)
  PROVE  /\ pipe' \in Seq(Sent) /\ Numbered(pipe') /\ Head(pipe) \in Sent /\ Head(pipe).what = what
         /\ what = "output" => Head(pipe).n \in Chunks
         /\ \A p \in Panes : One(stream[p], asked, pipe', p)
         /\ \A p \in Panes : Head(pipe) \in Answer(p) => At(asked, Request(p)) = {} /\ At(pipe', Answer(p)) = {}
<1>1. asked \in Seq(Command) /\ pipe \in Seq(Sent) /\ Numbered(pipe) /\ pipe # <<>> /\ pipe' = Tail(pipe)
      /\ Head(pipe).what = what
  BY DEF Wire, Read
<1>2. pipe' \in Seq(Sent) /\ Head(pipe) \in Sent BY <1>1, AtTail
<1>3. /\ \A i \in 1..Len(pipe') : i + 1 \in 1..Len(pipe) /\ pipe'[i] = pipe[i + 1]
      /\ 1 \in 1..Len(pipe) /\ Head(pipe) = pipe[1]
  BY ONLY <1>1
<1>4. Numbered(pipe') /\ (what = "output" => Head(pipe).n \in Chunks) BY <1>1, <1>3 DEF Numbered
<1>5. ASSUME NEW p \in Panes
      PROVE  /\ One(stream[p], asked, pipe', p)
             /\ Head(pipe) \in Answer(p) => At(asked, Request(p)) = {} /\ At(pipe', Answer(p)) = {}
  <2>1. One(stream[p], asked, pipe, p) BY DEF Ones
  <2>2. /\ Single(At(pipe, Answer(p))) => Single(At(pipe', Answer(p)))
        /\ At(pipe, Answer(p)) = {} => At(pipe', Answer(p)) = {}
        /\ Head(pipe) \in Answer(p) => At(pipe, Answer(p)) # {}
        /\ Head(pipe) \in Answer(p) /\ Single(At(pipe, Answer(p))) => At(pipe', Answer(p)) = {}
    BY <1>1, AtTail
  <2> QED BY <2>1, <2>2 DEF One
<1> QED BY <1>1, <1>2, <1>4, <1>5

(* A stream changes while its commands are as they were and one answer is  *)
(* gone from the pipe.                                                     *)
LEMMA StreamRead ==
  ASSUME Streams, Wire, NEW p \in Panes, NEW t \in Stream, Fits(t),
         pipe' \in Seq(Sent), Numbered(pipe'), \A o \in Panes : One(stream[o], asked, pipe', o),
         One(t, asked, pipe', p), stream' = [stream EXCEPT ![p] = t], asked' = asked
  PROVE  Streams' /\ Wire' /\ Ones'
<1>1. Streams' /\ stream'[p] = t /\ \A o \in Panes : o # p => stream'[o] = stream[o] BY StreamSet
<1>2. Ones'
  <2>1. ASSUME NEW o \in Panes PROVE One(stream'[o], asked, pipe', o)
    <3>1. CASE o = p BY <1>1, <3>1
    <3>2. CASE o # p BY <1>1, <3>2
    <3> QED BY <3>1, <3>2
  <2> QED BY <2>1 DEF Ones
<1> QED BY <1>1, <1>2 DEF Wire

LEMMA BytesStep == ASSUME Parts, handlePaneBytes PROVE Parts'
<1> DEFINE p == Head(pipe).pane  n == Head(pipe).n  s == stream[p]
<1>1. Streams /\ Sinks /\ Ones /\ Wire /\ Others /\ sweep \in Sweep BY DEF Parts
<1>2. /\ Read("output")
      /\ view' = IF s.state = "live" THEN [view EXCEPT ![p] = Write(@, <<n>>)] ELSE view
      /\ stream' = CASE s.state = "seeding"  -> [stream EXCEPT ![p].buffer = Append(@, n)]
                     [] s.state = "detached" -> [stream EXCEPT ![p] = DetachedBytes(@)]
                     [] OTHER -> stream
      /\ arrived' = IF s.attached THEN [arrived EXCEPT ![p].now = @ \cup {n}] ELSE arrived
      /\ UNCHANGED <<sweep, up, asked, made, bound, mounts, drops, events>>
  BY DEF handlePaneBytes, countVars
<1>3. /\ pipe' \in Seq(Sent) /\ Numbered(pipe') /\ Head(pipe) \in Sent /\ n \in Chunks
      /\ \A o \in Panes : One(stream[o], asked, pipe', o)
  BY <1>1, <1>2, ReadStep
<1>4. p \in Panes /\ s \in Stream /\ Fits(s) /\ view[p] \in View BY <1>1, <1>3 DEF Sent, Streams, Sinks
<1> HIDE DEF p, n
<1>5. Streams' /\ Wire' /\ Ones'
  <2>1. ASSUME NEW t \in Stream, Fits(t), Due(s) => Due(t), stream' = [stream EXCEPT ![p] = t]
        PROVE  Streams' /\ Wire' /\ Ones'
    <3>1. One(t, asked, pipe', p) BY <1>3, <1>4, <2>1, OneSame
    <3>2. asked' = asked BY <1>2
    <3> QED BY <1>1, <1>3, <1>4, <2>1, <3>1, <3>2, StreamRead
  <2>2. CASE s.state = "seeding"
    <3> DEFINE t == [s EXCEPT !.buffer = Append(@, n)]
    <3>1. Append(s.buffer, n) \in Seq(Chunks) BY <1>3, <1>4 DEF Stream
    <3>2. t \in Stream /\ Fits(t) /\ (Due(s) => Due(t)) BY <1>4, <3>1 DEF Stream, Fits, Due
    <3>3. stream' = [stream EXCEPT ![p] = t] BY <1>1, <1>2, <1>4, <2>2 DEF Streams
    <3> HIDE DEF t
    <3> QED BY <2>1, <3>2, <3>3
  <2>3. CASE s.state = "detached"
    <3>1. DetachedBytes(s) \in Stream /\ Fits(DetachedBytes(s)) /\ (Due(s) => Due(DetachedBytes(s)))
      BY <1>4, StaleType DEF DetachedBytes
    <3>2. stream' = [stream EXCEPT ![p] = DetachedBytes(s)] BY <1>1, <1>2, <1>4, <2>3 DEF Streams
    <3> QED BY <2>1, <3>1, <3>2
  <2>4. CASE s.state \notin {"seeding", "detached"}
    <3>1. stream' = stream BY <1>2, <2>4
    <3>2. stream' = [stream EXCEPT ![p] = s] BY <1>1, <1>4, <3>1 DEF Streams
    <3> QED BY <1>4, <2>1, <3>2
  <2> QED BY <2>2, <2>3, <2>4
<1>6. Sinks'
  <2>1. <<n>> \in Seq(Chunks) BY <1>3 DEF n
  <2>2. Write(view[p], <<n>>) \in View BY <1>4, <2>1, WriteType
  <2> QED BY <1>1, <1>2, <1>4, <2>2 DEF Sinks
<1>7. Others'
  <2>1. arrived' \in [Panes -> [now : SUBSET Chunks, before : SUBSET Chunks]]
    <3>1. arrived \in [Panes -> [now : SUBSET Chunks, before : SUBSET Chunks]] /\ n \in Chunks BY <1>1, <1>3 DEF Others, n
    <3> QED BY <1>2, <1>4, <3>1
  <2> QED BY <1>1, <1>2, <2>1 DEF Others
<1>8. sweep' = sweep BY <1>2
<1> QED BY <1>1, <1>5, <1>6, <1>7, <1>8 DEF Parts

LEMMA CapturedStep == ASSUME Parts, Captured PROVE Parts'
<1> DEFINE p == Head(pipe).pane  n == Head(pipe).n
           t == IF stream[p].phase = "capturing" THEN [stream[p] EXCEPT !.answer = n] ELSE stream[p]
<1>1. Streams /\ Sinks /\ Ones /\ Wire /\ Others /\ sweep \in Sweep BY DEF Parts
<1>2. /\ Read("capture")
      /\ stream' = [stream EXCEPT ![p] = IF @.phase = "capturing" THEN [@ EXCEPT !.answer = Head(pipe).n] ELSE @]
      /\ UNCHANGED <<view, sweep, up, asked, made, bound, arrived, mounts, drops, events>>
  BY DEF Captured, countVars
<1>3. /\ pipe' \in Seq(Sent) /\ Numbered(pipe') /\ Head(pipe) \in Sent /\ Head(pipe).what = "capture"
      /\ \A o \in Panes : One(stream[o], asked, pipe', o)
      /\ \A o \in Panes : Head(pipe) \in Answer(o) => At(asked, Request(o)) = {} /\ At(pipe', Answer(o)) = {}
  BY <1>1, <1>2, ReadStep
<1>4. p \in Panes /\ n \in Snapshot /\ stream[p] \in Stream /\ Fits(stream[p]) /\ Head(pipe) \in Answer(p)
  BY <1>1, <1>3 DEF Sent, Streams, Answer
<1>5. t \in Stream /\ Fits(t)
  <2> HIDE DEF n, p
  <2> QED BY <1>4 DEF Stream, Fits
<1>6. stream' = [stream EXCEPT ![p] = t] BY <1>1, <1>2, <1>4 DEF Streams
<1>7. One(t, asked, pipe', p) BY <1>3, <1>4, OneNone
<1> HIDE DEF t, p
<1>8. Streams' /\ Wire' /\ Ones' BY <1>1, <1>2, <1>3, <1>4, <1>5, <1>6, <1>7, StreamRead
<1>9. Sinks' /\ Others' /\ sweep' = sweep BY <1>1, <1>2 DEF Sinks, Others
<1> QED BY <1>1, <1>8, <1>9 DEF Parts

(* A capture settles with its last answer, or with its refusal.            *)
LEMMA SettleRead ==
  ASSUME Parts, NEW p \in Panes, NEW how \in {"ok", "refused"}, Settle({p}, how),
         pipe' \in Seq(Sent), Numbered(pipe'), \A o \in Panes : One(stream[o], asked, pipe', o),
         At(asked, Request(p)) = {}, At(pipe', Answer(p)) = {},
         UNCHANGED <<up, made, bound, arrived, mounts, drops, events>>
  PROVE  Parts'
<1>1. IInv /\ Others /\ asked \in Seq(Command) BY FromParts DEF Parts, Wire
<1> DEFINE ps == {p}
<1>2. ps \in SUBSET Panes /\ Settle(ps, how) /\ asked = IF how = "gone" THEN <<>> ELSE asked OBVIOUS
<1>3. \A o \in ps : At(asked, Request(o)) = {} /\ At(pipe', Answer(o)) = {} OBVIOUS
<1>4. \A o \in Panes \ ps : One(stream[o], asked, pipe', o) OBVIOUS
<1> HIDE DEF ps
<1>5. /\ stream' \in [Panes -> Stream] /\ \A o \in Panes : Fits(stream'[o])
      /\ sweep' \in Sweep /\ asked' \in Seq(Command) /\ view' \in [Panes -> View]
      /\ \A o \in Panes : One(stream'[o], asked', pipe', o)
  BY <1>1, <1>2, <1>3, <1>4, SettleStep
<1>6. Others' BY <1>1 DEF Others
<1> QED BY <1>5, <1>6 DEF Parts, Streams, Sinks, Wire, Ones

LEMMA SeedDoneStep == ASSUME Parts, SeedDone PROVE Parts'
<1> DEFINE p == Head(pipe).pane
<1>1. Streams /\ Sinks /\ Ones /\ Wire /\ Others /\ sweep \in Sweep BY DEF Parts
<1>2. /\ Read("state")
      /\ IF stream[p].phase = "capturing" /\ stream[p].answer # Nothing THEN Settle({p}, "ok")
         ELSE UNCHANGED <<stream, view, sweep, asked>>
      /\ UNCHANGED <<up, made, bound, arrived, mounts, drops, events>>
  BY DEF SeedDone, countVars
<1>3. /\ pipe' \in Seq(Sent) /\ Numbered(pipe') /\ Head(pipe) \in Sent
      /\ \A o \in Panes : One(stream[o], asked, pipe', o)
  BY <1>1, <1>2, ReadStep
<1>4. p \in Panes BY <1>3 DEF Sent
<1> HIDE DEF p
<1>5. CASE stream[p].phase = "capturing" /\ stream[p].answer # Nothing
  <2>1. Settle({p}, "ok") BY <1>2, <1>5
  <2>2. At(asked, Request(p)) = {} /\ At(pipe', Answer(p)) = {} BY <1>3, <1>4, <1>5 DEF One, Due
  <2> QED BY <1>2, <1>3, <1>4, <2>1, <2>2, SettleRead
<1>6. CASE ~(stream[p].phase = "capturing" /\ stream[p].answer # Nothing)
  <2>1. stream' = stream /\ view' = view /\ sweep' = sweep /\ asked' = asked BY <1>2, <1>6
  <2>2. Others' BY <1>1, <1>2 DEF Others
  <2> QED BY <1>1, <1>3, <2>1, <2>2 DEF Parts, Streams, Sinks, Wire, Ones
<1> QED BY <1>5, <1>6

LEMMA SeedRefusedStep == ASSUME Parts, SeedRefused PROVE Parts'
<1> DEFINE p == Head(pipe).pane
<1>1. Streams /\ Sinks /\ Ones /\ Wire /\ Others /\ sweep \in Sweep BY DEF Parts
<1>2. /\ Read("no capture") /\ Settle({p}, "refused")
      /\ UNCHANGED <<up, made, bound, arrived, mounts, drops, events>>
  BY DEF SeedRefused, countVars
<1>3. /\ pipe' \in Seq(Sent) /\ Numbered(pipe') /\ Head(pipe) \in Sent /\ Head(pipe).what = "no capture"
      /\ \A o \in Panes : One(stream[o], asked, pipe', o)
      /\ \A o \in Panes : Head(pipe) \in Answer(o) => At(asked, Request(o)) = {} /\ At(pipe', Answer(o)) = {}
  BY <1>1, <1>2, ReadStep
<1>4. p \in Panes /\ Head(pipe) \in Answer(p) BY <1>3 DEF Sent, Answer
<1> HIDE DEF p
<1>5. At(asked, Request(p)) = {} /\ At(pipe', Answer(p)) = {} BY <1>3, <1>4
<1> QED BY <1>2, <1>3, <1>4, <1>5, SettleRead

LEMMA SizeStep == ASSUME Parts, handleSubscriptionChanged PROVE Parts'
<1> DEFINE p == Head(pipe).pane  t == [stream[p] EXCEPT !.errors = @ \ {"subscribe"}]
<1>1. Streams /\ Sinks /\ Ones /\ Wire /\ Others /\ sweep \in Sweep BY DEF Parts
<1>2. /\ Read("size")
      /\ IF stream[p].attached THEN /\ stream' = [stream EXCEPT ![p].errors = @ \ {"subscribe"}]
                                    /\ view' = [view EXCEPT ![p] = Resized(@)]
         ELSE UNCHANGED <<stream, view>>
      /\ UNCHANGED <<sweep, up, asked, made, bound, arrived, mounts, drops, events>>
  BY DEF handleSubscriptionChanged, countVars
<1>3. /\ pipe' \in Seq(Sent) /\ Numbered(pipe') /\ Head(pipe) \in Sent
      /\ \A o \in Panes : One(stream[o], asked, pipe', o)
  BY <1>1, <1>2, ReadStep
<1>4. p \in Panes /\ stream[p] \in Stream /\ Fits(stream[p]) /\ view[p] \in View BY <1>1, <1>3 DEF Sent, Streams, Sinks
<1> HIDE DEF p
<1>5. Others' BY <1>1, <1>2 DEF Others
<1>6. CASE stream[p].attached
  <2>1. t \in Stream /\ Fits(t) /\ (Due(stream[p]) => Due(t)) BY <1>4 DEF Stream, Fits, Due
  <2>2. stream' = [stream EXCEPT ![p] = t] /\ asked' = asked BY <1>1, <1>2, <1>4, <1>6 DEF Streams
  <2> HIDE DEF t
  <2>3. One(t, asked, pipe', p) BY <1>3, <1>4, <2>1, OneSame
  <2>4. Streams' /\ Wire' /\ Ones' BY <1>1, <1>3, <1>4, <2>1, <2>2, <2>3, StreamRead
  <2>5. Resized(view[p]) \in View BY <1>4 DEF Resized, View
  <2>6. Sinks' BY <1>1, <1>2, <1>4, <1>6, <2>5 DEF Sinks
  <2> QED BY <1>1, <1>2, <1>5, <2>4, <2>6 DEF Parts
<1>7. CASE ~stream[p].attached
  <2>1. stream' = stream /\ view' = view /\ sweep' = sweep /\ asked' = asked BY <1>2, <1>7
  <2> QED BY <1>1, <1>3, <1>5, <2>1 DEF Parts, Streams, Sinks, Wire, Ones
<1> QED BY <1>6, <1>7

LEMMA SubscribeRefusedStep == ASSUME Parts, SubscribeRefused PROVE Parts'
<1> DEFINE p == Head(pipe).pane  e == IF stream[p].state = "disposed" THEN stream[p].errors
                                                                  ELSE stream[p].errors \cup {"subscribe"}
           t == [stream[p] EXCEPT !.errors = e]
<1>1. Streams /\ Sinks /\ Ones /\ Wire /\ Others /\ sweep \in Sweep BY DEF Parts
<1>2. /\ Read("no subscribe")
      /\ stream' = [stream EXCEPT ![p].errors = IF stream[p].state = "disposed" THEN @ ELSE @ \cup {"subscribe"}]
      /\ UNCHANGED <<view, sweep, up, asked, made, bound, arrived, mounts, drops, events>>
  BY DEF SubscribeRefused, countVars
<1>3. /\ pipe' \in Seq(Sent) /\ Numbered(pipe') /\ Head(pipe) \in Sent
      /\ \A o \in Panes : One(stream[o], asked, pipe', o)
  BY <1>1, <1>2, ReadStep
<1>4. p \in Panes /\ stream[p] \in Stream /\ Fits(stream[p]) BY <1>1, <1>3 DEF Sent, Streams
<1> HIDE DEF p
<1>5. t \in Stream /\ Fits(t) /\ (Due(stream[p]) => Due(t))
  <2>1. e \in SUBSET {"seed", "subscribe"} BY <1>4 DEF Stream
  <2> HIDE DEF e
  <2> QED BY <1>4, <2>1 DEF Stream, Fits, Due
<1>6. stream' = [stream EXCEPT ![p] = t] /\ asked' = asked BY <1>1, <1>2, <1>4 DEF Streams
<1> HIDE DEF t
<1>7. One(t, asked, pipe', p) BY <1>3, <1>4, <1>5, OneSame
<1>8. Streams' /\ Wire' /\ Ones' BY <1>1, <1>3, <1>4, <1>5, <1>6, <1>7, StreamRead
<1>9. Sinks' /\ Others' /\ sweep' = sweep BY <1>1, <1>2 DEF Sinks, Others
<1> QED BY <1>1, <1>8, <1>9 DEF Parts

-----------------------------------------------------------------------------
(* The invariant *)

LEMMA IInit == Init => IInv
<1> SUFFICES ASSUME Init PROVE Parts BY FromParts
<1>1. {MaxOutput, MaxMounts, MaxDrops, MaxEvents} \subseteq Nat /\ IsFiniteSet(Panes) BY PaneAssumption
<1>2. Nothing \in Snapshot /\ <<>> \in Seq(Chunks) BY DEF Snapshot
<1>3. Streams BY <1>2 DEF Init, Streams, Stream, Fits
<1>4. Sinks BY FreshType DEF Init, Sinks
<1>5. sweep \in Sweep
  <2>1. <<>> \in Seq(Panes) OBVIOUS
  <2> QED BY <2>1 DEF Init, Sweep
<1>6. PICK s \in SetToSeqs(Panes) : asked = [i \in DOMAIN s |-> Asks("subscribe", s[i])] BY DEF Init
<1>7. Cardinality(Panes) \in Nat /\ s \in [1..Cardinality(Panes) -> Panes] BY <1>1, FS_CardinalityType DEF SetToSeqs
<1>8. asked \in [1..Cardinality(Panes) -> Command] /\ \A i \in 1..Cardinality(Panes) : asked[i].what = "subscribe"
  BY <1>6, <1>7 DEF Asks, Command
<1>9. asked \in Seq(Command) /\ Len(asked) = Cardinality(Panes) BY <1>7, <1>8
<1>10. pipe = <<>> /\ <<>> \in Seq(Sent) /\ Numbered(<<>>) BY DEF Init, Numbered
<1>11. ASSUME NEW p \in Panes PROVE One(stream[p], asked, pipe, p)
  <2>1. At(asked, Request(p)) = {} BY <1>8, <1>9 DEF At, Request, Asks
  <2> QED BY <1>10, <2>1, AtNothing, OneNone
<1>12. Others BY <1>1 DEF Init, Others
<1> QED BY <1>3, <1>4, <1>5, <1>9, <1>10, <1>11, <1>12 DEF Parts, Wire, Ones

LEMMA INext == IInv /\ [Next]_vars => IInv'
<1>a. SUFFICES ASSUME IInv, [Next]_vars PROVE IInv' OBVIOUS
<1>b. Parts BY <1>a, InParts
<1>1. ASSUME NEW p \in Panes, attach(p) \/ detach(p) \/ dispose(p) \/ Frame(p) \/ Output(p) \/ Resize(p) PROVE Parts'
  BY <1>b, <1>1, AttachStep, DetachStep, DisposeStep, FrameStep, OutputStep, ResizeStep
<1>2. ASSUME Serve \/ Refuse \/ Drop \/ Reconnect PROVE Parts'
  BY <1>b, <1>2, ServeStep, RefuseStep, DropStep, ReconnectStep
<1>3. ASSUME Deliver PROVE Parts'
  BY <1>b, <1>3, BytesStep, CapturedStep, SeedDoneStep, SeedRefusedStep, SizeStep, SubscribeRefusedStep DEF Deliver
<1>4. ASSUME UNCHANGED vars PROVE Parts'
  BY <1>b, <1>4 DEF vars, wireVars, countVars, Parts, Streams, Sinks, Wire, Others, Ones
<1>5. Parts' BY <1>a, <1>1, <1>2, <1>3, <1>4 DEF Next
<1> QED BY <1>5, FromParts, PTL

LEMMA IInvOneCapture == IInv => OneCapture
<1> SUFFICES ASSUME IInv, NEW p \in Panes
             PROVE  /\ TypeOK
                    /\ Single(CapturesAsked(p)) /\ Single(CapturesAnswered(p))
                    /\ CapturesAsked(p) = {} \/ CapturesAnswered(p) = {}
                    /\ CapturesAsked(p) \cup CapturesAnswered(p) # {} =>
                         stream[p].phase = "capturing" /\ stream[p].answer = Nothing
  BY DEF OneCapture, IInv
<1>1. TypeOK /\ One(stream[p], asked, pipe, p) /\ asked \in Seq(Command) /\ pipe \in Seq(Sent)
  BY InParts DEF IInv, Parts, Wire
<1>2. CapturesAsked(p) = At(asked, Request(p)) BY <1>1 DEF CapturesAsked, At, Request
<1>3. CapturesAnswered(p) = At(pipe, Answer(p)) 
  <2>1. DOMAIN pipe = 1..Len(pipe) /\ \A i \in 1..Len(pipe) : pipe[i] \in Sent BY <1>1
  <2> QED BY <2>1 DEF CapturesAnswered, At, Answer
<1> QED BY <1>1, <1>2, <1>3 DEF One, Due

(* A capture of a stream is under way at most once, be it asked for or     *)
(* answered, and only while its stream waits for it (pane-stream.ts, the   *)
(* phase of the seed cycle in attach, reseed and seed).                    *)
THEOREM OneAtATime == Spec => []OneCapture
<1>1. IInv /\ [Next]_vars => IInv' BY INext
<1> QED BY IInit, IInvOneCapture, <1>1, PTL DEF Spec
=============================================================================
