---------------------- MODULE CrossSessionLayoutProofs ----------------------
(***************************************************************************)
(* What holds of the layout relays (CrossSessionLayout) for any processes, *)
(* windows, listeners and bounds.                                          *)
(*                                                                         *)
(* A relay's own part, Own, is about its queue, the command tmux has of it *)
(* and its counts; Base adds the types and the order of the shared buffer. *)
(* Informed says by what way a listener that does not know a layout will   *)
(* learn that it changed.  Coming says by what way a hook that was removed *)
(* will be put back.                                                       *)
(***************************************************************************)
EXTENDS CrossSessionLayout, FunctionTheorems, FiniteSetTheorems, TLAPS

Entry == [seq : Nat, window : Windows]
Reported == [epoch : Nat, uncovered : SUBSET Windows, buffer : Seq(Entry)]
Command == [c : {"show", "install", "install and bump", "baseline", "subscribe", "unsubscribe", "fetch"},
            gen : Nat, w : SUBSET Windows]
Sub == [on : BOOLEAN, last : Seq(Reported)]

Types ==
  /\ hook \in {"none", "foreign", "ours"} /\ seq \in Nat /\ epoch \in Nat
  /\ buffer \in Seq(Entry)
  /\ changes \in 0..MaxChanges
  /\ layout \in [Windows -> 0..MaxChanges] /\ \A w \in Windows : layout[w] <= changes
  /\ sub \in [Relays -> Sub]
  /\ relay \in [Relays -> Relay]
  /\ asked \in [Relays -> Seq(Command)]
  /\ told \in [Relays -> [Windows -> 0..MaxChanges]]
  /\ granted \in [Relays -> Nat] /\ failed \subseteq Relays

(* The buffer holds the last entries, numbered without a gap, and all of   *)
(* them until it is full.                                                  *)
Ordered ==
  /\ Len(buffer) <= Cap /\ Len(buffer) <= seq
  /\ Len(buffer) < Cap => Len(buffer) = seq
  /\ \A i \in 1..Len(buffer) : buffer[i].seq = seq - Len(buffer) + i

-----------------------------------------------------------------------------
(* A relay's own part: record m, commands q, subscribed in tmux or not, and *)
(* g enables granted.                                                      *)

Answers(awaits) == IF awaits = "install" THEN {"install", "install and bump"} ELSE {awaits}

(* tmux has one command besides fetches, the one that is awaited; nothing  *)
(* is asked behind it while nobody listens, or before an install.          *)
Serving(m, q) ==
  \A i \in 1..Len(q) : q[i].c # "fetch" =>
    /\ q[i].c \in Answers(m.awaits)
    /\ \A j \in 1..Len(q) : q[j].c # "fetch" => i = j
    /\ ~m.listening => i = Len(q)
    /\ q[i].c = "install" => i = 1

Repairs(m) == Head(m.queue).op = "repair"
Joins(m) ==
  \/ m.awaits \in {"show", "install"} /\ ~Repairs(m)
  \/ m.awaits \in {"baseline", "subscribe"}

Phases(m, on) ==
  /\ m.awaits # "nothing" => m.queue # <<>>
  /\ m.subscribed => m.listening /\ on
  /\ m.listening => m.subscribed \/ m.awaits = "subscribe"
  /\ m.awaits = "subscribe" => m.listening
  /\ Joins(m) => ~m.subscribed /\ ~Repairs(m)
  /\ m.awaits = "unsubscribe" => ~m.subscribed /\ Head(m.queue).op = "disable"

EnablesIn(s) == {i \in DOMAIN s : s[i].op = "enable"}
Leaves(s) == \E i \in DOMAIN s : s[i].op = "disable"

(* What was granted and what is still to be is what is counted; a relay    *)
(* nobody counts on is given up, or will be by a step that waits.          *)
Counts(m, g) ==
  /\ m.refCount = g + Cardinality(EnablesIn(m.queue))
  /\ ~m.subscribed => g = 0
  /\ Joins(m) => m.refCount > 0
  /\ m.subscribed /\ m.refCount = 0 => Leaves(m.queue)

Own(m, q, on, g) == Serving(m, q) /\ Phases(m, on) /\ Counts(m, g)
OwnOf(r) == Own(relay[r], asked[r], sub[r].on, granted[r])

Base == Types /\ Ordered /\ \A r \in Relays : OwnOf(r)

-----------------------------------------------------------------------------
(* What keeps a listener informed: record m, commands q, tmux's             *)
(* subscription s and the layouts t it was told of.                         *)

(* What a relay has read is not ahead of tmux.                             *)
Behind(m) == m.lastSeq <= seq /\ m.epoch <= epoch

(* Another program's hook is replaced before anybody listens.              *)
ForeignGoes(m) == hook = "foreign" => ~m.listening /\ m.awaits \notin {"baseline", "subscribe"}

(* A hook that is replaced without a new epoch is there.                   *)
Replaces(q) == \A i \in 1..Len(q) : q[i].c = "install" => hook # "none"

(* What was reported last has been read.                                   *)
Delivered(m, s) ==
  m.subscribed /\ s.last # <<>> =>
    /\ s.last[1].epoch = m.epoch
    /\ m.reported = {s.last[1].uncovered}
    /\ \A i \in 1..Len(s.last[1].buffer) : s.last[1].buffer[i].seq <= m.lastSeq

Fetching(m, q, w) == \E i \in 1..Len(q) : q[i].c = "fetch" /\ q[i].gen = m.gen /\ w \in q[i].w
Unread(m, w) == \E i \in 1..Len(buffer) : buffer[i].window = w /\ buffer[i].seq > m.lastSeq

(* A listener that does not know a window's layout is fetching it, has its *)
(* entry still to read or has missed entries; or the hook is gone, or was  *)
(* restored without the listener's knowing yet.                            *)
WillHear(m, q, t, w) ==
  \/ t[w] = layout[w] \/ hook = "none" \/ epoch # m.epoch
  \/ Fetching(m, q, w) \/ Unread(m, w) \/ m.lastSeq < seq - Len(buffer)

Informed(m, q, s, t) ==
  /\ Behind(m) /\ ForeignGoes(m) /\ Replaces(q) /\ Delivered(m, s)
  /\ m.listening => \A w \in Windows \ Shadowed : WillHear(m, q, t, w)

Known == Base /\ \A r \in Relays : Informed(relay[r], asked[r], sub[r], told[r])

-----------------------------------------------------------------------------
(* Sequences *)

LEMMA AtTheEnd ==
  ASSUME NEW S, NEW s \in Seq(S), NEW x \in S
  PROVE  /\ s \o <<x>> = Append(s, x)
         /\ Append(s, x) \in Seq(S)
         /\ Len(Append(s, x)) = Len(s) + 1
         /\ Append(s, x)[Len(s) + 1] = x
         /\ \A i \in 1..Len(s) : i \in 1..(Len(s) + 1) /\ Append(s, x)[i] = s[i]
         /\ \A i \in 1..(Len(s) + 1) : i \in 1..Len(s) \/ i = Len(s) + 1
         /\ Append(s, x) # <<>>
         /\ s # <<>> => Head(Append(s, x)) = Head(s)
<1>1. s \o <<x>> = Append(s, x) OBVIOUS
<1>2. s # <<>> => Head(Append(s, x)) = Head(s) OBVIOUS
<1>3. /\ Append(s, x) \in Seq(S)
      /\ Len(Append(s, x)) = Len(s) + 1
      /\ Append(s, x)[Len(s) + 1] = x
      /\ \A i \in 1..Len(s) : i \in 1..(Len(s) + 1) /\ Append(s, x)[i] = s[i]
  OBVIOUS
<1>4. \A i \in 1..(Len(s) + 1) : i \in 1..Len(s) \/ i = Len(s) + 1 OBVIOUS
<1>5. Append(s, x) # <<>>
  <2>1. Len(s) \in Nat OBVIOUS
  <2>2. Len(Append(s, x)) # 0 BY <1>3, <2>1
  <2>3. Len(<<>>) = 0 OBVIOUS
  <2> QED BY <2>2, <2>3, Zenon
<1> QED BY <1>1, <1>2, <1>3, <1>4, <1>5

LEMMA FirstTaken ==
  ASSUME NEW S, NEW s \in Seq(S), s # <<>>
  PROVE  /\ Head(s) = s[1] /\ s[1] \in S /\ 1 \in 1..Len(s)
         /\ Tail(s) \in Seq(S) /\ Len(Tail(s)) = Len(s) - 1 /\ Len(s) \in Nat \ {0}
         /\ \A i \in 1..(Len(s) - 1) : i + 1 \in 1..Len(s) /\ Tail(s)[i] = s[i + 1]
         /\ \A i \in 1..Len(s) : i # 1 => i - 1 \in 1..(Len(s) - 1) /\ Tail(s)[i - 1] = s[i]
OBVIOUS

LEMMA EnablesFinite ==
  ASSUME NEW s \in Seq(Step)
  PROVE  /\ IsFiniteSet(EnablesIn(s)) /\ Cardinality(EnablesIn(s)) \in Nat
         /\ s = <<>> => Cardinality(EnablesIn(s)) = 0
<1>1. PICK n \in Nat : n = Len(s) OBVIOUS
<1>2. EnablesIn(s) \subseteq 1..n BY <1>1 DEF EnablesIn
<1>3. IsFiniteSet(EnablesIn(s))
  <2>1. IsFiniteSet(1..n) BY FS_Interval
  <2> QED BY <1>2, <2>1, FS_Subset
<1>4. ASSUME s = <<>> PROVE EnablesIn(s) = {} BY <1>4 DEF EnablesIn
<1> QED BY <1>3, <1>4, FS_CardinalityType, FS_EmptySet

LEMMA EnablesPut ==
  ASSUME NEW s \in Seq(Step), NEW e \in Step
  PROVE  Cardinality(EnablesIn(Append(s, e))) =
           Cardinality(EnablesIn(s)) + (IF e.op = "enable" THEN 1 ELSE 0)
<1> DEFINE t == Append(s, e)  L == Len(s)
<1>1. /\ L \in Nat /\ DOMAIN s = 1..L /\ DOMAIN t = 1..(L + 1)
      /\ \A i \in 1..L : t[i] = s[i]
      /\ t[L + 1] = e
  OBVIOUS
<1> HIDE DEF t, L
<1>2. L + 1 \notin EnablesIn(s) BY <1>1 DEF EnablesIn
<1>3. CASE e.op = "enable"
  <2>1. EnablesIn(t) = EnablesIn(s) \cup {L + 1} BY <1>1, <1>3 DEF EnablesIn
  <2> QED BY <1>2, <1>3, <2>1, EnablesFinite, FS_AddElement DEF t
<1>4. CASE e.op # "enable"
  <2>1. EnablesIn(t) = EnablesIn(s) BY <1>1, <1>4 DEF EnablesIn
  <2> QED BY <1>4, <2>1, EnablesFinite DEF t
<1> QED BY <1>3, <1>4

LEMMA EnablesTaken ==
  ASSUME NEW s \in Seq(Step), s # <<>>
  PROVE  Cardinality(EnablesIn(s)) =
           Cardinality(EnablesIn(Tail(s))) + (IF Head(s).op = "enable" THEN 1 ELSE 0)
<1> DEFINE t == Tail(s)  L == Len(s)
<1>1. /\ L \in Nat \ {0} /\ DOMAIN s = 1..L /\ DOMAIN t = 1..(L - 1)
      /\ \A i \in 1..(L - 1) : t[i] = s[i + 1]
      /\ Head(s) = s[1]
  OBVIOUS
<1>t. t \in Seq(Step) OBVIOUS
<1> DEFINE Later == EnablesIn(s) \ {1}
           f == [i \in Later |-> i - 1]
<1> HIDE DEF t, L
<1>2. \A i \in Later : i \in 2..L /\ s[i].op = "enable" BY <1>1 DEF EnablesIn
<1>3. \A i \in Later : i - 1 \in EnablesIn(t)
  <2>1. \A i \in 2..L : i - 1 \in 1..(L - 1) /\ (i - 1) + 1 = i BY <1>1
  <2> QED BY <1>1, <1>2, <2>1 DEF EnablesIn
<1>4. \A j \in EnablesIn(t) : j + 1 \in Later /\ (j + 1) - 1 = j
  <2>1. \A j \in 1..(L - 1) : j + 1 \in 1..L /\ j + 1 # 1 /\ (j + 1) - 1 = j BY <1>1
  <2> QED BY <1>1, <2>1 DEF EnablesIn
<1>5. f \in Bijection(Later, EnablesIn(t))
  <2>1. f \in [Later -> EnablesIn(t)] BY <1>3
  <2>2. \A i, j \in Later : f[i] = f[j] => i = j BY <1>1, <1>2
  <2>3. \A j \in EnablesIn(t) : \E i \in Later : f[i] = j BY <1>4
  <2> QED BY <2>1, <2>2, <2>3, Fun_IsBij
<1>6. IsFiniteSet(Later) /\ Cardinality(Later) = Cardinality(EnablesIn(t))
  <2>1. IsFiniteSet(Later) BY EnablesFinite, FS_RemoveElement
  <2>2. ExistsBijection(Later, EnablesIn(t)) BY <1>5 DEF ExistsBijection
  <2> QED BY <2>1, <2>2, FS_Bijection
<1>7. Cardinality(Later) = IF 1 \in EnablesIn(s) THEN Cardinality(EnablesIn(s)) - 1 ELSE Cardinality(EnablesIn(s))
  BY EnablesFinite, FS_RemoveElement
<1>8. 1 \in EnablesIn(s) <=> Head(s).op = "enable" BY <1>1 DEF EnablesIn
<1>9. Cardinality(EnablesIn(s)) \in Nat /\ Cardinality(EnablesIn(t)) \in Nat BY <1>t, EnablesFinite
<1> QED BY <1>6, <1>7, <1>8, <1>9 DEF t

LEMMA LeavesPut ==
  ASSUME NEW s \in Seq(Step), NEW e \in Step
  PROVE  Leaves(Append(s, e)) <=> Leaves(s) \/ e.op = "disable"
BY AtTheEnd DEF Leaves

LEMMA LeavesTaken ==
  ASSUME NEW s \in Seq(Step), s # <<>>
  PROVE  Leaves(s) <=> Head(s).op = "disable" \/ Leaves(Tail(s))
<1>1. ASSUME NEW i \in DOMAIN Tail(s), Tail(s)[i].op = "disable" PROVE Leaves(s)
  <2>1. i \in 1..(Len(s) - 1) BY FirstTaken, <1>1
  <2>2. i + 1 \in DOMAIN s /\ s[i + 1].op = "disable" BY FirstTaken, <1>1, <2>1
  <2> QED BY <2>2 DEF Leaves
<1>2. ASSUME NEW i \in DOMAIN s, s[i].op = "disable" PROVE Head(s).op = "disable" \/ Leaves(Tail(s))
  <2>1. CASE i = 1 BY <1>2, <2>1, FirstTaken
  <2>2. CASE i # 1
    <3>1. i - 1 \in DOMAIN Tail(s) /\ Tail(s)[i - 1] = s[i] BY <2>2, FirstTaken
    <3> QED BY <1>2, <3>1 DEF Leaves
  <2> QED BY <2>1, <2>2
<1>3. Head(s).op = "disable" => Leaves(s) BY FirstTaken DEF Leaves
<1> QED BY <1>1, <1>2, <1>3 DEF Leaves

-----------------------------------------------------------------------------
(* What tmux is asked *)

AllFetches(q) == \A i \in 1..Len(q) : q[i].c = "fetch"

LEMMA ServesTaken ==
  ASSUME NEW m \in Relay, NEW q \in Seq(Command), Serving(m, q), q # <<>>, Head(q).c # "fetch"
  PROVE  /\ Head(q).c \in Answers(m.awaits)
         /\ AllFetches(Tail(q))
         /\ ~m.listening => Tail(q) = <<>>
<1>1. /\ 1 \in 1..Len(q) /\ Head(q) = q[1] /\ Len(q) \in Nat \ {0}
      /\ Len(Tail(q)) = Len(q) - 1 /\ Tail(q) \in Seq(Command)
      /\ \A i \in 1..(Len(q) - 1) : i + 1 \in 1..Len(q) /\ Tail(q)[i] = q[i + 1]
  BY FirstTaken
<1>2. /\ q[1].c \in Answers(m.awaits)
      /\ \A j \in 1..Len(q) : q[j].c # "fetch" => 1 = j
      /\ ~m.listening => 1 = Len(q)
  BY <1>1 DEF Serving
<1>3. AllFetches(Tail(q))
  <2>1. \A i \in 1..(Len(q) - 1) : i + 1 # 1 BY <1>1
  <2> QED BY <1>1, <1>2, <2>1 DEF AllFetches
<1>4. Len(Tail(q)) = 0 => Tail(q) = <<>>
  <2>1. PICK t \in Seq(Command) : t = Tail(q) BY <1>1
  <2> QED BY <2>1
<1> QED BY <1>1, <1>2, <1>3, <1>4

LEMMA FetchTaken ==
  ASSUME NEW m \in Relay, NEW q \in Seq(Command), Serving(m, q), q # <<>>, Head(q).c = "fetch"
  PROVE  Serving(m, Tail(q))
<1> DEFINE t == Tail(q)
<1>1. /\ Head(q) = q[1] /\ Len(q) \in Nat \ {0} /\ Len(t) = Len(q) - 1
      /\ \A i \in 1..(Len(q) - 1) : i + 1 \in 1..Len(q) /\ t[i] = q[i + 1]
  BY FirstTaken
<1> HIDE DEF t
<1>2. SUFFICES ASSUME NEW i \in 1..Len(t), t[i].c # "fetch"
      PROVE  /\ t[i].c \in Answers(m.awaits)
             /\ \A j \in 1..Len(t) : t[j].c # "fetch" => i = j
             /\ ~m.listening => i = Len(t)
             /\ t[i].c = "install" => i = 1
  BY DEF Serving, t
<1>3. i \in Nat /\ i + 1 \in 1..Len(q) /\ t[i] = q[i + 1] BY <1>1, <1>2
<1>4. /\ q[i + 1].c \in Answers(m.awaits)
      /\ \A j \in 1..Len(q) : q[j].c # "fetch" => i + 1 = j
      /\ ~m.listening => i + 1 = Len(q)
      /\ q[i + 1].c = "install" => i + 1 = 1
  BY <1>2, <1>3 DEF Serving
<1>5. \A j \in 1..Len(t) : t[j].c # "fetch" => i = j BY <1>1, <1>3, <1>4
<1> QED BY <1>1, <1>3, <1>4, <1>5

LEMMA OnlyFetches ==
  ASSUME NEW m \in Relay, NEW q \in Seq(Command)
  PROVE  /\ AllFetches(q) => Serving(m, q)
         /\ Serving(m, q) /\ m.awaits = "nothing" => AllFetches(q)
<1>1. AllFetches(q) => Serving(m, q) BY DEF AllFetches, Serving
<1>2. ASSUME Serving(m, q), m.awaits = "nothing", NEW i \in 1..Len(q) PROVE q[i].c = "fetch"
  <2>1. q[i] \in Command OBVIOUS
  <2>2. q[i].c # "nothing" BY <2>1 DEF Command
  <2> QED BY <1>2, <2>2 DEF Serving, Answers
<1> QED BY <1>1, <1>2 DEF AllFetches

LEMMA CommandAsked ==
  ASSUME NEW m \in Relay, NEW q \in Seq(Command), AllFetches(q), NEW c,
         Cmd(c) \in Command, c \in Answers(m.awaits), c = "install" => q = <<>>
  PROVE  Serving(m, Append(q, Cmd(c)))
<1> DEFINE p == Append(q, Cmd(c))  L == Len(q)
<1>1. /\ L \in Nat /\ Len(p) = L + 1 /\ p[L + 1] = Cmd(c)
      /\ \A i \in 1..L : p[i] = q[i]
      /\ \A i \in 1..(L + 1) : i \in 1..L \/ i = L + 1
      /\ q = <<>> => L = 0
  BY AtTheEnd
<1> HIDE DEF p, L
<1>2. \A i \in 1..(L + 1) : p[i].c # "fetch" => i = L + 1
  BY <1>1 DEF AllFetches, L
<1>3. p[L + 1].c = c BY <1>1 DEF Cmd
<1>4. SUFFICES ASSUME NEW i \in 1..(L + 1), p[i].c # "fetch"
      PROVE  /\ p[i].c \in Answers(m.awaits)
             /\ \A j \in 1..(L + 1) : p[j].c # "fetch" => i = j
             /\ ~m.listening => i = L + 1
             /\ p[i].c = "install" => i = 1
  BY <1>1 DEF Serving, p
<1>5. i = L + 1 BY <1>2, <1>4
<1> QED BY <1>1, <1>2, <1>3, <1>5

LEMMA FetchesAsked ==
  ASSUME NEW m \in Relay, NEW m1 \in Relay, NEW q \in Seq(Command), NEW f \in Seq(Command),
         Serving(m, q), m.listening, AllFetches(f), m1.awaits = m.awaits, m1.listening
  PROVE  Serving(m1, q \o f)
<1> DEFINE p == q \o f  L == Len(q)  K == Len(f)
<1>1. /\ L \in Nat /\ K \in Nat /\ Len(p) = L + K
      /\ \A i \in 1..L : p[i] = q[i]
      /\ \A i \in 1..(L + K) : i \notin 1..L => i - L \in 1..K /\ p[i] = f[i - L]
  OBVIOUS
<1> HIDE DEF p, L, K
<1>2. \A i \in 1..(L + K) : p[i].c # "fetch" => i \in 1..L /\ q[i].c # "fetch" /\ p[i] = q[i]
  BY <1>1 DEF AllFetches, K
<1> QED BY <1>1, <1>2 DEF Serving, p, L

LEMMA ServingStays ==
  ASSUME NEW m \in Relay, NEW m1 \in Relay, NEW q \in Seq(Command), Serving(m, q),
         m1.awaits = m.awaits, m1.listening = m.listening
  PROVE  Serving(m1, q)
BY DEF Serving

-----------------------------------------------------------------------------
(* A relay's own part, step by step *)

(* A step joins the queue.                                                 *)
LEMMA StepQueued ==
  ASSUME NEW m \in Relay, NEW m1 \in Relay, NEW q \in Seq(Command), NEW on, NEW g \in Nat, NEW g1 \in Nat,
         NEW e \in Step, Own(m, q, on, g), m1.queue = Append(m.queue, e),
         m1.awaits = m.awaits, m1.subscribed = m.subscribed, m1.listening = m.listening,
         m1.refCount - g1 = m.refCount - g + (IF e.op = "enable" THEN 1 ELSE 0),
         ~m.subscribed => m1.refCount >= m.refCount /\ g1 = g,
         m1.refCount # 0 \/ m.refCount = 0 \/ e.op = "disable"
  PROVE  Own(m1, q, on, g1)
<1>1. m.queue \in Seq(Step) /\ m.refCount \in Int /\ m1.refCount \in Int BY DEF Relay
<1>2. /\ m1.queue # <<>> /\ m.queue # <<>> => Head(m1.queue) = Head(m.queue)
      /\ Leaves(m1.queue) <=> Leaves(m.queue) \/ e.op = "disable"
      /\ Cardinality(EnablesIn(m1.queue)) =
           Cardinality(EnablesIn(m.queue)) + (IF e.op = "enable" THEN 1 ELSE 0)
      /\ Cardinality(EnablesIn(m.queue)) \in Nat
  BY <1>1, AtTheEnd, LeavesPut, EnablesPut, EnablesFinite
<1>3. Serving(m1, q) BY ServingStays DEF Own
<1>4. m.awaits # "nothing" => m.queue # <<>> BY DEF Own, Phases
<1>5. /\ Joins(m1) <=> Joins(m)
      /\ m.awaits # "nothing" => Head(m1.queue) = Head(m.queue)
  BY <1>2, <1>4 DEF Joins, Repairs
<1>6. Phases(m1, on) BY <1>2, <1>5 DEF Own, Phases, Joins, Repairs
<1>7. Counts(m1, g1)
  <2>1. m1.refCount = g1 + Cardinality(EnablesIn(m1.queue)) BY <1>1, <1>2 DEF Own, Counts
  <2>2. ~m1.subscribed => g1 = 0 BY DEF Own, Counts
  <2>3. Joins(m1) => m1.refCount > 0 BY <1>1, <1>5 DEF Own, Counts, Phases
  <2>4. m1.subscribed /\ m1.refCount = 0 => Leaves(m1.queue) BY <1>2 DEF Own, Counts
  <2> QED BY <2>1, <2>2, <2>3, <2>4 DEF Counts
<1> QED BY <1>3, <1>6, <1>7 DEF Own

(* A step settles.                                                         *)
LEMMA StepSettled ==
  ASSUME NEW m \in Relay, NEW m1 \in Relay, NEW q \in Seq(Command), NEW q1 \in Seq(Command),
         NEW on, NEW on1, NEW g \in Nat, NEW g1 \in Nat,
         Own(m, q, on, g), m.queue # <<>>, m1.queue = Tail(m.queue), m1.awaits = "nothing",
         AllFetches(q1), m1.subscribed => m1.listening /\ on1, m1.listening => m1.subscribed,
         m1.refCount - g1 = m.refCount - g - (IF Head(m.queue).op = "enable" THEN 1 ELSE 0),
         ~m1.subscribed => g1 = 0, m1.subscribed /\ m1.refCount = 0 => Leaves(m1.queue)
  PROVE  Own(m1, q1, on1, g1)
<1>1. m.queue \in Seq(Step) /\ m1.queue \in Seq(Step) /\ m.refCount \in Int /\ m1.refCount \in Int BY DEF Relay
<1>2. /\ Cardinality(EnablesIn(m.queue)) =
           Cardinality(EnablesIn(m1.queue)) + (IF Head(m.queue).op = "enable" THEN 1 ELSE 0)
      /\ Cardinality(EnablesIn(m1.queue)) \in Nat
  BY <1>1, EnablesTaken, EnablesFinite
<1>3. Serving(m1, q1) BY OnlyFetches
<1>4. Phases(m1, on1) BY DEF Phases, Joins
<1>5. ~Joins(m1) BY DEF Joins
<1>6. m1.refCount = g1 + Cardinality(EnablesIn(m1.queue))
  <2>1. m.refCount = g + Cardinality(EnablesIn(m.queue)) BY DEF Own, Counts
  <2>2. PICK d : d = IF Head(m.queue).op = "enable" THEN 1 ELSE 0 OBVIOUS
  <2>3. d \in Nat BY <2>2
  <2> QED BY <1>1, <1>2, <2>1, <2>2, <2>3
<1> QED BY <1>3, <1>4, <1>5, <1>6 DEF Own, Counts

(* A step asks tmux for something and waits.                               *)
LEMMA StepAsked ==
  ASSUME NEW m \in Relay, NEW m1 \in Relay, NEW q \in Seq(Command), NEW q1 \in Seq(Command), NEW on, NEW g \in Nat,
         NEW c, Own(m, q, on, g), m.queue # <<>>, m1.queue = m.queue, m1.refCount = m.refCount,
         AllFetches(q1), Cmd(c) \in Command, c \in Answers(m1.awaits), c = "install" => q1 = <<>>,
         Phases(m1, on), ~m1.subscribed /\ m.subscribed => g = 0, m1.subscribed => m.subscribed,
         Joins(m1) => m1.refCount > 0
  PROVE  Own(m1, Append(q1, Cmd(c)), on, g)
<1>1. Serving(m1, Append(q1, Cmd(c))) BY CommandAsked
<1>2. Counts(m1, g) BY DEF Own, Counts
<1> QED BY <1>1, <1>2 DEF Own

LEMMA RelayTypes ==
  ASSUME NEW m \in Relay
  PROVE  /\ m.refCount \in Int /\ m.queue \in Seq(Step) /\ {m.subscribed, m.listening, m.repairQueued} \subseteq BOOLEAN
         /\ {m.lastSeq, m.gen, m.epoch} \subseteq Nat /\ m.reported \in SUBSET SUBSET Windows
         /\ m.queue # <<>> => Done(m) \in Relay /\ Rejected(m) \in Relay
         /\ m.queue # <<>> => Head(m.queue) \in Step
         /\ Unqueued(m) \in Relay
<1>1. m.queue # <<>> => Tail(m.queue) \in Seq(Step) BY DEF Relay
<1>2. m.queue # <<>> => Head(m.queue) \in Step BY DEF Relay
<1>3. m.queue # <<>> => Done(m) \in Relay BY <1>1 DEF Relay, Done
<1>4. Unqueued(m) \in Relay BY DEF Relay, Unqueued
<1>5. m.queue # <<>> => Rejected(m) \in Relay
  <2>1. ASSUME NEW n \in Relay PROVE [n EXCEPT !.refCount = @ - 1] \in Relay
    <3>1. n.refCount - 1 \in Int BY DEF Relay
    <3>2. ASSUME NEW k \in Int PROVE [n EXCEPT !.refCount = k] \in Relay BY DEF Relay
    <3> QED BY <3>1, <3>2
  <2> QED BY <1>3, <2>1 DEF Rejected
<1> QED BY <1>2, <1>3, <1>4, <1>5 DEF Relay

-----------------------------------------------------------------------------
(* Base is inductive: calls and the beginning of a step *)

Moves(r, m1, q1, s1, g1) ==
  /\ relay' = [relay EXCEPT ![r] = m1] /\ asked' = [asked EXCEPT ![r] = q1]
  /\ sub' = [sub EXCEPT ![r] = s1] /\ granted' = [granted EXCEPT ![r] = g1]

NoChange ==
  /\ UNCHANGED <<seq, buffer, layout, changes>>
  /\ hook' \in {"none", "foreign", "ours"} /\ epoch' \in Nat
  /\ told' \in [Relays -> [Windows -> 0..MaxChanges]] /\ failed' \subseteq Relays

LEMMA Here ==
  ASSUME Base, NEW r \in Relays
  PROVE  /\ relay[r] \in Relay /\ asked[r] \in Seq(Command) /\ sub[r] \in Sub /\ granted[r] \in Nat
         /\ Own(relay[r], asked[r], sub[r].on, granted[r])
BY DEF Base, Types, OwnOf

LEMMA Stays ==
  ASSUME Base, NEW r \in Relays
  PROVE  /\ relay' = relay => relay' = [relay EXCEPT ![r] = relay[r]]
         /\ asked' = asked => asked' = [asked EXCEPT ![r] = asked[r]]
         /\ sub' = sub => sub' = [sub EXCEPT ![r] = sub[r]]
         /\ granted' = granted => granted' = [granted EXCEPT ![r] = granted[r]]
<1>1. Types BY DEF Base
<1>2. relay = [relay EXCEPT ![r] = relay[r]] BY <1>1 DEF Types
<1>3. asked = [asked EXCEPT ![r] = asked[r]] BY <1>1 DEF Types
<1>4. sub = [sub EXCEPT ![r] = sub[r]] BY <1>1 DEF Types
<1>5. granted = [granted EXCEPT ![r] = granted[r]] BY <1>1 DEF Types
<1> QED BY <1>2, <1>3, <1>4, <1>5

LEMMA OneRelay ==
  ASSUME Base, NEW r \in Relays, NEW m1 \in Relay, NEW q1 \in Seq(Command), NEW s1 \in Sub, NEW g1 \in Nat,
         Moves(r, m1, q1, s1, g1), NoChange, Own(m1, q1, s1.on, g1)
  PROVE  Base'
<1>1. Types BY DEF Base
<1>2. relay' \in [Relays -> Relay] BY <1>1 DEF Types, Moves
<1>3. asked' \in [Relays -> Seq(Command)] BY <1>1 DEF Types, Moves
<1>4. sub' \in [Relays -> Sub] BY <1>1 DEF Types, Moves
<1>5. granted' \in [Relays -> Nat] BY <1>1 DEF Types, Moves
<1>6. Types' BY <1>1, <1>2, <1>3, <1>4, <1>5 DEF Types, NoChange
<1>7. Ordered' BY DEF Base, Ordered, NoChange
<1>8. ASSUME NEW x \in Relays PROVE OwnOf(x)'
  <2>1. CASE x = r
    <3>1. relay'[x] = m1 /\ asked'[x] = q1 /\ sub'[x] = s1 /\ granted'[x] = g1
      BY <1>1, <2>1 DEF Types, Moves
    <3> QED BY <3>1 DEF OwnOf
  <2>2. CASE x # r
    <3>1. relay'[x] = relay[x] /\ asked'[x] = asked[x] /\ sub'[x] = sub[x] /\ granted'[x] = granted[x]
      BY <1>1, <2>2 DEF Types, Moves
    <3> QED BY <3>1 DEF OwnOf, Base
  <2> QED BY <2>1, <2>2
<1> QED BY <1>6, <1>7, <1>8 DEF Base

LEMMA QuietTmux ==
  ASSUME Base, UNCHANGED <<tmuxVars, changes>>, told' \in [Relays -> [Windows -> 0..MaxChanges]], failed' \subseteq Relays
  PROVE  NoChange
BY DEF Base, Types, NoChange, tmuxVars

LEMMA EnableBase ==
  ASSUME Base, NEW r \in Relays, enable(r)
  PROVE  Base'
<1> DEFINE m == relay[r]  e == [op |-> "enable", gen |-> 0]
           m1 == [m EXCEPT !.refCount = @ + 1, !.queue = Append(@, e)]
<1>0. /\ m \in Relay /\ asked[r] \in Seq(Command) /\ sub[r] \in Sub /\ granted[r] \in Nat
      /\ Own(m, asked[r], sub[r].on, granted[r])
  BY Here
<1>1. e \in Step /\ m.refCount \in Int /\ m.queue \in Seq(Step) BY <1>0, RelayTypes DEF Step
<1>2. m1 \in Relay
  <2>1. Append(m.queue, e) \in Seq(Step) /\ m.refCount + 1 \in Int BY <1>1
  <2>2. ASSUME NEW k \in Int, NEW s \in Seq(Step) PROVE [m EXCEPT !.refCount = k, !.queue = s] \in Relay
    BY <1>0 DEF Relay
  <2> QED BY <2>1, <2>2
<1>3. Moves(r, m1, asked[r], sub[r], granted[r])
  <2>1. relay' = [relay EXCEPT ![r] = m1] BY DEF enable, Base, Types
  <2> QED BY <2>1, Stays DEF enable, Moves
<1>4. NoChange BY QuietTmux DEF enable, Base, Types
<1>5. Own(m1, asked[r], sub[r].on, granted[r])
  <2>1. /\ m1.queue = Append(m.queue, e) /\ m1.refCount = m.refCount + 1 /\ m1.awaits = m.awaits
        /\ m1.subscribed = m.subscribed /\ m1.listening = m.listening
    BY <1>0 DEF Relay
  <2>2. m.refCount >= 0
    <3>1. m.refCount = granted[r] + Cardinality(EnablesIn(m.queue)) BY <1>0 DEF Own, Counts
    <3>2. Cardinality(EnablesIn(m.queue)) \in Nat BY <1>1, EnablesFinite
    <3> QED BY <1>0, <3>1, <3>2
  <2>3. /\ m1.refCount - granted[r] = m.refCount - granted[r] + (IF e.op = "enable" THEN 1 ELSE 0)
        /\ m1.refCount >= m.refCount /\ m1.refCount # 0
    BY <1>0, <1>1, <2>1, <2>2
  <2> HIDE DEF m, m1, e
  <2> QED BY <1>0, <1>1, <1>2, <2>1, <2>3, StepQueued
<1> HIDE DEF m1
<1> QED BY <1>0, <1>2, <1>3, <1>4, <1>5, OneRelay

LEMMA DisableBase ==
  ASSUME Base, NEW r \in Relays, disable(r)
  PROVE  Base'
<1> DEFINE m == relay[r]  e == [op |-> "disable", gen |-> 0]  g1 == granted[r] - 1
           m1 == [m EXCEPT !.refCount = @ - 1, !.queue = Append(@, e)]
<1>0. /\ m \in Relay /\ asked[r] \in Seq(Command) /\ sub[r] \in Sub /\ granted[r] \in Nat
      /\ Own(m, asked[r], sub[r].on, granted[r])
  BY Here
<1>1. e \in Step /\ m.refCount \in Int /\ m.queue \in Seq(Step) BY <1>0, RelayTypes DEF Step
<1>2. m1 \in Relay
  <2>1. Append(m.queue, e) \in Seq(Step) /\ m.refCount - 1 \in Int BY <1>1
  <2>2. ASSUME NEW k \in Int, NEW s \in Seq(Step) PROVE [m EXCEPT !.refCount = k, !.queue = s] \in Relay
    BY <1>0 DEF Relay
  <2> QED BY <2>1, <2>2
<1>3. Moves(r, m1, asked[r], sub[r], g1)
  <2>1. relay' = [relay EXCEPT ![r] = m1] BY DEF disable, Base, Types
  <2>2. granted' = [granted EXCEPT ![r] = g1] BY DEF disable
  <2> QED BY <2>1, <2>2, Stays DEF disable, Moves
<1>4. NoChange BY QuietTmux DEF disable, Base, Types, countVars
<1>g. g1 \in Nat /\ granted[r] > 0 BY <1>0 DEF disable
<1>5. Own(m1, asked[r], sub[r].on, g1)
  <2>1. /\ m1.queue = Append(m.queue, e) /\ m1.refCount = m.refCount - 1 /\ m1.awaits = m.awaits
        /\ m1.subscribed = m.subscribed /\ m1.listening = m.listening
    BY <1>0 DEF Relay
  <2>2. m.subscribed BY <1>0, <1>g DEF Own, Counts
  <2>4. e.op = "disable" /\ g1 = granted[r] - 1 OBVIOUS
  <2>3. m1.refCount - g1 = m.refCount - granted[r] + (IF e.op = "enable" THEN 1 ELSE 0)
    <3>1. m.refCount \in Int /\ granted[r] \in Nat /\ m1.refCount = m.refCount - 1 BY <1>0, <1>1, <2>1
    <3> HIDE DEF m, m1, e, g1
    <3>2. m1.refCount - g1 = m.refCount - granted[r] BY <2>4, <3>1
    <3> QED BY <2>4, <3>1, <3>2
  <2> HIDE DEF m, m1, e, g1
  <2> QED BY <1>0, <1>1, <1>2, <1>g, <2>1, <2>2, <2>3, <2>4, StepQueued
<1> HIDE DEF m1, g1
<1> QED BY <1>0, <1>2, <1>3, <1>4, <1>5, <1>g, OneRelay

LEMMA BeginBase ==
  ASSUME Base, NEW r \in Relays, Begin(r)
  PROVE  Base'
<1> DEFINE m == relay[r]  q == asked[r]  on == sub[r].on  g == granted[r]  op == Head(m.queue).op
<1>0. /\ m \in Relay /\ q \in Seq(Command) /\ sub[r] \in Sub /\ g \in Nat /\ Own(m, q, on, g)
      /\ m.queue # <<>> /\ m.awaits = "nothing" /\ relay \in [Relays -> Relay]
  BY Here DEF Begin, Base, Types
<1>1. NoChange BY QuietTmux DEF Begin, Base, Types, countVars
<1>2. AllFetches(q) BY <1>0, OnlyFetches DEF Own
<1>3. /\ m.refCount \in Int /\ m.refCount = g + Cardinality(EnablesIn(m.queue))
      /\ Cardinality(EnablesIn(m.queue)) \in Nat
      /\ op = "enable" => m.refCount > 0
      /\ op \in {"enable", "disable", "repair"}
  <2>1. m.refCount \in Int /\ m.queue \in Seq(Step) /\ Head(m.queue) \in Step BY <1>0, RelayTypes
  <2>2. Tail(m.queue) \in Seq(Step) BY <1>0, <2>1, FirstTaken
  <2>3. /\ Cardinality(EnablesIn(m.queue)) =
             Cardinality(EnablesIn(Tail(m.queue))) + (IF Head(m.queue).op = "enable" THEN 1 ELSE 0)
        /\ Cardinality(EnablesIn(Tail(m.queue))) \in Nat
        /\ Cardinality(EnablesIn(m.queue)) \in Nat
    BY <1>0, <2>1, <2>2, EnablesTaken, EnablesFinite
  <2>4. m.refCount = g + Cardinality(EnablesIn(m.queue)) BY <1>0 DEF Own, Counts
  <2>5. op \in {"enable", "disable", "repair"} BY <2>1 DEF Step
  <2> QED BY <1>0, <2>1, <2>3, <2>4, <2>5
<1>4. /\ m.listening <=> m.subscribed
      /\ m.subscribed => on
      /\ ~m.subscribed => g = 0
      /\ m.subscribed /\ m.refCount = 0 => Leaves(m.queue)
  BY <1>0 DEF Own, Phases, Counts
<1>5. Cmd("show") \in Command /\ Cmd("unsubscribe") \in Command BY DEF Cmd, Command
<1>m. ASSUME NEW m1 \in Relay, NEW q1 \in Seq(Command), NEW g1 \in Nat, relay' = [relay EXCEPT ![r] = m1],
             asked' = [asked EXCEPT ![r] = q1], granted' = [granted EXCEPT ![r] = g1], Own(m1, q1, on, g1)
      PROVE  Base'
  <2>1. Moves(r, m1, q1, sub[r], g1) BY <1>m, Stays DEF Moves, Begin
  <2> QED BY <1>0, <1>1, <1>m, <2>1, OneRelay
<1>6. CASE /\ op # "repair" /\ Wanted(m) /\ ~m.subscribed
           /\ Await(r, m, "show") /\ asked' = [asked EXCEPT ![r] = Append(@, Cmd("show"))]
           /\ UNCHANGED granted
  <2> DEFINE m1 == [m EXCEPT !.awaits = "show"]
  <2>1. m1 \in Relay BY <1>0 DEF Relay
  <2>2. /\ m1.queue = m.queue /\ m1.refCount = m.refCount /\ m1.awaits = "show"
        /\ m1.subscribed = m.subscribed /\ m1.listening = m.listening
    BY <1>0 DEF Relay
  <2>3. relay' = [relay EXCEPT ![r] = m1] /\ asked' = [asked EXCEPT ![r] = Append(q, Cmd("show"))]
    BY <1>6 DEF Await
  <2> HIDE DEF m1
  <2>4. Phases(m1, on) BY <1>0, <1>4, <1>6, <2>2 DEF Phases, Joins, Repairs
  <2>5. m1.refCount > 0 BY <1>6, <2>2 DEF Wanted
  <2>6. Own(m1, Append(q, Cmd("show")), on, g)
    BY <1>0, <1>2, <1>5, <1>6, <2>1, <2>2, <2>4, <2>5, StepAsked DEF Answers
  <2>7. Append(q, Cmd("show")) \in Seq(Command) BY <1>0, <1>5, AtTheEnd
  <2> QED BY <1>0, <1>6, <1>m, <2>1, <2>3, <2>6, <2>7, Stays
<1>7. CASE /\ op # "repair" /\ ~Wanted(m) /\ m.subscribed
           /\ Await(r, [m EXCEPT !.subscribed = FALSE, !.listening = FALSE, !.gen = @ + 1], "unsubscribe")
           /\ asked' = [asked EXCEPT ![r] = Append(@, Cmd("unsubscribe"))]
           /\ UNCHANGED granted
  <2> DEFINE m1 == [[m EXCEPT !.subscribed = FALSE, !.listening = FALSE, !.gen = @ + 1] EXCEPT !.awaits = "unsubscribe"]
  <2>1. m1 \in Relay
    <3>1. m.gen + 1 \in Nat BY <1>0 DEF Relay
    <3>2. ASSUME NEW k \in Nat
          PROVE [[m EXCEPT !.subscribed = FALSE, !.listening = FALSE, !.gen = k] EXCEPT !.awaits = "unsubscribe"] \in Relay
      BY <1>0 DEF Relay
    <3> QED BY <3>1, <3>2
  <2>2. /\ m1.queue = m.queue /\ m1.refCount = m.refCount /\ m1.awaits = "unsubscribe"
        /\ ~m1.subscribed /\ ~m1.listening
    BY <1>0 DEF Relay
  <2>3. relay' = [relay EXCEPT ![r] = m1] /\ asked' = [asked EXCEPT ![r] = Append(q, Cmd("unsubscribe"))]
    BY <1>7 DEF Await
  <2> HIDE DEF m1
  <2>4. g = 0 /\ op = "disable" BY <1>0, <1>3, <1>7 DEF Wanted
  <2>5. Phases(m1, on) BY <1>0, <2>2, <2>4 DEF Phases, Joins, Repairs
  <2>6. ~Joins(m1) BY <2>2 DEF Joins
  <2>7. Own(m1, Append(q, Cmd("unsubscribe")), on, g)
    BY <1>0, <1>2, <1>5, <1>7, <2>1, <2>2, <2>4, <2>5, <2>6, StepAsked DEF Answers
  <2>8. Append(q, Cmd("unsubscribe")) \in Seq(Command) BY <1>0, <1>5, AtTheEnd
  <2> QED BY <1>0, <1>7, <1>m, <2>1, <2>3, <2>7, <2>8, Stays
<1>8. CASE /\ op # "repair" /\ Wanted(m) = m.subscribed
           /\ relay' = [relay EXCEPT ![r] = Done(m)]
           /\ IF op = "enable" THEN Resolves(r) ELSE UNCHANGED granted
           /\ UNCHANGED asked
  <2> DEFINE m1 == Done(m)  g1 == IF op = "enable" THEN g + 1 ELSE g
  <2>1. m1 \in Relay /\ g1 \in Nat BY <1>0, RelayTypes
  <2>2. /\ m1.queue = Tail(m.queue) /\ m1.refCount = m.refCount /\ m1.awaits = "nothing"
        /\ m1.subscribed = m.subscribed /\ m1.listening = m.listening
    BY <1>0 DEF Relay, Done
  <2>3. granted' = [granted EXCEPT ![r] = g1] BY <1>8, Stays DEF Resolves
  <2>4. m.subscribed <=> m.refCount > 0 BY <1>0, <1>8 DEF Wanted, Relay
  <2>5. ~m1.subscribed => g1 = 0 BY <1>0, <1>3, <1>4, <2>2, <2>4
  <2>6. m1.refCount - g1 = m.refCount - g - (IF Head(m.queue).op = "enable" THEN 1 ELSE 0)
    BY <1>0, <1>3, <2>2
  <2>7. m1.subscribed => m1.refCount # 0 BY <1>3, <2>2, <2>4
  <2> HIDE DEF m1, g1
  <2>a. /\ m1.subscribed => m1.listening /\ on
        /\ m1.listening => m1.subscribed
        /\ m1.subscribed /\ m1.refCount = 0 => Leaves(m1.queue)
    BY <1>4, <2>2, <2>7
  <2>8. Own(m1, q, on, g1)
    <3> HIDE DEF m, q, on, g, op
    <3> QED BY <1>0, <1>2, <2>1, <2>2, <2>5, <2>6, <2>a, StepSettled DEF op
  <2>9. relay' = [relay EXCEPT ![r] = m1] BY <1>8 DEF m1
  <2> QED BY <1>0, <1>8, <1>m, <2>1, <2>3, <2>8, <2>9, Stays
<1>9. CASE /\ op = "repair" /\ UNCHANGED granted /\ Current(m)
           /\ Await(r, Unqueued(m), "show")
           /\ asked' = [asked EXCEPT ![r] = Append(@, Cmd("show"))]
  <2> DEFINE m1 == [Unqueued(m) EXCEPT !.awaits = "show"]
  <2>1. m1 \in Relay BY <1>0 DEF Relay, Unqueued
  <2>2. /\ m1.queue = m.queue /\ m1.refCount = m.refCount /\ m1.awaits = "show"
        /\ m1.subscribed = m.subscribed /\ m1.listening = m.listening
    BY <1>0 DEF Relay, Unqueued
  <2>3. relay' = [relay EXCEPT ![r] = m1] /\ asked' = [asked EXCEPT ![r] = Append(q, Cmd("show"))]
    BY <1>9 DEF Await
  <2> HIDE DEF m1
  <2>4. ~Joins(m1) BY <1>9, <2>2 DEF Joins, Repairs
  <2>5. Phases(m1, on) BY <1>0, <1>4, <2>2, <2>4 DEF Phases
  <2>6. Own(m1, Append(q, Cmd("show")), on, g)
    BY <1>0, <1>2, <1>5, <2>1, <2>2, <2>4, <2>5, StepAsked DEF Answers
  <2>7. Append(q, Cmd("show")) \in Seq(Command) BY <1>0, <1>5, AtTheEnd
  <2> QED BY <1>0, <1>9, <1>m, <2>1, <2>3, <2>6, <2>7, Stays
<1>10. CASE /\ op = "repair" /\ UNCHANGED granted /\ ~Current(m)
            /\ relay' = [relay EXCEPT ![r] = Done(Unqueued(m))]
            /\ UNCHANGED asked
  <2> DEFINE m1 == Done(Unqueued(m))
  <2>1. /\ m1.queue = Tail(m.queue) /\ m1.refCount = m.refCount /\ m1.awaits = "nothing"
        /\ m1.subscribed = m.subscribed /\ m1.listening = m.listening
    BY <1>0 DEF Relay, Done, Unqueued
  <2>2. m1 \in Relay
    <3>1. Unqueued(m) \in Relay /\ Unqueued(m).queue = m.queue BY <1>0, RelayTypes DEF Unqueued, Relay
    <3> QED BY <1>0, <3>1, RelayTypes
  <2>3. m.refCount = 0 /\ m.subscribed => Leaves(m1.queue)
    BY <1>0, <1>4, <1>10, <2>1, LeavesTaken, RelayTypes
  <2>4. m1.refCount - g = m.refCount - g - (IF Head(m.queue).op = "enable" THEN 1 ELSE 0)
    BY <1>0, <1>3, <1>10, <2>1
  <2> HIDE DEF m1
  <2>5. Own(m1, q, on, g)
    <3>1. /\ m1.subscribed => m1.listening /\ on
          /\ m1.listening => m1.subscribed
          /\ ~m1.subscribed => g = 0
          /\ m1.subscribed /\ m1.refCount = 0 => Leaves(m1.queue)
      BY <1>4, <2>1, <2>3
    <3>2. m \in Relay /\ q \in Seq(Command) /\ g \in Nat /\ Own(m, q, on, g) /\ m.queue # <<>> BY <1>0
    <3>3. m1.queue = Tail(m.queue) /\ m1.awaits = "nothing" BY <2>1
    <3> HIDE DEF m, q, on, g, op
    <3> QED BY <1>2, <2>2, <2>4, <3>1, <3>2, <3>3, StepSettled
  <2>6. relay' = [relay EXCEPT ![r] = m1] BY <1>10 DEF m1
  <2>7. asked' = [asked EXCEPT ![r] = q] /\ granted' = [granted EXCEPT ![r] = g] BY <1>10, Stays
  <2> QED BY <1>0, <1>m, <2>2, <2>5, <2>6, <2>7
<1> QED BY <1>6, <1>7, <1>8, <1>9, <1>10 DEF Begin

-----------------------------------------------------------------------------
(* Base is inductive: answers *)

LEMMA Running ==
  ASSUME Base, NEW r \in Relays, asked[r] # <<>>, Head(asked[r]).c # "fetch"
  PROVE  /\ Head(asked[r]) \in Command /\ Tail(asked[r]) \in Seq(Command)
         /\ Head(asked[r]).c \in Answers(relay[r].awaits)
         /\ AllFetches(Tail(asked[r]))
         /\ relay[r].awaits # "nothing" /\ relay[r].queue # <<>> /\ Head(relay[r].queue) \in Step
         /\ ~relay[r].listening => Tail(asked[r]) = <<>>
<1> DEFINE m == relay[r]  q == asked[r]
<1>1. m \in Relay /\ q \in Seq(Command) /\ Serving(m, q) /\ Phases(m, sub[r].on) BY Here DEF Own
<1>2. Head(q) \in Command /\ Tail(q) \in Seq(Command) BY <1>1, FirstTaken
<1>3. /\ Head(q).c \in Answers(m.awaits) /\ AllFetches(Tail(q))
      /\ ~m.listening => Tail(q) = <<>>
  BY <1>1, ServesTaken
<1>4. Head(q).c # "nothing" BY <1>2 DEF Command
<1>5. m.awaits # "nothing" BY <1>3, <1>4 DEF Answers
<1>6. m.queue # <<>> BY <1>1, <1>5 DEF Phases
<1> QED BY <1>1, <1>2, <1>3, <1>5, <1>6, RelayTypes

(* The answer that lets a step settle with its counts unchanged, or go on. *)
LEMMA RepairAnswered ==
  ASSUME Base, NEW r \in Relays, asked[r] # <<>>, Head(asked[r]).c # "fetch",
         relay[r].awaits \in {"show", "install"}, For(r) = "repair", Answered(r),
         relay' = [relay EXCEPT ![r] = Done(@)], UNCHANGED <<sub, granted>>, NoChange
  PROVE  Base'
<1> DEFINE m == relay[r]  q == asked[r]  on == sub[r].on  g == granted[r]  m1 == Done(m)
<1>0. /\ m \in Relay /\ q \in Seq(Command) /\ sub[r] \in Sub /\ g \in Nat /\ Own(m, q, on, g)
  BY Here
<1>1. m.queue # <<>> /\ AllFetches(Tail(q)) /\ Tail(q) \in Seq(Command) BY Running
<1>2. m1 \in Relay BY <1>0, <1>1, RelayTypes
<1>3. /\ m1.queue = Tail(m.queue) /\ m1.refCount = m.refCount /\ m1.awaits = "nothing"
      /\ m1.subscribed = m.subscribed /\ m1.listening = m.listening
  BY <1>0 DEF Relay, Done
<1>4. m.refCount = 0 /\ m.subscribed => Leaves(m1.queue)
  BY <1>0, <1>1, <1>3, LeavesTaken, RelayTypes DEF For, Own, Counts
<1>5. m1.refCount - g = m.refCount - g - (IF Head(m.queue).op = "enable" THEN 1 ELSE 0)
  BY <1>0, <1>3, RelayTypes DEF For
<1>6. /\ m1.subscribed => m1.listening /\ on
      /\ m1.listening => m1.subscribed
      /\ ~m1.subscribed => g = 0
  BY <1>0, <1>3 DEF Own, Phases, Counts
<1>7. Moves(r, m1, Tail(q), sub[r], g) BY Stays DEF Moves, Answered
<1> HIDE DEF m1, g, on
<1>8. Own(m1, Tail(q), on, g)
  BY <1>0, <1>1, <1>2, <1>3, <1>4, <1>5, <1>6, StepSettled
<1> QED BY <1>0, <1>1, <1>2, <1>7, <1>8, OneRelay DEF g, on

LEMMA StepGoesOn ==
  ASSUME Base, NEW r \in Relays, asked[r] # <<>>, Head(asked[r]).c # "fetch",
         NEW c, NEW m1 \in Relay, Asks(r, c), Cmd(c) \in Command, c \in Answers(m1.awaits),
         c = "install" => ~relay[r].listening,
         m1.queue = relay[r].queue, m1.refCount = relay[r].refCount,
         m1.subscribed = relay[r].subscribed,
         relay' = [relay EXCEPT ![r] = m1], Phases(m1, sub[r].on), Joins(m1) => Joins(relay[r]),
         UNCHANGED <<sub, granted>>, NoChange
  PROVE  Base'
<1> DEFINE m == relay[r]  q == asked[r]  on == sub[r].on  g == granted[r]
<1>0. /\ m \in Relay /\ q \in Seq(Command) /\ sub[r] \in Sub /\ g \in Nat /\ Own(m, q, on, g)
  BY Here
<1>1. /\ m.queue # <<>> /\ AllFetches(Tail(q)) /\ Tail(q) \in Seq(Command)
      /\ ~m.listening => Tail(q) = <<>>
  BY Running
<1>2. Joins(m1) => m1.refCount > 0 BY <1>0 DEF Own, Counts
<1>3. Own(m1, Append(Tail(q), Cmd(c)), on, g)
  <2> HIDE DEF m, q, on, g
  <2>1. m1.queue = m.queue /\ m1.refCount = m.refCount /\ m1.subscribed = m.subscribed /\ Phases(m1, on)
    BY DEF m, on
  <2>2. c = "install" => Tail(q) = <<>> BY <1>1 DEF m, q
  <2> QED BY <1>0, <1>1, <1>2, <2>1, <2>2, StepAsked
<1>4. Tail(q) \o <<Cmd(c)>> = Append(Tail(q), Cmd(c)) /\ Append(Tail(q), Cmd(c)) \in Seq(Command)
  BY <1>1, AtTheEnd
<1>5. Moves(r, m1, Append(Tail(q), Cmd(c)), sub[r], g)
  BY <1>4, Stays DEF Moves, Asks
<1> QED BY <1>0, <1>3, <1>4, <1>5, OneRelay

LEMMA ShowHooksBase ==
  ASSUME Base, NEW r \in Relays, ShowHooks(r)
  PROVE  Base'
<1> DEFINE m == relay[r]  on == sub[r].on
<1>0. /\ m \in Relay /\ asked[r] \in Seq(Command) /\ Own(m, asked[r], on, granted[r])
  BY Here
<1>1. /\ asked[r] # <<>> /\ Head(asked[r]).c = "show" /\ UNCHANGED <<sub, granted>>
  BY DEF ShowHooks, Runs
<1>2. m.awaits = "show" BY <1>1, Running, <1>0 DEF Answers, Relay
<1>3. NoChange BY QuietTmux DEF ShowHooks, Base, Types, countVars
<1>4. ASSUME NEW c \in {"install", "install and bump"}, Asks(r, c), Await(r, m, "install"),
             c = "install" => For(r) # "repair"
      PROVE  Base'
  <2> DEFINE m1 == [m EXCEPT !.awaits = "install"]
  <2>1. m1 \in Relay BY <1>0 DEF Relay
  <2>2. /\ m1.queue = m.queue /\ m1.refCount = m.refCount /\ m1.awaits = "install"
        /\ m1.subscribed = m.subscribed /\ m1.listening = m.listening
    BY <1>0 DEF Relay
  <2>3. relay' = [relay EXCEPT ![r] = m1] BY <1>4 DEF Await
  <2> HIDE DEF m1
  <2>4. Joins(m1) <=> Joins(m) BY <1>2, <2>2 DEF Joins, Repairs
  <2>5. Phases(m1, on) BY <1>0, <1>2, <2>2, <2>4 DEF Own, Phases, Repairs
  <2>6. Cmd(c) \in Command /\ c \in Answers(m1.awaits) BY <2>2 DEF Cmd, Command, Answers
  <2>7. c = "install" => ~m.listening BY <1>0, <1>2, <1>4 DEF Own, Phases, Joins, Repairs, For
  <2> QED BY <1>1, <1>3, <1>4, <2>1, <2>2, <2>3, <2>4, <2>5, <2>6, <2>7, StepGoesOn
<1>5. CASE hook # "none" /\ For(r) = "repair" /\ Answered(r) /\ relay' = [relay EXCEPT ![r] = Done(@)]
  BY <1>1, <1>2, <1>3, <1>5, RepairAnswered
<1> QED BY <1>4, <1>5 DEF ShowHooks

LEMMA HookInstalledBase ==
  ASSUME Base, NEW r \in Relays, asked[r] # <<>>, Head(asked[r]).c \in {"install", "install and bump"},
         HookInstalled(r), epoch' \in Nat
  PROVE  Base'
<1> DEFINE m == relay[r]  on == sub[r].on
<1>0. /\ m \in Relay /\ asked[r] \in Seq(Command) /\ Own(m, asked[r], on, granted[r])
  BY Here
<1>1. Head(asked[r]).c # "fetch" OBVIOUS
<1>2. m.awaits = "install"
  <2>1. Head(asked[r]).c \in Answers(m.awaits) BY <1>1, Running
  <2> QED BY <2>1, <1>0 DEF Answers, Relay
<1>3. NoChange BY DEF HookInstalled, Base, Types, countVars, NoChange
<1>4. CASE For(r) # "repair" /\ Asks(r, "baseline") /\ Await(r, relay[r], "baseline")
  <2> DEFINE m1 == [m EXCEPT !.awaits = "baseline"]
  <2>1. m1 \in Relay BY <1>0 DEF Relay
  <2>2. /\ m1.queue = m.queue /\ m1.refCount = m.refCount /\ m1.awaits = "baseline"
        /\ m1.subscribed = m.subscribed /\ m1.listening = m.listening
    BY <1>0 DEF Relay
  <2>3. relay' = [relay EXCEPT ![r] = m1] BY <1>4 DEF Await
  <2> HIDE DEF m1
  <2>4. Joins(m) BY <1>2, <1>4 DEF Joins, Repairs, For
  <2>5. Phases(m1, on) BY <1>0, <1>2, <1>4, <2>2, <2>4 DEF Own, Phases, Repairs, For
  <2>6. Cmd("baseline") \in Command /\ "baseline" \in Answers(m1.awaits) BY <2>2 DEF Cmd, Command, Answers
  <2> QED BY <1>1, <1>3, <1>4, <2>1, <2>2, <2>3, <2>4, <2>5, <2>6, StepGoesOn DEF HookInstalled
<1>5. CASE For(r) = "repair" /\ Answered(r) /\ relay' = [relay EXCEPT ![r] = Done(@)]
  BY <1>1, <1>2, <1>3, <1>5, RepairAnswered DEF HookInstalled
<1> QED BY <1>4, <1>5 DEF HookInstalled

LEMMA ReadBaselineBase ==
  ASSUME Base, NEW r \in Relays, ReadBaseline(r)
  PROVE  Base'
<1> DEFINE m == relay[r]  on == sub[r].on
<1>0. /\ m \in Relay /\ asked[r] \in Seq(Command) /\ Own(m, asked[r], on, granted[r])
  BY Here
<1>1. /\ asked[r] # <<>> /\ Head(asked[r]).c = "baseline" /\ UNCHANGED <<sub, granted>>
  BY DEF ReadBaseline, Runs
<1>2. m.awaits = "baseline" BY <1>1, Running, <1>0 DEF Answers, Relay
<1>3. NoChange
  <2>1. told' \in [Relays -> [Windows -> 0..MaxChanges]] BY DEF ReadBaseline, Base, Types
  <2> QED BY <2>1, QuietTmux DEF ReadBaseline, Base, Types, countVars
<1> DEFINE m1 == [Baseline(m) EXCEPT !.awaits = "subscribe"]
<1>4. m1 \in Relay
  <2>1. seq \in Nat /\ epoch \in Nat BY DEF Base, Types
  <2>2. ASSUME NEW i \in Nat, NEW j \in Nat
        PROVE [[m EXCEPT !.lastSeq = i, !.epoch = j, !.reported = {}, !.listening = TRUE] EXCEPT !.awaits = "subscribe"]
              \in Relay
    BY <1>0 DEF Relay
  <2> QED BY <2>1, <2>2 DEF Baseline
<1>5. /\ m1.queue = m.queue /\ m1.refCount = m.refCount /\ m1.awaits = "subscribe"
      /\ m1.subscribed = m.subscribed /\ m1.listening
  BY <1>0 DEF Relay, Baseline
<1>6. relay' = [relay EXCEPT ![r] = m1] BY DEF Await, ReadBaseline
<1> HIDE DEF m1
<1>7. Joins(m) BY <1>2 DEF Joins
<1>8. Phases(m1, on) BY <1>0, <1>2, <1>5, <1>7 DEF Own, Phases, Repairs
<1>9. Cmd("subscribe") \in Command /\ "subscribe" \in Answers(m1.awaits) BY <1>5 DEF Cmd, Command, Answers
<1> QED BY <1>1, <1>3, <1>4, <1>5, <1>6, <1>7, <1>8, <1>9, StepGoesOn DEF ReadBaseline

LEMMA SubscribeBase ==
  ASSUME Base, NEW r \in Relays, Subscribe(r)
  PROVE  Base'
<1> DEFINE m == relay[r]  q == asked[r]  on == sub[r].on  g == granted[r]
           m1 == [Done(m) EXCEPT !.subscribed = TRUE]
           s1 == [on |-> TRUE, last |-> <<>>]
           g1 == IF For(r) = "enable" THEN g + 1 ELSE g
<1>0. /\ m \in Relay /\ q \in Seq(Command) /\ g \in Nat /\ Own(m, q, on, g)
  BY Here
<1>1. q # <<>> /\ Head(q).c = "subscribe" BY DEF Subscribe, Runs
<1>2. /\ m.awaits = "subscribe" /\ m.queue # <<>> /\ AllFetches(Tail(q)) /\ Tail(q) \in Seq(Command)
  BY <1>1, Running, <1>0 DEF Answers, Relay
<1>3. NoChange BY QuietTmux DEF Subscribe, Base, Types, countVars
<1>4. m1 \in Relay BY <1>0, <1>2, RelayTypes DEF Relay
<1>5. /\ m1.queue = Tail(m.queue) /\ m1.refCount = m.refCount /\ m1.awaits = "nothing"
      /\ m1.subscribed /\ m1.listening = m.listening
  BY <1>0 DEF Relay, Done
<1>6. m.listening /\ m.refCount > 0
  BY <1>0, <1>2 DEF Own, Phases, Counts, Joins
<1>7. m1.refCount - g1 = m.refCount - g - (IF Head(m.queue).op = "enable" THEN 1 ELSE 0)
  BY <1>0, <1>5, RelayTypes DEF For
<1>8. g1 \in Nat /\ s1 \in Sub /\ s1.on BY <1>0 DEF Sub
<1>9. Moves(r, m1, Tail(q), s1, g1)
  <2>1. granted' = [granted EXCEPT ![r] = g1] BY Stays DEF Subscribe, Resolves
  <2> QED BY <2>1 DEF Moves, Subscribe, Answered
<1>10. m1.refCount # 0 BY <1>0, <1>5, <1>6, RelayTypes
<1> HIDE DEF m, q, m1, s1, g, g1, on
<1>11. Own(m1, Tail(q), s1.on, g1)
  BY <1>0, <1>2, <1>4, <1>5, <1>6, <1>7, <1>8, <1>10, StepSettled
<1> QED BY <1>2, <1>3, <1>4, <1>8, <1>9, <1>11, OneRelay

LEMMA UnsubscribeBase ==
  ASSUME Base, NEW r \in Relays, Unsubscribe(r)
  PROVE  Base'
<1> DEFINE m == relay[r]  q == asked[r]  on == sub[r].on  g == granted[r]
           m1 == Done(m)
           s1 == [sub[r] EXCEPT !.on = FALSE]
<1>0. /\ m \in Relay /\ q \in Seq(Command) /\ g \in Nat /\ Own(m, q, on, g) /\ sub[r] \in Sub
  BY Here
<1>1. q # <<>> /\ Head(q).c = "unsubscribe" BY DEF Unsubscribe, Runs
<1>2. /\ m.awaits = "unsubscribe" /\ m.queue # <<>> /\ AllFetches(Tail(q)) /\ Tail(q) \in Seq(Command)
  BY <1>1, Running, <1>0 DEF Answers, Relay
<1>3. NoChange BY QuietTmux DEF Unsubscribe, Base, Types, countVars
<1>4. m1 \in Relay BY <1>0, <1>2, RelayTypes
<1>5. /\ m1.queue = Tail(m.queue) /\ m1.refCount = m.refCount /\ m1.awaits = "nothing"
      /\ m1.subscribed = m.subscribed /\ m1.listening = m.listening
  BY <1>0 DEF Relay, Done
<1>6. ~m.subscribed /\ ~m.listening /\ Head(m.queue).op = "disable" /\ g = 0
  BY <1>0, <1>2 DEF Own, Phases, Counts, Joins
<1>7. m1.refCount - g = m.refCount - g - (IF Head(m.queue).op = "enable" THEN 1 ELSE 0)
  BY <1>0, <1>5, <1>6, RelayTypes
<1>8. s1 \in Sub BY <1>0 DEF Sub
<1>9. Moves(r, m1, Tail(q), s1, g)
  <2>1. sub' = [sub EXCEPT ![r] = s1] BY DEF Unsubscribe, Base, Types
  <2> QED BY <2>1, Stays DEF Moves, Unsubscribe, Answered
<1> HIDE DEF m, q, m1, s1, g, on
<1>11. Own(m1, Tail(q), s1.on, g)
  BY <1>0, <1>2, <1>4, <1>5, <1>6, <1>7, <1>8, StepSettled
<1> QED BY <1>0, <1>2, <1>3, <1>4, <1>8, <1>9, <1>11, OneRelay

LEMMA FetchedBase ==
  ASSUME Base, NEW r \in Relays, asked[r] # <<>>, Head(asked[r]).c = "fetch", Fetched(r), changes' = changes
  PROVE  Base'
<1> DEFINE m == relay[r]  q == asked[r]  on == sub[r].on  g == granted[r]
<1>0. /\ m \in Relay /\ q \in Seq(Command) /\ g \in Nat /\ Own(m, q, on, g) /\ sub[r] \in Sub
  BY Here
<1>1. Own(m, Tail(q), on, g) BY <1>0, FetchTaken DEF Own
<1>2. NoChange
  <2>1. told' \in [Relays -> [Windows -> 0..MaxChanges]] BY DEF Fetched, Base, Types
  <2> QED BY <2>1, QuietTmux DEF Fetched, Base, Types, countVars
<1>3. Tail(q) \in Seq(Command) BY <1>0, FirstTaken
<1>4. Moves(r, m, Tail(q), sub[r], g) BY Stays DEF Moves, Fetched, Answered
<1> QED BY <1>0, <1>1, <1>2, <1>3, <1>4, OneRelay

LEMMA RefuseBase ==
  ASSUME Base, NEW r \in Relays, Refuse(r)
  PROVE  Base'
<1> DEFINE m == relay[r]  q == asked[r]  on == sub[r].on  g == granted[r]
           m1 == IF m.awaits = "subscribe" THEN [Rejected(m) EXCEPT !.listening = FALSE] ELSE Rejected(m)
<1>1. CASE Head(q).c = "fetch"
  BY <1>1, FetchedBase DEF Refuse
<1>2. CASE Head(q).c # "fetch"
  <2>0. /\ m \in Relay /\ q \in Seq(Command) /\ g \in Nat /\ Own(m, q, on, g) /\ sub[r] \in Sub /\ q # <<>>
    BY Here DEF Refuse
  <2>1. /\ m.awaits # "nothing" /\ m.queue # <<>> /\ AllFetches(Tail(q)) /\ Tail(q) \in Seq(Command)
        /\ Head(m.queue) \in Step
    BY <1>2, <2>0, Running
  <2>2. NoChange
    <3>1. failed' \subseteq Relays BY <1>2 DEF Refuse, Base, Types
    <3> QED BY <1>2, <3>1, QuietTmux DEF Refuse, Base, Types
  <2>3. m1 \in Relay BY <2>0, <2>1, RelayTypes DEF Relay
  <2>4. /\ m1.queue = Tail(m.queue) /\ m1.awaits = "nothing" /\ m1.subscribed = m.subscribed
        /\ m1.refCount = m.refCount - (IF Head(m.queue).op = "enable" THEN 1 ELSE 0)
        /\ m.awaits = "subscribe" => ~m1.listening
        /\ m.awaits # "subscribe" => m1.listening = m.listening
    <3>1. Done(m) \in Relay /\ Rejected(m) \in Relay BY <2>0, <2>1, RelayTypes
    <3>2. /\ Done(m).queue = Tail(m.queue) /\ Done(m).awaits = "nothing" /\ Done(m).subscribed = m.subscribed
          /\ Done(m).refCount = m.refCount /\ Done(m).listening = m.listening
      BY <2>0 DEF Relay, Done
    <3>3. /\ Rejected(m).queue = Tail(m.queue) /\ Rejected(m).awaits = "nothing"
          /\ Rejected(m).subscribed = m.subscribed /\ Rejected(m).listening = m.listening
          /\ Rejected(m).refCount = m.refCount - (IF Head(m.queue).op = "enable" THEN 1 ELSE 0)
      <4>1. CASE Head(m.queue).op = "enable"
        <5>1. Rejected(m) = [Done(m) EXCEPT !.refCount = @ - 1] BY <4>1 DEF Rejected
        <5> QED BY <3>1, <3>2, <4>1, <5>1 DEF Relay
      <4>2. CASE Head(m.queue).op # "enable"
        <5>1. Rejected(m) = Done(m) BY <4>2 DEF Rejected
        <5>2. m.refCount \in Int BY <2>0, RelayTypes
        <5> QED BY <3>2, <4>2, <5>1, <5>2
      <4> QED BY <4>1, <4>2
    <3>4. m.awaits = "subscribe" => m1 = [Rejected(m) EXCEPT !.listening = FALSE] OBVIOUS
    <3>5. m.awaits # "subscribe" => m1 = Rejected(m) OBVIOUS
    <3> HIDE DEF m1
    <3> QED BY <3>1, <3>3, <3>4, <3>5 DEF Relay
  <2>5. m.subscribed => m.listening /\ on /\ m.awaits # "subscribe" /\ Head(m.queue).op = "repair"
    BY <2>0, <2>1 DEF Own, Phases, Joins, Repairs, Relay
  <2>6. /\ m1.subscribed => m1.listening /\ on
        /\ m1.listening => m1.subscribed
        /\ ~m1.subscribed => g = 0
    BY <2>0, <2>4, <2>5 DEF Own, Phases, Counts
  <2>7. m1.subscribed /\ m1.refCount = 0 => Leaves(m1.queue)
    BY <2>0, <2>1, <2>4, <2>5, LeavesTaken, RelayTypes DEF Own, Counts
  <2>8. m1.refCount - g = m.refCount - g - (IF Head(m.queue).op = "enable" THEN 1 ELSE 0)
    BY <2>0, <2>4, RelayTypes
  <2>9. Moves(r, m1, Tail(q), sub[r], g)
    <3>1. relay' = [relay EXCEPT ![r] = m1] BY <1>2 DEF Refuse
    <3> QED BY <1>2, <3>1, Stays DEF Moves, Refuse, Answered
  <2> HIDE DEF m, q, m1, g, on
  <2>10. Own(m1, Tail(q), on, g)
    BY <2>0, <2>1, <2>3, <2>4, <2>6, <2>7, <2>8, StepSettled
  <2> QED BY <2>0, <2>1, <2>2, <2>3, <2>9, <2>10, OneRelay DEF on
<1> QED BY <1>1, <1>2

-----------------------------------------------------------------------------
(* What a delivery reads *)

Read(n) == Fresh(decodeEntries(buffer), n)

(* Every entry but the first of a full buffer is decoded.                  *)
LEMMA Decoded ==
  ASSUME Types, Ordered
  PROVE  ToSet(decodeEntries(buffer)) =
           {buffer[i] : i \in {j \in 1..Len(buffer) : Len(buffer) >= Cap => j # 1}}
<1> DEFINE L == Len(buffer)
<1>1. buffer \in Seq(Entry) /\ L \in Nat /\ Cap \in Nat /\ Cap >= 2 BY LayoutAssumption DEF Types
<1>2. CASE L >= Cap
  <2>1. buffer # <<>> BY <1>1, <1>2
  <2> DEFINE t == Tail(buffer)
  <2>2. /\ t \in Seq(Entry) /\ Len(t) = L - 1
        /\ \A i \in 1..(L - 1) : i + 1 \in 1..L /\ t[i] = buffer[i + 1]
        /\ \A i \in 1..L : i # 1 => i - 1 \in 1..(L - 1) /\ t[i - 1] = buffer[i]
    BY <1>1, <2>1, FirstTaken
  <2>3. decodeEntries(buffer) = t BY <1>2 DEF decodeEntries
  <2>4. DOMAIN t = 1..(L - 1) BY <2>2
  <2> HIDE DEF t
  <2>5. ASSUME NEW x \in ToSet(t)
        PROVE  x \in {buffer[i] : i \in {j \in 1..L : L >= Cap => j # 1}}
    <3>1. PICK i \in 1..(L - 1) : x = t[i] BY <2>4, <2>5 DEF ToSet
    <3>2. i + 1 \in 1..L /\ i + 1 # 1 /\ x = buffer[i + 1] BY <1>1, <2>2, <3>1
    <3> QED BY <3>2
  <2>6. ASSUME NEW i \in 1..L, i # 1 PROVE buffer[i] \in ToSet(t)
    BY <2>2, <2>4, <2>6 DEF ToSet
  <2> QED BY <1>2, <2>3, <2>5, <2>6
<1>3. CASE ~(L >= Cap)
  <2>1. decodeEntries(buffer) = buffer BY <1>3 DEF decodeEntries
  <2>2. DOMAIN buffer = 1..L BY <1>1
  <2> QED BY <1>3, <2>1, <2>2 DEF ToSet
<1> QED BY <1>2, <1>3

LEMMA WhatIsRead ==
  ASSUME Types, Ordered, NEW n \in Nat
  PROVE  /\ \A e \in Read(n) : e \in Entry /\ n < e.seq /\ e.seq <= seq
         /\ \A e \in Read(n) : \E i \in 1..Len(buffer) : e = buffer[i]
         /\ \A i \in 1..Len(buffer) : buffer[i].seq > n /\ (Len(buffer) >= Cap => i # 1) => buffer[i] \in Read(n)
         /\ n < seq => \E e \in Read(n) : e.seq = seq
<1> DEFINE L == Len(buffer)  D == {j \in 1..L : L >= Cap => j # 1}
<1>1. /\ buffer \in Seq(Entry) /\ L \in Nat /\ Cap \in Nat /\ Cap >= 2 /\ seq \in Nat
      /\ L <= Cap /\ L <= seq /\ (L < Cap => L = seq)
      /\ \A i \in 1..L : buffer[i].seq = seq - L + i
  BY LayoutAssumption DEF Types, Ordered
<1>2. Read(n) = {e \in {buffer[i] : i \in D} : e.seq > n} BY Decoded DEF Read, Fresh
<1>3. \A i \in 1..L : buffer[i] \in Entry /\ buffer[i].seq <= seq BY <1>1
<1>4. ASSUME NEW e \in Read(n)
      PROVE  e \in Entry /\ n < e.seq /\ e.seq <= seq /\ \E i \in 1..L : e = buffer[i]
  <2>1. PICK i \in 1..L : e = buffer[i] /\ e.seq > n BY <1>2, <1>4
  <2>2. e \in Entry /\ e.seq \in Nat BY <1>3, <2>1 DEF Entry
  <2> QED BY <1>3, <2>1, <2>2
<1>5. ASSUME n < seq PROVE \E e \in Read(n) : e.seq = seq
  <2>1. L \in D BY <1>1, <1>5
  <2>2. buffer[L].seq = seq BY <1>1, <2>1
  <2>3. buffer[L] \in Read(n) BY <1>2, <1>5, <2>1, <2>2
  <2> QED BY <2>2, <2>3
<1> QED BY <1>2, <1>4, <1>5

(* After a delivery a relay has read up to the last entry.                 *)
LEMMA ReadsToTheEnd ==
  ASSUME Types, Ordered, NEW n \in Nat
  PROVE  LastSeq(Read(n), n) = IF n < seq THEN seq ELSE n
<1> DEFINE S == {e.seq : e \in Read(n)}
<1>1. /\ seq \in Nat /\ \A e \in Read(n) : e \in Entry /\ n < e.seq /\ e.seq <= seq
      /\ n < seq => \E e \in Read(n) : e.seq = seq
  BY WhatIsRead DEF Types
<1>2. CASE n < seq
  <2>1. seq \in S /\ \A y \in S : y \in Nat /\ seq >= y BY <1>1, <1>2 DEF Entry
  <2>2. Max(S) \in S /\ \A y \in S : Max(S) >= y BY <2>1 DEF Max
  <2> HIDE DEF S
  <2>3. Max(S) = seq
    <3>1. PICK x \in S : x = Max(S) BY <2>2
    <3>2. x \in Nat /\ seq >= x /\ x >= seq BY <2>1, <2>2, <3>1
    <3> QED BY <1>1, <3>1, <3>2
  <2>4. Read(n) # {} BY <1>1, <1>2
  <2> QED BY <1>2, <2>3, <2>4 DEF LastSeq, S
<1>3. CASE ~(n < seq)
  <2>1. Read(n) = {}
    <3>1. ASSUME NEW e \in Read(n) PROVE FALSE
      <4>1. e.seq \in Nat /\ n < e.seq /\ e.seq <= seq BY <1>1 DEF Entry
      <4> QED BY <1>1, <1>3, <4>1
    <3> QED BY <3>1
  <2> QED BY <1>3, <2>1 DEF LastSeq
<1> QED BY <1>2, <1>3

(* A delivery that announces no loss reads every entry it has not read.    *)
LEMMA NothingLost ==
  ASSUME Types, Ordered, NEW n \in Nat, ~(LostEntries(Read(n), n) > 0)
  PROVE  /\ \A i \in 1..Len(buffer) : buffer[i].seq > n => buffer[i] \in Read(n)
         /\ ~(n < seq - Len(buffer))
<1> DEFINE S == {e.seq : e \in Read(n)}  L == Len(buffer)
<1>1. /\ L \in Nat /\ Cap \in Nat /\ Cap >= 2 /\ seq \in Nat /\ L <= Cap /\ L <= seq /\ (L < Cap => L = seq)
      /\ \A i \in 1..L : buffer[i].seq = seq - L + i
  BY LayoutAssumption DEF Types, Ordered
<1>2. /\ \A e \in Read(n) : e \in Entry /\ n < e.seq /\ e.seq <= seq
      /\ \A e \in Read(n) : \E i \in 1..L : e = buffer[i]
      /\ \A i \in 1..L : buffer[i].seq > n /\ (L >= Cap => i # 1) => buffer[i] \in Read(n)
      /\ n < seq => \E e \in Read(n) : e.seq = seq
  BY WhatIsRead
<1>3. SUFFICES ASSUME L >= Cap, n < seq - L + 1 PROVE FALSE
  BY <1>1, <1>2
<1>4. L = Cap /\ n < seq /\ 2 \in 1..L BY <1>1, <1>3
<1>5. buffer[2].seq = seq - L + 2 /\ buffer[2] \in Read(n) BY <1>1, <1>2, <1>3, <1>4
<1>6. \A e \in Read(n) : e.seq >= seq - L + 2
  <2>1. SUFFICES ASSUME NEW e \in Read(n) PROVE e.seq >= seq - L + 2 OBVIOUS
  <2>2. PICK i \in {j \in 1..L : L >= Cap => j # 1} : e = buffer[i] BY Decoded DEF Read, Fresh
  <2>3. i \in 2..L /\ e.seq = seq - L + i BY <1>1, <1>3, <2>2
  <2> QED BY <1>1, <2>3
<1>7. seq - L + 2 \in S /\ \A y \in S : y \in Int /\ seq - L + 2 =< y BY <1>2, <1>5, <1>6 DEF Entry
<1>8. Min(S) \in S /\ \A y \in S : Min(S) =< y BY <1>7 DEF Min
<1> HIDE DEF S
<1>9. Min(S) = seq - L + 2 BY <1>1, <1>7, <1>8
<1>10. LostEntries(Read(n), n) = Min(S) - n - 1 BY <1>5 DEF LostEntries, S
<1> QED BY <1>1, <1>3, <1>4, <1>9, <1>10

LEMMA ListOf ==
  ASSUME NEW S, IsFiniteSet(S)
  PROVE  /\ SetToSeq(S) \in Seq(S)
         /\ \A x \in S : \E i \in 1..Len(SetToSeq(S)) : SetToSeq(S)[i] = x
<1> DEFINE k == Cardinality(S)  f == SetToSeq(S)
<1>1. k \in Nat /\ ExistsBijection(1..k, S) BY FS_CardinalityType
<1>2. PICK b \in Bijection(1..k, S) : TRUE BY <1>1 DEF ExistsBijection
<1>3. b \in [1..k -> S] /\ IsInjective(b) BY <1>2 DEF Bijection, Injection, IsInjective
<1>4. f \in [1..k -> S] /\ IsInjective(f)
  <2> HIDE DEF k
  <2> QED BY <1>3 DEF SetToSeq, k
<1> HIDE DEF f, k
<1>5. f \in Injection(1..k, S) BY <1>4 DEF Injection, IsInjective
<1>6. IsFiniteSet(1..k) /\ Cardinality(1..k) = k BY <1>1, FS_Interval
<1>7. f \in Surjection(1..k, S) BY <1>5, <1>6, FS_Injection DEF k
<1>8. f \in Seq(S) /\ Len(f) = k BY <1>1, <1>4
<1>9. \A x \in S : \E i \in 1..k : f[i] = x BY <1>7 DEF Surjection
<1> QED BY <1>8, <1>9 DEF f

LEMMA FetchesOf ==
  ASSUME NEW W \in SUBSET Windows, NEW gen \in Nat
  PROVE  LET f == SetToSeq({Fetch(w, gen) : w \in W})
         IN  /\ f \in Seq(Command) /\ AllFetches(f)
             /\ \A w \in W : \E i \in 1..Len(f) : f[i] = Fetch(w, gen)
             /\ \A i \in 1..Len(f) : \E w \in W : f[i] = Fetch(w, gen)
<1> DEFINE S == {Fetch(w, gen) : w \in W}  f == SetToSeq(S)
<1>1. IsFiniteSet(W) BY LayoutAssumption, FS_Subset
<1>2. IsFiniteSet(S)
  <2> DEFINE h == [w \in W |-> Fetch(w, gen)]
  <2>1. h \in Surjection(W, S) BY DEF Surjection
  <2> QED BY <1>1, <2>1, FS_Surjection
<1>3. f \in Seq(S) /\ \A x \in S : \E i \in 1..Len(f) : f[i] = x BY <1>2, ListOf
<1>4. S \subseteq Command
  <2>1. ASSUME NEW w \in W PROVE Fetch(w, gen) \in Command
    <3>1. {w} \in SUBSET Windows OBVIOUS
    <3> QED BY <3>1 DEF Fetch, Command
  <2> QED BY <2>1
<1> HIDE DEF f
<1>5. \A i \in 1..Len(f) : f[i] \in S BY <1>3
<1>6. f \in Seq(Command) BY <1>3, <1>4
<1>7. AllFetches(f) BY <1>5 DEF AllFetches, Fetch
<1> QED BY <1>3, <1>5, <1>6, <1>7 DEF f

LEMMA DeliveryOf ==
  ASSUME Base, NEW r \in Relays, Report(r), relay[r].listening
  PROVE  \E m1 \in Relay, f \in Seq(Command) :
           /\ relay' = [relay EXCEPT ![r] = m1]
           /\ asked' = [asked EXCEPT ![r] = asked[r] \o f]
           /\ m1.epoch = epoch /\ m1.reported = {Uncovered}
           /\ m1.lastSeq = IF relay[r].lastSeq < seq THEN seq ELSE relay[r].lastSeq
           /\ m1.gen = relay[r].gen /\ m1.refCount = relay[r].refCount /\ m1.awaits = relay[r].awaits
           /\ m1.subscribed = relay[r].subscribed /\ m1.listening = relay[r].listening
           /\ \/ /\ m1.queue = relay[r].queue /\ m1.repairQueued = relay[r].repairQueued
                 /\ ~NeedsRepair(relay[r], Uncovered)
              \/ /\ m1.queue = Append(relay[r].queue, [op |-> "repair", gen |-> relay[r].gen])
                 /\ m1.repairQueued /\ NeedsRepair(relay[r], Uncovered)
           /\ AllFetches(f)
           /\ \A w \in Changed(Read(relay[r].lastSeq)) : \E i \in 1..Len(f) : f[i] = Fetch(w, relay[r].gen)
<1> DEFINE m == relay[r]  n == m.lastSeq  fresh == Read(n)  last == LastSeq(fresh, n)
           f == SetToSeq({Fetch(w, m.gen) : w \in Changed(fresh)})
           read == [m EXCEPT !.epoch = epoch, !.reported = {Uncovered}, !.lastSeq = last]
           m1 == IF NeedsRepair(m, Uncovered) THEN Repair(read) ELSE read
<1>1. m \in Relay /\ n \in Nat /\ m.gen \in Nat /\ m.queue \in Seq(Step) BY Here, RelayTypes
<1>2. Types /\ Ordered /\ epoch \in Nat /\ seq \in Nat BY DEF Base, Types
<1>3. last \in Nat /\ last = IF n < seq THEN seq ELSE n BY <1>1, <1>2, ReadsToTheEnd
<1>4. Changed(fresh) \in SUBSET Windows
  <2>1. \A e \in fresh : e.window \in Windows BY <1>1, <1>2, WhatIsRead DEF Entry
  <2> QED BY <2>1 DEF Changed
<1>5. f \in Seq(Command) /\ AllFetches(f) /\ \A w \in Changed(fresh) : \E i \in 1..Len(f) : f[i] = Fetch(w, m.gen)
  BY <1>1, <1>4, FetchesOf
<1>6. relay' = [relay EXCEPT ![r] = m1] /\ asked' = [asked EXCEPT ![r] = asked[r] \o f]
  BY DEF Report, handleDelivery, Value, Read
<1> HIDE DEF last, f
<1>7. Uncovered \in SUBSET Windows BY LayoutAssumption DEF Uncovered
<1>8. /\ read \in Relay /\ read.epoch = epoch /\ read.reported = {Uncovered} /\ read.lastSeq = last
      /\ read.gen = m.gen /\ read.refCount = m.refCount /\ read.awaits = m.awaits
      /\ read.subscribed = m.subscribed /\ read.listening = m.listening /\ read.queue = m.queue
      /\ read.repairQueued = m.repairQueued
  BY <1>1, <1>2, <1>3, <1>7 DEF Relay
<1> HIDE DEF read
<1>9. CASE NeedsRepair(m, Uncovered)
  <2> DEFINE e == [op |-> "repair", gen |-> m.gen]
  <2>1. e \in Step /\ Append(m.queue, e) \in Seq(Step) BY <1>1, AtTheEnd DEF Step
  <2>2. m1 = [read EXCEPT !.repairQueued = TRUE, !.queue = Append(m.queue, e)]
    BY <1>8, <1>9 DEF Repair
  <2> HIDE DEF m1, e
  <2>3. /\ m1 \in Relay /\ m1.epoch = read.epoch /\ m1.reported = read.reported /\ m1.lastSeq = read.lastSeq
        /\ m1.gen = read.gen /\ m1.refCount = read.refCount /\ m1.awaits = read.awaits
        /\ m1.subscribed = read.subscribed /\ m1.listening = read.listening /\ m1.queue = Append(m.queue, e)
        /\ m1.repairQueued
    BY <1>8, <2>1, <2>2 DEF Relay
  <2> QED BY <1>3, <1>5, <1>6, <1>8, <1>9, <2>3 DEF e
<1>10. CASE ~NeedsRepair(m, Uncovered)
  <2>1. m1 = read BY <1>10
  <2> HIDE DEF m1
  <2> QED BY <1>3, <1>5, <1>6, <1>8, <1>10, <2>1
<1> QED BY <1>9, <1>10

LEMMA ReportBase ==
  ASSUME Base, NEW r \in Relays, Report(r)
  PROVE  Base'
<1> DEFINE m == relay[r]  q == asked[r]  g == granted[r]  s1 == [sub[r] EXCEPT !.last = <<Value>>]
<1>0. /\ m \in Relay /\ q \in Seq(Command) /\ g \in Nat /\ Own(m, q, sub[r].on, g) /\ sub[r] \in Sub
  BY Here
<1>1. s1 \in Sub /\ s1.on = sub[r].on /\ sub' = [sub EXCEPT ![r] = s1]
  <2>1. Uncovered \in SUBSET Windows BY LayoutAssumption DEF Uncovered
  <2>2. Value \in Reported BY <2>1 DEF Base, Types, Value, Reported
  <2>3. <<Value>> \in Seq(Reported) BY <2>2
  <2> QED BY <1>0, <2>3 DEF Sub, Report, Base, Types
<1>2. NoChange
  <2>1. told' \in [Relays -> [Windows -> 0..MaxChanges]]
    BY DEF Report, handleDelivery, Base, Types
  <2> QED BY <2>1, QuietTmux DEF Report, Base, Types, countVars
<1>3. granted' = [granted EXCEPT ![r] = g] BY Stays DEF Report
<1>4. CASE ~m.listening
  <2>1. Moves(r, m, q, s1, g)
    <3>1. relay' = relay /\ asked' = asked BY <1>4 DEF Report
    <3> QED BY <1>1, <1>3, <3>1, Stays DEF Moves
  <2> HIDE DEF s1
  <2> QED BY <1>0, <1>1, <1>2, <2>1, OneRelay
<1>5. CASE m.listening
  <2>1. PICK m1 \in Relay, f \in Seq(Command) :
           /\ relay' = [relay EXCEPT ![r] = m1]
           /\ asked' = [asked EXCEPT ![r] = q \o f]
           /\ m1.refCount = m.refCount /\ m1.awaits = m.awaits
           /\ m1.subscribed = m.subscribed /\ m1.listening = m.listening
           /\ \/ m1.queue = m.queue
              \/ m1.queue = Append(m.queue, [op |-> "repair", gen |-> m.gen])
           /\ AllFetches(f)
    BY <1>5, DeliveryOf
  <2>2. Own(m1, q, sub[r].on, g)
    <3>1. CASE m1.queue = m.queue
      BY <1>0, <2>1, <3>1 DEF Own, Serving, Phases, Counts, Joins, Repairs
    <3>2. CASE m1.queue = Append(m.queue, [op |-> "repair", gen |-> m.gen])
      <4> DEFINE e == [op |-> "repair", gen |-> m.gen]
      <4>1. e \in Step /\ e.op = "repair" BY <1>0, RelayTypes DEF Step
      <4>2. m1.refCount - g = m.refCount - g + (IF e.op = "enable" THEN 1 ELSE 0)
            /\ m1.refCount >= m.refCount
        BY <1>0, <2>1, <4>1, RelayTypes
      <4> HIDE DEF m, q, g
      <4> QED BY <1>0, <2>1, <3>2, <4>1, <4>2, StepQueued
    <3> QED BY <2>1, <3>1, <3>2
  <2>3. Own(m1, q \o f, s1.on, g)
    <3>1. Serving(m1, q \o f) BY <1>0, <1>5, <2>1, FetchesAsked DEF Own
    <3> QED BY <1>1, <2>2, <3>1 DEF Own
  <2>4. Moves(r, m1, q \o f, s1, g) BY <1>1, <1>3, <2>1 DEF Moves
  <2>5. q \o f \in Seq(Command) BY <1>0, <2>1
  <2> HIDE DEF s1
  <2> QED BY <1>0, <1>1, <1>2, <2>1, <2>3, <2>4, <2>5, OneRelay
<1> QED BY <1>4, <1>5

LEMMA LastOnes ==
  ASSUME NEW b \in Seq(Entry), Len(b) = Cap + 1
  PROVE  /\ Newest(b) \in Seq(Entry) /\ Len(Newest(b)) = Cap
         /\ \A i \in 1..Cap : i + 1 \in 1..(Cap + 1) /\ Newest(b)[i] = b[i + 1]
<1>1. Cap \in Nat /\ Cap >= 2 BY LayoutAssumption
<1>2. Newest(b) = SubSeq(b, 2, Cap + 1) BY <1>1 DEF Newest
<1>3. Newest(b) \in Seq(Entry) /\ Len(Newest(b)) = Cap BY <1>1, <1>2
<1>4. \A i \in 1..Cap : Newest(b)[i] = b[i + 1] BY <1>1, <1>2
<1> QED BY <1>1, <1>3, <1>4

(* What a change puts into the buffer.                                     *)
LEMMA ChangeRecorded ==
  ASSUME Types, Ordered, NEW w \in Windows, Change(w), hook = "ours"
  PROVE  /\ buffer' \in Seq(Entry) /\ seq' = seq + 1 /\ Ordered'
         /\ \A i \in 1..Len(buffer) : \/ buffer[i].seq <= seq' - Len(buffer')
                                      \/ \E j \in 1..Len(buffer') : buffer'[j] = buffer[i]
         /\ \E j \in 1..Len(buffer') : buffer'[j] = [seq |-> seq + 1, window |-> w]
         /\ seq - Len(buffer) <= seq' - Len(buffer')
<1> DEFINE L == Len(buffer)  e == [seq |-> seq + 1, window |-> w]  b == Append(buffer, e)
<1>1. /\ buffer \in Seq(Entry) /\ L \in Nat /\ Cap \in Nat /\ Cap >= 2 /\ seq \in Nat
      /\ L <= Cap /\ L <= seq /\ (L < Cap => L = seq)
      /\ \A i \in 1..L : buffer[i].seq = seq - L + i
  <2>1. buffer \in Seq(Entry) /\ seq \in Nat BY DEF Types
  <2>2. Cap \in Nat /\ Cap >= 2 BY LayoutAssumption
  <2>3. /\ L <= Cap /\ L <= seq /\ (L < Cap => L = seq)
        /\ \A i \in 1..L : buffer[i].seq = seq - L + i
    BY DEF Ordered
  <2> QED BY <2>1, <2>2, <2>3
<1>2. e \in Entry BY <1>1 DEF Entry
<1>3. /\ b \in Seq(Entry) /\ Len(b) = L + 1 /\ b[L + 1] = e
      /\ \A i \in 1..L : b[i] = buffer[i]
      /\ \A i \in 1..(L + 1) : i \in 1..L \/ i = L + 1
  BY <1>1, <1>2, AtTheEnd
<1>4. seq' = seq + 1 /\ buffer' = IF Len(b) > Cap THEN Newest(b) ELSE b BY DEF Change
<1>5. e.seq = seq + 1 OBVIOUS
<1> HIDE DEF b, e, L
<1>6. \A i \in 1..(L + 1) : b[i].seq = seq - L + i
  <2>1. TAKE i \in 1..(L + 1)
  <2>2. CASE i \in 1..L BY <1>1, <1>3, <2>2
  <2>3. CASE i = L + 1 BY <1>1, <1>3, <1>5, <2>3
  <2> QED BY <1>3, <2>2, <2>3
<1>7. CASE L < Cap
  <2>1. buffer' = b /\ Len(buffer') = L + 1 BY <1>1, <1>3, <1>4, <1>7
  <2>2. Ordered'
    <3>1. \A i \in 1..(L + 1) : b[i].seq = (seq + 1) - (L + 1) + i BY <1>1, <1>6
    <3>2. Len(b) <= Cap /\ Len(b) <= seq + 1 /\ Len(b) = seq + 1 BY <1>1, <1>3, <1>7
    <3> QED BY <1>3, <1>4, <2>1, <3>1, <3>2 DEF Ordered
  <2>3. \A i \in 1..L : i \in 1..(L + 1) /\ b[i] = buffer[i] BY <1>1, <1>3
  <2>4. L + 1 \in 1..(L + 1) BY <1>1
  <2>5. seq - L <= (seq + 1) - (L + 1) BY <1>1
  <2> QED BY <1>1, <1>3, <1>4, <2>1, <2>2, <2>3, <2>4, <2>5 DEF e, L
<1>8. CASE L = Cap
  <2>1. Len(b) = Cap + 1 /\ buffer' = Newest(b) BY <1>1, <1>3, <1>4, <1>8
  <2>2. /\ Newest(b) \in Seq(Entry) /\ Len(Newest(b)) = Cap
        /\ \A i \in 1..Cap : i + 1 \in 1..(Cap + 1) /\ Newest(b)[i] = b[i + 1]
    BY <1>3, <2>1, LastOnes
  <2>3. Ordered'
    <3>1. ASSUME NEW i \in 1..Cap PROVE Newest(b)[i].seq = (seq + 1) - Cap + i
      <4>1. i \in Nat /\ i + 1 \in 1..(L + 1) BY <1>1, <1>8
      <4>2. b[i + 1].seq = seq - L + (i + 1) BY <1>6, <4>1
      <4>3. Newest(b)[i] = b[i + 1] BY <2>2
      <4>4. seq - L + (i + 1) = (seq + 1) - Cap + i BY <1>1, <1>8, <4>1
      <4> QED BY <4>2, <4>3, <4>4
    <3>2. Len(buffer') = Cap /\ Cap <= seq + 1 BY <1>1, <1>8, <2>1, <2>2
    <3>3. \A i \in 1..Cap : buffer'[i].seq = (seq + 1) - Cap + i BY <2>1, <3>1
    <3>4. /\ Len(buffer') <= Cap /\ Len(buffer') <= seq' /\ ~(Len(buffer') < Cap)
          /\ \A i \in 1..Len(buffer') : buffer'[i].seq = seq' - Len(buffer') + i
      <4>1. seq' = seq + 1 BY <1>4
      <4>2. \A i \in 1..Cap : buffer'[i].seq = seq' - Cap + i BY <3>3, <4>1
      <4>3. Cap <= seq' /\ Cap <= Cap /\ ~(Cap < Cap) BY <1>1, <3>2, <4>1
      <4> QED BY <3>2, <4>2, <4>3
    <3> QED BY <3>4 DEF Ordered
  <2>4. \A i \in 1..L : i # 1 => \E j \in 1..Cap : Newest(b)[j] = buffer[i]
    <3>1. TAKE i \in 1..L
    <3>2. i # 1 => i - 1 \in 1..Cap /\ (i - 1) + 1 = i BY <1>1, <1>8
    <3> QED BY <1>3, <2>2, <3>2
  <2>5. buffer[1].seq = seq - Cap + 1 BY <1>1, <1>8
  <2>6. Cap \in 1..Cap /\ Newest(b)[Cap] = e BY <1>1, <1>3, <1>8, <2>2
  <2>7. \A i \in 1..L : i = 1 => buffer[i].seq <= (seq + 1) - Cap BY <1>1, <2>5
  <2>8. seq - L <= (seq + 1) - Cap BY <1>1, <1>8
  <2>9. Len(buffer') = Cap /\ buffer' \in Seq(Entry) /\ seq' = seq + 1 BY <1>4, <2>1, <2>2
  <2>10. \A i \in 1..L : \/ buffer[i].seq <= seq' - Cap
                          \/ \E j \in 1..Cap : buffer'[j] = buffer[i]
    BY <2>1, <2>4, <2>7, <2>9
  <2>11. \E j \in 1..Cap : buffer'[j] = e BY <2>1, <2>6
  <2> QED BY <2>3, <2>8, <2>9, <2>10, <2>11 DEF e, L
<1> QED BY <1>1, <1>7, <1>8

LEMMA ChangeBase ==
  ASSUME Base, NEW w \in Windows, Change(w)
  PROVE  Base'
<1>1. UNCHANGED <<hook, epoch, sub, relay, asked, told, granted, failed>> BY DEF Change
<1>2. Types /\ Ordered BY DEF Base
<1>3. \A r \in Relays : OwnOf(r)' BY <1>1 DEF Base, OwnOf
<1>4. changes' \in 0..MaxChanges /\ layout' \in [Windows -> 0..MaxChanges] /\ \A x \in Windows : layout'[x] <= changes'
  <2>1. /\ changes \in Nat /\ MaxChanges \in Nat /\ layout \in [Windows -> 0..MaxChanges]
        /\ \A x \in Windows : layout[x] <= changes
    BY <1>2, LayoutAssumption DEF Types
  <2>2. changes < MaxChanges /\ changes' = changes + 1 /\ layout' = [layout EXCEPT ![w] = @ + 1] BY DEF Change
  <2>3. \A x \in Windows : layout'[x] \in 0..MaxChanges /\ layout'[x] <= changes'
    <3>1. TAKE x \in Windows
    <3>2. layout[x] \in 0..MaxChanges /\ layout[x] <= changes BY <2>1
    <3>3. layout'[x] = layout[x] \/ layout'[x] = layout[x] + 1 BY <2>1, <2>2
    <3> QED BY <2>1, <2>2, <3>2, <3>3
  <2>4. layout' = [x \in Windows |-> layout'[x]] BY <2>1, <2>2
  <2> QED BY <2>1, <2>2, <2>3, <2>4
<1>5. buffer' \in Seq(Entry) /\ seq' \in Nat /\ Ordered'
  <2>1. CASE hook = "ours"
    <3>1. buffer' \in Seq(Entry) /\ seq' = seq + 1 /\ Ordered' BY <1>2, <2>1, ChangeRecorded
    <3>2. seq \in Nat BY <1>2 DEF Types
    <3> QED BY <3>1, <3>2
  <2>2. CASE hook # "ours"
    <3>1. UNCHANGED <<seq, buffer>> BY <2>2 DEF Change
    <3> QED BY <1>2, <3>1 DEF Types, Ordered
  <2> QED BY <2>1, <2>2
<1>6. Types' BY <1>1, <1>2, <1>4, <1>5 DEF Types
<1> QED BY <1>3, <1>5, <1>6 DEF Base

LEMMA ClearBase ==
  ASSUME Base, ClearHook
  PROVE  Base'
<1>1. UNCHANGED <<seq, buffer, epoch, layout, sub, relay, asked, told, granted, failed, changes>> /\ hook' = "none"
  BY DEF ClearHook
<1> QED BY <1>1 DEF Base, Types, Ordered, OwnOf

LEMMA StutterBase ==
  ASSUME Base, UNCHANGED vars
  PROVE  Base'
BY DEF Base, Types, Ordered, OwnOf, vars, tmuxVars, countVars

LEMMA BaseInit ==
  ASSUME Init
  PROVE  Base
<1>1. Types
  <2>1. hook \in {"none", "foreign", "ours"} /\ seq = 0 /\ epoch = 0 /\ buffer = <<>> /\ changes = 0 /\ MaxChanges \in Nat
    BY LayoutAssumption DEF Init
  <2>2. layout \in [Windows -> 0..MaxChanges] /\ (\A w \in Windows : layout[w] <= changes)
    BY <2>1 DEF Init
  <2>3. sub \in [Relays -> Sub]
    <3>1. [on |-> FALSE, last |-> <<>>] \in Sub BY DEF Sub
    <3> QED BY <3>1 DEF Init
  <2>4. relay \in [Relays -> Relay]
    <3>1. [refCount |-> 0, subscribed |-> FALSE, listening |-> FALSE, lastSeq |-> 0,
           gen |-> 0, epoch |-> 0, reported |-> {}, repairQueued |-> FALSE, queue |-> <<>>,
           awaits |-> "nothing"] \in Relay
      BY DEF Relay
    <3> QED BY <3>1 DEF Init
  <2>5. asked \in [Relays -> Seq(Command)] /\ granted \in [Relays -> Nat] /\ failed \subseteq Relays BY DEF Init
  <2>6. told \in [Relays -> [Windows -> 0..MaxChanges]] BY <2>2 DEF Init
  <2>7. buffer \in Seq(Entry) BY <2>1
  <2> QED BY <2>1, <2>2, <2>3, <2>4, <2>5, <2>6, <2>7 DEF Types
<1>2. Ordered BY LayoutAssumption DEF Ordered, Init
<1>3. ASSUME NEW r \in Relays PROVE OwnOf(r)
  <2>1. /\ relay[r].awaits = "nothing" /\ relay[r].queue = <<>> /\ ~relay[r].subscribed /\ ~relay[r].listening
        /\ relay[r].refCount = 0 /\ asked[r] = <<>> /\ granted[r] = 0
    BY DEF Init
  <2>2. Serving(relay[r], asked[r]) BY <2>1 DEF Serving
  <2>3. Phases(relay[r], sub[r].on) BY <2>1 DEF Phases, Joins
  <2>4. Cardinality(EnablesIn(relay[r].queue)) = 0
    <3>1. relay[r].queue \in Seq(Step) BY <2>1
    <3> QED BY <2>1, <3>1, EnablesFinite
  <2>5. Counts(relay[r], granted[r]) BY <2>1, <2>4 DEF Counts, Joins
  <2> QED BY <2>2, <2>3, <2>5 DEF OwnOf, Own
<1> QED BY <1>1, <1>2, <1>3 DEF Base

LEMMA BaseNext ==
  ASSUME Base, [Next]_vars
  PROVE  Base'
<1>1. ASSUME NEW r \in Relays, Serve(r) PROVE Base'
  <2>1. CASE Install(r)
    <3>1. epoch' \in Nat BY <2>1 DEF Install, Base, Types
    <3> QED BY <2>1, <3>1, HookInstalledBase DEF Install, Runs
  <2>2. CASE InstallAndBump(r)
    <3>0. epoch \in Nat BY DEF Base, Types
    <3>b. epoch' = epoch + 1 BY <2>2 DEF InstallAndBump
    <3>1. epoch' \in Nat BY <3>0, <3>b
    <3> QED BY <2>2, <3>1, HookInstalledBase DEF InstallAndBump, Runs
  <2>3. CASE FetchLayout(r) BY <2>3, FetchedBase DEF FetchLayout, Runs, countVars
  <2> QED BY <1>1, <2>1, <2>2, <2>3, ShowHooksBase, ReadBaselineBase, SubscribeBase, UnsubscribeBase DEF Serve
<1>2. ASSUME NEW r \in Relays, enable(r) \/ disable(r) \/ Begin(r) \/ Refuse(r) \/ Report(r) PROVE Base'
  BY <1>2, EnableBase, DisableBase, BeginBase, RefuseBase, ReportBase
<1>3. ASSUME NEW w \in Windows, Change(w) PROVE Base' BY <1>3, ChangeBase
<1> QED BY <1>1, <1>2, <1>3, ClearBase, StutterBase DEF Next

(* The base holds throughout, whoever does what.                           *)
LEMMA BaseHolds == Spec => []Base
<1>1. Init => Base BY BaseInit
<1>2. Base /\ [Next]_vars => Base' BY BaseNext
<1> QED BY <1>1, <1>2, PTL DEF Spec

LEMMA CoverageOf ==
  ASSUME Base
  PROVE  CoverageFollowsCalls
<1>1. Types /\ Ordered BY DEF Base
<1>2. ASSUME NEW r \in Relays
      PROVE  /\ relay[r].refCount >= 0
             /\ relay[r].subscribed => relay[r].listening /\ sub[r].on
             /\ relay[r].awaits # "nothing" => relay[r].queue # <<>>
             /\ relay[r].queue = <<>> => (relay[r].subscribed <=> granted[r] > 0)
  <2>1. relay[r] \in Relay /\ granted[r] \in Nat /\ Own(relay[r], asked[r], sub[r].on, granted[r]) BY Here
  <2>2. relay[r].queue \in Seq(Step) /\ relay[r].refCount \in Int BY <2>1, RelayTypes
  <2>3. /\ Cardinality(EnablesIn(relay[r].queue)) \in Nat
        /\ relay[r].queue = <<>> => Cardinality(EnablesIn(relay[r].queue)) = 0
    BY <2>2, EnablesFinite
  <2>4. relay[r].refCount = granted[r] + Cardinality(EnablesIn(relay[r].queue)) BY <2>1 DEF Own, Counts
  <2>5. relay[r].queue = <<>> => ~Leaves(relay[r].queue) BY DEF Leaves
  <2>6. relay[r].queue = <<>> => (relay[r].subscribed <=> granted[r] > 0)
    BY <2>1, <2>3, <2>4, <2>5 DEF Own, Counts
  <2>7. /\ relay[r].subscribed => relay[r].listening /\ sub[r].on
        /\ relay[r].awaits # "nothing" => relay[r].queue # <<>>
    BY <2>1 DEF Own, Phases
  <2> QED BY <2>1, <2>2, <2>3, <2>4, <2>6, <2>7
<1>3. TypeOK BY <1>1, <1>2 DEF TypeOK, Types, Ordered, Entry
<1> QED BY <1>2, <1>3 DEF CoverageFollowsCalls

(* A relay that has done all its steps is subscribed exactly if an enable  *)
(* that resolved has not been undone: no refused step and no race of calls *)
(* leaves a reference behind or takes one too many (serialize, reconcile,  *)
(* and the catch of enable, in src/cross-session-layout.ts).               *)
THEOREM CoverageTrue == Spec => []CoverageFollowsCalls
<1>1. Base => CoverageFollowsCalls BY CoverageOf
<1> QED BY <1>1, BaseHolds, PTL

-----------------------------------------------------------------------------
(* A relay's listeners stay informed: what it does itself *)

LEMMA KeepsInformed ==
  ASSUME NEW m \in Relay, NEW m1 \in Relay, NEW q \in Seq(Command), NEW q1 \in Seq(Command), NEW s, NEW s1, NEW t,
         Informed(m, q, s, t),
         m1.lastSeq = m.lastSeq, m1.epoch = m.epoch, m1.reported = m.reported,
         m1.listening => m.listening /\ m1.gen = m.gen,
         m1.subscribed => (m.subscribed /\ s1.last = s.last) \/ s1.last = <<>>,
         hook = "foreign" => m1.awaits \notin {"baseline", "subscribe"},
         Replaces(q1),
         m1.listening => \A i \in 1..Len(q) : q[i].c = "fetch" => \E j \in 1..Len(q1) : q1[j] = q[i]
  PROVE  Informed(m1, q1, s1, t)
<1>1. Behind(m1) BY DEF Informed, Behind
<1>2. ForeignGoes(m1) BY DEF Informed, ForeignGoes
<1>3. Delivered(m1, s1) BY DEF Informed, Delivered
<1>4. ASSUME m1.listening, NEW w \in Windows \ Shadowed PROVE WillHear(m1, q1, t, w)
  <2>1. WillHear(m, q, t, w) BY <1>4 DEF Informed
  <2>2. Fetching(m, q, w) => Fetching(m1, q1, w) BY <1>4 DEF Fetching
  <2>3. Unread(m, w) => Unread(m1, w) BY DEF Unread
  <2> QED BY <2>1, <2>2, <2>3 DEF WillHear
<1> QED BY <1>1, <1>2, <1>3, <1>4 DEF Informed

LEMMA AskedMore ==
  ASSUME NEW q \in Seq(Command), NEW c, Cmd(c) \in Command, c = "install" => hook # "none", Replaces(q)
  PROVE  /\ Append(q, Cmd(c)) \in Seq(Command) /\ q \o <<Cmd(c)>> = Append(q, Cmd(c))
         /\ Replaces(Append(q, Cmd(c)))
         /\ \A i \in 1..Len(q) : \E j \in 1..Len(Append(q, Cmd(c))) : Append(q, Cmd(c))[j] = q[i]
<1> DEFINE p == Append(q, Cmd(c))
<1>0. p \in Seq(Command) /\ q \o <<Cmd(c)>> = p BY AtTheEnd
<1>1. /\ Len(p) = Len(q) + 1 /\ p[Len(q) + 1] = Cmd(c) /\ Cmd(c).c = c
      /\ \A i \in 1..Len(q) : i \in 1..(Len(q) + 1) /\ p[i] = q[i]
      /\ \A i \in 1..(Len(q) + 1) : i \in 1..Len(q) \/ i = Len(q) + 1
  BY AtTheEnd DEF Cmd
<1> HIDE DEF p
<1>2. Replaces(p) BY <1>1 DEF Replaces
<1>3. \A i \in 1..Len(q) : \E j \in 1..Len(p) : p[j] = q[i] BY <1>1
<1> QED BY <1>0, <1>2, <1>3 DEF p

LEMMA AnsweredOne ==
  ASSUME NEW q \in Seq(Command), q # <<>>, Head(q).c # "fetch", AllFetches(Tail(q))
  PROVE  /\ Replaces(Tail(q))
         /\ \A i \in 1..Len(q) : q[i].c = "fetch" => \E j \in 1..Len(Tail(q)) : Tail(q)[j] = q[i]
<1> DEFINE p == Tail(q)
<1>1. /\ Head(q) = q[1] /\ Len(p) = Len(q) - 1
      /\ \A i \in 1..Len(q) : i # 1 => i - 1 \in 1..(Len(q) - 1) /\ p[i - 1] = q[i]
  BY FirstTaken
<1> HIDE DEF p
<1>2. Replaces(p) BY DEF Replaces, AllFetches, p
<1>3. ASSUME NEW i \in 1..Len(q), q[i].c = "fetch" PROVE \E j \in 1..Len(p) : p[j] = q[i]
  <2>1. i # 1 BY <1>1, <1>3
  <2> QED BY <1>1, <2>1
<1> QED BY <1>2, <1>3 DEF p

LEMMA KnownHere ==
  ASSUME Known, NEW r \in Relays
  PROVE  /\ Base /\ relay[r] \in Relay /\ asked[r] \in Seq(Command) /\ sub[r] \in Sub /\ granted[r] \in Nat
         /\ Own(relay[r], asked[r], sub[r].on, granted[r])
         /\ Informed(relay[r], asked[r], sub[r], told[r])
         /\ told[r] \in [Windows -> 0..MaxChanges]
BY Here DEF Known, Base, Types

LEMMA OneInformed ==
  ASSUME Known, Base', NEW r \in Relays, NEW m1, NEW q1, NEW s1, NEW t1,
         relay' = [relay EXCEPT ![r] = m1], asked' = [asked EXCEPT ![r] = q1], sub' = [sub EXCEPT ![r] = s1],
         told' = [told EXCEPT ![r] = t1], UNCHANGED tmuxVars, Informed(m1, q1, s1, t1)
  PROVE  Known'
<1>1. Types BY DEF Known, Base
<1>2. \A x \in Relays : Informed(relay[x], asked[x], sub[x], told[x]) BY DEF Known
<1>3. ASSUME NEW m, NEW q, NEW s, NEW t, Informed(m, q, s, t) PROVE Informed(m, q, s, t)'
  BY <1>3 DEF Informed, Behind, ForeignGoes, Replaces, Delivered, WillHear, Fetching, Unread, tmuxVars
<1>4. ASSUME NEW x \in Relays PROVE Informed(relay[x], asked[x], sub[x], told[x])'
  <2>1. CASE x = r
    <3>1. relay'[x] = m1 /\ asked'[x] = q1 /\ sub'[x] = s1 /\ told'[x] = t1
      BY <1>1, <2>1 DEF Types
    <3>2. Informed(m1, q1, s1, t1)' BY <1>3
    <3> QED BY <3>1, <3>2 DEF Informed, Behind, ForeignGoes, Replaces, Delivered, WillHear, Fetching, Unread
  <2>2. CASE x # r
    <3>1. relay'[x] = relay[x] /\ asked'[x] = asked[x] /\ sub'[x] = sub[x] /\ told'[x] = told[x]
      BY <1>1, <2>2 DEF Types
    <3> QED BY <1>2, <3>1 DEF Informed, Behind, ForeignGoes, Replaces, Delivered, WillHear, Fetching, Unread, tmuxVars
  <2> QED BY <2>1, <2>2
<1> QED BY <1>4 DEF Known

LEMMA StepKeeps ==
  ASSUME Known, Base', NEW r \in Relays, NEW m1 \in Relay, NEW q1 \in Seq(Command), NEW s1,
         relay' = [relay EXCEPT ![r] = m1], asked' = [asked EXCEPT ![r] = q1], sub' = [sub EXCEPT ![r] = s1],
         told' = told, UNCHANGED tmuxVars,
         m1.lastSeq = relay[r].lastSeq, m1.epoch = relay[r].epoch, m1.reported = relay[r].reported,
         m1.listening => relay[r].listening /\ m1.gen = relay[r].gen,
         m1.subscribed => (relay[r].subscribed /\ s1.last = sub[r].last) \/ s1.last = <<>>,
         hook = "foreign" => m1.awaits \notin {"baseline", "subscribe"},
         Replaces(q1),
         \A i \in 1..Len(asked[r]) : asked[r][i].c = "fetch" => \E j \in 1..Len(q1) : q1[j] = asked[r][i]
  PROVE  Known'
<1>1. /\ relay[r] \in Relay /\ asked[r] \in Seq(Command)
      /\ Informed(relay[r], asked[r], sub[r], told[r])
  BY KnownHere
<1>2. Informed(m1, q1, s1, told[r]) BY <1>1, KeepsInformed
<1>3. told' = [told EXCEPT ![r] = told[r]] BY DEF Known, Base, Types
<1> QED BY <1>2, <1>3, OneInformed

LEMMA CallsInformed ==
  ASSUME Known, Base', NEW r \in Relays, enable(r) \/ disable(r)
  PROVE  Known'
<1> DEFINE m == relay[r]
<1>0. /\ m \in Relay /\ asked[r] \in Seq(Command) /\ Informed(m, asked[r], sub[r], told[r]) /\ Base
  BY KnownHere
<1>1. PICK k \in {m.refCount + 1, m.refCount - 1}, e \in Step :
        relay' = [relay EXCEPT ![r] = [m EXCEPT !.refCount = k, !.queue = Append(@, e)]]
  <2>1. [op |-> "enable", gen |-> 0] \in Step /\ [op |-> "disable", gen |-> 0] \in Step BY DEF Step
  <2>2. CASE enable(r)
    <3>1. relay' = [relay EXCEPT ![r] = [m EXCEPT !.refCount = @ + 1, !.queue = Append(@, [op |-> "enable", gen |-> 0])]]
      BY <1>0, <2>2 DEF enable, Base, Types
    <3> QED BY <2>1, <3>1
  <2>3. CASE disable(r)
    <3>1. relay' = [relay EXCEPT ![r] = [m EXCEPT !.refCount = @ - 1, !.queue = Append(@, [op |-> "disable", gen |-> 0])]]
      BY <1>0, <2>3 DEF disable, Base, Types
    <3> QED BY <2>1, <3>1
  <2> QED BY <2>2, <2>3
<1>2. PICK s : s = Append(m.queue, e) OBVIOUS
<1>3. s \in Seq(Step) /\ k \in Int BY <1>0, <1>2, RelayTypes, AtTheEnd
<1> DEFINE m1 == [m EXCEPT !.refCount = k, !.queue = s]
<1>4. /\ m1 \in Relay /\ m1.lastSeq = m.lastSeq /\ m1.epoch = m.epoch /\ m1.reported = m.reported
      /\ m1.listening = m.listening /\ m1.gen = m.gen /\ m1.subscribed = m.subscribed /\ m1.awaits = m.awaits
  BY <1>0, <1>3 DEF Relay
<1>5. relay' = [relay EXCEPT ![r] = m1] BY <1>1, <1>2
<1>6. UNCHANGED <<tmuxVars, told, asked, sub>> BY DEF enable, disable
<1>7. (hook = "foreign" => m.awaits \notin {"baseline", "subscribe"}) /\ Replaces(asked[r])
  BY <1>0 DEF Informed, ForeignGoes
<1> HIDE DEF m1
<1>8. asked' = [asked EXCEPT ![r] = asked[r]] /\ sub' = [sub EXCEPT ![r] = sub[r]] BY <1>0, <1>6, Stays
<1>9. \A i \in 1..Len(asked[r]) : asked[r][i].c = "fetch" => \E j \in 1..Len(asked[r]) : asked[r][j] = asked[r][i]
  OBVIOUS
<1>10. hook = "foreign" => m1.awaits \notin {"baseline", "subscribe"} BY <1>4, <1>7
<1>11. m1.listening => m.listening /\ m1.gen = m.gen BY <1>4
<1>12. m1.subscribed => (m.subscribed /\ sub[r].last = sub[r].last) \/ sub[r].last = <<>> BY <1>4
<1> QED BY <1>0, <1>4, <1>5, <1>6, <1>7, <1>8, <1>9, <1>10, <1>11, <1>12, StepKeeps

LEMMA BeginInformed ==
  ASSUME Known, Base', NEW r \in Relays, Begin(r)
  PROVE  Known'
<1> DEFINE m == relay[r]  q == asked[r]
<1>0. /\ m \in Relay /\ q \in Seq(Command) /\ Informed(m, q, sub[r], told[r]) /\ Base
      /\ m.queue # <<>> /\ m.awaits = "nothing"
  BY KnownHere DEF Begin
<1>1. UNCHANGED <<tmuxVars, told, sub>> /\ sub' = [sub EXCEPT ![r] = sub[r]] BY <1>0, Stays DEF Begin
<1>2. Replaces(q) BY <1>0 DEF Informed
<1>3. Tail(m.queue) \in Seq(Step) /\ m.gen + 1 \in Nat BY <1>0, RelayTypes, FirstTaken
<1>4. PICK m1 \in Relay :
        /\ relay' = [relay EXCEPT ![r] = m1]
        /\ m1.lastSeq = m.lastSeq /\ m1.epoch = m.epoch /\ m1.reported = m.reported
        /\ m1.listening => m.listening /\ m1.gen = m.gen
        /\ m1.subscribed => m.subscribed
        /\ m1.awaits \in {"nothing", "show", "unsubscribe"}
  <2>1. CASE Await(r, m, "show")
    <3> DEFINE n == [m EXCEPT !.awaits = "show"]
    <3>1. n \in Relay /\ n.lastSeq = m.lastSeq /\ n.epoch = m.epoch /\ n.reported = m.reported
          /\ n.listening = m.listening /\ n.gen = m.gen /\ n.subscribed = m.subscribed /\ n.awaits = "show"
      BY <1>0 DEF Relay
    <3>2. relay' = [relay EXCEPT ![r] = n] BY <2>1 DEF Await
    <3> QED BY <3>1, <3>2
  <2>2. CASE Await(r, [m EXCEPT !.subscribed = FALSE, !.listening = FALSE, !.gen = @ + 1], "unsubscribe")
    <3> DEFINE n(k) == [[m EXCEPT !.subscribed = FALSE, !.listening = FALSE, !.gen = k] EXCEPT !.awaits = "unsubscribe"]
    <3>1. ASSUME NEW k \in Nat
          PROVE /\ n(k) \in Relay /\ n(k).lastSeq = m.lastSeq /\ n(k).epoch = m.epoch /\ n(k).reported = m.reported
                /\ ~n(k).listening /\ ~n(k).subscribed /\ n(k).awaits = "unsubscribe"
      BY <1>0 DEF Relay
    <3>2. relay' = [relay EXCEPT ![r] = n(m.gen + 1)] BY <2>2 DEF Await
    <3> HIDE DEF n
    <3> QED BY <1>3, <3>1, <3>2
  <2>3. CASE relay' = [relay EXCEPT ![r] = Done(m)]
    <3>1. Done(m) \in Relay BY <1>0, RelayTypes
    <3>2. /\ Done(m).lastSeq = m.lastSeq /\ Done(m).epoch = m.epoch /\ Done(m).reported = m.reported
          /\ Done(m).listening = m.listening /\ Done(m).gen = m.gen /\ Done(m).subscribed = m.subscribed
          /\ Done(m).awaits = "nothing"
      BY <1>0 DEF Relay, Done
    <3> QED BY <2>3, <3>1, <3>2
  <2>4. CASE Await(r, Unqueued(m), "show")
    <3> DEFINE n == [Unqueued(m) EXCEPT !.awaits = "show"]
    <3>1. n \in Relay /\ n.lastSeq = m.lastSeq /\ n.epoch = m.epoch /\ n.reported = m.reported
          /\ n.listening = m.listening /\ n.gen = m.gen /\ n.subscribed = m.subscribed /\ n.awaits = "show"
      BY <1>0 DEF Relay, Unqueued
    <3>2. relay' = [relay EXCEPT ![r] = n] BY <2>4 DEF Await
    <3> QED BY <3>1, <3>2
  <2>5. CASE relay' = [relay EXCEPT ![r] = Done(Unqueued(m))]
    <3> DEFINE n == Done(Unqueued(m))
    <3>1. n \in Relay
      <4>1. Unqueued(m) \in Relay /\ Unqueued(m).queue = m.queue BY <1>0, RelayTypes DEF Unqueued, Relay
      <4> QED BY <1>0, <4>1, RelayTypes
    <3>2. /\ n.lastSeq = m.lastSeq /\ n.epoch = m.epoch /\ n.reported = m.reported
          /\ n.listening = m.listening /\ n.gen = m.gen /\ n.subscribed = m.subscribed /\ n.awaits = "nothing"
      BY <1>0 DEF Relay, Done, Unqueued
    <3> QED BY <2>5, <3>1, <3>2
  <2> QED BY <2>1, <2>2, <2>3, <2>4, <2>5 DEF Begin
<1>5. ASSUME NEW q1 \in Seq(Command), asked' = [asked EXCEPT ![r] = q1], Replaces(q1),
             \A i \in 1..Len(q) : \E j \in 1..Len(q1) : q1[j] = q[i]
      PROVE  Known'
  BY <1>0, <1>1, <1>4, <1>5, StepKeeps
<1>6. CASE asked' = asked
  <2>1. asked' = [asked EXCEPT ![r] = q] BY <1>0, <1>6, Stays
  <2> QED BY <1>0, <1>2, <1>5, <2>1
<1>7. ASSUME NEW c \in {"show", "unsubscribe"}, asked' = [asked EXCEPT ![r] = Append(@, Cmd(c))] PROVE Known'
  <2>1. Cmd(c) \in Command /\ c # "install" BY DEF Cmd, Command
  <2>2. /\ Append(q, Cmd(c)) \in Seq(Command) /\ Replaces(Append(q, Cmd(c)))
        /\ \A i \in 1..Len(q) : \E j \in 1..Len(Append(q, Cmd(c))) : Append(q, Cmd(c))[j] = q[i]
    BY <1>0, <1>2, <2>1, AskedMore
  <2> QED BY <1>5, <1>7, <2>2
<1> QED BY <1>6, <1>7 DEF Begin

LEMMA ShowHooksInformed ==
  ASSUME Known, Base', NEW r \in Relays, ShowHooks(r)
  PROVE  Known'
<1> DEFINE m == relay[r]  q == asked[r]
<1>0. /\ m \in Relay /\ q \in Seq(Command) /\ Informed(m, q, sub[r], told[r]) /\ Base
      /\ q # <<>> /\ Head(q).c = "show"
  BY KnownHere DEF ShowHooks, Runs
<1>1. UNCHANGED <<tmuxVars, told, sub>> /\ sub' = [sub EXCEPT ![r] = sub[r]] BY <1>0, Stays DEF ShowHooks
<1>2. AllFetches(Tail(q)) /\ Tail(q) \in Seq(Command) /\ m.queue # <<>> BY <1>0, Running
<1>3. /\ Replaces(Tail(q))
      /\ \A i \in 1..Len(q) : q[i].c = "fetch" => \E j \in 1..Len(Tail(q)) : Tail(q)[j] = q[i]
  BY <1>0, <1>2, AnsweredOne
<1>4. ASSUME NEW c \in {"install", "install and bump"}, Asks(r, c), Await(r, m, "install"),
             c = "install" => hook # "none"
      PROVE  Known'
  <2> DEFINE n == [m EXCEPT !.awaits = "install"]  q1 == Append(Tail(q), Cmd(c))
  <2>1. n \in Relay /\ n.lastSeq = m.lastSeq /\ n.epoch = m.epoch /\ n.reported = m.reported
        /\ n.listening = m.listening /\ n.gen = m.gen /\ n.subscribed = m.subscribed /\ n.awaits = "install"
    BY <1>0 DEF Relay
  <2>2. relay' = [relay EXCEPT ![r] = n] BY <1>4 DEF Await
  <2>3. Cmd(c) \in Command BY DEF Cmd, Command
  <2>4. /\ q1 \in Seq(Command) /\ Tail(q) \o <<Cmd(c)>> = q1 /\ Replaces(q1)
        /\ \A i \in 1..Len(Tail(q)) : \E j \in 1..Len(q1) : q1[j] = Tail(q)[i]
    BY <1>2, <1>3, <1>4, <2>3, AskedMore
  <2>5. asked' = [asked EXCEPT ![r] = q1] BY <1>4, <2>4 DEF Asks
  <2> HIDE DEF n, q1
  <2>7. \A i \in 1..Len(q) : q[i].c = "fetch" => \E j \in 1..Len(q1) : q1[j] = q[i] BY <1>3, <2>4
  <2>9. n.awaits \notin {"baseline", "subscribe"} BY <2>1
  <2>10. n.listening => m.listening /\ n.gen = m.gen BY <2>1
  <2>11. n.subscribed => (m.subscribed /\ sub[r].last = sub[r].last) \/ sub[r].last = <<>> BY <2>1
  <2>12. told' = told /\ UNCHANGED tmuxVars BY <1>1
  <2>13. n \in Relay /\ n.lastSeq = m.lastSeq /\ n.epoch = m.epoch /\ n.reported = m.reported BY <2>1
  <2>14. q1 \in Seq(Command) /\ Replaces(q1) BY <2>4
  <2> QED BY <1>1, <2>2, <2>5, <2>7, <2>9, <2>10, <2>11, <2>12, <2>13, <2>14, StepKeeps
<1>5. CASE Answered(r) /\ relay' = [relay EXCEPT ![r] = Done(@)]
  <2> DEFINE n == Done(m)  q1 == Tail(q)
  <2>1. n \in Relay BY <1>0, <1>2, RelayTypes
  <2>2. /\ n.lastSeq = m.lastSeq /\ n.epoch = m.epoch /\ n.reported = m.reported
        /\ n.listening = m.listening /\ n.gen = m.gen /\ n.subscribed = m.subscribed
        /\ n.awaits = "nothing"
    BY <1>0 DEF Relay, Done
  <2>3. relay' = [relay EXCEPT ![r] = n] /\ asked' = [asked EXCEPT ![r] = q1] BY <1>5 DEF Answered
  <2>4. q1 \in Seq(Command) /\ Replaces(q1) BY <1>2, <1>3
  <2>5. \A i \in 1..Len(q) : q[i].c = "fetch" => \E j \in 1..Len(q1) : q1[j] = q[i] BY <1>3
  <2> HIDE DEF n, q1
  <2>6. n.awaits \notin {"baseline", "subscribe"} BY <2>2
  <2>7. n.listening => m.listening /\ n.gen = m.gen BY <2>2
  <2>8. n.subscribed => (m.subscribed /\ sub[r].last = sub[r].last) \/ sub[r].last = <<>> BY <2>2
  <2>9. told' = told /\ UNCHANGED tmuxVars BY <1>1
  <2>10. n \in Relay /\ n.lastSeq = m.lastSeq /\ n.epoch = m.epoch /\ n.reported = m.reported BY <2>1, <2>2
  <2> QED BY <1>1, <2>3, <2>4, <2>5, <2>6, <2>7, <2>8, <2>9, <2>10, StepKeeps
<1> QED BY <1>4, <1>5 DEF ShowHooks

(* A hook that is installed: it was there, or the epoch moves on.          *)
LEMMA InstalledHook ==
  ASSUME NEW m \in Relay, NEW q, NEW s, NEW t, Informed(m, q, s, t),
         UNCHANGED <<seq, buffer, layout>>, hook' = "ours", epoch \in Nat, seq \in Nat,
         epoch' = epoch + 1 \/ (epoch' = epoch /\ hook # "none")
  PROVE  Informed(m, q, s, t)'
<1>1. m.epoch \in Nat /\ m.lastSeq \in Nat BY RelayTypes
<1>2. m.lastSeq <= seq /\ m.epoch <= epoch BY DEF Informed, Behind
<1>3. Behind(m)' BY <1>1, <1>2 DEF Behind
<1>4. ForeignGoes(m)' /\ Replaces(q)' BY DEF ForeignGoes, Replaces
<1>5. Delivered(m, s)' BY DEF Informed, Delivered
<1>6. ASSUME m.listening, NEW w \in Windows \ Shadowed PROVE WillHear(m, q, t, w)'
  <2>1. WillHear(m, q, t, w) BY <1>6 DEF Informed
  <2>2. CASE epoch' = epoch + 1
    <3>1. epoch' # m.epoch BY <1>1, <1>2, <2>2
    <3> QED BY <3>1 DEF WillHear
  <2>3. CASE epoch' = epoch /\ hook # "none"
    BY <2>1, <2>3 DEF WillHear, Fetching, Unread
  <2> QED BY <2>2, <2>3
<1> QED BY <1>3, <1>4, <1>5, <1>6 DEF Informed

LEMMA HookInstalledInformed ==
  ASSUME Known, Base', NEW r \in Relays, asked[r] # <<>>, HookInstalled(r),
         \/ Head(asked[r]).c = "install" /\ epoch' = epoch
         \/ Head(asked[r]).c = "install and bump" /\ epoch' = epoch + 1
  PROVE  Known'
<1> DEFINE m == relay[r]  q == asked[r]
<1>0. /\ m \in Relay /\ q \in Seq(Command) /\ Informed(m, q, sub[r], told[r]) /\ Base
      /\ Head(q) = q[1] /\ 1 \in 1..Len(q) /\ Head(q).c # "fetch"
  BY KnownHere, FirstTaken
<1>1. /\ UNCHANGED <<seq, buffer, layout, sub, told>> /\ hook' = "ours" /\ epoch \in Nat /\ seq \in Nat
      /\ relay \in [Relays -> Relay] /\ asked \in [Relays -> Seq(Command)]
  BY <1>0 DEF HookInstalled, Base, Types
<1>2. epoch' = epoch + 1 \/ (epoch' = epoch /\ hook # "none")
  BY <1>0 DEF Informed, Replaces
<1>3. ASSUME NEW y \in Relay, NEW p, NEW s, NEW t, Informed(y, p, s, t) PROVE Informed(y, p, s, t)'
  BY <1>1, <1>2, <1>3, InstalledHook
<1>4. AllFetches(Tail(q)) /\ Tail(q) \in Seq(Command) /\ m.queue # <<>> BY <1>0, Running
<1>5. /\ \A i \in 1..Len(q) : q[i].c = "fetch" => \E j \in 1..Len(Tail(q)) : Tail(q)[j] = q[i]
  BY <1>0, <1>4, AnsweredOne
<1>6. PICK m1 \in Relay, q1 \in Seq(Command) :
        /\ relay' = [relay EXCEPT ![r] = m1] /\ asked' = [asked EXCEPT ![r] = q1]
        /\ m1.lastSeq = m.lastSeq /\ m1.epoch = m.epoch /\ m1.reported = m.reported
        /\ m1.listening = m.listening /\ m1.gen = m.gen /\ m1.subscribed = m.subscribed
        /\ \A i \in 1..Len(Tail(q)) : \E j \in 1..Len(q1) : q1[j] = Tail(q)[i]
  <2>1. CASE Asks(r, "baseline") /\ Await(r, m, "baseline")
    <3> DEFINE n == [m EXCEPT !.awaits = "baseline"]  q1 == Append(Tail(q), Cmd("baseline"))
    <3>1. n \in Relay /\ n.lastSeq = m.lastSeq /\ n.epoch = m.epoch /\ n.reported = m.reported
          /\ n.listening = m.listening /\ n.gen = m.gen /\ n.subscribed = m.subscribed
      BY <1>0 DEF Relay
    <3>2. relay' = [relay EXCEPT ![r] = n] BY <2>1 DEF Await
    <3>3. Cmd("baseline") \in Command BY DEF Cmd, Command
    <3>4. /\ q1 \in Seq(Command) /\ Tail(q) \o <<Cmd("baseline")>> = q1
          /\ \A i \in 1..Len(Tail(q)) : \E j \in 1..Len(q1) : q1[j] = Tail(q)[i]
      <4>1. Replaces(Tail(q)) BY <1>4 DEF Replaces, AllFetches
      <4> QED BY <1>4, <3>3, <4>1, AskedMore
    <3>5. asked' = [asked EXCEPT ![r] = q1] BY <2>1, <3>4 DEF Asks
    <3> HIDE DEF n, q1
    <3> QED BY <3>1, <3>2, <3>4, <3>5
  <2>2. CASE Answered(r) /\ relay' = [relay EXCEPT ![r] = Done(@)]
    <3>1. Done(m) \in Relay BY <1>0, <1>4, RelayTypes
    <3>2. /\ Done(m).lastSeq = m.lastSeq /\ Done(m).epoch = m.epoch /\ Done(m).reported = m.reported
          /\ Done(m).listening = m.listening /\ Done(m).gen = m.gen /\ Done(m).subscribed = m.subscribed
      BY <1>0 DEF Relay, Done
    <3>3. relay' = [relay EXCEPT ![r] = Done(m)] /\ asked' = [asked EXCEPT ![r] = Tail(q)] BY <2>2 DEF Answered
    <3> QED BY <1>4, <3>1, <3>2, <3>3
  <2> QED BY <2>1, <2>2 DEF HookInstalled
<1>7. \A i \in 1..Len(q) : q[i].c = "fetch" => \E j \in 1..Len(q1) : q1[j] = q[i] BY <1>5, <1>6
<1>9. ASSUME NEW x \in Relays PROVE Informed(relay[x], asked[x], sub[x], told[x])'
  <2>1. CASE x = r
    <3>1. PICK y, p, s, t : y = m /\ p = q /\ s = sub[r] /\ t = told[r] OBVIOUS
    <3>2. Informed(y, p, s, t)' BY <1>0, <1>3, <3>1
    <3>3. relay'[x] = m1 /\ asked'[x] = q1 /\ sub'[x] = s /\ told'[x] = t BY <1>1, <1>6, <2>1, <3>1
    <3>4. Behind(m1)' BY <1>6, <3>1, <3>2 DEF Informed, Behind
    <3>5. ForeignGoes(m1)' /\ Replaces(q1)' BY <1>1 DEF ForeignGoes, Replaces
    <3>6. Delivered(m1, s)' BY <1>6, <3>1, <3>2 DEF Informed, Delivered
    <3>7. ASSUME m1.listening, NEW w \in Windows \ Shadowed PROVE WillHear(m1, q1, t, w)'
      <4>1. WillHear(y, p, t, w)' BY <1>6, <3>1, <3>2, <3>7 DEF Informed
      <4>2. Fetching(y, p, w) => Fetching(m1, q1, w) BY <1>6, <1>7, <3>1 DEF Fetching
      <4>3. Unread(y, w)' => Unread(m1, w)' BY <1>6, <3>1 DEF Unread
      <4> QED BY <1>6, <3>1, <4>1, <4>2, <4>3 DEF WillHear, Fetching
    <3>8. Informed(m1, q1, s, t)' BY <3>4, <3>5, <3>6, <3>7 DEF Informed
    <3> QED BY <3>3, <3>8 DEF Informed, Behind, ForeignGoes, Replaces, Delivered, WillHear, Fetching, Unread
  <2>2. CASE x # r
    <3>1. PICK y, p, s, t : y \in Relay /\ y = relay[x] /\ p = asked[x] /\ s = sub[x] /\ t = told[x] BY <1>1
    <3>2. Informed(y, p, s, t)' BY <1>3, <3>1 DEF Known
    <3>3. relay'[x] = y /\ asked'[x] = p /\ sub'[x] = s /\ told'[x] = t BY <1>1, <1>6, <2>2, <3>1
    <3> QED BY <3>2, <3>3 DEF Informed, Behind, ForeignGoes, Replaces, Delivered, WillHear, Fetching, Unread
  <2> QED BY <2>1, <2>2
<1> QED BY <1>9 DEF Known

LEMMA ReadBaselineInformed ==
  ASSUME Known, Base', NEW r \in Relays, ReadBaseline(r)
  PROVE  Known'
<1> DEFINE m == relay[r]  q == asked[r]  m1 == [Baseline(m) EXCEPT !.awaits = "subscribe"]
<1>0. /\ m \in Relay /\ q \in Seq(Command) /\ Informed(m, q, sub[r], told[r]) /\ Base
      /\ q # <<>> /\ Head(q).c = "baseline" /\ seq \in Nat /\ epoch \in Nat
  BY KnownHere DEF ReadBaseline, Runs, Base, Types
<1>1. UNCHANGED <<tmuxVars, sub>> /\ sub' = [sub EXCEPT ![r] = sub[r]] BY <1>0, Stays DEF ReadBaseline
<1>2. /\ AllFetches(Tail(q)) /\ Tail(q) \in Seq(Command) /\ m.awaits = "baseline"
  BY <1>0, Running DEF Answers, Relay
<1>3. ~m.subscribed
  <2>1. Own(m, q, sub[r].on, granted[r]) BY KnownHere
  <2> QED BY <1>2, <2>1 DEF Own, Phases, Joins
<1>4. /\ m1.lastSeq = seq /\ m1.epoch = epoch /\ m1.awaits = "subscribe" /\ m1.subscribed = m.subscribed
  BY <1>0 DEF Relay, Baseline
<1> DEFINE q1 == Append(Tail(q), Cmd("subscribe"))
<1>5. Cmd("subscribe") \in Command BY DEF Cmd, Command
<1>6. Tail(q) \o <<Cmd("subscribe")>> = q1 /\ Replaces(q1)
  <2>1. Replaces(Tail(q)) BY <1>2 DEF Replaces, AllFetches
  <2> QED BY <1>2, <1>5, <2>1, AskedMore
<1>7. relay' = [relay EXCEPT ![r] = m1] /\ asked' = [asked EXCEPT ![r] = q1] /\ told' = [told EXCEPT ![r] = layout]
  BY <1>6 DEF ReadBaseline, Await, Asks
<1> HIDE DEF m1, q1
<1>8. Behind(m1) BY <1>0, <1>4 DEF Behind
<1>9. ForeignGoes(m1) BY <1>0, <1>2 DEF ForeignGoes, Informed
<1>10. Delivered(m1, sub[r]) BY <1>3, <1>4 DEF Delivered
<1>11. \A w \in Windows : WillHear(m1, q1, layout, w) BY DEF WillHear
<1>12. Informed(m1, q1, sub[r], layout) BY <1>6, <1>8, <1>9, <1>10, <1>11 DEF Informed
<1> QED BY <1>1, <1>7, <1>12, OneInformed

LEMMA SubscribeInformed ==
  ASSUME Known, Base', NEW r \in Relays, Subscribe(r)
  PROVE  Known'
<1> DEFINE m == relay[r]  q == asked[r]  m1 == [Done(m) EXCEPT !.subscribed = TRUE]
           s1 == [on |-> TRUE, last |-> <<>>]
<1>0. /\ m \in Relay /\ q \in Seq(Command) /\ Informed(m, q, sub[r], told[r])
      /\ q # <<>> /\ Head(q).c = "subscribe"
  BY KnownHere DEF Subscribe, Runs
<1>1. AllFetches(Tail(q)) /\ Tail(q) \in Seq(Command) /\ m.queue # <<>>
  BY <1>0, KnownHere, Running
<1>2. /\ Replaces(Tail(q))
      /\ \A i \in 1..Len(q) : q[i].c = "fetch" => \E j \in 1..Len(Tail(q)) : Tail(q)[j] = q[i]
  BY <1>0, <1>1, AnsweredOne
<1>3. Done(m) \in Relay BY <1>0, <1>1, RelayTypes
<1>4. /\ m1 \in Relay /\ m1.lastSeq = m.lastSeq /\ m1.epoch = m.epoch /\ m1.reported = m.reported
      /\ m1.listening = m.listening /\ m1.gen = m.gen /\ m1.awaits = "nothing"
  BY <1>0, <1>3 DEF Relay, Done
<1>5. /\ relay' = [relay EXCEPT ![r] = m1] /\ asked' = [asked EXCEPT ![r] = Tail(q)]
      /\ sub' = [sub EXCEPT ![r] = s1] /\ told' = told /\ UNCHANGED tmuxVars
  BY DEF Subscribe, Answered
<1>6. s1.last = <<>> OBVIOUS
<1>7. m1.awaits \notin {"baseline", "subscribe"} BY <1>4
<1> HIDE DEF m1, s1, q, m
<1> QED BY <1>1, <1>2, <1>4, <1>5, <1>6, <1>7, StepKeeps DEF m, q

LEMMA UnsubscribeInformed ==
  ASSUME Known, Base', NEW r \in Relays, Unsubscribe(r)
  PROVE  Known'
<1> DEFINE m == relay[r]  q == asked[r]  s1 == [sub[r] EXCEPT !.on = FALSE]
<1>0. /\ m \in Relay /\ q \in Seq(Command) /\ Informed(m, q, sub[r], told[r])
      /\ q # <<>> /\ Head(q).c = "unsubscribe" /\ sub[r] \in Sub
  BY KnownHere DEF Unsubscribe, Runs
<1>1. AllFetches(Tail(q)) /\ Tail(q) \in Seq(Command) /\ m.queue # <<>>
  BY <1>0, KnownHere, Running
<1>2. /\ Replaces(Tail(q))
      /\ \A i \in 1..Len(q) : q[i].c = "fetch" => \E j \in 1..Len(Tail(q)) : Tail(q)[j] = q[i]
  BY <1>0, <1>1, AnsweredOne
<1> DEFINE m1 == Done(m)
<1>3. m1 \in Relay BY <1>0, <1>1, RelayTypes
<1>4. /\ m1.lastSeq = m.lastSeq /\ m1.epoch = m.epoch /\ m1.reported = m.reported
      /\ m1.listening = m.listening /\ m1.gen = m.gen /\ m1.subscribed = m.subscribed /\ m1.awaits = "nothing"
  BY <1>0, <1>3 DEF Relay, Done
<1>5. /\ relay' = [relay EXCEPT ![r] = m1] /\ asked' = [asked EXCEPT ![r] = Tail(q)]
      /\ sub' = [sub EXCEPT ![r] = s1] /\ told' = told /\ UNCHANGED tmuxVars
  <2>1. sub' = [sub EXCEPT ![r] = s1] BY DEF Unsubscribe, Known, Base, Types
  <2> QED BY <2>1 DEF Unsubscribe, Answered
<1>6. s1.last = sub[r].last BY <1>0 DEF Sub
<1>7. m1.awaits \notin {"baseline", "subscribe"} BY <1>4
<1> HIDE DEF m1, s1, q, m
<1> QED BY <1>1, <1>2, <1>3, <1>4, <1>5, <1>6, <1>7, StepKeeps DEF m, q

LEMMA FetchedInformed ==
  ASSUME Known, Base', NEW r \in Relays, asked[r] # <<>>, Head(asked[r]).c = "fetch", Fetched(r)
  PROVE  Known'
<1> DEFINE m == relay[r]  q == asked[r]  now == Head(q).gen = m.gen
           t1 == IF now THEN [w \in Windows |-> IF w \in Head(q).w THEN layout[w] ELSE told[r][w]] ELSE told[r]
<1>0. /\ m \in Relay /\ q \in Seq(Command) /\ Informed(m, q, sub[r], told[r]) /\ Base
      /\ told \in [Relays -> [Windows -> 0..MaxChanges]]
  BY KnownHere DEF Base, Types
<1>1. /\ Head(q) = q[1] /\ Tail(q) \in Seq(Command) /\ Len(Tail(q)) = Len(q) - 1
      /\ \A i \in 1..(Len(q) - 1) : i + 1 \in 1..Len(q) /\ Tail(q)[i] = q[i + 1]
      /\ \A i \in 1..Len(q) : i # 1 => i - 1 \in 1..(Len(q) - 1) /\ Tail(q)[i - 1] = q[i]
  BY <1>0, FirstTaken
<1>2. /\ relay' = [relay EXCEPT ![r] = m] /\ sub' = [sub EXCEPT ![r] = sub[r]]
      /\ asked' = [asked EXCEPT ![r] = Tail(q)] /\ UNCHANGED tmuxVars
  BY <1>0, Stays DEF Fetched, Answered
<1>3. told' = [told EXCEPT ![r] = t1]
  <2>1. CASE now BY <2>1 DEF Fetched
  <2>2. CASE ~now
    <3>1. told' = told BY <2>2 DEF Fetched
    <3>2. told = [told EXCEPT ![r] = told[r]] BY <1>0
    <3> QED BY <2>2, <3>1, <3>2
  <2> QED BY <2>1, <2>2
<1>4. Replaces(Tail(q)) BY <1>0, <1>1 DEF Informed, Replaces
<1>5. ASSUME m.listening, NEW w \in Windows \ Shadowed PROVE WillHear(m, Tail(q), t1, w)
  <2>1. WillHear(m, q, told[r], w) BY <1>0, <1>5 DEF Informed
  <2>2. CASE now /\ w \in Head(q).w BY <2>2 DEF WillHear
  <2>3. CASE ~(now /\ w \in Head(q).w)
    <3>1. t1[w] = told[r][w] BY <2>3
    <3>2. Fetching(m, q, w) => Fetching(m, Tail(q), w)
      <4>1. SUFFICES ASSUME NEW i \in 1..Len(q), q[i].c = "fetch", q[i].gen = m.gen, w \in q[i].w
            PROVE  Fetching(m, Tail(q), w)
        BY DEF Fetching
      <4>2. i # 1 BY <1>1, <2>3, <4>1
      <4>3. i - 1 \in 1..Len(Tail(q)) /\ Tail(q)[i - 1] = q[i] BY <1>1, <4>2
      <4> QED BY <4>1, <4>3 DEF Fetching
    <3> HIDE DEF t1
    <3> QED BY <2>1, <3>1, <3>2 DEF WillHear
  <2> QED BY <2>2, <2>3
<1> HIDE DEF t1
<1>6. Informed(m, Tail(q), sub[r], t1) BY <1>0, <1>4, <1>5 DEF Informed
<1> QED BY <1>2, <1>3, <1>6, OneInformed

LEMMA RefuseInformed ==
  ASSUME Known, Base', NEW r \in Relays, Refuse(r)
  PROVE  Known'
<1> DEFINE m == relay[r]  q == asked[r]
<1>1. CASE Head(q).c = "fetch" BY <1>1, FetchedInformed DEF Refuse
<1>2. CASE Head(q).c # "fetch"
  <2>0. /\ m \in Relay /\ q \in Seq(Command) /\ q # <<>> /\ Base
    BY KnownHere DEF Refuse
  <2>1. AllFetches(Tail(q)) /\ Tail(q) \in Seq(Command) /\ m.queue # <<>> BY <1>2, <2>0, Running
  <2>2. /\ Replaces(Tail(q))
        /\ \A i \in 1..Len(q) : q[i].c = "fetch" => \E j \in 1..Len(Tail(q)) : Tail(q)[j] = q[i]
    BY <1>2, <2>0, <2>1, AnsweredOne
  <2> DEFINE n == Rejected(m)  m1 == IF m.awaits = "subscribe" THEN [n EXCEPT !.listening = FALSE] ELSE n
  <2>3. Done(m) \in Relay /\ n \in Relay BY <2>0, <2>1, RelayTypes
  <2>4. /\ n.lastSeq = m.lastSeq /\ n.epoch = m.epoch /\ n.reported = m.reported
        /\ n.listening = m.listening /\ n.gen = m.gen /\ n.subscribed = m.subscribed /\ n.awaits = "nothing"
    <3>1. /\ Done(m).lastSeq = m.lastSeq /\ Done(m).epoch = m.epoch /\ Done(m).reported = m.reported
          /\ Done(m).listening = m.listening /\ Done(m).gen = m.gen /\ Done(m).subscribed = m.subscribed
          /\ Done(m).awaits = "nothing"
      BY <2>0 DEF Relay, Done
    <3>2. CASE Head(m.queue).op = "enable"
      <4>1. n = [Done(m) EXCEPT !.refCount = @ - 1] BY <3>2 DEF Rejected
      <4> QED BY <2>3, <3>1, <4>1 DEF Relay
    <3>3. CASE Head(m.queue).op # "enable"
      <4>1. n = Done(m) BY <3>3 DEF Rejected
      <4> QED BY <3>1, <4>1
    <3> QED BY <3>2, <3>3
  <2>5. relay' = [relay EXCEPT ![r] = m1] BY <1>2 DEF Refuse
  <2>6. /\ asked' = [asked EXCEPT ![r] = Tail(q)] /\ UNCHANGED tmuxVars /\ told' = told
        /\ sub' = [sub EXCEPT ![r] = sub[r]]
    BY <1>2, <2>0, Stays DEF Refuse, Answered
  <2> HIDE DEF n
  <2>7. /\ m1 \in Relay /\ m1.lastSeq = m.lastSeq /\ m1.epoch = m.epoch /\ m1.reported = m.reported
        /\ m1.listening => m.listening /\ m1.gen = m.gen
        /\ m1.subscribed = m.subscribed /\ m1.awaits = "nothing"
    <3>1. CASE m.awaits = "subscribe"
      <4>1. m1 = [n EXCEPT !.listening = FALSE] BY <3>1
      <4> HIDE DEF m1
      <4> QED BY <2>3, <2>4, <4>1 DEF Relay
    <3>2. CASE m.awaits # "subscribe"
      <4>1. m1 = n BY <3>2
      <4> HIDE DEF m1
      <4> QED BY <2>3, <2>4, <4>1
    <3> QED BY <3>1, <3>2
  <2>8. m1.awaits \notin {"baseline", "subscribe"} BY <2>7
  <2> HIDE DEF m1, m, q
  <2> QED BY <2>1, <2>2, <2>5, <2>6, <2>7, <2>8, StepKeeps DEF m, q
<1> QED BY <1>1, <1>2

LEMMA ReportInformed ==
  ASSUME Known, Base', NEW r \in Relays, Report(r)
  PROVE  Known'
<1> DEFINE m == relay[r]  q == asked[r]  s1 == [sub[r] EXCEPT !.last = <<Value>>]
<1>0. /\ m \in Relay /\ q \in Seq(Command) /\ Informed(m, q, sub[r], told[r]) /\ Base /\ sub[r] \in Sub
      /\ Own(m, q, sub[r].on, granted[r]) /\ told \in [Relays -> [Windows -> 0..MaxChanges]]
      /\ Types /\ Ordered /\ seq \in Nat /\ epoch \in Nat
  BY KnownHere DEF Base, Types
<1>1. sub' = [sub EXCEPT ![r] = s1] /\ UNCHANGED tmuxVars BY <1>0 DEF Report, Base, Types
<1>2. s1.last = <<Value>>
  BY <1>0 DEF Sub
<1>3. told = [told EXCEPT ![r] = told[r]] BY <1>0
<1> HIDE DEF s1
<1>4. CASE ~m.listening
  <2>1. ~m.subscribed BY <1>0, <1>4 DEF Own, Phases
  <2>2. relay' = [relay EXCEPT ![r] = m] /\ asked' = [asked EXCEPT ![r] = q] /\ told' = [told EXCEPT ![r] = told[r]]
    BY <1>0, <1>3, <1>4, Stays DEF Report
  <2>3. Informed(m, q, s1, told[r]) BY <1>0, <1>4, <2>1 DEF Informed, Delivered
  <2> QED BY <1>1, <2>2, <2>3, OneInformed
<1>5. CASE m.listening
  <2>1. PICK m1 \in Relay, f \in Seq(Command) :
           /\ relay' = [relay EXCEPT ![r] = m1]
           /\ asked' = [asked EXCEPT ![r] = asked[r] \o f]
           /\ m1.epoch = epoch /\ m1.reported = {Uncovered}
           /\ m1.lastSeq = IF relay[r].lastSeq < seq THEN seq ELSE relay[r].lastSeq
           /\ m1.gen = relay[r].gen /\ m1.refCount = relay[r].refCount /\ m1.awaits = relay[r].awaits
           /\ m1.subscribed = relay[r].subscribed /\ m1.listening = relay[r].listening
           /\ \/ /\ m1.queue = relay[r].queue /\ m1.repairQueued = relay[r].repairQueued
                 /\ ~NeedsRepair(relay[r], Uncovered)
              \/ /\ m1.queue = Append(relay[r].queue, [op |-> "repair", gen |-> relay[r].gen])
                 /\ m1.repairQueued /\ NeedsRepair(relay[r], Uncovered)
           /\ AllFetches(f)
           /\ \A w \in Changed(Read(relay[r].lastSeq)) : \E i \in 1..Len(f) : f[i] = Fetch(w, relay[r].gen)
    <3>1. Base BY <1>0
    <3>2. relay[r].listening BY <1>5
    <3> HIDE DEF m, q
    <3> QED BY <3>1, <3>2, DeliveryOf
  <2>2. m.lastSeq \in Nat /\ m.lastSeq <= seq /\ m.epoch <= epoch /\ m.epoch \in Nat
    BY <1>0, RelayTypes DEF Informed, Behind
  <2>3. m1.lastSeq = seq BY <1>0, <2>1, <2>2
  <2> DEFINE missed == Value.epoch # m.epoch \/ LostEntries(Read(m.lastSeq), m.lastSeq) > 0
             t1 == IF missed THEN layout ELSE told[r]  q1 == q \o f
  <2>4. told' = [told EXCEPT ![r] = t1]
    <3>1. told' = IF missed THEN [told EXCEPT ![r] = layout] ELSE told
      BY <1>5 DEF Report, handleDelivery, Value, Read
    <3> QED BY <1>3, <3>1
  <2>5. /\ Len(q1) = Len(q) + Len(f) /\ Len(q) \in Nat /\ Len(f) \in Nat
        /\ \A i \in 1..Len(q) : i \in 1..(Len(q) + Len(f)) /\ q1[i] = q[i]
        /\ \A i \in 1..Len(f) : Len(q) + i \in 1..(Len(q) + Len(f)) /\ q1[Len(q) + i] = f[i]
        /\ \A i \in 1..(Len(q) + Len(f)) : i \notin 1..Len(q) => i - Len(q) \in 1..Len(f) /\ q1[i] = f[i - Len(q)]
    BY <1>0
  <2> HIDE DEF q1
  <2>6. Behind(m1) BY <1>0, <2>1, <2>3 DEF Behind
  <2>7. ForeignGoes(m1) BY <1>0, <2>1 DEF Informed, ForeignGoes
  <2>8. Replaces(q1)
    <3>1. SUFFICES ASSUME NEW i \in 1..Len(q1), q1[i].c = "install" PROVE hook # "none" BY DEF Replaces
    <3>2. CASE i \in 1..Len(q) BY <1>0, <2>5, <3>1, <3>2 DEF Informed, Replaces
    <3>3. CASE i \notin 1..Len(q) BY <2>1, <2>5, <3>1, <3>3 DEF AllFetches
    <3> QED BY <3>2, <3>3
  <2>9. Delivered(m1, s1)
    <3>1. s1.last[1] = Value BY <1>2
    <3>2. Value.epoch = epoch /\ Value.uncovered = Uncovered /\ Value.buffer = buffer BY DEF Value
    <3>3. \A i \in 1..Len(buffer) : buffer[i].seq <= seq
      <4>1. Len(buffer) \in Nat BY <1>0 DEF Types
      <4> QED BY <1>0, <4>1 DEF Ordered
    <3> QED BY <2>1, <2>3, <3>1, <3>2, <3>3 DEF Delivered
  <2>10. ASSUME NEW w \in Windows \ Shadowed PROVE WillHear(m1, q1, t1, w)
    <3>1. WillHear(m, q, told[r], w) BY <1>0, <1>5 DEF Informed
    <3>2. CASE missed BY <3>2 DEF WillHear
    <3>3. CASE ~missed
      <4>1. epoch = m.epoch /\ ~(LostEntries(Read(m.lastSeq), m.lastSeq) > 0) BY <3>3 DEF Value
      <4>2. /\ \A i \in 1..Len(buffer) : buffer[i].seq > m.lastSeq => buffer[i] \in Read(m.lastSeq)
            /\ ~(m.lastSeq < seq - Len(buffer))
        BY <1>0, <2>2, <4>1, NothingLost
      <4>3. CASE told[r][w] = layout[w] \/ hook = "none" BY <3>3, <4>3 DEF WillHear
      <4>4. CASE Fetching(m, q, w)
        <5>1. Fetching(m1, q1, w) BY <2>1, <2>5, <4>4 DEF Fetching
        <5> QED BY <5>1 DEF WillHear
      <4>5. CASE Unread(m, w)
        <5>1. PICK i \in 1..Len(buffer) : buffer[i].window = w /\ buffer[i] \in Read(m.lastSeq)
          BY <4>2, <4>5 DEF Unread
        <5>2. w \in Changed(Read(m.lastSeq)) BY <5>1 DEF Changed
        <5>3. PICK j \in 1..Len(f) : f[j] = Fetch(w, m.gen) BY <2>1, <5>2
        <5>4. Len(q) + j \in 1..Len(q1) /\ q1[Len(q) + j] = Fetch(w, m.gen) BY <2>5, <5>3
        <5>5. Fetch(w, m.gen).c = "fetch" /\ Fetch(w, m.gen).gen = m.gen /\ w \in Fetch(w, m.gen).w BY DEF Fetch
        <5>6. m1.gen = m.gen BY <2>1
        <5>7. Fetching(m1, q1, w)
          <6>1. PICK k \in 1..Len(q1) : q1[k] = Fetch(w, m.gen) BY <5>4
          <6> QED BY <5>5, <5>6, <6>1 DEF Fetching
        <5> QED BY <5>7 DEF WillHear
      <4> QED BY <3>1, <4>1, <4>2, <4>3, <4>4, <4>5 DEF WillHear
    <3> QED BY <3>2, <3>3
  <2> HIDE DEF t1
  <2>11. Informed(m1, q1, s1, t1) BY <2>6, <2>7, <2>8, <2>9, <2>10 DEF Informed
  <2> QED BY <1>1, <2>1, <2>4, <2>11, OneInformed DEF q1
<1> QED BY <1>4, <1>5

-----------------------------------------------------------------------------
(* What tmux does *)

(* A change is recorded, or nothing records it and nobody relies on it.    *)
LEMMA ChangeInforms ==
  ASSUME Types, Ordered, NEW w \in Windows, Change(w), NEW m \in Relay, NEW q, NEW s, NEW t, Informed(m, q, s, t)
  PROVE  Informed(m, q, s, t)'
<1>1. /\ hook' = hook /\ epoch' = epoch /\ seq \in Nat /\ m.lastSeq \in Nat
      /\ \A v \in Windows : v # w => layout'[v] = layout[v]
  BY RelayTypes DEF Change, Types
<1>2. m.lastSeq <= seq /\ m.epoch <= epoch BY DEF Informed, Behind
<1>3. ForeignGoes(m)' /\ Replaces(q)' /\ Delivered(m, s)'
  BY <1>1 DEF Informed, ForeignGoes, Replaces, Delivered
<1>4. CASE hook = "ours"
  <2>1. /\ seq' = seq + 1 /\ buffer' \in Seq(Entry)
        /\ \A i \in 1..Len(buffer) : \/ buffer[i].seq <= seq' - Len(buffer')
                                     \/ \E j \in 1..Len(buffer') : buffer'[j] = buffer[i]
        /\ \E j \in 1..Len(buffer') : buffer'[j] = [seq |-> seq + 1, window |-> w]
        /\ seq - Len(buffer) <= seq' - Len(buffer')
    BY <1>4, ChangeRecorded
  <2>2. Behind(m)' BY <1>1, <1>2, <2>1 DEF Behind
  <2>3. ASSUME m.listening, NEW v \in Windows \ Shadowed PROVE WillHear(m, q, t, v)'
    <3>1. WillHear(m, q, t, v) BY <2>3 DEF Informed
    <3>2. CASE v = w
      <4>1. PICK j \in 1..Len(buffer') : buffer'[j] = [seq |-> seq + 1, window |-> w] BY <2>1
      <4>2. buffer'[j].seq > m.lastSeq /\ buffer'[j].window = w BY <1>1, <1>2, <4>1
      <4>3. Unread(m, v)' BY <3>2, <4>2 DEF Unread
      <4> QED BY <4>3 DEF WillHear
    <3>3. CASE v # w /\ Unread(m, v)
      <4>1. PICK i \in 1..Len(buffer) : buffer[i].window = v /\ buffer[i].seq > m.lastSeq BY <3>3 DEF Unread
      <4>2. CASE buffer[i].seq <= seq' - Len(buffer')
        <5>1. buffer[i].seq \in Nat /\ seq' - Len(buffer') \in Int
          <6>1. buffer[i] \in Entry BY DEF Types
          <6>2. Len(buffer') \in Nat BY <2>1
          <6> QED BY <1>1, <2>1, <6>1, <6>2 DEF Entry
        <5>2. m.lastSeq < seq' - Len(buffer') BY <1>1, <4>1, <4>2, <5>1
        <5> QED BY <5>2 DEF WillHear
      <4>3. CASE \E j \in 1..Len(buffer') : buffer'[j] = buffer[i]
        <5>1. Unread(m, v)' BY <4>1, <4>3 DEF Unread
        <5> QED BY <5>1 DEF WillHear
      <4> QED BY <2>1, <4>2, <4>3
    <3>4. CASE m.lastSeq < seq - Len(buffer)
      <4>1. Len(buffer') \in Nat /\ Len(buffer) \in Nat BY <2>1 DEF Types
      <4>2. m.lastSeq < seq' - Len(buffer') BY <1>1, <2>1, <3>4, <4>1
      <4> QED BY <4>2 DEF WillHear
    <3>5. CASE Fetching(m, q, v)
      BY <3>5 DEF WillHear, Fetching
    <3>6. CASE v # w /\ (t[v] = layout[v] \/ hook = "none" \/ epoch # m.epoch)
      BY <1>1, <3>6 DEF WillHear
    <3> QED BY <3>1, <3>2, <3>3, <3>4, <3>5, <3>6 DEF WillHear
  <2> QED BY <1>3, <2>2, <2>3 DEF Informed
<1>5. CASE hook # "ours"
  <2>1. UNCHANGED <<seq, buffer>> BY <1>5 DEF Change
  <2>2. Behind(m)' BY <1>1, <1>2, <2>1 DEF Behind
  <2>3. ASSUME m.listening, NEW v \in Windows \ Shadowed PROVE WillHear(m, q, t, v)'
    <3>1. hook = "none" BY <1>5, <2>3 DEF Informed, ForeignGoes, Types
    <3> QED BY <1>1, <3>1 DEF WillHear
  <2> QED BY <1>3, <2>2, <2>3 DEF Informed
<1> QED BY <1>4, <1>5

LEMMA ChangeInformed ==
  ASSUME Known, Base', NEW w \in Windows, Change(w)
  PROVE  Known'
<1>1. Types /\ Ordered /\ UNCHANGED <<sub, relay, asked, told>> BY DEF Known, Base, Change
<1>2. ASSUME NEW r \in Relays PROVE Informed(relay[r], asked[r], sub[r], told[r])'
  <2>1. PICK m, q, s, t : m \in Relay /\ m = relay[r] /\ q = asked[r] /\ s = sub[r] /\ t = told[r] BY KnownHere
  <2>2. Informed(m, q, s, t)' BY <1>1, <2>1, ChangeInforms DEF Known
  <2>3. relay'[r] = m /\ asked'[r] = q /\ sub'[r] = s /\ told'[r] = t BY <1>1, <2>1
  <2> QED BY <2>2, <2>3 DEF Informed, Behind, ForeignGoes, Replaces, Delivered, WillHear, Fetching, Unread
<1> QED BY <1>2 DEF Known

(* The hook does not go between a relay's check of it and the install that *)
(* the check chose.                                                        *)
LEMMA ClearInformed ==
  ASSUME Known, Base', ~ClearAnytime, ClearHook
  PROVE  Known'
<1>1. /\ hook' = "none" /\ UNCHANGED <<seq, buffer, epoch, layout, sub, relay, asked, told>>
      /\ \A r \in Relays : ~Replacing(r)
  BY DEF ClearHook
<1>2. ASSUME NEW r \in Relays PROVE Informed(relay[r], asked[r], sub[r], told[r])'
  <2> DEFINE m == relay[r]  q == asked[r]
  <2>1. /\ m \in Relay /\ q \in Seq(Command) /\ Serving(m, q) /\ Informed(m, q, sub[r], told[r])
    BY KnownHere DEF Own
  <2>2. ASSUME NEW i \in 1..Len(q), q[i].c = "install" PROVE FALSE
    <3>1. i = 1 /\ "install" \in Answers(m.awaits) BY <2>1, <2>2 DEF Serving
    <3>2. m.awaits = "install" BY <3>1 DEF Answers
    <3>3. q # <<>> /\ Head(q) = q[1] BY <2>1, <2>2, <3>1
    <3> QED BY <1>1, <2>2, <3>1, <3>2, <3>3 DEF Replacing
  <2>3. Replaces(q)' BY <1>1, <2>2 DEF Replaces
  <2>4. Behind(m)' /\ ForeignGoes(m)' /\ Delivered(m, sub[r])'
    BY <1>1, <2>1 DEF Informed, Behind, ForeignGoes, Delivered
  <2>5. \A w \in Windows \ Shadowed : WillHear(m, q, told[r], w)' BY <1>1 DEF WillHear
  <2> QED BY <2>3, <2>4, <2>5 DEF Informed
<1> QED BY <1>2 DEF Known

LEMMA KnownInit ==
  ASSUME Init
  PROVE  Known
<1>1. Base BY BaseInit
<1>2. ASSUME NEW r \in Relays PROVE Informed(relay[r], asked[r], sub[r], told[r])
  <2>1. /\ relay[r].lastSeq = 0 /\ relay[r].epoch = 0 /\ ~relay[r].listening /\ ~relay[r].subscribed
        /\ relay[r].awaits = "nothing" /\ asked[r] = <<>> /\ seq = 0 /\ epoch = 0
    BY DEF Init
  <2> QED BY <2>1 DEF Informed, Behind, ForeignGoes, Replaces, Delivered
<1> QED BY <1>1, <1>2 DEF Known

LEMMA KnownNext ==
  ASSUME Known, ~ClearAnytime, [Next]_vars
  PROVE  Known'
<1>1. Base' BY BaseNext DEF Known
<1>2. ASSUME NEW r \in Relays, Serve(r) PROVE Known'
  <2>1. CASE Install(r) BY <1>1, <2>1, HookInstalledInformed DEF Install, Runs
  <2>2. CASE InstallAndBump(r) BY <1>1, <2>2, HookInstalledInformed DEF InstallAndBump, Runs
  <2>3. CASE FetchLayout(r) BY <1>1, <2>3, FetchedInformed DEF FetchLayout, Runs
  <2> QED BY <1>1, <1>2, <2>1, <2>2, <2>3, ShowHooksInformed, ReadBaselineInformed, SubscribeInformed,
             UnsubscribeInformed DEF Serve
<1>3. ASSUME NEW r \in Relays, enable(r) \/ disable(r) \/ Begin(r) \/ Refuse(r) \/ Report(r) PROVE Known'
  BY <1>1, <1>3, CallsInformed, BeginInformed, RefuseInformed, ReportInformed
<1>4. ASSUME NEW w \in Windows, Change(w) PROVE Known' BY <1>1, <1>4, ChangeInformed
<1>5. CASE ClearHook BY <1>1, <1>5, ClearInformed
<1>6. CASE UNCHANGED vars
  BY <1>1, <1>6 DEF vars, tmuxVars, Known, Informed, Behind, ForeignGoes, Replaces, Delivered, WillHear, Fetching, Unread
<1> QED BY <1>2, <1>3, <1>4, <1>5, <1>6 DEF Next

-----------------------------------------------------------------------------
(* A relay at rest has read everything, so each way to a change is done.   *)
LEMMA MissedOf ==
  ASSUME Known
  PROVE  NothingMissed
<1> SUFFICES ASSUME NEW r \in Relays, AtRest(r)
    PROVE  /\ relay[r].reported = {Uncovered}
           /\ \A w \in Windows \ Uncovered : told[r][w] = layout[w]
  BY DEF NothingMissed
<1> DEFINE m == relay[r]
<1>1. /\ m \in Relay /\ Informed(m, asked[r], sub[r], told[r]) /\ Own(m, asked[r], sub[r].on, granted[r])
      /\ Types /\ Ordered
  BY KnownHere DEF Base
<1>2. m.subscribed /\ asked[r] = <<>> /\ sub[r].last = <<Value>> BY DEF AtRest
<1>3. m.listening BY <1>1, <1>2 DEF Own, Phases
<1>4. /\ epoch = m.epoch /\ m.reported = {Uncovered}
      /\ \A i \in 1..Len(buffer) : buffer[i].seq <= m.lastSeq
  <2>1. sub[r].last # <<>> /\ sub[r].last[1] = Value BY <1>2
  <2>2. Value.epoch = epoch /\ Value.uncovered = Uncovered /\ Value.buffer = buffer BY DEF Value
  <2> QED BY <1>1, <1>2, <2>1, <2>2 DEF Informed, Delivered
<1>5. ASSUME NEW w \in Windows \ Uncovered PROVE told[r][w] = layout[w]
  <2>1. w \in Windows \ Shadowed /\ hook # "none" BY <1>5, LayoutAssumption DEF Uncovered
  <2>2. WillHear(m, asked[r], told[r], w) BY <1>1, <1>3, <2>1 DEF Informed
  <2>3. ~Fetching(m, asked[r], w) BY <1>2 DEF Fetching
  <2>4. m.lastSeq \in Nat /\ seq \in Nat /\ Len(buffer) \in Nat /\ Cap \in Nat /\ Cap >= 2
    BY <1>1, RelayTypes, LayoutAssumption DEF Types
  <2>5. \A i \in 1..Len(buffer) : buffer[i].seq \in Nat /\ buffer[i].seq = seq - Len(buffer) + i
    <3>1. \A i \in 1..Len(buffer) : buffer[i] \in Entry BY <1>1 DEF Types
    <3> QED BY <1>1, <3>1 DEF Ordered, Entry
  <2>6. ~Unread(m, w) BY <1>4, <2>4, <2>5 DEF Unread
  <2>7. ~(m.lastSeq < seq - Len(buffer))
    <3>1. CASE Len(buffer) = 0
      <4>1. seq = 0 BY <1>1, <2>4, <3>1 DEF Ordered
      <4> QED BY <2>4, <3>1, <4>1
    <3>2. CASE Len(buffer) # 0
      <4>1. Len(buffer) \in 1..Len(buffer) BY <2>4, <3>2
      <4>2. buffer[Len(buffer)].seq <= m.lastSeq /\ buffer[Len(buffer)].seq = seq - Len(buffer) + Len(buffer)
        BY <1>4, <2>5, <4>1
      <4> QED BY <2>4, <4>2
    <3> QED BY <3>1, <3>2
  <2> QED BY <1>4, <2>1, <2>2, <2>3, <2>6, <2>7 DEF WillHear
<1> QED BY <1>4, <1>5

(* When nothing is left to do, a relay's listeners know every layout that  *)
(* the hook covers, and which windows it does not cover: whatever relays   *)
(* share the hook, the buffer and the epoch, and whatever tmux refuses,    *)
(* a change is read from the buffer and fetched, or the relay says that it *)
(* missed some (handleDelivery, the epoch, and the check of the hook, in   *)
(* src/cross-session-layout.ts).  A hook removed between a check of it and *)
(* the install the check chose is the exception: that install brings the   *)
(* hook back without a new epoch.                                          *)
THEOREM NothingIsMissed == ~ClearAnytime => (Spec => []NothingMissed)
<1> SUFFICES ASSUME ~ClearAnytime PROVE Spec => []NothingMissed OBVIOUS
<1>1. Init => Known BY KnownInit
<1>2. Known /\ [Next]_vars => Known' BY KnownNext
<1>3. Known => NothingMissed BY MissedOf
<1> QED BY <1>1, <1>2, <1>3, PTL DEF Spec

-----------------------------------------------------------------------------
(* With one listener at a time, a removed hook comes back.  First the      *)
(* queue of one relay, record m, which was granted g enables.              *)

(* An enable is undone before the next is made.                            *)
Alternate(m, g) ==
  /\ m.refCount <= 1
  /\ \A i \in 1..Len(m.queue) : m.queue[i].op = "disable" =>
       /\ g = 0
       /\ \A j \in 1..Len(m.queue) : /\ m.queue[j].op = "disable" => i = j
                                     /\ m.queue[j].op = "enable" => i < j

(* A repair of an earlier subscription goes before anybody listens again.  *)
StaleGoes(m) ==
  \A i \in 1..Len(m.queue) : m.queue[i].op = "repair" /\ m.queue[i].gen # m.gen =>
    /\ ~m.listening
    /\ \A j \in 1..Len(m.queue) : j < i => m.queue[j].op = "repair" \/ (j = 1 /\ m.awaits = "unsubscribe")

(* A repair that is said to wait does.                                     *)
Flagged(m) ==
  m.repairQueued => \E i \in 1..Len(m.queue) : m.queue[i].op = "repair" /\ (i = 1 => m.awaits = "nothing")

Tidy(m, g) == Alternate(m, g) /\ StaleGoes(m) /\ Flagged(m)

(* A repair of this subscription waits or is under way.                    *)
Mending(m) == \E i \in 1..Len(m.queue) : m.queue[i].op = "repair" /\ m.queue[i].gen = m.gen

(* The step at the head goes on, a step joins, the head has settled.       *)
GoesOn(m, m1) ==
  /\ m1.queue = m.queue /\ m1.gen = m.gen /\ m1.refCount = m.refCount
  /\ m1.awaits = m.awaits \/ m.awaits # "unsubscribe"
  /\ m1.listening => m.listening \/ (~Repairs(m) /\ m.awaits # "unsubscribe")
  /\ m1.repairQueued => m.repairQueued /\ (m1.awaits = m.awaits \/ m.awaits # "nothing" \/ ~Repairs(m))

Joined(m, m1, g, g1, e) ==
  /\ m1.queue = Append(m.queue, e) /\ m1.gen = m.gen /\ m1.awaits = m.awaits /\ m1.refCount <= 1
  /\ m.awaits # "nothing" => m.queue # <<>>
  /\ m1.listening => m.listening
  /\ m1.repairQueued => m.repairQueued \/ e.op = "repair"
  /\ e.op = "repair" => e.gen = m.gen
  /\ IF e.op = "disable" THEN g1 = 0 /\ ~Leaves(m.queue) /\ EnablesIn(m.queue) = {} ELSE g1 = g

Settled(m, m1, g, g1) ==
  /\ m.queue # <<>> /\ m1.queue = Tail(m.queue) /\ m1.gen = m.gen /\ m1.awaits = "nothing"
  /\ m1.refCount <= m.refCount
  /\ m1.listening => m.listening
  /\ m1.repairQueued => m.repairQueued /\ (m.awaits # "nothing" \/ ~Repairs(m))
  /\ g1 = g \/ Head(m.queue).op = "enable"

LEMMA TidyGoesOn ==
  ASSUME NEW m \in Relay, NEW m1 \in Relay, NEW g \in Nat, Tidy(m, g), GoesOn(m, m1)
  PROVE  Tidy(m1, g) /\ (Mending(m) => Mending(m1))
<1>1. m.queue \in Seq(Step) /\ (m.queue # <<>> => Head(m.queue) = m.queue[1]) BY RelayTypes, FirstTaken
<1>2. Alternate(m1, g) BY DEF Tidy, Alternate, GoesOn
<1>3. StaleGoes(m1)
  <2> SUFFICES ASSUME NEW i \in 1..Len(m.queue), m.queue[i].op = "repair", m.queue[i].gen # m.gen
      PROVE  /\ ~m1.listening
             /\ \A j \in 1..Len(m.queue) : j < i => m.queue[j].op = "repair" \/ (j = 1 /\ m1.awaits = "unsubscribe")
    BY DEF StaleGoes, GoesOn
  <2>1. /\ ~m.listening
        /\ \A j \in 1..Len(m.queue) : j < i => m.queue[j].op = "repair" \/ (j = 1 /\ m.awaits = "unsubscribe")
    BY DEF Tidy, StaleGoes
  <2>2. m1.awaits = "unsubscribe" \/ m.awaits # "unsubscribe" BY DEF GoesOn
  <2>3. CASE m.awaits = "unsubscribe" BY <2>1, <2>3 DEF GoesOn
  <2>4. CASE m.awaits # "unsubscribe"
    <3>1. \A j \in 1..Len(m.queue) : j < i => m.queue[j].op = "repair" BY <2>1, <2>4
    <3>2. i \in Nat /\ 1 \in 1..Len(m.queue) /\ (i = 1 \/ 1 < i) /\ m.queue # <<>> BY <1>1
    <3>3. Repairs(m) BY <1>1, <3>1, <3>2 DEF Repairs
    <3> QED BY <2>1, <3>1, <3>3 DEF GoesOn
  <2> QED BY <2>3, <2>4
<1>4. Flagged(m1)
  <2> SUFFICES ASSUME m1.repairQueued
      PROVE  \E i \in 1..Len(m1.queue) : m1.queue[i].op = "repair" /\ (i = 1 => m1.awaits = "nothing")
    BY DEF Flagged
  <2>1. PICK i \in 1..Len(m.queue) : m.queue[i].op = "repair" /\ (i = 1 => m.awaits = "nothing")
    BY DEF Tidy, Flagged, GoesOn
  <2>2. ASSUME i = 1, m1.awaits # m.awaits PROVE FALSE
    <3>1. m.queue # <<>> /\ Repairs(m) BY <1>1, <2>1, <2>2 DEF Repairs
    <3> QED BY <2>1, <2>2, <3>1 DEF GoesOn
  <2> QED BY <2>1, <2>2 DEF GoesOn
<1>5. Mending(m) => Mending(m1) BY DEF Mending, GoesOn
<1> QED BY <1>2, <1>3, <1>4, <1>5 DEF Tidy

LEMMA TidyJoined ==
  ASSUME NEW m \in Relay, NEW m1 \in Relay, NEW g \in Nat, NEW g1 \in Nat, NEW e \in Step,
         Tidy(m, g), Joined(m, m1, g, g1, e)
  PROVE  Tidy(m1, g1) /\ (Mending(m) \/ e.op = "repair" => Mending(m1))
<1> DEFINE s == m.queue  t == m1.queue  L == Len(s)
<1>1. /\ s \in Seq(Step) /\ L \in Nat /\ t = Append(s, e) /\ Len(t) = L + 1 /\ t[L + 1] = e
      /\ \A i \in 1..L : i \in 1..(L + 1) /\ t[i] = s[i] /\ i < L + 1
      /\ \A i \in 1..(L + 1) : i \in 1..L \/ i = L + 1
      /\ L + 1 = 1 => s = <<>>
      /\ L + 1 \in 1..(L + 1)
  BY RelayTypes, AtTheEnd DEF Joined
<1> HIDE DEF L, s, t
<1>2. Alternate(m1, g1)
  <2>1. m1.refCount <= 1 BY DEF Joined
  <2>2. /\ \A i \in 1..L : s[i].op = "disable" => g = 0
        /\ \A i, j \in 1..L : s[i].op = "disable" /\ s[j].op = "disable" => i = j
        /\ \A i, j \in 1..L : s[i].op = "disable" /\ s[j].op = "enable" => i < j
    BY DEF Tidy, Alternate, s, L
  <2>3. CASE e.op = "disable"
    <3>1. g1 = 0 /\ \A i \in 1..L : s[i].op # "disable" /\ s[i].op # "enable"
      <4>1. g1 = 0 /\ ~Leaves(s) /\ EnablesIn(s) = {} BY <2>3 DEF Joined, s
      <4>2. DOMAIN s = 1..L BY <1>1 DEF L
      <4> QED BY <4>1, <4>2 DEF Leaves, EnablesIn
    <3>2. \A i \in 1..(L + 1) : t[i].op # "enable" /\ (t[i].op = "disable" => i = L + 1) BY <1>1, <2>3, <3>1
    <3> QED BY <1>1, <2>1, <3>1, <3>2 DEF Alternate, t
  <2>4. CASE e.op # "disable"
    <3>1. g1 = g BY <2>4 DEF Joined
    <3>2. \A i \in 1..(L + 1) : t[i].op = "disable" => i \in 1..L BY <1>1, <2>4
    <3>3. \A i, j \in 1..(L + 1) : t[i].op = "disable" /\ t[j].op = "enable" => i < j BY <1>1, <2>2, <3>2
    <3>4. \A i, j \in 1..(L + 1) : t[i].op = "disable" /\ t[j].op = "disable" => i = j BY <1>1, <2>2, <3>2
    <3>5. \A i \in 1..(L + 1) : t[i].op = "disable" => g1 = 0 BY <1>1, <2>2, <3>1, <3>2
    <3> QED BY <1>1, <2>1, <3>3, <3>4, <3>5 DEF Alternate, t
  <2> QED BY <2>3, <2>4
<1>3. StaleGoes(m1)
  <2> SUFFICES ASSUME NEW i \in 1..(L + 1), t[i].op = "repair", t[i].gen # m1.gen
      PROVE  /\ ~m1.listening
             /\ \A j \in 1..(L + 1) : j < i => t[j].op = "repair" \/ (j = 1 /\ m1.awaits = "unsubscribe")
    BY <1>1 DEF StaleGoes, t
  <2>1. m1.gen = m.gen /\ (e.op = "repair" => e.gen = m.gen) BY DEF Joined
  <2>2. i \in 1..L /\ s[i].op = "repair" /\ s[i].gen # m.gen BY <1>1, <2>1
  <2>3. /\ ~m.listening
        /\ \A j \in 1..L : j < i => s[j].op = "repair" \/ (j = 1 /\ m.awaits = "unsubscribe")
    BY <2>2 DEF Tidy, StaleGoes, s, L
  <2>4. \A j \in 1..(L + 1) : j < i => j \in 1..L BY <1>1, <2>2
  <2> QED BY <1>1, <2>3, <2>4 DEF Joined
<1>4. Flagged(m1)
  <2> SUFFICES ASSUME m1.repairQueued
      PROVE  \E i \in 1..(L + 1) : t[i].op = "repair" /\ (i = 1 => m1.awaits = "nothing")
    BY <1>1 DEF Flagged, t
  <2>1. CASE e.op = "repair"
    <3>1. L + 1 = 1 => m.awaits = "nothing" BY <1>1 DEF Joined, s
    <3> QED BY <1>1, <2>1, <3>1 DEF Joined
  <2>2. CASE e.op # "repair"
    <3>1. PICK i \in 1..L : s[i].op = "repair" /\ (i = 1 => m.awaits = "nothing")
      BY <2>2 DEF Tidy, Flagged, Joined, s, L
    <3> QED BY <1>1, <3>1 DEF Joined
  <2> QED BY <2>1, <2>2
<1>5. Mending(m) \/ e.op = "repair" => Mending(m1)
  <2>1. m1.gen = m.gen /\ (e.op = "repair" => e.gen = m.gen) BY DEF Joined
  <2>2. Mending(m) => \E i \in 1..L : s[i].op = "repair" /\ s[i].gen = m.gen BY DEF Mending, s, L
  <2>3. (\E i \in 1..(L + 1) : t[i].op = "repair" /\ t[i].gen = m1.gen) => Mending(m1) BY <1>1 DEF Mending, t
  <2> QED BY <1>1, <2>1, <2>2, <2>3
<1> QED BY <1>2, <1>3, <1>4, <1>5 DEF Tidy

LEMMA TidySettled ==
  ASSUME NEW m \in Relay, NEW m1 \in Relay, NEW g \in Nat, NEW g1 \in Nat, Tidy(m, g), Settled(m, m1, g, g1)
  PROVE  Tidy(m1, g1) /\ (Mending(m) /\ ~(Repairs(m) /\ Head(m.queue).gen = m.gen) => Mending(m1))
<1> DEFINE s == m.queue  t == m1.queue  L == Len(s)
<1>1. /\ s \in Seq(Step) /\ s # <<>> /\ t = Tail(s) /\ Head(s) = s[1] /\ 1 \in 1..L
      /\ L \in Nat \ {0} /\ Len(t) = L - 1
      /\ \A i \in 1..(L - 1) : i + 1 \in 1..L /\ t[i] = s[i + 1]
      /\ \A i \in 1..L : i # 1 => i - 1 \in 1..(L - 1) /\ t[i - 1] = s[i]
  BY RelayTypes, FirstTaken DEF Settled
<1> HIDE DEF L, s, t
<1>2. \A i \in 1..(L - 1) : i \in Nat /\ i + 1 # 1 /\ 1 < i + 1 BY <1>1
<1>3. Alternate(m1, g1)
  <2>1. m1.refCount <= 1
    <3>1. m.refCount \in Int /\ m1.refCount \in Int BY RelayTypes
    <3> QED BY <3>1 DEF Settled, Tidy, Alternate
  <2>2. /\ \A i \in 1..L : s[i].op = "disable" => g = 0
        /\ \A i, j \in 1..L : s[i].op = "disable" /\ s[j].op = "disable" => i = j
        /\ \A i, j \in 1..L : s[i].op = "disable" /\ s[j].op = "enable" => i < j
    BY DEF Tidy, Alternate, s, L
  <2>3. ASSUME NEW i \in 1..(L - 1), t[i].op = "disable" PROVE g1 = 0
    <3>1. i + 1 \in 1..L /\ s[i + 1].op = "disable" BY <1>1, <2>3
    <3>2. s[1].op # "enable" BY <1>1, <1>2, <2>2, <3>1
    <3> QED BY <1>1, <2>2, <3>1, <3>2 DEF Settled, s
  <2>4. ASSUME NEW i \in 1..(L - 1), NEW j \in 1..(L - 1), t[i].op = "disable", t[j].op = "disable" PROVE i = j
    <3>1. i + 1 = j + 1 BY <1>1, <2>2, <2>4
    <3> QED BY <1>2, <3>1
  <2>5. ASSUME NEW i \in 1..(L - 1), NEW j \in 1..(L - 1), t[i].op = "disable", t[j].op = "enable" PROVE i < j
    <3>1. i + 1 < j + 1 BY <1>1, <2>2, <2>5
    <3> QED BY <1>2, <3>1
  <2> QED BY <1>1, <2>1, <2>3, <2>4, <2>5 DEF Alternate, t
<1>4. StaleGoes(m1)
  <2> SUFFICES ASSUME NEW i \in 1..(L - 1), t[i].op = "repair", t[i].gen # m1.gen
      PROVE  ~m1.listening /\ \A j \in 1..(L - 1) : j < i => t[j].op = "repair"
    BY <1>1 DEF StaleGoes, t
  <2>1. i + 1 \in 1..L /\ s[i + 1].op = "repair" /\ s[i + 1].gen # m.gen BY <1>1 DEF Settled
  <2>2. /\ ~m.listening
        /\ \A j \in 1..L : j < i + 1 => s[j].op = "repair" \/ (j = 1 /\ m.awaits = "unsubscribe")
    BY <2>1 DEF Tidy, StaleGoes, s, L
  <2>3. \A j \in 1..(L - 1) : j < i => j + 1 < i + 1 BY <1>2
  <2> QED BY <1>1, <1>2, <2>2, <2>3 DEF Settled
<1>5. Flagged(m1)
  <2> SUFFICES ASSUME m1.repairQueued
      PROVE  \E i \in 1..(L - 1) : t[i].op = "repair" /\ (i = 1 => m1.awaits = "nothing")
    BY <1>1 DEF Flagged, t
  <2>1. PICK i \in 1..L : s[i].op = "repair" /\ (i = 1 => m.awaits = "nothing")
    BY DEF Tidy, Flagged, Settled, s, L
  <2>2. i # 1 BY <1>1, <2>1 DEF Settled, Repairs, s
  <2> QED BY <1>1, <2>1, <2>2 DEF Settled
<1>6. ASSUME Mending(m), ~(Repairs(m) /\ Head(m.queue).gen = m.gen) PROVE Mending(m1)
  <2>1. PICK i \in 1..L : s[i].op = "repair" /\ s[i].gen = m.gen BY <1>6 DEF Mending, s, L
  <2>2. i # 1 BY <1>1, <1>6, <2>1 DEF Repairs, s
  <2>3. i - 1 \in 1..(L - 1) /\ t[i - 1].op = "repair" /\ t[i - 1].gen = m1.gen BY <1>1, <2>1, <2>2 DEF Settled
  <2>4. i - 1 \in 1..Len(m1.queue) /\ m1.queue[i - 1].op = "repair" /\ m1.queue[i - 1].gen = m1.gen
    BY <1>1, <2>3 DEF t
  <2> QED BY <2>4 DEF Mending
<1> QED BY <1>3, <1>4, <1>5, <1>6 DEF Tidy

(* A subscription is given up when nobody is counted: by the only disable, *)
(* with nothing but repairs behind it.                                     *)
LEMMA TidyLeft ==
  ASSUME NEW m \in Relay, NEW m1 \in Relay, NEW g \in Nat, Tidy(m, g), m.queue # <<>>, ~Repairs(m),
         EnablesIn(m.queue) = {}, m1.queue = m.queue, m1.refCount = m.refCount, ~m1.listening,
         m1.awaits = "unsubscribe", m1.repairQueued = m.repairQueued
  PROVE  Tidy(m1, g)
<1> DEFINE s == m.queue  L == Len(s)
<1>1. /\ s \in Seq(Step) /\ Head(s) = s[1] /\ 1 \in 1..L /\ DOMAIN s = 1..L
      /\ \A i \in 1..L : s[i] \in Step
  BY RelayTypes, FirstTaken
<1> HIDE DEF s, L
<1>2. \A i \in 1..L : s[i].op \in {"enable", "disable", "repair"} BY <1>1 DEF Step
<1>3. \A i \in 1..L : s[i].op # "enable" BY <1>1 DEF EnablesIn, s
<1>4. s[1].op = "disable" BY <1>1, <1>2, <1>3 DEF Repairs, s
<1>5. \A i \in 1..L : i # 1 => s[i].op = "repair" BY <1>1, <1>2, <1>3, <1>4 DEF Tidy, Alternate, s, L
<1>6. Alternate(m1, g) BY DEF Tidy, Alternate
<1>7. StaleGoes(m1) BY <1>5 DEF StaleGoes, s, L
<1>8. Flagged(m1)
  <2>1. ASSUME m1.repairQueued PROVE \E i \in 1..L : s[i].op = "repair" /\ i # 1
    BY <1>4, <2>1 DEF Tidy, Flagged, s, L
  <2> QED BY <2>1 DEF Flagged, s, L
<1> QED BY <1>6, <1>7, <1>8 DEF Tidy

-----------------------------------------------------------------------------
(* The report that the hook is gone brings it back.                        *)

(* A report is not ahead of tmux, and one that found no hook in place is   *)
(* of an earlier epoch than a hook that is.                                *)
LastTrue(s) == s.last # <<>> =>
  /\ s.last[1].epoch <= epoch
  /\ hook # "none" /\ s.last[1].uncovered = Windows => s.last[1].epoch < epoch

(* A subscription will report that the hook is gone; or a repair is on its *)
(* way, or was refused.                                                    *)
Mends(r) ==
  relay[r].subscribed /\ hook = "none" => sub[r].last # <<Value>> \/ Mending(relay[r]) \/ r \in failed

Coming == \A r \in Relays : Tidy(relay[r], granted[r]) /\ LastTrue(sub[r]) /\ Mends(r)

(* tmux stays as it is, or a hook is installed, in a new epoch if there    *)
(* was none.                                                               *)
Installed == hook' = "ours" /\ epoch' \in Nat /\ epoch <= epoch' /\ (hook = "none" => epoch < epoch')

LEMMA OneComing ==
  ASSUME Known, Coming, NEW r \in Relays, NEW m1 \in Relay, NEW g1 \in Nat, NEW s1,
         relay' = [relay EXCEPT ![r] = m1], granted' = [granted EXCEPT ![r] = g1], sub' = [sub EXCEPT ![r] = s1],
         UNCHANGED tmuxVars \/ Installed, failed \subseteq failed', s1.last \in {sub[r].last, <<>>}, Tidy(m1, g1),
         m1.subscribed /\ hook' = "none" => s1.last = <<>> \/ (relay[r].subscribed /\ s1.last = sub[r].last /\
           (Mending(relay[r]) => Mending(m1) \/ r \in failed'))
  PROVE  Coming'
<1>1. Types BY DEF Known, Base
<1>2. /\ relay'[r] = m1 /\ granted'[r] = g1 /\ sub'[r] = s1
      /\ \A x \in Relays : x # r => relay'[x] = relay[x] /\ granted'[x] = granted[x] /\ sub'[x] = sub[x]
  BY <1>1 DEF Types
<1>3. hook' = "none" => UNCHANGED <<hook, epoch, buffer>> /\ Value' = Value
  BY DEF tmuxVars, Installed, Value, Uncovered
<1>4. ASSUME NEW x \in Relays PROVE Tidy(relay[x], granted[x])'
  <2>1. Tidy(relay'[x], granted'[x])
    <3>1. CASE x = r BY <1>2, <3>1
    <3>2. CASE x # r
      <4>1. Tidy(relay[x], granted[x]) BY DEF Coming
      <4> QED BY <1>2, <3>2, <4>1
    <3> QED BY <3>1, <3>2
  <2> QED BY <2>1 DEF Tidy, Alternate, StaleGoes, Flagged
<1>5. ASSUME NEW x \in Relays PROVE LastTrue(sub[x])'
  <2>1. sub'[x].last \in {sub[x].last, <<>>} BY <1>2
  <2>2. LastTrue(sub[x]) BY DEF Coming
  <2>3. sub[x].last # <<>> => sub[x].last[1].epoch \in Nat
    <3>1. sub[x].last \in Seq(Reported) BY <1>1 DEF Types, Sub
    <3>2. sub[x].last # <<>> => sub[x].last[1] \in Reported BY <3>1
    <3> QED BY <3>2 DEF Reported
  <2>4. epoch \in Nat BY <1>1 DEF Types
  <2>5. CASE UNCHANGED tmuxVars BY <2>1, <2>2, <2>5 DEF LastTrue, tmuxVars
  <2>6. CASE Installed BY <2>1, <2>2, <2>3, <2>4, <2>6 DEF LastTrue, Installed
  <2> QED BY <2>5, <2>6
<1>6. ASSUME NEW x \in Relays, relay'[x].subscribed, hook' = "none"
      PROVE  sub'[x].last # <<Value'>> \/ Mending(relay'[x]) \/ x \in failed'
  <2>1. relay[x].subscribed => sub[x].last # <<Value>> \/ Mending(relay[x]) \/ x \in failed
    BY <1>3, <1>6 DEF Coming, Mends
  <2>2. CASE x = r
    <3>1. s1.last = <<>> \/ (relay[r].subscribed /\ s1.last = sub[r].last /\ (Mending(relay[r]) => Mending(m1) \/ r \in failed'))
      BY <1>2, <1>6, <2>2
    <3>2. CASE s1.last = <<>>
      <4>1. s1.last # <<Value'>> BY <3>2
      <4> QED BY <1>2, <2>2, <4>1
    <3>3. CASE relay[r].subscribed /\ s1.last = sub[r].last /\ (Mending(relay[r]) => Mending(m1) \/ r \in failed')
      <4>1. s1.last # <<Value>> \/ Mending(relay[r]) \/ r \in failed BY <2>1, <2>2, <3>3
      <4>2. s1.last # <<Value'>> \/ Mending(m1) \/ r \in failed' BY <1>3, <1>6, <3>3, <4>1
      <4> QED BY <1>2, <2>2, <4>2
    <3> QED BY <3>1, <3>2, <3>3
  <2>3. CASE x # r BY <1>2, <1>3, <1>6, <2>1, <2>3
  <2> QED BY <2>2, <2>3
<1>7. ASSUME NEW x \in Relays PROVE Mends(x)' BY <1>6 DEF Mends, Mending
<1> QED BY <1>4, <1>5, <1>7 DEF Coming

(* A step of the queue that goes on, or settles otherwise than by a repair *)
(* that finds no hook.                                                     *)
LEMMA StepComing ==
  ASSUME Known, Coming, NEW r \in Relays, NEW m1 \in Relay, NEW g1 \in Nat,
         relay' = [relay EXCEPT ![r] = m1], granted' = [granted EXCEPT ![r] = g1], sub' = sub,
         UNCHANGED tmuxVars \/ Installed, failed \subseteq failed',
         m1.subscribed => relay[r].subscribed,
         \/ GoesOn(relay[r], m1) /\ g1 = granted[r]
         \/ /\ Settled(relay[r], m1, granted[r], g1)
            /\ m1.subscribed /\ hook' = "none" /\ Repairs(relay[r]) => Head(relay[r].queue).gen # relay[r].gen \/ r \in failed'
  PROVE  Coming'
<1>1. /\ relay[r] \in Relay /\ granted[r] \in Nat /\ Tidy(relay[r], granted[r]) BY KnownHere DEF Coming
<1>2. sub' = [sub EXCEPT ![r] = sub[r]] BY Stays DEF Known
<1>3. /\ Tidy(m1, g1)
      /\ m1.subscribed /\ hook' = "none" => (Mending(relay[r]) => Mending(m1) \/ r \in failed')
  <2>1. CASE GoesOn(relay[r], m1) /\ g1 = granted[r] BY <1>1, <2>1, TidyGoesOn
  <2>2. CASE /\ Settled(relay[r], m1, granted[r], g1)
             /\ m1.subscribed /\ hook' = "none" /\ Repairs(relay[r]) => Head(relay[r].queue).gen # relay[r].gen \/ r \in failed'
    BY <1>1, <2>2, TidySettled
  <2> QED BY <2>1, <2>2
<1> QED BY <1>2, <1>3, OneComing

LEMMA CallsComing ==
  ASSUME Known, Coming, Listeners = 1, NEW r \in Relays, enable(r) \/ disable(r)
  PROVE  Coming'
<1> DEFINE m == relay[r]  g == granted[r]
<1>0. /\ m \in Relay /\ g \in Nat /\ Tidy(m, g) /\ Base /\ Own(m, asked[r], sub[r].on, g)
  BY KnownHere DEF Coming
<1>1. /\ m.refCount \in Int /\ m.queue \in Seq(Step) /\ m.refCount = g + Cardinality(EnablesIn(m.queue))
      /\ IsFiniteSet(EnablesIn(m.queue)) /\ Cardinality(EnablesIn(m.queue)) \in Nat
  BY <1>0, RelayTypes, EnablesFinite DEF Own, Counts
<1>2. ASSUME NEW k \in Int, NEW e \in Step, NEW g1 \in Nat, k <= 1, e.op # "repair",
             NEW s, s = Append(m.queue, e), relay' = [relay EXCEPT ![r] = [m EXCEPT !.refCount = k, !.queue = s]],
             granted' = [granted EXCEPT ![r] = g1],
             IF e.op = "disable" THEN g1 = 0 /\ ~Leaves(m.queue) /\ EnablesIn(m.queue) = {} ELSE g1 = g
      PROVE  Coming'
  <2>2. s \in Seq(Step) BY <1>1, <1>2, AtTheEnd
  <2> DEFINE m1 == [m EXCEPT !.refCount = k, !.queue = s]
  <2>3. /\ m1 \in Relay /\ m1.queue = s /\ m1.refCount = k /\ m1.gen = m.gen /\ m1.awaits = m.awaits
        /\ m1.listening = m.listening /\ m1.repairQueued = m.repairQueued /\ m1.subscribed = m.subscribed
    BY <1>0, <2>2 DEF Relay
  <2>4. relay' = [relay EXCEPT ![r] = m1] BY <1>2
  <2> HIDE DEF m1
  <2>5. Joined(m, m1, g, g1, e) BY <1>0, <1>2, <2>3 DEF Joined, Own, Phases
  <2>6. Tidy(m1, g1) /\ (Mending(m) => Mending(m1)) BY <1>0, <2>3, <2>5, TidyJoined
  <2>7. UNCHANGED <<tmuxVars, failed, sub>> BY DEF enable, disable
  <2>8. sub' = [sub EXCEPT ![r] = sub[r]] BY <1>0, <2>7, Stays
  <2>9. /\ UNCHANGED tmuxVars \/ Installed
        /\ failed \subseteq failed' /\ sub[r].last \in {sub[r].last, <<>>}
        /\ m1.subscribed /\ hook' = "none" => sub[r].last = <<>> \/ (m.subscribed /\ sub[r].last = sub[r].last /\
             (Mending(m) => Mending(m1) \/ r \in failed'))
    BY <2>3, <2>6, <2>7
  <2> QED BY <1>2, <2>3, <2>4, <2>6, <2>8, <2>9, OneComing
<1>3. CASE enable(r)
  <2> DEFINE e == [op |-> "enable", gen |-> 0]
  <2>1. e \in Step /\ e.op = "enable" BY DEF Step
  <2>2. relay' = [relay EXCEPT ![r] = [m EXCEPT !.refCount = m.refCount + 1, !.queue = Append(m.queue, e)]]
    BY <1>0, <1>3 DEF enable, Base, Types
  <2>3. m.refCount + 1 <= 1 /\ m.refCount + 1 \in Int BY <1>1, <1>3 DEF enable
  <2>4. granted' = [granted EXCEPT ![r] = g] BY <1>0, <1>3, Stays DEF enable
  <2>5. PICK s, k : s = Append(m.queue, e) /\ k = m.refCount + 1 OBVIOUS
  <2>6. relay' = [relay EXCEPT ![r] = [m EXCEPT !.refCount = k, !.queue = s]] BY <2>2, <2>5
  <2>7. k \in Int /\ k <= 1 /\ e.op # "repair" BY <2>1, <2>3, <2>5
  <2>8. IF e.op = "disable" THEN g = 0 /\ ~Leaves(m.queue) /\ EnablesIn(m.queue) = {} ELSE g = g BY <2>1
  <2>9. e \in Step /\ g \in Nat /\ s = Append(m.queue, e) BY <1>0, <2>1, <2>5
  <2> HIDE DEF e, m, g
  <2> QED BY <1>2, <2>4, <2>6, <2>7, <2>8, <2>9
<1>4. CASE disable(r)
  <2> DEFINE e == [op |-> "disable", gen |-> 0]
  <2>1. e \in Step /\ e.op = "disable" BY DEF Step
  <2>2. relay' = [relay EXCEPT ![r] = [m EXCEPT !.refCount = m.refCount - 1, !.queue = Append(m.queue, e)]]
    BY <1>0, <1>4 DEF disable, Base, Types
  <2>3. g > 0 /\ granted' = [granted EXCEPT ![r] = g - 1] BY <1>4 DEF disable
  <2>4. m.refCount <= 1 BY <1>0 DEF Tidy, Alternate
  <2>5. g = 1 /\ Cardinality(EnablesIn(m.queue)) = 0 /\ m.refCount - 1 <= 1 /\ m.refCount - 1 \in Int
    BY <1>0, <1>1, <2>3, <2>4
  <2>6. EnablesIn(m.queue) = {} BY <1>1, <2>5, FS_EmptySet
  <2>7. ~Leaves(m.queue) BY <1>0, <1>1, <2>5 DEF Tidy, Alternate, Leaves
  <2>8. g - 1 \in Nat /\ g - 1 = 0 BY <2>5
  <2>9. PICK s, k, g1 : s = Append(m.queue, e) /\ k = m.refCount - 1 /\ g1 = g - 1 OBVIOUS
  <2>10. relay' = [relay EXCEPT ![r] = [m EXCEPT !.refCount = k, !.queue = s]] BY <2>2, <2>9
  <2>11. k \in Int /\ k <= 1 /\ e.op # "repair" BY <2>1, <2>5, <2>9
  <2>12. IF e.op = "disable" THEN g1 = 0 /\ ~Leaves(m.queue) /\ EnablesIn(m.queue) = {} ELSE g1 = g
    BY <2>1, <2>6, <2>7, <2>8, <2>9
  <2>13. e \in Step /\ g1 \in Nat /\ s = Append(m.queue, e) /\ granted' = [granted EXCEPT ![r] = g1]
    BY <2>1, <2>3, <2>8, <2>9
  <2> HIDE DEF e, m, g
  <2> QED BY <1>2, <2>10, <2>11, <2>12, <2>13
<1> QED BY <1>3, <1>4

LEMMA BeginComing ==
  ASSUME Known, Coming, NEW r \in Relays, Begin(r)
  PROVE  Coming'
<1> DEFINE m == relay[r]  g == granted[r]  op == Head(m.queue).op
<1>0. /\ m \in Relay /\ g \in Nat /\ Tidy(m, g) /\ Base /\ Own(m, asked[r], sub[r].on, g)
      /\ m.queue # <<>> /\ m.awaits = "nothing" /\ m.queue \in Seq(Step) /\ m.gen \in Nat /\ m.refCount \in Int
  BY KnownHere, RelayTypes DEF Coming, Begin
<1>1. UNCHANGED <<tmuxVars, failed, sub>> BY DEF Begin
<1>2. op = "repair" <=> Repairs(m) BY DEF Repairs
<1>3. CASE op # "repair" /\ Await(r, m, "show") /\ UNCHANGED granted
  <2> DEFINE m1 == [m EXCEPT !.awaits = "show"]
  <2>1. /\ m1 \in Relay /\ m1.queue = m.queue /\ m1.refCount = m.refCount /\ m1.gen = m.gen
        /\ m1.listening = m.listening /\ m1.repairQueued = m.repairQueued /\ m1.subscribed = m.subscribed
    BY <1>0 DEF Relay
  <2>2. relay' = [relay EXCEPT ![r] = m1] BY <1>3 DEF Await
  <2> HIDE DEF m1
  <2>3. GoesOn(m, m1) BY <1>0, <1>2, <1>3, <2>1 DEF GoesOn
  <2>4. granted' = [granted EXCEPT ![r] = g] BY <1>0, <1>3, Stays
  <2> QED BY <1>0, <1>1, <2>1, <2>2, <2>3, <2>4, StepComing
<1>4. CASE /\ op # "repair" /\ ~Wanted(m) /\ UNCHANGED granted
           /\ Await(r, [m EXCEPT !.subscribed = FALSE, !.listening = FALSE, !.gen = @ + 1], "unsubscribe")
  <2> DEFINE n(k) == [[m EXCEPT !.subscribed = FALSE, !.listening = FALSE, !.gen = k] EXCEPT !.awaits = "unsubscribe"]
  <2>1. ASSUME NEW k \in Nat
        PROVE  /\ n(k) \in Relay /\ n(k).queue = m.queue /\ n(k).refCount = m.refCount /\ ~n(k).subscribed
               /\ ~n(k).listening /\ n(k).repairQueued = m.repairQueued /\ n(k).awaits = "unsubscribe"
    BY <1>0 DEF Relay
  <2>2. relay' = [relay EXCEPT ![r] = n(m.gen + 1)] /\ m.gen + 1 \in Nat BY <1>0, <1>4 DEF Await
  <2> HIDE DEF n
  <2>3. EnablesIn(m.queue) = {}
    <3>1. m.refCount = g + Cardinality(EnablesIn(m.queue)) BY <1>0 DEF Own, Counts
    <3>2. IsFiniteSet(EnablesIn(m.queue)) /\ Cardinality(EnablesIn(m.queue)) \in Nat BY <1>0, EnablesFinite
    <3>3. Cardinality(EnablesIn(m.queue)) = 0 BY <1>0, <1>4, <3>1, <3>2 DEF Wanted
    <3> QED BY <3>2, <3>3, FS_EmptySet
  <2>4. PICK m1 : m1 = n(m.gen + 1) OBVIOUS
  <2>5. Tidy(m1, g) BY <1>0, <1>2, <1>4, <2>1, <2>2, <2>3, <2>4, TidyLeft
  <2>6. granted' = [granted EXCEPT ![r] = g] /\ sub' = [sub EXCEPT ![r] = sub[r]] BY <1>0, <1>1, <1>4, Stays
  <2> QED BY <1>0, <1>1, <2>1, <2>2, <2>4, <2>5, <2>6, OneComing
<1>5. CASE /\ op # "repair" /\ relay' = [relay EXCEPT ![r] = Done(m)]
           /\ IF op = "enable" THEN Resolves(r) ELSE UNCHANGED granted
  <2> DEFINE m1 == Done(m)  g1 == IF op = "enable" THEN g + 1 ELSE g
  <2>1. /\ m1 \in Relay /\ m1.queue = Tail(m.queue) /\ m1.refCount = m.refCount /\ m1.gen = m.gen
        /\ m1.awaits = "nothing" /\ m1.listening = m.listening /\ m1.repairQueued = m.repairQueued
        /\ m1.subscribed = m.subscribed
    <3>1. m1 \in Relay BY <1>0, RelayTypes
    <3> QED BY <1>0, <3>1 DEF Relay, Done
  <2>2. granted' = [granted EXCEPT ![r] = g1] BY <1>0, <1>5, Stays DEF Resolves
  <2>3. g1 \in Nat /\ (g1 = g \/ Head(m.queue).op = "enable") BY <1>0
  <2>4. relay' = [relay EXCEPT ![r] = m1] BY <1>5
  <2> HIDE DEF m1, g1
  <2>5. Settled(m, m1, g, g1) /\ ~Repairs(m) BY <1>0, <1>2, <1>5, <2>1, <2>3 DEF Settled
  <2> QED BY <1>1, <2>1, <2>2, <2>3, <2>4, <2>5, StepComing
<1>6. CASE op = "repair" /\ UNCHANGED granted /\ Await(r, Unqueued(m), "show")
  <2> DEFINE m1 == [Unqueued(m) EXCEPT !.awaits = "show"]
  <2>1. /\ m1 \in Relay /\ m1.queue = m.queue /\ m1.refCount = m.refCount /\ m1.gen = m.gen
        /\ m1.listening = m.listening /\ ~m1.repairQueued /\ m1.subscribed = m.subscribed
    BY <1>0 DEF Relay, Unqueued
  <2>2. relay' = [relay EXCEPT ![r] = m1] BY <1>6 DEF Await
  <2> HIDE DEF m1
  <2>3. GoesOn(m, m1) BY <1>0, <2>1 DEF GoesOn
  <2>4. granted' = [granted EXCEPT ![r] = g] BY <1>0, <1>6, Stays
  <2> QED BY <1>0, <1>1, <2>1, <2>2, <2>3, <2>4, StepComing
<1>7. CASE op = "repair" /\ UNCHANGED granted /\ ~Current(m) /\ relay' = [relay EXCEPT ![r] = Done(Unqueued(m))]
  <2> DEFINE m1 == Done(Unqueued(m))
  <2>1. /\ m1.queue = Tail(m.queue) /\ m1.refCount = m.refCount /\ m1.gen = m.gen /\ m1.awaits = "nothing"
        /\ m1.listening = m.listening /\ ~m1.repairQueued /\ m1.subscribed = m.subscribed
    BY <1>0 DEF Relay, Done, Unqueued
  <2>2. m1 \in Relay
    <3>1. Unqueued(m) \in Relay /\ Unqueued(m).queue = m.queue BY <1>0, RelayTypes DEF Unqueued, Relay
    <3> QED BY <1>0, <3>1, RelayTypes
  <2>3. relay' = [relay EXCEPT ![r] = m1] BY <1>7
  <2> HIDE DEF m1
  <2>4. Settled(m, m1, g, g) /\ Head(m.queue).gen # m.gen BY <1>0, <1>7, <2>1 DEF Settled, Current
  <2>5. granted' = [granted EXCEPT ![r] = g] BY <1>0, <1>7, Stays
  <2> QED BY <1>0, <1>1, <2>1, <2>2, <2>3, <2>4, <2>5, StepComing
<1> QED BY <1>3, <1>4, <1>5, <1>6, <1>7 DEF Begin

LEMMA DoneOf ==
  ASSUME NEW m \in Relay, m.queue # <<>>
  PROVE  /\ Done(m) \in Relay /\ Done(m).queue = Tail(m.queue) /\ Done(m).refCount = m.refCount
         /\ Done(m).gen = m.gen /\ Done(m).awaits = "nothing" /\ Done(m).listening = m.listening
         /\ Done(m).repairQueued = m.repairQueued /\ Done(m).subscribed = m.subscribed
<1>1. Done(m) \in Relay BY RelayTypes
<1> QED BY <1>1 DEF Relay, Done

(* The step asks for something more.                                       *)
LEMMA AwaitComing ==
  ASSUME Known, Coming, NEW r \in Relays, NEW c, Await(r, relay[r], c),
         c \in {"install", "baseline"}, relay[r].awaits \notin {"nothing", "unsubscribe"},
         UNCHANGED <<granted, failed, sub>>, UNCHANGED tmuxVars \/ Installed
  PROVE  Coming'
<1> DEFINE m == relay[r]  m1 == [m EXCEPT !.awaits = c]
<1>0. m \in Relay /\ granted[r] \in Nat /\ Base BY KnownHere
<1>1. /\ m1 \in Relay /\ m1.queue = m.queue /\ m1.refCount = m.refCount /\ m1.gen = m.gen
      /\ m1.listening = m.listening /\ m1.repairQueued = m.repairQueued /\ m1.subscribed = m.subscribed
  BY <1>0 DEF Relay
<1>2. relay' = [relay EXCEPT ![r] = m1] BY DEF Await
<1> HIDE DEF m1
<1>3. GoesOn(m, m1) BY <1>1 DEF GoesOn
<1>4. granted' = [granted EXCEPT ![r] = granted[r]] BY <1>0, Stays
<1> QED BY <1>0, <1>1, <1>2, <1>3, <1>4, StepComing

(* A repair has found or installed a hook.                                 *)
LEMMA RepairComing ==
  ASSUME Known, Coming, NEW r \in Relays, relay' = [relay EXCEPT ![r] = Done(relay[r])],
         relay[r].awaits # "nothing", UNCHANGED <<granted, failed, sub>>, UNCHANGED tmuxVars \/ Installed, hook' # "none"
  PROVE  Coming'
<1> DEFINE m == relay[r]  m1 == Done(m)
<1>0. m \in Relay /\ granted[r] \in Nat /\ Base /\ m.queue # <<>> BY KnownHere DEF Own, Phases
<1>1. /\ m1 \in Relay /\ m1.queue = Tail(m.queue) /\ m1.refCount = m.refCount /\ m1.gen = m.gen /\ m1.awaits = "nothing"
      /\ m1.listening = m.listening /\ m1.repairQueued = m.repairQueued /\ m1.subscribed = m.subscribed
  BY <1>0, DoneOf
<1>2. relay' = [relay EXCEPT ![r] = m1] OBVIOUS
<1> HIDE DEF m1
<1>3. m1.refCount <= m.refCount BY <1>0, <1>1, RelayTypes
<1>4. Settled(m, m1, granted[r], granted[r]) BY <1>0, <1>1, <1>3 DEF Settled
<1>5. granted' = [granted EXCEPT ![r] = granted[r]] BY <1>0, Stays
<1>6. /\ failed \subseteq failed' /\ sub' = sub /\ (m1.subscribed => m.subscribed)
      /\ m1.subscribed /\ hook' = "none" /\ Repairs(m) => Head(m.queue).gen # m.gen \/ r \in failed'
  BY <1>1
<1> QED BY <1>0, <1>1, <1>2, <1>4, <1>5, <1>6, StepComing

LEMMA AnswerComing ==
  ASSUME Known, Coming, NEW r \in Relays, ShowHooks(r) \/ Install(r) \/ InstallAndBump(r)
  PROVE  Coming'
<1> DEFINE m == relay[r]  q == asked[r]
<1>0. /\ m \in Relay /\ q \in Seq(Command) /\ Base /\ Replaces(q) /\ epoch \in Nat
      /\ q # <<>> /\ Head(q).c \in {"show", "install", "install and bump"}
  BY KnownHere DEF Informed, Base, Types, ShowHooks, Install, InstallAndBump, Runs
<1>1. Head(q).c # "fetch" BY <1>0
<1>2. m.awaits \in {"show", "install"}
  <2>1. Head(q).c \in Answers(m.awaits) BY <1>0, <1>1, Running
  <2> QED BY <1>0, <2>1 DEF Answers, Relay
<1>3. CASE ShowHooks(r)
  <2>1. UNCHANGED <<granted, failed, sub>> /\ UNCHANGED tmuxVars /\ hook' = hook BY <1>3 DEF ShowHooks, tmuxVars
  <2>2. CASE Await(r, relay[r], "install") BY <1>2, <2>1, <2>2, AwaitComing
  <2>3. CASE hook # "none" /\ relay' = [relay EXCEPT ![r] = Done(@)] BY <1>2, <2>1, <2>3, RepairComing
  <2> QED BY <1>3, <2>2, <2>3 DEF ShowHooks
<1>4. CASE Install(r) \/ InstallAndBump(r)
  <2>1. Installed
    <3>1. CASE Install(r)
      <4>1. Head(q).c = "install" /\ Head(q) = q[1] /\ 1 \in 1..Len(q) BY <1>0, <3>1, FirstTaken DEF Install, Runs
      <4>2. hook # "none" BY <1>0, <4>1 DEF Replaces
      <4>3. hook' = "ours" BY <3>1 DEF Install, HookInstalled
      <4>4. epoch' = epoch BY <3>1 DEF Install
      <4>5. epoch \in Nat BY <1>0
      <4> QED BY <4>2, <4>3, <4>4, <4>5 DEF Installed
    <3>2. CASE InstallAndBump(r)
      <4>1. hook' = "ours" BY <3>2 DEF InstallAndBump, HookInstalled
      <4>2. epoch' = epoch + 1 BY <3>2 DEF InstallAndBump
      <4>3. epoch \in Nat BY <1>0
      <4>4. epoch + 1 \in Nat /\ epoch <= epoch + 1 /\ epoch < epoch + 1 BY <4>3
      <4> QED BY <4>1, <4>2, <4>4 DEF Installed
    <3> QED BY <1>4, <3>1, <3>2
  <2>2. HookInstalled(r) BY <1>4 DEF Install, InstallAndBump
  <2>3. UNCHANGED <<granted, failed, sub>> /\ hook' # "none" BY <2>2 DEF HookInstalled
  <2>4. CASE Await(r, relay[r], "baseline") BY <1>2, <2>1, <2>3, <2>4, AwaitComing
  <2>5. CASE relay' = [relay EXCEPT ![r] = Done(@)] BY <1>2, <2>1, <2>3, <2>5, RepairComing
  <2> QED BY <2>2, <2>4, <2>5 DEF HookInstalled
<1> QED BY <1>3, <1>4

LEMMA BaselineComing ==
  ASSUME Known, Coming, NEW r \in Relays, ReadBaseline(r)
  PROVE  Coming'
<1> DEFINE m == relay[r]
<1>0. /\ m \in Relay /\ granted[r] \in Nat /\ Base /\ Own(m, asked[r], sub[r].on, granted[r]) BY KnownHere
<1>1. asked[r] # <<>> /\ Head(asked[r]).c = "baseline" BY DEF ReadBaseline, Runs
<1>2. m.awaits = "baseline" BY <1>0, <1>1, Running DEF Answers, Relay
<1> DEFINE m1 == [Baseline(m) EXCEPT !.awaits = "subscribe"]
<1>3. m1 \in Relay
  <2>1. seq \in Nat /\ epoch \in Nat BY <1>0 DEF Base, Types
  <2>2. ASSUME NEW i \in Nat, NEW j \in Nat
        PROVE [[m EXCEPT !.lastSeq = i, !.epoch = j, !.reported = {}, !.listening = TRUE] EXCEPT !.awaits = "subscribe"]
              \in Relay
    BY <1>0 DEF Relay
  <2> QED BY <2>1, <2>2 DEF Baseline
<1>4. /\ m1.queue = m.queue /\ m1.refCount = m.refCount /\ m1.gen = m.gen /\ m1.repairQueued = m.repairQueued
      /\ m1.subscribed = m.subscribed
  BY <1>0 DEF Relay, Baseline
<1>5. relay' = [relay EXCEPT ![r] = m1] BY DEF Await, ReadBaseline
<1> HIDE DEF m1
<1>6. ~Repairs(m) BY <1>0, <1>2 DEF Own, Phases, Joins
<1>7. GoesOn(m, m1) BY <1>2, <1>4, <1>6 DEF GoesOn
<1>8. granted' = [granted EXCEPT ![r] = granted[r]] BY <1>0, Stays DEF ReadBaseline
<1>9. UNCHANGED <<tmuxVars, failed, sub>> BY DEF ReadBaseline
<1> QED BY <1>0, <1>3, <1>4, <1>5, <1>7, <1>8, <1>9, StepComing

LEMMA SubscribeComing ==
  ASSUME Known, Coming, NEW r \in Relays, Subscribe(r)
  PROVE  Coming'
<1> DEFINE m == relay[r]  g == granted[r]
           m1 == [Done(m) EXCEPT !.subscribed = TRUE]
           s1 == [on |-> TRUE, last |-> <<>>]
           g1 == IF For(r) = "enable" THEN g + 1 ELSE g
<1>0. m \in Relay /\ g \in Nat /\ Base /\ Own(m, asked[r], sub[r].on, g) /\ Tidy(m, g) BY KnownHere DEF Coming
<1>1. asked[r] # <<>> /\ Head(asked[r]).c = "subscribe" BY DEF Subscribe, Runs
<1>2. m.awaits = "subscribe" /\ m.queue # <<>> BY <1>0, <1>1, Running DEF Answers, Relay
<1>3. /\ m1 \in Relay /\ m1.queue = Tail(m.queue) /\ m1.refCount = m.refCount /\ m1.awaits = "nothing"
      /\ m1.gen = m.gen /\ m1.repairQueued = m.repairQueued /\ m1.listening = m.listening
  <2>1. Done(m) \in Relay BY <1>0, <1>2, RelayTypes
  <2> QED BY <1>0, <1>2, <2>1, DoneOf DEF Relay
<1>4. g1 \in Nat /\ (g1 = g \/ Head(m.queue).op = "enable") BY <1>0 DEF For
<1>5. /\ relay' = [relay EXCEPT ![r] = m1] /\ granted' = [granted EXCEPT ![r] = g1]
      /\ sub' = [sub EXCEPT ![r] = s1] /\ s1.last = <<>> /\ UNCHANGED <<tmuxVars, failed>>
  BY <1>0, Stays DEF Subscribe, Resolves
<1> HIDE DEF m1, g1, s1
<1>6. m1.refCount <= m.refCount BY <1>0, <1>3, RelayTypes
<1>7. Settled(m, m1, g, g1) BY <1>2, <1>3, <1>4, <1>6 DEF Settled
<1>8. Tidy(m1, g1) BY <1>0, <1>3, <1>4, <1>7, TidySettled
<1>9. failed \subseteq failed' /\ s1.last \in {sub[r].last, <<>>} BY <1>5
<1> QED BY <1>3, <1>4, <1>5, <1>8, <1>9, OneComing

LEMMA UnsubscribeComing ==
  ASSUME Known, Coming, NEW r \in Relays, Unsubscribe(r)
  PROVE  Coming'
<1> DEFINE m == relay[r]  g == granted[r]  m1 == Done(m)  s1 == [sub[r] EXCEPT !.on = FALSE]
<1>0. /\ m \in Relay /\ g \in Nat /\ Base /\ Own(m, asked[r], sub[r].on, g) /\ Tidy(m, g) /\ sub[r] \in Sub
  BY KnownHere DEF Coming
<1>1. asked[r] # <<>> /\ Head(asked[r]).c = "unsubscribe" BY DEF Unsubscribe, Runs
<1>2. m.awaits = "unsubscribe" /\ m.queue # <<>> BY <1>0, <1>1, Running DEF Answers, Relay
<1>3. /\ m1 \in Relay /\ m1.queue = Tail(m.queue) /\ m1.refCount = m.refCount /\ m1.awaits = "nothing"
      /\ m1.gen = m.gen /\ m1.repairQueued = m.repairQueued /\ m1.listening = m.listening
      /\ m1.subscribed = m.subscribed
  BY <1>0, <1>2, DoneOf
<1>4. ~m.subscribed BY <1>0, <1>2 DEF Own, Phases
<1>5. /\ relay' = [relay EXCEPT ![r] = m1] /\ granted' = [granted EXCEPT ![r] = g]
      /\ sub' = [sub EXCEPT ![r] = s1] /\ s1.last = sub[r].last /\ UNCHANGED <<tmuxVars, failed>>
  <2>1. sub' = [sub EXCEPT ![r] = s1] BY <1>0 DEF Unsubscribe, Base, Types
  <2>2. s1.last = sub[r].last BY <1>0 DEF Sub
  <2>3. granted' = [granted EXCEPT ![r] = g] BY <1>0, Stays DEF Unsubscribe
  <2> QED BY <2>1, <2>2, <2>3 DEF Unsubscribe
<1> HIDE DEF m1, s1
<1>6. m1.refCount <= m.refCount BY <1>0, <1>3, RelayTypes
<1>7. Settled(m, m1, g, g) BY <1>2, <1>3, <1>6 DEF Settled
<1>8. Tidy(m1, g) BY <1>0, <1>3, <1>7, TidySettled
<1>9. failed \subseteq failed' /\ s1.last \in {sub[r].last, <<>>} BY <1>5
<1> QED BY <1>0, <1>3, <1>4, <1>5, <1>8, <1>9, OneComing

LEMMA FetchedComing ==
  ASSUME Known, Coming, NEW r \in Relays, Fetched(r)
  PROVE  Coming'
<1> DEFINE m == relay[r]
<1>0. m \in Relay /\ granted[r] \in Nat /\ Base BY KnownHere
<1>1. UNCHANGED <<tmuxVars, failed, sub, relay, granted>> BY DEF Fetched
<1>2. GoesOn(m, m) BY DEF GoesOn
<1>3. relay' = [relay EXCEPT ![r] = m] /\ granted' = [granted EXCEPT ![r] = granted[r]] BY <1>0, <1>1, Stays
<1> QED BY <1>0, <1>1, <1>2, <1>3, StepComing

LEMMA RefuseComing ==
  ASSUME Known, Coming, NEW r \in Relays, Refuse(r)
  PROVE  Coming'
<1> DEFINE m == relay[r]  q == asked[r]  g == granted[r]
           m1 == IF m.awaits = "subscribe" THEN [Rejected(m) EXCEPT !.listening = FALSE] ELSE Rejected(m)
<1>1. CASE Head(q).c = "fetch" BY <1>1, FetchedComing DEF Refuse
<1>2. CASE Head(q).c # "fetch"
  <2>0. m \in Relay /\ g \in Nat /\ Base /\ q # <<>> BY KnownHere DEF Refuse
  <2>1. m.awaits # "nothing" /\ m.queue # <<>> BY <1>2, <2>0, Running
  <2>2. m.refCount \in Int BY <2>0, RelayTypes
  <2>3. /\ Rejected(m) \in Relay /\ Rejected(m).queue = Tail(m.queue) /\ Rejected(m).awaits = "nothing"
        /\ Rejected(m).subscribed = m.subscribed /\ Rejected(m).listening = m.listening /\ Rejected(m).gen = m.gen
        /\ Rejected(m).repairQueued = m.repairQueued /\ Rejected(m).refCount <= m.refCount
    <3>1. CASE Head(m.queue).op = "enable"
      <4>1. Rejected(m) = [Done(m) EXCEPT !.refCount = @ - 1] BY <3>1 DEF Rejected
      <4>2. Rejected(m) \in Relay BY <2>0, <2>1, RelayTypes
      <4>3. PICK n \in Relay : n = Done(m) BY <2>0, <2>1, RelayTypes
      <4>4. /\ n.queue = Tail(m.queue) /\ n.awaits = "nothing" /\ n.subscribed = m.subscribed
            /\ n.listening = m.listening /\ n.gen = m.gen /\ n.repairQueued = m.repairQueued
            /\ n.refCount = m.refCount
        BY <2>0, <2>1, <4>3, DoneOf
      <4>5. Rejected(m) = [n EXCEPT !.refCount = n.refCount - 1] BY <4>1, <4>3
      <4>6. /\ Rejected(m).queue = n.queue /\ Rejected(m).awaits = n.awaits
            /\ Rejected(m).subscribed = n.subscribed /\ Rejected(m).listening = n.listening
            /\ Rejected(m).gen = n.gen /\ Rejected(m).repairQueued = n.repairQueued
            /\ Rejected(m).refCount = n.refCount - 1
        BY <4>3, <4>5 DEF Relay
      <4> QED BY <2>2, <4>2, <4>4, <4>6
    <3>2. CASE Head(m.queue).op # "enable"
      <4>1. Rejected(m) = Done(m) BY <3>2 DEF Rejected
      <4> QED BY <2>0, <2>1, <2>2, <4>1, DoneOf
    <3> QED BY <3>1, <3>2
  <2>4. /\ m1 \in Relay /\ m1.queue = Tail(m.queue) /\ m1.awaits = "nothing" /\ m1.subscribed = m.subscribed
        /\ m1.listening => m.listening
        /\ m1.gen = m.gen /\ m1.repairQueued = m.repairQueued /\ m1.refCount <= m.refCount
    BY <2>3 DEF Relay
  <2>5. relay' = [relay EXCEPT ![r] = m1] BY <1>2 DEF Refuse
  <2>6. /\ UNCHANGED <<tmuxVars, sub, granted>> /\ failed \subseteq failed' /\ (Repairs(m) => r \in failed')
    BY <1>2 DEF Refuse, Repairs, For
  <2>7. granted' = [granted EXCEPT ![r] = g] BY <2>0, <2>6, Stays
  <2> HIDE DEF m1
  <2>8. Settled(m, m1, g, g) BY <2>1, <2>4 DEF Settled
  <2> QED BY <2>0, <2>4, <2>5, <2>6, <2>7, <2>8, StepComing
<1> QED BY <1>1, <1>2

(* A report that no hook is in place is answered by a repair, or finds one *)
(* of this subscription waiting.                                           *)
LEMMA ReportMends ==
  ASSUME Base, Shadowed # Windows, NEW r \in Relays, Report(r), relay[r].listening, Tidy(relay[r], granted[r])
  PROVE  \E m1 \in Relay :
           /\ relay' = [relay EXCEPT ![r] = m1]
           /\ m1.subscribed = relay[r].subscribed
           /\ Tidy(m1, granted[r])
           /\ hook = "none" => Mending(m1)
<1> DEFINE m == relay[r]  g == granted[r]  e == [op |-> "repair", gen |-> m.gen]
<1>0. m \in Relay /\ g \in Nat /\ m.queue \in Seq(Step) /\ Own(m, asked[r], sub[r].on, g) /\ e \in Step
  <2>1. m \in Relay /\ g \in Nat /\ m.queue \in Seq(Step) /\ Own(m, asked[r], sub[r].on, g) BY Here, RelayTypes
  <2> QED BY <2>1, RelayTypes DEF Step
<1>1. PICK m1 \in Relay, f \in Seq(Command) :
        /\ relay' = [relay EXCEPT ![r] = m1]
        /\ m1.gen = m.gen /\ m1.refCount = m.refCount /\ m1.awaits = m.awaits
        /\ m1.subscribed = m.subscribed /\ m1.listening = m.listening
        /\ \/ /\ m1.queue = m.queue /\ m1.repairQueued = m.repairQueued
              /\ ~NeedsRepair(m, Uncovered)
           \/ /\ m1.queue = Append(m.queue, e)
              /\ m1.repairQueued /\ NeedsRepair(m, Uncovered)
  BY DeliveryOf
<1>2. CASE m1.queue = Append(m.queue, e)
  <2>1. Joined(m, m1, g, g, e) BY <1>0, <1>1, <1>2 DEF Joined, Own, Phases, Tidy, Alternate
  <2>2. e.op = "repair" OBVIOUS
  <2> HIDE DEF m, g, e
  <2>3. Tidy(m, g) BY DEF m, g
  <2>4. Tidy(m1, g) /\ Mending(m1) BY <1>0, <2>1, <2>2, <2>3, TidyJoined
  <2> QED BY <1>1, <2>4 DEF m, g
<1>3. CASE m1.queue = m.queue /\ m1.repairQueued = m.repairQueued /\ ~NeedsRepair(m, Uncovered)
  <2>1. GoesOn(m, m1) BY <1>1, <1>3 DEF GoesOn
  <2>2. Tidy(m1, g) /\ (Mending(m) => Mending(m1)) BY <1>0, <2>1, TidyGoesOn
  <2>3. ASSUME hook = "none" PROVE Mending(m)
    <3>1. Uncovered = Windows /\ Windows # {} BY <2>3, LayoutAssumption DEF Uncovered
    <3>2. m.repairQueued BY <1>3, <3>1 DEF NeedsRepair
    <3>3. PICK i \in 1..Len(m.queue) : m.queue[i].op = "repair" BY <3>2 DEF Tidy, Flagged
    <3>4. m.queue[i].gen = m.gen BY <3>3 DEF Tidy, StaleGoes
    <3> QED BY <3>3, <3>4 DEF Mending
  <2> QED BY <1>1, <2>2, <2>3
<1> QED BY <1>1, <1>2, <1>3

LEMMA ReportComing ==
  ASSUME Known, Coming, Shadowed # Windows, NEW r \in Relays, Report(r)
  PROVE  Coming'
<1> DEFINE s1 == [sub[r] EXCEPT !.last = <<Value>>]
<1>0. /\ Base /\ Types /\ relay[r] \in Relay /\ Tidy(relay[r], granted[r])
      /\ Own(relay[r], asked[r], sub[r].on, granted[r])
  BY KnownHere DEF Coming, Base
<1>1. UNCHANGED <<hook, epoch, buffer, granted, failed>> BY DEF Report, tmuxVars
<1>2. sub' = [sub EXCEPT ![r] = s1] /\ s1.last = <<Value>>
  <2>1. sub' = [sub EXCEPT ![r] = s1] BY <1>0 DEF Report, Types
  <2>2. sub[r] \in Sub BY <1>0 DEF Types
  <2> QED BY <2>1, <2>2 DEF Sub
<1> HIDE DEF s1
<1>3. PICK m1 \in Relay :
        /\ relay' = [relay EXCEPT ![r] = m1] /\ Tidy(m1, granted[r])
        /\ hook = "none" /\ m1.subscribed => Mending(m1)
  <2>1. CASE relay[r].listening
    <3>1. PICK m2 \in Relay :
            /\ relay' = [relay EXCEPT ![r] = m2] /\ m2.subscribed = relay[r].subscribed
            /\ Tidy(m2, granted[r]) /\ (hook = "none" => Mending(m2))
      BY <1>0, <2>1, ReportMends
    <3> QED BY <3>1
  <2>2. CASE ~relay[r].listening
    <3>1. ~relay[r].subscribed BY <1>0, <2>2 DEF Own, Phases
    <3>2. relay' = relay BY <2>2 DEF Report
    <3>3. relay' = [relay EXCEPT ![r] = relay[r]] BY <1>0, <3>2, Stays
    <3> QED BY <1>0, <3>1, <3>3
  <2> QED BY <2>1, <2>2
<1>4. /\ relay'[r] = m1 /\ sub'[r] = s1 /\ granted' = granted
      /\ \A x \in Relays : x # r => relay'[x] = relay[x] /\ sub'[x] = sub[x]
  BY <1>0, <1>1, <1>2, <1>3 DEF Types
<1>5. ASSUME NEW x \in Relays PROVE Tidy(relay[x], granted[x])'
  <2>1. Tidy(relay'[x], granted'[x])
    <3>1. CASE x = r BY <1>3, <1>4, <3>1
    <3>2. CASE x # r
      <4>1. Tidy(relay[x], granted[x]) BY DEF Coming
      <4> QED BY <1>4, <3>2, <4>1
    <3> QED BY <3>1, <3>2
  <2> QED BY <2>1 DEF Tidy, Alternate, StaleGoes, Flagged
<1>6. ASSUME NEW x \in Relays PROVE LastTrue(sub[x])'
  <2>1. CASE x = r
    <3>1. sub'[x].last = <<Value>> BY <1>2, <1>4, <2>1
    <3>2. /\ Value.epoch = epoch /\ Value.uncovered = Uncovered /\ epoch \in Nat /\ epoch <= epoch
          /\ hook # "none" => Uncovered # Windows
      BY <1>0 DEF Value, Uncovered, Types
    <3> QED BY <1>1, <3>1, <3>2 DEF LastTrue
  <2>2. CASE x # r
    <3>1. LastTrue(sub[x]) BY DEF Coming
    <3> QED BY <1>1, <1>4, <2>2, <3>1 DEF LastTrue
  <2> QED BY <2>1, <2>2
<1>7. ASSUME NEW x \in Relays, relay'[x].subscribed, hook' = "none"
      PROVE  sub'[x].last # <<Value'>> \/ Mending(relay'[x]) \/ x \in failed'
  <2>1. CASE x = r BY <1>1, <1>3, <1>4, <1>7, <2>1
  <2>2. CASE x # r
    <3>1. Value' = Value BY <1>1 DEF Value, Uncovered
    <3>2. sub[x].last # <<Value>> \/ Mending(relay[x]) \/ x \in failed
      BY <1>1, <1>4, <1>7, <2>2 DEF Coming, Mends
    <3> QED BY <1>1, <1>4, <2>2, <3>1, <3>2
  <2> QED BY <2>1, <2>2
<1>8. ASSUME NEW x \in Relays PROVE Mends(x)' BY <1>7 DEF Mends, Mending
<1> QED BY <1>5, <1>6, <1>8 DEF Coming

(* What happens without the relays: no report says of a hook that is there *)
(* that it is gone, so its removal is reported.                            *)
LEMMA TmuxComing ==
  ASSUME Known, Coming, (\E w \in Windows : Change(w)) \/ ClearHook \/ UNCHANGED vars
  PROVE  Coming'
<1>1. UNCHANGED <<epoch, sub, relay, granted, failed>> BY DEF Change, ClearHook, vars, tmuxVars
<1>2. \/ hook' = hook /\ (hook = "none" => buffer' = buffer)
      \/ hook # "none" /\ hook' = "none"
  BY DEF Change, ClearHook, vars, tmuxVars
<1>3. ASSUME NEW x \in Relays PROVE Tidy(relay[x], granted[x])'
  <2>1. Tidy(relay[x], granted[x]) BY DEF Coming
  <2> QED BY <1>1, <2>1 DEF Tidy, Alternate, StaleGoes, Flagged
<1>4. ASSUME NEW x \in Relays PROVE LastTrue(sub[x])'
  <2>1. LastTrue(sub[x]) BY DEF Coming
  <2> QED BY <1>1, <1>2, <2>1 DEF LastTrue
<1>5. ASSUME NEW x \in Relays, relay[x].subscribed, hook' = "none", sub[x].last = <<Value'>>
      PROVE  Mending(relay[x]) \/ x \in failed
  <2>1. Value' = [epoch |-> epoch, uncovered |-> Windows, buffer |-> buffer'] BY <1>1, <1>5 DEF Value, Uncovered
  <2>2. CASE hook = "none"
    <3>1. Value = Value' BY <1>2, <2>1, <2>2 DEF Value, Uncovered
    <3> QED BY <1>5, <2>2, <3>1 DEF Coming, Mends
  <2>3. CASE hook # "none"
    <3>1. sub[x].last # <<>> /\ sub[x].last[1].epoch = epoch /\ sub[x].last[1].uncovered = Windows BY <1>5, <2>1
    <3>2. LastTrue(sub[x]) /\ epoch \in Nat BY DEF Coming, Known, Base, Types
    <3> QED BY <2>3, <3>1, <3>2 DEF LastTrue
  <2> QED BY <2>2, <2>3
<1>6. ASSUME NEW x \in Relays PROVE Mends(x)'
  <2>1. /\ relay'[x] = relay[x] /\ sub'[x] = sub[x] /\ failed' = failed BY <1>1
  <2> QED BY <1>5, <2>1 DEF Mends, Mending
<1> QED BY <1>3, <1>4, <1>6 DEF Coming

LEMMA ComingInit ==
  ASSUME Init
  PROVE  Coming
<1> SUFFICES ASSUME NEW r \in Relays
    PROVE  Tidy(relay[r], granted[r]) /\ LastTrue(sub[r]) /\ Mends(r)
  BY DEF Coming
<1>1. /\ relay[r].refCount = 0 /\ relay[r].queue = <<>> /\ ~relay[r].repairQueued /\ ~relay[r].subscribed
      /\ sub[r].last = <<>>
  BY DEF Init
<1> QED BY <1>1 DEF Tidy, Alternate, StaleGoes, Flagged, LastTrue, Mends

LEMMA ComingNext ==
  ASSUME Known, Coming, Listeners = 1, Shadowed # Windows, [Next]_vars
  PROVE  Coming'
<1>1. ASSUME NEW r \in Relays, Serve(r) PROVE Coming'
  <2>1. CASE FetchLayout(r) BY <2>1, FetchedComing DEF FetchLayout
  <2> QED BY <1>1, <2>1, AnswerComing, BaselineComing, SubscribeComing, UnsubscribeComing DEF Serve
<1>2. ASSUME NEW r \in Relays, enable(r) \/ disable(r) \/ Begin(r) \/ Refuse(r) \/ Report(r) PROVE Coming'
  BY <1>2, CallsComing, BeginComing, RefuseComing, ReportComing
<1>3. CASE (\E w \in Windows : Change(w)) \/ ClearHook \/ UNCHANGED vars BY <1>3, TmuxComing
<1> QED BY <1>1, <1>2, <1>3 DEF Next

(* With one listener at a time, a subscribed relay does not come to rest   *)
(* with the hook removed unless tmux refused it a repair, which it says:   *)
(* whoever removes the hook and whoever notices, the report is answered by *)
(* a repair, or by one that waits, and that one is of this subscription    *)
(* (reportCoverage, repair and repairQueued in src/cross-session-layout.ts). *)
(* With two listeners it may be of an earlier one, and is dropped; a hook  *)
(* that covers no window is not missed.                                    *)
THEOREM RemovedHookComesBack ==
  ~ClearAnytime /\ Listeners = 1 /\ Shadowed # Windows => (Spec => []HookComesBack)
<1> SUFFICES ASSUME ~ClearAnytime, Listeners = 1, Shadowed # Windows
    PROVE  Spec => []HookComesBack
  OBVIOUS
<1> DEFINE IInv == Known /\ Coming
<1>1. Init => IInv BY KnownInit, ComingInit
<1>2. IInv /\ [Next]_vars => IInv' BY KnownNext, ComingNext
<1>3. IInv => HookComesBack
  <2> SUFFICES ASSUME Coming, NEW r \in Relays, AtRest(r), hook = "none" PROVE r \in failed
    BY DEF HookComesBack
  <2>1. ~Mending(relay[r]) BY DEF AtRest, Mending
  <2> QED BY <2>1 DEF Coming, Mends, AtRest
<1> HIDE DEF IInv
<1> QED BY <1>1, <1>2, <1>3, PTL DEF Spec
=============================================================================
