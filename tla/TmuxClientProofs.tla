-------------------------- MODULE TmuxClientProofs --------------------------
(***************************************************************************)
(* Theorems about TmuxClient, for every set of calls and every bound.      *)
(* About the stream: type correctness, and that every reply reaches the    *)
(* call it answers as long as no call is a command list.  About the calls, *)
(* command lists included: no promise is lost or settled twice, nobody     *)
(* waits on a closed connection, `closed' is final, the client implements  *)
(* CommandPromises, and every line tmux writes reaches whom it is for.     *)
(***************************************************************************)
EXTENDS TmuxClient, SequenceTheorems, FiniteSetTheorems, FunctionTheorems, TLAPS

-----------------------------------------------------------------------------
(* The inductive invariant behind OwnReply.  While the transport lives,    *)
(* the client's place in the stream of blocks is `Seen', the last block    *)
(* whose %begin it has read: the FIFO holds exactly the commands after it, *)
(* and the lines still in the inbox belong to that block or to later ones, *)
(* in order and each with its %begin ahead of it.                          *)

BlockLine(line) == line.kind \in Payload \cup Terminators \cup {"begin"}
Begins(line) == line.kind = "begin"
Inside(line) == line.kind \in Payload \cup Terminators
Ends(line) == line.kind \in Terminators

Claimed == Len(written) - Len(pending)
Seen == IF awaitingGreeting /\ ~InBlock THEN -1 ELSE Claimed

(* What tmux has written and read.                                         *)
AnswersInOrder ==
  /\ part = 0
  /\ \A i \in DOMAIN written : written[i] \notin Invalid
  /\ at <= Len(written) + 1
  /\ open => at <= Len(written)

(* The lines of the inbox come in block order, a block starts with its     *)
(* %begin, and the terminator of the block being written is not there yet. *)
InboxInOrder ==
  /\ \A i \in DOMAIN inbox : BlockLine(inbox[i]) =>
       inbox[i].of <= at /\ (inbox[i].of = at => open /\ ~Ends(inbox[i]))
  /\ \A i, j \in DOMAIN inbox :
       i < j /\ BlockLine(inbox[i]) /\ BlockLine(inbox[j]) =>
         inbox[i].of <= inbox[j].of /\ (Begins(inbox[j]) => inbox[i].of < inbox[j].of)

(* The FIFO is the tail of the commands written.                           *)
FifoFollowsStream ==
  /\ Len(pending) <= Len(written)
  /\ \A i \in 1..Len(pending) : pending[i] = written[Claimed + i]
  /\ awaitingGreeting => Claimed = 0 /\ inflight = None
  /\ inflight # None => InBlock /\ Claimed >= 1 /\ inflight = written[Claimed]

(* tmux is not behind the client; an open block is the last one seen, and  *)
(* its terminator is written or still to come.                             *)
BlockIsOpen ==
  /\ Seen <= at
  /\ Seen = at => open
  /\ InBlock =>
       /\ activeCommandNumber = Seen
       /\ Seen < at => \E i \in DOMAIN inbox : Ends(inbox[i]) /\ inbox[i].of = Seen

(* The inbox starts where the client stopped reading and misses nothing.   *)
InboxFollowsSeen ==
  /\ \A i \in DOMAIN inbox : Begins(inbox[i]) => inbox[i].of > Seen
  /\ \A i \in DOMAIN inbox : Inside(inbox[i]) => inbox[i].of >= Seen
  /\ \A i \in DOMAIN inbox : Inside(inbox[i]) /\ inbox[i].of > Seen =>
       \E j \in DOMAIN inbox : j < i /\ Begins(inbox[j]) /\ inbox[j].of = inbox[i].of
  /\ \A k \in Nat : Seen < k /\ (k < at \/ (k = at /\ open)) =>
       \E i \in DOMAIN inbox : Begins(inbox[i]) /\ inbox[i].of = k
  /\ \A k \in Nat : Seen < k /\ k < at =>
       \E i \in DOMAIN inbox : Ends(inbox[i]) /\ inbox[i].of = k

(* A closed transport announces `closed' before it lets anything else in.  *)
ClosingIsAnnounced ==
  /\ Closed => link = "closed"
  /\ link = "closed" => Closed \/ Top("exit")
  /\ \A i \in DOMAIN frames : frames[i] = "exit" => link = "closed"

Correlated == FifoFollowsStream /\ BlockIsOpen /\ InboxFollowsSeen

StreamInv ==
  /\ AnswersInOrder
  /\ InboxInOrder
  /\ link # "closed" => Correlated

IInv == TypeOK /\ StreamInv /\ ClosingIsAnnounced /\ OwnReply

-----------------------------------------------------------------------------
(* Type correctness.                                                       *)

USE DEF Payload, Terminators, Replied, Settled

LEMMA PutType ==
  ASSUME TypeOK, NEW kind \in Payload \cup Terminators \cup {"begin", "note", "exit"},
         NEW size \in Nat, Put(kind, size)
  PROVE  inbox' \in Seq(Line)
BY DEF Put, TypeOK, StreamTypeOK, Line

LEMMA SubmitType ==
  ASSUME TypeOK, NEW c \in Calls, Submit(c), runner' \in BOOLEAN,
         frames' \in Seq({"ready", "exit"})
  PROVE  TypeOK'
<1>0. written \in Seq(Calls) /\ pending \in Seq(Calls) BY DEF TypeOK, StreamTypeOK
<1>1. written' \in Seq(Calls) /\ pending' \in Seq(Calls)
  <2>1. CASE UNCHANGED <<written, pending>> BY <1>0, <2>1
  <2>2. CASE written' = Append(written, c) /\ pending' = Append(pending, c)
    BY <1>0, <2>2, AppendProperties
  <2> QED BY <2>1, <2>2 DEF Submit, DropPending
<1>2. status' \in [Calls -> {"idle", "waiting"} \cup Settled]
  BY DEF Submit, TypeOK
<1>3. StreamTypeOK' BY <1>1 DEF Submit, TypeOK, StreamTypeOK
<1> QED BY <1>1, <1>2, <1>3 DEF Submit, TypeOK

LEMMA OnCloseType ==
  ASSUME TypeOK, NEW why \in {"exit", "transport-error"}, OnClose(why),
         userClosed' \in BOOLEAN, StreamTypeOK'
  PROVE  TypeOK'
<1>1. pending' \in Seq(Calls) /\ frames' \in Seq({"ready", "exit"})
  <2>0. frames \in Seq({"ready", "exit"}) BY DEF TypeOK
  <2>1. pending' = <<>> BY DEF OnClose, SettlePendingOnClose
  <2>2. frames' = frames \/ frames' = Append(frames, "exit") BY DEF OnClose
  <2>3. frames' \in Seq({"ready", "exit"}) BY <2>0, <2>2
  <2> QED BY <2>1, <2>3
<1>2. status' \in [Calls -> {"idle", "waiting"} \cup Settled]
  BY DEF OnClose, RunnerLost, SettlePendingOnClose, TypeOK
<1>3. reason' \in {"none", "exit", "transport-error", "disposed"}
      /\ connectionState' \in {"connecting", "ready", "closed"} /\ exits' \in Nat
  <2>1. CASE NeedsSyntheticExit BY <2>1 DEF OnClose, RunnerLost, TypeOK
  <2>2. CASE ~NeedsSyntheticExit BY <2>2 DEF OnClose, RunnerLost, TypeOK, AnnounceClosed
  <2> QED BY <2>1, <2>2
<1>4. exitAlreadyEmitted' \in BOOLEAN
      /\ awaitingGreeting' \in BOOLEAN /\ runner' \in BOOLEAN
  BY Zenon DEF OnClose, RunnerLost, TypeOK
<1> QED BY <1>1, <1>2, <1>3, <1>4 DEF OnClose, RunnerLost, SettlePendingOnClose, TypeOK

LEMMA PopType ==
  ASSUME TypeOK, frames # <<>>, Pop
  PROVE  frames' \in Seq({"ready", "exit"})
BY DEF Pop, TypeOK

LEMMA TakeType ==
  ASSUME TypeOK, Take
  PROVE  StreamTypeOK' /\ HeadLine \in Line
BY DEF Take, TypeOK, StreamTypeOK, HeadLine

LEMMA TypeStep ==
  ASSUME TypeOK, [Next]_vars
  PROVE  TypeOK'
<1>1. ASSUME NEW c \in Calls, Execute(c) PROVE TypeOK'
  <2>1. runner' \in BOOLEAN /\ frames' \in Seq({"ready", "exit"})
    BY <1>1 DEF Execute, TypeOK
  <2> QED BY <1>1, <2>1, SubmitType DEF Execute
<1>2. CASE Close
  <2>1. StreamTypeOK' /\ userClosed' \in BOOLEAN
    BY <1>2 DEF Close, TypeOK, StreamTypeOK, streamVars
  <2>2. CASE OnClose("exit") BY <2>1, <2>2, OnCloseType
  <2>3. CASE ~OnClose("exit") BY <1>2, <2>1, <2>3 DEF Close, TypeOK
  <2> QED BY <2>2, <2>3
<1>3. CASE Detach
  <2>1. StreamTypeOK' /\ userClosed' \in BOOLEAN
    BY <1>3 DEF Detach, TypeOK, StreamTypeOK
  <2>2. CASE OnClose("exit") BY <2>1, <2>2, OnCloseType
  <2>3. CASE ~OnClose("exit") BY <1>3, <2>1, <2>3 DEF Detach, TypeOK, clientVars
  <2> QED BY <2>2, <2>3
<1>4. CASE Link
  BY <1>4 DEF Link, LinkOpens, LinkBreaks, TypeOK, StreamTypeOK, streamVars
<1>5. ASSUME NEW why \in {"exit", "transport-error"}, TransportClose(why) PROVE TypeOK'
  <2>1. StreamTypeOK' /\ userClosed' \in BOOLEAN
    BY <1>5 DEF TransportClose, TypeOK, StreamTypeOK, streamVars
  <2> QED BY <1>5, <2>1, OnCloseType DEF TransportClose
<1>6. CASE Receive
  <2>0. StreamTypeOK' /\ HeadLine \in Line
    BY <1>6, TakeType DEF Receive, ReceiveOutput, ReceiveBegin, ReceiveTerminator,
      ReceiveNotification, ReceiveExit
  <2>1. CASE ReceiveOutput BY <2>0, <2>1 DEF ReceiveOutput, Take, TypeOK
  <2>2. CASE ReceiveBegin
    <3>1. activeCommandNumber' \in Nat BY <2>0, <2>2 DEF ReceiveBegin, Line
    <3>2. pending' \in Seq(Calls) /\ inflight' \in Calls \cup {None} /\ collected' \in Nat
      BY <2>2 DEF ReceiveBegin, TypeOK, Claims, ClaimOldest
    <3> QED BY <2>0, <2>2, <3>1, <3>2 DEF ReceiveBegin, Take, TypeOK
  <2>3. CASE ReceiveTerminator
    <3>1. Outcome(HeadLine.kind) \in Replied BY DEF Outcome
    <3>2. status' \in [Calls -> {"idle", "waiting"} \cup Settled]
      BY <2>3, <3>1 DEF ReceiveTerminator, TypeOK, GreetingDone, SettleInflight
    <3>3. reply' \in [Calls -> Reply]
      BY <2>0, <2>3 DEF ReceiveTerminator, TypeOK, GreetingDone, SettleInflight, Reply, Line
    <3>4. inflight' \in Calls \cup {None} /\ collected' \in Nat
          /\ frames' \in Seq({"ready", "exit"})
          /\ connectionState' \in {"connecting", "ready", "closed"}
      <4>1. CASE UNCHANGED <<inflight, collected, frames, connectionState>>
        BY <4>1 DEF TypeOK
      <4>2. CASE GreetingDone BY <4>2 DEF TypeOK, GreetingDone
      <4>3. CASE SettleInflight(Outcome(HeadLine.kind)) BY <4>3 DEF TypeOK, SettleInflight
      <4> QED BY <2>3, <4>1, <4>2, <4>3 DEF ReceiveTerminator
    <3>5. awaitingGreeting' \in BOOLEAN
      BY <2>3, Zenon DEF ReceiveTerminator, TypeOK, GreetingDone, SettleInflight
    <3> QED BY <2>0, <2>3, <3>2, <3>3, <3>4, <3>5 DEF ReceiveTerminator, Take, TypeOK
  <2>4. CASE ReceiveNotification BY <2>0, <2>4 DEF ReceiveNotification, Take, TypeOK
  <2>5. CASE ReceiveExit
    <3>1. exitAlreadyEmitted' \in BOOLEAN BY <2>5, Zenon DEF ReceiveExit, TypeOK
    <3>2. exits' \in Nat BY <2>5 DEF ReceiveExit, TypeOK
    <3> QED BY <2>0, <2>5, <3>1, <3>2 DEF ReceiveExit, Take, TypeOK
  <2> QED BY <1>6, <2>1, <2>2, <2>3, <2>4, <2>5 DEF Receive
<1>7. CASE FinishReady
  <2>1. frames' \in Seq({"ready", "exit"}) /\ runner' \in BOOLEAN
    BY <1>7, PopType DEF FinishReady, Top
  <2>2. CASE \E c \in Calls : Submit(c) BY <2>1, <2>2, SubmitType
  <2>3. CASE ~\E c \in Calls : Submit(c)
    <3>1. UNCHANGED <<streamVars, pending, inflight, collected, activeCommandNumber,
            connectionState, reason, userClosed, awaitingGreeting, exitAlreadyEmitted,
            link, status, reply, exits, events>>
      BY <1>7, <2>3 DEF FinishReady
    <3>2. StreamTypeOK' BY <3>1 DEF TypeOK, StreamTypeOK, streamVars
    <3> QED BY <2>1, <3>1, <3>2 DEF TypeOK
  <2> QED BY <2>2, <2>3
<1>8. CASE FinishClose
  <2>1. frames' \in Seq({"ready", "exit"}) BY <1>8, PopType DEF FinishClose, Top
  <2> QED BY <1>8, <2>1 DEF FinishClose, AnnounceClosed, TypeOK, StreamTypeOK, streamVars
<1>9. CASE Tmux
  <2> USE StreamAssumption
  <2>0. TypeOK /\ UNCHANGED clientVars /\ StreamTypeOK' => TypeOK'
    BY DEF TypeOK, clientVars
  <2>1. CASE TmuxBegin BY <1>9, <2>0, <2>1, PutType DEF Tmux, TmuxBegin, TypeOK, StreamTypeOK
  <2>2. ASSUME NEW kind \in PayloadKinds, TmuxPayload(kind) PROVE TypeOK'
    <3>1. inbox' \in Seq(Line) BY <2>2, PutType DEF TmuxPayload
    <3>2. lines' \in 0..MaxPayload BY <2>2 DEF TmuxPayload, TypeOK, StreamTypeOK
    <3> QED BY <1>9, <2>0, <2>2, <3>1, <3>2 DEF Tmux, TmuxPayload, TypeOK, StreamTypeOK
  <2>3. ASSUME NEW kind \in Terminators, TmuxEnd(kind) PROVE TypeOK'
    <3>1. lines \in Nat BY DEF TypeOK, StreamTypeOK
    <3>2. inbox' \in Seq(Line) BY <2>3, <3>1, PutType DEF TmuxEnd
    <3>3. at' \in Nat /\ part' \in {0, 1}
      <4>1. CASE LastBlock \/ kind = "error" BY <2>3, <4>1 DEF TmuxEnd, TypeOK, StreamTypeOK
      <4>2. CASE ~(LastBlock \/ kind = "error")
        BY <2>3, <4>2 DEF TmuxEnd, TypeOK, StreamTypeOK
      <4> QED BY <4>1, <4>2
    <3> QED BY <1>9, <2>0, <2>3, <3>2, <3>3 DEF Tmux, TmuxEnd, TypeOK, StreamTypeOK
  <2>4. CASE TmuxNotify BY <1>9, <2>0, <2>4, PutType DEF Tmux, TmuxNotify, TypeOK, StreamTypeOK
  <2>5. CASE TmuxExit BY <1>9, <2>0, <2>5, PutType DEF Tmux, TmuxExit, TypeOK, StreamTypeOK
  <2>6. CASE TmuxDies BY <1>9, <2>0, <2>6 DEF Tmux, TmuxDies, TypeOK, StreamTypeOK
  <2> QED BY <1>9, <2>1, <2>2, <2>3, <2>4, <2>5, <2>6 DEF Tmux, TmuxNext
<1>10. CASE UNCHANGED vars
  BY <1>10 DEF vars, streamVars, clientVars, TypeOK, StreamTypeOK
<1> QED BY <1>1, <1>2, <1>3, <1>4, <1>5, <1>6, <1>7, <1>8, <1>9, <1>10 DEF Next

LEMMA InitType ==
  ASSUME Init
  PROVE  TypeOK
<1>1. StreamTypeOK
  <2>1. <<>> \in Seq(Calls) /\ <<>> \in Seq(Line) BY EmptySeq
  <2>2. 0 \in 0..MaxPayload /\ 0 \in 0..MaxNotes BY StreamAssumption
  <2> QED BY <2>1, <2>2, Zenon DEF Init, StreamInit, StreamTypeOK
<1>2. NoReply \in Reply BY DEF NoReply, Reply
<1>3. <<>> \in Seq(Calls) /\ <<>> \in Seq({"ready", "exit"}) BY EmptySeq
<1> QED BY <1>1, <1>2, <1>3 DEF Init, TypeOK

(* Every variable keeps the shape of the field of TmuxClient or TmuxParser *)
(* it stands for, for every set of calls and every bound.                  *)
THEOREM TypeCorrect == Spec => []TypeOK
<1>1. Init => TypeOK BY InitType
<1>2. TypeOK /\ [Next]_vars => TypeOK' BY TypeStep
<1> QED BY <1>1, <1>2, PTL DEF Spec

-----------------------------------------------------------------------------
(* What a line added to the inbox and a line taken from it leave in order. *)

LEMMA AppendLine ==
  ASSUME TypeOK, NEW line \in Line, inbox' = Append(inbox, line)
  PROVE  /\ Len(inbox) \in Nat /\ DOMAIN inbox = 1..Len(inbox)
         /\ DOMAIN inbox' = 1..(Len(inbox) + 1)
         /\ \A i \in DOMAIN inbox : inbox'[i] = inbox[i]
         /\ inbox'[Len(inbox) + 1] = line
         /\ \A i \in DOMAIN inbox : inbox[i].of \in Nat
         /\ line.of \in Nat
<1>1. inbox \in Seq(Line) BY DEF TypeOK, StreamTypeOK
<1>2. \A i \in DOMAIN inbox : inbox[i] \in Line BY <1>1
<1> QED BY <1>1, <1>2, AppendProperties DEF Line

LEMMA TakeLine ==
  ASSUME TypeOK, Take
  PROVE  /\ Len(inbox) \in Nat \ {0} /\ DOMAIN inbox = 1..Len(inbox)
         /\ DOMAIN inbox' = 1..(Len(inbox) - 1)
         /\ \A i \in DOMAIN inbox' : i + 1 \in DOMAIN inbox /\ inbox'[i] = inbox[i + 1]
         /\ HeadLine = inbox[1] /\ HeadLine \in Line
         /\ \A i \in DOMAIN inbox : inbox[i].of \in Nat
<1>1. inbox \in Seq(Line) /\ inbox # <<>> /\ inbox' = Tail(inbox)
  BY DEF Take, TypeOK, StreamTypeOK
<1>2. \A i \in DOMAIN inbox : inbox[i] \in Line BY <1>1
<1> QED BY <1>1, <1>2, HeadTailProperties DEF Line, HeadLine

LEMMA SeenType ==
  ASSUME TypeOK
  PROVE  /\ Claimed \in Int /\ Seen \in Int
         /\ at \in Nat /\ Len(written) \in Nat /\ Len(pending) \in Nat
BY DEF TypeOK, StreamTypeOK, Claimed, Seen

(* The first line of the inbox belongs to the last block seen, or it is    *)
(* the %begin of the next one and no block is open.                        *)
LEMMA HeadLinePlace ==
  ASSUME TypeOK, Take, InboxInOrder, Correlated
  PROVE  /\ Inside(HeadLine) => HeadLine.of = Seen
         /\ Begins(HeadLine) => ~InBlock /\ HeadLine.of = Seen + 1
<1> USE TakeLine, SeenType
<1>1. 1 \in DOMAIN inbox /\ HeadLine.of \in Nat OBVIOUS
<1>2. ASSUME Inside(HeadLine) PROVE HeadLine.of = Seen
  BY <1>1, <1>2 DEF Correlated, InboxFollowsSeen
<1>3. ASSUME Begins(HeadLine) PROVE HeadLine.of = Seen + 1
  <2>1. HeadLine.of > Seen BY <1>1, <1>3 DEF Correlated, InboxFollowsSeen
  <2>2. Seen + 1 \in Nat BY DEF Seen, Correlated, FifoFollowsStream, Claimed
  <2>3. HeadLine.of <= at /\ (HeadLine.of = at => open)
    BY <1>1, <1>3 DEF InboxInOrder, BlockLine, Begins
  <2>4. PICK i \in DOMAIN inbox : Begins(inbox[i]) /\ inbox[i].of = Seen + 1
    BY <2>1, <2>2, <2>3 DEF Correlated, InboxFollowsSeen
  <2>5. CASE i = 1 BY <2>4, <2>5
  <2>6. CASE i > 1
    BY <1>1, <1>3, <2>1, <2>4, <2>6 DEF InboxInOrder, BlockLine, Begins
  <2> QED BY <2>5, <2>6
<1>4. ASSUME Begins(HeadLine), InBlock PROVE FALSE
  <2>1. HeadLine.of = Seen + 1 /\ HeadLine.of <= at BY <1>1, <1>3, <1>4 DEF InboxInOrder, BlockLine, Begins
  <2>2. PICK i \in DOMAIN inbox : Ends(inbox[i]) /\ inbox[i].of = Seen
    BY <1>4, <2>1 DEF Correlated, BlockIsOpen
  <2>3. i > 1 BY <1>4, <2>2 DEF Ends, Begins
  <2> QED BY <1>1, <1>4, <2>1, <2>2, <2>3 DEF InboxInOrder, BlockLine, Begins, Ends
<1> QED BY <1>2, <1>3, <1>4

LEMMA TakeKeepsOrder ==
  ASSUME TypeOK, Take, InboxInOrder
  PROVE  InboxInOrder'
<1> USE TakeLine
<1>1. at' = at /\ open' = open BY DEF Take
<1>2. \A i \in DOMAIN inbox' : BlockLine(inbox'[i]) =>
        inbox'[i].of <= at' /\ (inbox'[i].of = at' => open' /\ ~Ends(inbox'[i]))
  BY <1>1 DEF InboxInOrder
<1>3. ASSUME NEW i \in DOMAIN inbox', NEW j \in DOMAIN inbox', i < j,
             BlockLine(inbox'[i]), BlockLine(inbox'[j])
      PROVE  inbox'[i].of <= inbox'[j].of
             /\ (Begins(inbox'[j]) => inbox'[i].of < inbox'[j].of)
  <2>1. i + 1 \in DOMAIN inbox /\ j + 1 \in DOMAIN inbox /\ i + 1 < j + 1 BY <1>3
  <2> QED BY <1>3, <2>1 DEF InboxInOrder
<1> QED BY <1>2, <1>3 DEF InboxInOrder

(* A line that is no %begin and belongs to the block seen moves nothing.   *)
LEMMA TakeInside ==
  ASSUME TypeOK, Take, InboxFollowsSeen, Seen' = Seen, ~Begins(HeadLine),
         Inside(HeadLine) => HeadLine.of = Seen
  PROVE  InboxFollowsSeen'
<1> USE TakeLine, SeenType
<1>1. at' = at /\ open' = open BY DEF Take
<1>2. \A i \in DOMAIN inbox : i > 1 => i - 1 \in DOMAIN inbox' /\ inbox'[i - 1] = inbox[i]
  OBVIOUS
<1>3. \A i \in DOMAIN inbox' : Begins(inbox'[i]) => inbox'[i].of > Seen'
  BY DEF InboxFollowsSeen
<1>4. \A i \in DOMAIN inbox' : Inside(inbox'[i]) => inbox'[i].of >= Seen'
  BY DEF InboxFollowsSeen
<1>5. ASSUME NEW i \in DOMAIN inbox', Inside(inbox'[i]), inbox'[i].of > Seen'
      PROVE  \E j \in DOMAIN inbox' : j < i /\ Begins(inbox'[j]) /\ inbox'[j].of = inbox'[i].of
  <2>1. PICK j \in DOMAIN inbox :
          j < i + 1 /\ Begins(inbox[j]) /\ inbox[j].of = inbox[i + 1].of
    BY <1>5 DEF InboxFollowsSeen
  <2>2. j > 1 BY <2>1
  <2> QED BY <1>2, <2>1, <2>2
<1>6. ASSUME NEW k \in Nat, Seen' < k, k < at' \/ (k = at' /\ open')
      PROVE  \E i \in DOMAIN inbox' : Begins(inbox'[i]) /\ inbox'[i].of = k
  <2>1. PICK i \in DOMAIN inbox : Begins(inbox[i]) /\ inbox[i].of = k
    BY <1>1, <1>6 DEF InboxFollowsSeen
  <2>2. i > 1 BY <2>1
  <2> QED BY <1>2, <2>1, <2>2
<1>7. ASSUME NEW k \in Nat, Seen' < k, k < at'
      PROVE  \E i \in DOMAIN inbox' : Ends(inbox'[i]) /\ inbox'[i].of = k
  <2>1. PICK i \in DOMAIN inbox : Ends(inbox[i]) /\ inbox[i].of = k
    BY <1>1, <1>7 DEF InboxFollowsSeen
  <2>2. i > 1 BY <1>7, <2>1 DEF Ends, Inside
  <2> QED BY <1>2, <2>1, <2>2
<1> QED BY <1>3, <1>4, <1>5, <1>6, <1>7 DEF InboxFollowsSeen

(* The %begin of the next block makes it the last one seen.                *)
LEMMA TakeNextBegin ==
  ASSUME TypeOK, Take, InboxInOrder, InboxFollowsSeen, Begins(HeadLine),
         HeadLine.of = Seen + 1, Seen' = Seen + 1
  PROVE  InboxFollowsSeen'
<1>1. /\ at' = at /\ open' = open /\ Seen \in Int
      /\ 1 \in DOMAIN inbox /\ inbox[1] = HeadLine /\ BlockLine(HeadLine)
      /\ DOMAIN inbox \subseteq Nat \ {0} /\ DOMAIN inbox' \subseteq Nat \ {0}
  BY TakeLine, SeenType DEF Take, BlockLine, Begins
<1>2. ASSUME NEW i \in DOMAIN inbox, i > 1
      PROVE  i - 1 \in DOMAIN inbox' /\ inbox'[i - 1] = inbox[i]
  BY <1>2, TakeLine
<1>3. ASSUME NEW i \in DOMAIN inbox'
      PROVE  /\ i + 1 \in DOMAIN inbox /\ 1 < i + 1
             /\ inbox'[i] = inbox[i + 1] /\ inbox'[i].of \in Nat
  BY <1>3, TakeLine
<1>4. ASSUME NEW i \in DOMAIN inbox', Begins(inbox'[i]) PROVE inbox'[i].of > Seen'
  <2>1. BlockLine(inbox[i + 1]) BY <1>3, <1>4 DEF BlockLine, Begins
  <2>2. HeadLine.of < inbox[i + 1].of BY <1>1, <1>3, <1>4, <2>1 DEF InboxInOrder
  <2> QED BY <1>3, <2>2
<1>5. ASSUME NEW i \in DOMAIN inbox', Inside(inbox'[i]) PROVE inbox'[i].of >= Seen'
  <2>1. BlockLine(inbox[i + 1]) BY <1>3, <1>5 DEF BlockLine, Inside
  <2>2. HeadLine.of <= inbox[i + 1].of BY <1>1, <1>3, <2>1 DEF InboxInOrder
  <2> QED BY <1>1, <1>3, <2>2
<1>6. ASSUME NEW i \in DOMAIN inbox', Inside(inbox'[i]), inbox'[i].of > Seen'
      PROVE  \E j \in DOMAIN inbox' : j < i /\ Begins(inbox'[j]) /\ inbox'[j].of = inbox'[i].of
  <2>1. inbox[i + 1].of > Seen BY <1>1, <1>3, <1>6
  <2>2. PICK j \in DOMAIN inbox :
          j < i + 1 /\ Begins(inbox[j]) /\ inbox[j].of = inbox[i + 1].of
    BY <1>3, <1>6, <2>1 DEF InboxFollowsSeen
  <2>3. j > 1 BY <1>1, <1>3, <1>6, <2>2
  <2>4. j - 1 \in DOMAIN inbox' /\ inbox'[j - 1] = inbox[j] BY <1>2, <2>3
  <2>5. j - 1 < i BY <1>1, <2>2
  <2> QED BY <1>3, <2>2, <2>4, <2>5
<1>7. ASSUME NEW k \in Nat, Seen' < k, k < at' \/ (k = at' /\ open')
      PROVE  \E i \in DOMAIN inbox' : Begins(inbox'[i]) /\ inbox'[i].of = k
  <2>1. Seen < k BY <1>1, <1>7
  <2>2. PICK i \in DOMAIN inbox : Begins(inbox[i]) /\ inbox[i].of = k
    BY <1>1, <1>7, <2>1 DEF InboxFollowsSeen
  <2>3. i > 1 BY <1>1, <1>7, <2>2
  <2>4. i - 1 \in DOMAIN inbox' /\ inbox'[i - 1] = inbox[i] BY <1>2, <2>3
  <2> QED BY <2>2, <2>4
<1>8. ASSUME NEW k \in Nat, Seen' < k, k < at'
      PROVE  \E i \in DOMAIN inbox' : Ends(inbox'[i]) /\ inbox'[i].of = k
  <2>1. Seen < k BY <1>1, <1>8
  <2>2. PICK i \in DOMAIN inbox : Ends(inbox[i]) /\ inbox[i].of = k
    BY <1>1, <1>8, <2>1 DEF InboxFollowsSeen
  <2>3. i > 1 BY <1>1, <2>2 DEF Ends, Begins
  <2>4. i - 1 \in DOMAIN inbox' /\ inbox'[i - 1] = inbox[i] BY <1>2, <2>3
  <2> QED BY <2>2, <2>4
<1> QED BY <1>4, <1>5, <1>6, <1>7, <1>8 DEF InboxFollowsSeen

-----------------------------------------------------------------------------
(* tmux's steps keep the stream in order and the client's place in it.     *)

LEMMA AppendKeepsOrder ==
  ASSUME TypeOK, NEW line \in Line, inbox' = Append(inbox, line), InboxInOrder,
         \A i \in DOMAIN inbox : BlockLine(inbox[i]) =>
           inbox[i].of <= at' /\ (inbox[i].of = at' => open' /\ ~Ends(inbox[i])),
         BlockLine(line) =>
           line.of <= at' /\ (line.of = at' => open' /\ ~Ends(line)),
         \A i \in DOMAIN inbox : BlockLine(line) /\ BlockLine(inbox[i]) =>
           inbox[i].of <= line.of /\ (Begins(line) => inbox[i].of < line.of)
  PROVE  InboxInOrder'
<1>1. /\ \A i \in DOMAIN inbox' : i = Len(inbox) + 1 \/ i \in DOMAIN inbox
      /\ \A i \in DOMAIN inbox : inbox'[i] = inbox[i] /\ i <= Len(inbox)
      /\ inbox'[Len(inbox) + 1] = line /\ Len(inbox) \in Nat
  BY AppendLine
<1>2. \A i \in DOMAIN inbox' : BlockLine(inbox'[i]) =>
        inbox'[i].of <= at' /\ (inbox'[i].of = at' => open' /\ ~Ends(inbox'[i]))
  BY <1>1
<1>3. ASSUME NEW i \in DOMAIN inbox', NEW j \in DOMAIN inbox', i < j,
             BlockLine(inbox'[i]), BlockLine(inbox'[j])
      PROVE  inbox'[i].of <= inbox'[j].of
             /\ (Begins(inbox'[j]) => inbox'[i].of < inbox'[j].of)
  <2>1. i \in DOMAIN inbox /\ inbox'[i] = inbox[i] BY <1>1, <1>3
  <2>2. CASE j \in DOMAIN inbox
    <3>1. inbox'[j] = inbox[j] BY <1>1, <2>2
    <3> QED BY <1>3, <2>1, <2>2, <3>1 DEF InboxInOrder
  <2>3. CASE j = Len(inbox) + 1
    <3>1. inbox'[j] = line BY <1>1, <2>3
    <3> QED BY <1>3, <2>1, <3>1
  <2> QED BY <1>1, <2>2, <2>3
<1> QED BY <1>2, <1>3 DEF InboxInOrder

LEMMA AppendKeepsPlace ==
  ASSUME TypeOK, NEW line \in Line, inbox' = Append(inbox, line), Seen' = Seen,
         InboxFollowsSeen,
         Begins(line) => line.of > Seen,
         Inside(line) => line.of >= Seen,
         Inside(line) /\ line.of > Seen =>
           \E j \in DOMAIN inbox : Begins(inbox[j]) /\ inbox[j].of = line.of,
         \A k \in Nat : k < at' \/ (k = at' /\ open') =>
           k < at \/ (k = at /\ open) \/ (Begins(line) /\ line.of = k),
         \A k \in Nat : k < at' => k < at \/ (Ends(line) /\ line.of = k)
  PROVE  InboxFollowsSeen'
<1> USE AppendLine, SeenType
<1>0. \A i \in DOMAIN inbox' : i = Len(inbox) + 1 \/ i \in DOMAIN inbox
  OBVIOUS
<1>a. DOMAIN inbox \subseteq DOMAIN inbox' /\ Len(inbox) + 1 \in DOMAIN inbox'
  OBVIOUS
<1>1. \A i \in DOMAIN inbox' : Begins(inbox'[i]) => inbox'[i].of > Seen'
  BY <1>0 DEF InboxFollowsSeen
<1>2. \A i \in DOMAIN inbox' : Inside(inbox'[i]) => inbox'[i].of >= Seen'
  BY <1>0 DEF InboxFollowsSeen
<1>3. ASSUME NEW i \in DOMAIN inbox', Inside(inbox'[i]), inbox'[i].of > Seen'
      PROVE  \E j \in DOMAIN inbox' : j < i /\ Begins(inbox'[j]) /\ inbox'[j].of = inbox'[i].of
  <2>1. CASE i \in DOMAIN inbox BY <1>3, <1>a, <2>1 DEF InboxFollowsSeen
  <2>2. CASE i = Len(inbox) + 1
    <3>1. PICK j \in DOMAIN inbox : Begins(inbox[j]) /\ inbox[j].of = line.of
      BY <1>3, <2>2
    <3> QED BY <1>a, <2>2, <3>1
  <2> QED BY <1>0, <2>1, <2>2
<1>4. ASSUME NEW k \in Nat, Seen' < k, k < at' \/ (k = at' /\ open')
      PROVE  \E i \in DOMAIN inbox' : Begins(inbox'[i]) /\ inbox'[i].of = k
  <2>1. CASE k < at \/ (k = at /\ open)
    <3>1. PICK i \in DOMAIN inbox : Begins(inbox[i]) /\ inbox[i].of = k
      BY <1>4, <2>1 DEF InboxFollowsSeen
    <3> QED BY <1>a, <3>1
  <2>2. CASE Begins(line) /\ line.of = k BY <1>a, <2>2
  <2> QED BY <1>4, <2>1, <2>2
<1>5. ASSUME NEW k \in Nat, Seen' < k, k < at'
      PROVE  \E i \in DOMAIN inbox' : Ends(inbox'[i]) /\ inbox'[i].of = k
  <2>1. CASE k < at
    <3>1. PICK i \in DOMAIN inbox : Ends(inbox[i]) /\ inbox[i].of = k
      BY <1>5, <2>1 DEF InboxFollowsSeen
    <3> QED BY <1>a, <3>1
  <2>2. CASE Ends(line) /\ line.of = k BY <1>a, <2>2
  <2> QED BY <1>5, <2>1, <2>2
<1> QED BY <1>1, <1>2, <1>3, <1>4, <1>5 DEF InboxFollowsSeen

LEMMA FifoUnchanged ==
  ASSUME UNCHANGED clientVars, written' = written
  PROVE  Seen' = Seen /\ Claimed' = Claimed /\ (FifoFollowsStream => FifoFollowsStream')
BY DEF clientVars, Seen, Claimed, InBlock, FifoFollowsStream

LEMMA TmuxKeepsStream ==
  ASSUME TypeOK, Lists = {}, StreamInv, Tmux
  PROVE  StreamInv'
<1> USE SeenType, StreamAssumption
<1>0. UNCHANGED clientVars /\ written' = written /\ Seen' = Seen
      /\ (FifoFollowsStream => FifoFollowsStream')
      /\ link' = link /\ activeCommandNumber' = activeCommandNumber /\ InBlock' = InBlock
  BY FifoUnchanged DEF Tmux, TmuxNext, TmuxBegin, TmuxPayload, TmuxEnd, TmuxNotify,
    TmuxExit, TmuxDies, clientVars, InBlock
<1>1. CASE TmuxBegin
  <2> DEFINE line == [kind |-> "begin", of |-> at, size |-> 0]
  <2>1. line \in Line /\ inbox' = Append(inbox, line) BY <1>1 DEF TmuxBegin, Put, Line
  <2>2. at' = at /\ part' = part /\ ~open /\ open' /\ at <= Len(written) BY <1>1 DEF TmuxBegin
  <2>3. BlockLine(line) /\ Begins(line) /\ ~Inside(line) /\ ~Ends(line) /\ line.of = at
    BY DEF BlockLine, Begins, Inside, Ends
  <2> HIDE DEF line
  <2>4. AnswersInOrder' BY <1>0, <2>2 DEF StreamInv, AnswersInOrder
  <2>5. InboxInOrder'
    <3>1. InboxInOrder BY DEF StreamInv
    <3>2. \A i \in DOMAIN inbox : BlockLine(inbox[i]) =>
            inbox[i].of <= at' /\ (inbox[i].of = at' => open' /\ ~Ends(inbox[i]))
      BY <2>1, <2>2, <2>3, <3>1, AppendLine DEF InboxInOrder
    <3>3. BlockLine(line) => line.of <= at' /\ (line.of = at' => open' /\ ~Ends(line))
      BY <2>1, <2>2, <2>3
    <3>4. \A i \in DOMAIN inbox : BlockLine(line) /\ BlockLine(inbox[i]) =>
            inbox[i].of <= line.of /\ (Begins(line) => inbox[i].of < line.of)
      BY <2>1, <2>2, <2>3, <3>1, AppendLine DEF InboxInOrder
    <3> QED BY <2>1, <3>1, <3>2, <3>3, <3>4, AppendKeepsOrder
  <2>6. ASSUME BlockIsOpen PROVE BlockIsOpen'
    BY <1>0, <2>1, <2>2, <2>6, AppendLine DEF BlockIsOpen
  <2>7. ASSUME BlockIsOpen, InboxFollowsSeen PROVE InboxFollowsSeen'
    <3>1. line.of > Seen BY <2>2, <2>3, <2>7 DEF BlockIsOpen
    <3> QED BY <1>0, <2>1, <2>2, <2>3, <2>7, <3>1, AppendKeepsPlace
  <2> QED BY <1>0, <2>4, <2>5, <2>6, <2>7 DEF StreamInv, Correlated
<1>2. ASSUME NEW kind \in PayloadKinds, TmuxPayload(kind) PROVE StreamInv'
  <2> DEFINE line == [kind |-> kind, of |-> at, size |-> 0]
  <2>1. line \in Line /\ inbox' = Append(inbox, line) BY <1>2 DEF TmuxPayload, Put, Line
  <2>2. at' = at /\ part' = part /\ open /\ open' BY <1>2 DEF TmuxPayload
  <2>3. BlockLine(line) /\ ~Begins(line) /\ Inside(line) /\ ~Ends(line) /\ line.of = at
    BY DEF BlockLine, Begins, Inside, Ends
  <2> HIDE DEF line
  <2>4. AnswersInOrder' BY <1>0, <2>2 DEF StreamInv, AnswersInOrder
  <2>5. InboxInOrder'
    <3>1. InboxInOrder BY DEF StreamInv
    <3>2. \A i \in DOMAIN inbox : BlockLine(inbox[i]) =>
            inbox[i].of <= at' /\ (inbox[i].of = at' => open' /\ ~Ends(inbox[i]))
      BY <2>1, <2>2, <2>3, <3>1, AppendLine DEF InboxInOrder
    <3>3. BlockLine(line) => line.of <= at' /\ (line.of = at' => open' /\ ~Ends(line))
      BY <2>1, <2>2, <2>3
    <3>4. \A i \in DOMAIN inbox : BlockLine(line) /\ BlockLine(inbox[i]) =>
            inbox[i].of <= line.of /\ (Begins(line) => inbox[i].of < line.of)
      BY <2>1, <2>2, <2>3, <3>1, AppendLine DEF InboxInOrder
    <3> QED BY <2>1, <3>1, <3>2, <3>3, <3>4, AppendKeepsOrder
  <2>6. ASSUME BlockIsOpen PROVE BlockIsOpen'
    BY <1>0, <2>1, <2>2, <2>6, AppendLine DEF BlockIsOpen
  <2>7. ASSUME BlockIsOpen, InboxFollowsSeen PROVE InboxFollowsSeen'
    <3>1. line.of >= Seen BY <2>2, <2>3, <2>7 DEF BlockIsOpen
    <3>2. line.of > Seen => \E j \in DOMAIN inbox : Begins(inbox[j]) /\ inbox[j].of = line.of
      BY <2>2, <2>3, <2>7 DEF InboxFollowsSeen
    <3> QED BY <1>0, <2>1, <2>2, <2>3, <2>7, <3>1, <3>2, AppendKeepsPlace
  <2> QED BY <1>0, <2>4, <2>5, <2>6, <2>7 DEF StreamInv, Correlated
<1>3. ASSUME NEW kind \in Terminators, TmuxEnd(kind) PROVE StreamInv'
  <2> DEFINE line == [kind |-> kind, of |-> at, size |-> lines]
  <2>1. line \in Line /\ inbox' = Append(inbox, line)
    BY <1>3 DEF TmuxEnd, Put, Line, TypeOK, StreamTypeOK
  <2>2. open /\ ~open' /\ at <= Len(written) /\ part = 0
    BY <1>3 DEF TmuxEnd, StreamInv, AnswersInOrder
  <2>3. LastBlock
    BY <2>2 DEF LastBlock, StreamInv, AnswersInOrder, TypeOK, StreamTypeOK
  <2>4. at' = at + 1 /\ part' = 0 BY <1>3, <2>3 DEF TmuxEnd
  <2>5. BlockLine(line) /\ ~Begins(line) /\ Inside(line) /\ Ends(line) /\ line.of = at
    BY DEF BlockLine, Begins, Inside, Ends
  <2> HIDE DEF line
  <2>6. AnswersInOrder' BY <1>0, <2>2, <2>4 DEF StreamInv, AnswersInOrder
  <2>7. InboxInOrder'
    <3>1. InboxInOrder BY DEF StreamInv
    <3>2. \A i \in DOMAIN inbox : BlockLine(inbox[i]) =>
            inbox[i].of <= at' /\ (inbox[i].of = at' => open' /\ ~Ends(inbox[i]))
      BY <2>1, <2>2, <2>4, <2>5, <3>1, AppendLine DEF InboxInOrder
    <3>3. BlockLine(line) => line.of <= at' /\ (line.of = at' => open' /\ ~Ends(line))
      BY <2>1, <2>2, <2>4, <2>5
    <3>4. \A i \in DOMAIN inbox : BlockLine(line) /\ BlockLine(inbox[i]) =>
            inbox[i].of <= line.of /\ (Begins(line) => inbox[i].of < line.of)
      BY <2>1, <2>2, <2>4, <2>5, <3>1, AppendLine DEF InboxInOrder
    <3> QED BY <2>1, <3>1, <3>2, <3>3, <3>4, AppendKeepsOrder
  <2>8. ASSUME BlockIsOpen PROVE BlockIsOpen'
    <3>1. at' > Seen' BY <1>0, <2>4, <2>8 DEF BlockIsOpen
    <3>2. ASSUME InBlock
          PROVE  \E i \in DOMAIN inbox' : Ends(inbox'[i]) /\ inbox'[i].of = Seen
      <4>0. \A i \in DOMAIN inbox : i \in DOMAIN inbox' /\ inbox'[i] = inbox[i]
        BY <2>1, AppendLine
      <4>1. CASE Seen = at
        <5>1. Len(inbox) + 1 \in DOMAIN inbox' /\ inbox'[Len(inbox) + 1] = line
          BY <2>1, AppendLine
        <5> QED BY <2>5, <4>1, <5>1
      <4>2. CASE Seen < at
        <5>1. PICK i \in DOMAIN inbox : Ends(inbox[i]) /\ inbox[i].of = Seen
          BY <2>8, <3>2, <4>2 DEF BlockIsOpen
        <5> QED BY <4>0, <5>1
      <4> QED BY <1>0, <2>8, <4>1, <4>2 DEF BlockIsOpen
    <3>3. InBlock' => /\ InBlock /\ activeCommandNumber' = Seen'
                      /\ \E i \in DOMAIN inbox' : Ends(inbox'[i]) /\ inbox'[i].of = Seen'
      BY <1>0, <2>8, <3>2 DEF BlockIsOpen
    <3>4. Seen' <= at' /\ Seen' # at' BY <1>0, <2>4, <3>1, SeenType DEF TypeOK, StreamTypeOK
    <3> QED BY <3>3, <3>4 DEF BlockIsOpen, Ends
  <2>9. ASSUME BlockIsOpen, InboxFollowsSeen PROVE InboxFollowsSeen'
    <3>1. line.of >= Seen BY <2>5, <2>9 DEF BlockIsOpen
    <3>2. line.of > Seen => \E j \in DOMAIN inbox : Begins(inbox[j]) /\ inbox[j].of = line.of
      BY <2>2, <2>5, <2>9 DEF InboxFollowsSeen
    <3>3. \A k \in Nat : k < at' => k < at \/ k = at BY <2>4
    <3>4. \A k \in Nat : k < at' => k < at \/ (k = at /\ open) BY <2>2, <3>3
    <3> QED BY <1>0, <2>1, <2>2, <2>4, <2>5, <2>9, <3>1, <3>2, <3>3, <3>4, AppendKeepsPlace
  <2> QED BY <1>0, <2>6, <2>7, <2>8, <2>9 DEF StreamInv, Correlated
<1>4. ASSUME NEW kind \in {"note", "exit"}, Put(kind, 0),
             UNCHANGED <<at, part, open>> PROVE StreamInv'
  <2> DEFINE line == [kind |-> kind, of |-> at, size |-> 0]
  <2>1. line \in Line /\ inbox' = Append(inbox, line) BY <1>4 DEF Put, Line
  <2>3. ~BlockLine(line) /\ ~Begins(line) /\ ~Inside(line) /\ ~Ends(line)
    BY DEF BlockLine, Begins, Inside, Ends
  <2> HIDE DEF line
  <2>4. AnswersInOrder' BY <1>0, <1>4 DEF StreamInv, AnswersInOrder
  <2>5. InboxInOrder'
    <3>1. InboxInOrder BY DEF StreamInv
    <3>2. \A i \in DOMAIN inbox : BlockLine(inbox[i]) =>
            inbox[i].of <= at' /\ (inbox[i].of = at' => open' /\ ~Ends(inbox[i]))
      BY <1>4, <2>1, <2>3, <3>1, AppendLine DEF InboxInOrder
    <3>3. BlockLine(line) => line.of <= at' /\ (line.of = at' => open' /\ ~Ends(line))
      BY <1>4, <2>1, <2>3
    <3>4. \A i \in DOMAIN inbox : BlockLine(line) /\ BlockLine(inbox[i]) =>
            inbox[i].of <= line.of /\ (Begins(line) => inbox[i].of < line.of)
      BY <1>4, <2>1, <2>3, <3>1, AppendLine DEF InboxInOrder
    <3> QED BY <2>1, <3>1, <3>2, <3>3, <3>4, AppendKeepsOrder
  <2>6. ASSUME BlockIsOpen PROVE BlockIsOpen'
    BY <1>0, <1>4, <2>1, <2>6, AppendLine DEF BlockIsOpen
  <2>7. ASSUME BlockIsOpen, InboxFollowsSeen PROVE InboxFollowsSeen'
    BY <1>0, <1>4, <2>1, <2>3, <2>7, AppendKeepsPlace
  <2> QED BY <1>0, <2>4, <2>5, <2>6, <2>7 DEF StreamInv, Correlated
<1>5. CASE TmuxNotify BY <1>4, <1>5 DEF TmuxNotify
<1>6. CASE TmuxExit BY <1>4, <1>6 DEF TmuxExit
<1>7. CASE TmuxDies
  BY <1>0, <1>7 DEF TmuxDies, StreamInv, AnswersInOrder, InboxInOrder, Correlated,
    BlockIsOpen, InboxFollowsSeen
<1> QED BY <1>1, <1>2, <1>3, <1>5, <1>6, <1>7 DEF Tmux, TmuxNext

-----------------------------------------------------------------------------
(* The client's own steps.                                                 *)

LEMMA SubmitKeepsStream ==
  ASSUME TypeOK, StreamInv, NEW c \in Calls, Submit(c)
  PROVE  StreamInv'
<1> USE SeenType
<1>0. /\ UNCHANGED <<at, part, open, inbox, inflight, activeCommandNumber, awaitingGreeting, link>>
      /\ InBlock' = InBlock
  BY DEF Submit, InBlock
<1>1. written \in Seq(Calls) /\ pending \in Seq(Calls) BY DEF TypeOK, StreamTypeOK
<1>2. CASE UNCHANGED <<written, pending>>
  <2>1. Claimed' = Claimed /\ Seen' = Seen BY <1>0, <1>2 DEF Claimed, Seen
  <2>2. FifoFollowsStream => FifoFollowsStream' BY <1>0, <1>2, <2>1 DEF FifoFollowsStream
  <2>3. BlockIsOpen => BlockIsOpen' BY <1>0, <2>1 DEF BlockIsOpen
  <2>4. InboxFollowsSeen => InboxFollowsSeen' BY <1>0, <2>1 DEF InboxFollowsSeen
  <2>5. AnswersInOrder' /\ InboxInOrder'
    BY <1>0, <1>2 DEF StreamInv, AnswersInOrder, InboxInOrder
  <2> QED BY <1>0, <2>2, <2>3, <2>4, <2>5 DEF StreamInv, Correlated
<1>3. CASE written' = Append(written, c) /\ pending' = Append(pending, c) /\ c \notin Invalid
  <2>0. /\ Len(written') = Len(written) + 1 /\ Len(pending') = Len(pending) + 1
        /\ DOMAIN written' = 1..(Len(written) + 1)
        /\ \A i \in 1..Len(written) : written'[i] = written[i]
        /\ \A i \in 1..Len(pending) : pending'[i] = pending[i]
        /\ written'[Len(written) + 1] = c /\ pending'[Len(pending) + 1] = c
    BY <1>1, <1>3, AppendProperties
  <2>1. Claimed' = Claimed /\ Seen' = Seen BY <1>0, <2>0 DEF Claimed, Seen
  <2>2. ASSUME FifoFollowsStream PROVE FifoFollowsStream'
    <3>1. Len(pending') <= Len(written') BY <2>0, <2>2 DEF FifoFollowsStream
    <3>2. ASSUME NEW i \in 1..Len(pending') PROVE pending'[i] = written'[Claimed' + i]
      <4>1. CASE i \in 1..Len(pending)
        <5>1. Claimed + i \in 1..Len(written) BY <2>2, <4>1 DEF Claimed, FifoFollowsStream
        <5> QED BY <2>0, <2>1, <2>2, <4>1, <5>1 DEF FifoFollowsStream
      <4>2. CASE i = Len(pending) + 1
        <5>1. Claimed + i = Len(written) + 1 BY <4>2 DEF Claimed
        <5> QED BY <2>0, <2>1, <4>2, <5>1
      <4> QED BY <2>0, <4>1, <4>2
    <3>3. inflight # None => written'[Claimed] = written[Claimed]
      BY <2>0, <2>2 DEF FifoFollowsStream, Claimed
    <3> QED BY <1>0, <2>1, <2>2, <3>1, <3>2, <3>3 DEF FifoFollowsStream
  <2>3. BlockIsOpen => BlockIsOpen' BY <1>0, <2>1 DEF BlockIsOpen
  <2>4. InboxFollowsSeen => InboxFollowsSeen' BY <1>0, <2>1 DEF InboxFollowsSeen
  <2>5. InboxInOrder' BY <1>0 DEF StreamInv, InboxInOrder
  <2>6. AnswersInOrder' BY <1>0, <1>3, <2>0 DEF StreamInv, AnswersInOrder
  <2> QED BY <1>0, <2>2, <2>3, <2>4, <2>5, <2>6 DEF StreamInv, Correlated
<1> QED BY <1>2, <1>3 DEF Submit, DropPending, invalidCommand

(* Steps that touch neither the stream nor what the client has read of it. *)
LEMMA ElsewhereKeepsStream ==
  ASSUME StreamInv, link' # "closed" => link # "closed",
         UNCHANGED <<written, at, part, open, inbox>>,
         link' # "closed" =>
           UNCHANGED <<pending, inflight, activeCommandNumber, awaitingGreeting>>
  PROVE  StreamInv'
<1>1. AnswersInOrder' /\ InboxInOrder' BY DEF StreamInv, AnswersInOrder, InboxInOrder
<1>2. ASSUME link' # "closed" PROVE Correlated'
  <2>1. Correlated /\ UNCHANGED <<pending, inflight, activeCommandNumber, awaitingGreeting>>
    BY <1>2 DEF StreamInv
  <2>2. Claimed' = Claimed /\ Seen' = Seen /\ InBlock' = InBlock
    BY <2>1 DEF Claimed, Seen, InBlock
  <2> QED BY <2>1, <2>2 DEF Correlated, FifoFollowsStream, BlockIsOpen, InboxFollowsSeen
<1> QED BY <1>1, <1>2 DEF StreamInv

(* A line read: the FIFO moves with the %begin, the place with both ends.  *)
LEMMA ReceiveKeepsStream ==
  ASSUME TypeOK, StreamInv, ClosingIsAnnounced, Receive
  PROVE  StreamInv'
<1> USE SeenType
<1>0. /\ Take /\ link' = link /\ UNCHANGED <<written, at, part, open>> /\ frames = <<>>
  BY DEF Receive, ReceiveOutput, ReceiveBegin, ReceiveTerminator, ReceiveNotification,
    ReceiveExit, Take
<1>1. AnswersInOrder' /\ InboxInOrder'
  BY <1>0, TakeKeepsOrder DEF StreamInv, AnswersInOrder
<1>2. SUFFICES ASSUME link # "closed" PROVE Correlated'
  BY <1>0, <1>1 DEF StreamInv
<1>3. ~Closed /\ InboxInOrder /\ FifoFollowsStream /\ BlockIsOpen /\ InboxFollowsSeen /\ Correlated
  BY <1>2 DEF ClosingIsAnnounced, StreamInv, Correlated
<1>4. /\ Inside(HeadLine) => HeadLine.of = Seen
      /\ Begins(HeadLine) => ~InBlock /\ HeadLine.of = Seen + 1
  BY <1>0, <1>3, HeadLinePlace
<1>5. ASSUME ~Begins(HeadLine), ~Ends(HeadLine),
             UNCHANGED <<pending, inflight, activeCommandNumber, awaitingGreeting>>
      PROVE  Correlated'
  <2>1. Claimed' = Claimed /\ Seen' = Seen /\ InBlock' = InBlock
    BY <1>0, <1>5 DEF Claimed, Seen, InBlock
  <2>2. InboxFollowsSeen' BY <1>0, <1>3, <1>4, <1>5, <2>1, TakeInside
  <2>3. FifoFollowsStream' BY <1>0, <1>3, <1>5, <2>1 DEF FifoFollowsStream
  <2>4. ASSUME InBlock', Seen' < at'
        PROVE  \E i \in DOMAIN inbox' : Ends(inbox'[i]) /\ inbox'[i].of = Seen'
    <3>1. PICK i \in DOMAIN inbox : Ends(inbox[i]) /\ inbox[i].of = Seen
      BY <1>0, <1>3, <2>1, <2>4 DEF BlockIsOpen
    <3>2. i > 1 BY <1>0, <1>5, <3>1, TakeLine
    <3>3. i - 1 \in DOMAIN inbox' /\ inbox'[i - 1] = inbox[i] BY <1>0, <3>2, TakeLine
    <3> QED BY <2>1, <3>1, <3>3
  <2>5. BlockIsOpen' BY <1>0, <1>3, <1>5, <2>1, <2>4 DEF BlockIsOpen
  <2> QED BY <2>2, <2>3, <2>5 DEF Correlated
<1>6. CASE ReceiveOutput
  <2>1. ~Ends(HeadLine) /\ InBlock
    BY <1>6 DEF ReceiveOutput, TreatAsOutput, IsTerminator, Ends
  <2> QED BY <1>4, <1>5, <1>6, <2>1 DEF ReceiveOutput
<1>7. CASE ReceiveNotification
  BY <1>5, <1>7 DEF ReceiveNotification, Begins, Ends
<1>8. CASE ReceiveExit
  BY <1>5, <1>8 DEF ReceiveExit, Begins, Ends
<1>9. CASE ReceiveBegin
  <2>1. Begins(HeadLine) /\ ~InBlock /\ HeadLine.of = Seen + 1 /\ HeadLine.of \in Nat
    BY <1>0, <1>4, <1>9, TakeLine DEF ReceiveBegin, Begins
  <2>2. activeCommandNumber' = HeadLine.of /\ InBlock' /\ awaitingGreeting' = awaitingGreeting
    BY <1>9, <2>1 DEF ReceiveBegin, InBlock
  <2>3. 1 \in DOMAIN inbox /\ HeadLine = inbox[1] BY <1>0, TakeLine
  <2>4. HeadLine.of <= at /\ (HeadLine.of = at => open)
    BY <1>3, <2>1, <2>3 DEF InboxInOrder, BlockLine, Begins
  <2>5. FifoFollowsStream' /\ Claimed' = Seen + 1
    <3>1. CASE awaitingGreeting
      <4>1. UNCHANGED <<pending, inflight>> /\ Seen = -1
        BY <1>9, <2>1, <3>1 DEF ReceiveBegin, Claims, Seen
      <4>2. Claimed' = Claimed /\ Claimed = 0 BY <1>0, <1>3, <3>1, <4>1 DEF Claimed, FifoFollowsStream
      <4> QED BY <1>0, <1>3, <2>2, <3>1, <4>1, <4>2 DEF FifoFollowsStream
    <3>2. CASE ~awaitingGreeting
      <4>1. Seen = Claimed /\ inflight = None
        BY <1>3, <2>1, <3>2 DEF Seen, FifoFollowsStream
      <4>2. Len(pending) > 0 BY <1>3, <2>1, <2>4, <4>1 DEF Claimed, StreamInv, AnswersInOrder
      <4>3. pending \in Seq(Calls) /\ pending # <<>> BY <4>2, EmptySeq DEF TypeOK
      <4>4. inflight' = pending[1] /\ pending' = Tail(pending)
        BY <1>3, <1>9, <3>2, <4>3 DEF ReceiveBegin, Claims, ClaimOldest
      <4>5. Len(pending') = Len(pending) - 1 /\ \A i \in 1..Len(pending') : pending'[i] = pending[i + 1]
        BY <4>3, <4>4, HeadTailProperties
      <4>6. Claimed' = Claimed + 1 BY <1>0, <4>5 DEF Claimed
      <4>7. \A i \in 1..Len(pending') : pending'[i] = written'[Claimed' + i]
        <5> TAKE i \in 1..Len(pending')
        <5>1. i + 1 \in 1..Len(pending) BY <4>5
        <5>2. pending[i + 1] = written[Claimed + (i + 1)] BY <1>3, <5>1 DEF FifoFollowsStream
        <5>3. Claimed + (i + 1) = Claimed' + i BY <4>6
        <5> QED BY <1>0, <4>5, <5>2, <5>3
      <4>8. inflight' = written'[Claimed'] /\ Claimed' >= 1
        <5>1. pending[1] = written[Claimed + 1] /\ Claimed >= 0
          BY <1>3, <4>2 DEF FifoFollowsStream, Claimed
        <5> QED BY <1>0, <4>4, <4>6, <5>1
      <4>9. Len(pending') <= Len(written') BY <1>0, <1>3, <4>5 DEF FifoFollowsStream
      <4> QED BY <2>2, <3>2, <4>1, <4>6, <4>7, <4>8, <4>9 DEF FifoFollowsStream
    <3> QED BY <3>1, <3>2
  <2>6. Seen' = Seen + 1 BY <2>2, <2>5 DEF Seen
  <2>7. InboxFollowsSeen' BY <1>0, <1>3, <2>1, <2>6, TakeNextBegin
  <2>8. ASSUME Seen' < at'
        PROVE  \E i \in DOMAIN inbox' : Ends(inbox'[i]) /\ inbox'[i].of = Seen'
    <3>1. PICK i \in DOMAIN inbox : Ends(inbox[i]) /\ inbox[i].of = Seen + 1
      BY <1>0, <1>3, <2>1, <2>6, <2>8 DEF InboxFollowsSeen
    <3>2. i > 1 BY <1>0, <2>1, <3>1, TakeLine DEF Begins, Ends
    <3>3. i - 1 \in DOMAIN inbox' /\ inbox'[i - 1] = inbox[i] BY <1>0, <3>2, TakeLine
    <3> QED BY <2>6, <3>1, <3>3
  <2>9. BlockIsOpen' BY <1>0, <2>1, <2>2, <2>4, <2>6, <2>8 DEF BlockIsOpen
  <2> QED BY <2>5, <2>7, <2>9 DEF Correlated
<1>10. CASE ReceiveTerminator
  <2>1. Inside(HeadLine) /\ HeadLine.of = Seen /\ HeadLine.of \in Nat /\ ~Begins(HeadLine)
    BY <1>0, <1>4, <1>10, TakeLine DEF ReceiveTerminator, IsTerminator, Inside, Begins
  <2>2. activeCommandNumber' = -1 /\ ~InBlock' /\ pending' = pending
    BY <1>10 DEF ReceiveTerminator, InBlock
  <2>3. Seen = Claimed /\ (awaitingGreeting => InBlock) BY <2>1 DEF Seen
  <2>4. awaitingGreeting' = FALSE /\ inflight' = None
    <3>1. CASE awaitingGreeting
      BY <1>3, <1>10, <2>3, <3>1 DEF ReceiveTerminator, GreetingDone, FifoFollowsStream
    <3>2. CASE ~awaitingGreeting /\ InBlock
      BY <1>3, <1>10, <3>2 DEF ReceiveTerminator, SettleInflight, TypeOK
    <3>3. CASE ~awaitingGreeting /\ ~InBlock
      BY <1>3, <1>10, <3>3 DEF ReceiveTerminator, SettleInflight, FifoFollowsStream, TypeOK
    <3> QED BY <3>1, <3>2, <3>3
  <2>5. Claimed' = Claimed /\ Seen' = Seen BY <1>0, <2>2, <2>3, <2>4 DEF Claimed, Seen
  <2>6. InboxFollowsSeen' BY <1>0, <1>3, <2>1, <2>5, TakeInside
  <2>7. FifoFollowsStream' BY <1>0, <1>3, <2>2, <2>4, <2>5 DEF FifoFollowsStream
  <2>8. BlockIsOpen' BY <1>0, <1>3, <2>2, <2>5 DEF BlockIsOpen
  <2> QED BY <2>6, <2>7, <2>8 DEF Correlated
<1> QED BY <1>6, <1>7, <1>8, <1>9, <1>10 DEF Receive

-----------------------------------------------------------------------------
(* A reply reaches the call it answers.                                    *)

(* Settling from the head of the inbox is settling with the block of the   *)
(* inflight call itself.                                                   *)
LEMMA SettleOwn ==
  ASSUME TypeOK, StreamInv, OwnReply, ClosingIsAnnounced, Take, UNCHANGED written,
         Inside(HeadLine), ~awaitingGreeting, ~Closed, SettleInflight(Outcome(HeadLine.kind))
  PROVE  OwnReply'
<1> USE SeenType
<1>1. link # "closed" BY DEF ClosingIsAnnounced, Take, Top
<1>2. FifoFollowsStream /\ InboxInOrder /\ Correlated
  BY <1>1 DEF StreamInv, Correlated
<1>3. HeadLine.of = Seen BY <1>2, HeadLinePlace
<1>4. CASE inflight = None BY <1>4 DEF SettleInflight, OwnReply
<1>5. CASE inflight # None
  <2>1. Seen = Claimed BY <1>2, <1>5 DEF FifoFollowsStream, Seen
  <2>2. HeadLine.of \in DOMAIN written /\ written[HeadLine.of] = inflight
    BY <1>2, <1>3, <1>5, <2>1 DEF FifoFollowsStream, Claimed, TypeOK, StreamTypeOK
  <2>3. inflight \in Calls BY <1>5 DEF TypeOK
  <2>4. reply' = [reply EXCEPT ![inflight] =
                   [of |-> HeadLine.of, output |-> collected, size |-> HeadLine.size]]
        /\ status' = [status EXCEPT ![inflight] = Outcome(HeadLine.kind)]
    BY <1>5 DEF SettleInflight
  <2>5. reply \in [Calls -> Reply] /\ status \in [Calls -> {"idle", "waiting"} \cup Settled]
    BY DEF TypeOK
  <2>6. ASSUME NEW c \in Calls, status'[c] \in Replied
        PROVE  reply'[c].of \in DOMAIN written' /\ written'[reply'[c].of] = c
    <3>1. CASE c = inflight BY <2>2, <2>3, <2>4, <2>5, <3>1
    <3>2. CASE c # inflight BY <2>3, <2>4, <2>5, <2>6, <3>2 DEF OwnReply
    <3> QED BY <3>1, <3>2
  <2> QED BY <2>6 DEF OwnReply
<1> QED BY <1>4, <1>5

(* No promise is settled with a reply outside ReceiveTerminator.           *)
LEMMA OwnReplyElsewhere ==
  ASSUME TypeOK, TypeOK', OwnReply, reply' = reply,
         \A c \in Calls : status'[c] \in Replied => status'[c] = status[c],
         written' = written \/ \E c \in Calls : written' = Append(written, c)
  PROVE  OwnReply'
<1>1. written \in Seq(Calls) BY DEF TypeOK, StreamTypeOK
<1>2. \A i \in DOMAIN written : i \in DOMAIN written' /\ written'[i] = written[i]
  <2>1. CASE written' = written BY <2>1
  <2>2. ASSUME NEW c \in Calls, written' = Append(written, c)
        PROVE \A i \in DOMAIN written : i \in DOMAIN written' /\ written'[i] = written[i]
    BY <1>1, <2>2, AppendProperties
  <2> QED BY <2>1, <2>2
<1> QED BY <1>2 DEF OwnReply

LEMMA SubmitOwn ==
  ASSUME TypeOK, TypeOK', OwnReply, NEW c \in Calls, Submit(c)
  PROVE  OwnReply'
<1>1. reply' = reply BY DEF Submit
<1>2. \A d \in Calls : status'[d] \in Replied => status'[d] = status[d]
  <2>1. \E outcome \in {"refused", "invalid", "waiting"} :
          status' = [status EXCEPT ![c] = outcome]
    BY DEF Submit
  <2> QED BY <2>1 DEF TypeOK
<1>3. written' = written \/ written' = Append(written, c) BY DEF Submit, DropPending
<1> QED BY <1>1, <1>2, <1>3, OwnReplyElsewhere

LEMMA OnCloseOwn ==
  ASSUME TypeOK, TypeOK', OwnReply, NEW why \in {"exit", "transport-error"}, OnClose(why),
         UNCHANGED written
  PROVE  OwnReply'
<1>1. reply' = reply BY DEF OnClose
<1>2. \A d \in Calls : status'[d] \in Replied => status'[d] = status[d]
  BY DEF OnClose, SettlePendingOnClose
<1> QED BY <1>1, <1>2, OwnReplyElsewhere

LEMMA PopKeeps ==
  ASSUME TypeOK, frames # <<>>, Pop
  PROVE  \A i \in DOMAIN frames' : i \in DOMAIN frames /\ frames'[i] = frames[i]
<1>1. frames \in Seq({"ready", "exit"}) /\ Len(frames) \in Nat BY DEF TypeOK
<1>2. frames' = SubSeq(frames, 1, Len(frames) - 1) BY DEF Pop
<1> QED BY <1>1, <1>2

LEMMA OnCloseAnnounces ==
  ASSUME TypeOK, NEW why \in {"exit", "transport-error"}, OnClose(why)
  PROVE  ClosingIsAnnounced' /\ link' = "closed"
<1>1. link' = "closed" BY DEF OnClose
<1>2. CASE NeedsSyntheticExit
  <2>1. frames' = Append(frames, "exit") BY <1>2 DEF OnClose
  <2>2. frames' # <<>> /\ frames'[Len(frames')] = "exit"
    BY <2>1, AppendProperties DEF TypeOK
  <2> QED BY <1>1, <2>2 DEF ClosingIsAnnounced, Top
<1>3. CASE ~NeedsSyntheticExit
  BY <1>1, <1>3 DEF OnClose, RunnerLost, AnnounceClosed, ClosingIsAnnounced, Closed
<1> QED BY <1>2, <1>3

LEMMA InitIInv ==
  ASSUME Init
  PROVE  StreamInv /\ ClosingIsAnnounced /\ OwnReply
<1>1. Len(written) = 0 /\ Len(pending) = 0 /\ DOMAIN inbox = {} /\ DOMAIN written = {}
  BY DEF Init, StreamInit
<1>2. AnswersInOrder BY <1>1 DEF Init, StreamInit, AnswersInOrder
<1>3. InboxInOrder BY <1>1 DEF InboxInOrder
<1>4. ~InBlock /\ Claimed = 0 /\ Seen = -1
  <2>1. activeCommandNumber = -1 /\ awaitingGreeting = TRUE BY DEF Init
  <2>2. Len(written) = 0 /\ Len(pending) = 0 BY <1>1
  <2>3. ~InBlock BY <2>1 DEF InBlock
  <2>4. Claimed = 0 BY <2>2 DEF Claimed
  <2> QED BY <2>1, <2>3, <2>4 DEF Seen
<1>5. FifoFollowsStream BY <1>1, <1>4 DEF Init, FifoFollowsStream
<1>6. BlockIsOpen
  <2>1. at = 0 BY DEF Init, StreamInit
  <2> QED BY <1>4, <2>1 DEF BlockIsOpen
<1>7. InboxFollowsSeen
  <2>1. \A k \in Nat : ~(k < at) /\ ~(k = at /\ open) BY DEF Init, StreamInit
  <2> QED BY <1>1, <2>1 DEF InboxFollowsSeen
<1>8. ClosingIsAnnounced
  <2>1. frames = <<>> /\ link # "closed" /\ ~Closed BY DEF Init, Closed
  <2>2. DOMAIN frames = {} BY <2>1
  <2> QED BY <2>1, <2>2 DEF ClosingIsAnnounced
<1>9. OwnReply BY DEF Init, OwnReply
<1> QED BY <1>2, <1>3, <1>5, <1>6, <1>7, <1>8, <1>9 DEF StreamInv, Correlated

LEMMA StepIInv ==
  ASSUME Lists = {}, IInv, [Next]_vars
  PROVE  IInv'
<1>0. TypeOK /\ TypeOK' /\ StreamInv /\ ClosingIsAnnounced /\ OwnReply
  BY TypeStep DEF IInv
<1>a. ASSUME UNCHANGED <<connectionState, link, frames>> PROVE ClosingIsAnnounced'
  BY <1>0, <1>a DEF ClosingIsAnnounced, Closed, Top
<1>b. ASSUME NEW why \in {"exit", "transport-error"}, OnClose(why),
             UNCHANGED <<written, at, part, open, inbox>> PROVE IInv'
  <2>1. ClosingIsAnnounced' /\ link' = "closed" BY <1>0, <1>b, OnCloseAnnounces
  <2>2. StreamInv' BY <1>0, <1>b, <2>1, ElsewhereKeepsStream
  <2>3. OwnReply' BY <1>0, <1>b, OnCloseOwn
  <2> QED BY <1>0, <2>1, <2>2, <2>3 DEF IInv
<1>c. ASSUME reply' = reply, status' = status, written' = written PROVE OwnReply'
  BY <1>0, <1>c, OwnReplyElsewhere
<1>1. ASSUME NEW c \in Calls, Execute(c) PROVE IInv'
  <2>1. ClosingIsAnnounced' BY <1>1, <1>a DEF Execute, Submit
  <2> QED BY <1>0, <1>1, <2>1, SubmitKeepsStream, SubmitOwn DEF Execute, IInv
<1>2. CASE Close
  <2>1. CASE OnClose("exit") BY <1>2, <1>b, <2>1 DEF Close, streamVars
  <2>2. CASE ~OnClose("exit")
    <3>1. /\ UNCHANGED streamVars
          /\ link' = IF link = "closed" THEN link ELSE "closing"
          /\ UNCHANGED <<pending, inflight, activeCommandNumber, awaitingGreeting,
               connectionState, frames, status, reply>>
      BY <1>2, <2>2 DEF Close
    <3>2. ClosingIsAnnounced' BY <1>0, <3>1 DEF ClosingIsAnnounced, Closed, Top
    <3>3. StreamInv' BY <1>0, <3>1, ElsewhereKeepsStream DEF streamVars
    <3>4. OwnReply' BY <3>1, <1>c DEF streamVars
    <3> QED BY <1>0, <3>2, <3>3, <3>4 DEF IInv
  <2> QED BY <2>1, <2>2
<1>3. CASE Detach
  <2>1. CASE OnClose("exit") BY <1>3, <1>b, <2>1 DEF Detach
  <2>2. CASE ~OnClose("exit")
    <3>1. UNCHANGED <<written, at, part, open, inbox>> /\ UNCHANGED clientVars
      BY <1>3, <2>2 DEF Detach
    <3>2. StreamInv' BY <1>0, <3>1, ElsewhereKeepsStream DEF clientVars
    <3> QED BY <1>0, <1>a, <1>c, <3>1, <3>2 DEF IInv, clientVars
  <2> QED BY <2>1, <2>2
<1>4. CASE Link
  <2>1. link # "closed" /\ link' # "closed" BY <1>4 DEF Link, LinkOpens, LinkBreaks
  <2>2. UNCHANGED streamVars /\ UNCHANGED <<pending, inflight, activeCommandNumber,
          awaitingGreeting, connectionState, status, reply>>
    BY <1>4 DEF Link
  <2>3. StreamInv' BY <1>0, <2>1, <2>2, ElsewhereKeepsStream DEF streamVars
  <2>4. ClosingIsAnnounced' BY <1>0, <1>4, <2>1, <2>2 DEF Link, ClosingIsAnnounced, Closed
  <2> QED BY <1>0, <1>c, <2>2, <2>3, <2>4 DEF IInv, streamVars
<1>5. ASSUME NEW why \in {"exit", "transport-error"}, TransportClose(why) PROVE IInv'
  BY <1>5, <1>b DEF TransportClose, streamVars
<1>6. CASE Receive
  <2>0. Take /\ UNCHANGED <<written, link>> /\ frames = <<>>
    BY <1>6 DEF Receive, ReceiveOutput, ReceiveBegin, ReceiveTerminator,
      ReceiveNotification, ReceiveExit, Take
  <2>1. StreamInv' BY <1>0, <1>6, ReceiveKeepsStream
  <2>2. ClosingIsAnnounced'
    <3>1. link = "closed" => Closed BY <1>0, <2>0 DEF ClosingIsAnnounced, Top
    <3>2. Closed => Closed'
      BY <1>6 DEF Receive, ReceiveOutput, ReceiveBegin, ReceiveTerminator,
        ReceiveNotification, ReceiveExit, Closed
    <3>3. ~Closed => ~Closed'
      BY <1>6 DEF Receive, ReceiveOutput, ReceiveBegin, ReceiveTerminator,
        ReceiveNotification, ReceiveExit, Closed, GreetingDone, SettleInflight
    <3>4. \A i \in DOMAIN frames' : frames'[i] # "exit"
      <4>1. frames' = <<>> \/ frames' = Append(<<>>, "ready")
        BY <1>6, <2>0 DEF Receive, ReceiveOutput, ReceiveBegin, ReceiveTerminator,
          ReceiveNotification, ReceiveExit, GreetingDone, SettleInflight
      <4> QED BY <4>1
    <3> QED BY <1>0, <2>0, <3>1, <3>2, <3>3, <3>4 DEF ClosingIsAnnounced
  <2>3. OwnReply'
    <3>1. CASE UNCHANGED <<status, reply>> BY <1>c, <2>0, <3>1
    <3>2. CASE ~UNCHANGED <<status, reply>>
      <4>1. ReceiveTerminator
        BY <1>6, <3>2 DEF Receive, ReceiveOutput, ReceiveBegin, ReceiveNotification, ReceiveExit
      <4>2. ~Closed /\ ~awaitingGreeting /\ SettleInflight(Outcome(HeadLine.kind))
        BY <3>2, <4>1 DEF ReceiveTerminator, GreetingDone
      <4>3. Inside(HeadLine) BY <4>1 DEF ReceiveTerminator, IsTerminator, Inside
      <4> QED BY <1>0, <2>0, <4>2, <4>3, SettleOwn
    <3> QED BY <3>1, <3>2
  <2> QED BY <1>0, <2>1, <2>2, <2>3 DEF IInv
<1>7. CASE FinishReady
  <2>1. Top("ready") /\ UNCHANGED <<link, connectionState>>
    BY <1>7 DEF FinishReady, Submit
  <2>2. ClosingIsAnnounced'
    <3>1. \A i \in DOMAIN frames' : i \in DOMAIN frames /\ frames'[i] = frames[i]
      BY <1>0, <1>7, PopKeeps DEF FinishReady, Top
    <3> QED BY <1>0, <2>1, <3>1 DEF ClosingIsAnnounced, Closed, Top
  <2>3. CASE \E c \in Calls : Submit(c)
    BY <1>0, <2>2, <2>3, SubmitKeepsStream, SubmitOwn DEF IInv
  <2>4. CASE ~\E c \in Calls : Submit(c)
    <3>1. UNCHANGED streamVars /\ UNCHANGED <<pending, inflight, activeCommandNumber,
            awaitingGreeting, link, status, reply>>
      BY <1>7, <2>4 DEF FinishReady
    <3>2. StreamInv' BY <1>0, <3>1, ElsewhereKeepsStream DEF streamVars
    <3> QED BY <1>0, <1>c, <2>2, <3>1, <3>2 DEF IInv, streamVars
  <2> QED BY <2>3, <2>4
<1>8. CASE FinishClose
  <2>1. UNCHANGED streamVars /\ UNCHANGED <<pending, inflight, activeCommandNumber,
          awaitingGreeting, link, status, reply>> /\ Closed' /\ Top("exit")
    BY <1>8 DEF FinishClose, AnnounceClosed, Closed
  <2>2. StreamInv' BY <1>0, <2>1, ElsewhereKeepsStream DEF streamVars
  <2>3. OwnReply' BY <1>c, <2>1 DEF streamVars
  <2>4. CASE link = "closed" BY <1>0, <2>1, <2>2, <2>3, <2>4 DEF IInv, ClosingIsAnnounced
  <2>5. CASE link # "closed"
    <3>1. Len(frames) \in DOMAIN frames BY <1>0, <2>1 DEF Top, TypeOK
    <3> QED BY <1>0, <2>1, <2>5, <3>1 DEF ClosingIsAnnounced, Top
  <2> QED BY <2>4, <2>5
<1>9. CASE Tmux
  <2>1. UNCHANGED clientVars /\ written' = written
    BY <1>9 DEF Tmux, TmuxNext, TmuxBegin, TmuxPayload, TmuxEnd, TmuxNotify, TmuxExit, TmuxDies
  <2>2. StreamInv' BY <1>0, <1>9, TmuxKeepsStream
  <2> QED BY <1>0, <1>a, <1>c, <2>1, <2>2 DEF IInv, clientVars
<1>10. CASE UNCHANGED vars
  <2>1. StreamInv' BY <1>0, <1>10, ElsewhereKeepsStream DEF vars, streamVars, clientVars
  <2> QED BY <1>0, <1>a, <1>c, <1>10, <2>1 DEF IInv, vars, streamVars, clientVars
<1> QED BY <1>1, <1>2, <1>3, <1>4, <1>5, <1>6, <1>7, <1>8, <1>9, <1>10 DEF Next

(* As long as no call is a command list, a promise is only ever settled    *)
(* with the block of its own command: for every set of calls, of refusals, *)
(* of payloads that look like terminators and of corrupted terminators.    *)
THEOREM RepliesReachTheirCalls ==
  ASSUME Lists = {}
  PROVE  Spec => []OwnReply
<1>1. Init => IInv
  <2> SUFFICES ASSUME Init PROVE IInv OBVIOUS
  <2>1. TypeOK BY InitType
  <2> QED BY <2>1, InitIInv DEF IInv
<1>2. IInv /\ [Next]_vars => IInv' BY StepIInv
<1>3. IInv => OwnReply BY DEF IInv
<1> QED BY <1>1, <1>2, <1>3, PTL DEF Spec

-----------------------------------------------------------------------------
(* The inductive invariant.  The calls that wait are the ones tracked, each *)
(* in one place; only an open block has an inflight call, so the next       *)
(* %begin overwrites none.                                                  *)
Waits(c) == (\E i \in DOMAIN pending : pending[i] = c) \/ c = inflight

Tracked ==
  /\ \A c \in Calls : status[c] = "waiting" <=> Waits(c)
  /\ \A i, j \in DOMAIN pending : pending[i] = pending[j] => i = j
  /\ \A i \in DOMAIN pending : pending[i] # inflight
  /\ inflight # None => InBlock /\ ~awaitingGreeting

(* A closed transport has no outstanding calls.  Its `exit' frame is the    *)
(* innermost one and stands until `closed' is announced.                    *)
Ended ==
  /\ link = "closed" => pending = <<>> /\ inflight = None
  /\ Closed => link = "closed"
  /\ link = "closed" /\ ~Closed => Top("exit")
  /\ \A i \in DOMAIN frames : frames[i] = "exit" =>
       i = Len(frames) /\ link = "closed" /\ ~Closed

CInv == TypeOK /\ Tracked /\ Ended

LEMMA TrackedElsewhere ==
  ASSUME Tracked, UNCHANGED <<status, pending, inflight, awaitingGreeting, activeCommandNumber>>
  PROVE  Tracked'
BY DEF Tracked, Waits, InBlock

(* The head of a FIFO and what is left of it.                              *)
LEMMA PendingHead ==
  ASSUME TypeOK, pending # <<>>
  PROVE  /\ 1 \in DOMAIN pending /\ pending[1] \in Calls
         /\ \A i \in DOMAIN Tail(pending) :
              i \in Nat \ {0} /\ i + 1 \in DOMAIN pending /\ Tail(pending)[i] = pending[i + 1]
         /\ \A i \in DOMAIN pending : i \in Nat \ {0}
         /\ \A i \in DOMAIN pending : i # 1 =>
              i - 1 \in DOMAIN Tail(pending) /\ Tail(pending)[i - 1] = pending[i]
<1>1. pending \in Seq(Calls) /\ Len(pending) \in Nat \ {0} BY DEF TypeOK
<1>2. DOMAIN Tail(pending) = 1..(Len(pending) - 1) BY <1>1
<1>3. \A i \in 1..(Len(pending) - 1) : Tail(pending)[i] = pending[i + 1]
  BY <1>1, <1>2, HeadTailProperties
<1> QED BY <1>1, <1>2, <1>3

LEMMA SubmitTracked ==
  ASSUME CInv, NEW c \in Calls, Submit(c)
  PROVE  Tracked'
<1>0. TypeOK /\ Tracked /\ Ended /\ pending \in Seq(Calls) BY DEF CInv, TypeOK
<1>1. status[c] = "idle" /\ ~Waits(c) BY <1>0 DEF Submit, Tracked
<1>2. UNCHANGED <<inflight, activeCommandNumber, awaitingGreeting>> BY DEF Submit
<1>3. CASE pending' = pending /\ (\E s \in {"refused", "invalid"} :
             status' = [status EXCEPT ![c] = s])
  <2>1. \A d \in Calls : status'[d] = "waiting" <=> status[d] = "waiting"
    BY <1>0, <1>1, <1>3 DEF TypeOK
  <2> QED BY <1>0, <1>2, <1>3, <2>1 DEF Tracked, Waits, InBlock
<1>4. CASE pending' = Append(pending, c) /\ status' = [status EXCEPT ![c] = "waiting"]
  <2>1. /\ DOMAIN pending' = 1..(Len(pending) + 1) /\ DOMAIN pending = 1..Len(pending)
        /\ Len(pending) \in Nat /\ pending'[Len(pending) + 1] = c
        /\ \A i \in 1..Len(pending) : pending'[i] = pending[i]
    BY <1>0, <1>4, AppendProperties
  <2>2. \A d \in Calls : status'[d] = "waiting" <=> status[d] = "waiting" \/ d = c
    BY <1>0, <1>4 DEF TypeOK
  <2>3. \A d \in Calls : Waits(d)' <=> Waits(d) \/ d = c
    BY <1>2, <2>1 DEF Waits
  <2>4. \A i \in DOMAIN pending : pending[i] # c BY <1>1 DEF Waits
  <2>5. c # inflight BY <1>1 DEF Waits
  <2>6. \A i, j \in DOMAIN pending' : pending'[i] = pending'[j] => i = j
    BY <1>0, <2>1, <2>4 DEF Tracked
  <2>7. \A i \in DOMAIN pending' : pending'[i] # inflight'
    BY <1>0, <1>2, <2>1, <2>5 DEF Tracked
  <2> QED BY <1>0, <1>2, <2>2, <2>3, <2>6, <2>7 DEF Tracked, InBlock
<1> QED BY <1>3, <1>4 DEF Submit, DropPending

LEMMA SettlePendingTracked ==
  ASSUME CInv, SettlePendingOnClose
  PROVE  Tracked'
<1>1. pending' = <<>> /\ inflight' = None BY DEF SettlePendingOnClose
<1>2. ASSUME NEW c \in Calls PROVE status'[c] # "waiting" /\ ~Waits(c)'
  <2>1. c # None /\ (c \in Outstanding <=> Waits(c))
    BY ClientAssumption DEF Outstanding, Waits
  <2>2. status[c] = "waiting" => c \in Outstanding BY <2>1 DEF CInv, Tracked
  <2>3. status'[c] = IF c \in Outstanding THEN "lost" ELSE status[c]
    BY DEF SettlePendingOnClose
  <2> QED BY <1>1, <2>1, <2>2, <2>3 DEF Waits
<1> QED BY <1>1, <1>2 DEF Tracked

LEMMA OnCloseCInv ==
  ASSUME CInv, NEW why \in {"exit", "transport-error"}, OnClose(why), link # "closed"
  PROVE  Tracked' /\ Ended'
<1>1. Tracked' BY SettlePendingTracked DEF OnClose
<1>2. link' = "closed" /\ pending' = <<>> /\ inflight' = None
  BY DEF OnClose, SettlePendingOnClose
<1>3. ~Closed /\ \A i \in DOMAIN frames : frames[i] # "exit" BY DEF CInv, Ended
<1>4. CASE NeedsSyntheticExit
  <2>1. frames' = Append(frames, "exit") /\ ~Closed'
    BY <1>3, <1>4 DEF OnClose, Closed
  <2>2. /\ frames' # <<>> /\ Len(frames') = Len(frames) + 1 /\ Len(frames) \in Nat
        /\ DOMAIN frames' = 1..(Len(frames) + 1) /\ DOMAIN frames = 1..Len(frames)
        /\ frames'[Len(frames) + 1] = "exit"
        /\ \A i \in 1..Len(frames) : frames'[i] = frames[i]
    BY <2>1, AppendProperties DEF CInv, TypeOK
  <2>3. Top("exit")' BY <2>2 DEF Top
  <2>4. \A i \in DOMAIN frames' : frames'[i] = "exit" => i = Len(frames')
    BY <1>3, <2>2
  <2> QED BY <1>1, <1>2, <2>1, <2>3, <2>4 DEF Ended
<1>5. CASE ~NeedsSyntheticExit
  <2>1. frames' = frames /\ Closed' BY <1>5 DEF OnClose, AnnounceClosed, Closed
  <2> QED BY <1>1, <1>2, <1>3, <2>1 DEF Ended
<1> QED BY <1>4, <1>5

(* Handlers that run under a frame, and the frame that goes.               *)
LEMMA EndedElsewhere ==
  ASSUME Ended, UNCHANGED <<pending, inflight, connectionState, frames, link>>
  PROVE  Ended'
BY DEF Ended, Closed, Top

(* Popping any frame but "exit" leaves no "exit" frame: it is innermost.   *)
LEMMA PopReadyEnded ==
  ASSUME CInv, Top("ready"), Pop, UNCHANGED <<connectionState, link>>,
         link = "closed" => UNCHANGED <<pending, inflight>>
  PROVE  Ended'
<1>1. \A i \in DOMAIN frames' : i \in DOMAIN frames /\ frames'[i] = frames[i]
  BY PopKeeps DEF CInv, Top
<1>2. Len(frames) \in DOMAIN frames BY DEF CInv, TypeOK, Top
<1>3. \A i \in DOMAIN frames : frames[i] # "exit" BY <1>2 DEF CInv, Ended, Top
<1>4. link = "closed" => Closed BY DEF CInv, Ended, Top
<1> QED BY <1>1, <1>3, <1>4 DEF CInv, Ended, Closed

(* The greeting opens the connection: nothing is inflight yet.             *)
LEMMA GreetingCInv ==
  ASSUME CInv, GreetingDone, frames = <<>>, awaitingGreeting, ~Closed,
         UNCHANGED <<pending, link>>
  PROVE  Tracked' /\ Ended'
<1>1. link # "closed" BY DEF CInv, Ended, Top
<1>2. frames' = Append(<<>>, "ready") BY DEF GreetingDone
<1>3. \A i \in DOMAIN frames' : frames'[i] # "exit" BY <1>2
<1>4. ~Closed' BY DEF GreetingDone, Closed
<1>5. Ended' BY <1>1, <1>3, <1>4 DEF Ended
<1>6. inflight = None => Tracked'
  BY DEF CInv, Tracked, Waits, GreetingDone
<1> QED BY <1>5, <1>6 DEF CInv, Tracked

(* Claiming moves a call from the head of the FIFO to the inflight slot.   *)
LEMMA ClaimTracked ==
  ASSUME CInv, Claims, ClaimOldest, ~InBlock, InBlock', UNCHANGED <<status, awaitingGreeting>>
  PROVE  Tracked'
<1>0. Tracked /\ pending # <<>> /\ inflight = None BY DEF CInv, Tracked, Claims
<1>1. pending' = Tail(pending) /\ inflight' = pending[1] BY DEF ClaimOldest
<1> USE PendingHead DEF CInv
<1>2. \A i \in DOMAIN pending' : pending'[i] # inflight'
  <2>1. ASSUME NEW i \in DOMAIN pending' PROVE pending'[i] # inflight'
    <3>1. i + 1 \in DOMAIN pending /\ pending'[i] = pending[i + 1] /\ i + 1 # 1
      BY <1>0, <1>1, <2>1
    <3>2. 1 \in DOMAIN pending BY <1>0
    <3> QED BY <1>0, <1>1, <3>1, <3>2 DEF Tracked
  <2> QED BY <2>1
<1>3. ASSUME NEW i \in DOMAIN pending', NEW j \in DOMAIN pending', pending'[i] = pending'[j]
      PROVE  i = j
  <2>1. i \in Nat /\ j \in Nat /\ i + 1 \in DOMAIN pending /\ j + 1 \in DOMAIN pending
        /\ pending[i + 1] = pending[j + 1]
    BY <1>0, <1>1, <1>3
  <2>2. i + 1 = j + 1 BY <1>0, <2>1 DEF Tracked
  <2> QED BY <2>1, <2>2
<1>4. ASSUME NEW c \in Calls PROVE Waits(c)' <=> Waits(c)
  <2>1. ASSUME Waits(c) PROVE Waits(c)'
    <3>1. c # None BY ClientAssumption
    <3>2. PICK i \in DOMAIN pending : pending[i] = c BY <1>0, <2>1, <3>1 DEF Waits
    <3>3. CASE i = 1 BY <1>1, <3>2, <3>3 DEF Waits
    <3>4. CASE i # 1
      <4>1. i - 1 \in DOMAIN pending' /\ pending'[i - 1] = c BY <1>0, <1>1, <3>2, <3>4
      <4> QED BY <4>1 DEF Waits
    <3> QED BY <3>3, <3>4
  <2>2. ASSUME Waits(c)' PROVE Waits(c)
    <3>1. CASE c = inflight' BY <1>0, <1>1, <3>1 DEF Waits
    <3>2. CASE \E i \in DOMAIN pending' : pending'[i] = c
      <4>1. PICK i \in DOMAIN pending' : pending'[i] = c BY <3>2
      <4>2. i + 1 \in DOMAIN pending /\ pending[i + 1] = c BY <1>0, <1>1, <4>1
      <4> QED BY <4>2 DEF Waits
    <3> QED BY <2>2, <3>1, <3>2 DEF Waits
  <2> QED BY <2>1, <2>2
<1>5. ~awaitingGreeting BY DEF Claims
<1> QED BY <1>0, <1>2, <1>3, <1>4, <1>5 DEF Tracked

(* Settling takes the call out of the inflight slot and out of waiting.    *)
LEMMA SettleTracked ==
  ASSUME CInv, NEW outcome \in Replied, SettleInflight(outcome), UNCHANGED pending
  PROVE  Tracked'
<1>0. Tracked /\ inflight' = None BY DEF CInv, SettleInflight
<1>1. \A i \in DOMAIN pending : pending[i] # None
  BY ClientAssumption DEF CInv, TypeOK
<1>2. ASSUME NEW c \in Calls
      PROVE  status'[c] = "waiting" <=> \E i \in DOMAIN pending : pending[i] = c
  <2>1. CASE inflight = None
    BY <1>0, <2>1, ClientAssumption DEF SettleInflight, Tracked, Waits
  <2>2. CASE inflight # None
    <3>1. inflight \in Calls /\ status' = [status EXCEPT ![inflight] = outcome]
      BY <2>2 DEF SettleInflight, CInv, TypeOK
    <3>2. CASE c = inflight
      <4>1. status'[c] = outcome BY <3>1, <3>2 DEF CInv, TypeOK
      <4> QED BY <1>0, <3>2, <4>1 DEF Tracked
    <3>3. CASE c # inflight
      <4>1. status'[c] = status[c] BY <3>1, <3>3 DEF CInv, TypeOK
      <4> QED BY <1>0, <3>3, <4>1 DEF Tracked, Waits
    <3> QED BY <3>2, <3>3
  <2> QED BY <2>1, <2>2
<1>3. \A c \in Calls : c # None BY ClientAssumption
<1> QED BY <1>0, <1>1, <1>2, <1>3 DEF Tracked, Waits

(* A line off the stream reaches the FIFO only while the transport lives.  *)
LEMMA ReceiveCInv ==
  ASSUME CInv, Receive
  PROVE  Tracked' /\ Ended'
<1>1. Take /\ frames = <<>> /\ UNCHANGED link /\ HeadLine \in Line
  BY TakeType DEF CInv, Receive, ReceiveOutput, ReceiveBegin, ReceiveTerminator,
    ReceiveNotification, ReceiveExit, Take
<1>2. Tracked /\ Ended /\ (Closed <=> link = "closed")
  BY <1>1 DEF CInv, Ended, Top
<1>3. CASE ReceiveOutput \/ ReceiveNotification \/ ReceiveExit
  <2>1. UNCHANGED <<status, pending, inflight, awaitingGreeting, activeCommandNumber,
          connectionState, frames, link>>
    BY <1>1, <1>3 DEF ReceiveOutput, ReceiveNotification, ReceiveExit
  <2> QED BY <1>2, <2>1, TrackedElsewhere, EndedElsewhere
<1>4. CASE ReceiveBegin
  <2>1. /\ UNCHANGED <<status, awaitingGreeting, connectionState, frames>> /\ ~InBlock
        /\ activeCommandNumber' = HeadLine.of /\ HeadLine.of \in Nat
    BY <1>1, <1>4 DEF ReceiveBegin, TreatAsOutput, IsTerminator, Line
  <2>2. InBlock' BY <2>1 DEF InBlock
  <2>3. CASE Claims
    <3>1. ClaimOldest /\ link # "closed" BY <1>2, <1>4, <2>3 DEF ReceiveBegin, Claims
    <3>2. Tracked' BY <2>1, <2>2, <2>3, <3>1, ClaimTracked
    <3>3. ~Closed' /\ link' # "closed" /\ DOMAIN frames' = {}
      BY <1>1, <1>2, <2>1, <3>1 DEF Closed
    <3> QED BY <3>2, <3>3 DEF Ended
  <2>4. CASE ~Claims
    <3>1. UNCHANGED <<pending, inflight>> BY <1>4, <2>4 DEF ReceiveBegin
    <3>2. inflight = None BY <1>2, <2>1 DEF Tracked
    <3>3. Tracked' BY <1>2, <2>1, <3>1, <3>2 DEF Tracked, Waits
    <3> QED BY <1>1, <1>2, <2>1, <3>1, <3>3, EndedElsewhere
  <2> QED BY <2>3, <2>4
<1>5. CASE ReceiveTerminator
  <2>1. activeCommandNumber' = -1 /\ UNCHANGED pending BY <1>5 DEF ReceiveTerminator
  <2>2. CASE Closed \/ (HeadLine.kind = "mangled" /\ ~InBlock)
    <3>1. UNCHANGED <<inflight, status, awaitingGreeting, connectionState, frames>>
      BY <1>5, <2>2 DEF ReceiveTerminator
    <3>2. inflight = None BY <1>2, <2>2 DEF Tracked, Ended
    <3>3. Tracked' BY <1>2, <2>1, <3>1, <3>2 DEF Tracked, Waits
    <3> QED BY <1>1, <1>2, <2>1, <3>1, <3>3, EndedElsewhere
  <2>3. CASE ~Closed /\ GreetingDone /\ awaitingGreeting
    BY <1>1, <2>1, <2>3, GreetingCInv
  <2>4. CASE ~Closed /\ SettleInflight(Outcome(HeadLine.kind))
    <3>1. Outcome(HeadLine.kind) \in Replied BY DEF Outcome
    <3>2. Tracked' BY <2>1, <2>4, <3>1, SettleTracked
    <3>3. ~Closed' /\ link' # "closed" /\ DOMAIN frames' = {}
      BY <1>1, <1>2, <2>4 DEF SettleInflight, Closed
    <3> QED BY <3>2, <3>3 DEF Ended
  <2> QED BY <1>5, <2>2, <2>3, <2>4 DEF ReceiveTerminator
<1> QED BY <1>3, <1>4, <1>5 DEF Receive

LEMMA InitCInv ==
  ASSUME Init
  PROVE  CInv
<1>1. DOMAIN pending = {} /\ DOMAIN frames = {} /\ link # "closed" /\ ~Closed
  BY DEF Init, Closed
<1>2. \A c \in Calls : status[c] = "idle" /\ c # None BY ClientAssumption DEF Init
<1>3. Tracked BY <1>1, <1>2 DEF Init, Tracked, Waits
<1>4. Ended BY <1>1 DEF Ended
<1> QED BY <1>3, <1>4, InitType DEF CInv

LEMMA StepCInv ==
  ASSUME CInv, [Next]_vars
  PROVE  CInv'
<1>0. TypeOK /\ TypeOK' /\ Tracked /\ Ended BY TypeStep DEF CInv
<1>a. ASSUME UNCHANGED <<status, pending, inflight, awaitingGreeting, activeCommandNumber,
               connectionState, frames, link>>
      PROVE  CInv'
  BY <1>0, <1>a, TrackedElsewhere, EndedElsewhere DEF CInv
<1>1. ASSUME NEW c \in Calls, Execute(c) PROVE CInv'
  <2>1. Tracked' BY <1>1, SubmitTracked DEF Execute
  <2>2. UNCHANGED <<inflight, connectionState, frames, link>>
        /\ (link = "closed" => UNCHANGED pending)
    BY <1>1 DEF Execute, Submit, Accepts, DropPending
  <2>3. Ended' BY <1>0, <2>2 DEF Ended, Closed, Top
  <2> QED BY <1>0, <2>1, <2>3 DEF CInv
<1>2. CASE Close
  <2>1. CASE OnClose("exit") /\ link # "closed" BY <1>0, <2>1, OnCloseCInv DEF CInv
  <2>2. CASE ~(OnClose("exit") /\ link # "closed")
    <3>1. /\ UNCHANGED <<status, pending, inflight, awaitingGreeting, activeCommandNumber,
               connectionState, frames>>
          /\ link' = IF link = "closed" THEN link ELSE "closing"
      BY <1>2, <2>2 DEF Close
    <3>2. Tracked' BY <1>0, <3>1, TrackedElsewhere
    <3>3. Ended' BY <1>0, <3>1 DEF Ended, Closed, Top
    <3> QED BY <1>0, <3>2, <3>3 DEF CInv
  <2> QED BY <2>1, <2>2
<1>3. CASE Detach
  <2>1. CASE OnClose("exit") /\ link = "open" BY <1>0, <2>1, OnCloseCInv DEF CInv
  <2>2. CASE UNCHANGED clientVars BY <1>a, <2>2 DEF clientVars
  <2> QED BY <1>3, <2>1, <2>2 DEF Detach
<1>4. CASE Link
  <2>1. link # "closed" /\ link' # "closed" BY <1>4 DEF Link, LinkOpens, LinkBreaks
  <2>2. frames' = frames /\ UNCHANGED <<status, pending, inflight, awaitingGreeting,
          activeCommandNumber, connectionState>>
    BY <1>4 DEF Link
  <2>3. Tracked' /\ Ended' BY <1>0, <2>1, <2>2, TrackedElsewhere DEF Ended, Closed
  <2> QED BY <1>0, <2>3 DEF CInv
<1>5. ASSUME NEW why \in {"exit", "transport-error"}, TransportClose(why) PROVE CInv'
  BY <1>0, <1>5, OnCloseCInv DEF CInv, TransportClose
<1>6. CASE Receive BY <1>0, <1>6, ReceiveCInv DEF CInv
<1>7. CASE FinishReady
  <2>1. CASE \E c \in Calls : Submit(c)
    <3>1. PICK c \in Calls : Submit(c) BY <2>1
    <3>2. Tracked' BY <3>1, SubmitTracked
    <3>3. UNCHANGED <<inflight, connectionState, link>>
          /\ (link = "closed" => UNCHANGED pending)
      BY <3>1 DEF Submit, Accepts, DropPending
    <3>4. Ended' BY <1>7, <3>3, PopReadyEnded DEF FinishReady
    <3> QED BY <1>0, <3>2, <3>4 DEF CInv
  <2>2. CASE ~\E c \in Calls : Submit(c)
    <3>1. UNCHANGED <<status, pending, inflight, awaitingGreeting, activeCommandNumber,
            connectionState, link>>
      BY <1>7, <2>2 DEF FinishReady
    <3>2. Tracked' BY <1>0, <3>1, TrackedElsewhere
    <3>3. Ended' BY <1>7, <3>1, PopReadyEnded DEF FinishReady
    <3> QED BY <1>0, <3>2, <3>3 DEF CInv
  <2> QED BY <2>1, <2>2
<1>8. CASE FinishClose
  <2>1. UNCHANGED <<status, pending, inflight, awaitingGreeting, activeCommandNumber, link>>
        /\ Closed' /\ Top("exit") /\ Pop
    BY <1>8 DEF FinishClose, AnnounceClosed, Closed
  <2>2. Tracked' BY <1>0, <2>1, TrackedElsewhere
  <2>3. Len(frames) \in DOMAIN frames BY <1>0, <2>1 DEF Top, TypeOK
  <2>4. link = "closed" BY <1>0, <2>1, <2>3 DEF Ended, Top
  <2>5. \A i \in DOMAIN frames' : i \in DOMAIN frames /\ frames'[i] = frames[i]
                                /\ i # Len(frames)
    <3>1. frames' = SubSeq(frames, 1, Len(frames) - 1) /\ frames \in Seq({"ready", "exit"})
          /\ Len(frames) \in Nat
      BY <1>0, <2>1 DEF Pop, TypeOK
    <3> QED BY <3>1
  <2>6. Ended' BY <1>0, <2>1, <2>4, <2>5 DEF Ended
  <2> QED BY <1>0, <2>2, <2>6 DEF CInv
<1>9. CASE Tmux BY <1>9, <1>a DEF Tmux, clientVars
<1>10. CASE UNCHANGED vars BY <1>10, <1>a DEF vars, clientVars
<1> QED BY <1>1, <1>2, <1>3, <1>4, <1>5, <1>6, <1>7, <1>8, <1>9, <1>10 DEF Next

-----------------------------------------------------------------------------
(* What follows from it.                                                   *)

(* TmuxClient rejects every outstanding call in its onClose handler, before *)
(* it announces `closed', and refuses every call made during the handlers   *)
(* of `exit' or later: nobody waits on a closed connection.                 *)
THEOREM NobodyWaits == Spec => []NobodyWaitsOnAClosedConnection
<1>1. Init => CInv BY InitCInv
<1>2. CInv /\ [Next]_vars => CInv' BY StepCInv
<1>3. CInv => NobodyWaitsOnAClosedConnection
  <2>1. ASSUME CInv, Closed, NEW c \in Calls PROVE status[c] # "waiting"
    BY <2>1, ClientAssumption DEF CInv, Ended, Tracked, Waits
  <2> QED BY <2>1 DEF NobodyWaitsOnAClosedConnection
<1> QED BY <1>1, <1>2, <1>3, PTL DEF Spec

LEMMA OnCloseSettles ==
  ASSUME CInv, NEW why \in {"exit", "transport-error"}, OnClose(why)
  PROVE  \A c \in Calls : status[c] \in Settled => status'[c] = status[c] /\ reply'[c] = reply[c]
<1>1. \A c \in Calls : c \in Outstanding <=> Waits(c)
  BY ClientAssumption DEF Outstanding, Waits
<1>2. \A c \in Calls : c \in Outstanding => status[c] = "waiting"
  BY <1>1 DEF CInv, Tracked
<1>3. \A c \in Calls : status'[c] = IF c \in Outstanding THEN "lost" ELSE status[c]
  BY DEF OnClose, SettlePendingOnClose
<1>4. reply' = reply BY DEF OnClose
<1> QED BY <1>2, <1>3, <1>4

LEMMA SubmitSettles ==
  ASSUME CInv, NEW d \in Calls, Submit(d)
  PROVE  \A c \in Calls : status[c] \in Settled => status'[c] = status[c] /\ reply'[c] = reply[c]
<1>1. status[d] = "idle" /\ reply' = reply BY DEF Submit
<1>2. \E s \in {"refused", "invalid", "waiting"} : status' = [status EXCEPT ![d] = s]
  BY DEF Submit
<1> QED BY <1>1, <1>2 DEF CInv, TypeOK

LEMMA ReceiveSettles ==
  ASSUME CInv, Receive
  PROVE  \A c \in Calls : status[c] \in Settled => status'[c] = status[c] /\ reply'[c] = reply[c]
<1>1. CASE UNCHANGED <<status, reply>> BY <1>1
<1>2. CASE ~UNCHANGED <<status, reply>>
  <2>1. SettleInflight(Outcome(HeadLine.kind)) /\ inflight # None
    BY <1>2 DEF Receive, ReceiveOutput, ReceiveBegin, ReceiveTerminator,
      ReceiveNotification, ReceiveExit, GreetingDone, SettleInflight
  <2>2. inflight \in Calls /\ status[inflight] = "waiting"
    BY <2>1 DEF CInv, TypeOK, Tracked, Waits
  <2>3. \A c \in Calls : c # inflight => status'[c] = status[c] /\ reply'[c] = reply[c]
    BY <2>1, <2>2 DEF SettleInflight, CInv, TypeOK
  <2> QED BY <2>2, <2>3
<1> QED BY <1>1, <1>2

(* A promise settles once: late lines, a second close signal, close() after *)
(* the end and a reply after a rejection leave it and its reply alone.      *)
THEOREM SettledStays == Spec => SettledOnce
<1>1. Init => CInv BY InitCInv
<1>2. CInv /\ [Next]_vars => CInv' BY StepCInv
<1>3. CInv /\ [Next]_vars =>
        [\A c \in Calls : status[c] \in Settled =>
            status'[c] = status[c] /\ reply'[c] = reply[c]]_vars
  <2> SUFFICES ASSUME CInv, [Next]_vars
               PROVE  \A c \in Calls : status[c] \in Settled =>
                        status'[c] = status[c] /\ reply'[c] = reply[c]
    OBVIOUS
  <2>a. CASE UNCHANGED <<status, reply>> BY <2>a
  <2>1. CASE \E c \in Calls : Execute(c) BY <2>1, SubmitSettles DEF Execute
  <2>2. CASE Close BY <2>2, <2>a, OnCloseSettles DEF Close
  <2>3. CASE Detach BY <2>3, <2>a, OnCloseSettles DEF Detach, clientVars
  <2>4. CASE Link BY <2>4, <2>a DEF Link
  <2>5. CASE \E why \in {"exit", "transport-error"} : TransportClose(why)
    BY <2>5, OnCloseSettles DEF TransportClose
  <2>6. CASE Receive BY <2>6, ReceiveSettles
  <2>7. CASE FinishReady BY <2>7, <2>a, SubmitSettles DEF FinishReady
  <2>8. CASE FinishClose BY <2>8, <2>a DEF FinishClose
  <2>9. CASE Tmux BY <2>9, <2>a DEF Tmux, clientVars
  <2>10. CASE UNCHANGED vars BY <2>10, <2>a DEF vars, clientVars
  <2> QED BY <2>1, <2>2, <2>3, <2>4, <2>5, <2>6, <2>7, <2>8, <2>9, <2>10 DEF Next
<1> QED BY <1>1, <1>2, <1>3, PTL DEF Spec, SettledOnce

(* `closed' is terminal: whatever is still in the inbox, and whatever the   *)
(* consumers call, the state stays closed, the FIFO stays empty and no      *)
(* further event is emitted.                                                *)
THEOREM ClosedStaysClosed == Spec => ClosedIsFinal
<1>1. Init => CInv BY InitCInv
<1>2. CInv /\ [Next]_vars => CInv' BY StepCInv
<1>3. CInv /\ [Next]_vars =>
        [Closed => Closed' /\ UNCHANGED <<reason, events, exits, pending, inflight>>]_vars
  <2> SUFFICES ASSUME CInv, [Next]_vars, Closed
               PROVE  Closed' /\ UNCHANGED <<reason, events, exits, pending, inflight>>
    OBVIOUS
  <2>0. link = "closed" /\ pending = <<>> BY DEF CInv, Ended
  <2>a. CASE UNCHANGED <<connectionState, reason, events, exits, pending, inflight>>
    BY <2>a DEF Closed
  <2>1. CASE \E c \in Calls : Execute(c) BY <2>1, <2>a DEF Execute, Submit
  <2>2. CASE Close BY <2>0, <2>2, <2>a DEF Close
  <2>3. CASE Detach BY <2>0, <2>3, <2>a DEF Detach, clientVars
  <2>4. CASE Link BY <2>4, <2>a DEF Link
  <2>5. CASE \E why \in {"exit", "transport-error"} : TransportClose(why)
    BY <2>0, <2>5 DEF TransportClose
  <2>6. CASE Receive
    BY <2>0, <2>6, <2>a DEF Receive, ReceiveOutput, ReceiveBegin, Claims, ReceiveTerminator,
      ReceiveNotification, Emits, ReceiveExit
  <2>7. CASE FinishReady BY <2>7, <2>a DEF FinishReady, Submit
  <2>8. CASE FinishClose
    <3>1. Len(frames) \in DOMAIN frames /\ frames[Len(frames)] = "exit"
      BY <2>8 DEF FinishClose, Top, CInv, TypeOK
    <3> QED BY <3>1 DEF CInv, Ended
  <2>9. CASE Tmux BY <2>9, <2>a DEF Tmux, clientVars
  <2>10. CASE UNCHANGED vars BY <2>10, <2>a DEF vars, clientVars
  <2> QED BY <2>1, <2>2, <2>3, <2>4, <2>5, <2>6, <2>7, <2>8, <2>9, <2>10 DEF Next
<1> QED BY <1>1, <1>2, <1>3, PTL DEF Spec, ClosedIsFinal

-----------------------------------------------------------------------------
(* Every promise is tracked exactly once.                                  *)

LEMMA TrackedMeansWaiting ==
  ASSUME CInv
  PROVE  WaitingIsTracked
<1> DEFINE S == {pending[i] : i \in DOMAIN pending}
<1> HIDE DEF S
<1>0. TypeOK /\ Tracked /\ pending \in Seq(Calls) BY DEF CInv, TypeOK
<1>1. Len(pending) \in Nat /\ DOMAIN pending = 1..Len(pending) BY <1>0
<1>2. \A i \in DOMAIN pending : pending[i] \in Calls BY <1>0
<1>3. Outstanding = S \cup ({inflight} \ {None}) BY DEF Outstanding, S
<1>4. Outstanding = {c \in Calls : status[c] = "waiting"}
  <2>1. \A c \in Calls : c \in Outstanding <=> Waits(c)
    BY <1>3, ClientAssumption DEF S, Waits
  <2>2. \A c \in Outstanding : c \in Calls
    BY <1>0, <1>2, <1>3 DEF S, TypeOK
  <2> QED BY <1>0, <2>1, <2>2 DEF Tracked
<1>5. IsFiniteSet(S) /\ Cardinality(S) = Len(pending)
  <2>2. pending \in [1..Len(pending) -> S]
    <3>1. pending = [i \in 1..Len(pending) |-> pending[i]] BY <1>0
    <3>2. \A i \in 1..Len(pending) : pending[i] \in S BY <1>1 DEF S
    <3> QED BY <3>1, <3>2
  <2>3. pending \in Bijection(1..Len(pending), S)
    <3>1. pending \in Injection(1..Len(pending), S)
      BY <1>0, <1>1, <2>2, Zenon DEF Injection, IsInjective, Tracked
    <3>2. pending \in Surjection(1..Len(pending), S)
      BY <1>1, <2>2, Zenon DEF Surjection, S
    <3> QED BY <3>1, <3>2 DEF Bijection
  <2>4. ExistsBijection(1..Len(pending), S) BY <2>3 DEF ExistsBijection
  <2>5. IsFiniteSet(1..Len(pending)) /\ Cardinality(1..Len(pending)) = Len(pending)
    <3>1. 1 \in Int /\ Len(pending) \in Int BY <1>1
    <3>2. /\ IsFiniteSet(1..Len(pending))
          /\ Cardinality(1..Len(pending)) =
               (IF 1 > Len(pending) THEN 0 ELSE Len(pending) - 1 + 1)
      BY <3>1, FS_Interval, Zenon
    <3> QED BY <1>1, <3>2
  <2> QED BY <2>4, <2>5, FS_Bijection
<1>6. Cardinality(Outstanding) = Len(pending) + (IF inflight = None THEN 0 ELSE 1)
  <2>1. CASE inflight = None
    <3>1. Outstanding = S BY <1>3, <2>1
    <3> QED BY <1>1, <1>5, <2>1, <3>1
  <2>2. CASE inflight # None
    <3>1. Outstanding = S \cup {inflight} BY <1>3, <2>2
    <3>2. inflight \notin S BY <1>0 DEF S, Tracked
    <3> QED BY <1>1, <1>5, <2>2, <3>1, <3>2, FS_AddElement
  <2> QED BY <2>1, <2>2
<1> QED BY <1>4, <1>6 DEF WaitingIsTracked

(* No promise is dropped or tracked twice by execute(), handleMessage() and *)
(* the onClose handler: the calls that wait are exactly those in the FIFO   *)
(* and the inflight slot, each in one place.                                *)
THEOREM AllTracked == Spec => []WaitingIsTracked
<1>1. Init => CInv BY InitCInv
<1>2. CInv /\ [Next]_vars => CInv' BY StepCInv
<1>3. CInv => WaitingIsTracked BY TrackedMeansWaiting
<1> QED BY <1>1, <1>2, <1>3, PTL DEF Spec

-----------------------------------------------------------------------------
(* `exit' is announced once and before `closed'.                           *)

ExitOnce ==
  /\ exits \in {0, 1}
  /\ exits = 1 <=> exitAlreadyEmitted
  /\ link = "closed" => exitAlreadyEmitted

LEMMA OnCloseExits ==
  ASSUME ExitOnce, NEW why \in {"exit", "transport-error"}, OnClose(why)
  PROVE  ExitOnce'
<1>1. CASE NeedsSyntheticExit BY <1>1 DEF OnClose, ExitOnce, NeedsSyntheticExit
<1>2. CASE ~NeedsSyntheticExit
  <2>1. exitAlreadyEmitted /\ UNCHANGED <<exitAlreadyEmitted, exits>>
    BY <1>2 DEF OnClose, NeedsSyntheticExit
  <2> QED BY <2>1 DEF ExitOnce
<1> QED BY <1>1, <1>2

LEMMA StepExitOnce ==
  ASSUME CInv, ExitOnce, [Next]_vars
  PROVE  ExitOnce'
<1>a. ASSUME UNCHANGED <<exits, exitAlreadyEmitted>>, link' = "closed" => link = "closed"
      PROVE  ExitOnce'
  BY <1>a DEF ExitOnce
<1>1. CASE \E c \in Calls : Execute(c) BY <1>1, <1>a DEF Execute, Submit
<1>2. CASE Close BY <1>2, <1>a, OnCloseExits DEF Close
<1>3. CASE Detach BY <1>3, <1>a, OnCloseExits DEF Detach, clientVars
<1>4. CASE Link BY <1>4, <1>a DEF Link, LinkOpens, LinkBreaks
<1>5. CASE \E why \in {"exit", "transport-error"} : TransportClose(why)
  BY <1>5, OnCloseExits DEF TransportClose
<1>6. CASE Receive
  <2>1. link' = link
    BY <1>6 DEF Receive, ReceiveOutput, ReceiveBegin, ReceiveTerminator, ReceiveNotification,
      ReceiveExit, Take
  <2>2. CASE UNCHANGED <<exits, exitAlreadyEmitted>> BY <1>a, <2>1, <2>2
  <2>3. CASE ~UNCHANGED <<exits, exitAlreadyEmitted>>
    <3>1. ~exitAlreadyEmitted /\ exitAlreadyEmitted' = TRUE /\ exits' = exits + 1
      BY <1>6, <2>3 DEF Receive, ReceiveOutput, ReceiveBegin, ReceiveTerminator,
        ReceiveNotification, ReceiveExit
    <3> QED BY <3>1 DEF ExitOnce
  <2> QED BY <2>2, <2>3
<1>7. CASE FinishReady BY <1>7, <1>a DEF FinishReady, Submit
<1>8. CASE FinishClose BY <1>8, <1>a DEF FinishClose
<1>9. CASE Tmux BY <1>9, <1>a DEF Tmux, clientVars
<1>10. CASE UNCHANGED vars BY <1>10, <1>a DEF vars, clientVars
<1> QED BY <1>1, <1>2, <1>3, <1>4, <1>5, <1>6, <1>7, <1>8, <1>9, <1>10 DEF Next

(* Consumers hear `exit' exactly once before `closed', whether tmux's %exit *)
(* or the transport's close comes first, or both come.                      *)
THEOREM ExitComesFirst == Spec => []ExitBeforeClosed
<1>1. Init => CInv /\ ExitOnce
  <2>1. Init => ExitOnce BY DEF Init, ExitOnce
  <2> QED BY <2>1, InitCInv
<1>2. CInv /\ ExitOnce /\ [Next]_vars => CInv' /\ ExitOnce' BY StepCInv, StepExitOnce
<1>3. CInv /\ ExitOnce => ExitBeforeClosed
  BY DEF CInv, Ended, ExitOnce, ExitBeforeClosed
<1> QED BY <1>1, <1>2, <1>3, PTL DEF Spec

-----------------------------------------------------------------------------
(* The client implements CommandPromises.                                  *)

Queue == (IF inflight = None THEN <<>> ELSE <<inflight>>) \o pending

LEMMA QueueShape ==
  ASSUME CInv
  PROVE  /\ inflight = None => Queue = pending
         /\ inflight # None => Queue = <<inflight>> \o pending
         /\ pending \in Seq(Calls)
BY DEF CInv, TypeOK, Queue

(* A refused call leaves the line alone, an accepted one joins its end.    *)
LEMMA SubmitImplements ==
  ASSUME CInv, NEW c \in Calls, Submit(c)
  PROVE  [Promises!Next]_(Promises!vars)
<1>0. pending \in Seq(Calls) /\ inflight' = inflight /\ link' = link /\ status[c] = "idle"
  BY DEF CInv, TypeOK, Submit
<1>1. CASE pending' = pending /\ (\E s \in {"refused", "invalid"} :
             status' = [status EXCEPT ![c] = s])
  BY <1>0, <1>1 DEF Promises!Next, Promises!Refuse
<1>2. CASE /\ pending' = Append(pending, c) /\ status' = [status EXCEPT ![c] = "waiting"]
           /\ link # "closed"
  <2>1. Queue' = Append(Queue, c)
    <3>1. CASE inflight = None BY <1>0, <1>2, <3>1 DEF Queue
    <3>2. CASE inflight # None
      <4>1. inflight \in Calls BY <3>2 DEF CInv, TypeOK
      <4>2. <<inflight>> \o Append(pending, c) = Append(<<inflight>> \o pending, c)
        BY <1>0, <4>1
      <4> QED BY <1>0, <1>2, <3>2, <4>2 DEF Queue
    <3> QED BY <3>1, <3>2
  <2>2. Promises!Accept(c) BY <1>0, <1>2, <2>1 DEF Promises!Accept, Queue
  <2> QED BY <2>2 DEF Promises!Next
<1> QED BY <1>1, <1>2 DEF Submit, DropPending, Accepts

(* The transport's close empties the line and rejects whoever stood in it. *)
LEMMA OnCloseImplements ==
  ASSUME CInv, NEW why \in {"exit", "transport-error"}, OnClose(why), link # "closed"
  PROVE  Promises!Next
<1>1. link' = "closed" /\ pending' = <<>> /\ inflight' = None
      /\ status' = [c \in Calls |-> IF c \in Outstanding THEN "lost" ELSE status[c]]
  BY DEF OnClose, SettlePendingOnClose
<1>2. Queue' = <<>> BY <1>1 DEF Queue
<1>3. \A c \in Calls : c \in Outstanding <=> \E i \in DOMAIN Queue : Queue[i] = c
  <2>0. pending \in Seq(Calls) BY QueueShape
  <2>1. CASE inflight = None BY <2>1, ClientAssumption DEF Outstanding, Queue
  <2>2. CASE inflight # None
    <3>1. Len(pending) \in Nat /\ DOMAIN pending = 1..Len(pending) BY <2>0
    <3>2. inflight \in Calls BY <2>2 DEF CInv, TypeOK
    <3>3. /\ DOMAIN Queue = 1..(Len(pending) + 1) /\ Queue[1] = inflight
          /\ \A i \in 1..Len(pending) : Queue[i + 1] = pending[i]
      BY <2>0, <2>2, <3>1, <3>2 DEF Queue
    <3>4. \A i \in 1..(Len(pending) + 1) : i # 1 => i - 1 \in 1..Len(pending) /\ (i - 1) + 1 = i
      BY <3>1
    <3>5. \A i \in 1..Len(pending) : i + 1 \in 1..(Len(pending) + 1) BY <3>1
    <3>6. 1 \in DOMAIN Queue BY <3>1, <3>3
    <3>7. ASSUME NEW c \in Calls
          PROVE  (\E i \in DOMAIN Queue : Queue[i] = c) <=>
                   c = inflight \/ \E i \in DOMAIN pending : pending[i] = c
      <4>1. ASSUME NEW i \in DOMAIN Queue, Queue[i] = c
            PROVE  c = inflight \/ \E j \in DOMAIN pending : pending[j] = c
        <5>1. CASE i = 1 BY <3>3, <4>1, <5>1
        <5>2. CASE i # 1
          <6>1. i - 1 \in DOMAIN pending /\ Queue[(i - 1) + 1] = pending[i - 1]
                /\ (i - 1) + 1 = i
            BY <3>1, <3>3, <3>4, <4>1, <5>2
          <6> QED BY <4>1, <6>1
        <5> QED BY <5>1, <5>2
      <4>2. ASSUME NEW i \in DOMAIN pending, pending[i] = c
            PROVE  \E j \in DOMAIN Queue : Queue[j] = c
        BY <3>1, <3>3, <3>5, <4>2
      <4> QED BY <3>3, <3>6, <4>1, <4>2
    <3> QED BY <2>2, <3>7 DEF Outstanding
  <2> QED BY <2>1, <2>2
<1>4. Promises!End BY <1>1, <1>2, <1>3 DEF Promises!End, Queue
<1> QED BY <1>4 DEF Promises!Next

(* Only the reply to the call at the head of the line moves the line; a     *)
(* %begin moves a call from the FIFO to the inflight slot, which is in      *)
(* front of it.                                                             *)
LEMMA ReceiveImplements ==
  ASSUME CInv, Receive
  PROVE  [Promises!Next]_(Promises!vars)
<1>1. UNCHANGED link
  BY DEF Receive, ReceiveOutput, ReceiveBegin, ReceiveTerminator, ReceiveNotification,
    ReceiveExit, Take
<1>2. Tracked /\ pending \in Seq(Calls) BY DEF CInv, TypeOK
<1>3. CASE UNCHANGED <<status, pending, inflight>> BY <1>1, <1>3 DEF Promises!vars
<1>4. CASE ReceiveBegin /\ ~UNCHANGED <<pending, inflight>>
  <2>1. Claims /\ ClaimOldest /\ ~InBlock /\ UNCHANGED status
    BY <1>4 DEF ReceiveBegin, TreatAsOutput, IsTerminator
  <2>2. inflight = None /\ pending # <<>> BY <1>2, <2>1 DEF Tracked, Claims
  <2>3. inflight' # None
    BY <2>1, <2>2, PendingHead, ClientAssumption DEF CInv, ClaimOldest
  <2>4. pending = <<pending[1]>> \o Tail(pending) BY <1>2, <2>2
  <2>5. Queue' = Queue BY <1>2, <2>1, <2>2, <2>3, <2>4 DEF Queue, ClaimOldest
  <2> QED BY <1>1, <2>1, <2>5 DEF Promises!vars, Queue
<1>5. CASE ReceiveTerminator /\ ~UNCHANGED <<status, pending, inflight>>
  <2>1. SettleInflight(Outcome(HeadLine.kind)) /\ inflight # None /\ UNCHANGED pending
    BY <1>5 DEF ReceiveTerminator, GreetingDone, SettleInflight
  <2>2. inflight \in Calls BY <2>1 DEF CInv, TypeOK
  <2>3. Queue = <<inflight>> \o pending /\ Queue' = pending
    BY <1>2, <2>1 DEF Queue, SettleInflight
  <2>4. Queue # <<>> /\ Tail(Queue) = pending /\ Queue[1] = inflight
    BY <1>2, <2>2, <2>3
  <2>5. Outcome(HeadLine.kind) \in Replied BY DEF Outcome
  <2>6. status' = [status EXCEPT ![Queue[1]] = Outcome(HeadLine.kind)]
    BY <2>1, <2>4 DEF SettleInflight
  <2>7. Promises!Answer BY <1>1, <2>3, <2>4, <2>5, <2>6 DEF Promises!Answer, Queue
  <2> QED BY <2>7 DEF Promises!Next
<1>6. CASE ReceiveOutput \/ ReceiveNotification \/ ReceiveExit
  BY <1>3, <1>6 DEF ReceiveOutput, ReceiveNotification, ReceiveExit
<1>7. ReceiveBegin => UNCHANGED status BY DEF ReceiveBegin
<1> QED BY <1>3, <1>4, <1>5, <1>6, <1>7 DEF Receive

(* TmuxClient keeps the promises of execute(): calls are answered in the    *)
(* order they were made, each once, a refused call never joins the line,    *)
(* and the transport's close rejects the whole line and ends it.            *)
THEOREM Implements == Spec => KeepsPromises
<1>1. Init => CInv BY InitCInv
<1>2. CInv /\ [Next]_vars => CInv' BY StepCInv
<1>3. Init => Promises!Init BY DEF Init, Promises!Init
<1>4. CInv /\ [Next]_vars => [Promises!Next]_(Promises!vars)
  <2> SUFFICES ASSUME CInv, [Next]_vars PROVE [Promises!Next]_(Promises!vars)
    OBVIOUS
  <2>a. CASE UNCHANGED <<status, pending, inflight, link>>
    BY <2>a DEF Promises!vars
  <2>1. CASE \E c \in Calls : Execute(c) BY <2>1, SubmitImplements DEF Execute
  <2>2. CASE Close
    <3>1. CASE OnClose("exit") /\ link # "closed" BY <3>1, OnCloseImplements
    <3>2. CASE ~(OnClose("exit") /\ link # "closed")
      <4>1. UNCHANGED <<status, pending, inflight>>
            /\ (link' = "closed" <=> link = "closed")
        BY <2>2, <3>2 DEF Close
      <4> QED BY <4>1 DEF Promises!vars
    <3> QED BY <3>1, <3>2
  <2>3. CASE Detach BY <2>3, <2>a, OnCloseImplements DEF Detach, clientVars
  <2>4. CASE Link
    BY <2>4 DEF Link, LinkOpens, LinkBreaks, Promises!vars
  <2>5. CASE \E why \in {"exit", "transport-error"} : TransportClose(why)
    BY <2>5, OnCloseImplements DEF TransportClose
  <2>6. CASE Receive BY <2>6, ReceiveImplements
  <2>7. CASE FinishReady BY <2>7, <2>a, SubmitImplements DEF FinishReady
  <2>8. CASE FinishClose BY <2>8, <2>a DEF FinishClose
  <2>9. CASE Tmux BY <2>9, <2>a DEF Tmux, clientVars
  <2>10. CASE UNCHANGED vars BY <2>10, <2>a DEF vars, clientVars
  <2> QED BY <2>1, <2>2, <2>3, <2>4, <2>5, <2>6, <2>7, <2>8, <2>9, <2>10 DEF Next
<1> QED BY <1>1, <1>2, <1>3, <1>4, PTL DEF Spec, KeepsPromises, Promises!Spec

-----------------------------------------------------------------------------
(* The router's runner: a transport that closes in its own turn does not    *)
(* close under the `ready' frame, so the frame never installs one too late. *)
NoRunnerLeft ==
  link = "closed" => ~runner /\ \A i \in DOMAIN frames : frames[i] # "ready"

LEMMA OnCloseNoRunner ==
  ASSUME CInv, NEW why \in {"exit", "transport-error"}, TransportClose(why)
  PROVE  NoRunnerLeft'
<1>1. frames = <<>> /\ ~runner' BY DEF TransportClose, OnClose, RunnerLost
<1>2. frames' = frames \/ frames' = <<"exit">>
  BY <1>1 DEF TransportClose, OnClose
<1> QED BY <1>1, <1>2 DEF NoRunnerLeft

LEMMA StepNoRunner ==
  ASSUME CInv, NoRunnerLeft, "sync" \notin CloseStyles, [Next]_vars
  PROVE  NoRunnerLeft'
<1>0. TypeOK /\ Ended BY DEF CInv
<1>a. CASE UNCHANGED <<runner, frames, link>> BY <1>a DEF NoRunnerLeft
<1>1. CASE \E c \in Calls : Execute(c) BY <1>1, <1>a DEF Execute, Submit
<1>2. CASE Close
  <2>1. UNCHANGED <<runner, frames>> /\ (link' = "closed" => link = "closed")
    BY <1>2 DEF Close
  <2> QED BY <2>1 DEF NoRunnerLeft
<1>3. CASE Detach BY <1>3, <1>a DEF Detach, clientVars
<1>4. CASE Link BY <1>4 DEF Link, LinkOpens, LinkBreaks, NoRunnerLeft
<1>5. CASE \E why \in {"exit", "transport-error"} : TransportClose(why)
  BY <1>5, OnCloseNoRunner
<1>6. CASE Receive
  <2>1. UNCHANGED <<runner, link>> /\ frames = <<>>
    BY <1>6 DEF Receive, ReceiveOutput, ReceiveBegin, ReceiveTerminator, ReceiveNotification,
      ReceiveExit, Take
  <2>2. link = "closed" => Closed BY <1>0, <2>1 DEF Ended, Top
  <2>3. Closed => UNCHANGED frames
    BY <1>6 DEF Receive, ReceiveOutput, ReceiveBegin, ReceiveTerminator, ReceiveNotification,
      ReceiveExit
  <2> QED BY <2>1, <2>2, <2>3 DEF NoRunnerLeft
<1>7. CASE FinishReady
  <2>1. UNCHANGED link BY <1>7 DEF FinishReady, Submit
  <2>2. Top("ready") BY <1>7 DEF FinishReady
  <2>3. Len(frames) \in DOMAIN frames BY <1>0, <2>2 DEF TypeOK, Top
  <2>4. link # "closed" BY <2>2, <2>3 DEF NoRunnerLeft, Top
  <2> QED BY <2>1, <2>4 DEF NoRunnerLeft
<1>8. CASE FinishClose
  <2>1. UNCHANGED <<runner, link>> BY <1>8 DEF FinishClose
  <2>2. \A i \in DOMAIN frames' : i \in DOMAIN frames /\ frames'[i] = frames[i]
    BY <1>0, <1>8, PopKeeps DEF FinishClose, Top
  <2> QED BY <2>1, <2>2 DEF NoRunnerLeft
<1>9. CASE Tmux BY <1>9, <1>a DEF Tmux, clientVars
<1>10. CASE UNCHANGED vars BY <1>10, <1>a DEF vars, clientVars
<1> QED BY <1>1, <1>2, <1>3, <1>4, <1>5, <1>6, <1>7, <1>8, <1>9, <1>10 DEF Next

(* On a transport whose close event takes a turn of its own (a child        *)
(* process, a socket) the router is left without a runner when TmuxClient   *)
(* announces `closed', whatever the handlers of `ready' did.                *)
THEOREM RunnerGone == "sync" \notin CloseStyles => (Spec => []NoRunnerAfterClose)
<1>1. Init => CInv BY InitCInv
<1>2. CInv /\ [Next]_vars => CInv' BY StepCInv
<1>3. Init => NoRunnerLeft BY DEF Init, NoRunnerLeft
<1>4. CInv /\ NoRunnerLeft => NoRunnerAfterClose
  BY DEF CInv, Ended, NoRunnerLeft, NoRunnerAfterClose
<1>5. CASE "sync" \notin CloseStyles
  <2>1. CInv /\ NoRunnerLeft /\ [Next]_vars => NoRunnerLeft' BY <1>5, StepNoRunner
  <2> QED BY <1>1, <1>2, <1>3, <1>4, <2>1, PTL DEF Spec
<1> QED BY <1>5

-----------------------------------------------------------------------------
(* Lines.  `n' is the parser's depth in the stream after each line of the   *)
(* inbox: -1 between blocks, else the lines of output of the block so far.  *)
(* It leads from where the client stands to where tmux stands.              *)
Outside == -1

MovesTo(d, line, e) ==
  \/ line.kind = "begin" /\ d = Outside /\ e = 0
  \/ line.kind \in Payload \ {"fake"} /\ d # Outside /\ e = d + 1
  \/ line.kind \in Terminators /\ d # Outside /\ line.size = d /\ e = Outside
  \/ line.kind \in {"note", "exit"} /\ d = Outside /\ e = Outside

ClientIsAt(d) == (d = Outside <=> ~InBlock) /\ (inflight # None => d = collected)
TmuxIsAt == IF open THEN lines ELSE Outside

Leads(n) ==
  /\ ClientIsAt(n[0])
  /\ \A k \in DOMAIN inbox : MovesTo(n[k - 1], inbox[k], n[k])
  /\ n[Len(inbox)] = TmuxIsAt

InStep == \E n \in [0..Len(inbox) -> Nat \cup {Outside}] : Leads(n)

LInv == CInv /\ InStep /\ CompleteReply /\ NotificationsExact

Notes == {i \in DOMAIN inbox : inbox[i].kind = "note"}

(* tmux writes a line.                                                      *)
LEMMA PutInStep ==
  ASSUME TypeOK, TypeOK', InStep, NEW line \in Line, inbox' = Append(inbox, line),
         UNCHANGED <<inflight, collected, activeCommandNumber>>,
         MovesTo(TmuxIsAt, line, TmuxIsAt')
  PROVE  InStep'
<1>1. PICK L \in Nat : L = Len(inbox) BY DEF TypeOK, StreamTypeOK
<1>2. PICK n \in [0..L -> Nat \cup {Outside}] : Leads(n) BY <1>1 DEF InStep
<1>3. /\ DOMAIN inbox = 1..L /\ DOMAIN inbox' = 1..(L + 1) /\ Len(inbox') = L + 1
      /\ \A i \in 1..L : inbox'[i] = inbox[i]
      /\ inbox'[L + 1] = line
  <2>1. inbox \in Seq(Line) BY DEF TypeOK, StreamTypeOK
  <2> QED BY <1>1, <2>1, AppendProperties, AppendLine
<1>4. PICK e \in Nat \cup {Outside} : e = TmuxIsAt'
  <2>1. lines' \in Nat BY StreamAssumption DEF TypeOK, StreamTypeOK
  <2> QED BY <2>1 DEF TmuxIsAt
<1>5. PICK m : m = [k \in 0..(L + 1) |-> IF k = L + 1 THEN e ELSE n[k]] OBVIOUS
<1>6. m \in [0..(L + 1) -> Nat \cup {Outside}] BY <1>2, <1>5
<1>7. m[0] = n[0] /\ m[L + 1] = e /\ \A k \in 0..L : m[k] = n[k] BY <1>5
<1>8. ClientIsAt(m[0])'
  <2>1. ClientIsAt(m[0]) BY <1>2, <1>7 DEF Leads
  <2> QED BY <2>1 DEF ClientIsAt, InBlock
<1>9. ASSUME NEW k \in 1..(L + 1) PROVE MovesTo(m[k - 1], inbox'[k], m[k])
  <2>1. CASE k = L + 1
    <3>1. m[k - 1] = TmuxIsAt BY <1>1, <1>2, <1>7, <2>1 DEF Leads
    <3> QED BY <1>3, <1>4, <1>7, <2>1, <3>1
  <2>2. CASE k \in 1..L
    <3>1. k - 1 \in 0..L /\ k \in 0..L BY <2>2
    <3>2. MovesTo(n[k - 1], inbox[k], n[k]) BY <1>2, <1>3, <2>2 DEF Leads
    <3> QED BY <1>3, <1>7, <2>2, <3>1, <3>2
  <2> QED BY <1>1, <2>1, <2>2
<1>10. Leads(m)'
  <2>1. \A k \in DOMAIN inbox' : MovesTo(m[k - 1], inbox'[k], m[k]) BY <1>3, <1>9
  <2>2. m[Len(inbox')] = TmuxIsAt' BY <1>3, <1>4, <1>7
  <2> QED BY <1>8, <2>1, <2>2 DEF Leads, MovesTo
<1>11. m \in [0..Len(inbox') -> Nat \cup {Outside}] BY <1>3, <1>6
<1> QED BY <1>10, <1>11 DEF InStep, Outside

(* The client reads one, and stays in step if its own place moves with it.  *)
LEMMA TakeInStep ==
  ASSUME TypeOK, InStep, Take
  PROVE  \E d, e \in Nat \cup {Outside} :
           /\ ClientIsAt(d) /\ MovesTo(d, HeadLine, e)
           /\ ClientIsAt(e)' => InStep'
<1>0. PICK L \in Nat \ {0} : L = Len(inbox)
  <2>1. Len(inbox) \in Nat \ {0} BY TakeLine
  <2> QED BY <2>1
<1>1. PICK n \in [0..L -> Nat \cup {Outside}] : Leads(n) BY <1>0 DEF InStep
<1>2. /\ DOMAIN inbox = 1..L /\ DOMAIN inbox' = 1..(L - 1)
      /\ Len(inbox') = L - 1
      /\ \A i \in 1..(L - 1) : inbox'[i] = inbox[i + 1]
      /\ HeadLine = inbox[1]
  <2>1. inbox \in Seq(Line) /\ inbox # <<>> /\ inbox' = Tail(inbox)
    BY DEF Take, TypeOK, StreamTypeOK
  <2> QED BY <1>0, <2>1, TakeLine, HeadTailProperties
<1>3. TmuxIsAt' = TmuxIsAt BY DEF Take, TmuxIsAt
<1>4. ClientIsAt(n[0]) /\ MovesTo(n[0], HeadLine, n[1])
  <2>1. 1 \in DOMAIN inbox /\ 1 - 1 = 0 BY <1>2
  <2> QED BY <1>1, <1>2, <2>1 DEF Leads
<1>5. n[0] \in Nat \cup {Outside} /\ n[1] \in Nat \cup {Outside} BY <1>1
<1>6. ASSUME ClientIsAt(n[1])' PROVE InStep'
  <2>1. PICK m : m = [k \in 0..(L - 1) |-> n[k + 1]] OBVIOUS
  <2>2. m \in [0..(L - 1) -> Nat \cup {Outside}] BY <2>1
  <2>3. m[0] = n[1] /\ m[L - 1] = n[L] /\ \A k \in 0..(L - 1) : m[k] = n[k + 1]
    BY <2>1
  <2>4. ASSUME NEW k \in 1..(L - 1) PROVE MovesTo(m[k - 1], inbox'[k], m[k])
    <3>1. k - 1 \in 0..(L - 1) /\ k \in 0..(L - 1) /\ (k - 1) + 1 = k /\ k + 1 \in 1..L
          /\ (k + 1) - 1 = k
      OBVIOUS
    <3>2. MovesTo(n[(k + 1) - 1], inbox[k + 1], n[k + 1]) BY <1>1, <1>2, <3>1 DEF Leads
    <3> QED BY <1>2, <2>3, <3>1, <3>2
  <2>5. m[L - 1] = TmuxIsAt' BY <1>0, <1>1, <1>3, <2>3 DEF Leads
  <2>6. ClientIsAt(m[0])' BY <1>6, <2>3
  <2>7. \A k \in DOMAIN inbox' : MovesTo(m[k - 1], inbox'[k], m[k]) BY <1>2, <2>4
  <2>8. m[Len(inbox')] = TmuxIsAt' BY <1>2, <2>5
  <2>9. Leads(m)' BY <2>6, <2>7, <2>8 DEF Leads, MovesTo
  <2>10. m \in [0..Len(inbox') -> Nat \cup {Outside}] BY <1>2, <2>2
  <2> QED BY <2>9, <2>10 DEF InStep, Outside
<1> QED BY <1>4, <1>5, <1>6

LEMMA NotesFinite ==
  ASSUME TypeOK
  PROVE  IsFiniteSet(Notes) /\ Cardinality(Notes) \in Nat
<1>1. IsFiniteSet(1..Len(inbox)) /\ DOMAIN inbox = 1..Len(inbox)
  <2>1. inbox \in Seq(Line) BY DEF TypeOK, StreamTypeOK
  <2>2. Len(inbox) \in Int /\ 1 \in Int BY <2>1
  <2> QED BY <2>1, <2>2, FS_Interval
<1> QED BY <1>1, FS_Subset, FS_CardinalityType DEF Notes

LEMMA NotesPut ==
  ASSUME TypeOK, NEW line \in Line, inbox' = Append(inbox, line)
  PROVE  Cardinality(Notes') = Cardinality(Notes) + (IF line.kind = "note" THEN 1 ELSE 0)
<1> DEFINE L == Len(inbox)
<1>1. /\ L \in Nat /\ DOMAIN inbox = 1..L /\ DOMAIN inbox' = 1..(L + 1)
      /\ \A i \in 1..L : inbox'[i] = inbox[i]
      /\ inbox'[L + 1] = line
  BY AppendLine
<1>2. L + 1 \notin Notes BY <1>1 DEF Notes
<1>3. CASE line.kind = "note"
  <2>1. Notes' = Notes \cup {L + 1} BY <1>1, <1>3 DEF Notes
  <2> QED BY <1>2, <1>3, <2>1, NotesFinite, FS_AddElement
<1>4. CASE line.kind # "note"
  <2>1. Notes' = Notes BY <1>1, <1>4 DEF Notes
  <2> QED BY <1>4, <2>1, NotesFinite
<1> QED BY <1>3, <1>4

LEMMA NotesTaken ==
  ASSUME TypeOK, Take
  PROVE  Cardinality(Notes) = Cardinality(Notes') + (IF HeadLine.kind = "note" THEN 1 ELSE 0)
<1> DEFINE L == Len(inbox)
<1>1. /\ L \in Nat \ {0} /\ DOMAIN inbox = 1..L /\ DOMAIN inbox' = 1..(L - 1)
      /\ \A i \in 1..(L - 1) : inbox'[i] = inbox[i + 1]
      /\ HeadLine = inbox[1]
  BY TakeLine
<1> DEFINE Later == Notes \ {1}
           f == [i \in Later |-> i - 1]
<1>2. \A i \in Later : i \in 2..L /\ inbox[i].kind = "note" BY <1>1 DEF Notes
<1>3. \A i \in Later : i - 1 \in Notes'
  <2>1. \A i \in 2..L : i - 1 \in 1..(L - 1) /\ (i - 1) + 1 = i BY <1>1
  <2> QED BY <1>1, <1>2, <2>1 DEF Notes
<1>4. \A j \in Notes' : j + 1 \in Later /\ (j + 1) - 1 = j
  <2>1. \A j \in 1..(L - 1) : j + 1 \in 1..L /\ j + 1 # 1 /\ (j + 1) - 1 = j BY <1>1
  <2> QED BY <1>1, <2>1 DEF Notes
<1>5. f \in Bijection(Later, Notes')
  <2>1. f \in [Later -> Notes'] BY <1>3
  <2>2. \A i, j \in Later : f[i] = f[j] => i = j BY <1>1, <1>2
  <2>3. \A j \in Notes' : \E i \in Later : f[i] = j BY <1>4
  <2> QED BY <2>1, <2>2, <2>3, Fun_IsBij
<1>6. IsFiniteSet(Later) /\ Cardinality(Later) = Cardinality(Notes')
  <2>1. IsFiniteSet(Later) BY NotesFinite, FS_RemoveElement
  <2>2. ExistsBijection(Later, Notes') BY <1>5 DEF ExistsBijection
  <2> QED BY <2>1, <2>2, FS_Bijection
<1>7. Cardinality(Later) = IF 1 \in Notes THEN Cardinality(Notes) - 1 ELSE Cardinality(Notes)
  BY NotesFinite, FS_RemoveElement
<1>8. 1 \in Notes <=> HeadLine.kind = "note" BY <1>1 DEF Notes
<1> QED BY <1>6, <1>7, <1>8, NotesFinite

LEMMA TmuxInStep ==
  ASSUME LInv, TypeOK', "fake" \notin PayloadKinds, Tmux
  PROVE  InStep' /\ NotificationsExact'
<1>0. TypeOK /\ InStep /\ NotificationsExact /\ CompleteReply BY DEF LInv, CInv
<1>1. /\ UNCHANGED <<inflight, collected, activeCommandNumber, connectionState, events>>
      /\ UNCHANGED <<status, reply>>
  BY DEF Tmux, clientVars
<1>2. at \in Nat /\ lines \in Nat /\ events \in Nat
  BY <1>0, StreamAssumption DEF TypeOK, StreamTypeOK
<1>3. ASSUME NEW kind \in Payload \cup Terminators \cup {"begin", "note", "exit"},
             NEW size \in Nat, Put(kind, size),
             notes' = notes + (IF kind = "note" THEN 1 ELSE 0),
             MovesTo(TmuxIsAt, [kind |-> kind, of |-> at, size |-> size], TmuxIsAt')
      PROVE  InStep' /\ NotificationsExact'
  <2> DEFINE line == [kind |-> kind, of |-> at, size |-> size]
  <2>1. line \in Line BY <1>2 DEF Line
  <2>2. inbox' = Append(inbox, line) BY <1>3 DEF Put
  <2>3. line.kind = kind OBVIOUS
  <2> HIDE DEF line
  <2>4. InStep' BY <1>0, <1>1, <1>3, <2>1, <2>2, PutInStep DEF line
  <2>5. Cardinality(Notes') = Cardinality(Notes) + (IF kind = "note" THEN 1 ELSE 0)
    BY <1>0, <2>1, <2>2, <2>3, NotesPut
  <2>6. Closed' = Closed /\ events' = events BY <1>1 DEF Closed
  <2>7. ~Closed => events + Cardinality(Notes) = notes BY <1>0 DEF NotificationsExact, Notes
  <2>8. Cardinality(Notes) \in Nat /\ notes \in Nat
    BY <1>0, NotesFinite, StreamAssumption DEF TypeOK, StreamTypeOK
  <2>9. ~Closed' => events' + Cardinality(Notes') = notes'
    BY <1>2, <1>3, <2>5, <2>6, <2>7, <2>8
  <2> QED BY <2>4, <2>9 DEF NotificationsExact, Notes
<1>4. CASE TmuxBegin
  <2>1. MovesTo(TmuxIsAt, [kind |-> "begin", of |-> at, size |-> 0], TmuxIsAt')
    BY <1>4 DEF TmuxBegin, TmuxIsAt, MovesTo
  <2>2. notes' = notes + 0
    BY <1>0, <1>4, StreamAssumption DEF TmuxBegin, TypeOK, StreamTypeOK
  <2> QED BY <1>3, <1>4, <2>1, <2>2 DEF TmuxBegin
<1>5. CASE \E kind \in PayloadKinds : TmuxPayload(kind)
  <2>1. PICK kind \in PayloadKinds : TmuxPayload(kind) BY <1>5
  <2>2. kind \in Payload \ {"fake"} BY StreamAssumption
  <2>3. MovesTo(TmuxIsAt, [kind |-> kind, of |-> at, size |-> 0], TmuxIsAt')
    BY <1>2, <2>1, <2>2 DEF TmuxPayload, TmuxIsAt, MovesTo, Outside
  <2>4. notes' = notes + 0 /\ kind # "note"
    BY <1>0, <2>1, <2>2, StreamAssumption DEF TmuxPayload, TypeOK, StreamTypeOK
  <2> QED BY <1>3, <2>1, <2>2, <2>3, <2>4 DEF TmuxPayload
<1>6. CASE \E kind \in Terminators : TmuxEnd(kind)
  <2>1. PICK kind \in Terminators : TmuxEnd(kind) BY <1>6
  <2>2. MovesTo(TmuxIsAt, [kind |-> kind, of |-> at, size |-> lines], TmuxIsAt')
    BY <1>2, <2>1 DEF TmuxEnd, TmuxIsAt, MovesTo, Outside
  <2>3. notes' = notes + 0 /\ kind # "note"
    BY <1>0, <2>1, StreamAssumption DEF TmuxEnd, TypeOK, StreamTypeOK
  <2> QED BY <1>2, <1>3, <2>1, <2>2, <2>3 DEF TmuxEnd
<1>7. CASE TmuxNotify
  <2>1. MovesTo(TmuxIsAt, [kind |-> "note", of |-> at, size |-> 0], TmuxIsAt')
    BY <1>7 DEF TmuxNotify, TmuxIsAt, MovesTo
  <2> QED BY <1>3, <1>7, <2>1 DEF TmuxNotify
<1>8. CASE TmuxExit
  <2>1. MovesTo(TmuxIsAt, [kind |-> "exit", of |-> at, size |-> 0], TmuxIsAt')
    BY <1>8 DEF TmuxExit, TmuxIsAt, MovesTo
  <2>2. notes' = notes + 0
    BY <1>0, <1>8, StreamAssumption DEF TmuxExit, TypeOK, StreamTypeOK
  <2> QED BY <1>3, <1>8, <2>1, <2>2 DEF TmuxExit
<1>9. CASE TmuxDies
  <2>1. UNCHANGED <<inbox, open, lines, notes>> BY <1>9 DEF TmuxDies
  <2> QED BY <1>0, <1>1, <2>1
    DEF InStep, Leads, ClientIsAt, TmuxIsAt, InBlock, NotificationsExact, Closed
<1> QED BY <1>4, <1>5, <1>6, <1>7, <1>8, <1>9 DEF Tmux, TmuxNext

(* What the parser and the FIFO make of the line.                           *)
LEMMA ReceiveInStep ==
  ASSUME LInv, TypeOK', Receive
  PROVE  InStep' /\ CompleteReply' /\ NotificationsExact'
<1>0. TypeOK /\ Tracked /\ Ended /\ InStep /\ CompleteReply /\ NotificationsExact
  BY DEF LInv, CInv
<1>1. Take
  BY DEF Receive, ReceiveOutput, ReceiveBegin, ReceiveTerminator, ReceiveNotification,
    ReceiveExit
<1>2. PICK d, e \in Nat \cup {Outside} :
        /\ ClientIsAt(d) /\ MovesTo(d, HeadLine, e)
        /\ ClientIsAt(e)' => InStep'
  BY <1>0, <1>1, TakeInStep
<1>3. Outside \notin Nat /\ (d = Outside <=> ~InBlock)
  BY <1>2 DEF Outside, ClientIsAt
<1>4. (inflight # None => InBlock) /\ (Closed => inflight = None)
  BY <1>0 DEF Tracked, Ended
<1>5. HeadLine.kind # "fake" /\ HeadLine \in Line
  <2>1. HeadLine.kind # "fake" BY <1>2 DEF MovesTo
  <2> QED BY <2>1, <1>0, <1>1, TakeLine
<1>6. events \in Nat /\ Cardinality(Notes) \in Nat /\ Cardinality(Notes') \in Nat
  <2>1. Cardinality(Notes') \in Nat
    <3>1. TypeOK => Cardinality(Notes) \in Nat BY NotesFinite
    <3>2. inbox' \in Seq(Line) /\ Len(inbox') \in Int /\ DOMAIN inbox' = 1..Len(inbox')
      BY DEF TypeOK, StreamTypeOK
    <3>3. IsFiniteSet(1..Len(inbox')) BY <3>2, FS_Interval
    <3>4. Notes' \subseteq 1..Len(inbox') BY <3>2 DEF Notes
    <3> QED BY <3>3, <3>4, FS_Subset, FS_CardinalityType
  <2> QED BY <1>0, <2>1, NotesFinite DEF TypeOK
<1>7. Cardinality(Notes) = Cardinality(Notes') + (IF HeadLine.kind = "note" THEN 1 ELSE 0)
  BY <1>0, <1>1, NotesTaken
<1>8. notes' = notes BY <1>1 DEF Take
<1>9. ~Closed => events + Cardinality(Notes) = notes
  BY <1>0 DEF NotificationsExact, Notes
<1>n. ASSUME events' = events + (IF HeadLine.kind = "note" /\ ~Closed THEN 1 ELSE 0),
             Closed => Closed'
      PROVE  NotificationsExact'
  <2>1. ~Closed' => events' + Cardinality(Notes') = notes'
    BY <1>6, <1>7, <1>8, <1>9, <1>n
  <2> QED BY <2>1 DEF NotificationsExact, Notes
<1>r. ASSUME UNCHANGED <<status, reply>> PROVE CompleteReply'
  BY <1>0, <1>r DEF CompleteReply
<1>10. CASE ReceiveOutput
  <2>1. InBlock /\ HeadLine.kind \notin Terminators
    BY <1>10 DEF ReceiveOutput, TreatAsOutput, IsTerminator
  <2>2. HeadLine.kind \in Payload /\ e = d + 1 /\ d \in Nat
    BY <1>2, <1>3, <2>1 DEF MovesTo
  <2>3. UNCHANGED <<inflight, activeCommandNumber, status, reply, events, connectionState>>
        /\ (inflight # None => collected' = collected + 1)
    BY <1>10 DEF ReceiveOutput
  <2>4. e # Outside BY <2>2 DEF Outside
  <2>5. inflight # None => d = collected BY <1>2 DEF ClientIsAt
  <2>6. ClientIsAt(e)' BY <2>1, <2>2, <2>3, <2>4, <2>5 DEF ClientIsAt, InBlock
  <2>7. NotificationsExact' BY <1>6, <1>n, <2>2, <2>3 DEF Closed
  <2> QED BY <1>2, <1>r, <2>3, <2>6, <2>7
<1>11. CASE ReceiveBegin
  <2>1. HeadLine.kind = "begin" /\ e = 0 /\ d = Outside
    BY <1>2, <1>11 DEF ReceiveBegin, MovesTo
  <2>2. inflight = None BY <1>3, <1>4, <2>1
  <2>3. activeCommandNumber' \in Nat BY <1>5, <1>11 DEF ReceiveBegin, Line
  <2>4. inflight' # None => collected' = 0
    BY <1>11, <2>2 DEF ReceiveBegin, ClaimOldest
  <2>5. InBlock' BY <2>3 DEF InBlock
  <2>6. ClientIsAt(e)' BY <1>3, <2>1, <2>4, <2>5 DEF ClientIsAt, Outside
  <2>7. UNCHANGED <<status, reply, events, connectionState>> BY <1>11 DEF ReceiveBegin
  <2>8. NotificationsExact' BY <1>6, <1>n, <2>1, <2>7 DEF Closed
  <2> QED BY <1>2, <1>r, <2>6, <2>7, <2>8
<1>12. CASE ReceiveTerminator
  <2>1. HeadLine.kind \in Terminators BY <1>5, <1>12 DEF ReceiveTerminator, IsTerminator
  <2>2. d # Outside /\ HeadLine.size = d /\ e = Outside BY <1>2, <2>1 DEF MovesTo
  <2>3. InBlock /\ ~InBlock' BY <1>3, <1>12, <2>2 DEF ReceiveTerminator, InBlock
  <2>4. events' = events BY <1>12 DEF ReceiveTerminator
  <2>5. NotificationsExact'
    <3>1. Closed => Closed'
      BY <1>12 DEF ReceiveTerminator, Closed
    <3> QED BY <1>6, <1>n, <2>1, <2>4, <3>1
  <2>6. inflight' = None /\ CompleteReply'
    <3>1. CASE Closed \/ awaitingGreeting
      <4>1. inflight = None /\ UNCHANGED <<inflight, status, reply>>
        BY <1>0, <1>4, <1>12, <2>3, <3>1 DEF ReceiveTerminator, GreetingDone, Tracked
      <4> QED BY <1>r, <4>1
    <3>2. CASE ~Closed /\ ~awaitingGreeting
      <4>1. SettleInflight(Outcome(HeadLine.kind)) BY <1>12, <2>3, <3>2 DEF ReceiveTerminator
      <4>2. inflight' = None BY <4>1 DEF SettleInflight
      <4>3. CASE inflight = None BY <1>r, <4>1, <4>2, <4>3 DEF SettleInflight
      <4>4. CASE inflight # None
        <5>1. d = collected BY <1>2, <4>4 DEF ClientIsAt
        <5>2. inflight \in Calls BY <1>0, <4>4 DEF TypeOK
        <5>3. /\ reply' = [reply EXCEPT ![inflight] =
                   [of |-> HeadLine.of, output |-> collected, size |-> HeadLine.size]]
              /\ status' = [status EXCEPT ![inflight] = Outcome(HeadLine.kind)]
          BY <4>1, <4>4 DEF SettleInflight
        <5>4. reply'[inflight].output = collected /\ reply'[inflight].size = HeadLine.size
          BY <1>0, <5>2, <5>3 DEF TypeOK
        <5>5. \A c \in Calls : c # inflight => status'[c] = status[c] /\ reply'[c] = reply[c]
          BY <1>0, <5>2, <5>3 DEF TypeOK
        <5>6. CompleteReply' BY <1>0, <2>2, <5>1, <5>4, <5>5 DEF CompleteReply
        <5> QED BY <4>2, <5>6
      <4> QED BY <4>3, <4>4
    <3> QED BY <3>1, <3>2
  <2>7. ClientIsAt(e)' BY <2>2, <2>3, <2>6 DEF ClientIsAt
  <2> QED BY <1>2, <2>5, <2>6, <2>7
<1>13. CASE ReceiveNotification
  <2>1. HeadLine.kind = "note" /\ d = Outside /\ e = Outside
    BY <1>2, <1>3, <1>13
    DEF ReceiveNotification, MovesTo, TreatAsOutput, IsTerminator
  <2>2. UNCHANGED <<inflight, collected, activeCommandNumber, status, reply, connectionState>>
        /\ events' = IF ~Closed THEN events + 1 ELSE events
    BY <1>13, <2>1 DEF ReceiveNotification, Emits
  <2>3. ClientIsAt(e)' BY <1>2, <2>1, <2>2 DEF ClientIsAt, InBlock
  <2>4. NotificationsExact' BY <1>6, <1>n, <2>1, <2>2 DEF Closed
  <2> QED BY <1>2, <1>r, <2>2, <2>3, <2>4
<1>14. CASE ReceiveExit
  <2>1. HeadLine.kind = "exit" /\ d = Outside /\ e = Outside
    BY <1>2, <1>14 DEF ReceiveExit, MovesTo
  <2>2. UNCHANGED <<inflight, collected, activeCommandNumber, status, reply, connectionState,
          events>>
    BY <1>14 DEF ReceiveExit
  <2>3. ClientIsAt(e)' BY <1>2, <2>1, <2>2 DEF ClientIsAt, InBlock
  <2>4. NotificationsExact' BY <1>6, <1>n, <2>1, <2>2 DEF Closed
  <2> QED BY <1>2, <1>r, <2>2, <2>3, <2>4
<1> QED BY <1>10, <1>11, <1>12, <1>13, <1>14 DEF Receive

(* Calls, and the end of the transport, which drops whoever is inflight.    *)
LEMMA ElsewhereInStep ==
  ASSUME LInv, UNCHANGED <<inbox, open, lines, notes, activeCommandNumber, events, reply>>,
         UNCHANGED <<inflight, collected>> \/ inflight' = None, Closed => Closed',
         \A c \in Calls : status'[c] \in Replied => status[c] \in Replied
  PROVE  InStep' /\ CompleteReply' /\ NotificationsExact'
<1>0. InStep /\ CompleteReply /\ NotificationsExact BY DEF LInv
<1>1. CompleteReply' BY <1>0 DEF CompleteReply
<1>2. NotificationsExact' BY <1>0 DEF NotificationsExact
<1>3. PICK n \in [0..Len(inbox) -> Nat \cup {Outside}] : Leads(n) BY <1>0 DEF InStep
<1>4. ClientIsAt(n[0])' BY <1>3 DEF Leads, ClientIsAt, InBlock
<1>5. Leads(n)' BY <1>3, <1>4 DEF Leads, TmuxIsAt, MovesTo
<1> QED BY <1>1, <1>2, <1>3, <1>5 DEF InStep, Outside

LEMMA OnCloseInStep ==
  ASSUME LInv, NEW why \in {"exit", "transport-error"}, OnClose(why), link # "closed",
         UNCHANGED <<inbox, open, lines, notes>>
  PROVE  InStep' /\ CompleteReply' /\ NotificationsExact'
<1>1. inflight' = None /\ UNCHANGED <<activeCommandNumber, events, reply>>
  BY DEF OnClose, SettlePendingOnClose
<1>2. \A c \in Calls : status'[c] \in Replied => status[c] \in Replied
  BY DEF OnClose, SettlePendingOnClose
<1>3. Closed => Closed' BY DEF LInv, CInv, Ended
<1> QED BY <1>1, <1>2, <1>3, ElsewhereInStep

LEMMA SubmitInStep ==
  ASSUME LInv, NEW c \in Calls, Submit(c)
  PROVE  InStep' /\ CompleteReply' /\ NotificationsExact'
<1>1. UNCHANGED <<inbox, open, lines, notes, activeCommandNumber, events, reply, inflight,
        collected, connectionState>>
  BY DEF Submit
<1>2. \E s \in {"refused", "invalid", "waiting"} : status' = [status EXCEPT ![c] = s]
  BY DEF Submit
<1>3. \A d \in Calls : status'[d] \in Replied => status[d] \in Replied
  BY <1>2 DEF LInv, CInv, TypeOK
<1> QED BY <1>1, <1>3, ElsewhereInStep DEF Closed

LEMMA StepLInv ==
  ASSUME LInv, [Next]_vars, "fake" \notin PayloadKinds
  PROVE  LInv'
<1>0. CInv' /\ TypeOK' BY StepCInv DEF LInv, CInv
<1> SUFFICES InStep' /\ CompleteReply' /\ NotificationsExact' BY <1>0 DEF LInv
<1>a. CASE UNCHANGED <<inbox, open, lines, notes, activeCommandNumber, events, reply,
             inflight, collected, status>> /\ (Closed => Closed')
  BY <1>a, ElsewhereInStep
<1>1. CASE \E c \in Calls : Execute(c) BY <1>1, SubmitInStep DEF Execute
<1>2. CASE Close
  <2>1. UNCHANGED <<inbox, open, lines, notes>> BY <1>2 DEF Close, streamVars
  <2>2. CASE OnClose("exit") /\ link # "closed" BY <2>1, <2>2, OnCloseInStep
  <2>3. CASE ~(OnClose("exit") /\ link # "closed")
    BY <1>2, <2>1, <2>3, <1>a DEF Close, Closed
  <2> QED BY <2>2, <2>3
<1>3. CASE Detach
  <2>1. UNCHANGED <<inbox, open, lines, notes>> BY <1>3 DEF Detach
  <2>2. CASE OnClose("exit") /\ link = "open" BY <2>1, <2>2, OnCloseInStep
  <2>3. CASE UNCHANGED clientVars BY <2>1, <2>3, <1>a DEF clientVars, Closed
  <2> QED BY <1>3, <2>2, <2>3 DEF Detach
<1>4. CASE Link BY <1>4, <1>a DEF Link, streamVars, Closed
<1>5. CASE \E why \in {"exit", "transport-error"} : TransportClose(why)
  BY <1>5, OnCloseInStep DEF TransportClose, streamVars
<1>6. CASE Receive BY <1>0, <1>6, ReceiveInStep
<1>7. CASE FinishReady
  <2>1. CASE \E c \in Calls : Submit(c) BY <2>1, SubmitInStep
  <2>2. CASE ~\E c \in Calls : Submit(c)
    BY <1>7, <2>2, <1>a DEF FinishReady, streamVars, Closed
  <2> QED BY <2>1, <2>2
<1>8. CASE FinishClose
  <2>1. Closed' BY <1>8 DEF FinishClose, AnnounceClosed, Closed
  <2> QED BY <1>8, <2>1, <1>a DEF FinishClose, streamVars
<1>9. CASE Tmux
  <2>1. UNCHANGED <<status, reply>> BY <1>9 DEF Tmux, clientVars
  <2>2. CompleteReply' BY <2>1 DEF LInv, CompleteReply
  <2> QED BY <1>0, <1>9, <2>2, TmuxInStep
<1>10. CASE UNCHANGED vars BY <1>10, <1>a DEF vars, streamVars, clientVars, Closed
<1> QED
  BY <1>1, <1>2, <1>3, <1>4, <1>5, <1>6, <1>7, <1>8, <1>9, <1>10 DEF Next

LEMMA InitLInv ==
  ASSUME Init
  PROVE  LInv
<1>1. CInv BY InitCInv
<1>2. inbox = <<>> /\ Len(inbox) = 0 /\ DOMAIN inbox = {} BY DEF Init, StreamInit
<1>3. InStep
  <2> DEFINE n == [k \in 0..0 |-> Outside]
  <2>1. n \in [0..Len(inbox) -> Nat \cup {Outside}] /\ n[0] = Outside BY <1>2
  <2>2. ClientIsAt(n[0]) BY <2>1 DEF Init, ClientIsAt, InBlock
  <2>3. n[Len(inbox)] = TmuxIsAt BY <1>2, <2>1 DEF Init, StreamInit, TmuxIsAt
  <2> HIDE DEF n
  <2>4. Leads(n) BY <1>2, <2>2, <2>3 DEF Leads
  <2> QED BY <2>1, <2>4 DEF InStep
<1>4. CompleteReply BY DEF Init, CompleteReply
<1>5. NotificationsExact
  <2>1. {i \in DOMAIN inbox : inbox[i].kind = "note"} = {} BY <1>2
  <2>2. Cardinality({}) = 0 BY FS_EmptySet
  <2> QED BY <2>1, <2>2 DEF Init, StreamInit, NotificationsExact
<1> QED BY <1>1, <1>3, <1>4, <1>5 DEF LInv

(* What tmux writes reaches whom it is for, command lists and corrupted     *)
(* terminators included: every line of a block goes to the call the block   *)
(* settles and no other line does, and every notification is emitted once.  *)
(* It needs that no line of output reads as the end of its block.           *)
THEOREM LinesArrive == "fake" \notin PayloadKinds => (Spec => []LinesFindTheirReaders)
<1>1. Init => LInv BY InitLInv
<1>2. LInv => LinesFindTheirReaders BY DEF LInv, LinesFindTheirReaders
<1>3. CASE "fake" \notin PayloadKinds
  <2>1. LInv /\ [Next]_vars => LInv' BY <1>3, StepLInv
  <2> QED BY <1>1, <1>2, <2>1, PTL DEF Spec
<1> QED BY <1>3
=============================================================================
