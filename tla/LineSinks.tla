------------------------------ MODULE LineSinks ------------------------------
(***************************************************************************)
(* attachLineSink (src/line-sink.ts) on top of the router: line consumers  *)
(* are byte sinks of TopologyRouter that share, per pane, one decoder, one *)
(* partial line and the lines of the last chunk.  "The last chunk" is told *)
(* by the identity of the object the router dispatches.                    *)
(*                                                                         *)
(* A chunk that breaks a line has one newline in its middle.  A line is    *)
(* the sequence of the chunks its text came from.                          *)
(*                                                                         *)
(* The replay of a held chunk is another object.  A consumer that takes    *)
(* replays (a window, the session) next to one that took the original (the *)
(* server) makes the decoder read the chunk twice: `Liners' says who the   *)
(* consumers are.  Handlers do not dispose of consumers.                   *)
(***************************************************************************)
EXTENDS TopologyRouter

CONSTANTS
  Liners,  \* the sinks that are line consumers; the others take bytes
  Breaks   \* the chunks of a pane with a newline in them, by number

ASSUME LinersAssumption == Liners \subseteq Sinks /\ Breaks \subseteq 1..MaxOutput

(* A sink per kind of scope: a window, a session, the server.              *)
ASSUME KindsAssumption ==
  \A s, t \in Sinks : Cardinality(Scope[s]) = Cardinality(Scope[t]) => s = t

VARIABLES
  perPane,  \* LineRegistry.perPane: [buffer, lastMsg, lines, admittingConsumers]
  heard     \* the lines each consumer was given

lineVars == <<vars, perPane, heard>>

NoChunk == [n |-> 0, copy |-> FALSE]
newPerPaneLineState ==
  [buffer |-> <<>>, lastMsg |-> NoChunk, lines |-> <<>>, admittingConsumers |-> {}]

LineInit ==
  /\ Init
  /\ perPane = [p \in Panes |-> newPerPaneLineState]
  /\ heard = [s \in Sinks |-> <<>>]

-----------------------------------------------------------------------------
(* The byte sink of a consumer.  `reg' is [perPane, heard].                *)

Hear(h, s, p, ls) ==
  [h EXCEPT ![s] = @ \o [i \in DOMAIN ls |-> [pane |-> p, line |-> ls[i]]]]

(* A chunk with a newline ends the partial line and begins the next; a     *)
(* chunk that is the last one decoded is not decoded again.                *)
MutDecode(state, msg) ==
  [state EXCEPT !.lastMsg = msg,
                !.lines = IF msg.n \in Breaks THEN <<Append(state.buffer, msg.n)>> ELSE <<>>,
                !.buffer = IF msg.n \in Breaks THEN <<msg.n>> ELSE Append(@, msg.n)]
Decode(state, msg) ==
  IF state.lastMsg = msg THEN state
  ELSE IF msg.n \in Breaks
    THEN [state EXCEPT !.lastMsg = msg, !.lines = <<Append(state.buffer, msg.n)>>,
                       !.buffer = <<msg.n>>]
    ELSE [state EXCEPT !.lastMsg = msg, !.lines = <<>>, !.buffer = Append(@, msg.n)]

write(reg, s, p, msg) ==
  LET state == Decode(reg.perPane[p], msg)
  IN  [perPane |-> [reg.perPane EXCEPT ![p] =
                      [state EXCEPT !.admittingConsumers = @ \cup {s}]],
       heard   |-> Hear(reg.heard, s, p, state.lines)]

(* The last consumer that took output of a pane is given the partial line. *)
end(reg, s) ==
  LET leaves(p) == s \in reg.perPane[p].admittingConsumers
      last(p) == reg.perPane[p].admittingConsumers = {s}
      tail(p) == IF last(p) THEN <<reg.perPane[p].buffer>> ELSE <<>>
  IN  [perPane |-> [p \in Panes |->
                      IF last(p) THEN newPerPaneLineState
                      ELSE [reg.perPane[p] EXCEPT !.admittingConsumers = @ \ {s}]],
       heard   |-> FoldSet(LAMBDA p, h : Hear(h, s, p, tail(p)), reg.heard, Panes)]

(* Dispatch goes from the narrow scopes to the wide ones, endAll takes the *)
(* server's sinks first.                                                   *)
Narrower(s, t) == Cardinality(Scope[s]) < Cardinality(Scope[t])
Registry == [perPane |-> perPane, heard |-> heard]
Becomes(reg) == perPane' = reg.perPane /\ heard' = reg.heard

Written(reg, c, copy, to) ==
  FoldLeft(LAMBDA acc, s : write(acc, s, c.pane, [n |-> c.n, copy |-> copy]),
           reg, SetToSortSeq(to \cap Liners, Narrower))

-----------------------------------------------------------------------------
(* The router's steps that reach a sink.  A held chunk is replayed as the  *)
(* copy that hold() made, to the sinks that did not get the original.      *)

LineDispatch ==
  /\ dispatchBytes
  /\ LET c == inbox[1].chunk
     IN  Becomes(Written(Registry, c, FALSE, Admits(router, c)))

LineSettle ==
  /\ Settle
  /\ LET r == Settled([router EXCEPT !.queries = Tail(@)], router.queries[1])
     IN  Becomes(FoldLeft(LAMBDA acc, h :
           IF r.table[h.chunk.pane] = Nowhere THEN acc
           ELSE Written(acc, h.chunk, TRUE, Replays(r, h)), Registry, r.held))

(* Byte sinks stay attached; TopologyRouter lets them go.                  *)
LineDetach(s) ==
  /\ Detach(s)
  /\ Becomes(end(Registry, s))

LineClose ==
  /\ TransportClose
  /\ Becomes(FoldRight(LAMBDA s, acc : end(acc, s),
                        SetToSortSeq(Live \cap Liners, Narrower), Registry))

Elsewhere ==
  /\ \/ Ready
     \/ TransportLost
     \/ \E s \in Sinks : AttachBytesSink(s)
     \/ handleNotification
     \/ ReadReply
     \/ \E p \in Panes, w \in Windows \cup {Killed} : Move(p, w)
     \/ Emit
     \/ SessionsChanged
     \/ \E p \in Panes : Write(p)
     \/ Execute
  /\ UNCHANGED <<perPane, heard>>

LineNext ==
  \/ LineDispatch
  \/ LineSettle
  \/ \E s \in Liners : LineDetach(s)
  \/ LineClose
  \/ Elsewhere

LineSpec == LineInit /\ [][LineNext]_lineVars

-----------------------------------------------------------------------------
(* Properties *)

GivenTo(s, p, n) == \E i \in DOMAIN got[s] : got[s][i] = [pane |-> p, n |-> n]

(* A chunk is decoded once, however many consumers take it: no text is in  *)
(* a partial line twice.                                                   *)
DecodedOnce == \A p \in Panes : IsInjective(perPane[p].buffer)

(* What a consumer is given reads as its pane wrote it, whatever was held  *)
(* and replayed, and whoever shares the pane's decoder: no text is in a    *)
(* line twice, what is missing from the middle of one was given to no      *)
(* consumer, lines do not overlap but in the chunk that parts them, and    *)
(* who is given a chunk that ends a line is given that line.  The chunks   *)
(* the lines are made of come once and in order themselves.                *)
LinesAsWritten ==
  /\ OnceAndInOrder
  /\ DecodedOnce
  /\ \A s \in Liners : \A i \in DOMAIN heard[s] :
       LET l == heard[s][i].line  pane == heard[s][i].pane IN
       /\ \A j \in 1..Len(l) - 1 : l[j] < l[j + 1]
       /\ \A n \in l[1]..l[Len(l)], t \in Liners : GivenTo(t, pane, n) => n \in Range(l)
       /\ \A j \in 1..i - 1 : heard[s][j].pane = pane => Last(heard[s][j].line) <= l[1]
  /\ \A s \in Liners, p \in Panes, n \in Breaks :
       GivenTo(s, p, n) => \E i \in DOMAIN heard[s] :
         heard[s][i].pane = p /\ Last(heard[s][i].line) = n
=============================================================================
