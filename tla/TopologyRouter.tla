--------------------------- MODULE TopologyRouter ---------------------------
(***************************************************************************)
(* TopologyRouter (src/topology-router.ts) with the table, the sink        *)
(* registry and the epoch tracker it owns (src/pane-output.ts): which      *)
(* sinks the output of a pane is written to while panes move between       *)
(* windows and the table is re-read by queries that may answer too late.   *)
(*                                                                         *)
(* tmux writes one ordered stream of output, notifications and replies.    *)
(* Between a change and its notification it may answer a query, but it     *)
(* writes no output.  A reply resolves a promise: the continuation of the  *)
(* query runs after the rest of the data the reply came with, so other     *)
(* messages may be handled in between.                                     *)
(*                                                                         *)
(* Sinks write and return: a write that attaches, detaches or closes from  *)
(* within is not modelled, nor is idle-pane suppression (ElectronBridge).  *)
(***************************************************************************)
EXTENDS Integers, FiniteSets, SequencesExt

CONSTANTS
  Panes,
  Floating,    \* panes no layout lists (tmux 3.8); they stay where they are
  Windows,
  Foreign,     \* windows of other sessions: tmux sends no layout, no output
  Starts,      \* where the panes may be at first
  Sinks,
  Scope,       \* the places a sink admits; a server scope admits Nowhere too
  KeepsOne,    \* the application never detaches its last window or session sink
  Early,       \* sinks attached before anything else happens
  MaxMoves, MaxOutput, \* bounds on what tmux does
  MaxTrouble,  \* bound: how many kinds of trouble happen, each once
  HeldLimit    \* HELD_BYTES_LIMIT, in chunks

Nowhere == "nowhere"  \* the table has no row; as a place: not created yet
Killed == "killed"
All == "all"      \* the query that lists every pane of the server

Places == Windows \cup {Nowhere, Killed}

ASSUME PanesAssumption == Floating \subseteq Panes /\ Foreign \subseteq Windows
ASSUME PlacesAssumption ==
  /\ Nowhere \notin Windows /\ Killed \notin Windows /\ All \notin Windows
  /\ Starts \subseteq [Panes -> Windows \cup {Nowhere}]
ASSUME ScopeAssumption ==
  Scope \in [Sinks -> SUBSET (Windows \cup {Nowhere})] /\ KeepsOne \in BOOLEAN
  /\ Early \subseteq Sinks
ASSUME BoundAssumption ==
  /\ MaxMoves \in Nat /\ MaxOutput \in Nat /\ MaxTrouble \in Nat /\ HeldLimit \in Nat

VARIABLES
  router,    \* [run, table, layouts, queries, held, refused]
  attached,  \* sinks in attach order; an attachment's seq is its index
  ended,     \* the ones disposed of
  conn,      \* "down", "ready" or "closed"
  place,     \* tmux: where each pane is
  dead,      \* tmux: windows that were closed; their ids are not used again
  notices,   \* tmux: changes it has not told of yet
  inbox,     \* what it has written and the client has not read
  draining,  \* a continuation ran since the last macrotask
  got,       \* what each sink was given
  since,     \* per sink, the chunks of each pane that came before its attach
  written, arrived, moves, \* counters
  trouble,   \* "refused", "lost", "sessions", "unparsed": what has happened
  blind      \* a failed bootstrap was reported and nothing has seeded since

tmuxVars == <<place, dead, notices, written, moves>>
sinkVars == <<attached, ended, since>>
vars == <<router, sinkVars, conn, inbox, draining, got, arrived, trouble,
          blind, tmuxVars>>

Kinds == {"refused", "lost", "sessions", "unparsed"}

(* `standing' stands for the generations of TopologyEpochTracker: what     *)
(* isBootstrapCurrent, isLatestBootstrap and isWindowRefreshCurrent would  *)
(* answer for the query.  `mine' is `this.queryRun === run'.               *)
Query == [win : Windows \cup {All}, standing : {"current", "latest", "stale"},
          mine : BOOLEAN, stage : {"sent", "replied", "settled"},
          outcome : {"", "ok", "gone", "refused", "lost"},
          listing : SUBSET (Panes \X Windows)]
Chunk == [pane : Panes, n : 1..MaxOutput, homes : SUBSET Places]

TypeOK ==
  /\ router.run \in BOOLEAN /\ router.refused \in BOOLEAN
  /\ router.table \in [Panes -> Windows \cup {Nowhere}]
  /\ router.layouts \in Seq(Windows \X SUBSET Panes)
  /\ router.queries \in Seq(Query)
  /\ router.held \in Seq([chunk : Chunk, attachedBy : 0..Cardinality(Sinks)])
  /\ Len(router.held) <= HeldLimit
  /\ attached \in Seq(Sinks) /\ IsInjective(attached) /\ ended \subseteq Range(attached)
  /\ conn \in {"down", "ready", "closed"} /\ router.run = (conn = "ready")
  /\ place \in [Panes -> Places] /\ dead \subseteq Windows
  /\ trouble \subseteq Kinds /\ draining \in BOOLEAN /\ blind \in BOOLEAN
  /\ written \in [Panes -> 0..MaxOutput] /\ arrived \in [Panes -> 0..MaxOutput]

Init ==
  /\ router = [run |-> FALSE, table |-> [p \in Panes |-> Nowhere], layouts |-> <<>>,
               queries |-> <<>>, held |-> <<>>, refused |-> FALSE]
  /\ attached = SetToSeq(Early) /\ ended = {} /\ conn = "down"
  /\ place \in Starts /\ dead = {} /\ notices = <<>> /\ inbox = <<>>
  /\ draining = FALSE /\ got = [s \in Sinks |-> <<>>]
  /\ since = [s \in Sinks |-> [p \in Panes |-> 0]]
  /\ written = [p \in Panes |-> 0] /\ arrived = [p \in Panes |-> 0]
  /\ moves = 0 /\ trouble = {} /\ blind = FALSE

-----------------------------------------------------------------------------
(* SinkRegistry *)

Live == Range(attached) \ ended
Topological(s) == Nowhere \notin Scope[s]
needsTopology == \E s \in Live : Topological(s)

Given(c) == [pane |-> c.pane, n |-> c.n]
Dispatch(g, c, to) == [s \in Sinks |-> IF s \in to THEN Append(g[s], Given(c)) ELSE g[s]]

(* Live dispatch admits every scope, replay the window and session scopes  *)
(* of the sinks attached when the chunk came.                              *)
Admits(r, c) == {s \in Live : r.table[c.pane] \in Scope[s]}
AttachedBy(seq) == {s \in Sinks : \E i \in 1..seq : attached[i] = s}
Replays(r, h) == {s \in Admits(r, h.chunk) \cap AttachedBy(h.attachedBy) : Topological(s)}

-----------------------------------------------------------------------------
(* PaneTopologyManager.  windowIndex may name panes that have left their   *)
(* window, and every reader asks the table: it is the table's inverse.     *)

In(t, w) == {p \in Panes : t[p] = w}
Unplace(t, ps) == [p \in Panes |-> IF p \in ps THEN Nowhere ELSE t[p]]

seed(listing) ==
  [p \in Panes |-> IF \E w \in Windows : <<p, w>> \in listing
                   THEN CHOOSE w \in Windows : <<p, w>> \in listing ELSE Nowhere]
removeWindow(t, w) == Unplace(t, In(t, w))
updateWindow(t, w, ps) == [p \in Panes |-> IF p \in ps THEN w ELSE Unplace(t, In(t, w))[p]]

(* What a layout of w contradicts: tiled panes it omits, panes it lists    *)
(* that the table has elsewhere.                                           *)
Omitted(t, w, ps) == In(t, w) \ (ps \cup Floating)
MovedIn(t, w, ps) == {p \in ps : t[p] \notin {w, Nowhere}}
unplaceContradicted(t, w, ps) == Unplace(t, Omitted(t, w, ps) \cup MovedIn(t, w, ps))

-----------------------------------------------------------------------------
(* TopologyEpochTracker and the queries *)

Outdate(qs, wins, standing) ==
  [i \in DOMAIN qs |-> IF qs[i].win \in wins /\ qs[i].standing # "stale"
                       THEN [qs[i] EXCEPT !.standing = standing] ELSE qs[i]]
Ask(qs, w) == Append(qs, [win |-> w, standing |-> "current", mine |-> TRUE,
                          stage |-> "sent", outcome |-> "", listing |-> {}])

bootstrap(r) ==
  IF ~r.run THEN r
  ELSE [r EXCEPT !.layouts = <<>>,
                 !.queries = Ask(Outdate(r.queries, Windows \cup {All}, "stale"), All)]
refreshWindow(r, w) ==
  IF ~r.run THEN r
  ELSE [r EXCEPT !.queries = Ask(Outdate(r.queries, {w}, "stale"), w)]

invalidateWindow(r, w) ==
  [r EXCEPT !.layouts = SelectSeq(@, LAMBDA l : l[1] # w),
            !.queries = Outdate(Outdate(@, {w}, "stale"), {All}, "latest")]

(* A pane lost track of needs the server-wide query; otherwise the windows *)
(* that moved-in panes left are asked again, and `windows'.                *)
requery(r, left, lostTrack, windows) ==
  IF lostTrack THEN bootstrap(r)
  ELSE FoldSet(LAMBDA w, acc : refreshWindow(acc, w), r, left \cup windows)

(* Map.set keeps the place of a key that is already there.                 *)
recordLayout(ls, w, ps) ==
  IF \E i \in DOMAIN ls : ls[i][1] = w
    THEN [i \in DOMAIN ls |-> IF ls[i][1] = w THEN <<w, ps>> ELSE ls[i]]
    ELSE Append(ls, <<w, ps>>)

-----------------------------------------------------------------------------
(* Handlers, as functions of the router *)

OnMembership(r, w) ==
  LET gone == invalidateWindow([r EXCEPT !.table = removeWindow(@, w)], w)
  IN  IF needsTopology THEN refreshWindow(gone, w) ELSE gone

OnLayout(r, w, ps, parsed) ==
  IF ~needsTopology THEN r
  ELSE IF parsed
    THEN requery([r EXCEPT !.layouts = recordLayout(@, w, ps),
                           !.table = unplaceContradicted(@, w, ps)],
                 {r.table[p] : p \in MovedIn(r.table, w, ps)},
                 Omitted(r.table, w, ps) # {}, {w})
    ELSE refreshWindow([r EXCEPT !.layouts = SelectSeq(@, LAMBDA l : l[1] # w)], w)

(* A current bootstrap seeds the table and checks it against the layouts   *)
(* that came while it was in flight.                                       *)
CheckLayout(acc, l) ==
  [table |-> unplaceContradicted(acc.table, l[1], l[2]),
   left  |-> acc.left \cup {acc.table[p] : p \in MovedIn(acc.table, l[1], l[2])},
   lost  |-> acc.lost \/ Omitted(acc.table, l[1], l[2]) # {}]
MutSeeded(r, listing) == [r EXCEPT !.table = seed(listing), !.layouts = <<>>]
Seeded(r, listing) ==
  LET c == FoldLeft(CheckLayout, [table |-> seed(listing), left |-> {}, lost |-> FALSE], r.layouts)
  IN  requery([r EXCEPT !.table = c.table, !.layouts = <<>>], c.left, c.lost, {})

MutBootstrapSettled(r, q) ==
  IF q.outcome = "ok" /\ q.standing = "current" THEN Seeded(r, q.listing) ELSE r
MutBootstrapSettled2(r, q) ==
  IF q.outcome = "ok" /\ q.standing = "current" THEN Seeded(r, q.listing)
  ELSE IF q.outcome = "ok" /\ q.mine /\ needsTopology THEN bootstrap(r)
  ELSE r
BootstrapSettled(r, q) ==
  IF q.outcome = "ok" /\ q.standing = "current" THEN Seeded(r, q.listing)
  ELSE IF q.outcome = "ok" /\ q.standing = "latest" /\ q.mine /\ needsTopology
    THEN bootstrap(r)
  ELSE r
BootstrapFailed(q) == q.win = All /\ q.outcome # "ok" /\ q.mine /\ q.standing # "stale"

MutRefreshSettled(r, q) ==
  LET ps == {p \in Panes : <<p, q.win>> \in q.listing} IN
  IF q.outcome = "ok" THEN [r EXCEPT !.table = updateWindow(@, q.win, ps)] ELSE r
RefreshSettled(r, q) ==
  LET ps == {p \in Panes : <<p, q.win>> \in q.listing}
      removed == [r EXCEPT !.table = removeWindow(@, q.win)]
  IN  IF q.standing # "current" THEN r
      ELSE IF q.outcome = "ok"
        THEN requery([r EXCEPT !.table = updateWindow(@, q.win, ps)], {},
                     Omitted(r.table, q.win, ps) # {}, {})
      ELSE IF q.mine /\ q.outcome # "gone" /\ needsTopology THEN bootstrap(removed)
      ELSE removed

Settled(r, q) == IF q.win = All THEN BootstrapSettled(r, q) ELSE RefreshSettled(r, q)

(* releaseHeld: held chunks of panes that are placed now are replayed, the *)
(* others wait while a query is outstanding and are dropped after the last.*)
MutReleaseHeld(r) == [r EXCEPT !.refused = FALSE, !.held = <<>>]
ReleaseHeld(r) ==
  [r EXCEPT !.refused = FALSE,
            !.held = IF r.queries = <<>> THEN <<>>
                     ELSE SelectSeq(@, LAMBDA h : r.table[h.chunk.pane] = Nowhere)]
Replayed(r) ==
  FoldLeft(LAMBDA g, h : IF r.table[h.chunk.pane] = Nowhere THEN g
                         ELSE Dispatch(g, h.chunk, Replays(r, h)), got, r.held)

-----------------------------------------------------------------------------
(* Each kind of trouble comes once, and MaxTrouble kinds at most.          *)
Trouble(kind) ==
  /\ kind \notin trouble /\ Cardinality(trouble) < MaxTrouble
  /\ trouble' = trouble \cup {kind}

(* The transport and the application.  Between macrotasks no continuation  *)
(* is waiting.                                                             *)

Pending == router.queries # <<>> /\ router.queries[1].stage = "settled"
Macrotask == ~(draining /\ Pending)
Idle == ~Pending

(* The client rejects what is in flight when its connection ends.          *)
Reject(qs) ==
  [i \in DOMAIN qs |-> IF qs[i].stage = "settled" THEN [qs[i] EXCEPT !.mine = FALSE]
     ELSE [qs[i] EXCEPT !.mine = FALSE, !.stage = "settled", !.outcome = "lost", !.listing = {}]]

Ready ==
  /\ conn = "down" /\ Idle /\ conn' = "ready" /\ draining' = FALSE
  /\ LET r == [router EXCEPT !.run = TRUE]
     IN  router' = IF needsTopology THEN bootstrap(r) ELSE r
  /\ UNCHANGED <<sinkVars, inbox, got, arrived, trouble, blind, tmuxVars>>

(* A close event is a macrotask of its own; sinks survive it.              *)
MutLostRouter(r) == [r EXCEPT !.run = FALSE, !.queries = Reject(@)]
LostRouter(r) ==
  [r EXCEPT !.run = FALSE, !.queries = Reject(@), !.table = [p \in Panes |-> Nowhere]]
TransportLost ==
  /\ conn = "ready" /\ Idle /\ Trouble("lost")
  /\ conn' = "down" /\ inbox' = <<>> /\ draining' = FALSE
  /\ router' = LostRouter(router)
  /\ UNCHANGED <<sinkVars, got, arrived, blind, tmuxVars>>

(* Closing may happen in the middle of a chunk: a reply read before it     *)
(* still settles.                                                          *)
TransportClose ==
  /\ conn # "closed" /\ Macrotask /\ conn' = "closed" /\ inbox' = <<>>
  /\ router' = [router EXCEPT !.run = FALSE, !.queries = Reject(@), !.held = <<>>,
                              !.refused = FALSE]
  /\ ended' = Range(attached)
  /\ UNCHANGED <<attached, since, draining, got, arrived, trouble, blind, tmuxVars>>

(* Attaching at a window or session scope asks for the whole topology.     *)
AttachBytesSink(s) ==
  /\ conn # "closed" /\ Idle /\ s \notin Range(attached)
  /\ attached' = Append(attached, s) /\ since' = [since EXCEPT ![s] = arrived]
  /\ router' = IF Topological(s) THEN bootstrap(router) ELSE router
  /\ draining' = FALSE
  /\ UNCHANGED <<ended, conn, inbox, got, arrived, trouble, blind, tmuxVars>>

Detach(s) ==
  /\ Idle /\ s \in Live /\ ended' = ended \cup {s} /\ draining' = FALSE
  /\ KeepsOne => \E t \in Live \ {s} : Topological(t)
  /\ UNCHANGED <<router, attached, since, conn, inbox, got, arrived, trouble, blind, tmuxVars>>

-----------------------------------------------------------------------------
(* What the client reads *)

Reading(kind) ==
  /\ conn = "ready" /\ Macrotask /\ inbox # <<>> /\ inbox[1].kind = kind
  /\ inbox' = Tail(inbox) /\ draining' = FALSE
  /\ UNCHANGED <<sinkVars, conn, trouble, blind, tmuxVars>>

(* hold: past the limit the newest chunk is refused.                       *)
hold(r, c) ==
  IF Len(r.held) = HeldLimit THEN [r EXCEPT !.refused = TRUE]
  ELSE [r EXCEPT !.held = Append(@, [chunk |-> c, attachedBy |-> Len(attached)])]

dispatchBytes ==
  /\ Reading("output")
  /\ LET c == inbox[1].chunk IN
       /\ got' = Dispatch(got, c, Admits(router, c))
       /\ arrived' = [arrived EXCEPT ![c.pane] = c.n]
       /\ router' = IF router.table[c.pane] = Nowhere /\ needsTopology /\ router.queries # <<>>
                      THEN hold(router, c) ELSE router

handleNotification ==
  /\ \/ /\ Reading("membership")
        /\ router' = OnMembership(router, inbox[1].win)
     \/ /\ Reading("layout")
        /\ router' = OnLayout(router, inbox[1].win, inbox[1].panes, inbox[1].parsed)
     \/ /\ Reading("sessions")
        /\ router' = IF needsTopology THEN bootstrap(router) ELSE router
  /\ UNCHANGED <<got, arrived>>

(* Replies come in the order of the queries.                               *)
ReadReply ==
  /\ Reading("reply")
  /\ router' = [router EXCEPT !.queries =
       LET i == SelectInSeq(@, LAMBDA q : q.stage = "replied")
       IN  [@ EXCEPT ![i].stage = "settled"]]
  /\ UNCHANGED <<got, arrived>>

(* The continuation of the oldest settled query.                           *)
Settle ==
  /\ Pending /\ draining' = TRUE
  /\ LET q == router.queries[1]
         r == Settled([router EXCEPT !.queries = Tail(@)], q)
     IN  /\ router' = ReleaseHeld(r)
         /\ got' = Replayed(r)
         /\ blind' = IF BootstrapFailed(q) THEN TRUE
                     ELSE blind /\ ~(q.win = All /\ q.outcome = "ok" /\ q.standing = "current")
  /\ UNCHANGED <<sinkVars, conn, inbox, arrived, trouble, tmuxVars>>

-----------------------------------------------------------------------------
(* tmux.  A window lives while it has a pane.  A pane that is created,     *)
(* moved or killed leaves behind what there is to tell of it.              *)

Tell(m) == inbox' = IF conn = "ready" THEN Append(inbox, m) ELSE inbox
Notice(kind, w) == [kind |-> kind, win |-> w]

Move(p, to) ==
  LET from == place[p]  others == In(place, from) \ {p} IN
  /\ moves < MaxMoves /\ moves' = moves + 1
  /\ p \notin Floating /\ from \notin {to, Killed} /\ to \notin dead
  /\ ~(from = Nowhere /\ to = Killed)
  /\ place' = [place EXCEPT ![p] = to]
  /\ dead' = IF from \in Windows /\ others = {} THEN dead \cup {from} ELSE dead
  /\ notices' = notices
       \o (IF from = Nowhere THEN <<>>
           ELSE <<Notice(IF others = {} THEN "membership" ELSE "layout", from)>>)
       \o (IF to = Killed THEN <<>>
           ELSE <<Notice(IF In(place, to) = {} THEN "membership" ELSE "layout", to)>>)
  /\ inbox' = [i \in DOMAIN inbox |->
       IF inbox[i].kind = "output" /\ inbox[i].chunk.pane = p
         THEN [inbox[i] EXCEPT !.chunk.homes = @ \cup {to}] ELSE inbox[i]]
  /\ router' = [router EXCEPT !.held = [i \in DOMAIN router.held |->
       IF router.held[i].chunk.pane = p
         THEN [router.held[i] EXCEPT !.chunk.homes = @ \cup {to}] ELSE router.held[i]]]
  /\ UNCHANGED <<sinkVars, conn, draining, got, arrived, trouble, blind,
                 written>>

(* All there is to tell is told at once, and a layout lists the tiled      *)
(* panes there are when it is written.                                     *)
Visible(x) == x.kind = "membership" \/ x.win \notin dead \cup Foreign
Message(x, parsed) ==
  IF x.kind = "membership" THEN x
  ELSE [kind |-> "layout", win |-> x.win, parsed |-> parsed,
        panes |-> In(place, x.win) \ Floating]
Emit ==
  /\ notices # <<>> /\ notices' = <<>>
  /\ LET told == SelectSeq(notices, Visible)
         tell(bad) == inbox' = IF conn # "ready" THEN inbox
           ELSE inbox \o [i \in DOMAIN told |-> Message(told[i], i # bad)]
     IN  \/ tell(0) /\ UNCHANGED trouble
         \/ \E i \in DOMAIN told :
              told[i].kind = "layout" /\ Trouble("unparsed") /\ tell(i)
  /\ UNCHANGED <<router, sinkVars, conn, draining, got, arrived, blind,
                 place, dead, written, moves>>

SessionsChanged ==
  /\ Trouble("sessions") /\ Tell([kind |-> "sessions"])
  /\ UNCHANGED <<router, sinkVars, conn, draining, got, arrived, blind,
                 place, dead, notices, written, moves>>

(* tmux tells of a change before it reads a pane again.  The homes of a    *)
(* chunk are where its pane is when it is written, and the places it moves *)
(* to while the router is not done with it.                                *)
Write(p) ==
  /\ conn = "ready" /\ notices = <<>> /\ place[p] \in Windows \ Foreign
  /\ SumFunction(written) < MaxOutput /\ written' = [written EXCEPT ![p] = @ + 1]
  /\ Tell([kind |-> "output",
           chunk |-> [pane |-> p, n |-> written[p] + 1, homes |-> {place[p]}]])
  /\ UNCHANGED <<router, sinkVars, conn, draining, got, arrived, trouble, blind,
                 place, dead, notices, moves>>

(* list-panes: of every window, of one, or of one that is gone.            *)
Answer(q, outcome) ==
  [q EXCEPT !.stage = "replied", !.outcome = outcome,
            !.listing = IF outcome # "ok" THEN {}
                        ELSE {<<p, w>> \in Panes \X Windows : place[p] = w /\ q.win \in {All, w}}]
Execute ==
  LET i == SelectInSeq(router.queries, LAMBDA q : q.stage = "sent")
      q == router.queries[i]
      reply(outcome) == router' = [router EXCEPT !.queries[i] = Answer(q, outcome)]
  IN  /\ conn = "ready" /\ i # 0
      /\ \/ /\ reply(IF q.win # All /\ In(place, q.win) = {} THEN "gone" ELSE "ok")
            /\ UNCHANGED trouble
         \/ Trouble("refused") /\ reply("refused")
      /\ Tell([kind |-> "reply"])
      /\ UNCHANGED <<sinkVars, conn, draining, got, arrived, blind,
                     place, dead, notices, written, moves>>

-----------------------------------------------------------------------------

Next ==
  \/ Ready
  \/ TransportLost
  \/ TransportClose
  \/ \E s \in Sinks : AttachBytesSink(s)
  \/ \E s \in Sinks : Detach(s)
  \/ dispatchBytes
  \/ handleNotification
  \/ ReadReply
  \/ Settle
  \/ \E p \in Panes, w \in Windows \cup {Killed} : Move(p, w)
  \/ Emit
  \/ SessionsChanged
  \/ \E p \in Panes : Write(p)
  \/ Execute

Spec == Init /\ [][Next]_vars

(* tmux executes what it is sent and tells what there is to tell, and the  *)
(* runtime delivers and empties its queue.                                 *)
Fairness ==
  /\ WF_vars(Execute) /\ WF_vars(Emit) /\ WF_vars(Settle)
  /\ WF_vars(dispatchBytes \/ handleNotification \/ ReadReply)

FairSpec == Spec /\ Fairness

-----------------------------------------------------------------------------
(* Properties *)

InTransit ==
  {inbox[i].chunk : i \in {j \in DOMAIN inbox : inbox[j].kind = "output"}}
    \cup {router.held[i].chunk : i \in DOMAIN router.held}

(* Per-pane order holds, and no sink is given a chunk twice, whatever was  *)
(* held and replayed in between; a sink attached while a chunk was held is *)
(* not given it.                                                           *)
OnceAndInOrder ==
  \A s \in Sinks : \A i \in DOMAIN got[s] :
    /\ got[s][i].n > since[s][got[s][i].pane]
    /\ \A j \in 1..i - 1 : got[s][j].pane = got[s][i].pane => got[s][j].n < got[s][i].n

(* A sink is only given output of panes that were in its scope at some     *)
(* time between the writing of the chunk and its delivery: a move, once    *)
(* tmux has told of it, takes the pane out of its old scopes at once, and  *)
(* no row of an earlier connection routes anything.  A layout that does    *)
(* not parse tells nothing.                                                *)
RoutedHome ==
  [][\A s \in Sinks : \A i \in Len(got[s]) + 1 .. Len(got'[s]) :
       \E c \in InTransit :
         /\ Given(c) = got'[s][i]
         /\ c.homes \cap Scope[s] # {} \/ "unparsed" \in trouble]_vars

(* Output of a pane whose scope was never in doubt is not lost: when the   *)
(* router is done with the chunk, every sink of that scope attached when   *)
(* it came has it, or the failed bootstrap or the full hold that prevented *)
(* it is reported.                                                         *)
NothingLost ==
  [][\A c \in InTransit : \A s \in Live :
       \/ \E d \in InTransit' : Given(d) = Given(c)
       \/ \E i \in DOMAIN got'[s] : got'[s][i] = Given(c)
       \/ ~(c.homes \subseteq Scope[s]) \/ c.n <= since[s][c.pane]
       \/ conn' # "ready" \/ blind' \/ router'.refused \/ "unparsed" \in trouble]_vars

(* When nothing is under way the table agrees with tmux on every pane of   *)
(* the client's session, unless a failed bootstrap was reported.  The      *)
(* router is well formed at all times.                                     *)
TableConverges ==
  /\ TypeOK
  /\ notices = <<>> /\ inbox = <<>> /\ router.queries = <<>> /\ conn = "ready" /\ needsTopology /\ ~blind
       => \A p \in Panes : {place[p], router.table[p]} \cap (Windows \ Foreign) # {}
                             => router.table[p] = place[p]

(* Queries that supersede and re-ask each other come to an end, and with   *)
(* them the wait of what is held.                                          *)
QueriesSettle == router.queries # <<>> ~> router.queries = <<>>
=============================================================================
