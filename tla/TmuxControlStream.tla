------------------------- MODULE TmuxControlStream -------------------------
(***************************************************************************)
(* The tmux server as one control client sees it: it reads command lines   *)
(* in the order they were written and answers each with a guard block      *)
(*   %begin ... %end | %error                                              *)
(* after one unsolicited block, the greeting.  Between blocks it writes    *)
(* notifications.  tmux is not part of the library; what it does here is   *)
(* what src/protocol/parser.ts and src/client.ts rely on, and what         *)
(* src/mock/server.ts reproduces for the tests.                            *)
(*                                                                         *)
(* A line is a record.  `kind' is what the parser can tell apart, `of' the *)
(* place in `written' of the command whose block the line belongs to (0    *)
(* for the greeting), `size' the number of payload lines of the block a    *)
(* terminator closes.  Only `kind' is visible to the client: the other two *)
(* are there for the properties.                                           *)
(***************************************************************************)
EXTENDS Integers, Sequences, FiniteSets

CONSTANTS
  Calls,        \* calls of execute(), each made at most once
  Lists,        \* calls whose line is a tmux command list, "a ; b"
  Invalid,      \* calls whose line is blank, a comment, or holds a newline
  PayloadKinds, \* what a line of command output can look like
  MaxPayload,   \* bound: payload lines per block
  MaxNotes,     \* bound: notifications
  Mangling      \* whether a terminator can be corrupted on its way

(* "text"    an ordinary line of output                                    *)
(* "percent" a line of output that begins with %, such as a pane id        *)
(* "fake"    a line of output that reads as a well-formed %end             *)
Payload == {"text", "percent", "fake"}
Terminators == {"end", "error", "mangled"}

ASSUME CallsAssumption == Lists \subseteq Calls /\ Invalid \subseteq Calls
ASSUME StreamAssumption ==
  /\ PayloadKinds \subseteq Payload
  /\ MaxPayload \in Nat
  /\ MaxNotes \in Nat
  /\ Mangling \in BOOLEAN

VARIABLES
  written,  \* the command lines the transport accepted, in order
  at,       \* the command being answered, 0 for the greeting
  part,     \* how many blocks of it are complete
  open,     \* a block is open
  lines,    \* payload lines written in the open block
  notes,    \* notifications written
  alive,    \* the server has not exited
  leaving,  \* the client asked to detach
  inbox     \* lines written by tmux and not yet read by the client

streamVars == <<written, at, part, open, lines, notes, alive, leaving, inbox>>

Line == [kind : Payload \cup Terminators \cup {"begin", "note", "exit"},
         of : Nat, size : Nat]

StreamTypeOK ==
  /\ written \in Seq(Calls)
  /\ at \in Nat /\ part \in {0, 1} /\ lines \in 0..MaxPayload
  /\ notes \in 0..MaxNotes
  /\ open \in BOOLEAN /\ alive \in BOOLEAN /\ leaving \in BOOLEAN
  /\ inbox \in Seq(Line)

StreamInit ==
  /\ written = <<>> /\ at = 0 /\ part = 0 /\ open = FALSE /\ lines = 0
  /\ notes = 0 /\ alive = TRUE /\ leaving = FALSE /\ inbox = <<>>

Put(kind, size) == inbox' = Append(inbox, [kind |-> kind, of |-> at, size |-> size])

(* A command list gets one block per command, a line with a newline in it  *)
(* one per line, everything else one.                                      *)
LastBlock == at = 0 \/ written[at] \notin Lists \cup Invalid \/ part = 1

TmuxBegin ==
  /\ alive /\ ~open /\ at <= Len(written)
  /\ open' = TRUE /\ lines' = 0
  /\ Put("begin", 0)
  /\ UNCHANGED <<written, at, part, notes, alive, leaving>>

TmuxPayload(kind) ==
  /\ alive /\ open /\ lines < MaxPayload
  /\ lines' = lines + 1
  /\ Put(kind, 0)
  /\ UNCHANGED <<written, at, part, open, notes, alive, leaving>>

(* %end or %error, or what corruption on the way leaves of it.  A command  *)
(* list stops at the first command that fails.                             *)
TmuxEnd(kind) ==
  /\ alive /\ open
  /\ kind = "mangled" => Mangling
  /\ open' = FALSE
  /\ IF LastBlock \/ kind = "error"
       THEN at' = at + 1 /\ part' = 0
       ELSE at' = at /\ part' = 1
  /\ Put(kind, lines)
  /\ UNCHANGED <<written, lines, notes, alive, leaving>>

TmuxNotify ==
  /\ alive /\ ~open /\ notes < MaxNotes
  /\ notes' = notes + 1
  /\ Put("note", 0)
  /\ UNCHANGED <<written, at, part, open, lines, alive, leaving>>

(* tmux lets the client go: it detached, or its session ended.             *)
TmuxExit ==
  /\ alive /\ ~open
  /\ alive' = FALSE
  /\ Put("exit", 0)
  /\ UNCHANGED <<written, at, part, open, lines, notes, leaving>>

(* tmux is killed: no %exit, and an open block stays open.                 *)
TmuxDies ==
  /\ alive /\ alive' = FALSE
  /\ UNCHANGED <<written, at, part, open, lines, notes, leaving, inbox>>

TmuxNext ==
  \/ TmuxBegin
  \/ \E kind \in PayloadKinds : TmuxPayload(kind)
  \/ \E kind \in Terminators : TmuxEnd(kind)
  \/ TmuxNotify
  \/ TmuxExit
  \/ TmuxDies
=============================================================================
