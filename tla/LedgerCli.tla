------------------------------ MODULE LedgerCli ------------------------------
(***************************************************************************)
(* services/sealed-ledger: what an operator reads from the exit code of the *)
(* `ledger` command.  rotate, hold and retention apply go through the       *)
(* running service or, with --offline, to the files, and answer by exit     *)
(* code; verify --path <one segment file> decides from the journal or the   *)
(* sidecar how to check it, while rotations and retention move the files    *)
(* and somebody may edit them.                                              *)
(***************************************************************************)
EXTENDS Naturals, FiniteSets

CONSTANTS
  Cmds,                   \* invocations of the command
  Orders,                 \* what one may be asked: [verb, ...]
  Closed,                 \* segments an earlier rotation closed
  MaxSegs,                \* bound: segments ever opened
  CliFaults, CliMaxEdits  \* bounds

ASSUME CliAssumption ==
  /\ MaxSegs \in Nat /\ Closed \in Nat /\ Closed < MaxSegs /\ "nobody" \notin Cmds
  /\ \A o \in Orders : /\ o.verb \in {"rotate", "place", "release", "apply", "verify"}
                       /\ o.verb = "verify" => o.seg \in 1..MaxSegs

VARIABLES
  at,                \* segment -> how far its rotation, archival and move got
  bytes,             \* segment -> what its file holds
  digest,            \* segment -> the bytes its sidecar and archive line record
  sidecars,          \* segments whose sidecar stands in the archive directory
  hold, holdEvents,  \* the marker stands; the events appended for it
  named,             \* segments a ledger.retention.applied event names
  offbox,            \* segments whose signed anchor --anchors wrote
  lock,              \* who is inside _writer()
  cmd, cliFaults, cliEdits

cliVars == <<at, bytes, digest, sidecars, hold, holdEvents, named, offbox, lock, cmd, cliFaults, cliEdits>>
files == <<at, bytes, digest, sidecars>>
marker == <<hold, holdEvents>>

Segs == 1..MaxSegs
CliNobody == "nobody"
CliIdle == [pc |-> "idle"]
CliOpen == CHOOSE n \in Segs : at[n] \in {"open", "intent", "renamed"}
InLiveDir(n) == at[n] \in {"renamed", "closed", "archived"}
ClosedEntry(n) == at[n] \in {"closed", "archived", "moved"}
ArchivedEntry(n) == at[n] \in {"archived", "moved"}
PendingEntry(n) == at[n] \in {"intent", "renamed"}

CliInit ==
  /\ at = [n \in Segs |-> IF n <= Closed THEN "closed" ELSE IF n = Closed + 1 THEN "open" ELSE "none"]
  /\ bytes = [n \in Segs |-> "whole"] /\ digest = [n \in Segs |-> "none"]
  /\ sidecars = {} /\ named = {} /\ offbox = {}
  /\ hold = FALSE /\ holdEvents = 0 /\ lock = CliNobody
  /\ cmd = [c \in Cmds |-> CliIdle] /\ cliFaults = CliFaults /\ cliEdits = CliMaxEdits

CliGoes(c, next) == cmd' = [cmd EXCEPT ![c] = next]
CliFault == cliFaults > 0 /\ cliFaults' = cliFaults - 1
Fine == UNCHANGED cliFaults
Result(c, outcome) == [cmd[c] EXCEPT !.pc = "answer", !.out = outcome]

\* Bytes read from the file a path names, "gone" when there is none.
CliAt(where, n) ==
     IF (where = "live" /\ InLiveDir(n)) \/ (where = "archive" /\ at[n] = "moved") THEN bytes[n] ELSE "gone"

Stands(order) == order.verb = "verify" /\ CliAt(order.dir, order.seg) # "gone"

-----------------------------------------------------------------------------
(* One invocation. *)

CliBegin(c, order) ==
  /\ cmd[c] = CliIdle
  /\ CliGoes(c, [pc |-> "run", order |-> order, out |-> "none", exit |-> 0, lost |-> FALSE,
                 did |-> {}, unread |-> {}, done |-> {}, side |-> FALSE, unnamed |-> FALSE,
                  seg |-> 0, stood |-> Stands(order), mode |-> "none", read |-> "none"])
  /\ UNCHANGED <<files, marker, named, offbox, lock, cliFaults, cliEdits>>

CliAsks(c, verb) == cmd[c].pc = "run" /\ cmd[c].order.verb = verb
Enter(c) == lock = CliNobody /\ lock' = c

\* _writer: another process keeps the lock until the timeout.
Busy(c) ==
  /\ cmd[c].pc = "run" /\ cmd[c].order.verb # "verify" /\ CliFault
  /\ CliGoes(c, Result(c, "busy")) /\ UNCHANGED <<files, marker, named, offbox, lock, cliEdits>>

\* NoAnchorKey, SigningRequired: before the first byte.
CliRefused(c) ==
  /\ cmd[c].pc = "run" /\ cmd[c].order.verb # "verify" /\ CliFault
  /\ CliGoes(c, Result(c, "refused")) /\ UNCHANGED <<files, marker, named, offbox, lock, cliEdits>>

\* rotate: the intent names the open segment ...
RotateIntent(c) ==
  /\ CliAsks(c, "rotate") /\ Enter(c) /\ CliOpen < MaxSegs /\ Fine
  /\ at' = [at EXCEPT ![CliOpen] = "intent"]
  /\ CliGoes(c, [cmd[c] EXCEPT !.pc = "intent", !.seg = CliOpen])
  /\ UNCHANGED <<bytes, digest, sidecars, marker, named, offbox, cliEdits>>
\* ... which is renamed, or held open by another process: abort, nothing renamed ...
RotateRename(c) ==
  /\ cmd[c].pc = "intent" /\ UNCHANGED <<bytes, digest, sidecars, marker, named, offbox, cliEdits>>
  /\ \/ Fine /\ at' = [at EXCEPT ![cmd[c].seg] = "renamed"]
         /\ CliGoes(c, [cmd[c] EXCEPT !.pc = "renamed"]) /\ UNCHANGED lock
     \/ CliFault /\ at' = [at EXCEPT ![cmd[c].seg] = "open"] /\ CliGoes(c, Result(c, "busy")) /\ lock' = CliNobody
\* ... and committed, once the next one stands in its place; the commit line is
\* there already when _recover_locked finds a file held open.
RotateCommit(c) ==
  /\ cmd[c].pc = "renamed" /\ lock' = CliNobody
  /\ at' = [at EXCEPT ![cmd[c].seg] = "closed", ![cmd[c].seg + 1] = "open"]
  /\ LET n == cmd[c].seg IN
     \/ Fine /\ CliGoes(c, [Result(c, "done") EXCEPT !.did = {n}])
     \/ CliFault /\ CliGoes(c, [Result(c, "busy") EXCEPT !.did = {n}, !.unread = {n}])
  /\ UNCHANGED <<bytes, digest, sidecars, marker, named, offbox, cliEdits>>

\* place_hold: the marker, then its event, under the lock.
PlaceHold(c) ==
  /\ CliAsks(c, "place") /\ lock = CliNobody /\ UNCHANGED <<files, named, offbox, lock, cliEdits>>
  /\ \/ hold /\ CliGoes(c, Result(c, "refused")) /\ Fine /\ UNCHANGED marker
     \/ ~hold /\ hold' = TRUE /\ holdEvents' = holdEvents + 1
         /\ Fine /\ CliGoes(c, Result(c, "done"))
     \/ ~hold /\ hold' = TRUE /\ CliFault /\ UNCHANGED holdEvents /\ CliGoes(c, Result(c, "held_busy"))
\* release_hold: the event, then the marker, which another process may hold open.
ReleaseHold(c) ==
  /\ CliAsks(c, "release") /\ lock = CliNobody /\ UNCHANGED <<files, named, offbox, lock, cliEdits>>
  /\ \/ ~hold /\ CliGoes(c, Result(c, "refused")) /\ Fine /\ UNCHANGED marker
     \/ hold /\ hold' = FALSE /\ holdEvents' = holdEvents + 1
         /\ Fine /\ CliGoes(c, Result(c, "done"))
     \/ hold /\ CliFault /\ holdEvents' = holdEvents + 1 /\ UNCHANGED hold /\ CliGoes(c, Result(c, "busy"))

-----------------------------------------------------------------------------
(* retention apply. *)

Moves(n) == [at EXCEPT ![n] = "moved"]
\* Stopped early: the run still ledgers what it did.
CliStop(c, outcome) == CliGoes(c, [cmd[c] EXCEPT !.pc = "event", !.out = outcome])
CliDue == {n \in Segs : at[n] = "closed"}
Oldest(S) == CHOOSE n \in S : \A k \in S : n <= k
ChainOk(b) == b \in {"whole", "spaced", "forged", "cut"}     \* every hash and link recomputes
CountOk(b) == b \in {"whole", "spaced", "forged"}
HeadOk(b) == b \in {"whole", "spaced"}                      \* the last hash is the recorded one

ApplyStart(c) ==
  /\ CliAsks(c, "apply") /\ Fine
  /\ IF hold THEN CliGoes(c, Result(c, "hold")) ELSE CliGoes(c, [cmd[c] EXCEPT !.pc = "plan"])
  /\ UNCHANGED <<files, marker, named, offbox, lock, cliEdits>>

\* _refuse_unless_live_verify_ok: the whole live chain, once per run, before
\* its first move or commit.
LiveOk == \A n \in CliDue : HeadOk(bytes[n])

\* _complete_pending_moves: a move an earlier run left.
ApplyComplete(c) ==
  /\ cmd[c].pc = "plan" /\ cmd[c].did = {} /\ Fine
  /\ \E n \in Segs :
       /\ at[n] = "archived"
       /\ \/ ~LiveOk /\ CliStop(c, "corrupt") /\ UNCHANGED at
          \/ LiveOk /\ at' = Moves(n) /\ CliGoes(c, [cmd[c] EXCEPT !.done = @ \union {n}])
  /\ UNCHANGED <<bytes, digest, sidecars, marker, named, offbox, lock, cliEdits>>

Archivable(c) == CliDue # {} /\ HeadOk(bytes[Oldest(CliDue)]) /\ (cmd[c].did = {} => LiveOk)
\* _plan_archive: the oldest closed one, verified; then its sidecar, never
\* over one with other content.
ApplyPlan(c) ==
  /\ cmd[c].pc = "plan" /\ Fine /\ UNCHANGED <<at, bytes, marker, named, offbox, lock, cliEdits>>
  /\ \/ CliDue = {} /\ CliStop(c, "done") /\ UNCHANGED <<digest, sidecars>>
     \/ CliDue # {} /\ ~Archivable(c) /\ CliStop(c, "corrupt") /\ UNCHANGED <<digest, sidecars>>
     \/ Archivable(c) /\ hold /\ CliStop(c, "hold") /\ UNCHANGED <<digest, sidecars>>
     \/ LET n == Oldest(CliDue) IN
        /\ Archivable(c) /\ ~hold
        /\ \/ n \in sidecars /\ digest[n] # bytes[n] /\ CliStop(c, "refused") /\ UNCHANGED <<digest, sidecars>>
           \/ /\ n \in sidecars => digest[n] = bytes[n]
              /\ sidecars' = sidecars \union {n} /\ digest' = [digest EXCEPT ![n] = bytes[n]]
              /\ CliGoes(c, [cmd[c] EXCEPT !.pc = "commit", !.seg = n, !.side = n \notin sidecars])

\* The archive line, under the lock, after one more look at the hold; the line
\* stands, and the run does not count it, when _recover_locked finds a file held open.
ApplyCommit(c) ==
  /\ cmd[c].pc = "commit" /\ lock = CliNobody
  /\ LET n == cmd[c].seg IN
     \/ /\ hold /\ CliStop(c, "hold") /\ UNCHANGED at /\ Fine
        /\ sidecars' = IF cmd[c].side /\ ~ArchivedEntry(n) THEN sidecars \ {n} ELSE sidecars
     \/ ~hold /\ n \notin CliDue /\ CliGoes(c, [cmd[c] EXCEPT !.pc = "plan"]) /\ UNCHANGED <<at, sidecars>> /\ Fine
     \/ /\ ~hold /\ n \in CliDue /\ at' = [at EXCEPT ![n] = "archived"] /\ UNCHANGED sidecars
        /\ \/ Fine /\ CliGoes(c, [cmd[c] EXCEPT !.pc = "move", !.did = @ \union {n}])
           \/ CliFault /\ CliGoes(c, [cmd[c] EXCEPT !.pc = "event", !.out = "busy", !.did = @ \union {n}, !.unread = {n}])
  /\ UNCHANGED <<bytes, digest, marker, named, offbox, lock, cliEdits>>

\* _move_one, outside the locks; a file held open stays a pending move.
ApplyMove(c) ==
  /\ cmd[c].pc = "move" /\ CliGoes(c, [cmd[c] EXCEPT !.pc = "plan"])
  /\ \/ Fine /\ at' = Moves(cmd[c].seg)
     \/ CliFault /\ UNCHANGED at
  /\ UNCHANGED <<bytes, digest, sidecars, marker, named, offbox, lock, cliEdits>>

\* Faulty variant: a run that was stopped ledgers nothing.
OwedIfDone(c) == IF cmd[c].out = "done" THEN (cmd[c].did \union cmd[c].done) \ cmd[c].unread ELSE {}
\* What the ledger.retention.applied event of the run has to name.
Owed(c) == (cmd[c].did \union cmd[c].done) \ cmd[c].unread

\* _retention_event, which may itself be refused by a busy ledger.
ApplyEvent(c) ==
  /\ cmd[c].pc = "event" /\ lock = CliNobody
  /\ \/ Fine /\ named' = named \union Owed(c) /\ CliGoes(c, Result(c, cmd[c].out))
     \/ /\ Owed(c) # {} /\ CliFault /\ UNCHANGED named
        /\ CliGoes(c, [Result(c, IF cmd[c].out = "done" THEN "busy" ELSE cmd[c].out) EXCEPT !.unnamed = TRUE])
  /\ UNCHANGED <<files, marker, offbox, lock, cliEdits>>

-----------------------------------------------------------------------------
(* The exit code. *)

\* The route: a status and whether its detail begins with "ledger busy" (a
\* hold whose event failed says first that the hold IS in place).
CliRoute(outcome) ==
  CASE outcome = "done" -> [status |-> 200, busy |-> FALSE]
    [] outcome = "hold" -> [status |-> 423, busy |-> FALSE]
    [] outcome \in {"busy", "held_busy"} -> [status |-> 503, busy |-> outcome = "busy"]
    [] outcome = "corrupt" -> [status |-> 500, busy |-> FALSE]
    [] outcome = "refused" -> [status |-> 409, busy |-> FALSE]

\* _served_or_exit.
ServedExit(answer) ==
  CASE answer.status = 200 -> 0
    [] answer.status = 423 \/ answer.busy -> 4
    [] answer.status = 500 -> 1
    [] OTHER -> 2

\* Through the service, or by the exceptions themselves with --offline.
RotateExit(o, served) == IF served THEN ServedExit(CliRoute(o)) ELSE [done |-> 0, busy |-> 4, refused |-> 2][o]
PlaceExit(o, served) ==
  IF served THEN ServedExit(CliRoute(o))
  ELSE CASE o = "done" -> 0 [] o = "refused" -> 2 [] OTHER -> 4
ReleaseExit(o, served) == IF served THEN ServedExit(CliRoute(o)) ELSE [done |-> 0, busy |-> 4, refused |-> 2][o]
ApplyExit(o, served) ==
  IF served THEN ServedExit(CliRoute(o)) ELSE [done |-> 0, hold |-> 4, busy |-> 4, refused |-> 2, corrupt |-> 1][o]

ExitOf(verb, o, served) ==
  CASE verb = "rotate" -> RotateExit(o, served) [] verb = "place" -> PlaceExit(o, served)
    [] verb = "release" -> ReleaseExit(o, served) [] verb = "apply" -> ApplyExit(o, served)

Leaves(c, code) == [cmd[c] EXCEPT !.pc = "done", !.exit = code]

\* append_anchor_line after a rotation that is committed already.
AnchorLine(written) == IF written THEN 0 ELSE 1

CliAnswer(c) ==
  /\ cmd[c].pc = "answer" /\ UNCHANGED <<files, marker, named, lock, cliEdits>>
  /\ LET o == cmd[c].order IN
     IF cmd[c].out = "done" /\ o.verb = "rotate" /\ o.anchors
     THEN \/ Fine /\ offbox' = offbox \union cmd[c].did /\ CliGoes(c, Leaves(c, AnchorLine(TRUE)))
          \/ CliFault /\ UNCHANGED offbox /\ CliGoes(c, Leaves(c, AnchorLine(FALSE)))
     ELSE Fine /\ UNCHANGED offbox /\ CliGoes(c, Leaves(c, ExitOf(o.verb, cmd[c].out, o.served)))

\* _call_served: whatever went wrong on the way, exit 2.
LoseAnswer(c) ==
  /\ cmd[c].pc = "answer" /\ cmd[c].order.served /\ CliFault
  /\ CliGoes(c, [Leaves(c, 2) EXCEPT !.lost = TRUE]) /\ UNCHANGED <<files, marker, named, offbox, lock, cliEdits>>

-----------------------------------------------------------------------------
(* verify --path. *)

Path(c) == cmd[c].order
CliVerifies(c, pc) == cmd[c].pc = pc /\ cmd[c].order.verb = "verify"
Look(c, next) == CliGoes(c, next) /\ UNCHANGED <<files, marker, named, offbox, lock, cliEdits>> /\ Fine

\* No journal of its own: a sidecar beside the file decides, then the journal
\* its name points to.
ChooseMode(c) ==
  /\ CliVerifies(c, "run")
  /\ LET n == Path(c).seg IN
     \/ Path(c).dir = "archive" /\ n \in sidecars /\ Look(c, [cmd[c] EXCEPT !.pc = "read", !.mode = "sidecar"])
     \/ Path(c).dir = "archive" /\ n \notin sidecars /\ Look(c, [cmd[c] EXCEPT !.pc = "whole"])
     \/ /\ Path(c).dir = "live" /\ ClosedEntry(n) /\ ~ArchivedEntry(n)
        /\ Look(c, [cmd[c] EXCEPT !.pc = "read", !.mode = "closed"])
     \/ /\ Path(c).dir = "live" /\ ~(ClosedEntry(n) /\ ~ArchivedEntry(n))
        /\ Look(c, [cmd[c] EXCEPT !.pc = "stat",
                                  !.mode = IF ArchivedEntry(n) THEN "pending-move"
                                           ELSE IF PendingEntry(n) THEN "pending-rotation" ELSE "none"])

\* exists_strict, after the journal was read.
StatFile(c) ==
  /\ CliVerifies(c, "stat")
  /\ Look(c, [cmd[c] EXCEPT !.pc = IF CliAt("live", Path(c).seg) # "gone" /\ cmd[c].mode # "none" THEN "read" ELSE "whole"])

\* Faulty variant: the bytes are compared only for a file in the archive.
SegmentHoldsLive(mode, b, recorded) ==
  ChainOk(b) /\ CountOk(b) /\ HeadOk(b) /\ (mode = "sidecar" => b = recorded)
\* verify_closed_segment and verify_segment_file.
SegmentHolds(mode, b, recorded) ==
  ChainOk(b) /\ CountOk(b) /\ HeadOk(b) /\ (mode \in {"sidecar", "pending-move"} => b = recorded)

ReadSegment(c) ==
  /\ CliVerifies(c, "read")
  /\ LET b == CliAt(Path(c).dir, Path(c).seg)
     IN  Look(c, [Leaves(c, IF SegmentHolds(cmd[c].mode, b, digest[Path(c).seg]) THEN 0 ELSE 1) EXCEPT !.read = b])

\* Any other file: the chain of this one file from the genesis hash; nothing
\* there at all is exit 2.
ReadWhole(c) ==
  /\ CliVerifies(c, "whole")
  /\ LET b == CliAt(Path(c).dir, Path(c).seg)
         code == IF b = "gone" THEN 2 ELSE IF ChainOk(b) /\ Path(c).seg = 1 THEN 0 ELSE 1
     IN  Look(c, [Leaves(c, code) EXCEPT !.read = b, !.mode = "single"])

-----------------------------------------------------------------------------
(* Somebody edits a segment file that is no longer written. *)

CliEdit(n, b) ==
  /\ cliEdits > 0 /\ cliEdits' = cliEdits - 1 /\ at[n] \in {"closed", "archived", "moved"} /\ bytes[n] = "whole"
  /\ bytes' = [bytes EXCEPT ![n] = b]
  /\ UNCHANGED <<at, digest, sidecars, marker, named, offbox, lock, cmd, cliFaults>>

CliNext ==
  \/ \E c \in Cmds :
       \/ \E order \in Orders : CliBegin(c, order)
       \/ Busy(c) \/ CliRefused(c) \/ RotateIntent(c) \/ RotateRename(c) \/ RotateCommit(c)
       \/ PlaceHold(c) \/ ReleaseHold(c)
       \/ ApplyStart(c) \/ ApplyComplete(c) \/ ApplyPlan(c) \/ ApplyCommit(c) \/ ApplyMove(c) \/ ApplyEvent(c)
       \/ CliAnswer(c) \/ LoseAnswer(c)
       \/ ChooseMode(c) \/ StatFile(c) \/ ReadSegment(c) \/ ReadWhole(c)
  \/ \E n \in Segs, b \in {"spaced", "forged", "cut", "broken"} : CliEdit(n, b)

CliSpec == CliInit /\ [][CliNext]_cliVars

-----------------------------------------------------------------------------
(* Properties. *)

CliEnded(c, verb) == cmd[c].pc = "done" /\ cmd[c].order.verb = verb

\* cli.rotate and its README section: exit 0 means the segment is closed and,
\* with --anchors, its signed anchor is in the off-box file; exit 2 and 4 mean
\* nothing was rotated, unless the service's answer never came back, or a file
\* was held open when the committed rotation was read back.
RotateExitTrue ==
  \A c \in Cmds : CliEnded(c, "rotate") =>
    /\ cmd[c].exit = 0 => cmd[c].did # {} /\ (cmd[c].order.anchors => cmd[c].did \subseteq offbox)
    /\ cmd[c].exit \in {2, 4} => cmd[c].did \subseteq cmd[c].unread \/ cmd[c].lost

\* archive_closed_segments: a run that archived or moved a segment, however it
\* ended, has its ledger.retention.applied event for each it counted (all but
\* one whose archive line stood when a file held open stopped it), unless that
\* event was refused too; exit 0 is said only with the event in the chain.
ApplyExitTrue ==
  \A c \in Cmds : CliEnded(c, "apply") =>
    /\ Owed(c) \subseteq named \/ cmd[c].unnamed
    /\ cmd[c].exit = 0 => cmd[c].did \union cmd[c].done \subseteq named

\* Two runs of apply have planned the segment when a hold refuses the one that
\* wrote the sidecar, which takes it back, and the other archives without it.
SidecarLost(order) == order.dir = "archive" /\ at[order.seg] = "moved" /\ order.seg \notin sidecars

\* cli.verify on one segment file: OK is said only of a file whose events are
\* the ones the rotation closed, byte for byte the archived ones once the
\* journal or a sidecar says it was archived; TAMPERED only of a file somebody
\* edited, or that stood there when the command began and was moved before it
\* was read, or that is archived without a sidecar.
FileVerdictTrue ==
  \A c \in Cmds : CliEnded(c, "verify") =>
    /\ cmd[c].exit = 0 /\ cmd[c].mode # "single" => cmd[c].read \in {"whole", "spaced"}
    /\ cmd[c].exit = 0 /\ cmd[c].mode \in {"sidecar", "pending-move"} => cmd[c].read = digest[cmd[c].order.seg]
    /\ cmd[c].exit = 1 /\ cmd[c].stood =>
         bytes[cmd[c].order.seg] # "whole" \/ cmd[c].read = "gone" \/ SidecarLost(cmd[c].order)

CliTruthful == RotateExitTrue /\ ApplyExitTrue /\ FileVerdictTrue
=============================================================================
