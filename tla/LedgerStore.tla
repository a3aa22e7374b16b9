------------------------------ MODULE LedgerStore ------------------------------
(***************************************************************************)
(* The writer side of services/sealed-ledger/src/sealed_ledger/store.py:   *)
(* a hash-chained JSONL ledger kept as segments, written by several        *)
(* processes under one lock file, closed by rotation, archived by          *)
(* retention apply, frozen by a legal hold, and killed at any step.        *)
(*                                                                         *)
(* Files are inodes: P is the open segment's inode (0: no such file),      *)
(* closed[n] and archive[n] those behind <stem>-<n> in the ledger and in   *)
(* the archive directory.  A rename moves an inode between names.  The     *)
(* append-only journal is kept as what parse_journal makes of it (js) and  *)
(* its number of complete lines; js.torn is an unterminated last line.     *)
(* An event is its identity and its predecessor's: ids are unique, so an   *)
(* id stands for the event's hash and prev for prev_hash.                  *)
(***************************************************************************)
EXTENDS Integers, Sequences, FiniteSets

CONSTANTS
  Proc,        \* processes that have a LedgerStore open on the same path
  Role,        \* Role[p]: the operations process p may be asked for
  Operator,    \* Operator[p]: who p applies retention as
  MaxSeg,      \* bound: segments
  MaxEvents,   \* bound: events ever sealed
  MaxCrashes,  \* bound: process kills
  TornLine     \* what a kill inside the append's write may leave behind

Ops == {"append", "rotate", "place", "release", "apply"}
TornLines == {"bad", "noeol", "full"}

ASSUME LedgerAssumption ==
  /\ Role \in [Proc -> SUBSET Ops]
  /\ MaxSeg \in Nat \ {0}
  /\ MaxEvents \in Nat
  /\ MaxCrashes \in Nat
  /\ TornLine \subseteq TornLines
  /\ "nobody" \notin Proc
  /\ \A p \in Proc : Operator[p] # "none"

VARIABLES
  P, closed, archive,   \* directory entries: inodes, 0 when absent
  data,                 \* inode -> [lines, tail]
  tmp,                  \* .<name>.rotating: [st, ev]
  js,                   \* the segments journal, parsed
  hold,                 \* legal_hold.json exists
  sidecar,              \* <file>.segment.json: its archived_by, or "none"
  lock,                 \* holder of the writer lock file, or "nobody"
  pc, goal,             \* where each process is, and in which operation
  cache,                \* each process's _WriterCache
  wip,                  \* the event a process is writing
  ap,                   \* locals of a retention apply
  nextId,               \* next event id (uuid4 in the code)
  acked,                \* ids of the events whose append has returned
  crashes

disk == <<P, closed, archive, data, tmp, js, hold, sidecar>>
vars == <<disk, lock, pc, goal, cache, wip, ap, nextId, acked, crashes>>

-----------------------------------------------------------------------------
(* Events, journal entries and the parsed journal.                         *)

Seg == 1..MaxSeg
Genesis == 0
EventTypes == {"none", "app", "placed", "released", "retention", "rotated"}
Event == [id : Nat, prev : Nat, type : EventTypes, closes : Nat, names : SUBSET Nat]
Entry == [n : Nat, start : Nat, end : Nat, gen : Nat, head : Nat, rot : Event]

NoEvent == [id |-> 0, prev |-> 0, type |-> "none", closes |-> 0, names |-> {}]
NoEntry == [n |-> 0, start |-> 0, end |-> 0, gen |-> 0, head |-> 0, rot |-> NoEvent]

\* The entry the next segment continues: NextStart, NextGen of a list of entries.
NextStart(entries) == IF entries = <<>> THEN 0 ELSE entries[Len(entries)].end + 1
NextGen(entries) == IF entries = <<>> THEN Genesis ELSE entries[Len(entries)].head

\* parse_journal: may this record follow what the journal says so far?
Legal(rec) ==
  CASE rec.op = "intent" ->
         /\ js.pending = NoEntry
         /\ rec.entry.n = Len(js.closed) + 1
         /\ rec.entry.start = NextStart(js.closed)
         /\ rec.entry.end >= rec.entry.start
         /\ rec.entry.gen = NextGen(js.closed)
    [] rec.op \in {"commit", "abort"} ->
         js.pending # NoEntry /\ js.pending = rec.entry
    [] rec.op = "archive" ->
         /\ js.pending = NoEntry
         /\ js.arch < Len(js.closed)
         /\ js.closed[js.arch + 1] = rec.entry

\* _journal_append_locked, then parse_journal: a complete line that is not
\* legal, or is glued to a torn one, is a hard error where parsing stops.
Journaled(rec) ==
  IF js.error \/ js.torn \/ ~Legal(rec)
  THEN [js EXCEPT !.len = @ + 1, !.torn = FALSE, !.error = TRUE]
  ELSE CASE rec.op = "intent" -> [js EXCEPT !.len = @ + 1, !.pending = rec.entry]
         [] rec.op = "commit" -> [js EXCEPT !.len = @ + 1, !.pending = NoEntry,
                                            !.closed = Append(@, rec.entry)]
         [] rec.op = "abort" -> [js EXCEPT !.len = @ + 1, !.pending = NoEntry]
         [] rec.op = "archive" -> [js EXCEPT !.len = @ + 1, !.arch = @ + 1]

-----------------------------------------------------------------------------
(* What a process reads off the disk: layout, writer cache, disk key.      *)

OpenLines == IF P = 0 THEN <<>> ELSE data[P].lines
OpenTail == IF P = 0 THEN "ok" ELSE data[P].tail
Unparseable == OpenTail \in {"bad", "merged"}

\* Faulty variant: a pending rename is never looked for.
RenamedIgnored == FALSE

\* resolve_layout: a pending intent whose rename happened counts as closed.
Renamed == js.pending # NoEntry /\ closed[js.pending.n] # 0
LayoutClosed == IF Renamed THEN Append(js.closed, js.pending) ELSE js.closed

DiskKey == [ino |-> P, size |-> Len(OpenLines), tail |-> OpenTail,
            jlen |-> js.len, jtorn |-> js.torn]

\* Faulty variant: the open segment gets the number of the last closed one.
RecoveredOffByOne ==
  [head |-> Genesis, glen |-> Len(OpenLines), start |-> 0, next |-> Len(LayoutClosed),
   chead |-> Genesis, key |-> DiskKey, pending |-> FALSE]

\* _recover_locked
Recovered ==
  LET start == NextStart(LayoutClosed)
      chead == NextGen(LayoutClosed)
  IN [head |-> IF OpenLines = <<>> THEN chead ELSE OpenLines[Len(OpenLines)].id,
      glen |-> start + Len(OpenLines), start |-> start,
      next |-> Len(LayoutClosed) + 1, chead |-> chead, key |-> DiskKey,
      pending |-> js.pending # NoEntry \/ js.torn \/ js.error]

NeedsReconcile == ~js.error /\ (js.pending # NoEntry \/ js.torn \/ tmp.st # "none")

\* Inodes a reader of the live chain opens, and the archived segments that a
\* retention event in them names (Snapshot.event_evidenced_archives).
LiveInodes == {closed[LayoutClosed[i].n] : i \in js.arch + 1 .. Len(LayoutClosed)}
                \union (IF P = 0 THEN {} ELSE {P})
Evidenced ==
  {n \in 1..js.arch : \E i \in LiveInodes \ {0} : \E k \in 1..Len(data[i].lines) :
                         n \in data[i].lines[k].names}
PendingMoves == {n \in 1..js.arch : closed[n] # 0}

\* Snapshot.verify on a chain nobody tampered with: what is left that can break
\* it is the journal, a torn open segment, or an archived segment with neither
\* an event nor a file to vouch for it (_verify_archived).
LiveVerifyOK ==
  /\ ~js.error /\ ~Unparseable
  /\ \A n \in 1..js.arch : closed[n] # 0 \/ archive[n] # 0 \/ n \in Evidenced
AppendInFlight == \E q \in Proc : pc[q] = "write2"

-----------------------------------------------------------------------------
NoCache == [head |-> 0, glen |-> 0, start |-> 0, next |-> 1, chead |-> 0,
            key |-> [ino |-> 0, size |-> 0, tail |-> "ok", jlen |-> 0, jtorn |-> FALSE],
            pending |-> FALSE]
EmptyJournal == [len |-> 0, torn |-> FALSE, closed |-> <<>>, arch |-> 0,
                 pending |-> NoEntry, error |-> FALSE]
NoApply == [seg |-> 0, created |-> FALSE, did |-> FALSE, ev |-> {}, verified |-> FALSE]

Init ==
  /\ P = 0
  /\ closed = [n \in Seg |-> 0]
  /\ archive = [n \in Seg |-> 0]
  /\ data = <<>>
  /\ tmp = [st |-> "none", ev |-> NoEvent]
  /\ js = EmptyJournal
  /\ hold = FALSE
  /\ sidecar = [n \in Seg |-> "none"]
  /\ lock = "nobody"
  /\ pc = [p \in Proc |-> "idle"]
  /\ goal = [p \in Proc |-> "none"]
  /\ cache = [p \in Proc |-> NoCache]
  /\ wip = [p \in Proc |-> NoEvent]
  /\ ap = [p \in Proc |-> NoApply]
  /\ nextId = 1
  /\ acked = {}
  /\ crashes = 0

Goto(p, l) == pc' = [pc EXCEPT ![p] = l]
\* The with-block of _writer ends: the lock file is unlocked.
Unlock(p, l) ==
  /\ lock' = "nobody"
  /\ goal' = [goal EXCEPT ![p] = IF l = "idle" THEN "none" ELSE "apply"]
  /\ Goto(p, l)
Stay == UNCHANGED <<lock, goal>>

\* Where an operation continues once its view of the disk is fresh.
AfterFresh(g) ==
  CASE g = "rotate" -> "intent" [] g = "archive" -> "a_commit" [] OTHER -> "write"

-----------------------------------------------------------------------------
(* Taking the writer lock, and refreshing or reconciling under it.         *)

\* _writer, entered by append, rotate, place_hold and release_hold.
Acquire(p, g) ==
  /\ pc[p] = "idle" /\ lock = "nobody"
  /\ g \in Role[p] \ {"apply"}
  /\ nextId <= MaxEvents
  /\ g = "rotate" => Len(LayoutClosed) + 1 < MaxSeg
  /\ lock' = p
  /\ goal' = [goal EXCEPT ![p] = g]
  /\ Goto(p, IF g \in {"place", "release"} THEN g ELSE "fresh")
  /\ UNCHANGED <<disk, cache, wip, ap, nextId, acked, crashes>>

\* LedgerCorrupt: nothing is written, the operation ends.
Fail(p) == Unlock(p, IF goal[p] = "archive" THEN "a_end" ELSE "idle")

\* Faulty variant: a writer trusts its cache, whatever others did to the files.
EnsureFreshNever(p) ==
  /\ pc[p] = "fresh"
  /\ Goto(p, AfterFresh(goal[p]))
  /\ Stay /\ UNCHANGED <<disk, cache, wip, ap, nextId, acked, crashes>>

\* _ensure_fresh_locked
EnsureFresh(p) ==
  /\ pc[p] = "fresh"
  /\ \/ /\ DiskKey = cache[p].key /\ ~cache[p].pending
        /\ Goto(p, AfterFresh(goal[p]))
        /\ Stay /\ UNCHANGED cache
     \/ /\ DiskKey # cache[p].key \/ cache[p].pending
        /\ ~Unparseable
        /\ cache' = [cache EXCEPT ![p] = Recovered]
        /\ Goto(p, IF Recovered.pending THEN "reconcile" ELSE AfterFresh(goal[p]))
        /\ Stay
     \/ /\ DiskKey # cache[p].key \/ cache[p].pending
        /\ Unparseable
        /\ Fail(p)
        /\ UNCHANGED cache
  /\ UNCHANGED <<disk, wip, ap, nextId, acked, crashes>>

\* Faulty variant: recovery leaves the torn journal line where it is.
ReconcileKeepTornTail(p) ==
  /\ pc[p] = "reconcile" /\ js.torn
  /\ Goto(p, "rec_end")
  /\ UNCHANGED <<disk, lock, goal, cache, wip, ap, nextId, acked, crashes>>

\* _reconcile_locked: drop a torn journal tail, then finish or undo a pending
\* rotation.  js.error never gets here in this model (JournalValid).
ReconcileTornTail(p) ==
  /\ pc[p] = "reconcile" /\ js.torn
  /\ js' = [js EXCEPT !.torn = FALSE]
  /\ UNCHANGED <<P, closed, archive, data, tmp, hold, sidecar, lock, pc, goal,
                 cache, wip, ap, nextId, acked, crashes>>

ReconcileUnlinkTmp(p) ==
  /\ pc[p] = "reconcile" /\ ~js.torn /\ ~Renamed
  /\ tmp' = [st |-> "none", ev |-> NoEvent]
  /\ Goto(p, IF js.pending = NoEntry THEN "rec_end" ELSE "rec_abort")
  /\ UNCHANGED <<P, closed, archive, data, js, hold, sidecar, lock, goal, cache,
                 wip, ap, nextId, acked, crashes>>

\* Faulty variant: an undone rotation leaves no abort record.
ReconcileAbortSilent(p) ==
  /\ pc[p] = "rec_abort"
  /\ Goto(p, "rec_end")
  /\ UNCHANGED <<disk, lock, goal, cache, wip, ap, nextId, acked, crashes>>

ReconcileAbort(p) ==
  /\ pc[p] = "rec_abort"
  /\ js' = Journaled([op |-> "abort", entry |-> js.pending])
  /\ Goto(p, "rec_end")
  /\ UNCHANGED <<P, closed, archive, data, tmp, hold, sidecar, lock, goal, cache,
                 wip, ap, nextId, acked, crashes>>

\* The rename happened: the closed file must match the intent and an open
\* segment that is already there must start with the intended rotation event.
\* Otherwise the code raises LedgerCorrupt on every write from then on; here the
\* writer would be stuck, which PendingResolved excludes.
RenamedMatches ==
  LET lines == data[closed[js.pending.n]].lines
  IN /\ Len(lines) = js.pending.end - js.pending.start + 1
     /\ lines[Len(lines)].id = js.pending.head
     /\ P # 0 => OpenLines # <<>> /\ OpenLines[1].id = js.pending.rot.id

ReconcileForward(p) ==
  /\ pc[p] = "reconcile" /\ ~js.torn /\ Renamed
  /\ RenamedMatches
  /\ IF P = 0
     THEN tmp' = [st |-> "full", ev |-> js.pending.rot] /\ Goto(p, "rec_install")
     ELSE UNCHANGED tmp /\ Goto(p, "rec_commit")
  /\ UNCHANGED <<P, closed, archive, data, js, hold, sidecar, lock, goal, cache,
                 wip, ap, nextId, acked, crashes>>

\* _install_open_segment_locked: rename the tmp file into place.
Install ==
  /\ P = 0
  /\ P' = Len(data) + 1
  /\ data' = Append(data, IF tmp.st = "full" THEN [lines |-> <<tmp.ev>>, tail |-> "ok"]
                                             ELSE [lines |-> <<>>, tail |-> "bad"])
  /\ tmp' = [st |-> "none", ev |-> NoEvent]
  /\ UNCHANGED <<closed, archive, js, hold, sidecar>>

ReconcileInstall(p) ==
  /\ pc[p] = "rec_install"
  /\ Install
  /\ Goto(p, "rec_commit")
  /\ UNCHANGED <<lock, goal, cache, wip, ap, nextId, acked, crashes>>

ReconcileCommit(p) ==
  /\ pc[p] = "rec_commit"
  /\ js' = Journaled([op |-> "commit", entry |-> js.pending])
  /\ Goto(p, "rec_end")
  /\ UNCHANGED <<P, closed, archive, data, tmp, hold, sidecar, lock, goal, cache,
                 wip, ap, nextId, acked, crashes>>

ReconcileEnd(p) ==
  /\ pc[p] = "rec_end"
  /\ cache' = [cache EXCEPT ![p] = Recovered]
  /\ IF goal[p] = "start" THEN Unlock(p, "idle")
     ELSE Goto(p, AfterFresh(goal[p])) /\ Stay
  /\ UNCHANGED <<disk, wip, ap, nextId, acked, crashes>>

-----------------------------------------------------------------------------
(* Appending one event.                                                    *)

EventType(g) ==
  CASE g = "append" -> "app" [] g = "place" -> "placed"
    [] g = "release" -> "released" [] g = "ret" -> "retention" [] OTHER -> "none"

\* Faulty variant: the segment is opened for writing and not for appending.
WriteBeginTruncating(p) ==
  /\ pc[p] = "write"
  /\ wip' = [wip EXCEPT ![p] = [id |-> nextId, prev |-> cache[p].head,
                                type |-> EventType(goal[p]), closes |-> 0, names |-> {}]]
  /\ nextId' = nextId + 1
  /\ IF P = 0
     THEN P' = Len(data) + 1 /\ data' = Append(data, [lines |-> <<>>, tail |-> "bad"])
     ELSE UNCHANGED P /\ data' = [data EXCEPT ![P] = [lines |-> <<>>, tail |-> "bad"]]
  /\ Goto(p, "write2")
  /\ UNCHANGED <<closed, archive, tmp, js, hold, sidecar, lock, goal, cache, ap,
                 acked, crashes>>

\* make_event and the first bytes of the write: the line is not terminated, and
\* a line without its newline in front of it is glued to this one.
WriteBegin(p) ==
  /\ pc[p] = "write"
  /\ wip' = [wip EXCEPT ![p] = [id |-> nextId, prev |-> cache[p].head,
                                type |-> EventType(goal[p]), closes |-> 0,
                                names |-> IF goal[p] = "ret" THEN ap[p].ev ELSE {}]]
  /\ nextId' = nextId + 1
  /\ IF P = 0
     THEN P' = Len(data) + 1 /\ data' = Append(data, [lines |-> <<>>, tail |-> "bad"])
     ELSE /\ UNCHANGED P
          /\ data' = [data EXCEPT ![P] =
               CASE @.tail = "noeol" ->
                        [lines |-> SubSeq(@.lines, 1, Len(@.lines) - 1), tail |-> "merged"]
                 [] @.tail = "merged" -> @
                 [] OTHER -> [@ EXCEPT !.tail = "bad"]]
  /\ Goto(p, "write2")
  /\ UNCHANGED <<closed, archive, tmp, js, hold, sidecar, lock, goal, cache, ap,
                 acked, crashes>>

\* The rest of _append_event_locked: the line is complete and fsynced, the
\* cache holds it, the caller gets its event.
Written(ev, end) ==
  [data EXCEPT ![P] = IF @.tail = "merged" THEN @
                      ELSE [lines |-> Append(@.lines, ev), tail |-> end]]

WriteEnd(p) ==
  /\ pc[p] = "write2"
  /\ data' = Written(wip[p], "ok")
  /\ UNCHANGED <<P, closed, archive, tmp, js, hold, sidecar, ap, nextId, crashes>>
  /\ cache' = [cache EXCEPT ![p].head = wip[p].id, ![p].glen = @ + 1,
                            ![p].key = [@ EXCEPT !.ino = P, !.size = Len(OpenLines'),
                                                 !.tail = OpenTail']]
  /\ acked' = acked \union {wip[p].id}
  /\ wip' = [wip EXCEPT ![p] = NoEvent]
  /\ IF goal[p] = "release" THEN Goto(p, "unlink") /\ Stay ELSE Unlock(p, "idle")

-----------------------------------------------------------------------------
(* rotate: intent, tmp, rename, install, commit.                           *)

\* _plan_rotation_locked and R1, the journaled intent.  An empty open segment,
\* or a file already at the closed name, is refused.
RotatePlan(p) ==
  LET c == cache[p]
  IN [n |-> c.next, start |-> c.start, end |-> c.glen - 1, gen |-> c.chead,
      head |-> c.head, rot |-> [id |-> nextId, prev |-> c.head, type |-> "rotated",
                                closes |-> c.next, names |-> {}]]

RotateIntent(p) ==
  /\ pc[p] = "intent"
  /\ cache[p].glen > cache[p].start /\ closed[cache[p].next] = 0
  /\ js' = Journaled([op |-> "intent", entry |-> RotatePlan(p)])
  /\ wip' = [wip EXCEPT ![p] = RotatePlan(p).rot]
  /\ nextId' = nextId + 1
  /\ Goto(p, "tmp")
  /\ UNCHANGED <<P, closed, archive, data, tmp, hold, sidecar, lock, goal, cache,
                 ap, acked, crashes>>

RotateRefused(p) ==
  /\ pc[p] = "intent"
  /\ cache[p].glen = cache[p].start \/ closed[cache[p].next] # 0
  /\ Unlock(p, "idle")
  /\ UNCHANGED <<disk, cache, wip, ap, nextId, acked, crashes>>

RotateTmp(p) ==
  /\ pc[p] = "tmp"
  /\ tmp' = [st |-> "full", ev |-> wip[p]]
  /\ Goto(p, "rename")
  /\ UNCHANGED <<P, closed, archive, data, js, hold, sidecar, lock, goal, cache,
                 wip, ap, nextId, acked, crashes>>

RotateRename(p) ==
  /\ pc[p] = "rename"
  /\ closed' = [closed EXCEPT ![cache[p].next] = P]
  /\ P' = 0
  /\ Goto(p, "install")
  /\ UNCHANGED <<archive, data, tmp, js, hold, sidecar, lock, goal, cache, wip,
                 ap, nextId, acked, crashes>>

\* Another process holds P with a plain handle: nothing is renamed.
RotateRenameRefused(p) ==
  /\ pc[p] = "rename"
  /\ js' = Journaled([op |-> "abort", entry |-> js.pending])
  /\ Goto(p, "abort")
  /\ UNCHANGED <<P, closed, archive, data, tmp, hold, sidecar, lock, goal, cache,
                 wip, ap, nextId, acked, crashes>>

\* unlink the tmp file, then _refresh_after_abort_locked (LedgerBusy)
RotateAborted(p) ==
  /\ pc[p] = "abort"
  /\ tmp' = [st |-> "none", ev |-> NoEvent]
  /\ cache' = [cache EXCEPT ![p].key = DiskKey, ![p].pending = FALSE]
  /\ wip' = [wip EXCEPT ![p] = NoEvent]
  /\ Unlock(p, "idle")
  /\ UNCHANGED <<P, closed, archive, data, js, hold, sidecar, ap, nextId, acked,
                 crashes>>

RotateInstall(p) ==
  /\ pc[p] = "install"
  /\ Install
  /\ Goto(p, "commit")
  /\ UNCHANGED <<lock, goal, cache, wip, ap, nextId, acked, crashes>>

\* R5, R6: the commit record, the refreshed cache, the result returned.
RotateCommit(p) ==
  /\ pc[p] = "commit"
  /\ js' = Journaled([op |-> "commit", entry |-> js.pending])
  /\ UNCHANGED <<P, closed, archive, data, tmp, hold, sidecar, ap, nextId, crashes>>
  /\ cache' = [cache EXCEPT ![p] = Recovered']
  /\ acked' = acked \union {wip[p].id}
  /\ wip' = [wip EXCEPT ![p] = NoEvent]
  /\ Unlock(p, "idle")

-----------------------------------------------------------------------------
(* The legal hold: file first and event second, event first and file second *)

PlaceHold(p) ==
  /\ pc[p] = "place"
  /\ IF hold THEN Unlock(p, "idle") /\ UNCHANGED hold
     ELSE hold' = TRUE /\ Goto(p, "fresh") /\ Stay
  /\ UNCHANGED <<P, closed, archive, data, tmp, js, sidecar, cache, wip, ap, nextId,
                 acked, crashes>>

\* Faulty variant: the marker goes before the release is in the ledger.
ReleaseHoldFileFirst(p) ==
  /\ pc[p] = "release"
  /\ IF hold THEN hold' = FALSE /\ Goto(p, "fresh") /\ Stay
     ELSE Unlock(p, "idle") /\ UNCHANGED hold
  /\ UNCHANGED <<P, closed, archive, data, tmp, js, sidecar, cache, wip, ap, nextId,
                 acked, crashes>>

ReleaseHold(p) ==
  /\ pc[p] = "release"
  /\ IF hold THEN Goto(p, "fresh") /\ Stay ELSE Unlock(p, "idle")
  /\ UNCHANGED <<disk, cache, wip, ap, nextId, acked, crashes>>

\* The marker goes, or stays because another process holds it open.
ReleaseUnlink(p) ==
  /\ pc[p] = "unlink"
  /\ hold' \in {FALSE, hold}
  /\ Unlock(p, "idle")
  /\ UNCHANGED <<P, closed, archive, data, tmp, js, sidecar, cache, wip, ap, nextId,
                 acked, crashes>>

-----------------------------------------------------------------------------
(* archive_closed_segments, with older_than_days = 0.                       *)

ApplyStart(p) ==
  /\ pc[p] = "idle" /\ "apply" \in Role[p]
  /\ ~hold
  /\ js.arch < Len(js.closed) \/ PendingMoves # {}
  /\ ap' = [ap EXCEPT ![p] = NoApply]
  /\ goal' = [goal EXCEPT ![p] = "apply"]
  /\ Goto(p, "a_moves")
  /\ UNCHANGED <<disk, lock, cache, wip, nextId, acked, crashes>>

\* os.rename of the closed segments in S into the archive directory.
Move(S) ==
  /\ archive' = [n \in Seg |-> IF n \in S THEN closed[n] ELSE archive[n]]
  /\ closed' = [n \in Seg |-> IF n \in S THEN 0 ELSE closed[n]]
  /\ UNCHANGED <<P, data, tmp, js, hold, sidecar>>

\* _refuse_unless_live_verify_ok when moves are pending, then
\* _complete_pending_moves: any of them may still be refused (a held file).
ApplyCompleteMoves(p) ==
  /\ pc[p] = "a_moves" /\ ~AppendInFlight
  /\ IF PendingMoves # {} /\ ~LiveVerifyOK
     THEN Goto(p, "a_end") /\ UNCHANGED <<disk, ap>>
     ELSE \E S \in SUBSET PendingMoves :
            /\ Move(S)
            /\ ap' = [ap EXCEPT ![p].did = S # {}, ![p].verified = PendingMoves # {},
                                ![p].ev = IF PendingMoves # {} THEN Evidenced ELSE {}]
            /\ Goto(p, "a_plan")
  /\ UNCHANGED <<lock, goal, cache, wip, nextId, acked, crashes>>

\* Faulty variant: evidence of earlier runs is not collected.
ApplyPlanForgetful(p) ==
  /\ pc[p] = "a_plan" /\ ~AppendInFlight
  /\ IF js.arch = Len(js.closed) \/ ~LiveVerifyOK
     THEN Goto(p, "a_end") /\ UNCHANGED ap
     ELSE /\ ap' = [ap EXCEPT ![p].seg = js.arch + 1, ![p].verified = TRUE]
          /\ Goto(p, "a_side")
  /\ UNCHANGED <<disk, lock, goal, cache, wip, nextId, acked, crashes>>

\* _plan_archive: the oldest committed live segment; the whole live chain is
\* verified once per run, and the evidence it holds collected then.
ApplyPlan(p) ==
  /\ pc[p] = "a_plan" /\ ~AppendInFlight
  /\ IF js.arch = Len(js.closed) \/ (~ap[p].verified /\ ~LiveVerifyOK)
     THEN Goto(p, "a_end") /\ UNCHANGED ap
     ELSE /\ ap' = [ap EXCEPT ![p].seg = js.arch + 1, ![p].verified = TRUE,
                              ![p].ev = IF ap[p].verified THEN @ ELSE Evidenced]
          /\ Goto(p, "a_side")
  /\ UNCHANGED <<disk, lock, goal, cache, wip, nextId, acked, crashes>>

\* Faulty variant: the segment is committed without its sidecar.
ApplySidecarSkipped(p) ==
  /\ pc[p] = "a_side"
  /\ Goto(p, IF hold THEN "a_end" ELSE "a_lock")
  /\ UNCHANGED <<disk, lock, goal, cache, wip, ap, nextId, acked, crashes>>

\* The hold is looked at again, then _write_sidecar: one with the same content
\* (same operator) is accepted, another operator's refuses the run.
ApplySidecar(p) ==
  LET n == ap[p].seg
  IN /\ pc[p] = "a_side"
     /\ IF hold \/ sidecar[n] \notin {"none", Operator[p]}
        THEN Goto(p, "a_end") /\ UNCHANGED <<sidecar, ap>>
        ELSE /\ sidecar' = [sidecar EXCEPT ![n] = Operator[p]]
             /\ ap' = [ap EXCEPT ![p].created = sidecar[n] = "none"]
             /\ Goto(p, "a_lock")
     /\ UNCHANGED <<P, closed, archive, data, tmp, js, hold, lock, goal, cache, wip,
                    nextId, acked, crashes>>

\* Faulty variant: the file is moved before the journal says so.
ApplyLockMovesFirst(p) ==
  /\ pc[p] = "a_lock" /\ lock = "nobody"
  /\ lock' = p
  /\ goal' = [goal EXCEPT ![p] = "archive"]
  /\ Goto(p, "fresh")
  /\ Move({ap[p].seg})
  /\ UNCHANGED <<cache, wip, ap, nextId, acked, crashes>>

ApplyLock(p) ==
  /\ pc[p] = "a_lock" /\ lock = "nobody"
  /\ lock' = p
  /\ goal' = [goal EXCEPT ![p] = "archive"]
  /\ Goto(p, "fresh")
  /\ UNCHANGED <<disk, cache, wip, ap, nextId, acked, crashes>>

\* The writer lock was held by another process for 30 s: LedgerBusy.
ApplyBusy(p) ==
  /\ pc[p] = "a_lock" /\ lock # "nobody"
  /\ Goto(p, "a_end")
  /\ UNCHANGED <<disk, lock, goal, cache, wip, ap, nextId, acked, crashes>>

\* Under the lock a hold still refuses, and takes back a sidecar this run wrote
\* for a segment it does not commit.
ApplyHeld(p) ==
  /\ pc[p] = "a_commit" /\ hold
  /\ sidecar' = IF ap[p].created /\ js.arch < ap[p].seg
                THEN [sidecar EXCEPT ![ap[p].seg] = "none"] ELSE sidecar
  /\ Unlock(p, "a_end")
  /\ UNCHANGED <<P, closed, archive, data, tmp, js, hold, cache, wip, ap, nextId,
                 acked, crashes>>

\* The journal moved under this run: plan again.
ApplyReplan(p) ==
  /\ pc[p] = "a_commit" /\ ~hold
  /\ js.arch + 1 # ap[p].seg
  /\ Unlock(p, "a_plan")
  /\ UNCHANGED <<disk, cache, wip, ap, nextId, acked, crashes>>

\* Faulty variant: the hold is not looked at again under the lock.
ApplyCommitUnchecked(p) ==
  /\ pc[p] = "a_commit"
  /\ js.arch + 1 = ap[p].seg
  /\ js' = Journaled([op |-> "archive", entry |-> js.closed[ap[p].seg]])
  /\ UNCHANGED <<P, closed, archive, data, tmp, hold, sidecar, wip, nextId, acked,
                 crashes>>
  /\ cache' = [cache EXCEPT ![p] = Recovered']
  /\ ap' = [ap EXCEPT ![p].did = TRUE, ![p].ev = @ \union {ap[p].seg}]
  /\ Unlock(p, "a_move")

\* The journaled archive op: from here on readers do not open the file.
ApplyCommit(p) ==
  /\ pc[p] = "a_commit" /\ ~hold
  /\ js.arch + 1 = ap[p].seg
  /\ js' = Journaled([op |-> "archive", entry |-> js.closed[ap[p].seg]])
  /\ UNCHANGED <<P, closed, archive, data, tmp, hold, sidecar, wip, nextId, acked,
                 crashes>>
  /\ cache' = [cache EXCEPT ![p] = Recovered']
  /\ ap' = [ap EXCEPT ![p].did = TRUE, ![p].ev = @ \union {ap[p].seg}]
  /\ Unlock(p, "a_move")

\* _move_one, outside the lock; a held file stays as a pending move.
ApplyMove(p) ==
  /\ pc[p] = "a_move"
  /\ \E S \in SUBSET ({ap[p].seg} \cap PendingMoves) : Move(S)
  /\ Goto(p, "a_plan")
  /\ UNCHANGED <<lock, goal, cache, wip, ap, nextId, acked, crashes>>

\* The run is over (or refused): if it moved anything, its
\* ledger.retention.applied event is appended.
ApplyEnd(p) ==
  /\ pc[p] = "a_end"
  /\ \/ /\ ~ap[p].did
        /\ Goto(p, "idle") /\ UNCHANGED lock
        /\ goal' = [goal EXCEPT ![p] = "none"]
     \/ /\ ap[p].did /\ lock = "nobody" /\ nextId <= MaxEvents
        /\ lock' = p
        /\ goal' = [goal EXCEPT ![p] = "ret"]
        /\ Goto(p, "fresh")
  /\ UNCHANGED <<disk, cache, wip, ap, nextId, acked, crashes>>

-----------------------------------------------------------------------------
(* Kills and restarts.                                                      *)

\* Killed inside a write: the record may be left torn.
TearJournal(p) ==
  /\ \/ pc[p] \in {"rec_abort", "rec_commit", "rename", "commit"}
     \/ pc[p] = "intent" /\ cache[p].glen > cache[p].start
     \/ pc[p] = "a_commit" /\ ~hold /\ js.arch + 1 = ap[p].seg
  /\ js' = [js EXCEPT !.torn = TRUE]
  /\ UNCHANGED <<P, closed, archive, data, tmp, hold, sidecar>>
TearTmp(p) ==
  /\ \/ pc[p] = "tmp"
     \/ pc[p] = "reconcile" /\ ~js.torn /\ Renamed /\ P = 0
  /\ tmp' = [st |-> "torn", ev |-> NoEvent]
  /\ UNCHANGED <<P, closed, archive, data, js, hold, sidecar>>
TearLine(p) ==
  /\ pc[p] = "write2"
  /\ \/ "full" \in TornLine /\ data' = Written(wip[p], "ok")
     \/ "noeol" \in TornLine /\ data' = Written(wip[p], "noeol")
     \/ "bad" \in TornLine /\ UNCHANGED data
  /\ UNCHANGED <<P, closed, archive, tmp, js, hold, sidecar>>

Crash(p) ==
  /\ pc[p] # "down" /\ crashes < MaxCrashes
  /\ \/ pc[p] # "write2" /\ UNCHANGED disk
     \/ TearJournal(p)
     \/ TearTmp(p)
     \/ TearLine(p)
  /\ crashes' = crashes + 1
  /\ lock' = IF lock = p THEN "nobody" ELSE lock
  /\ Goto(p, "down")
  /\ cache' = [cache EXCEPT ![p] = NoCache]
  /\ goal' = [goal EXCEPT ![p] = "none"]
  /\ ap' = [ap EXCEPT ![p] = NoApply]
  /\ wip' = [wip EXCEPT ![p] = NoEvent]
  /\ UNCHANGED <<nextId, acked>>

\* LedgerStore.__init__ (no lock, nothing written; an open segment that does
\* not parse keeps the process down).  _open_default_store: the served process,
\* the one that appends for callers, goes on to reconcile if something is left.
Restart(p) ==
  /\ pc[p] = "down" /\ ~Unparseable
  /\ cache' = [cache EXCEPT ![p] = Recovered]
  /\ Goto(p, IF NeedsReconcile /\ "append" \in Role[p] THEN "start" ELSE "idle")
  /\ UNCHANGED <<disk, lock, goal, wip, ap, nextId, acked, crashes>>

\* reconcile() at served startup; if it cannot run (LedgerBusy, LedgerCorrupt)
\* the service starts all the same.
StartReconcile(p) ==
  /\ pc[p] = "start"
  /\ \/ /\ lock = "nobody" /\ ~Unparseable
        /\ lock' = p
        /\ goal' = [goal EXCEPT ![p] = "start"]
        /\ cache' = [cache EXCEPT ![p] = Recovered]
        /\ Goto(p, "reconcile")
     \/ /\ lock # "nobody" \/ Unparseable
        /\ Goto(p, "idle")
        /\ UNCHANGED <<lock, goal, cache>>
  /\ UNCHANGED <<disk, wip, ap, nextId, acked, crashes>>

-----------------------------------------------------------------------------
Reconcile(p) ==
  \/ EnsureFresh(p) \/ ReconcileTornTail(p) \/ ReconcileUnlinkTmp(p) \/ ReconcileAbort(p)
  \/ ReconcileForward(p) \/ ReconcileInstall(p) \/ ReconcileCommit(p) \/ ReconcileEnd(p)
Rotate(p) ==
  \/ RotateIntent(p) \/ RotateRefused(p) \/ RotateTmp(p) \/ RotateRename(p)
  \/ RotateRenameRefused(p) \/ RotateAborted(p) \/ RotateInstall(p) \/ RotateCommit(p)
Apply(p) ==
  \/ ApplyCompleteMoves(p) \/ ApplyPlan(p) \/ ApplySidecar(p) \/ ApplyLock(p)
  \/ ApplyBusy(p) \/ ApplyHeld(p) \/ ApplyReplan(p) \/ ApplyCommit(p) \/ ApplyMove(p)
  \/ ApplyEnd(p)

\* A step a running process takes by itself, once an operation has begun.
Step(p) ==
  \/ Reconcile(p) \/ WriteBegin(p) \/ WriteEnd(p) \/ Rotate(p)
  \/ PlaceHold(p) \/ ReleaseHold(p) \/ ReleaseUnlink(p) \/ Apply(p)
  \/ StartReconcile(p)

Next ==
  \E p \in Proc :
    \/ \E g \in Ops : Acquire(p, g)
    \/ ApplyStart(p)
    \/ Step(p)
    \/ Restart(p)
    \/ Crash(p)

Spec == Init /\ [][Next]_vars

\* A running process goes on with what it began, and a killed one is started
\* again (the compose file restarts the service); nobody is forced to begin
\* anything.
Fairness == \A p \in Proc : WF_vars(Step(p)) /\ WF_vars(Restart(p))
FairSpec == Spec /\ Fairness

-----------------------------------------------------------------------------
(* Correctness.                                                             *)

TailState == {"ok", "bad", "merged", "noeol"}
Label == {"idle", "down", "start", "fresh", "reconcile", "rec_abort", "rec_install",
          "rec_commit", "rec_end", "write", "write2", "intent", "tmp", "rename",
          "abort", "install", "commit", "place", "release", "unlink", "a_moves",
          "a_plan", "a_side", "a_lock", "a_commit", "a_move", "a_end"}
Goal == {"none", "start", "archive", "ret"} \union Ops
Key == [ino : Nat, size : Nat, tail : TailState, jlen : Nat, jtorn : BOOLEAN]

SegmentFile == [lines : Seq(Event), tail : TailState]
Journal == [len : Nat, torn : BOOLEAN, closed : Seq(Entry), arch : Nat,
            pending : Entry, error : BOOLEAN]
WriterCache == [head : Nat, glen : Nat, start : Nat, next : Nat \ {0}, chead : Nat,
                key : Key, pending : BOOLEAN]
ApplyLocals == [seg : Nat, created : BOOLEAN, did : BOOLEAN, ev : SUBSET Nat,
                verified : BOOLEAN]

\* Every variable keeps its type, and P names a segment file that exists.
TypeOK ==
  /\ data \in Seq(SegmentFile)
  /\ P \in 0..Len(data)
  /\ closed \in [Seg -> Nat] /\ archive \in [Seg -> Nat]
  /\ tmp \in [st : {"none", "torn", "full"}, ev : Event]
  /\ js \in Journal
  /\ hold \in BOOLEAN
  /\ sidecar \in [Seg -> {"none"} \union {Operator[p] : p \in Proc}]
  /\ lock \in Proc \union {"nobody"}
  /\ pc \in [Proc -> Label]
  /\ goal \in [Proc -> Goal]
  /\ cache \in [Proc -> WriterCache]
  /\ wip \in [Proc -> Event]
  /\ ap \in [Proc -> ApplyLocals]
  /\ nextId \in Nat
  /\ acked \in SUBSET Nat
  /\ crashes \in Nat

-----------------------------------------------------------------------------
(* The chain the files hold, whatever the journal says of them: inode k is  *)
(* the k-th segment file ever created.                                      *)

LastId(k) == IF data[k].lines = <<>> THEN Genesis ELSE data[k].lines[Len(data[k].lines)].id

\* One hash chain runs through all segment files: every line links to the line
\* before it, the first of a segment to the last of the previous one, whoever
\* wrote it and whoever was killed in between (make_event's prev_hash taken
\* from a cache that _ensure_fresh_locked keeps honest).
ChainIntact ==
  \A k \in 1..Len(data) : \A i \in 1..Len(data[k].lines) :
    data[k].lines[i].prev = IF i > 1 THEN data[k].lines[i - 1].id
                            ELSE IF k > 1 THEN LastId(k - 1) ELSE Genesis

\* An event whose append or rotation returned to its caller is in a segment
\* file for good: flush + fsync happen before the return, and rotation, abort
\* and recovery lose no line.
AckDurable ==
  \A e \in acked : \E k \in 1..Len(data) : \E i \in 1..Len(data[k].lines) :
    data[k].lines[i].id = e

\* The journal never becomes one that parse_journal refuses: no op out of order,
\* none glued to the torn line a kill left, by any process at any point.
JournalValid == ~js.error

\* A reader that follows the journal finds every segment where the layout says
\* it is, with the sequence range and head the journal declares for it, and the
\* open segment continues it; an archived one is in one of its two directories.
FullChainReadable ==
  /\ \A i \in 1..Len(LayoutClosed) :
       LET e == LayoutClosed[i]
       IN /\ e.n = i
          /\ (closed[i] = i) # (archive[i] = i)
          /\ i > js.arch => archive[i] = 0
          /\ Len(data[i].lines) = e.end - e.start + 1
          /\ LastId(i) = e.head
  /\ P \in {0, Len(LayoutClosed) + 1}
  /\ P = 0 => Len(data) = Len(LayoutClosed)
  /\ P # 0 => Len(data) = P

\* The hold marker and the ledger agree: without the marker file, the last hold
\* event in the chain is not a placement (place writes the file first, release
\* removes it last).
HoldLedgered ==
  ~hold =>
    \A k \in 1..Len(data) : \A i \in 1..Len(data[k].lines) :
      data[k].lines[i].type = "placed" =>
        \E m \in k..Len(data) : \E j \in 1..Len(data[m].lines) :
          (m > k \/ j > i) /\ data[m].lines[j].type = "released"

\* A file leaves the ledger directory only after the journal says so: archival
\* commits before it moves, so readers never look for a moved file there.
MoveAfterCommit == \A n \in Seg : archive[n] # 0 => n <= js.arch

\* An archived segment has the sidecar that lets it verify on its own: it is
\* written before the commit, and a refused run takes back only its own.
ArchivedHasSidecar == \A n \in 1..js.arch : sidecar[n] # "none"

\* When no apply is running, every archived segment that some retention event
\* named is named by one in the live chain: a run that archives the segment
\* holding such an event carries its evidence forward into its own.
NoApplyRunning == \A p \in Proc : goal[p] \notin {"apply", "archive", "ret"}
EverNamed == {n \in Seg : \E k \in 1..Len(data) : \E i \in 1..Len(data[k].lines) :
                            n \in data[k].lines[i].names}
EvidenceCarried == NoApplyRunning => EverNamed \subseteq Evidenced

\* No segment leaves the verified live chain while a legal hold is in force,
\* whatever was planned before the hold was placed.
HoldStopsArchive == [][js'.arch # js.arch => ~hold]_vars

\* A rotation that was begun is finished or undone, by whoever writes next or by
\* the served process when it starts again (_reconcile_locked): no kill leaves
\* an intent pending for good.
PendingResolved == js.pending # NoEntry ~> js.pending = NoEntry

-----------------------------------------------------------------------------
(* Why the journal stays valid: the inductive invariant.                    *)

\* Where a process is between taking and giving back the writer lock; where
\* the rotation it works on is pending, and where none is.
Settled == {"write", "write2", "unlink", "intent", "abort", "rec_end", "a_commit"}
InRotation == {"rec_abort", "rec_install", "rec_commit", "tmp", "rename", "install", "commit"}
Locked == Settled \union InRotation \union {"fresh", "reconcile", "place", "release"}

\* The lock file excludes: only its holder is inside a with-block of _writer.
LockExcludes == \A p \in Proc : pc[p] \in Locked => lock = p

\* A writer past _ensure_fresh_locked works on a journal without a torn tail, with
\* a pending intent exactly while it carries a rotation through.
JournalPhase(p) ==
  /\ pc[p] \in Settled => js.pending = NoEntry /\ ~js.torn
  /\ pc[p] \in InRotation => js.pending # NoEntry /\ ~js.torn

\* The cache says of the committed segments what the journal says.
Agrees(p) ==
  /\ cache[p].next = Len(js.closed) + 1
  /\ cache[p].start = NextStart(js.closed)
  /\ cache[p].chead = NextGen(js.closed)
CacheCoherent(p) ==
  /\ cache[p].start <= cache[p].glen
  /\ cache[p].key.jlen <= js.len
  /\ cache[p].key.jtorn => cache[p].pending
  /\ pc[p] # "down" /\ cache[p].key.jlen = js.len /\ ~cache[p].pending =>
       Agrees(p) /\ js.pending = NoEntry
  /\ pc[p] \in {"intent", "tmp", "rename", "abort"} => Agrees(p)

\* A planned archival is of a committed segment.
PlannedCommitted(p) ==
  pc[p] \in {"a_side", "a_lock", "a_commit"} \/ goal[p] = "archive" =>
    ap[p].seg \in 1..Len(js.closed)

\* The journal is valid and every writer's view of it sound: these parts together
\* are inductive, and JournalValid is one of them.
JournalInv ==
  /\ JournalValid
  /\ js.arch <= Len(js.closed)
  /\ LockExcludes
  /\ \A p \in Proc : JournalPhase(p) /\ CacheCoherent(p) /\ PlannedCommitted(p)

-----------------------------------------------------------------------------
(* Why the chain stays whole: the inductive invariant.  It needs the cut of a  *)
(* torn append to be one that the next reader sees: a kill just before the line *)
(* end ("noeol") leaves a line that counts and is lost to the next append.      *)

CutsShow == "noeol" \notin TornLine

\* One hash chain over all segments, each where the journal and the layout say,
\* under a journal that always parses, whatever writer is killed at whatever step.
LedgerWhole == ChainIntact /\ JournalValid /\ FullChainReadable

\* No line is glued to another; a file behind a segment's name is that segment's;
\* a pending rotation is the next one, of a segment with lines, which its event continues.
TailsClean == \A k \in 1..Len(data) : data[k].tail \in {"ok", "bad"}
NamesMatch ==
  \A n \in Seg : /\ closed[n] \in {0, n} /\ archive[n] \in {0, n}
                 /\ closed[n] # 0 \/ archive[n] # 0 => n <= Len(LayoutClosed)
PendingNext ==
  js.pending # NoEntry => /\ js.pending.n = Len(js.closed) + 1
                          /\ js.pending.n < MaxSeg
                          /\ js.pending.start <= js.pending.end
                          /\ js.pending.rot.prev = js.pending.head
LayoutFits == Len(LayoutClosed) < MaxSeg
DiskInv ==
  ChainIntact /\ FullChainReadable /\ TailsClean /\ NamesMatch /\ PendingNext /\ LayoutFits

\* The cache's key names a file that exists, at a length it has reached: a file
\* that is replaced or grows later no longer fits the key.
KeyOld(p) ==
  /\ cache[p].key.ino <= Len(data)
  /\ cache[p].key.ino # 0 => cache[p].key.size <= Len(data[cache[p].key.ino].lines)
\* The cache says of the open segment what the file says; it does when its key
\* fits the disk (_ensure_fresh_locked compares nothing else).
Current(p) ==
  /\ cache[p].head = IF OpenLines = <<>> THEN cache[p].chead ELSE OpenLines[Len(OpenLines)].id
  /\ cache[p].glen = cache[p].start + Len(OpenLines)
Keyed(p) ==
  /\ pc[p] # "down" /\ ~cache[p].pending /\ cache[p].key.jlen = js.len
  /\ cache[p].key.ino = P /\ cache[p].key.size = Len(OpenLines)

\* The pending rotation describes the open segment as it is.
RotationReady ==
  /\ P # 0 /\ OpenLines # <<>> /\ ~Renamed
  /\ js.pending.end - js.pending.start + 1 = Len(OpenLines)
  /\ js.pending.head = LastId(P)

\* What a writer knows of the disk at each point of append, rotate and recovery.
WriterInv(p) ==
  /\ KeyOld(p)
  /\ Keyed(p) => Current(p)
  /\ pc[p] \in {"write", "write2", "intent", "tmp", "rename", "abort"} => Current(p)
  /\ pc[p] = "write" => Agrees(p)
  /\ pc[p] = "write2" =>
       P # 0 /\ wip[p].prev = IF OpenLines = <<>> THEN NextGen(js.closed) ELSE LastId(P)
  /\ pc[p] \in {"tmp", "rename"} => RotationReady
  /\ pc[p] = "tmp" => wip[p] = js.pending.rot
  /\ pc[p] \in {"rename", "install", "rec_install"} => tmp.ev = js.pending.rot
  /\ pc[p] \in {"install", "rec_install"} => P = 0
  /\ pc[p] \in {"install", "rec_install", "commit", "rec_commit"} => Renamed
  /\ pc[p] = "rec_abort" => ~Renamed
  /\ pc[p] = "intent" => goal[p] = "rotate"
  /\ pc[p] \in {"place", "release"} => goal[p] = pc[p]
  /\ goal[p] = "rotate" /\ pc[p] \in {"fresh", "reconcile", "rec_abort", "rec_install",
                                      "rec_commit", "rec_end", "intent"} =>
       Len(LayoutClosed) + 1 < MaxSeg

\* The chain on disk is whole and every writer knows enough of it to keep it so:
\* with TypeOK and JournalInv, these parts are inductive.
WholeInv == DiskInv /\ \A p \in Proc : WriterInv(p)

\* What the hold operations rely on: a placement is written under the marker, the
\* marker is taken away after a release that is the last line of the chain, and a
\* rotation writes neither.
HoldKnown(p) ==
  /\ goal[p] = "place" /\ pc[p] \in Locked \ {"place"} => hold
  /\ pc[p] = "write2" => wip[p].type = EventType(goal[p])
  /\ pc[p] = "unlink" =>
       P # 0 /\ OpenLines # <<>> /\ OpenLines[Len(OpenLines)].type = "released"
HoldInv ==
  /\ HoldLedgered
  /\ tmp.ev.type \in {"none", "rotated"}
  /\ js.pending.rot.type \in {"none", "rotated"}
  /\ \A p \in Proc : HoldKnown(p)

\* What a rotation returns to its caller is the first line of the new open segment,
\* and so is the event of a rotation that a kill left pending after its install.
PendingOpened == Renamed /\ P # 0 => OpenLines # <<>> /\ OpenLines[1] = js.pending.rot
RotationKnown(p) ==
  /\ pc[p] \in {"rename", "install", "rec_install"} => tmp.st = "full"
  /\ pc[p] \in {"tmp", "rename", "install", "commit"} => wip[p] = js.pending.rot
  /\ pc[p] = "commit" => P # 0
AckInv == AckDurable /\ PendingOpened /\ \A p \in Proc : RotationKnown(p)

\* Recovery never meets a renamed segment that its intent does not describe: it has
\* no reason to raise the LedgerCorrupt that would refuse every write from then on.
RecoveryNeverRefuses == Renamed => RenamedMatches

-----------------------------------------------------------------------------
(* The segmented store implements the append-only log: the log lists the     *)
(* lines of all segment files by their number in the chain.  A segment's     *)
(* first number is what the journal declares for it, or will declare.        *)

SegStart(k) ==
  IF k <= Len(LayoutClosed) THEN LayoutClosed[k].start ELSE NextStart(LayoutClosed)
Sealed == NextStart(LayoutClosed) + Len(OpenLines)
Holds(k, g) == SegStart(k) < g /\ g <= SegStart(k) + Len(data[k].lines)
SegmentOf(g) == CHOOSE k \in 1..Len(data) : Holds(k, g)
LineAt(g) == data[SegmentOf(g)].lines[g - SegStart(SegmentOf(g))]
ChainLines == [g \in 1..Sealed |-> LineAt(g)]

Log == INSTANCE AppendOnlyLog WITH log <- ChainLines, told <- acked

\* Appends, rotations, aborts, archival, recovery and kills, of any number of
\* processes, only ever extend one chained log at its end, and nobody is told of
\* an event that is not in it.
LedgerIsAppendOnlyLog == Log!LogSpec

\* Every number up to the last is one line's: the segments share none and leave none
\* out; only the open segment may be empty, and a pending one starts where it should.
ClosedFilled == \A k \in 1..Len(LayoutClosed) : data[k].lines # <<>>
Disjoint ==
  /\ \A k \in 1..Len(data) : SegStart(k) + Len(data[k].lines) <= Sealed
  /\ \A j, k \in 1..Len(data) : j < k => SegStart(j) + Len(data[j].lines) <= SegStart(k)
Covered == \A g \in 1..Sealed : \E k \in 1..Len(data) : Holds(k, g)
PendingStart == js.pending # NoEntry => js.pending.start = NextStart(js.closed)
SpanInv == ClosedFilled /\ Disjoint /\ Covered /\ PendingStart

\* An event on its way into the log has an id that no line has.
Used(n) == \E k \in 1..Len(data) : \E i \in 1..Len(data[k].lines) : data[k].lines[i].id = n
IdInv ==
  /\ \A k \in 1..Len(data) : \A i \in 1..Len(data[k].lines) : data[k].lines[i].id < nextId
  /\ js.pending # NoEntry => /\ js.pending.rot.id < nextId
                             /\ Used(js.pending.rot.id) => Renamed /\ P # 0
  /\ \A p \in Proc : pc[p] = "write2" => wip[p].id < nextId /\ ~Used(wip[p].id)
=============================================================================
