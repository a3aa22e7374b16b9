----------------------------- MODULE LedgerReader -----------------------------
(***************************************************************************)
(* The lock-free reader of store.py (_take_snapshot, then Snapshot.verify) *)
(* beside the writers of LedgerStore.  Every file access is a step of its  *)
(* own; a snapshot whose journal or watched names changed is retried.      *)
(* A read that saw an unterminated last line while its append is in flight *)
(* is retried (three sightings over 100 ms outlast an append); otherwise   *)
(* the torn line is believed.                                              *)
(***************************************************************************)
EXTENDS LedgerStore

CONSTANT SameDay  \* retention apply is run with older_than_days = 0

VARIABLE rd       \* the read in progress

ASSUME SameDayAssumption == SameDay \in BOOLEAN

rvars == <<vars, rd>>

\* Lines on disk now, over all segments: what a read that starts now must see.
DiskLength == NextStart(LayoutClosed) + Len(OpenLines)

NoRead == [st |-> "idle", base |-> 0, js |-> EmptyJournal, pend |-> FALSE, open |-> FALSE,
           h |-> 0, n |-> 0, torn |-> FALSE, k |-> 0, missing |-> FALSE]

InitReader == Init /\ rd = NoRead

\* The layout resolve_layout makes of what this read saw.
ReadClosedList(r) == IF r.pend THEN Append(r.js.closed, r.js.pending) ELSE r.js.closed
ReadLength(r) == NextStart(ReadClosedList(r)) + r.n

\* _Retry: the snapshot is taken again from the top.
Again == [NoRead EXCEPT !.st = "journal", !.base = rd.base]

\* A reader comes in.
ReadStart ==
  /\ rd.st = "idle"
  /\ rd' = [NoRead EXCEPT !.st = "journal", !.base = DiskLength]

\* raw1 = read_shared(journal)
ReadJournal ==
  /\ rd.st = "journal"
  /\ rd' = [rd EXCEPT !.st = "observe", !.js = js]

\* observe(renamed_to) by resolve_layout, then observe(P) for `before`.
ObservePending ==
  /\ rd.st = "observe"
  /\ rd' = [rd EXCEPT !.st = "observe2",
                      !.pend = rd.js.pending # NoEntry /\ closed[rd.js.pending.n] # 0]
ObserveOpen ==
  /\ rd.st = "observe2"
  /\ rd' = [rd EXCEPT !.st = "open", !.open = P # 0]

OpenHandle ==
  /\ rd.st = "open"
  /\ rd' = [rd EXCEPT !.st = "journal2", !.h = P]

\* Faulty variant: the snapshot is used without looking at the journal again.
RereadJournalSkipped ==
  /\ rd.st = "journal2"
  /\ rd' = [rd EXCEPT !.st = "read"]

\* raw2 and `after`: the journal and every watched name again.
RereadJournal ==
  /\ rd.st = "journal2"
  /\ rd' = IF <<js.len, js.torn>> # <<rd.js.len, rd.js.torn>> THEN Again
           ELSE [rd EXCEPT !.st = "restat"]
RestatOpen ==
  /\ rd.st = "restat"
  /\ rd' = IF (P # 0) # rd.open THEN Again ELSE [rd EXCEPT !.st = "restat2"]
\* Faulty variant: the pending closed name is not watched.
RestatPendingSkipped ==
  /\ rd.st = "restat2"
  /\ rd' = [rd EXCEPT !.st = "read"]
RestatPending ==
  /\ rd.st = "restat2"
  /\ rd' = IF rd.js.pending # NoEntry /\ (closed[rd.js.pending.n] # 0) # rd.pend THEN Again
           ELSE [rd EXCEPT !.st = "read"]

\* handle.read(): the inode that was opened, whatever its name is by now.
ReadOpenSegment ==
  /\ rd.st = "read"
  /\ LET torn == rd.h # 0 /\ data[rd.h].tail = "bad"
     IN rd' = IF torn /\ AppendInFlight /\ rd.h = P THEN Again
              ELSE [rd EXCEPT !.st = "closed", !.torn = torn, !.k = rd.js.arch + 1,
                              !.n = IF rd.h = 0 THEN 0 ELSE Len(data[rd.h].lines)]

\* One closed segment after the other; a missing one is a retry only if the
\* journal moved as well.
ReadClosedSegment ==
  /\ rd.st = "closed" /\ rd.k <= Len(ReadClosedList(rd))
  /\ rd' = IF closed[rd.k] # 0 THEN [rd EXCEPT !.k = @ + 1]
           ELSE IF <<js.len, js.torn>> # <<rd.js.len, rd.js.torn>> THEN Again
           ELSE [rd EXCEPT !.k = @ + 1, !.missing = TRUE]

\* The archived segments whose evidence is a retention event of the snapshot.
ReadEvidenced(r) ==
  {a \in 1..r.js.arch :
     \/ \E s \in r.js.arch + 1 .. Len(ReadClosedList(r)) : \E i \in 1..Len(data[s].lines) :
          a \in data[s].lines[i].names
     \/ \E i \in 1..r.n : a \in data[r.h].lines[i].names}

\* Snapshot.verify over the live segments; what can break it here is a missing
\* file, a torn line, or an open segment that does not continue the layout.
LiveWalkOK(r) ==
  /\ ~r.missing /\ ~r.torn /\ ~r.js.error
  /\ r.h = 0 => r.pend \/ (r.js.closed = <<>> /\ r.js.pending = NoEntry)
  /\ r.h # 0 /\ r.n > 0 => data[r.h].lines[1].prev = NextGen(ReadClosedList(r))
  /\ r.h # 0 /\ ReadClosedList(r) # <<>> =>
       r.n > 0 /\ data[r.h].lines[1].closes = Len(ReadClosedList(r))
WalkLive ==
  /\ rd.st = "closed" /\ rd.k > Len(ReadClosedList(rd))
  /\ rd' = IF LiveWalkOK(rd) THEN [rd EXCEPT !.st = "archived", !.k = 1]
           ELSE [rd EXCEPT !.st = "break"]

\* _verify_archived, one file access at a time: the ledger directory, then, for
\* a segment no event vouches for, the archive directory.
CheckInLedgerDir ==
  /\ rd.st = "archived" /\ rd.k <= rd.js.arch
  /\ rd' = IF closed[rd.k] # 0 \/ rd.k \in ReadEvidenced(rd) THEN [rd EXCEPT !.k = @ + 1]
           ELSE [rd EXCEPT !.st = "archived2"]
CheckInArchiveDir ==
  /\ rd.st = "archived2"
  /\ rd' = IF archive[rd.k] # 0 THEN [rd EXCEPT !.st = "archived", !.k = @ + 1]
           ELSE [rd EXCEPT !.st = "break"]
VerifyDone ==
  /\ rd.st = "archived" /\ rd.k > rd.js.arch
  /\ rd' = [rd EXCEPT !.st = "ok"]

\* The caller has its verdict.
ReadReturn ==
  /\ rd.st \in {"ok", "break"}
  /\ rd' = NoRead

ReadStep ==
  \/ ReadJournal \/ ObservePending \/ ObserveOpen \/ OpenHandle \/ RereadJournal
  \/ RestatOpen \/ RestatPending \/ ReadOpenSegment \/ ReadClosedSegment \/ WalkLive
  \/ CheckInLedgerDir \/ CheckInArchiveDir \/ VerifyDone \/ ReadReturn

\* A segment retention archives was closed longer ago than any attempt of a read
\* lasts (SNAPSHOT_TIMEOUT_S against days), unless it is applied the same day.
AttemptKnows(n) == rd.st \in {"idle", "journal", "ok", "break"} \/ n <= Len(rd.js.closed)
ArchivesAged == js'.arch # js.arch => SameDay \/ AttemptKnows(js'.arch)

NextReader ==
  \/ Next /\ ArchivesAged /\ UNCHANGED rd
  \/ (ReadStart \/ ReadStep) /\ UNCHANGED vars

SpecReader == InitReader /\ [][NextReader]_rvars

-----------------------------------------------------------------------------
\* A ledger nobody tampered with never verifies as broken, however the read
\* interleaves with appends, rotations, archival moves and kills: only a line a
\* killed append left torn may be reported (_take_snapshot's retry rules).
NoFalseBreak == rd.st = "break" => Unparseable

\* A read that verifies has everything that was in the ledger when it began, and
\* nothing that is not in it now: never ok and short (spec trap 1), never ok and
\* a mixture of two layouts.
ReadComplete ==
  rd.st = "ok" => rd.base <= ReadLength(rd) /\ ReadLength(rd) <= DiskLength
=============================================================================
