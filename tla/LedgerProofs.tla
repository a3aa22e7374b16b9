----------------------------- MODULE LedgerProofs -----------------------------
(* Theorems about LedgerStore, for any number of processes, segments, events *)
(* and kills: its types, its locks and its journal; and that its files stay  *)
(* one whole hash chain, as long as a torn append shows.                     *)
EXTENDS LedgerStore, SequenceTheorems, TLAPS

\* Replacing an element of a sequence by one of the same type.
LEMMA SeqReplace ==
  ASSUME NEW S, NEW s \in Seq(S), NEW i, NEW e, i \in 1..Len(s) => e \in S
  PROVE  [s EXCEPT ![i] = e] \in Seq(S) /\ Len([s EXCEPT ![i] = e]) = Len(s)
<1>1. CASE i \in 1..Len(s)
  BY <1>1, ExceptSeq
<1>2. CASE i \notin 1..Len(s)
  <2>1. [s EXCEPT ![i] = e] = s
    BY <1>2
  <2>2. QED
    BY <2>1
<1>3. QED
  BY <1>1, <1>2

\* The part of TypeOK that says what a process reads off the disk is well typed.
DiskTypeOK ==
  /\ data \in Seq(SegmentFile)
  /\ P \in 0..Len(data)
  /\ js \in Journal

\* The layout is a list of entries, and its end points are numbers.
LEMMA LayoutTypes ==
  ASSUME DiskTypeOK
  PROVE  /\ LayoutClosed \in Seq(Entry)
         /\ NextStart(LayoutClosed) \in Nat
         /\ NextGen(LayoutClosed) \in Nat
<1>1. LayoutClosed \in Seq(Entry)
  BY DEF DiskTypeOK, LayoutClosed, Renamed, Journal
<1>2. LayoutClosed # <<>> => LayoutClosed[Len(LayoutClosed)] \in Entry
  BY <1>1
<1>3. QED
  BY <1>1, <1>2 DEF NextStart, NextGen, Entry, Genesis

\* What a process reads of the open segment is well typed.
LEMMA OpenTypes ==
  ASSUME DiskTypeOK
  PROVE  OpenLines \in Seq(Event) /\ OpenTail \in TailState
<1>1. P # 0 => data[P] \in SegmentFile
  BY DEF DiskTypeOK
<1>2. P # 0 => data[P].lines \in Seq(Event) /\ data[P].tail \in TailState
  BY <1>1 DEF SegmentFile
<1>3. QED
  BY <1>2 DEF OpenLines, OpenTail, TailState

\* The identity _disk_key gives a file is well typed.
LEMMA DiskKeyType ==
  ASSUME DiskTypeOK
  PROVE  DiskKey \in Key
BY OpenTypes DEF DiskTypeOK, Journal, DiskKey, Key

\* _recover_locked always yields a well-typed cache.
LEMMA RecoveredType ==
  ASSUME DiskTypeOK
  PROVE  Recovered \in WriterCache
<1>1. /\ LayoutClosed \in Seq(Entry)
      /\ NextStart(LayoutClosed) \in Nat
      /\ NextGen(LayoutClosed) \in Nat
  BY LayoutTypes
<1>2. OpenLines \in Seq(Event)
  BY OpenTypes
<1>3. OpenLines # <<>> => OpenLines[Len(OpenLines)].id \in Nat
  <2>1. OpenLines # <<>> => OpenLines[Len(OpenLines)] \in Event
    BY <1>2
  <2>2. QED
    BY <2>1 DEF Event
<1>4. DiskKey \in Key
  BY DiskKeyType
<1>5. js.torn \in BOOLEAN /\ js.error \in BOOLEAN
  BY DEF DiskTypeOK, Journal
<1>6. QED
  BY <1>1, <1>2, <1>3, <1>4, <1>5 DEF Recovered, WriterCache

\* The null event and the null entry are an event and an entry.
LEMMA NullTypes == NoEvent \in Event /\ NoEntry \in Entry
<1>1. NoEvent \in Event
  BY DEF NoEvent, Event, EventTypes
<1>2. QED
  BY <1>1 DEF NoEntry, Entry

\* Journaling a well-typed record leaves a well-typed journal.
LEMMA JournaledType ==
  ASSUME TypeOK, NEW rec, rec.entry \in Entry,
         rec.op \in {"intent", "commit", "abort", "archive"}
  PROVE  Journaled(rec) \in Journal
<1>1. /\ js \in Journal /\ js.len + 1 \in Nat /\ js.arch + 1 \in Nat
      /\ Append(js.closed, rec.entry) \in Seq(Entry)
  BY DEF TypeOK, Journal
<1>2. NoEntry \in Entry
  BY NullTypes
<1>3. CASE js.error \/ js.torn \/ ~Legal(rec)
  BY <1>1, <1>3 DEF Journaled, Journal
<1>4. CASE ~(js.error \/ js.torn \/ ~Legal(rec))
  BY <1>1, <1>2, <1>4 DEF Journaled, Journal
<1>5. QED
  BY <1>3, <1>4

\* Journaling an archive record, too, leaves a well-typed journal.
LEMMA ArchiveJournaledType ==
  ASSUME TypeOK, NEW e
  PROVE  Journaled([op |-> "archive", entry |-> e]) \in Journal
<1>1. js \in Journal /\ js.len + 1 \in Nat /\ js.arch + 1 \in Nat
  BY DEF TypeOK, Journal
<1>2. QED
  BY <1>1 DEF Journaled, Journal

\* The same fact about the state after a step.
RecoveredOK == Recovered \in WriterCache

\* RecoveredType as one implication, so that it can be primed.
LEMMA RecoveredTypeImp == DiskTypeOK => RecoveredOK
BY RecoveredType DEF RecoveredOK

OpenOK == OpenLines \in Seq(Event) /\ OpenTail \in TailState

\* OpenTypes in the state after a step.
LEMMA OpenTypesNext == DiskTypeOK' => OpenLines' \in Seq(Event) /\ OpenTail' \in TailState
<1>1. DiskTypeOK => OpenOK
  BY OpenTypes DEF OpenOK
<1>2. DiskTypeOK' => OpenOK'
  BY <1>1, PTL
<1>3. QED
  BY <1>2 DEF OpenOK, TailState

\* RecoveredType in the state after a step: what a commit re-reads.
LEMMA RecoveredTypeNext == DiskTypeOK' => Recovered' \in WriterCache
<1>1. DiskTypeOK' => RecoveredOK'
  BY RecoveredTypeImp, PTL
<1>2. QED
  BY <1>1 DEF RecoveredOK, WriterCache, Key, TailState

-----------------------------------------------------------------------------
\* The records every process starts with are well typed.
LEMMA NullRecords ==
  NoCache \in WriterCache /\ NoApply \in ApplyLocals /\ EmptyJournal \in Journal
BY NullTypes DEF NoCache, WriterCache, Key, TailState, NoApply, ApplyLocals, EmptyJournal, Journal

\* The empty ledger directory is well typed.
LEMMA TypeInit == Init => TypeOK
<1> SUFFICES ASSUME Init PROVE TypeOK
  OBVIOUS
<1>1. data \in Seq(SegmentFile) /\ P \in 0..Len(data)
  BY DEF Init
<1>2. tmp \in [st : {"none", "torn", "full"}, ev : Event] /\ js \in Journal
  BY NullTypes, NullRecords DEF Init
<1>3. cache \in [Proc -> WriterCache] /\ ap \in [Proc -> ApplyLocals] /\ wip \in [Proc -> Event]
  BY NullTypes, NullRecords DEF Init
<1>4. QED
  BY <1>1, <1>2, <1>3 DEF Init, TypeOK, Label, Goal

\* Every step preserves the types.
LEMMA TypeStep == TypeOK /\ [Next]_vars => TypeOK'
<1> SUFFICES ASSUME TypeOK, [Next]_vars
             PROVE  TypeOK'
  OBVIOUS
<1> USE DEF Goto
<1>null. /\ NoEvent \in Event /\ NoEntry \in Entry /\ NoApply \in ApplyLocals
         /\ NoCache \in WriterCache
  BY NullTypes, NullRecords
<1>disk. DiskTypeOK
  BY DEF TypeOK, DiskTypeOK
<1>rec. Recovered \in WriterCache
  BY <1>disk, RecoveredType
<1>js. js.arch + 1 \in Nat
  BY DEF TypeOK, Journal
<1>torn. [js EXCEPT !.torn = FALSE] \in Journal /\ [js EXCEPT !.torn = TRUE] \in Journal
  <2>1. js \in Journal
    BY DEF TypeOK
  <2>2. QED
    BY <2>1 DEF Journal
<1>pend. js.pending \in Entry /\ js.pending.rot \in Event
  BY DEF TypeOK, Journal, Entry
<1>jr. /\ Journaled([op |-> "abort", entry |-> js.pending]) \in Journal
       /\ Journaled([op |-> "commit", entry |-> js.pending]) \in Journal
  BY <1>pend, JournaledType
<1>ev. Evidenced \subseteq Nat
  BY DEF Evidenced, TypeOK, Journal
<1>arch. ASSUME NEW e PROVE Journaled([op |-> "archive", entry |-> e]) \in Journal
  BY ArchiveJournaledType
<1>wrt. ASSUME NEW e \in Event, NEW t \in TailState
        PROVE  Written(e, t) \in Seq(SegmentFile) /\ Len(Written(e, t)) = Len(data)
  <2>1. ASSUME P \in 1..Len(data)
        PROVE  [lines |-> Append(data[P].lines, e), tail |-> t] \in SegmentFile
    <3>1. data[P] \in SegmentFile
      BY <2>1 DEF TypeOK
    <3>2. Append(data[P].lines, e) \in Seq(Event)
      BY <3>1 DEF SegmentFile
    <3>3. QED
      BY <3>2 DEF SegmentFile
  <2> DEFINE f == data[P]
             g == IF f.tail = "merged" THEN f ELSE [lines |-> Append(f.lines, e), tail |-> t]
  <2>2. Written(e, t) = [data EXCEPT ![P] = g]
    BY DEF Written
  <2>3. P \in 1..Len(data) => g \in SegmentFile
    BY <2>1 DEF TypeOK
  <2>4. data \in Seq(SegmentFile)
    BY DEF TypeOK
  <2> HIDE DEF g
  <2>5. QED
    BY <2>2, <2>3, <2>4, SeqReplace
<1>inst. ASSUME Install
         PROVE  /\ data' \in Seq(SegmentFile) /\ P' \in 0..Len(data')
                /\ tmp' \in [st : {"none", "torn", "full"}, ev : Event]
                /\ UNCHANGED <<closed, archive, js, hold, sidecar>>
  <2> DEFINE new == IF tmp.st = "full" THEN [lines |-> <<tmp.ev>>, tail |-> "ok"]
                    ELSE [lines |-> <<>>, tail |-> "bad"]
  <2>1. tmp.ev \in Event
    BY DEF TypeOK
  <2>2. new \in SegmentFile
    BY <2>1 DEF SegmentFile, TailState
  <2>3. data' = Append(data, new) /\ P' = Len(data) + 1
    BY <1>inst DEF Install
  <2>4. QED
    BY <1>inst, <1>null, <2>2, <2>3 DEF TypeOK, Install
<1>plan. ASSUME NEW p \in Proc, cache[p].glen > cache[p].start
         PROVE  RotatePlan(p).rot \in Event /\ RotatePlan(p) \in Entry
  <2>1. cache[p] \in WriterCache /\ nextId \in Nat
    BY DEF TypeOK
  <2>2. RotatePlan(p).rot \in Event
    BY <2>1 DEF RotatePlan, Event, EventTypes, WriterCache
  <2>3. cache[p].glen - 1 \in Nat
    BY <2>1, <1>plan DEF WriterCache
  <2>4. QED
    BY <2>1, <2>2, <2>3 DEF RotatePlan, Entry, WriterCache
<1>1. ASSUME NEW p \in Proc,
             \/ \E g \in Ops : Acquire(p, g)
             \/ ApplyStart(p) \/ Step(p) \/ Restart(p) \/ Crash(p)
      PROVE  TypeOK'
  <2>1. CASE \E g \in Ops : Acquire(p, g)
    BY <2>1 DEF TypeOK, disk, Label, Goal, Ops, Acquire
  <2>2. CASE ApplyStart(p)
    BY <2>2, <1>null DEF TypeOK, disk, Label, Goal, Ops, ApplyStart
  <2>3. CASE EnsureFresh(p)
    <3>1. cache' \in [Proc -> WriterCache]
      BY <2>3, <1>rec DEF TypeOK, EnsureFresh
    <3>2. /\ pc' \in [Proc -> Label] /\ goal' \in [Proc -> Goal]
          /\ lock' \in Proc \union {"nobody"}
      BY <2>3 DEF TypeOK, EnsureFresh, AfterFresh, Fail, Unlock, Stay, Label, Goal, Ops
    <3>3. QED
      BY <2>3, <3>1, <3>2 DEF TypeOK, EnsureFresh, disk
  <2>4. CASE ReconcileTornTail(p)
    BY <2>4, <1>torn DEF TypeOK, disk, Label, Goal, Ops, ReconcileTornTail
  <2>5. CASE ReconcileUnlinkTmp(p)
    BY <2>5, <1>null DEF TypeOK, disk, Label, Goal, Ops, ReconcileUnlinkTmp
  <2>6. CASE ReconcileAbort(p)
    BY <2>6, <1>jr DEF TypeOK, disk, Label, Goal, Ops, ReconcileAbort
  <2>7. CASE ReconcileForward(p)
    <3>1. tmp' \in [st : {"none", "torn", "full"}, ev : Event]
      BY <2>7, <1>pend DEF TypeOK, ReconcileForward
    <3>2. QED
      BY <2>7, <3>1 DEF TypeOK, Label, ReconcileForward
  <2>8. CASE ReconcileInstall(p)
    BY <2>8, <1>inst DEF TypeOK, disk, Label, Goal, Ops, ReconcileInstall
  <2>9. CASE ReconcileCommit(p)
    BY <2>9, <1>jr DEF TypeOK, disk, Label, Goal, Ops, ReconcileCommit
  <2>10. CASE ReconcileEnd(p)
    BY <2>10, <1>rec DEF TypeOK, disk, Label, Goal, Ops, ReconcileEnd, AfterFresh, Unlock, Stay
  <2>11. CASE WriteBegin(p)
    <3>1. wip' \in [Proc -> Event]
      BY <2>11 DEF TypeOK, WriterCache, ApplyLocals, EventType, EventTypes, Event, WriteBegin
    <3>2. data' \in Seq(SegmentFile) /\ P' \in 0..Len(data')
      <4>1. CASE P = 0
        <5>1. [lines |-> <<>>, tail |-> "bad"] \in SegmentFile
          BY DEF SegmentFile, TailState
        <5>2. data \in Seq(SegmentFile)
          BY DEF TypeOK
        <5>3. P' = Len(data) + 1 /\ data' = Append(data, [lines |-> <<>>, tail |-> "bad"])
          BY <2>11, <4>1 DEF WriteBegin
        <5>4. QED
          BY <5>1, <5>2, <5>3
      <4>2. CASE P # 0
        <5> DEFINE f == data[P]
                   g == CASE f.tail = "noeol" ->
                               [lines |-> SubSeq(f.lines, 1, Len(f.lines) - 1), tail |-> "merged"]
                          [] f.tail = "merged" -> f
                          [] OTHER -> [f EXCEPT !.tail = "bad"]
        <5>1. f \in SegmentFile
          BY <4>2 DEF TypeOK
        <5>2. SubSeq(f.lines, 1, Len(f.lines) - 1) \in Seq(Event)
          BY <5>1 DEF SegmentFile
        <5>3. g \in SegmentFile
          BY <5>1, <5>2 DEF SegmentFile, TailState
        <5>4. data' = [data EXCEPT ![P] = g] /\ P' = P
          BY <2>11, <4>2 DEF WriteBegin
        <5>5. data \in Seq(SegmentFile) /\ P \in 0..Len(data)
          BY DEF TypeOK
        <5> HIDE DEF g
        <5>6. ASSUME NEW h \in SegmentFile
              PROVE  [data EXCEPT ![P] = h] \in Seq(SegmentFile)
                     /\ Len([data EXCEPT ![P] = h]) = Len(data)
          BY <5>5, <4>2, ExceptSeq
        <5>7. [data EXCEPT ![P] = g] \in Seq(SegmentFile) /\ Len([data EXCEPT ![P] = g]) = Len(data)
          BY <5>3, <5>6
        <5>8. QED
          BY <5>4, <5>5, <5>7
      <4>3. QED
        BY <4>1, <4>2
    <3>3. QED
      BY <2>11, <3>1, <3>2 DEF TypeOK, Label, WriteBegin
  <2>12. CASE WriteEnd(p)
    <3>1. data' \in Seq(SegmentFile) /\ Len(data') = Len(data)
      BY <2>12, <1>wrt DEF TypeOK, WriteEnd, TailState
    <3>2. OpenLines' \in Seq(Event) /\ OpenTail' \in TailState
      <4>1. DiskTypeOK'
        BY <2>12, <3>1 DEF TypeOK, DiskTypeOK, WriteEnd
      <4>2. QED
        BY <4>1, OpenTypesNext
    <3>3. cache' \in [Proc -> WriterCache]
      <4> DEFINE k == [cache[p].key EXCEPT !.ino = P, !.size = Len(OpenLines'),
                                           !.tail = OpenTail']
                 c == [cache[p] EXCEPT !.head = wip[p].id, !.glen = @ + 1, !.key = k]
      <4>1. cache[p] \in WriterCache /\ wip[p].id \in Nat
        BY DEF TypeOK, Event
      <4>2. k \in Key
        <5>1. cache[p].key \in Key
          BY <4>1 DEF WriterCache
        <5>2. P \in Nat /\ Len(OpenLines') \in Nat
          BY <3>2 DEF TypeOK
        <5>3. QED
          BY <5>1, <5>2, <3>2 DEF Key
      <4>3. c \in WriterCache
        <5> HIDE DEF k
        <5>1. cache[p].glen + 1 \in Nat
          BY <4>1 DEF WriterCache
        <5>2. QED
          BY <4>1, <4>2, <5>1 DEF WriterCache
      <4>4. cache' = [cache EXCEPT ![p] = c]
        BY <2>12 DEF WriteEnd, TypeOK
      <4> HIDE DEF c
      <4>5. QED
        BY <4>3, <4>4 DEF TypeOK
    <3>4. acked' \in SUBSET Nat /\ wip' \in [Proc -> Event]
      BY <2>12, <1>null DEF TypeOK, WriteEnd, Event
    <3>5. QED
      BY <2>12, <3>1, <3>3, <3>4 DEF TypeOK, Label, Goal, Ops, WriteEnd, Unlock, Stay
  <2>13. CASE RotateIntent(p)
    <3>1. RotatePlan(p).rot \in Event /\ RotatePlan(p) \in Entry
      BY <2>13, <1>plan DEF RotateIntent
    <3>2. Journaled([op |-> "intent", entry |-> RotatePlan(p)]) \in Journal
      BY <3>1, JournaledType
    <3>3. QED
      BY <2>13, <3>1, <3>2 DEF TypeOK, Label, RotateIntent
  <2>14. CASE RotateRefused(p)
    BY <2>14 DEF TypeOK, disk, Label, Goal, Ops, RotateRefused, Unlock
  <2>15. CASE RotateTmp(p)
    BY <2>15 DEF TypeOK, disk, Label, Goal, Ops, RotateTmp
  <2>16. CASE RotateRename(p)
    <3>1. closed' \in [Seg -> Nat]
      <4>1. P \in Nat
        BY DEF TypeOK
      <4>2. QED
        BY <2>16, <4>1 DEF TypeOK, RotateRename
    <3>2. P' \in 0..Len(data')
      BY <2>16 DEF TypeOK, RotateRename
    <3>3. QED
      BY <2>16, <3>1, <3>2 DEF TypeOK, Label, RotateRename
  <2>17. CASE RotateRenameRefused(p)
    BY <2>17, <1>jr DEF TypeOK, disk, Label, Goal, Ops, RotateRenameRefused
  <2>18. CASE RotateAborted(p)
    <3>1. cache' \in [Proc -> WriterCache]
      <4>1. DiskKey \in Key
        BY DiskKeyType, <1>disk
      <4>2. cache[p] \in WriterCache
        BY DEF TypeOK
      <4> DEFINE c == [cache[p] EXCEPT !.key = DiskKey, !.pending = FALSE]
      <4>3. c \in WriterCache
        BY <4>1, <4>2 DEF WriterCache
      <4>4. cache' = [cache EXCEPT ![p] = c]
        BY <2>18 DEF RotateAborted, TypeOK
      <4> HIDE DEF c
      <4>5. QED
        BY <4>3, <4>4 DEF TypeOK
    <3>2. QED
      BY <2>18, <3>1, <1>null DEF TypeOK, Label, Goal, Ops, RotateAborted, Unlock
  <2>19. CASE RotateInstall(p)
    BY <2>19, <1>inst DEF TypeOK, disk, Label, Goal, Ops, RotateInstall
  <2>20. CASE RotateCommit(p)
    BY <2>20, <1>jr, RecoveredTypeNext, <1>null DEF RotateCommit, TypeOK, DiskTypeOK, Event, Label, Goal, Ops,
      Unlock
  <2>21. CASE PlaceHold(p)
    BY <2>21 DEF TypeOK, disk, Label, Goal, Ops, PlaceHold, Unlock, Stay
  <2>22. CASE ReleaseHold(p)
    BY <2>22 DEF TypeOK, disk, Label, Goal, Ops, ReleaseHold, Unlock, Stay
  <2>23. CASE ReleaseUnlink(p)
    BY <2>23 DEF TypeOK, disk, Label, Goal, Ops, ReleaseUnlink, Unlock
  <2>24. CASE ApplyCompleteMoves(p)
    <3>1. ap' \in [Proc -> ApplyLocals]
      <4>1. ASSUME NEW did \in BOOLEAN, NEW ver \in BOOLEAN, NEW ev \in SUBSET Nat
            PROVE  [ap[p] EXCEPT !.did = did, !.verified = ver, !.ev = ev] \in ApplyLocals
        BY DEF TypeOK, ApplyLocals
      <4>2. CASE ap' = ap
        BY <4>2 DEF TypeOK
      <4>3. ASSUME NEW S,
                   ap' = [ap EXCEPT ![p].did = S # {}, ![p].verified = PendingMoves # {},
                                    ![p].ev = IF PendingMoves # {} THEN Evidenced ELSE {}]
            PROVE  ap' \in [Proc -> ApplyLocals]
        BY <4>3, <4>1, <1>ev DEF TypeOK
      <4>4. QED
        BY <2>24, <4>2, <4>3 DEF ApplyCompleteMoves
    <3>2. closed' \in [Seg -> Nat] /\ archive' \in [Seg -> Nat]
      <4>1. ASSUME NEW S, Move(S)
            PROVE  closed' \in [Seg -> Nat] /\ archive' \in [Seg -> Nat]
        BY <4>1 DEF TypeOK, Move
      <4>2. CASE UNCHANGED disk
        BY <4>2 DEF TypeOK, disk
      <4>3. QED
        BY <2>24, <4>1, <4>2 DEF ApplyCompleteMoves
    <3>3. QED
      BY <2>24, <3>1, <3>2 DEF TypeOK, Label, ApplyCompleteMoves, Move, disk
  <2>25. CASE ApplyPlan(p)
    <3>1. ap' \in [Proc -> ApplyLocals]
      <4> DEFINE a == [ap[p] EXCEPT !.seg = js.arch + 1, !.verified = TRUE,
                                    !.ev = IF ap[p].verified THEN @ ELSE Evidenced]
      <4>1. a \in ApplyLocals
        BY <1>ev, <1>js DEF TypeOK, ApplyLocals
      <4>2. ap' = ap \/ ap' = [ap EXCEPT ![p] = a]
        BY <2>25 DEF ApplyPlan, TypeOK
      <4> HIDE DEF a
      <4>3. QED
        BY <4>1, <4>2 DEF TypeOK
    <3>2. QED
      BY <2>25, <3>1 DEF TypeOK, Label, ApplyPlan, disk
  <2>26. CASE ApplySidecar(p)
    <3>1. ap' \in [Proc -> ApplyLocals]
      <4> DEFINE a == [ap[p] EXCEPT !.created = (sidecar[ap[p].seg] = "none")]
      <4>1. a \in ApplyLocals
        BY DEF TypeOK, ApplyLocals
      <4>2. ap' = ap \/ ap' = [ap EXCEPT ![p] = a]
        BY <2>26 DEF ApplySidecar, TypeOK
      <4> HIDE DEF a
      <4>3. QED
        BY <4>1, <4>2 DEF TypeOK
    <3>2. sidecar' \in [Seg -> {"none"} \union {Operator[q] : q \in Proc}]
      <4>1. sidecar' = sidecar \/ sidecar' = [sidecar EXCEPT ![ap[p].seg] = Operator[p]]
        BY <2>26 DEF ApplySidecar
      <4>2. QED
        BY <4>1 DEF TypeOK
    <3>3. QED
      BY <2>26, <3>1, <3>2 DEF TypeOK, Label, ApplySidecar
  <2>27. CASE ApplyLock(p)
    BY <2>27 DEF TypeOK, disk, Label, Goal, Ops, ApplyLock
  <2>28. CASE ApplyBusy(p)
    BY <2>28 DEF TypeOK, disk, Label, Goal, Ops, ApplyBusy
  <2>29. CASE ApplyHeld(p)
    BY <2>29 DEF TypeOK, ApplyHeld, Label, Goal, Ops, Unlock
  <2>30. CASE ApplyReplan(p)
    BY <2>30 DEF TypeOK, disk, Label, Goal, Ops, ApplyReplan, Unlock
  <2>31. CASE ApplyCommit(p)
    <3>1. js' \in Journal
      BY <2>31, <1>arch DEF ApplyCommit
    <3>2. DiskTypeOK'
      BY <2>31, <3>1 DEF TypeOK, DiskTypeOK, ApplyCommit
    <3>3. cache' \in [Proc -> WriterCache]
      BY <2>31, <3>2, RecoveredTypeNext DEF TypeOK, ApplyCommit
    <3>4. ap' \in [Proc -> ApplyLocals]
      <4>1. ap[p] \in ApplyLocals /\ ap[p].ev \union {ap[p].seg} \in SUBSET Nat
        BY DEF TypeOK, ApplyLocals
      <4>2. [ap[p] EXCEPT !.did = TRUE, !.ev = @ \union {ap[p].seg}] \in ApplyLocals
        BY <4>1 DEF ApplyLocals
      <4>3. ap' = [ap EXCEPT ![p] = [ap[p] EXCEPT !.did = TRUE, !.ev = @ \union {ap[p].seg}]]
        BY <2>31 DEF TypeOK, ApplyCommit
      <4>4. QED
        BY <4>2, <4>3 DEF TypeOK
    <3>5. QED
      BY <2>31, <3>1, <3>3, <3>4 DEF TypeOK, Label, Goal, Ops, ApplyCommit, Unlock
  <2>32. CASE ApplyMove(p)
    BY <2>32 DEF TypeOK, disk, Label, Goal, Ops, ApplyMove, Move
  <2>33. CASE ApplyEnd(p)
    BY <2>33 DEF TypeOK, disk, Label, Goal, Ops, ApplyEnd
  <2>34. CASE StartReconcile(p)
    <3>1. cache' \in [Proc -> WriterCache]
      BY <2>34, <1>rec DEF TypeOK, StartReconcile
    <3>2. /\ pc' \in [Proc -> Label] /\ goal' \in [Proc -> Goal]
          /\ lock' \in Proc \union {"nobody"}
      BY <2>34 DEF TypeOK, StartReconcile, Label, Goal, Ops
    <3>3. QED
      BY <2>34, <3>1, <3>2 DEF TypeOK, StartReconcile, disk
  <2>35. CASE Restart(p)
    BY <2>35, <1>rec DEF TypeOK, disk, Label, Goal, Ops, Restart
  <2>36. CASE Crash(p)
    <3>1. js' \in Journal /\ tmp' \in [st : {"none", "torn", "full"}, ev : Event]
      <4>1. /\ js' = js \/ js' = [js EXCEPT !.torn = TRUE]
            /\ tmp' = tmp \/ tmp' = [st |-> "torn", ev |-> NoEvent]
        BY <2>36 DEF Crash, disk, TearJournal, TearTmp, TearLine
      <4>2. js' \in Journal
        BY <4>1, <1>torn, Zenon DEF TypeOK
      <4>3. tmp' \in [st : {"none", "torn", "full"}, ev : Event]
        BY <4>1, <1>null DEF TypeOK
      <4>4. QED
        BY <4>2, <4>3
    <3>2. data' \in Seq(SegmentFile) /\ Len(data') = Len(data)
      BY <2>36, <1>wrt DEF TypeOK, Crash, disk, TearJournal, TearTmp, TearLine, TailState
    <3>3. /\ UNCHANGED <<P, closed, archive, hold, sidecar>>
      BY <2>36 DEF Crash, disk, TearJournal, TearTmp, TearLine
    <3>4. QED
      BY <2>36, <3>1, <3>2, <3>3, <1>null DEF TypeOK, Label, Goal, Ops, Crash
  <2>37. QED
    BY <1>1, <2>1, <2>2, <2>3, <2>4, <2>5, <2>6, <2>7, <2>8, <2>9, <2>10, <2>11, <2>12, <2>13, <2>14, <2>15, <2>16, <2>17, <2>18, <2>19, <2>20, <2>21, <2>22, <2>23, <2>24, <2>25, <2>26, <2>27, <2>28, <2>29, <2>30, <2>31, <2>32, <2>33, <2>34, <2>35, <2>36 DEF Step, Reconcile, Rotate, Apply
<1>2. CASE UNCHANGED vars
  BY <1>2 DEF TypeOK, vars, disk
<1>3. QED
  BY <1>1, <1>2 DEF Next

\* TypeOK holds throughout, for every set of processes and every bound: the
\* caches, the parsed journal and the segment files of store.py keep their
\* shape under every interleaving and kill.
THEOREM TypeCorrect == Spec => []TypeOK
<1>1. Init => TypeOK
  BY TypeInit
<1>2. TypeOK /\ [Next]_vars => TypeOK'
  BY TypeStep
<1>3. QED
  BY <1>1, <1>2, PTL DEF Spec

-----------------------------------------------------------------------------
(* The journal never becomes invalid.                                       *)

\* What _recover_locked puts in the cache, as far as the journal goes.
RecoveredSound ==
  /\ Recovered.start <= Recovered.glen
  /\ Recovered.key.jlen = js.len
  /\ Recovered.key.jtorn = js.torn
  /\ Recovered.pending <=> js.pending # NoEntry \/ js.torn \/ js.error
  /\ ~Recovered.pending => /\ Recovered.next = Len(js.closed) + 1
                           /\ Recovered.start = NextStart(js.closed)
                           /\ Recovered.chead = NextGen(js.closed)

\* With nothing pending and no torn line, _recover_locked reads off the journal
\* the number, start and chain head of the open segment.
LEMMA RecoveredIsSound == DiskTypeOK => RecoveredSound
<1> SUFFICES ASSUME DiskTypeOK PROVE RecoveredSound
  OBVIOUS
<1>1. NextStart(LayoutClosed) \in Nat /\ Len(OpenLines) \in Nat
  BY LayoutTypes, OpenTypes
<1>2. js.pending = NoEntry => LayoutClosed = js.closed
  BY DEF LayoutClosed, Renamed
<1>3. js.torn \in BOOLEAN /\ js.error \in BOOLEAN
  BY DEF DiskTypeOK, Journal
<1>4. Recovered.start = NextStart(LayoutClosed)
      /\ Recovered.glen = NextStart(LayoutClosed) + Len(OpenLines)
      /\ Recovered.next = Len(LayoutClosed) + 1 /\ Recovered.chead = NextGen(LayoutClosed)
      /\ Recovered.key = DiskKey
  BY DEF Recovered
<1>5. Recovered.pending <=> js.pending # NoEntry \/ js.torn \/ js.error
  BY <1>3 DEF Recovered
<1>6. DiskKey.jlen = js.len /\ DiskKey.jtorn = js.torn
  BY DEF DiskKey
<1>7. QED
  BY <1>1, <1>2, <1>4, <1>5, <1>6 DEF RecoveredSound

\* RecoveredIsSound in the state after a step.
LEMMA RecoveredIsSoundNext == DiskTypeOK' => RecoveredSound'
BY RecoveredIsSound, PTL

\* The journal invariant holds of an empty directory.
LEMMA JournalInit == Init => JournalInv
<1> SUFFICES ASSUME Init PROVE JournalInv
  OBVIOUS
<1>1. JournalValid /\ LockExcludes /\ js.arch <= Len(js.closed)
      /\ \A p \in Proc : JournalPhase(p) /\ PlannedCommitted(p)
  BY DEF Init, JournalValid, LockExcludes, JournalPhase, PlannedCommitted, Locked, Settled,
         InRotation, EmptyJournal
<1>2. \A p \in Proc : CacheCoherent(p)
  BY DEF Init, CacheCoherent, Agrees, EmptyJournal, NoCache, NextStart, NextGen, Genesis
<1>3. QED
  BY <1>1, <1>2 DEF JournalInv

\* Every step preserves the lock discipline.
LEMMA LockStep == TypeOK /\ LockExcludes /\ [Next]_vars => LockExcludes'
<1> SUFFICES ASSUME TypeOK, LockExcludes, [Next]_vars
             PROVE  LockExcludes'
  OBVIOUS
<1> USE DEF Goto, LockExcludes, Locked, Settled, InRotation
<1>t. pc \in [Proc -> Label] /\ goal \in [Proc -> Goal] /\ "nobody" \notin Proc
  BY LedgerAssumption DEF TypeOK
<1>1. ASSUME NEW p \in Proc,
             \/ \E g \in Ops : Acquire(p, g)
             \/ ApplyStart(p) \/ Step(p) \/ Restart(p) \/ Crash(p)
      PROVE  LockExcludes'
  <2>1. CASE \E g \in Ops : Acquire(p, g)
    BY <2>1, <1>t DEF Acquire, Ops
  <2>2. CASE ApplyStart(p)
    BY <2>2, <1>t DEF ApplyStart
  <2>3. CASE EnsureFresh(p)
    BY <2>3, <1>t DEF EnsureFresh, AfterFresh, Fail, Unlock, Stay
  <2>4. CASE ReconcileTornTail(p)
    BY <2>4, <1>t DEF ReconcileTornTail
  <2>5. CASE ReconcileUnlinkTmp(p)
    BY <2>5, <1>t DEF ReconcileUnlinkTmp
  <2>6. CASE ReconcileAbort(p)
    BY <2>6, <1>t DEF ReconcileAbort
  <2>7. CASE ReconcileForward(p)
    BY <2>7, <1>t DEF ReconcileForward
  <2>8. CASE ReconcileInstall(p)
    BY <2>8, <1>t DEF ReconcileInstall
  <2>9. CASE ReconcileCommit(p)
    BY <2>9, <1>t DEF ReconcileCommit
  <2>10. CASE ReconcileEnd(p)
    BY <2>10, <1>t DEF ReconcileEnd, AfterFresh, Unlock, Stay
  <2>11. CASE WriteBegin(p)
    BY <2>11, <1>t DEF WriteBegin
  <2>12. CASE WriteEnd(p)
    BY <2>12, <1>t DEF WriteEnd, Unlock, Stay
  <2>13. CASE RotateIntent(p)
    BY <2>13, <1>t DEF RotateIntent
  <2>14. CASE RotateRefused(p)
    BY <2>14, <1>t DEF RotateRefused, Unlock
  <2>15. CASE RotateTmp(p)
    BY <2>15, <1>t DEF RotateTmp
  <2>16. CASE RotateRename(p)
    BY <2>16, <1>t DEF RotateRename
  <2>17. CASE RotateRenameRefused(p)
    BY <2>17, <1>t DEF RotateRenameRefused
  <2>18. CASE RotateAborted(p)
    BY <2>18, <1>t DEF RotateAborted, Unlock
  <2>19. CASE RotateInstall(p)
    BY <2>19, <1>t DEF RotateInstall
  <2>20. CASE RotateCommit(p)
    BY <2>20, <1>t DEF RotateCommit, Unlock
  <2>21. CASE PlaceHold(p)
    BY <2>21, <1>t DEF PlaceHold, Unlock, Stay
  <2>22. CASE ReleaseHold(p)
    BY <2>22, <1>t DEF ReleaseHold, Unlock, Stay
  <2>23. CASE ReleaseUnlink(p)
    BY <2>23, <1>t DEF ReleaseUnlink, Unlock
  <2>24. CASE ApplyCompleteMoves(p)
    BY <2>24, <1>t DEF ApplyCompleteMoves
  <2>25. CASE ApplyPlan(p)
    BY <2>25, <1>t DEF ApplyPlan
  <2>26. CASE ApplySidecar(p)
    BY <2>26, <1>t DEF ApplySidecar
  <2>27. CASE ApplyLock(p)
    BY <2>27, <1>t DEF ApplyLock
  <2>28. CASE ApplyBusy(p)
    BY <2>28, <1>t DEF ApplyBusy
  <2>29. CASE ApplyHeld(p)
    BY <2>29, <1>t DEF ApplyHeld, Unlock
  <2>30. CASE ApplyReplan(p)
    BY <2>30, <1>t DEF ApplyReplan, Unlock
  <2>31. CASE ApplyCommit(p)
    BY <2>31, <1>t DEF ApplyCommit, Unlock
  <2>32. CASE ApplyMove(p)
    BY <2>32, <1>t DEF ApplyMove
  <2>33. CASE ApplyEnd(p)
    BY <2>33, <1>t DEF ApplyEnd
  <2>34. CASE StartReconcile(p)
    BY <2>34, <1>t DEF StartReconcile
  <2>35. CASE Restart(p)
    BY <2>35, <1>t DEF Restart
  <2>36. CASE Crash(p)
    BY <2>36, <1>t DEF Crash
  <2>37. QED
    BY <1>1, <2>1, <2>2, <2>3, <2>4, <2>5, <2>6, <2>7, <2>8, <2>9, <2>10, <2>11, <2>12, <2>13, <2>14, <2>15, <2>16, <2>17, <2>18, <2>19, <2>20, <2>21, <2>22, <2>23, <2>24, <2>25, <2>26, <2>27, <2>28, <2>29, <2>30, <2>31, <2>32, <2>33, <2>34, <2>35, <2>36 DEF Step, Reconcile, Rotate, Apply
<1>2. CASE UNCHANGED vars
  BY <1>2 DEF vars
<1>3. QED
  BY <1>1, <1>2 DEF Next

\* How a step changes the journal: not at all, by its torn flag, or by one legal
\* record, written by the process that holds the lock.
JournalUnmoved == UNCHANGED <<js.len, js.closed, js.pending, js.arch, js.error>>
JournalRecord(p, op) ==
  /\ lock = p
  /\ js'.len = js.len + 1 /\ js'.error = FALSE /\ js'.torn = FALSE /\ js.torn = FALSE
  /\ op = "intent" => /\ js'.pending # NoEntry /\ js'.pending = RotatePlan(p)
                      /\ js'.closed = js.closed /\ js'.arch = js.arch
  /\ op = "commit" => /\ js'.pending = NoEntry /\ js'.closed = Append(js.closed, js.pending)
                      /\ Len(js'.closed) = Len(js.closed) + 1 /\ js'.arch = js.arch
  /\ op = "abort" => js'.pending = NoEntry /\ js'.closed = js.closed /\ js'.arch = js.arch
  /\ op = "archive" => /\ js'.pending = js.pending /\ js'.closed = js.closed
                       /\ js'.arch = js.arch + 1 /\ js'.arch <= Len(js'.closed)

\* Finishing or undoing a rotation appends a legal record.
LEMMA EndsRotation ==
  ASSUME TypeOK, JournalInv, NEW p \in Proc, pc[p] \in InRotation,
         NEW op \in {"commit", "abort"}, js' = Journaled([op |-> op, entry |-> js.pending])
  PROVE  JournalRecord(p, op)
<1> DEFINE rec == [op |-> op, entry |-> js.pending]
<1>1. /\ js \in Journal /\ ~js.error /\ ~js.torn /\ js.pending # NoEntry /\ lock = p
      /\ js.torn \in BOOLEAN
  BY DEF TypeOK, JournalInv, JournalValid, JournalPhase, LockExcludes, Locked, Journal
<1>2. Legal(rec)
  BY <1>1 DEF Legal
<1>3. rec.op = op /\ rec.entry = js.pending
  OBVIOUS

<1>4. /\ Journaled(rec).len = js.len + 1
      /\ Journaled(rec).error = FALSE /\ Journaled(rec).torn = FALSE
      /\ Journaled(rec).pending = NoEntry /\ Journaled(rec).arch = js.arch
      /\ op = "commit" => Journaled(rec).closed = Append(js.closed, rec.entry)
      /\ op = "abort" => Journaled(rec).closed = js.closed
  BY <1>1, <1>2, <1>3 DEF Journaled, Journal
<1>5. Len(Append(js.closed, rec.entry)) = Len(js.closed) + 1
  BY <1>1, <1>3 DEF Journal
<1>6. js' = Journaled(rec)
  BY DEF rec
<1>7. QED
  BY <1>1, <1>4, <1>5, <1>6 DEF JournalRecord

\* The intent _plan_rotation_locked builds from a coherent cache is legal.
LEMMA IntentRecord ==
  ASSUME TypeOK, JournalInv, NEW p \in Proc, RotateIntent(p)
  PROVE  JournalRecord(p, "intent")
<1> DEFINE rec == [op |-> "intent", entry |-> RotatePlan(p)]
<1>1. /\ js \in Journal /\ ~js.error /\ ~js.torn /\ js.pending = NoEntry /\ lock = p
      /\ js.torn \in BOOLEAN
  BY DEF TypeOK, JournalInv, JournalValid, JournalPhase, LockExcludes, Locked, Settled, Journal,
         RotateIntent
<1>2. cache[p] \in WriterCache /\ Agrees(p) /\ cache[p].glen > cache[p].start
  BY DEF TypeOK, JournalInv, CacheCoherent, RotateIntent
<1>3. /\ RotatePlan(p).n = Len(js.closed) + 1
      /\ RotatePlan(p).start = NextStart(js.closed)
      /\ RotatePlan(p).gen = NextGen(js.closed)
      /\ RotatePlan(p).end >= RotatePlan(p).start
  BY <1>2 DEF RotatePlan, Agrees, WriterCache
<1>4. Legal(rec)
  BY <1>1, <1>3 DEF Legal
<1>5. RotatePlan(p) # NoEntry
  BY <1>1, <1>3 DEF NoEntry, Journal
<1>6. rec.op = "intent" /\ rec.entry = RotatePlan(p)
  OBVIOUS
<1>7. js' = Journaled(rec)
  BY DEF RotateIntent

<1>8. /\ Journaled(rec).len = js.len + 1
      /\ Journaled(rec).error = FALSE /\ Journaled(rec).torn = FALSE
      /\ Journaled(rec).pending = rec.entry /\ Journaled(rec).arch = js.arch
      /\ Journaled(rec).closed = js.closed
  BY <1>1, <1>4, <1>6 DEF Journaled, Journal
<1>9. QED
  BY <1>1, <1>5, <1>6, <1>7, <1>8 DEF JournalRecord

\* The archive record of the next unarchived segment is legal.
LEMMA ArchiveRecord ==
  ASSUME TypeOK, JournalInv, NEW p \in Proc, ApplyCommit(p)
  PROVE  JournalRecord(p, "archive")
<1> DEFINE rec == [op |-> "archive", entry |-> js.closed[ap[p].seg]]
<1>1. /\ js \in Journal /\ ~js.error /\ ~js.torn /\ js.pending = NoEntry /\ lock = p
      /\ js.torn \in BOOLEAN
  BY DEF TypeOK, JournalInv, JournalValid, JournalPhase, LockExcludes, Locked, Settled, Journal,
         ApplyCommit
<1>2. ap[p].seg \in 1..Len(js.closed) /\ js.arch + 1 = ap[p].seg /\ js.arch \in Nat
  BY <1>1 DEF JournalInv, PlannedCommitted, ApplyCommit, Journal
<1>3. Legal(rec)
  BY <1>1, <1>2 DEF Legal
<1>4. rec.op = "archive"
  OBVIOUS
<1>5. js' = Journaled(rec)
  BY DEF ApplyCommit

<1>6. /\ Journaled(rec).len = js.len + 1
      /\ Journaled(rec).error = FALSE /\ Journaled(rec).torn = FALSE
      /\ Journaled(rec).pending = js.pending /\ Journaled(rec).arch = js.arch + 1
      /\ Journaled(rec).closed = js.closed
  BY <1>1, <1>3, <1>4 DEF Journaled, Journal
<1>7. QED
  BY <1>1, <1>2, <1>5, <1>6 DEF JournalRecord

\* What a step of p leaves alone: the others' control and caches; and all it may do
\* to the journal, the torn flag aside, is to append one record under the lock.
Frame(p) ==
  /\ \A q \in Proc \ {p} : /\ pc'[q] = pc[q] /\ goal'[q] = goal[q]
                           /\ cache'[q] = cache[q] /\ ap'[q] = ap[q]
  /\ js' = js \/ lock = p
  /\ ~js'.error /\ js'.arch <= Len(js'.closed)
  /\ \/ js'.len = js.len /\ js'.closed = js.closed /\ js'.pending = js.pending
     \/ js'.len = js.len + 1 /\ Len(js'.closed) >= Len(js.closed)
  /\ \/ js'.arch = js.arch
     \/ js'.arch = js.arch + 1 /\ ApplyCommit(p)

\* What a step of p does to the journal: nothing, one legal record, a torn line
\* or the removal of one; it never shrinks and its committed part only grows.
LEMMA FrameStep ==
  ASSUME TypeOK, JournalInv, NEW p \in Proc,
         \/ \E g \in Ops : Acquire(p, g)
         \/ ApplyStart(p) \/ Step(p) \/ Restart(p) \/ Crash(p)
  PROVE  Frame(p)
<1> USE DEF Goto
<1>t. /\ pc \in [Proc -> Label] /\ goal \in [Proc -> Goal]
      /\ cache \in [Proc -> WriterCache] /\ ap \in [Proc -> ApplyLocals]
      /\ js.len \in Nat /\ Len(js.closed) \in Nat /\ ~js.error
      /\ js.arch \in Nat /\ js.arch <= Len(js.closed)
  BY DEF TypeOK, Journal, JournalInv, JournalValid
<1>j. ASSUME js' = js PROVE Frame(p)!2 /\ Frame(p)!3 /\ Frame(p)!4 /\ Frame(p)!5
  BY <1>j, <1>t
<1>r. ASSUME NEW op \in {"intent", "commit", "abort", "archive"}, JournalRecord(p, op),
             op = "archive" => ApplyCommit(p)
      PROVE  Frame(p)!2 /\ Frame(p)!3 /\ Frame(p)!4 /\ Frame(p)!5
  BY <1>r, <1>t DEF JournalRecord
<1>x. ASSUME NEW b \in BOOLEAN, js' = [js EXCEPT !.torn = b], pc[p] \in Locked
      PROVE  Frame(p)!2 /\ Frame(p)!3 /\ Frame(p)!4 /\ Frame(p)!5
  BY <1>x, <1>t DEF TypeOK, Journal, JournalInv, LockExcludes
<1>1. CASE \E g \in Ops : Acquire(p, g)
  BY <1>1, <1>t, <1>j DEF Frame, disk, Acquire, Ops
<1>2. CASE ApplyStart(p)
  BY <1>2, <1>t, <1>j DEF Frame, disk, ApplyStart
<1>3. CASE EnsureFresh(p)
  BY <1>3, <1>t, <1>j DEF Frame, disk, EnsureFresh, AfterFresh, Fail, Unlock, Stay
<1>4. CASE ReconcileTornTail(p)
  BY <1>4, <1>t, <1>x DEF Frame, ReconcileTornTail, Locked
<1>5. CASE ReconcileUnlinkTmp(p)
  BY <1>5, <1>t, <1>j DEF Frame, disk, ReconcileUnlinkTmp
<1>6. CASE ReconcileAbort(p)
  BY <1>6, EndsRotation, <1>t, <1>r DEF ReconcileAbort, InRotation, Frame
<1>7. CASE ReconcileForward(p)
  BY <1>7, <1>t, <1>j DEF Frame, disk, ReconcileForward
<1>8. CASE ReconcileInstall(p)
  BY <1>8, <1>t, <1>j DEF Frame, disk, ReconcileInstall, Install
<1>9. CASE ReconcileCommit(p)
  BY <1>9, EndsRotation, <1>t, <1>r DEF ReconcileCommit, InRotation, Frame
<1>10. CASE ReconcileEnd(p)
  BY <1>10, <1>t, <1>j DEF Frame, disk, ReconcileEnd, AfterFresh, Unlock, Stay
<1>11. CASE WriteBegin(p)
  BY <1>11, <1>t, <1>j DEF Frame, disk, WriteBegin
<1>12. CASE WriteEnd(p)
  BY <1>12, <1>t, <1>j DEF Frame, disk, WriteEnd, Unlock, Stay
<1>13. CASE RotateIntent(p)
  BY <1>13, IntentRecord, <1>t, <1>r DEF Frame, RotateIntent
<1>14. CASE RotateRefused(p)
  BY <1>14, <1>t, <1>j DEF Frame, disk, RotateRefused, Unlock
<1>15. CASE RotateTmp(p)
  BY <1>15, <1>t, <1>j DEF Frame, disk, RotateTmp
<1>16. CASE RotateRename(p)
  BY <1>16, <1>t, <1>j DEF Frame, disk, RotateRename
<1>17. CASE RotateRenameRefused(p)
  BY <1>17, EndsRotation, <1>t, <1>r DEF RotateRenameRefused, InRotation, Frame
<1>18. CASE RotateAborted(p)
  BY <1>18, <1>t, <1>j DEF Frame, disk, RotateAborted, Unlock
<1>19. CASE RotateInstall(p)
  BY <1>19, <1>t, <1>j DEF Frame, disk, RotateInstall, Install
<1>20. CASE RotateCommit(p)
  BY <1>20, EndsRotation, <1>t, <1>r DEF RotateCommit, InRotation, Frame, Unlock
<1>21. CASE PlaceHold(p)
  BY <1>21, <1>t, <1>j DEF Frame, disk, PlaceHold, Unlock, Stay
<1>22. CASE ReleaseHold(p)
  BY <1>22, <1>t, <1>j DEF Frame, disk, ReleaseHold, Unlock, Stay
<1>23. CASE ReleaseUnlink(p)
  BY <1>23, <1>t, <1>j DEF Frame, disk, ReleaseUnlink, Unlock
<1>24. CASE ApplyCompleteMoves(p)
  BY <1>24, <1>t, <1>j DEF Frame, disk, ApplyCompleteMoves, Move
<1>25. CASE ApplyPlan(p)
  BY <1>25, <1>t, <1>j DEF Frame, disk, ApplyPlan
<1>26. CASE ApplySidecar(p)
  BY <1>26, <1>t, <1>j DEF Frame, disk, ApplySidecar
<1>27. CASE ApplyLock(p)
  BY <1>27, <1>t, <1>j DEF Frame, disk, ApplyLock
<1>28. CASE ApplyBusy(p)
  BY <1>28, <1>t, <1>j DEF Frame, disk, ApplyBusy
<1>29. CASE ApplyHeld(p)
  BY <1>29, <1>t, <1>j DEF Frame, disk, ApplyHeld, Unlock
<1>30. CASE ApplyReplan(p)
  BY <1>30, <1>t, <1>j DEF Frame, disk, ApplyReplan, Unlock
<1>31. CASE ApplyCommit(p)
  BY <1>31, ArchiveRecord, <1>t, <1>r DEF Frame, ApplyCommit, Unlock
<1>32. CASE ApplyMove(p)
  BY <1>32, <1>t, <1>j DEF Frame, disk, ApplyMove, Move
<1>33. CASE ApplyEnd(p)
  BY <1>33, <1>t, <1>j DEF Frame, disk, ApplyEnd
<1>34. CASE StartReconcile(p)
  BY <1>34, <1>t, <1>j DEF Frame, disk, StartReconcile
<1>35. CASE Restart(p)
  BY <1>35, <1>t, <1>j DEF Frame, disk, Restart
<1>36. CASE Crash(p)
  BY <1>36, <1>t, <1>j, <1>x DEF Frame, Crash, TearJournal, Locked, Settled, InRotation, TearTmp, TearLine,
    disk
<1>37. QED
  BY <1>1, <1>2, <1>3, <1>4, <1>5, <1>6, <1>7, <1>8, <1>9, <1>10, <1>11, <1>12, <1>13, <1>14, <1>15, <1>16, <1>17, <1>18, <1>19, <1>20, <1>21, <1>22, <1>23, <1>24, <1>25, <1>26, <1>27, <1>28, <1>29, <1>30, <1>31, <1>32, <1>33, <1>34, <1>35, <1>36 DEF Step, Reconcile, Rotate, Apply

\* What the acting process knows of the journal stays true.
OwnInv(p) == JournalPhase(p) /\ CacheCoherent(p) /\ PlannedCommitted(p)

\* A step of p keeps what the invariant says of p.
LEMMA OwnStep ==
  ASSUME TypeOK, TypeOK', JournalInv, NEW p \in Proc,
         \/ \E g \in Ops : Acquire(p, g)
         \/ ApplyStart(p) \/ Step(p) \/ Restart(p) \/ Crash(p)
  PROVE  OwnInv(p)'
<1> USE DEF Goto, OwnInv, JournalPhase, CacheCoherent, PlannedCommitted, Settled, InRotation
<1>t. /\ pc \in [Proc -> Label] /\ goal \in [Proc -> Goal]
      /\ cache \in [Proc -> WriterCache] /\ ap \in [Proc -> ApplyLocals]
      /\ cache[p] \in WriterCache /\ cache'[p] \in WriterCache
      /\ js.len \in Nat /\ Len(js.closed) \in Nat /\ js.arch \in Nat
      /\ js.torn \in BOOLEAN /\ ~js.error /\ js.arch <= Len(js.closed)
  BY DEF TypeOK, Journal, JournalInv, JournalValid
<1>i. OwnInv(p)
  BY DEF JournalInv
<1>w. cache[p].start \in Nat /\ cache[p].glen \in Nat /\ cache[p].key.jlen \in Nat
      /\ cache[p].pending \in BOOLEAN /\ cache[p].key \in Key
  BY <1>t DEF WriterCache, Key
<1>s. RecoveredSound
  BY RecoveredIsSound DEF TypeOK, DiskTypeOK
<1>n. RecoveredSound'
  BY RecoveredIsSoundNext DEF TypeOK, DiskTypeOK
<1>1. CASE \E g \in Ops : Acquire(p, g)
  BY <1>1, <1>t, <1>i, <1>w DEF disk, Acquire, Ops, Agrees
<1>2. CASE ApplyStart(p)
  BY <1>2, <1>t, <1>i, <1>w DEF disk, ApplyStart, NoApply, Agrees
<1>3. CASE EnsureFresh(p)
  BY <1>3, <1>t, <1>i, <1>w, <1>s DEF disk, EnsureFresh, AfterFresh, Fail, Unlock, Stay, RecoveredSound, DiskKey, Agrees
<1>4. CASE ReconcileTornTail(p)
  BY <1>4, <1>t, <1>i, <1>w DEF disk, ReconcileTornTail, Agrees
<1>5. CASE ReconcileUnlinkTmp(p)
  BY <1>5, <1>t, <1>i, <1>w DEF disk, ReconcileUnlinkTmp, Agrees
<1>6. CASE ReconcileAbort(p)
  <2>1. JournalRecord(p, "abort")
    BY <1>6, EndsRotation DEF ReconcileAbort, InRotation
  <2>2. QED
    BY <1>6, <1>t, <1>i, <1>w, <2>1 DEF JournalRecord, ReconcileAbort, Agrees
<1>7. CASE ReconcileForward(p)
  BY <1>7, <1>t, <1>i, <1>w DEF disk, ReconcileForward, Renamed, Agrees
<1>8. CASE ReconcileInstall(p)
  BY <1>8, <1>t, <1>i, <1>w DEF disk, ReconcileInstall, Install, Agrees
<1>9. CASE ReconcileCommit(p)
  <2>1. JournalRecord(p, "commit")
    BY <1>9, EndsRotation DEF ReconcileCommit, InRotation
  <2>2. QED
    BY <1>9, <1>t, <1>i, <1>w, <2>1 DEF JournalRecord, ReconcileCommit, Agrees
<1>10. CASE ReconcileEnd(p)
  BY <1>10, <1>t, <1>i, <1>w, <1>s DEF disk, ReconcileEnd, AfterFresh, Unlock, Stay, RecoveredSound, DiskKey, Agrees
<1>11. CASE WriteBegin(p)
  BY <1>11, <1>t, <1>i, <1>w DEF disk, WriteBegin, Agrees
<1>12. CASE WriteEnd(p)
  BY <1>12, <1>t, <1>i, <1>w DEF disk, WriteEnd, Unlock, Stay, Key, Agrees
<1>13. CASE RotateIntent(p)
  <2>1. JournalRecord(p, "intent")
    BY <1>13, IntentRecord
  <2>2. QED
    BY <1>13, <1>t, <1>i, <1>w, <2>1 DEF JournalRecord, RotateIntent, Agrees
<1>14. CASE RotateRefused(p)
  BY <1>14, <1>t, <1>i, <1>w DEF disk, RotateRefused, Unlock, Agrees
<1>15. CASE RotateTmp(p)
  BY <1>15, <1>t, <1>i, <1>w DEF disk, RotateTmp, Agrees
<1>16. CASE RotateRename(p)
  BY <1>16, <1>t, <1>i, <1>w DEF disk, RotateRename, Agrees
<1>17. CASE RotateRenameRefused(p)
  <2>1. JournalRecord(p, "abort")
    BY <1>17, EndsRotation DEF RotateRenameRefused, InRotation
  <2>2. QED
    BY <1>17, <1>t, <1>i, <1>w, <2>1 DEF JournalRecord, RotateRenameRefused, Agrees
<1>18. CASE RotateAborted(p)
  BY <1>18, <1>t, <1>i, <1>w DEF disk, RotateAborted, Unlock, DiskKey, Agrees
<1>19. CASE RotateInstall(p)
  BY <1>19, <1>t, <1>i, <1>w DEF disk, RotateInstall, Install, Agrees
<1>20. CASE RotateCommit(p)
  <2>1. JournalRecord(p, "commit")
    BY <1>20, EndsRotation DEF RotateCommit, InRotation
  <2>2. QED
    BY <1>20, <1>t, <1>i, <1>w, <1>n, <2>1 DEF JournalRecord, RotateCommit, Unlock, RecoveredSound, Agrees
<1>21. CASE PlaceHold(p)
  BY <1>21, <1>t, <1>i, <1>w DEF disk, PlaceHold, Unlock, Stay, Agrees
<1>22. CASE ReleaseHold(p)
  BY <1>22, <1>t, <1>i, <1>w DEF disk, ReleaseHold, Unlock, Stay, Agrees
<1>23. CASE ReleaseUnlink(p)
  BY <1>23, <1>t, <1>i, <1>w DEF disk, ReleaseUnlink, Unlock, Agrees
<1>24. CASE ApplyCompleteMoves(p)
  <2>1. ap'[p].seg = ap[p].seg
    <3>1. CASE PendingMoves # {} /\ ~LiveVerifyOK
      BY <1>24, <3>1 DEF ApplyCompleteMoves
    <3>2. CASE ~(PendingMoves # {} /\ ~LiveVerifyOK)
      <4>1. PICK S \in SUBSET PendingMoves :
              ap' = [ap EXCEPT ![p].did = S # {}, ![p].verified = PendingMoves # {},
                               ![p].ev = IF PendingMoves # {} THEN Evidenced ELSE {}]
        BY <1>24, <3>2 DEF ApplyCompleteMoves
      <4>2. QED
        BY <4>1, <1>t DEF ApplyLocals
    <3>3. QED
      BY <3>1, <3>2
  <2>2. /\ UNCHANGED <<js, goal, cache>> /\ pc'[p] \in {"a_end", "a_plan"} /\ pc[p] = "a_moves"
    BY <1>24, <1>t DEF disk, ApplyCompleteMoves, Move
  <2>3. QED
    BY <2>1, <2>2, <1>t, <1>i DEF Agrees
<1>25. CASE ApplyPlan(p)
  BY <1>25, <1>t, <1>i DEF ApplyPlan, ApplyLocals, disk, Agrees
<1>26. CASE ApplySidecar(p)
  BY <1>26, <1>t, <1>i DEF ApplySidecar, ApplyLocals, disk, Agrees
<1>27. CASE ApplyLock(p)
  BY <1>27, <1>t, <1>i, <1>w DEF disk, ApplyLock, Agrees
<1>28. CASE ApplyBusy(p)
  BY <1>28, <1>t, <1>i, <1>w DEF disk, ApplyBusy, Agrees
<1>29. CASE ApplyHeld(p)
  BY <1>29, <1>t, <1>i, <1>w DEF disk, ApplyHeld, Unlock, Agrees
<1>30. CASE ApplyReplan(p)
  BY <1>30, <1>t, <1>i, <1>w DEF disk, ApplyReplan, Unlock, Agrees
<1>31. CASE ApplyCommit(p)
  <2>1. JournalRecord(p, "archive")
    BY <1>31, ArchiveRecord
  <2>2. QED
    BY <1>31, <1>t, <1>i, <1>w, <1>n, <2>1 DEF JournalRecord, ApplyCommit, Unlock, RecoveredSound, Agrees
<1>32. CASE ApplyMove(p)
  BY <1>32, <1>t, <1>i, <1>w DEF disk, ApplyMove, Move, Agrees
<1>33. CASE ApplyEnd(p)
  BY <1>33, <1>t, <1>i, <1>w DEF disk, ApplyEnd, Agrees
<1>34. CASE StartReconcile(p)
  BY <1>34, <1>t, <1>i, <1>w, <1>s DEF disk, StartReconcile, RecoveredSound, DiskKey, Agrees
<1>35. CASE Restart(p)
  BY <1>35, <1>t, <1>i, <1>w, <1>s DEF disk, Restart, RecoveredSound, DiskKey, Agrees
<1>36. CASE Crash(p)
  BY <1>36, <1>t DEF TypeOK, Journal, disk, Crash, TearJournal, TearTmp, TearLine, NoCache
<1>37. QED
  BY <1>1, <1>2, <1>3, <1>4, <1>5, <1>6, <1>7, <1>8, <1>9, <1>10, <1>11, <1>12, <1>13, <1>14, <1>15, <1>16, <1>17, <1>18, <1>19, <1>20, <1>21, <1>22, <1>23, <1>24, <1>25, <1>26, <1>27, <1>28, <1>29, <1>30, <1>31, <1>32, <1>33, <1>34, <1>35, <1>36 DEF Step, Reconcile, Rotate, Apply

\* What any other process knows of the journal is not disturbed by a step of p.
LEMMA OthersStep ==
  ASSUME TypeOK, JournalInv, NEW p \in Proc, Frame(p), NEW q \in Proc, q # p
  PROVE  OwnInv(q)'
<1>1. js.len \in Nat /\ Len(js.closed) \in Nat
  BY DEF TypeOK, Journal
<1>2. Len(js'.closed) >= Len(js.closed)
  BY <1>1 DEF Frame
<1>3. cache[q] \in WriterCache /\ ap[q] \in ApplyLocals
  BY DEF TypeOK
<1>4. cache[q].key \in Key
  BY <1>3 DEF WriterCache
<1>t. /\ js.len \in Nat /\ Len(js.closed) \in Nat /\ Len(js'.closed) >= Len(js.closed)
      /\ cache[q].key.jlen \in Nat /\ ap[q].seg \in Nat
  BY <1>1, <1>2, <1>3, <1>4 DEF Key, ApplyLocals
<1>q. /\ pc'[q] = pc[q] /\ goal'[q] = goal[q] /\ cache'[q] = cache[q] /\ ap'[q] = ap[q]
      /\ OwnInv(q)
  BY DEF Frame, JournalInv, OwnInv
<1>l. pc[q] \in Settled \union InRotation => js' = js
  BY DEF Frame, JournalInv, LockExcludes, Locked
<1>5. JournalPhase(q)'
  BY <1>q, <1>l DEF OwnInv, JournalPhase
<1>6. CacheCoherent(q)'
  BY <1>q, <1>l, <1>t DEF OwnInv, CacheCoherent, Agrees, Frame, Settled, InRotation
<1>7. PlannedCommitted(q)'
  BY <1>q, <1>t, <1>2 DEF OwnInv, PlannedCommitted
<1>8. QED
  BY <1>5, <1>6, <1>7 DEF OwnInv

\* Every step preserves the journal invariant.
LEMMA JournalStep == TypeOK /\ TypeOK' /\ JournalInv /\ [Next]_vars => JournalInv'
<1> SUFFICES ASSUME TypeOK, TypeOK', JournalInv, [Next]_vars
             PROVE  JournalInv'
  OBVIOUS
<1>l. LockExcludes'
  BY LockStep DEF JournalInv
<1>1. ASSUME NEW p \in Proc,
             \/ \E g \in Ops : Acquire(p, g)
             \/ ApplyStart(p) \/ Step(p) \/ Restart(p) \/ Crash(p)
      PROVE  JournalInv'
  BY <1>1, FrameStep, OwnStep, OthersStep, <1>l DEF JournalInv, JournalValid, Frame, OwnInv
<1>2. CASE UNCHANGED vars
  BY <1>2 DEF vars, disk, JournalInv, JournalValid, LockExcludes, JournalPhase, CacheCoherent,
              Agrees, PlannedCommitted
<1>3. QED
  BY <1>1, <1>2 DEF Next

\* The journal and every writer's view of it stay sound, for any number of
\* processes, segments, events and kills.
THEOREM JournalSound == Spec => []JournalInv
<1>1. Init => JournalInv
  BY JournalInit
<1>2. TypeOK /\ TypeOK' /\ JournalInv /\ [Next]_vars => JournalInv'
  BY JournalStep
<1>3. QED
  BY <1>1, <1>2, TypeCorrect, PTL DEF Spec

\* No interleaving of writers, rotations, archivals and kills leaves a journal
\* that parse_journal refuses.
THEOREM JournalAlwaysValid == Spec => []JournalValid
<1>1. JournalInv => JournalValid
  BY DEF JournalInv
<1>2. QED
  BY <1>1, JournalSound, PTL

\* Only retention apply moves files into the archive, and only files whose archival
\* the journal already records.
LEMMA ArchiveSteps ==
  ASSUME NEW p \in Proc,
         \/ \E g \in Ops : Acquire(p, g)
         \/ ApplyStart(p) \/ Step(p) \/ Restart(p) \/ Crash(p)
  PROVE  archive' = archive \/ \E S \in SUBSET PendingMoves : Move(S)
<1>1. CASE \/ \E g \in Ops : Acquire(p, g)
           \/ ApplyStart(p) \/ Restart(p) \/ StartReconcile(p)
  BY <1>1 DEF Acquire, ApplyStart, Restart, StartReconcile, disk
<1>2. CASE Reconcile(p)
  BY <1>2 DEF Reconcile, EnsureFresh, ReconcileTornTail, ReconcileUnlinkTmp, ReconcileAbort,
              ReconcileForward, ReconcileInstall, Install, ReconcileCommit, ReconcileEnd, disk
<1>3. CASE Rotate(p)
  BY <1>3 DEF Rotate, RotateIntent, RotateRefused, RotateTmp, RotateRename,
              RotateRenameRefused, RotateAborted, RotateInstall, Install, RotateCommit, disk
<1>4. CASE \/ WriteBegin(p) \/ WriteEnd(p)
           \/ PlaceHold(p) \/ ReleaseHold(p) \/ ReleaseUnlink(p)
  BY <1>4 DEF WriteBegin, WriteEnd, PlaceHold, ReleaseHold, ReleaseUnlink, disk
<1>5. CASE ApplyCompleteMoves(p)
  BY <1>5 DEF ApplyCompleteMoves, disk
<1>6. CASE ApplyMove(p)
  BY <1>6 DEF ApplyMove
<1>7. CASE \/ ApplyPlan(p) \/ ApplySidecar(p) \/ ApplyLock(p) \/ ApplyBusy(p) \/ ApplyHeld(p)
           \/ ApplyReplan(p) \/ ApplyCommit(p) \/ ApplyEnd(p)
  BY <1>7 DEF ApplyPlan, ApplySidecar, ApplyLock, ApplyBusy, ApplyHeld, ApplyReplan,
              ApplyCommit, ApplyEnd, disk
<1>8. CASE Crash(p)
  BY <1>8 DEF Crash, TearJournal, TearTmp, TearLine, disk
<1>9. QED
  BY <1>1, <1>2, <1>3, <1>4, <1>5, <1>6, <1>7, <1>8 DEF Step, Apply

\* A file is in the archive directory only if the journal says it is archived.
THEOREM ArchiveCommitted == Spec => []MoveAfterCommit
<1>1. Init => MoveAfterCommit
  BY DEF Init, MoveAfterCommit
<1>2. TypeOK /\ JournalInv /\ MoveAfterCommit /\ [Next]_vars => MoveAfterCommit'
  <2> SUFFICES ASSUME TypeOK, JournalInv, MoveAfterCommit, [Next]_vars
               PROVE  MoveAfterCommit'
    OBVIOUS
  <2>t. js.arch \in Nat /\ Seg \subseteq Nat
    BY DEF TypeOK, Journal, Seg
  <2>1. ASSUME NEW p \in Proc,
               \/ \E g \in Ops : Acquire(p, g)
               \/ ApplyStart(p) \/ Step(p) \/ Restart(p) \/ Crash(p)
        PROVE  MoveAfterCommit'
    <3>1. js'.arch \in Nat /\ js'.arch >= js.arch
      <4>1. Frame(p)
        BY <2>1, FrameStep
      <4>2. QED
        BY <4>1, <2>t DEF Frame
    <3>2. CASE archive' = archive
      BY <3>1, <3>2, <2>t DEF MoveAfterCommit
    <3>3. ASSUME NEW S \in SUBSET PendingMoves, Move(S)
          PROVE  MoveAfterCommit'
      BY <3>1, <3>3, <2>t DEF MoveAfterCommit, Move, PendingMoves
    <3>4. QED
      BY <2>1, <3>2, <3>3, ArchiveSteps
  <2>2. CASE UNCHANGED vars
    BY <2>2 DEF vars, disk, MoveAfterCommit
  <2>3. QED
    BY <2>1, <2>2 DEF Next
<1>3. QED
  BY <1>1, <1>2, TypeCorrect, JournalSound, PTL DEF Spec

\* No step archives a segment while the legal hold is in force.
THEOREM HoldRespected == Spec => HoldStopsArchive
<1>1. TypeOK /\ JournalInv /\ [Next]_vars => [js'.arch # js.arch => ~hold]_vars
  BY FrameStep DEF Next, Frame, ApplyCommit
<1>2. QED
  BY <1>1, TypeCorrect, JournalSound, PTL DEF Spec, HoldStopsArchive

-----------------------------------------------------------------------------
(* The files stay one whole hash chain.                                      *)

\* The last event of the chain on disk.
ChainEnd == IF data = <<>> THEN Genesis ELSE LastId(Len(data))

\* What a step may do to the segment files and the layout.
\* A file is created: empty, or with the one line that continues the chain.
Born(f) ==
  /\ P = 0 /\ P' = Len(data) + 1 /\ data' = Append(data, f)
  /\ f.tail \in {"ok", "bad"}
  /\ \A i \in 1..Len(f.lines) : i = 1 /\ f.lines[i].prev = ChainEnd
  /\ UNCHANGED <<closed, archive, js>>
\* The open file is cut, completed, or extended by a line that continues the chain.
Grown(f) ==
  /\ P # 0 /\ P' = P /\ data' = [data EXCEPT ![P] = f]
  /\ f.tail \in {"ok", "bad"}
  /\ \/ f.lines = data[P].lines
     \/ \E e \in Event : /\ f.lines = Append(data[P].lines, e)
                         /\ e.prev = IF OpenLines = <<>> THEN NextGen(LayoutClosed) ELSE LastId(P)
  /\ UNCHANGED <<closed, archive, js>>
\* The open file gets its closed name.
Closing ==
  /\ RotationReady /\ js.pending # NoEntry
  /\ closed' = [closed EXCEPT ![js.pending.n] = P] /\ P' = 0
  /\ UNCHANGED <<archive, data, js>>
\* The journal speaks, and the layout stays.
Spoken ==
  /\ UNCHANGED <<P, closed, archive, data>>
  /\ LayoutClosed' = LayoutClosed
  /\ js'.arch \in {js.arch, js.arch + 1}
  /\ PendingNext'

\* The layout's list is typed.
LEMMA LayoutOK ==
  ASSUME TypeOK
  PROVE  /\ LayoutClosed \in Seq(Entry) /\ Len(LayoutClosed) \in Nat
         /\ js.closed \in Seq(Entry) /\ Len(js.closed) \in Nat /\ js.arch \in Nat
         /\ js.pending \in Entry /\ js.pending.n \in Nat
         /\ Len(data) \in Nat /\ P \in Nat /\ MaxSeg \in Nat \ {0}
BY LayoutTypes, LedgerAssumption DEF TypeOK, DiskTypeOK, Journal, Entry

\* Journal records that leave the layout alone keep the disk invariant.
LEMMA SpokenStep == ASSUME TypeOK, DiskInv, Spoken PROVE DiskInv'
<1>t. /\ Len(LayoutClosed) \in Nat /\ js.arch \in Nat
      /\ P' = P /\ data' = data /\ closed' = closed /\ archive' = archive
      /\ LayoutClosed' = LayoutClosed
      /\ js'.arch \in Nat /\ js'.arch >= js.arch
  BY LayoutOK DEF Spoken
<1> USE DEF DiskInv
<1>1. ChainIntact'
  BY <1>t DEF ChainIntact, LastId
<1>2. FullChainReadable'
  <2> DEFINE N == Len(LayoutClosed)
  <2>1. ASSUME NEW i \in 1..N, i > js'.arch
        PROVE  archive[i] = 0
    BY <1>t, <2>1 DEF FullChainReadable
  <2>2. ASSUME NEW i \in 1..N
        PROVE  /\ LayoutClosed[i].n = i
               /\ (closed[i] = i) # (archive[i] = i)
               /\ Len(data[i].lines) = LayoutClosed[i].end - LayoutClosed[i].start + 1
               /\ LastId(i) = LayoutClosed[i].head
    BY DEF FullChainReadable
  <2>3. /\ P \in {0, N + 1}
        /\ P = 0 => Len(data) = N
        /\ P # 0 => Len(data) = P
    BY DEF FullChainReadable
  <2>4. \A i \in 1..N : LastId(i)' = LastId(i)
    BY <1>t DEF LastId
  <2>5. QED
    BY <1>t, <2>1, <2>2, <2>3, <2>4 DEF FullChainReadable
<1>3. TailsClean' /\ NamesMatch' /\ LayoutFits'
  BY <1>t DEF TailsClean, NamesMatch, LayoutFits
<1>4. PendingNext'
  BY DEF Spoken
<1>5. QED
  BY <1>1, <1>2, <1>3, <1>4

\* Moving committed, archived files keeps it.
LEMMA MoveStep ==
  ASSUME TypeOK, JournalInv, DiskInv, NEW S \in SUBSET PendingMoves, Move(S)
  PROVE  DiskInv' /\ LayoutClosed' = LayoutClosed /\ Renamed' = Renamed
<1> USE DEF DiskInv
<1>t. /\ Len(LayoutClosed) \in Nat /\ js.arch \in Nat /\ js.arch <= Len(js.closed)
      /\ P' = P /\ data' = data /\ js' = js
      /\ \A n \in Seg : n \in Nat /\ n <= MaxSeg
      /\ MaxSeg \in Nat
  BY LayoutOK DEF Move, JournalInv, Seg
<1>s. \A n \in S : n \in 1..js.arch /\ closed[n] # 0
  BY DEF PendingMoves
<1>m. /\ \A n \in Seg : archive'[n] = IF n \in S THEN closed[n] ELSE archive[n]
      /\ \A n \in Seg : closed'[n] = IF n \in S THEN 0 ELSE closed[n]
  BY DEF Move
<1>r. Renamed' = Renamed
  <2>1. CASE js.pending = NoEntry
    BY <2>1, <1>t DEF Renamed
  <2>2. CASE js.pending # NoEntry
    BY <2>2, <1>t, <1>s, LayoutOK, <1>m DEF PendingNext, Seg, Renamed
  <2>3. QED
    BY <2>1, <2>2
<1>l. LayoutClosed' = LayoutClosed
  BY <1>r, <1>t DEF LayoutClosed
<1>1. ChainIntact' /\ TailsClean' /\ PendingNext' /\ LayoutFits'
  BY <1>t, <1>l DEF ChainIntact, LastId, TailsClean, PendingNext, LayoutFits
<1>2. FullChainReadable'
  <2>1. ASSUME NEW i \in 1..Len(LayoutClosed)
        PROVE  /\ (closed'[i] = i) # (archive'[i] = i)
               /\ i > js.arch => archive'[i] = 0
    BY <1>t, <1>s, <1>m DEF LayoutFits, Seg, FullChainReadable, NamesMatch
  <2>2. QED
    BY <2>1, <1>t, <1>l DEF FullChainReadable, LastId
<1>3. NamesMatch'
  BY <1>m, <1>s, <1>l DEF NamesMatch
<1>4. QED
  BY <1>1, <1>2, <1>3, <1>r, <1>l

\* The layout's last entry says where the chain of closed segments ends.
LEMMA LayoutEnd ==
  ASSUME TypeOK, FullChainReadable
  PROVE  NextGen(LayoutClosed) = IF Len(LayoutClosed) > 0 THEN LastId(Len(LayoutClosed))
                                                          ELSE Genesis
BY LayoutOK DEF FullChainReadable, NextGen

\* The rename of a rotation keeps the chain: the closed file is the pending entry's.
LEMMA ClosingStep ==
  ASSUME TypeOK, DiskInv, Closing
  PROVE  DiskInv' /\ LayoutClosed' = Append(js.closed, js.pending) /\ Renamed'
<1> USE DEF DiskInv
<1> DEFINE n == js.pending.n
<1>t. /\ js.closed \in Seq(Entry) /\ Len(js.closed) \in Nat /\ n \in Nat
      /\ Len(data) \in Nat /\ P \in Nat /\ MaxSeg \in Nat \ {0}
      /\ P' = 0 /\ data' = data /\ js' = js /\ archive' = archive
  BY LayoutOK DEF Closing
<1>l. LayoutClosed = js.closed
  BY DEF LayoutClosed, Closing, RotationReady
<1>n. n = Len(js.closed) + 1 /\ n < MaxSeg /\ n \in Seg
  BY <1>t DEF PendingNext, Closing, Seg
<1>p. P = n /\ Len(data) = P /\ P # 0
  BY <1>l, <1>n DEF FullChainReadable, Closing, RotationReady
<1>c. closed'[n] = n /\ \A m \in Seg \ {n} : closed'[m] = closed[m]
  BY <1>n, <1>p DEF Closing, TypeOK
<1>r. Renamed'
  BY <1>c, <1>p, <1>t DEF Renamed, Closing
<1>a. LayoutClosed' = Append(js.closed, js.pending)
  BY <1>r, <1>t DEF LayoutClosed
<1>e. /\ Len(LayoutClosed') = n
      /\ \A i \in 1..n : LayoutClosed'[i] = IF i = n THEN js.pending ELSE js.closed[i]
  BY <1>a, <1>t, <1>n
<1>1. ChainIntact' /\ TailsClean' /\ PendingNext' /\ LayoutFits'
  BY <1>t, <1>e, <1>n DEF ChainIntact, LastId, TailsClean, PendingNext, LayoutFits
<1>2. NamesMatch'
  <2>1. ASSUME NEW m \in Seg
        PROVE  /\ closed'[m] \in {0, m} /\ archive'[m] \in {0, m}
               /\ closed'[m] # 0 \/ archive'[m] # 0 => m <= n
    <3>1. m \in Nat
      BY DEF Seg
    <3>2. QED
      BY <3>1, <1>c, <1>n, <1>t, <1>l DEF NamesMatch
  <2>2. QED
    BY <2>1, <1>e DEF NamesMatch
<1>3. FullChainReadable'
  <2>1. ASSUME NEW i \in 1..n
        PROVE  /\ LayoutClosed'[i].n = i
               /\ (closed'[i] = i) # (archive'[i] = i)
               /\ i > js.arch => archive'[i] = 0
               /\ Len(data[i].lines) = LayoutClosed'[i].end - LayoutClosed'[i].start + 1
               /\ LastId(i) = LayoutClosed'[i].head
    <3>1. CASE i = n
      BY <1>n, <1>l, <1>t, <1>p, <3>1, <1>c, <1>e DEF NamesMatch, Closing, RotationReady, OpenLines
    <3>2. CASE i # n
      BY <3>2, <1>n, <1>t, <1>l, <1>c, <1>e DEF Seg, FullChainReadable
    <3>3. QED
      BY <3>1, <3>2
  <2>2. \A i \in 1..n : LastId(i)' = LastId(i)
    BY <1>t DEF LastId
  <2>3. QED
    BY <2>1, <2>2, <1>e, <1>t, <1>p DEF FullChainReadable
<1>4. QED
  BY <1>1, <1>2, <1>3, <1>a, <1>r

\* A new segment file that continues the chain keeps it.
LEMMA BornStep ==
  ASSUME TypeOK, DiskInv, NEW f, Born(f)
  PROVE  DiskInv' /\ LayoutClosed' = LayoutClosed /\ Renamed' = Renamed
<1> USE DEF DiskInv
<1>t. /\ Len(data) \in Nat /\ P' = Len(data) + 1 /\ data' = Append(data, f)
      /\ closed' = closed /\ archive' = archive /\ js' = js /\ data \in Seq(SegmentFile)
      /\ Len(LayoutClosed) \in Nat
  BY LayoutOK DEF Born, TypeOK
<1>l. LayoutClosed' = LayoutClosed /\ Renamed' = Renamed
  BY <1>t DEF LayoutClosed, Renamed
<1>d. /\ Len(data') = Len(data) + 1 /\ data'[Len(data) + 1] = f
      /\ \A k \in 1..Len(data) : data'[k] = data[k]
  BY <1>t
<1>e. Len(data) = Len(LayoutClosed)
  BY DEF FullChainReadable, Born
<1>i. \A k \in 1..Len(data) : LastId(k)' = LastId(k)
  BY <1>d DEF LastId
<1>1. ChainIntact'
  <2>1. ASSUME NEW k \in 1..Len(data'), NEW i \in 1..Len(data'[k].lines)
        PROVE  data'[k].lines[i].prev = IF i > 1 THEN data'[k].lines[i - 1].id
                                        ELSE IF k > 1 THEN LastId(k - 1)' ELSE Genesis
    <3>1. CASE k \in 1..Len(data)
      BY <3>1, <1>t, <1>d, <1>i DEF ChainIntact
    <3>2. CASE k = Len(data) + 1
      BY <3>2, <1>d, <1>t, <1>i DEF Born, ChainEnd
    <3>3. QED
      BY <3>1, <3>2, <1>d, <1>t
  <2>2. QED
    BY <2>1 DEF ChainIntact
<1>2. TailsClean'
  BY <1>d, <1>t DEF TailsClean, Born
<1>3. NamesMatch' /\ PendingNext' /\ LayoutFits'
  BY <1>t, <1>l DEF NamesMatch, PendingNext, LayoutFits
<1>4. FullChainReadable'
  BY <1>d, <1>i, <1>e, <1>t, <1>l DEF FullChainReadable
<1>5. QED
  BY <1>1, <1>2, <1>3, <1>4, <1>l

\* Cutting or extending the open file at its end keeps the chain.
LEMMA GrownStep ==
  ASSUME TypeOK, DiskInv, NEW f, Grown(f)
  PROVE  DiskInv' /\ LayoutClosed' = LayoutClosed /\ Renamed' = Renamed
<1> USE DEF DiskInv
<1>t. /\ Len(data) \in Nat /\ P \in Nat /\ P' = P /\ data' = [data EXCEPT ![P] = f]
      /\ closed' = closed /\ archive' = archive /\ js' = js /\ data \in Seq(SegmentFile)
      /\ LayoutClosed \in Seq(Entry) /\ Len(LayoutClosed) \in Nat
  BY LayoutOK DEF Grown, TypeOK
<1>l. LayoutClosed' = LayoutClosed /\ Renamed' = Renamed
  BY <1>t DEF LayoutClosed, Renamed
<1>p. P = Len(LayoutClosed) + 1 /\ P = Len(data) /\ P \in 1..Len(data)
  BY <1>t DEF FullChainReadable, Grown
<1>d. /\ Len(data') = Len(data) /\ data'[P] = f
      /\ \A k \in 1..Len(data) : k # P => data'[k] = data[k]
  BY <1>t, <1>p
<1>i. \A k \in 1..Len(data) : k # P => LastId(k)' = LastId(k)
  BY <1>d DEF LastId
<1>n. /\ P \in Nat /\ Len(data) \in Nat /\ Len(LayoutClosed) \in Nat
      /\ P = Len(data) /\ P = Len(LayoutClosed) + 1 /\ P # 0
  BY <1>t, <1>p
<1>f. data[P].lines \in Seq(Event) /\ OpenLines = data[P].lines
  <2>1. data[P] \in SegmentFile
    BY <1>p, <1>t
  <2>2. QED
    BY <2>1, <1>n DEF SegmentFile, OpenLines
<1>1. ChainIntact'
  <2>1. ASSUME NEW k \in 1..Len(data'), NEW i \in 1..Len(data'[k].lines)
        PROVE  data'[k].lines[i].prev = IF i > 1 THEN data'[k].lines[i - 1].id
                                        ELSE IF k > 1 THEN LastId(k - 1)' ELSE Genesis
    <3>0. k > 1 => k - 1 \in 1..Len(data) /\ k - 1 # P /\ LastId(k - 1)' = LastId(k - 1)
      BY <1>d, <1>n, <1>i
    <3>1. CASE k # P
      BY <3>1, <1>d, <3>0 DEF ChainIntact
    <3>2. CASE k = P /\ f.lines = data[P].lines
      BY <3>2, <3>0, <1>d DEF ChainIntact
    <3>3. ASSUME NEW e \in Event, k = P, f.lines = Append(data[P].lines, e),
                 e.prev = IF OpenLines = <<>> THEN NextGen(LayoutClosed) ELSE LastId(P)
          PROVE  data'[k].lines[i].prev = IF i > 1 THEN data'[k].lines[i - 1].id
                                          ELSE IF k > 1 THEN LastId(k - 1)' ELSE Genesis
      <4> DEFINE L == data[P].lines
      <4>1. /\ Len(f.lines) = Len(L) + 1 /\ f.lines[Len(L) + 1] = e /\ Len(L) \in Nat
            /\ \A j \in 1..Len(L) : f.lines[j] = L[j]
        BY <3>3, <1>f
      <4>2. CASE i \in 1..Len(L)
        <5>1. i > 1 => i - 1 \in 1..Len(L)
          BY <4>2, <4>1
        <5>2. f.lines[i] = L[i] /\ (i > 1 => f.lines[i - 1] = L[i - 1])
          BY <5>1, <4>2, <4>1
        <5>3. L[i].prev = IF i > 1 THEN L[i - 1].id ELSE IF k > 1 THEN LastId(k - 1) ELSE Genesis
          BY <4>2, <3>3, <1>d DEF ChainIntact
        <5>4. QED
          BY <5>1, <5>2, <5>3, <3>3, <3>0, <1>d
      <4>3. CASE i = Len(L) + 1
        <5>1. CASE Len(L) = 0
          <6>1. OpenLines = <<>>
            BY <5>1, <1>f
          <6>2. NextGen(LayoutClosed) = IF k > 1 THEN LastId(k - 1) ELSE Genesis
            BY <3>3, <1>p, <1>t, LayoutEnd
          <6>3. QED
            BY <6>1, <6>2, <5>1, <4>1, <4>3, <3>3, <3>0, <1>d
        <5>2. CASE Len(L) # 0
          <6>1. OpenLines # <<>> /\ LastId(P) = L[Len(L)].id
            BY <5>2, <1>f DEF LastId
          <6>2. i > 1 /\ i - 1 = Len(L) /\ Len(L) \in 1..Len(L)
            BY <5>2, <4>1, <4>3
          <6>3. f.lines[i - 1] = L[Len(L)]
            BY <6>2, <4>1
          <6>4. QED
            BY <6>1, <6>2, <6>3, <4>1, <4>3, <3>3, <1>d
        <5>3. QED
          BY <5>1, <5>2
      <4>4. QED
        BY <4>1, <4>2, <4>3, <3>3, <1>d
    <3>4. QED
      BY <3>1, <3>2, <3>3, <1>d DEF Grown
  <2>2. QED
    BY <2>1 DEF ChainIntact
<1>2. TailsClean'
  BY <1>d DEF TailsClean, Grown
<1>3. NamesMatch' /\ PendingNext' /\ LayoutFits'
  BY <1>t, <1>l DEF NamesMatch, PendingNext, LayoutFits
<1>4. FullChainReadable'
  <2>1. \A i \in 1..Len(LayoutClosed) : data'[i] = data[i] /\ LastId(i)' = LastId(i)
    BY <1>d, <1>i, <1>n
  <2>2. ASSUME NEW i \in 1..Len(LayoutClosed)
        PROVE  /\ LayoutClosed[i].n = i
               /\ (closed[i] = i) # (archive[i] = i)
               /\ i > js.arch => archive[i] = 0
               /\ Len(data[i].lines) = LayoutClosed[i].end - LayoutClosed[i].start + 1
               /\ LastId(i) = LayoutClosed[i].head
    BY DEF FullChainReadable
  <2>3. QED
    BY <2>1, <2>2, <1>t, <1>l, <1>d, <1>n DEF FullChainReadable
<1>5. QED
  BY <1>1, <1>2, <1>3, <1>4, <1>l

-----------------------------------------------------------------------------
(* Which of these each step is.                                             *)

DiskEffect ==
  \/ Spoken \/ Closing
  \/ \E S \in SUBSET PendingMoves : Move(S)
  \/ \E f \in SegmentFile : Born(f) \/ Grown(f)

\* Without a pending rotation, or before its rename, the layout is the journal's.
LEMMA LayoutPlain == ~Renamed => LayoutClosed = js.closed
BY DEF LayoutClosed

\* A record that ends a rotation leaves the layout alone.
LEMMA EndsSpoken ==
  ASSUME TypeOK, JournalInv, DiskInv, NEW p \in Proc, NEW op \in {"commit", "abort"},
         JournalRecord(p, op), op = "commit" => Renamed, op = "abort" => ~Renamed,
         UNCHANGED <<P, closed, archive, data>>
  PROVE  Spoken
BY DEF JournalRecord, LayoutClosed, Renamed, Spoken, PendingNext

\* The intent names a free number and describes the open segment.
LEMMA IntentSpoken ==
  ASSUME TypeOK, JournalInv, WholeInv, NEW p \in Proc, RotateIntent(p), goal[p] = "rotate"
  PROVE  /\ Spoken /\ ~Renamed'
         /\ js'.pending = RotatePlan(p) /\ js'.closed = js.closed /\ js'.len = js.len + 1
<1>0. cache[p] \in WriterCache /\ cache[p].glen > cache[p].start
  BY DEF TypeOK, RotateIntent
<1>1. JournalRecord(p, "intent")
  BY IntentRecord
<1>2. /\ js'.pending = RotatePlan(p) /\ js'.closed = js.closed /\ js'.arch = js.arch
      /\ js'.len = js.len + 1
  BY <1>1 DEF JournalRecord
<1>3. js.pending = NoEntry /\ Agrees(p) /\ Len(LayoutClosed) + 1 < MaxSeg
  BY DEF RotateIntent, JournalInv, JournalPhase, CacheCoherent, Settled, WholeInv, WriterInv
<1>4. LayoutClosed = js.closed
  BY <1>3 DEF LayoutClosed, Renamed
<1>5. /\ RotatePlan(p).n = Len(js.closed) + 1
      /\ RotatePlan(p).rot.prev = RotatePlan(p).head
      /\ RotatePlan(p).start <= RotatePlan(p).end
  BY <1>3, <1>0 DEF RotatePlan, Agrees, WriterCache
<1>6. PendingNext'
  BY <1>2, <1>3, <1>4, <1>5 DEF PendingNext
<1>7. closed[cache[p].next] = 0 /\ UNCHANGED <<P, closed, archive, data>>
  BY DEF RotateIntent
<1>8. ~Renamed'
  BY <1>2, <1>7 DEF Renamed, RotatePlan
<1>9. LayoutClosed' = LayoutClosed
  BY <1>8, <1>4, <1>2 DEF LayoutClosed
<1>10. QED
  BY <1>2, <1>6, <1>7, <1>8, <1>9 DEF Spoken

\* An archive record, too.
LEMMA ArchiveSpoken ==
  ASSUME TypeOK, JournalInv, DiskInv, NEW p \in Proc, JournalRecord(p, "archive"),
         UNCHANGED <<P, closed, archive, data>>
  PROVE  Spoken
BY DEF JournalRecord, LayoutClosed, Renamed, PendingNext, DiskInv, Spoken

\* A step that at most tears or heals the journal's last line says nothing.
LEMMA QuietSpoken ==
  ASSUME TypeOK, DiskInv, UNCHANGED <<P, closed, archive, data>>,
         js' = js \/ \E b \in BOOLEAN : js' = [js EXCEPT !.torn = b]
  PROVE  Spoken /\ Renamed' = Renamed
BY DEF TypeOK, Journal, LayoutClosed, Renamed, PendingNext, DiskInv, Spoken

\* The line a writer carries continues the chain.
LEMMA WrittenGrown ==
  ASSUME TypeOK, JournalInv, WholeInv, NEW p \in Proc, pc[p] = "write2",
         NEW t \in {"ok", "bad"}, data' = Written(wip[p], t), UNCHANGED <<P, closed, archive, js>>
  PROVE  /\ \E f \in SegmentFile : Grown(f)
         /\ OpenLines' = Append(OpenLines, wip[p]) /\ P # 0
<1>1. /\ P # 0
      /\ wip[p].prev = IF OpenLines = <<>> THEN NextGen(js.closed) ELSE LastId(P)
      /\ js.pending = NoEntry
  BY DEF WholeInv, WriterInv, JournalInv, JournalPhase, Settled
<1>2. P \in 1..Len(data) /\ data[P] \in SegmentFile /\ wip[p] \in Event /\ data \in Seq(SegmentFile)
  BY <1>1 DEF TypeOK
<1>3. data[P].tail # "merged" /\ data[P].lines \in Seq(Event) /\ OpenLines = data[P].lines
  BY <1>1, <1>2 DEF WholeInv, DiskInv, TailsClean, SegmentFile, OpenLines
<1> DEFINE f == [lines |-> Append(data[P].lines, wip[p]), tail |-> t]
<1>4. data' = [data EXCEPT ![P] = f]
  BY <1>2, <1>3 DEF Written
<1>5. f \in SegmentFile
  BY <1>2, <1>3 DEF SegmentFile, TailState
<1>6. LayoutClosed = js.closed
  BY <1>1 DEF LayoutClosed, Renamed
<1>7. Grown(f)
  BY <1>1, <1>2, <1>4, <1>6 DEF Grown
<1>8. data'[P] = f
  <2> HIDE DEF f
  <2>1. QED
    BY <1>2, <1>4
<1>9. OpenLines' = Append(OpenLines, wip[p])
  BY <1>1, <1>3, <1>8 DEF OpenLines
<1>10. QED
  BY <1>1, <1>5, <1>7, <1>9

\* The installed open segment continues the chain.
LEMMA InstallBorn ==
  ASSUME TypeOK, TypeOK', JournalInv, WholeInv, NEW p \in Proc,
         pc[p] \in {"install", "rec_install"}, Install
  PROVE  \E f \in SegmentFile : Born(f)
<1> DEFINE f == IF tmp.st = "full" THEN [lines |-> <<tmp.ev>>, tail |-> "ok"]
                                   ELSE [lines |-> <<>>, tail |-> "bad"]
<1>1. /\ Renamed /\ P = 0 /\ tmp.ev = js.pending.rot /\ tmp.ev \in Event
      /\ js.pending # NoEntry
  BY DEF WholeInv, WriterInv, TypeOK, Renamed
<1>2. f \in SegmentFile
  BY <1>1 DEF SegmentFile, TailState
<1>3. /\ LayoutClosed = Append(js.closed, js.pending)
      /\ Len(LayoutClosed) = Len(js.closed) + 1 /\ LayoutClosed[Len(js.closed) + 1] = js.pending
      /\ Len(js.closed) \in Nat
  BY <1>1, LayoutOK DEF LayoutClosed
<1>4. Len(data) = Len(LayoutClosed) /\ data # <<>>
  BY <1>1, <1>3, LayoutOK DEF WholeInv, DiskInv, FullChainReadable
<1>5. LastId(Len(data)) = js.pending.head
  BY <1>3, <1>4 DEF WholeInv, DiskInv, FullChainReadable
<1>6. tmp.ev.prev = ChainEnd
  BY <1>1, <1>4, <1>5 DEF ChainEnd, WholeInv, DiskInv, PendingNext
<1>7. Born(f)
  BY <1>1, <1>6 DEF Install, Born
<1>8. QED
  BY <1>2, <1>7

\* Every step of store.py has one of these effects on the segment files.
LEMMA EffectStep ==
  ASSUME TypeOK, TypeOK', JournalInv, WholeInv, CutsShow, NEW p \in Proc,
         \/ \E g \in Ops : Acquire(p, g)
         \/ ApplyStart(p) \/ Step(p) \/ Restart(p) \/ Crash(p)
  PROVE  DiskEffect
<1>d. DiskInv /\ WriterInv(p)
  BY DEF WholeInv
<1>q. ASSUME UNCHANGED <<P, closed, archive, data, js>> PROVE DiskEffect
  BY <1>q, <1>d, QuietSpoken DEF DiskEffect
<1>t. ASSUME NEW b \in BOOLEAN, UNCHANGED <<P, closed, archive, data>>,
             js' = [js EXCEPT !.torn = b]
      PROVE  DiskEffect
  BY <1>t, <1>d, QuietSpoken DEF DiskEffect
<1>1. CASE \/ \E g \in Ops : Acquire(p, g)
           \/ ApplyStart(p) \/ Restart(p) \/ StartReconcile(p)
  BY <1>1, <1>q DEF Acquire, ApplyStart, Restart, StartReconcile, disk
<1>2. CASE EnsureFresh(p) \/ ReconcileUnlinkTmp(p) \/ ReconcileForward(p) \/ ReconcileEnd(p)
  BY <1>2, <1>q DEF EnsureFresh, ReconcileUnlinkTmp, ReconcileForward, ReconcileEnd, disk
<1>3. CASE RotateRefused(p) \/ RotateTmp(p) \/ RotateAborted(p)
  BY <1>3, <1>q DEF RotateRefused, RotateTmp, RotateAborted, disk
<1>4. CASE PlaceHold(p) \/ ReleaseHold(p) \/ ReleaseUnlink(p)
  BY <1>4, <1>q DEF PlaceHold, ReleaseHold, ReleaseUnlink, disk
<1>5. CASE \/ ApplyPlan(p) \/ ApplySidecar(p) \/ ApplyLock(p) \/ ApplyBusy(p) \/ ApplyHeld(p)
           \/ ApplyReplan(p) \/ ApplyEnd(p)
  BY <1>5, <1>q DEF ApplyPlan, ApplySidecar, ApplyLock, ApplyBusy, ApplyHeld, ApplyReplan,
                    ApplyEnd, disk
<1>6. CASE ReconcileTornTail(p)
  BY <1>6, <1>t DEF ReconcileTornTail
<1>7. CASE ReconcileAbort(p)
  BY <1>7, EndsRotation, <1>d, EndsSpoken DEF ReconcileAbort, InRotation, WriterInv, DiskEffect
<1>8. CASE ReconcileInstall(p)
  BY <1>8, InstallBorn DEF ReconcileInstall, DiskEffect
<1>9. CASE ReconcileCommit(p)
  BY <1>9, EndsRotation, <1>d, EndsSpoken DEF ReconcileCommit, InRotation, WriterInv, DiskEffect
<1>10. CASE WriteBegin(p)
  <2>1. CASE P = 0
    <3> DEFINE f == [lines |-> <<>>, tail |-> "bad"]
    <3>1. f \in SegmentFile
      BY DEF SegmentFile, TailState
    <3>2. Born(f)
      BY <1>10, <2>1 DEF WriteBegin, Born
    <3>3. QED
      BY <3>1, <3>2 DEF DiskEffect
  <2>2. CASE P # 0
    <3> DEFINE f == [data[P] EXCEPT !.tail = "bad"]
    <3>1. P \in 1..Len(data) /\ data[P] \in SegmentFile /\ data[P].tail \in {"ok", "bad"}
      BY <2>2, <1>d DEF TypeOK, DiskInv, TailsClean
    <3>2. f \in SegmentFile /\ f.lines = data[P].lines /\ f.tail = "bad"
      BY <3>1 DEF SegmentFile, TailState
    <3>3. data' = [data EXCEPT ![P] = f]
      BY <1>10, <2>2, <3>1 DEF WriteBegin, TypeOK
    <3>4. Grown(f)
      <4> HIDE DEF f
      <4>1. QED
        BY <1>10, <2>2, <3>2, <3>3 DEF WriteBegin, Grown
    <3>5. QED
      BY <3>2, <3>4 DEF DiskEffect
  <2>3. QED
    BY <2>1, <2>2
<1>11. CASE WriteEnd(p)
  BY <1>11, WrittenGrown DEF WriteEnd, DiskEffect
<1>12. CASE RotateIntent(p)
  BY <1>12, <1>d, IntentSpoken DEF RotateIntent, WriterInv, DiskEffect
<1>13. CASE RotateRename(p)
  <2>1. RotationReady /\ js.pending # NoEntry
    BY <1>13, <1>d DEF RotateRename, WriterInv, JournalInv, JournalPhase, InRotation
  <2>2. cache[p].next = js.pending.n
    BY <1>13, <1>d, <2>1 DEF RotateRename, JournalInv, CacheCoherent, Agrees, DiskInv, PendingNext
  <2>3. Closing
    BY <1>13, <2>1, <2>2 DEF RotateRename, Closing
  <2>4. QED
    BY <2>3 DEF DiskEffect
<1>14. CASE RotateRenameRefused(p)
  BY <1>14, EndsRotation, <1>d, EndsSpoken DEF RotateRenameRefused, InRotation, WriterInv, RotationReady,
    DiskEffect
<1>15. CASE RotateInstall(p)
  BY <1>15, InstallBorn DEF RotateInstall, DiskEffect
<1>16. CASE RotateCommit(p)
  BY <1>16, EndsRotation, <1>d, EndsSpoken DEF RotateCommit, InRotation, WriterInv, DiskEffect
<1>17. CASE ApplyCompleteMoves(p)
  BY <1>17, <1>q DEF ApplyCompleteMoves, disk, DiskEffect
<1>18. CASE ApplyCommit(p)
  BY <1>18, ArchiveRecord, <1>d, ArchiveSpoken DEF ApplyCommit, DiskEffect
<1>19. CASE ApplyMove(p)
  BY <1>19 DEF ApplyMove, DiskEffect
<1>20. CASE Crash(p)
  <2>1. CASE UNCHANGED disk \/ TearTmp(p)
    BY <2>1, <1>q DEF disk, TearTmp
  <2>2. CASE TearJournal(p)
    BY <2>2, <1>t DEF TearJournal
  <2>3. CASE TearLine(p)
    BY <2>3, <1>q, WrittenGrown DEF TearLine, DiskEffect, CutsShow
  <2>4. QED
    BY <1>20, <2>1, <2>2, <2>3 DEF Crash
<1>21. QED
  BY <1>1, <1>2, <1>3, <1>4, <1>5, <1>6, <1>7, <1>8, <1>9, <1>10, <1>11, <1>12, <1>13, <1>14,
     <1>15, <1>16, <1>17, <1>18, <1>19, <1>20 DEF Step, Reconcile, Rotate, Apply

\* Each effect keeps the disk invariant.
LEMMA DiskStep == ASSUME TypeOK, JournalInv, DiskInv, DiskEffect PROVE DiskInv'
BY SpokenStep, ClosingStep, MoveStep, BornStep, GrownStep DEF DiskEffect

-----------------------------------------------------------------------------
(* What the other processes know stays true.                                *)

\* Lines are never lost or changed: files and lines are only added.
Longer ==
  /\ Len(data') >= Len(data)
  /\ \A k \in 1..Len(data) :
       /\ Len(data'[k].lines) >= Len(data[k].lines)
       /\ \A i \in 1..Len(data[k].lines) : data'[k].lines[i] = data[k].lines[i]
\* What a process sees of the open segment.
Same == UNCHANGED <<P, OpenLines>>
Fresh ==
  \/ Same
  \/ P' = Len(data) + 1
  \/ P' = 0 /\ js' = js /\ js.pending # NoEntry
  \/ P' = P /\ P # 0 /\ Len(OpenLines') > Len(OpenLines) /\ OpenLines = data[P].lines

\* A cache key that fitted an older state of the open segment never fits again.
LEMMA EffectFresh ==
  ASSUME TypeOK, TypeOK', JournalInv, DiskInv, DiskEffect
  PROVE  Longer /\ Fresh
<1> USE DEF Longer, Fresh, Same
<1>t. Len(data) \in Nat /\ P \in 0..Len(data) /\ data \in Seq(SegmentFile)
  BY LayoutOK DEF TypeOK
<1>l. \A k \in 1..Len(data) : data[k].lines \in Seq(Event) /\ Len(data[k].lines) \in Nat
  <2>1. ASSUME NEW k \in 1..Len(data)
        PROVE  data[k].lines \in Seq(Event)
    <3>1. data[k] \in SegmentFile
      BY <1>t
    <3>2. QED
      BY <3>1 DEF SegmentFile
  <2>2. QED
    BY <2>1
<1>1. CASE Spoken
  BY <1>1, <1>t, <1>l DEF Spoken, OpenLines
<1>2. CASE Closing
  BY <1>2, <1>t, <1>l DEF Closing
<1>3. ASSUME NEW S, Move(S) PROVE Longer /\ Fresh
  BY <1>3, <1>t, <1>l DEF Move, OpenLines
<1>4. ASSUME NEW f \in SegmentFile, Born(f) PROVE Longer /\ Fresh
  BY <1>4, <1>t, <1>l DEF Born
<1>5. ASSUME NEW f \in SegmentFile, Grown(f) PROVE Longer /\ Fresh
  <2>1. P \in 1..Len(data) /\ data' = [data EXCEPT ![P] = f] /\ P' = P
    BY <1>5, <1>t DEF Grown
  <2>2. /\ Len(data') = Len(data) /\ data'[P] = f
        /\ \A k \in 1..Len(data) : k # P => data'[k] = data[k]
    BY <2>1, <1>t
  <2>3. \/ f.lines = data[P].lines
        \/ /\ Len(f.lines) = Len(data[P].lines) + 1
           /\ \A i \in 1..Len(data[P].lines) : f.lines[i] = data[P].lines[i]
    <3>1. CASE f.lines = data[P].lines
      BY <3>1
    <3>2. ASSUME NEW e \in Event, f.lines = Append(data[P].lines, e)
          PROVE  /\ Len(f.lines) = Len(data[P].lines) + 1
                 /\ \A i \in 1..Len(data[P].lines) : f.lines[i] = data[P].lines[i]
      BY <3>2, <2>1, <1>l
    <3>3. QED
      BY <3>1, <3>2, <1>5 DEF Grown
  <2>4. OpenLines = data[P].lines /\ OpenLines' = f.lines
    BY <2>1, <2>2, <1>t DEF OpenLines
  <2>5. Longer
    BY <2>1, <2>2, <2>3, <1>l, <1>t
  <2>6. QED
    BY <2>1, <2>3, <2>4, <2>5, <1>l
<1>6. QED
  BY <1>1, <1>2, <1>3, <1>4, <1>5 DEF DiskEffect

\* Only the holder of the lock touches what the others rely on: a move into the
\* archive is all that happens outside of it.
Outside ==
  UNCHANGED <<P, data, tmp, js>> /\ LayoutClosed' = LayoutClosed /\ Renamed' = Renamed

\* Whoever touches the disk holds the lock, and disturbs no one else's work in progress.
LEMMA LockedStep ==
  ASSUME TypeOK, JournalInv, DiskInv, NEW p \in Proc,
         \/ \E g \in Ops : Acquire(p, g)
         \/ ApplyStart(p) \/ Step(p) \/ Restart(p) \/ Crash(p)
  PROVE  /\ lock = p \/ Outside
         /\ \A q \in Proc \ {p} : wip'[q] = wip[q]
<1>w. wip \in [Proc -> Event]
  BY DEF TypeOK
<1>l. ASSUME pc[p] \in Locked PROVE lock = p
  BY <1>l DEF JournalInv, LockExcludes
<1>q. ASSUME UNCHANGED <<P, closed, data, tmp, js>> PROVE Outside
  BY <1>q DEF Outside, LayoutClosed, Renamed
<1>m. ASSUME NEW S \in SUBSET PendingMoves, Move(S) PROVE Outside
  BY <1>m, MoveStep DEF Outside, Move
<1> USE DEF Locked, Settled, InRotation
<1>1. CASE \/ \E g \in Ops : Acquire(p, g)
           \/ ApplyStart(p) \/ Restart(p) \/ StartReconcile(p)
  BY <1>1, <1>q DEF Acquire, ApplyStart, Restart, StartReconcile, disk
<1>2. CASE Reconcile(p)
  BY <1>2, <1>l DEF Reconcile, EnsureFresh, ReconcileTornTail, ReconcileUnlinkTmp, ReconcileAbort,
              ReconcileForward, ReconcileInstall, ReconcileCommit, ReconcileEnd
<1>3. CASE Rotate(p)
  BY <1>3, <1>l, <1>w DEF Rotate, RotateIntent, RotateRefused, RotateTmp, RotateRename,
              RotateRenameRefused, RotateAborted, RotateInstall, RotateCommit
<1>4. CASE \/ WriteBegin(p) \/ WriteEnd(p)
           \/ PlaceHold(p) \/ ReleaseHold(p) \/ ReleaseUnlink(p)
  BY <1>4, <1>l, <1>w DEF WriteBegin, WriteEnd, PlaceHold, ReleaseHold, ReleaseUnlink
<1>5. CASE ApplyCompleteMoves(p)
  BY <1>5, <1>q, <1>m DEF ApplyCompleteMoves, disk
<1>6. CASE ApplyMove(p)
  BY <1>6, <1>m DEF ApplyMove
<1>7. CASE ApplyPlan(p) \/ ApplySidecar(p) \/ ApplyLock(p) \/ ApplyBusy(p) \/ ApplyEnd(p)
  BY <1>7, <1>q DEF ApplyPlan, ApplySidecar, ApplyLock, ApplyBusy, ApplyEnd, disk
<1>8. CASE ApplyHeld(p) \/ ApplyReplan(p) \/ ApplyCommit(p)
  BY <1>8, <1>l DEF ApplyHeld, ApplyReplan, ApplyCommit
<1>9. CASE Crash(p)
  BY <1>9, <1>q, <1>w, <1>l DEF Crash, disk, TearJournal, TearTmp, TearLine
<1>10. QED
  BY <1>1, <1>2, <1>3, <1>4, <1>5, <1>6, <1>7, <1>8, <1>9 DEF Step, Apply

\* A key that is old stays old.
LEMMA KeyOldStays ==
  ASSUME TypeOK, TypeOK', NEW q \in Proc, KeyOld(q), Longer, cache'[q] = cache[q]
  PROVE  /\ KeyOld(q)'
         /\ \A k \in 1..Len(data) : Len(data[k].lines) \in Nat /\ Len(data'[k].lines) \in Nat
<1>c. cache[q] \in WriterCache /\ cache[q].key \in Key
  BY DEF TypeOK, WriterCache
<1>t. /\ cache[q].key.ino \in Nat /\ cache[q].key.size \in Nat
      /\ Len(data) \in Nat /\ Len(data') \in Nat
      /\ Len(data') >= Len(data)
  BY <1>c DEF TypeOK, Key, Longer
<1>l. \A k \in 1..Len(data) : Len(data[k].lines) \in Nat /\ Len(data'[k].lines) \in Nat
  <2>1. ASSUME NEW k \in 1..Len(data)
        PROVE  data[k] \in SegmentFile /\ data'[k] \in SegmentFile
    BY <1>t DEF TypeOK
  <2>2. ASSUME NEW g \in SegmentFile PROVE Len(g.lines) \in Nat
    BY DEF SegmentFile
  <2>3. QED
    BY <2>1, <2>2
<1> DEFINE k == cache[q].key
<1>1. k.ino # 0 => k.ino \in 1..Len(data)
  BY <1>t DEF KeyOld
<1>2. k.ino # 0 => k.size <= Len(data[k.ino].lines) /\ Len(data[k.ino].lines) \in Nat
                   /\ Len(data'[k.ino].lines) \in Nat
                   /\ Len(data'[k.ino].lines) >= Len(data[k.ino].lines)
  BY <1>1, <1>l DEF KeyOld, Longer
<1>3. \A i, m, n \in Nat : i <= m /\ n >= m => i <= n
  OBVIOUS
<1>4. k.ino <= Len(data')
  <2>1. k.ino <= Len(data)
    BY DEF KeyOld
  <2>2. QED
    BY <2>1, <1>3, <1>t
<1>5. k.ino # 0 => k.size <= Len(data'[k.ino].lines)
  BY <1>2, <1>3, <1>t
<1>6. QED
  BY <1>4, <1>5, <1>l DEF KeyOld

\* And a cache left alone that fits the disk after the step fitted it before.
LEMMA KeyStays ==
  ASSUME TypeOK, TypeOK', JournalInv, NEW q \in Proc, KeyOld(q), Longer, Fresh,
         cache'[q] = cache[q], pc[q] # "down",
         js'.len = js.len \/ js'.len = js.len + 1
  PROVE  /\ KeyOld(q)'
         /\ Keyed(q)' => Same /\ Keyed(q)
<1>c. cache[q] \in WriterCache /\ cache[q].key \in Key
  BY DEF TypeOK, WriterCache
<1>t. /\ cache[q].key.ino \in Nat /\ cache[q].key.size \in Nat /\ cache[q].key.jlen \in Nat
      /\ Len(data) \in Nat /\ js.len \in Nat /\ cache[q].key.jlen <= js.len
  <2>1. cache[q].key.ino \in Nat /\ cache[q].key.size \in Nat /\ cache[q].key.jlen \in Nat
    BY <1>c DEF Key
  <2>2. Len(data) \in Nat /\ js.len \in Nat
    BY DEF TypeOK, Journal
  <2>3. cache[q].key.jlen <= js.len
    BY DEF JournalInv, CacheCoherent
  <2>4. QED
    BY <2>1, <2>2, <2>3
<1>1. /\ KeyOld(q)'
      /\ \A k \in 1..Len(data) : Len(data[k].lines) \in Nat /\ Len(data'[k].lines) \in Nat
  BY KeyOldStays
<1>l. \A k \in 1..Len(data) : Len(data[k].lines) \in Nat /\ Len(data'[k].lines) \in Nat
  BY <1>1
<1>2. ASSUME Keyed(q)' PROVE Same /\ Keyed(q)
  <2>1. cache[q].key.jlen = js.len /\ js'.len = js.len /\ ~cache[q].pending
    BY <1>2, <1>t DEF Keyed
  <2>2. js.pending = NoEntry
    BY <2>1 DEF JournalInv, CacheCoherent
  <2>3. P' # Len(data) + 1
    BY <1>2, <1>t DEF Keyed, KeyOld
  <2>4. ~(P' = P /\ P # 0 /\ Len(OpenLines') > Len(OpenLines) /\ OpenLines = data[P].lines)
    BY <1>2, <1>l, <1>t DEF TypeOK, Keyed, KeyOld
  <2>5. Same
    BY <2>2, <2>3, <2>4 DEF Fresh
  <2>6. QED
    BY <2>1, <2>5, <1>2 DEF Keyed, Same
<1>3. QED
  BY <1>1, <1>2

\* What any other process knows of the disk is not disturbed by a step of p.
LEMMA OthersKnow ==
  ASSUME TypeOK, TypeOK', JournalInv, WholeInv, NEW p \in Proc, Frame(p), Longer, Fresh,
         NEW q \in Proc, q # p, lock = p \/ Outside, wip'[q] = wip[q]
  PROVE  WriterInv(q)'
<1>q. /\ pc'[q] = pc[q] /\ goal'[q] = goal[q] /\ cache'[q] = cache[q] /\ wip'[q] = wip[q]
      /\ js'.len = js.len \/ js'.len = js.len + 1
      /\ WriterInv(q)
  BY DEF Frame, WholeInv
<1>l. pc[q] \in Locked => Outside
  BY DEF JournalInv, LockExcludes
<1>o. pc[q] \in Locked => /\ UNCHANGED <<P, data, tmp, js, OpenLines>>
                          /\ LayoutClosed' = LayoutClosed /\ Renamed' = Renamed
                          /\ LastId(P)' = LastId(P)
  BY <1>l DEF Outside, OpenLines, LastId
<1>k. KeyOld(q)' /\ (Keyed(q)' => Current(q)')
  <2>1. CASE pc[q] # "down"
    BY <2>1, <1>q, KeyStays DEF WriterInv, Current, Same
  <2>2. CASE pc[q] = "down"
    BY <2>2, <1>q, KeyOldStays DEF Keyed, WriterInv
  <2>3. QED
    BY <2>1, <2>2
<1>1. CASE pc[q] \in Locked
  BY <1>1, <1>q, <1>o, <1>k DEF WriterInv, Current, Agrees, RotationReady
<1>2. CASE pc[q] \notin Locked
  BY <1>2, <1>q, <1>k DEF WriterInv, Locked, Settled, InRotation
<1>3. QED
  BY <1>1, <1>2

-----------------------------------------------------------------------------
(* What the acting process knows stays true.                                *)

\* What _recover_locked puts in the cache describes the open segment as it is.
RecoveredFits ==
  /\ Recovered.head = IF OpenLines = <<>> THEN Recovered.chead ELSE OpenLines[Len(OpenLines)].id
  /\ Recovered.glen = Recovered.start + Len(OpenLines)
  /\ Recovered.key.ino = P /\ Recovered.key.size = Len(OpenLines)

\* What a recovery rebuilds is what the disk holds.
LEMMA RecoveredFitsAlways == RecoveredFits
BY DEF RecoveredFits, Recovered, DiskKey

\* The same after a step.
LEMMA RecoveredFitsNext == RecoveredFits'
BY RecoveredFitsAlways, PTL

\* A step of p keeps what the invariant says of p.
LEMMA OwnKnows ==
  ASSUME TypeOK, TypeOK', JournalInv, WholeInv, CutsShow, Longer, Fresh, NEW p \in Proc,
         Frame(p),
         \/ \E g \in Ops : Acquire(p, g)
         \/ ApplyStart(p) \/ Step(p) \/ Restart(p) \/ Crash(p)
  PROVE  WriterInv(p)'
<1> USE DEF Goto
<1>t. /\ pc \in [Proc -> Label] /\ goal \in [Proc -> Goal] /\ wip \in [Proc -> Event]
      /\ cache \in [Proc -> WriterCache] /\ cache[p] \in WriterCache /\ js.len \in Nat
      /\ js'.len = js.len \/ js'.len = js.len + 1
      /\ Len(LayoutClosed) \in Nat /\ MaxSeg \in Nat
  BY LayoutOK DEF TypeOK, Journal, Frame
<1>i. WriterInv(p) /\ DiskInv /\ CacheCoherent(p) /\ JournalPhase(p)
  BY DEF WholeInv, JournalInv
<1>f. RecoveredFits /\ RecoveredFits'
  BY RecoveredFitsAlways, RecoveredFitsNext
<1>v. RecoveredSound
  BY RecoveredIsSound DEF TypeOK, DiskTypeOK
<1>k. ASSUME cache'[p] = cache[p], pc[p] # "down"
      PROVE  KeyOld(p)' /\ (Keyed(p)' => Same /\ Current(p)')
  BY <1>k, <1>t, <1>i, KeyStays DEF WriterInv, Current, Same
<1>r. ASSUME cache'[p].key.ino = P', cache'[p].key.size = Len(OpenLines')
      PROVE  KeyOld(p)'
  <2>1. P' <= Len(data') /\ P' \in Nat /\ Len(data') \in Nat
    BY DEF TypeOK
  <2>2. P' # 0 => OpenLines' = data'[P'].lines
    BY DEF OpenLines
  <2>3. Len(OpenLines') <= Len(OpenLines')
    BY OpenTypesNext DEF TypeOK, DiskTypeOK
  <2>4. QED
    BY <1>r, <2>1, <2>2, <2>3 DEF KeyOld
<1>n. ASSUME cache'[p] = Recovered, UNCHANGED <<P, data>>
      PROVE  KeyOld(p)' /\ Current(p)'
  BY <1>n, <1>f, <1>r DEF OpenLines, RecoveredFits, Current
<1>m. ASSUME cache'[p] = Recovered'
      PROVE  KeyOld(p)' /\ Current(p)'
  BY <1>m, <1>f, <1>r DEF RecoveredFits, Current
<1>s. ASSUME UNCHANGED <<P, closed, data, js>>
      PROVE  /\ LayoutClosed' = LayoutClosed /\ Renamed' = Renamed
             /\ OpenLines' = OpenLines /\ LastId(P)' = LastId(P)
  BY <1>s DEF LayoutClosed, Renamed, OpenLines, LastId
<1>1. CASE \E g \in Ops : Acquire(p, g)
  BY <1>1, <1>t, <1>k, <1>s DEF Acquire, disk, WriterInv
<1>2. CASE ApplyStart(p) \/ ApplyPlan(p) \/ ApplySidecar(p) \/ ApplyLock(p) \/ ApplyBusy(p)
           \/ ApplyHeld(p) \/ ApplyReplan(p) \/ ApplyEnd(p)
  <2>1. /\ UNCHANGED <<P, closed, data, js, cache>> /\ pc[p] # "down"
        /\ pc'[p] \in {"a_moves", "a_end", "a_side", "a_lock", "a_plan", "idle", "fresh"}
        /\ pc'[p] = "fresh" => goal'[p] # "rotate"
    <3>1. CASE ApplyStart(p)
      BY <3>1, <1>t DEF ApplyStart, disk
    <3>2. CASE ApplyPlan(p)
      BY <3>2, <1>t DEF ApplyPlan, disk
    <3>3. CASE ApplySidecar(p)
      BY <3>3, <1>t DEF ApplySidecar
    <3>4. CASE ApplyLock(p) \/ ApplyBusy(p)
      BY <3>4, <1>t DEF ApplyLock, ApplyBusy, disk
    <3>5. CASE ApplyHeld(p) \/ ApplyReplan(p)
      BY <3>5, <1>t DEF ApplyHeld, ApplyReplan, Unlock, disk
    <3>6. CASE ApplyEnd(p)
      BY <3>6, <1>t DEF ApplyEnd, disk
    <3>7. QED
      BY <1>2, <3>1, <3>2, <3>3, <3>4, <3>5, <3>6
  <2>2. QED
    BY <2>1, <1>k DEF WriterInv
<1>3. CASE ApplyCompleteMoves(p) \/ ApplyMove(p)
  BY <1>3, <1>t, <1>k DEF ApplyCompleteMoves, ApplyMove, WriterInv
<1>4. CASE ApplyCommit(p)
  BY <1>4, <1>t, <1>m DEF ApplyCommit, Unlock, WriterInv
<1>5. CASE EnsureFresh(p)
  <2>s. UNCHANGED <<P, closed, archive, data, js>> /\ pc[p] = "fresh"
    BY <1>5 DEF EnsureFresh, disk
  <2>u. /\ LayoutClosed' = LayoutClosed /\ Renamed' = Renamed /\ OpenLines' = OpenLines
        /\ (Agrees(p) /\ cache'[p] = cache[p] => Agrees(p)')
    BY <2>s, <1>s DEF Agrees
  <2>1. CASE DiskKey = cache[p].key /\ ~cache[p].pending
    BY <1>5, <2>1, <1>t, <2>s, <1>i, <2>u, <1>k DEF EnsureFresh, Stay, DiskKey, Keyed, CacheCoherent,
      WriterInv, Current, AfterFresh
  <2>2. CASE (DiskKey # cache[p].key \/ cache[p].pending) /\ ~Unparseable
    <3>1. /\ cache'[p] = Recovered /\ goal' = goal
          /\ pc'[p] = IF Recovered.pending THEN "reconcile" ELSE AfterFresh(goal[p])
      BY <1>5, <2>2, <1>t DEF EnsureFresh, Stay
    <3>2. KeyOld(p)' /\ Current(p)'
      BY <3>1, <2>s, <1>n
    <3>3. ~Recovered.pending => Agrees(p)'
      BY <3>1, <2>s, <1>v DEF RecoveredSound, Agrees
    <3>4. /\ pc'[p] \in {"write", "intent", "a_commit", "reconcile"}
          /\ (pc'[p] = "intent" => goal'[p] = "rotate")
          /\ (pc'[p] = "write" => ~Recovered.pending)
      BY <3>1 DEF AfterFresh
    <3>5. QED
      BY <3>1, <3>2, <3>3, <3>4, <2>s, <2>u, <1>i DEF WriterInv
  <2>3. CASE (DiskKey # cache[p].key \/ cache[p].pending) /\ Unparseable
    BY <1>5, <2>3, <1>t, <2>s, <1>k DEF EnsureFresh, Fail, Unlock, WriterInv
  <2>4. QED
    BY <2>1, <2>2, <2>3
<1>6. CASE ReconcileTornTail(p)
  BY <1>6, <1>t, <1>i, QuietSpoken, <1>k DEF ReconcileTornTail, Spoken, WriterInv
<1>7. CASE ReconcileUnlinkTmp(p)
  BY <1>7, <1>t, <1>s, <1>k, <1>i DEF ReconcileUnlinkTmp, WriterInv
<1>8. CASE ReconcileAbort(p) \/ ReconcileCommit(p)
  <2>1. /\ UNCHANGED <<P, closed, archive, data, cache, goal>> /\ pc[p] \in {"rec_abort", "rec_commit"}
        /\ pc'[p] = "rec_end"
    BY <1>8, <1>t DEF ReconcileAbort, ReconcileCommit
  <2>2. LayoutClosed' = LayoutClosed
    <3>1. CASE ReconcileAbort(p)
      BY <3>1, <1>i, EndsRotation, <2>1, EndsSpoken DEF ReconcileAbort, InRotation, WriterInv, Spoken
    <3>2. CASE ReconcileCommit(p)
      BY <3>2, <1>i, EndsRotation, <2>1, EndsSpoken DEF ReconcileCommit, InRotation, WriterInv, Spoken
    <3>3. QED
      BY <1>8, <3>1, <3>2
  <2>3. QED
    BY <2>1, <2>2, <1>k, <1>i DEF WriterInv
<1>9. CASE ReconcileForward(p)
  BY <1>9, <1>t, <1>s, <1>k, <1>i DEF ReconcileForward, WriterInv
<1>10. CASE ReconcileInstall(p)
  BY <1>10, <1>t, <1>k, <1>i DEF ReconcileInstall, Install, LayoutClosed, Renamed, WriterInv
<1>11. CASE ReconcileEnd(p)
  <2>1. /\ UNCHANGED <<P, closed, data, js>> /\ pc[p] = "rec_end"
        /\ cache'[p] = Recovered
        /\ \/ goal[p] = "start" /\ pc'[p] = "idle"
           \/ goal' = goal /\ pc'[p] = AfterFresh(goal[p])
    BY <1>11, <1>t DEF ReconcileEnd, Unlock, Stay, disk
  <2>2. ~Recovered.pending
    BY <2>1, <1>i, <1>v DEF JournalPhase, Settled, RecoveredSound, JournalInv, JournalValid
  <2>3. Agrees(p)' /\ KeyOld(p)' /\ Current(p)'
    BY <2>1, <2>2, <1>v, <1>n DEF RecoveredSound, Agrees
  <2>4. /\ pc'[p] \in {"idle", "write", "intent", "a_commit"}
        /\ pc'[p] = "intent" => goal'[p] = "rotate" /\ goal[p] = "rotate"
    BY <2>1 DEF AfterFresh
  <2>5. QED
    BY <2>1, <2>3, <2>4, <1>s, <1>i DEF WriterInv
<1>12. CASE WriteBegin(p)
  <2>1. /\ UNCHANGED <<closed, js, cache, goal>> /\ pc[p] = "write" /\ pc'[p] = "write2"
        /\ wip'[p].prev = cache[p].head
    BY <1>12, <1>t DEF WriteBegin
  <2>2. P' # 0 /\ OpenLines' = OpenLines
    <3>1. CASE P = 0
      BY <1>12, <3>1 DEF WriteBegin, TypeOK, OpenLines
    <3>2. CASE P # 0
      <4>1. P \in 1..Len(data) /\ data[P] \in SegmentFile /\ data[P].tail \in {"ok", "bad"}
        BY <3>2, <1>i DEF TypeOK, DiskInv, TailsClean
      <4>2. data' = [data EXCEPT ![P] = [data[P] EXCEPT !.tail = "bad"]] /\ P' = P
        BY <1>12, <3>2, <4>1 DEF WriteBegin, TypeOK
      <4>3. data'[P].lines = data[P].lines
        BY <4>1, <4>2 DEF TypeOK, SegmentFile
      <4>4. QED
        BY <3>2, <4>2, <4>3 DEF OpenLines
    <3>3. QED
      BY <3>1, <3>2
  <2>3. Current(p) /\ Agrees(p)
    BY <2>1, <1>i DEF WriterInv
  <2>4. Current(p)'
    BY <2>1, <2>2, <2>3 DEF Current
  <2>5. wip'[p].prev = IF OpenLines' = <<>> THEN NextGen(js'.closed) ELSE LastId(P)'
    BY <2>2, <2>1, <2>3 DEF LastId, OpenLines, Current, Agrees
  <2>6. QED
    BY <2>1, <2>2, <2>4, <2>5, <1>k DEF WriterInv
<1>13. CASE WriteEnd(p)
  <2>1. /\ pc[p] = "write2" /\ pc'[p] \in {"unlink", "idle"} /\ P' = P
        /\ data' = Written(wip[p], "ok") /\ UNCHANGED <<closed, archive, js>>
        /\ cache'[p].head = wip[p].id /\ cache'[p].glen = cache[p].glen + 1
        /\ cache'[p].start = cache[p].start /\ cache'[p].chead = cache[p].chead
        /\ cache'[p].key.ino = P' /\ cache'[p].key.size = Len(OpenLines')
    BY <1>13, <1>t DEF WriteEnd, Unlock, WriterCache, Key
  <2>2. OpenLines' = Append(OpenLines, wip[p])
    BY <2>1, WrittenGrown
  <2>3. OpenLines \in Seq(Event) /\ wip[p] \in Event
    BY <1>t, OpenTypes DEF TypeOK, DiskTypeOK
  <2>4. OpenLines' # <<>> /\ OpenLines'[Len(OpenLines')] = wip[p] /\ Len(OpenLines') = Len(OpenLines) + 1
    BY <2>2, <2>3
  <2>5. Current(p)
    BY <2>1, <1>i DEF WriterInv
  <2>6. Current(p)'
    BY <2>1, <2>3, <2>4, <2>5, <1>t DEF Current, WriterCache
  <2>7. QED
    BY <2>1, <2>6, <1>r DEF WriterInv
<1>14. CASE RotateIntent(p)
  <2>1. /\ UNCHANGED <<P, closed, data, cache, goal>> /\ pc[p] = "intent" /\ pc'[p] = "tmp"
        /\ wip'[p] = RotatePlan(p).rot /\ cache[p].glen > cache[p].start
    BY <1>14, <1>t DEF RotateIntent
  <2>2. /\ js'.pending = RotatePlan(p) /\ ~Renamed'
    BY <1>14, <2>1, <1>i, IntentSpoken DEF WriterInv
  <2>3. Current(p) /\ OpenLines' = OpenLines /\ LastId(P)' = LastId(P)
    BY <2>1, <1>i DEF WriterInv, OpenLines, LastId
  <2>4. Current(p)'
    BY <2>1, <2>3 DEF Current
  <2>5. Len(OpenLines) \in Nat /\ Len(OpenLines) > 0 /\ cache[p].start \in Nat
        /\ cache[p].glen = cache[p].start + Len(OpenLines)
    <3>1. OpenLines \in Seq(Event)
      BY OpenTypes DEF TypeOK, DiskTypeOK
    <3>2. QED
      BY <3>1, <2>1, <2>3, <1>t DEF Current, WriterCache
  <2>6. OpenLines # <<>> /\ P # 0
    BY <2>5 DEF OpenLines
  <2>7. LastId(P) = OpenLines[Len(OpenLines)].id
    BY <2>6 DEF LastId, OpenLines
  <2>8. RotationReady'
    BY <2>2, <2>5, <2>3, <2>6, <2>7, <2>1 DEF RotatePlan, Current, RotationReady
  <2>9. QED
    BY <2>1, <2>2, <2>4, <2>8, <1>k DEF WriterInv
<1>15. CASE RotateRefused(p)
  BY <1>15, <1>t, <1>k DEF RotateRefused, Unlock, WriterInv
<1>16. CASE RotateTmp(p)
  BY <1>16, <1>t, <1>s, <1>i, <1>k DEF RotateTmp, WriterInv, Current, RotationReady
<1>17. CASE RotateRename(p)
  <2>1. /\ UNCHANGED <<data, tmp, js, cache, goal>> /\ pc[p] = "rename" /\ pc'[p] = "install"
        /\ closed' = [closed EXCEPT ![cache[p].next] = P] /\ P' = 0
    BY <1>17, <1>t DEF RotateRename
  <2>2. RotationReady /\ js.pending # NoEntry /\ Agrees(p)
    BY <2>1, <1>i DEF WriterInv, JournalPhase, InRotation, CacheCoherent
  <2>3. cache[p].next = js.pending.n /\ js.pending.n \in Seg
    BY <2>2, <1>i, LayoutOK DEF DiskInv, PendingNext, Agrees, Seg
  <2>4. Renamed'
    BY <2>1, <2>2, <2>3 DEF Renamed, RotationReady, TypeOK
  <2>5. QED
    BY <2>1, <2>4, <1>k, <1>i DEF WriterInv
<1>18. CASE RotateRenameRefused(p)
  BY <1>18, <1>t, <1>i, <1>k DEF RotateRenameRefused, WriterInv, Current, OpenLines
<1>19. CASE RotateAborted(p)
  BY <1>19, <1>t, <1>i, <1>r DEF RotateAborted, Unlock, WriterCache, OpenLines, DiskKey, WriterInv, Current
<1>20. CASE RotateInstall(p)
  BY <1>20, <1>t, <1>i, <1>k DEF RotateInstall, Install, Renamed, WriterInv
<1>21. CASE RotateCommit(p)
  BY <1>21, <1>t, <1>m DEF RotateCommit, Unlock, WriterInv
<1>22. CASE PlaceHold(p) \/ ReleaseHold(p)
  <2>1. /\ UNCHANGED cache /\ pc[p] \in {"place", "release"}
        /\ pc'[p] \in {"idle", "fresh"}
        /\ pc'[p] = "fresh" => goal'[p] = goal[p]
    BY <1>t, <1>22 DEF PlaceHold, Unlock, Stay, ReleaseHold
  <2>2. goal[p] # "rotate"
    BY <2>1, <1>i DEF WriterInv
  <2>3. QED
    BY <2>1, <2>2, <1>k DEF WriterInv
<1>23. CASE ReleaseUnlink(p)
  BY <1>23, <1>t, <1>k DEF ReleaseUnlink, Unlock, WriterInv
<1>24. CASE StartReconcile(p)
  <2>1. CASE lock = "nobody" /\ ~Unparseable
    BY <1>24, <1>t, <1>n, <1>k DEF StartReconcile, disk, WriterInv
  <2>2. CASE ~(lock = "nobody" /\ ~Unparseable)
    BY <1>24, <2>2, <1>t, <1>k DEF StartReconcile, WriterInv
  <2>3. QED
    BY <2>1, <2>2
<1>25. CASE Restart(p)
  BY <1>25, <1>t, <1>n DEF Restart, disk, WriterInv
<1>26. CASE Crash(p)
  BY <1>26, <1>t DEF Crash, KeyOld, Keyed, NoCache, TypeOK, WriterInv
<1>27. QED
  BY <1>1, <1>2, <1>3, <1>4, <1>5, <1>6, <1>7, <1>8, <1>9, <1>10, <1>11, <1>12, <1>13, <1>14,
     <1>15, <1>16, <1>17, <1>18, <1>19, <1>20, <1>21, <1>22, <1>23, <1>24, <1>25, <1>26
     DEF Step, Reconcile, Rotate, Apply

-----------------------------------------------------------------------------
(* The chain stays whole.                                                   *)

\* An empty directory holds a whole chain.
LEMMA WholeInit == Init => WholeInv
<1> SUFFICES ASSUME Init PROVE WholeInv
  OBVIOUS
<1>1. /\ P = 0 /\ data = <<>> /\ js = EmptyJournal /\ Len(data) = 0
      /\ \A n \in Seg : closed[n] = 0 /\ archive[n] = 0
  BY DEF Init
<1>2. js.closed = <<>> /\ js.pending = NoEntry
  BY <1>1 DEF EmptyJournal
<1>3. LayoutClosed = <<>> /\ Len(LayoutClosed) = 0
  BY <1>2 DEF LayoutClosed, Renamed
<1>4. DiskInv
  BY <1>1, <1>2, <1>3, LedgerAssumption DEF DiskInv, ChainIntact, FullChainReadable, TailsClean,
     NamesMatch, PendingNext, LayoutFits
<1>5. \A p \in Proc : WriterInv(p)
  BY <1>1 DEF Init, WriterInv, KeyOld, Keyed, Current, NoCache, OpenLines
<1>6. QED
  BY <1>4, <1>5 DEF WholeInv

\* What a step does, as far as the chain goes.
LEMMA WholeStep ==
  ASSUME TypeOK, TypeOK', JournalInv, WholeInv, CutsShow, NEW p \in Proc,
         \/ \E g \in Ops : Acquire(p, g)
         \/ ApplyStart(p) \/ Step(p) \/ Restart(p) \/ Crash(p)
  PROVE  WholeInv' /\ Longer
BY EffectStep, DiskStep, EffectFresh, FrameStep, LockedStep, OwnKnows, OthersKnow DEF WholeInv

\* And so does a step that only stutters.
LEMMA WholeNext ==
  ASSUME TypeOK, TypeOK', JournalInv, WholeInv, CutsShow, [Next]_vars
  PROVE  WholeInv'
<1>1. CASE Next
  BY <1>1, WholeStep DEF Next
<1>2. CASE UNCHANGED vars
  <2>1. DiskInv'
    BY <1>2, QuietSpoken, SpokenStep DEF vars, disk, WholeInv
  <2>2. /\ UNCHANGED <<OpenLines, Renamed, LayoutClosed, P, data, tmp, js, pc, goal, cache, wip>>
        /\ LastId(P)' = LastId(P)
    BY <1>2 DEF vars, disk, LayoutClosed, Renamed, OpenLines, LastId
  <2>3. ASSUME NEW p \in Proc PROVE WriterInv(p)'
    BY <2>2 DEF WholeInv, WriterInv, KeyOld, Keyed, Current, Agrees, RotationReady
  <2>4. QED
    BY <2>1, <2>3 DEF WholeInv
<1>3. QED
  BY <1>1, <1>2

\* The inductive invariant holds in every state.
LEMMA WholeAlways == ASSUME CutsShow PROVE Spec => []WholeInv
<1>1. TypeOK /\ TypeOK' /\ JournalInv /\ WholeInv /\ [Next]_vars => WholeInv'
  BY WholeNext
<1>2. QED
  BY <1>1, WholeInit, TypeCorrect, JournalSound, PTL DEF Spec

\* Whatever writers, rotations, archivals and kills interleave, the segment files hold
\* one hash chain, the journal parses and the layout finds every segment where and as
\* it is: _ensure_fresh_locked and _reconcile_locked leave no writer with a stale head.
THEOREM ChainStaysWhole == ASSUME CutsShow PROVE Spec => []LedgerWhole
<1>1. WholeInv /\ JournalInv => LedgerWhole
  BY DEF WholeInv, DiskInv, JournalInv, LedgerWhole
<1>2. QED
  BY <1>1, WholeAlways, JournalSound, PTL
=============================================================================
