--------------------------- MODULE LedgerKeptProofs ----------------------------
(* What LedgerStore keeps of what it wrote: lines, the events its callers were  *)
(* given, the hold that the ledger shows, and a rotation that was begun; that    *)
(* it implements AppendOnlyLog: every step of every process is a step of one log *)
(* that grows at its end, or leaves the log as it is; and that LedgerReader's    *)
(* lock-free read neither reports a break nobody caused nor verifies too little. *)
EXTENDS LedgerProofs, MCReader

\* The only lines a step of p adds: the one p is writing, or the one it installs.
NewLine(p) ==
  \A k \in 1..Len(data') : \A i \in 1..Len(data'[k].lines) :
    \/ k \in 1..Len(data) /\ i \in 1..Len(data[k].lines)
    \/ pc[p] = "write2" /\ data'[k].lines[i] = wip[p]
    \/ pc[p] \in {"install", "rec_install"} /\ data'[k].lines[i] = tmp.ev

\* What a step of p does to the rest of what the invariants below speak of.
HoldEffect(p) ==
  \/ hold' = hold
  \/ PlaceHold(p) /\ hold' /\ pc'[p] = "fresh"
  \/ ReleaseUnlink(p)
PendingEffect(p) ==
  \/ js'.pending \in {js.pending, NoEntry}
  \/ RotateIntent(p) /\ js'.pending = RotatePlan(p)
TmpEffect == tmp' = tmp \/ tmp'.ev \in {NoEvent, js.pending.rot}
AckEffect(p) ==
  /\ acked' = acked \/ WriteEnd(p) \/ RotateCommit(p)
  /\ nextId' \in {nextId, nextId + 1}
OpenEffect(p) ==
  \/ data' = data
  \/ P' = P
  \/ pc[p] = "write"
  \/ pc[p] \in {"install", "rec_install"} /\ Install
KeptEffect(p) ==
  /\ NewLine(p) /\ HoldEffect(p) /\ PendingEffect(p) /\ TmpEffect /\ AckEffect(p) /\ OpenEffect(p)

\* A list of files that stays holds no new line.
LEMMA NoLine == ASSUME data' = data, NEW p \in Proc PROVE NewLine(p)
BY DEF NewLine

\* A written line is the last one of the open file, and nothing else changes.
LEMMA WrittenLine ==
  ASSUME TypeOK, JournalInv, WholeInv, NEW p \in Proc, pc[p] = "write2",
         NEW t \in {"ok", "bad"}, data' = Written(wip[p], t)
  PROVE  /\ P \in 1..Len(data) /\ Len(data') = Len(data)
         /\ \A k \in 1..Len(data) : k # P => data'[k] = data[k]
         /\ data[P].lines \in Seq(Event) /\ wip[p] \in Event
         /\ data'[P].lines = Append(data[P].lines, wip[p])
         /\ NewLine(p)
<1>1. P \in 1..Len(data) /\ data[P] \in SegmentFile /\ wip[p] \in Event /\ data \in Seq(SegmentFile)
  BY DEF TypeOK, WholeInv, WriterInv
<1>2. data[P].tail # "merged" /\ data[P].lines \in Seq(Event)
  BY <1>1 DEF WholeInv, DiskInv, TailsClean, SegmentFile
<1> DEFINE f == [lines |-> Append(data[P].lines, wip[p]), tail |-> t]
<1>3. data' = [data EXCEPT ![P] = f]
  BY <1>1, <1>2 DEF Written
<1>4. f.lines = Append(data[P].lines, wip[p])
  OBVIOUS
<1> HIDE DEF f
<1>5. /\ Len(data') = Len(data) /\ data'[P] = f
      /\ \A k \in 1..Len(data) : k # P => data'[k] = data[k]
  BY <1>1, <1>3
<1>6. ASSUME NEW k \in 1..Len(data'), NEW i \in 1..Len(data'[k].lines)
      PROVE  \/ k \in 1..Len(data) /\ i \in 1..Len(data[k].lines)
             \/ data'[k].lines[i] = wip[p]
  <2>1. CASE k # P
    BY <2>1, <1>5
  <2>2. CASE k = P
    BY <2>2, <1>2, <1>4, <1>5, <1>1
  <2>3. QED
    BY <2>1, <2>2
<1>7. NewLine(p)
  BY <1>6 DEF NewLine
<1>8. QED
  BY <1>1, <1>2, <1>4, <1>5, <1>7

\* The begin of a write adds no line.
LEMMA BeginLine ==
  ASSUME TypeOK, WholeInv, NEW p \in Proc, WriteBegin(p)
  PROVE  NewLine(p)
<1>1. CASE P = 0
  BY <1>1 DEF WriteBegin, TypeOK, NewLine
<1>2. CASE P # 0
  <2>1. P \in 1..Len(data) /\ data[P] \in SegmentFile /\ data[P].tail \in {"ok", "bad"}
        /\ data \in Seq(SegmentFile)
    BY <1>2 DEF TypeOK, WholeInv, DiskInv, TailsClean
  <2>2. data' = [data EXCEPT ![P] = [data[P] EXCEPT !.tail = "bad"]]
    BY <1>2, <2>1 DEF WriteBegin, TypeOK
  <2>3. Len(data') = Len(data) /\ \A k \in 1..Len(data) : data'[k].lines = data[k].lines
    BY <2>1, <2>2 DEF SegmentFile
  <2>4. QED
    BY <2>3 DEF NewLine
<1>3. QED
  BY <1>1, <1>2

\* An installed file holds the line of the tmp file, if that was whole.
LEMMA InstallLine ==
  ASSUME TypeOK, NEW p \in Proc, pc[p] \in {"install", "rec_install"}, Install
  PROVE  /\ NewLine(p) /\ P' = Len(data) + 1 /\ P' # 0 /\ Len(data') = Len(data) + 1
         /\ tmp.st = "full" => OpenLines' = <<tmp.ev>>
<1> DEFINE f == IF tmp.st = "full" THEN [lines |-> <<tmp.ev>>, tail |-> "ok"]
                                   ELSE [lines |-> <<>>, tail |-> "bad"]
<1>1. data' = Append(data, f) /\ P' = Len(data) + 1 /\ data \in Seq(SegmentFile)
      /\ Len(data) \in Nat
  BY DEF Install, TypeOK
<1>2. f.lines \in {<<>>, <<tmp.ev>>} /\ (tmp.st = "full" => f.lines = <<tmp.ev>>)
  OBVIOUS
<1> HIDE DEF f
<1>3. /\ Len(data') = Len(data) + 1 /\ data'[Len(data) + 1] = f
      /\ \A k \in 1..Len(data) : data'[k] = data[k]
  BY <1>1
<1>4. ASSUME NEW k \in 1..Len(data'), NEW i \in 1..Len(data'[k].lines)
      PROVE  \/ k \in 1..Len(data) /\ i \in 1..Len(data[k].lines)
             \/ data'[k].lines[i] = tmp.ev
  <2>1. CASE k \in 1..Len(data)
    BY <2>1, <1>3
  <2>2. CASE k = Len(data) + 1
    BY <2>2, <1>2, <1>3
  <2>3. QED
    BY <2>1, <2>2, <1>1, <1>3
<1>5. NewLine(p)
  BY <1>4 DEF NewLine
<1>6. OpenLines' = f.lines /\ P' # 0
  BY <1>1, <1>3 DEF OpenLines
<1>7. QED
  BY <1>1, <1>2, <1>3, <1>5, <1>6
-----------------------------------------------------------------------------
(* Every step of store.py has these effects.                                *)

\* Every step of a process only adds to what readers count, or leaves it.
LEMMA EffectKept ==
  ASSUME TypeOK, JournalInv, WholeInv, CutsShow, NEW p \in Proc,
         \/ \E g \in Ops : Acquire(p, g)
         \/ ApplyStart(p) \/ Step(p) \/ Restart(p) \/ Crash(p)
  PROVE  KeptEffect(p)
<1> USE DEF KeptEffect
<1>q. ASSUME UNCHANGED disk, UNCHANGED <<acked, nextId>> PROVE KeptEffect(p)
  BY <1>q, NoLine DEF disk, HoldEffect, PendingEffect, TmpEffect, AckEffect, OpenEffect
<1>n. ASSUME UNCHANGED <<data, tmp, hold, acked, nextId>>, js'.pending \in {js.pending, NoEntry}
      PROVE  KeptEffect(p)
  BY <1>n, NoLine DEF HoldEffect, PendingEffect, TmpEffect, AckEffect, OpenEffect
<1>r. ASSUME NEW op \in {"commit", "abort", "archive"}, JournalRecord(p, op)
      PROVE  js'.pending \in {js.pending, NoEntry}
  BY <1>r DEF JournalRecord
<1>1. CASE \/ \E g \in Ops : Acquire(p, g)
           \/ ApplyStart(p) \/ Restart(p) \/ StartReconcile(p)
  BY <1>1, <1>q DEF Acquire, ApplyStart, Restart, StartReconcile
<1>2. CASE EnsureFresh(p) \/ ReconcileEnd(p) \/ RotateRefused(p) \/ ReleaseHold(p)
  BY <1>2, <1>q DEF EnsureFresh, ReconcileEnd, RotateRefused, ReleaseHold
<1>3. CASE ApplyPlan(p) \/ ApplyLock(p) \/ ApplyBusy(p) \/ ApplyReplan(p) \/ ApplyEnd(p)
  BY <1>3, <1>q DEF ApplyPlan, ApplyLock, ApplyBusy, ApplyReplan, ApplyEnd
<1>4. CASE \/ ApplySidecar(p) \/ ApplyHeld(p) \/ ApplyCompleteMoves(p) \/ ApplyMove(p)
           \/ RotateRename(p)
  BY <1>4, <1>n DEF ApplySidecar, ApplyHeld, ApplyCompleteMoves, ApplyMove, Move, RotateRename, disk
<1>5. CASE ReconcileTornTail(p)
  BY <1>5, <1>n DEF ReconcileTornTail, TypeOK, Journal
<1>6. CASE ReconcileUnlinkTmp(p) \/ ReconcileForward(p) \/ RotateAborted(p)
  BY <1>6, NoLine DEF ReconcileUnlinkTmp, ReconcileForward, RotateAborted, HoldEffect,
                      PendingEffect, TmpEffect, AckEffect, OpenEffect
<1>7. CASE RotateTmp(p)
  BY <1>7, NoLine DEF RotateTmp, WholeInv, WriterInv, HoldEffect, PendingEffect, TmpEffect, AckEffect,
    OpenEffect
<1>8. CASE ReconcileAbort(p)
  BY <1>8, EndsRotation, <1>r, <1>n DEF ReconcileAbort, InRotation
<1>9. CASE ReconcileCommit(p)
  BY <1>9, EndsRotation, <1>r, <1>n DEF ReconcileCommit, InRotation
<1>10. CASE RotateRenameRefused(p)
  BY <1>10, EndsRotation, <1>r, <1>n DEF RotateRenameRefused, InRotation
<1>11. CASE RotateCommit(p)
  BY <1>11, EndsRotation, <1>r, NoLine DEF RotateCommit, InRotation, HoldEffect, PendingEffect, TmpEffect,
    AckEffect, OpenEffect
<1>12. CASE ApplyCommit(p)
  BY <1>12, ArchiveRecord, <1>r, <1>n DEF ApplyCommit
<1>13. CASE RotateIntent(p)
  BY <1>13, IntentRecord, NoLine DEF JournalRecord, RotateIntent, HoldEffect, PendingEffect, TmpEffect,
    AckEffect, OpenEffect
<1>14. CASE ReconcileInstall(p) \/ RotateInstall(p)
  BY <1>14, InstallLine DEF ReconcileInstall, RotateInstall, Install, HoldEffect, PendingEffect, TmpEffect,
    AckEffect, OpenEffect
<1>15. CASE WriteBegin(p)
  BY <1>15, BeginLine DEF WriteBegin, HoldEffect, PendingEffect, TmpEffect, AckEffect, OpenEffect
<1>16. CASE WriteEnd(p)
  BY <1>16, WrittenLine DEF WriteEnd, HoldEffect, PendingEffect, TmpEffect, AckEffect, OpenEffect
<1>17. CASE PlaceHold(p)
  BY <1>17, NoLine DEF PlaceHold, HoldEffect, Goto, TypeOK, PendingEffect, TmpEffect, AckEffect, OpenEffect
<1>18. CASE ReleaseUnlink(p)
  BY <1>18, NoLine DEF ReleaseUnlink, HoldEffect, PendingEffect, TmpEffect, AckEffect, OpenEffect
<1>19. CASE Crash(p)
  <2>1. CASE UNCHANGED disk
    BY <2>1, <1>19, <1>q DEF Crash
  <2>2. CASE TearJournal(p)
    BY <2>2, <1>19, <1>n DEF TearJournal, TypeOK, Journal, Crash
  <2>3. CASE TearTmp(p)
    BY <2>3, <1>19, NoLine DEF Crash, TearTmp, HoldEffect, PendingEffect, TmpEffect, AckEffect, OpenEffect
  <2>4. CASE TearLine(p)
    <3>1. NewLine(p)
      BY NoLine, <2>4, WrittenLine DEF TearLine, CutsShow
    <3>2. QED
      BY <2>4, <3>1, <1>19 DEF Crash, TearLine, HoldEffect, PendingEffect, TmpEffect, AckEffect, OpenEffect
  <2>5. QED
    BY <1>19, <2>1, <2>2, <2>3, <2>4 DEF Crash
<1>20. QED
  BY <1>1, <1>2, <1>3, <1>4, <1>5, <1>6, <1>7, <1>8, <1>9, <1>10, <1>11, <1>12, <1>13, <1>14,
     <1>15, <1>16, <1>17, <1>18, <1>19 DEF Step, Reconcile, Rotate, Apply

-----------------------------------------------------------------------------
(* The hold.                                                                *)

\* Without the marker, every placement is followed by a release.
LEMMA HoldLedgeredStep ==
  ASSUME TypeOK, TypeOK', JournalInv, WholeInv, HoldInv, Longer, NEW p \in Proc, KeptEffect(p)
  PROVE  HoldLedgered'
<1> SUFFICES ASSUME ~hold', NEW k \in 1..Len(data'), NEW i \in 1..Len(data'[k].lines),
                    data'[k].lines[i].type = "placed"
             PROVE  \E m \in k..Len(data') : \E j \in 1..Len(data'[m].lines) :
                      (m > k \/ j > i) /\ data'[m].lines[j].type = "released"
  BY DEF HoldLedgered
<1>t. Len(data) \in Nat /\ data \in Seq(SegmentFile) /\ P \in 0..Len(data) /\ Len(data') \in Nat
  BY LayoutOK DEF TypeOK
<1>l. \A n \in 1..Len(data) : Len(data[n].lines) \in Nat /\ data[n].lines \in Seq(Event)
  <2>1. ASSUME NEW n \in 1..Len(data)
        PROVE  data[n].lines \in Seq(Event)
    <3>1. data[n] \in SegmentFile
      BY <1>t
    <3>2. QED
      BY <3>1 DEF SegmentFile
  <2>2. QED
    BY <2>1
<1>1. CASE ~hold
  <2>1. k \in 1..Len(data) /\ i \in 1..Len(data[k].lines)
    <3>1. CASE pc[p] = "write2" /\ data'[k].lines[i] = wip[p]
      BY <3>1, <1>1 DEF HoldInv, HoldKnown, EventType, Locked, Settled
    <3>2. CASE data'[k].lines[i] = tmp.ev
      BY <3>2 DEF HoldInv
    <3>3. QED
      BY <3>1, <3>2 DEF KeptEffect, NewLine
  <2>2. data[k].lines[i].type = "placed"
    BY <2>1 DEF Longer
  <2>3. PICK m \in k..Len(data) : \E j \in 1..Len(data[m].lines) :
               (m > k \/ j > i) /\ data[m].lines[j].type = "released"
    BY <2>1, <2>2, <1>1 DEF HoldInv, HoldLedgered
  <2>4. PICK j \in 1..Len(data[m].lines) :
               (m > k \/ j > i) /\ data[m].lines[j].type = "released"
    BY <2>3
  <2>5. m \in 1..Len(data) /\ m \in k..Len(data')
    BY <2>1, <1>t DEF Longer
  <2>6. j \in 1..Len(data'[m].lines) /\ data'[m].lines[j] = data[m].lines[j]
    <3>1. Len(data'[m].lines) >= Len(data[m].lines) /\ data'[m].lines[j] = data[m].lines[j]
      BY <2>5, <2>4 DEF Longer
    <3>2. data'[m] \in SegmentFile
      BY <2>5, <1>t DEF TypeOK, Longer
    <3>3. Len(data'[m].lines) \in Nat
      BY <3>2 DEF SegmentFile
    <3>4. QED
      BY <3>1, <3>3, <2>5, <1>l
  <2>7. QED
    BY <2>4, <2>5, <2>6
<1>2. CASE hold
  <2>1. ReleaseUnlink(p)
    BY <1>2 DEF KeptEffect, HoldEffect
  <2>2. data' = data /\ P # 0 /\ OpenLines # <<>> /\ OpenLines[Len(OpenLines)].type = "released"
    BY <2>1 DEF ReleaseUnlink, HoldInv, HoldKnown
  <2>3. P = Len(data) /\ P \in 1..Len(data) /\ OpenLines = data[P].lines
    BY <2>2, <1>t DEF WholeInv, DiskInv, FullChainReadable, OpenLines
  <2> DEFINE j == Len(data[P].lines)
  <2>4. j \in 1..Len(data[P].lines) /\ data[P].lines[j].type = "released"
    BY <2>2, <2>3, <1>l
  <2>5. P \in k..Len(data) /\ (P > k \/ j > i)
    <3>1. CASE k = P
      BY <3>1, <2>2, <2>3, <1>l, <2>4, <1>t
    <3>2. CASE k # P
      BY <3>2, <2>2, <2>3, <1>t
    <3>3. QED
      BY <3>1, <3>2
  <2>6. QED
    BY <2>2, <2>4, <2>5
<1>3. QED
  BY <1>1, <1>2 DEF HoldInv, TypeOK

\* A rotation writes no hold event.
LEMMA RotatedStep ==
  ASSUME HoldInv, NEW p \in Proc, KeptEffect(p)
  PROVE  /\ tmp'.ev.type \in {"none", "rotated"}
         /\ js'.pending.rot.type \in {"none", "rotated"}
BY DEF HoldInv, KeptEffect, TmpEffect, PendingEffect, NoEvent, NoEntry, RotatePlan

\* What another process relies on stays: it holds the lock, or relies on nothing.
LEMMA HoldOthers ==
  ASSUME TypeOK, JournalInv, HoldInv, NEW p \in Proc, Frame(p), HoldEffect(p),
         lock = p \/ Outside, NEW q \in Proc, q # p, wip'[q] = wip[q]
  PROVE  HoldKnown(q)'
<1>1. pc'[q] = pc[q] /\ goal'[q] = goal[q] /\ HoldKnown(q)
  BY DEF Frame, HoldInv
<1>2. pc[q] \in Locked => lock = q
  BY DEF JournalInv, LockExcludes
<1>3. pc[q] \in Locked => hold' = hold /\ UNCHANGED <<P, OpenLines>>
  BY <1>2 DEF PlaceHold, ReleaseUnlink, JournalInv, LockExcludes, Locked, Settled, Outside, OpenLines,
    HoldEffect
<1>4. CASE pc[q] \in Locked
  BY <1>1, <1>3, <1>4 DEF HoldKnown
<1>5. CASE pc[q] \notin Locked
  BY <1>1, <1>5 DEF HoldKnown, Locked, Settled
<1>6. QED
  BY <1>4, <1>5

\* What the acting process relies on: it has put the marker there itself, and it
\* takes it away only after its release is written.
LEMMA HoldOwn ==
  ASSUME TypeOK, JournalInv, WholeInv, HoldInv, NEW p \in Proc,
         \/ \E g \in Ops : Acquire(p, g)
         \/ ApplyStart(p) \/ Step(p) \/ Restart(p) \/ Crash(p)
  PROVE  HoldKnown(p)'
<1> USE DEF Goto
<1>t. /\ pc \in [Proc -> Label] /\ goal \in [Proc -> Goal] /\ wip \in [Proc -> Event]
  BY DEF TypeOK
<1>i. HoldKnown(p) /\ WriterInv(p)
  BY DEF HoldInv, WholeInv
\* Inside the lock, a step that leaves the marker and the goal alone.
<1>g. ASSUME hold' = hold, goal'[p] = goal[p], pc[p] \in Locked \ {"place"},
             pc'[p] \notin {"write2", "unlink"}
      PROVE  HoldKnown(p)'
  BY <1>g, <1>i DEF HoldKnown
\* A step to where nothing is known.
<1>o. ASSUME pc'[p] \notin Locked PROVE HoldKnown(p)'
  BY <1>o DEF HoldKnown, Locked, Settled
<1>n. ASSUME goal'[p] # "place", pc'[p] \notin {"write2", "unlink"} PROVE HoldKnown(p)'
  BY <1>n DEF HoldKnown
<1> USE DEF Locked, Settled, InRotation
<1>1. CASE \E g \in Ops : Acquire(p, g)
  BY <1>1, <1>t DEF Acquire, HoldKnown
<1>2. CASE \/ ApplyStart(p) \/ Restart(p) \/ Crash(p) \/ ApplyPlan(p) \/ ApplyBusy(p)
           \/ ApplyHeld(p) \/ ApplyReplan(p) \/ ApplyCommit(p) \/ ApplyMove(p)
           \/ ApplyCompleteMoves(p) \/ RotateRefused(p) \/ RotateCommit(p)
           \/ RotateAborted(p) \/ ReleaseUnlink(p)
  <2>1. pc'[p] \in {"a_moves", "start", "idle", "down", "a_end", "a_side", "a_plan", "a_move"}
    BY <1>2, <1>t DEF ApplyStart, Restart, Crash, ApplyPlan, ApplyBusy, ApplyHeld, ApplyReplan,
       ApplyCommit, ApplyMove, ApplyCompleteMoves, RotateRefused, RotateCommit, RotateAborted,
       ReleaseUnlink, Unlock
  <2>2. QED
    BY <2>1, <1>o
<1>3. CASE ApplySidecar(p)
  BY <1>3, <1>t, <1>o DEF ApplySidecar
<1>4. CASE ApplyLock(p) \/ ApplyEnd(p)
  BY <1>4, <1>t, <1>n DEF ApplyLock, ApplyEnd
<1>5. CASE StartReconcile(p)
  BY <1>o, <1>n, <1>5, <1>t DEF StartReconcile
<1>6. CASE EnsureFresh(p) \/ ReconcileEnd(p)
  <2>1. /\ hold' = hold /\ pc[p] \in {"fresh", "rec_end"}
        /\ \/ pc'[p] \in {"idle", "a_end"}
           \/ goal'[p] = goal[p] /\ pc'[p] \in {"reconcile", "intent", "a_commit", "write"}
    BY <1>t, <1>6 DEF AfterFresh, EnsureFresh, Fail, Unlock, Stay, disk, ReconcileEnd
  <2>2. QED
    BY <2>1, <1>g, <1>o
<1>7. CASE \/ ReconcileTornTail(p) \/ ReconcileUnlinkTmp(p) \/ ReconcileAbort(p)
           \/ ReconcileForward(p) \/ ReconcileCommit(p)
           \/ RotateIntent(p) \/ RotateTmp(p) \/ RotateRename(p) \/ RotateRenameRefused(p)
  BY <1>7, <1>t, <1>g DEF ReconcileTornTail, ReconcileUnlinkTmp, ReconcileAbort, ReconcileForward,
    ReconcileCommit, RotateIntent, RotateTmp, RotateRename, RotateRenameRefused
<1>8. CASE ReconcileInstall(p) \/ RotateInstall(p)
  BY <1>8, <1>t, <1>g DEF ReconcileInstall, RotateInstall, Install
<1>9. CASE WriteBegin(p)
  BY <1>9, <1>t, <1>i DEF WriteBegin, HoldKnown
<1>10. CASE WriteEnd(p)
  <2>1. CASE goal[p] = "release"
    BY <1>10, <2>1, <1>t, <1>i, WrittenGrown, OpenTypes DEF WriteEnd, Stay, HoldKnown, EventType, TypeOK,
      DiskTypeOK
  <2>2. CASE goal[p] # "release"
    <3>1. pc'[p] = "idle"
      BY <1>10, <2>2, <1>t DEF WriteEnd, Unlock
    <3>2. QED
      BY <3>1, <1>o
  <2>3. QED
    BY <2>1, <2>2
<1>11. CASE PlaceHold(p)
  BY <1>11, <1>t, <1>o DEF PlaceHold, Unlock, HoldKnown
<1>12. CASE ReleaseHold(p)
  BY <1>12, <1>t, <1>i, <1>o, <1>n DEF ReleaseHold, Unlock, Stay, WriterInv, disk
<1>13. QED
  BY <1>1, <1>2, <1>3, <1>4, <1>5, <1>6, <1>7, <1>8, <1>9, <1>10, <1>11, <1>12
     DEF Step, Reconcile, Rotate, Apply

\* Nobody holds, and nothing is held, at the start.
LEMMA HoldInit == Init => HoldInv
BY DEF Init, EmptyJournal, HoldLedgered, HoldInv, HoldKnown, NoEvent, NoEntry

\* A step keeps the hold and the ledger in agreement.
LEMMA HoldStep ==
  ASSUME TypeOK, TypeOK', JournalInv, WholeInv, HoldInv, CutsShow, [Next]_vars
  PROVE  HoldInv'
<1>1. CASE Next
  <2>1. PICK p \in Proc : \/ \E g \in Ops : Acquire(p, g)
                          \/ ApplyStart(p) \/ Step(p) \/ Restart(p) \/ Crash(p)
    BY <1>1 DEF Next
  <2>2. KeptEffect(p) /\ Longer /\ Frame(p)
    BY <2>1, EffectKept, WholeStep, FrameStep
  <2>3. (lock = p \/ Outside) /\ \A q \in Proc \ {p} : wip'[q] = wip[q]
    BY <2>1, LockedStep DEF WholeInv
  <2>4. HoldLedgered'
    BY <2>2, HoldLedgeredStep
  <2>5. tmp'.ev.type \in {"none", "rotated"} /\ js'.pending.rot.type \in {"none", "rotated"}
    BY <2>2, RotatedStep
  <2>6. HoldKnown(p)'
    BY <2>1, HoldOwn
  <2>7. ASSUME NEW q \in Proc, q # p PROVE HoldKnown(q)'
    BY <2>2, <2>3, <2>7, HoldOthers DEF KeptEffect
  <2>8. QED
    BY <2>4, <2>5, <2>6, <2>7 DEF HoldInv
<1>2. CASE UNCHANGED vars
  BY <1>2 DEF vars, disk, HoldInv, HoldLedgered, HoldKnown, OpenLines
<1>3. QED
  BY <1>1, <1>2

\* The legal hold and the ledger never disagree the wrong way: without the marker file
\* no placement in the chain is left without its release, wherever place_hold,
\* release_hold or the writer in between is killed.
THEOREM HoldStaysLedgered == ASSUME CutsShow PROVE Spec => []HoldLedgered
<1>1. TypeOK /\ TypeOK' /\ JournalInv /\ WholeInv /\ HoldInv /\ [Next]_vars => HoldInv'
  BY HoldStep
<1>2. HoldInv => HoldLedgered
  BY DEF HoldInv
<1>3. QED
  BY <1>1, <1>2, HoldInit, WholeAlways, TypeCorrect, JournalSound, PTL DEF Spec

LinesPermanent == [][Longer]_vars

\* A line that is in a segment file stays there as it is: no step of any process, not a
\* rotation, an archival, a recovery or a kill, takes a line away or rewrites one.
THEOREM LinesNeverChange == ASSUME CutsShow PROVE Spec => LinesPermanent
<1>1. TypeOK /\ TypeOK' /\ JournalInv /\ WholeInv /\ [Next]_vars => [Longer]_vars
  BY WholeStep DEF Next
<1>2. QED
  BY <1>1, WholeAlways, TypeCorrect, JournalSound, PTL DEF Spec, LinesPermanent

-----------------------------------------------------------------------------
(* What callers were given.                                                 *)

\* An event that was returned to a caller is in a file.
LEMMA AckedStep ==
  ASSUME TypeOK, TypeOK', JournalInv, WholeInv, AckInv, Longer, NEW p \in Proc, KeptEffect(p)
  PROVE  AckDurable'
<1>t. Len(data) \in Nat /\ data \in Seq(SegmentFile) /\ P \in 0..Len(data)
      /\ Len(data') \in Nat /\ data' \in Seq(SegmentFile)
  BY LayoutOK DEF TypeOK
<1>l. /\ \A n \in 1..Len(data) : Len(data[n].lines) \in Nat
      /\ \A n \in 1..Len(data') : Len(data'[n].lines) \in Nat
  BY <1>t DEF SegmentFile
<1> SUFFICES ASSUME NEW e \in acked'
             PROVE  \E k \in 1..Len(data') : \E i \in 1..Len(data'[k].lines) :
                      data'[k].lines[i].id = e
  BY DEF AckDurable
<1>1. ASSUME NEW k \in 1..Len(data), NEW i \in 1..Len(data[k].lines), data[k].lines[i].id = e
      PROVE  k \in 1..Len(data') /\ i \in 1..Len(data'[k].lines) /\ data'[k].lines[i].id = e
  <2>1. k \in 1..Len(data')
    BY <1>1, <1>t DEF Longer
  <2>2. Len(data'[k].lines) >= Len(data[k].lines) /\ data'[k].lines[i] = data[k].lines[i]
    BY <1>1 DEF Longer
  <2>3. QED
    BY <1>1, <2>1, <2>2, <1>l
<1>2. CASE e \in acked
  BY <1>1, <1>2 DEF AckInv, AckDurable
<1>3. CASE e \notin acked /\ WriteEnd(p)
  <2>1. e = wip[p].id
    BY <1>3 DEF WriteEnd
  <2>2. /\ P \in 1..Len(data) /\ Len(data') = Len(data)
        /\ data[P].lines \in Seq(Event) /\ wip[p] \in Event
        /\ data'[P].lines = Append(data[P].lines, wip[p])
    BY <1>3, WrittenLine DEF WriteEnd
  <2> DEFINE i == Len(data[P].lines) + 1
  <2>3. i \in 1..Len(data'[P].lines) /\ data'[P].lines[i] = wip[p]
    BY <2>2
  <2>4. QED
    BY <2>1, <2>2, <2>3
<1>4. CASE e \notin acked /\ RotateCommit(p)
  <2>1. e = wip[p].id /\ pc[p] = "commit" /\ data' = data
    BY <1>4 DEF RotateCommit
  <2>2. wip[p] = js.pending.rot /\ P # 0 /\ Renamed
    BY <2>1 DEF AckInv, RotationKnown, WholeInv, WriterInv
  <2>3. OpenLines # <<>> /\ OpenLines[1] = js.pending.rot
    BY <2>2 DEF AckInv, PendingOpened
  <2>4. P \in 1..Len(data) /\ OpenLines = data[P].lines
    BY <2>2, <1>t DEF OpenLines
  <2>5. 1 \in 1..Len(data[P].lines)
    BY <2>4, <1>t, <2>3 DEF SegmentFile
  <2>6. QED
    BY <2>1, <2>2, <2>3, <2>4, <2>5
<1>5. QED
  BY <1>2, <1>3, <1>4 DEF KeptEffect, AckEffect

\* An installed rotation event stays the first line of the open segment.
LEMMA OpenedStep ==
  ASSUME TypeOK, TypeOK', JournalInv, WholeInv, AckInv, DiskEffect, Longer,
         NEW p \in Proc, KeptEffect(p)
  PROVE  PendingOpened'
<1> SUFFICES ASSUME Renamed', P' # 0
             PROVE  OpenLines' # <<>> /\ OpenLines'[1] = js'.pending.rot
  BY DEF PendingOpened
<1>p. js'.pending = js.pending /\ js.pending # NoEntry
  <2>1. js'.pending # NoEntry
    BY DEF Renamed
  <2>2. ~RotateIntent(p)
    BY IntentSpoken DEF RotateIntent, WholeInv, WriterInv
  <2>3. QED
    BY <2>1, <2>2 DEF KeptEffect, PendingEffect
<1>s. ASSUME closed' = closed PROVE Renamed
  BY <1>s, <1>p DEF Renamed
<1>1. CASE Spoken
  BY <1>1, <1>s, <1>p DEF Spoken, OpenLines, AckInv, PendingOpened
<1>2. CASE Closing
  BY <1>2 DEF Closing
<1>3. ASSUME NEW S \in SUBSET PendingMoves, Move(S)
      PROVE  OpenLines' # <<>> /\ OpenLines'[1] = js'.pending.rot
  BY <1>3, MoveStep, <1>p DEF WholeInv, Move, OpenLines, AckInv, PendingOpened
<1>4. ASSUME NEW f \in SegmentFile, Born(f)
      PROVE  OpenLines' # <<>> /\ OpenLines'[1] = js'.pending.rot
  <2>1. P = 0 /\ data' = Append(data, f) /\ Renamed
    BY <1>4, <1>s DEF Born
  <2>2. data' # data
    BY <2>1 DEF TypeOK
  <2>3. pc[p] # "write"
    BY <1>p DEF JournalInv, JournalPhase, Settled
  <2>4. pc[p] \in {"install", "rec_install"} /\ Install
    BY <2>1, <2>2, <2>3 DEF KeptEffect, OpenEffect
  <2>5. tmp.st = "full" /\ tmp.ev = js.pending.rot
    BY <2>4 DEF AckInv, RotationKnown, WholeInv, WriterInv
  <2>6. OpenLines' = <<js.pending.rot>>
    BY <2>4, <2>5, InstallLine
  <2>7. QED
    BY <2>6, <1>p
<1>5. ASSUME NEW f \in SegmentFile, Grown(f)
      PROVE  OpenLines' # <<>> /\ OpenLines'[1] = js'.pending.rot
  BY <1>5, LayoutOK, <1>s, OpenTypes, OpenTypesNext, <1>p DEF Grown, TypeOK, Longer, OpenLines, AckInv,
    PendingOpened, DiskTypeOK
<1>6. QED
  BY <1>1, <1>2, <1>3, <1>4, <1>5 DEF DiskEffect

\* What another process relies on stays.
LEMMA RotationOthers ==
  ASSUME TypeOK, JournalInv, AckInv, NEW p \in Proc, Frame(p), lock = p \/ Outside,
         NEW q \in Proc, q # p, wip'[q] = wip[q]
  PROVE  RotationKnown(q)'
BY DEF Frame, AckInv, JournalInv, LockExcludes, RotationKnown, Outside, Locked, InRotation

\* The one step that leads to each point of a rotation, of its recovery and of a write.
Entered(p) ==
  /\ pc'[p] = "tmp" => RotateIntent(p)
  /\ pc'[p] = "rename" => RotateTmp(p)
  /\ pc'[p] = "install" => RotateRename(p)
  /\ pc'[p] = "commit" => RotateInstall(p)
  /\ pc'[p] = "rec_install" => ReconcileForward(p)
  /\ pc'[p] = "write2" => WriteBegin(p)

\* A process comes to a write only by the step before it.
LEMMA EnteredStep ==
  ASSUME TypeOK, NEW p \in Proc,
         \/ \E g \in Ops : Acquire(p, g)
         \/ ApplyStart(p) \/ Step(p) \/ Restart(p) \/ Crash(p)
  PROVE  Entered(p)
<1> USE DEF Goto
<1>t. pc \in [Proc -> Label]
  BY DEF TypeOK
<1>o. ASSUME pc'[p] \notin {"tmp", "rename", "install", "rec_install", "commit", "write2"}
      PROVE  Entered(p)
  BY <1>o DEF Entered
<1>1. CASE \/ ApplyStart(p) \/ Restart(p) \/ Crash(p) \/ ApplyPlan(p) \/ ApplyBusy(p)
           \/ ApplyHeld(p) \/ ApplyReplan(p) \/ ApplyCommit(p) \/ ApplyMove(p)
           \/ ApplyCompleteMoves(p) \/ RotateRefused(p) \/ RotateCommit(p)
           \/ RotateAborted(p) \/ ReleaseUnlink(p) \/ ApplyLock(p) \/ ApplyEnd(p)
  <2>1. pc'[p] \in {"a_moves", "start", "idle", "down", "a_end", "a_side", "a_plan", "a_move", "fresh"}
    BY <1>1, <1>t DEF ApplyStart, Restart, Crash, ApplyPlan, ApplyBusy, ApplyHeld, ApplyReplan,
       ApplyCommit, ApplyMove, ApplyCompleteMoves, RotateRefused, RotateCommit, RotateAborted,
       ReleaseUnlink, ApplyLock, ApplyEnd, Unlock
  <2>2. QED
    BY <2>1, <1>o
<1>2. CASE ApplySidecar(p)
  BY <1>2, <1>t, <1>o DEF ApplySidecar
<1>3. CASE EnsureFresh(p) \/ ReconcileEnd(p)
  BY <1>t, <1>o, <1>3 DEF AfterFresh, EnsureFresh, Fail, Unlock, ReconcileEnd
<1>4. CASE \/ ReconcileTornTail(p) \/ ReconcileUnlinkTmp(p) \/ ReconcileAbort(p)
           \/ ReconcileCommit(p) \/ ReconcileInstall(p) \/ RotateRenameRefused(p)
           \/ StartReconcile(p)
  BY <1>4, <1>t, <1>o DEF ReconcileTornTail, ReconcileUnlinkTmp, ReconcileAbort, ReconcileCommit,
    ReconcileInstall, RotateRenameRefused, StartReconcile
<1>5. CASE WriteEnd(p) \/ PlaceHold(p) \/ ReleaseHold(p)
  <2>1. pc'[p] \in {"unlink", "idle", "fresh"}
    BY <1>t, <1>5 DEF WriteEnd, Unlock, PlaceHold, ReleaseHold
  <2>2. QED
    BY <2>1, <1>o
<1>6. CASE \E g \in Ops : Acquire(p, g)
  BY <1>6, <1>t, <1>o DEF Acquire
<1>7. CASE ReconcileForward(p)
  BY <1>7, <1>t DEF ReconcileForward, Entered
<1>8. CASE RotateIntent(p)
  BY <1>8, <1>t DEF RotateIntent, Entered
<1>9. CASE RotateTmp(p)
  BY <1>9, <1>t DEF RotateTmp, Entered
<1>10. CASE RotateRename(p)
  BY <1>10, <1>t DEF RotateRename, Entered
<1>11. CASE RotateInstall(p)
  BY <1>11, <1>t DEF RotateInstall, Entered
<1>12. CASE WriteBegin(p)
  BY <1>12, <1>t DEF WriteBegin, Entered
<1>13. QED
  BY <1>1, <1>2, <1>3, <1>4, <1>5, <1>6, <1>7, <1>8, <1>9, <1>10, <1>11, <1>12
     DEF Step, Reconcile, Rotate, Apply

\* What the rotating process relies on: it wrote the event itself.
LEMMA RotationOwn ==
  ASSUME TypeOK, JournalInv, WholeInv, AckInv, NEW p \in Proc, Entered(p)
  PROVE  RotationKnown(p)'
<1>t. pc \in [Proc -> Label] /\ wip \in [Proc -> Event]
  BY DEF TypeOK
<1>i. RotationKnown(p)
  BY DEF AckInv
<1>1. CASE pc'[p] = "tmp"
  BY <1>1, <1>t, IntentRecord DEF Entered, RotateIntent, JournalRecord, RotationKnown
<1>2. CASE pc'[p] = "rename"
  BY <1>2, <1>i DEF Entered, RotateTmp, RotationKnown
<1>3. CASE pc'[p] = "install"
  BY <1>3, <1>i DEF Entered, RotateRename, RotationKnown
<1>4. CASE pc'[p] = "commit"
  BY <1>4, InstallLine, <1>i DEF Entered, RotateInstall, Install, RotationKnown
<1>5. CASE pc'[p] = "rec_install"
  BY <1>5, <1>t DEF Entered, ReconcileForward, Goto, RotationKnown
<1>6. QED
  BY <1>1, <1>2, <1>3, <1>4, <1>5 DEF RotationKnown

\* Nothing is acknowledged and nothing pending at the start.
LEMMA AckInit == Init => AckInv
BY DEF Init, AckInv, AckDurable, PendingOpened, RotationKnown

\* A step keeps what callers were given.
LEMMA AckStep ==
  ASSUME TypeOK, TypeOK', JournalInv, WholeInv, AckInv, CutsShow, [Next]_vars
  PROVE  AckInv'
<1>1. CASE Next
  <2>1. PICK p \in Proc : \/ \E g \in Ops : Acquire(p, g)
                          \/ ApplyStart(p) \/ Step(p) \/ Restart(p) \/ Crash(p)
    BY <1>1 DEF Next
  <2>2. KeptEffect(p) /\ Longer /\ Frame(p) /\ DiskEffect
    BY <2>1, EffectKept, WholeStep, FrameStep, EffectStep
  <2>3. (lock = p \/ Outside) /\ \A q \in Proc \ {p} : wip'[q] = wip[q]
    BY <2>1, LockedStep DEF WholeInv
  <2>4. AckDurable' /\ PendingOpened'
    BY <2>2, AckedStep, OpenedStep
  <2>5. RotationKnown(p)'
    BY <2>1, EnteredStep, RotationOwn
  <2>6. ASSUME NEW q \in Proc, q # p PROVE RotationKnown(q)'
    BY <2>2, <2>3, <2>6, RotationOthers
  <2>7. QED
    BY <2>4, <2>5, <2>6 DEF AckInv
<1>2. CASE UNCHANGED vars
  BY <1>2 DEF vars, disk, AckInv, AckDurable, PendingOpened, RotationKnown, Renamed, OpenLines
<1>3. QED
  BY <1>1, <1>2

\* Acknowledged events are among the lines readers count.
LEMMA AckAlways == ASSUME CutsShow PROVE Spec => []AckInv
<1>1. TypeOK /\ TypeOK' /\ JournalInv /\ WholeInv /\ AckInv /\ [Next]_vars => AckInv'
  BY AckStep
<1>2. QED
  BY <1>1, AckInit, WholeAlways, TypeCorrect, JournalSound, PTL DEF Spec

\* An event whose append or rotation has returned is in a segment file for good, when a
\* cut write shows.  Without that assumption it is not (the run vio_ack).
THEOREM AckedStays == ASSUME CutsShow PROVE Spec => []AckDurable
<1>1. AckInv => AckDurable
  BY DEF AckInv
<1>2. QED
  BY <1>1, AckAlways, PTL

\* The one thing in the way of a pending rotation that _reconcile_locked could meet, a
\* closed file or an open segment that its intent does not describe, never comes about.
THEOREM RecoveryAlwaysMatches == ASSUME CutsShow PROVE Spec => []RecoveryNeverRefuses
<1>1. TypeOK /\ WholeInv /\ AckInv => RecoveryNeverRefuses
  <2> SUFFICES ASSUME TypeOK, WholeInv, AckInv, Renamed PROVE RenamedMatches
    BY DEF RecoveryNeverRefuses
  <2> DEFINE n == js.pending.n
  <2>1. /\ n = Len(js.closed) + 1 /\ n < MaxSeg /\ js.pending # NoEntry /\ closed[n] # 0
        /\ js.pending.start <= js.pending.end /\ js.pending \in Entry
    BY LayoutOK DEF WholeInv, DiskInv, PendingNext, Renamed
  <2>2. /\ LayoutClosed = Append(js.closed, js.pending)
        /\ Len(LayoutClosed) = n /\ LayoutClosed[n] = js.pending /\ n \in 1..Len(LayoutClosed)
        /\ n \in Seg
    BY <2>1, LayoutOK DEF LayoutClosed, Seg
  <2>3. closed[n] = n
    BY <2>1, <2>2 DEF WholeInv, DiskInv, NamesMatch
  <2>4. /\ Len(data[n].lines) = js.pending.end - js.pending.start + 1
        /\ LastId(n) = js.pending.head
    <3>1. \A i \in 1..Len(LayoutClosed) :
            /\ Len(data[i].lines) = LayoutClosed[i].end - LayoutClosed[i].start + 1
            /\ LastId(i) = LayoutClosed[i].head
      BY DEF WholeInv, DiskInv, FullChainReadable
    <3> HIDE DEF n
    <3>2. QED
      BY <2>2, <3>1
  <2>5. data[n].lines # <<>>
    BY <2>1, <2>4 DEF Entry
  <2>6. P # 0 => OpenLines # <<>> /\ OpenLines[1].id = js.pending.rot.id
    BY DEF AckInv, PendingOpened
  <2>7. QED
    BY <2>3, <2>4, <2>5, <2>6 DEF RenamedMatches, LastId
<1>2. QED
  BY <1>1, WholeAlways, AckAlways, TypeCorrect, PTL

-----------------------------------------------------------------------------
(* The refinement of AppendOnlyLog: numbers and lines.                      *)

\* The types of what the log is made of, and where the open segment stands.
SpanTypes ==
  /\ Len(data) \in Nat /\ Len(LayoutClosed) \in Nat /\ Sealed \in Nat
  /\ LayoutClosed \in Seq(Entry)
  /\ Len(data) \in {Len(LayoutClosed), Len(LayoutClosed) + 1}
  /\ NextStart(LayoutClosed) \in Nat
  /\ \A k \in 1..Len(data) : data[k].lines \in Seq(Event) /\ Len(data[k].lines) \in Nat
  /\ \A k \in 1..Len(data) + 1 : SegStart(k) \in Nat
  /\ \A k \in 1..Len(LayoutClosed) :
       /\ LayoutClosed[k] \in Entry
       /\ Len(data[k].lines) = LayoutClosed[k].end - LayoutClosed[k].start + 1
       /\ LastId(k) = LayoutClosed[k].head
  /\ P = 0 => Len(data) = Len(LayoutClosed) /\ OpenLines = <<>>
  /\ P # 0 => /\ P = Len(data) /\ P = Len(LayoutClosed) + 1
              /\ OpenLines = data[P].lines

\* Segments and their spans are typed as the proofs of this section need them.
LEMMA SpanTyped == TypeOK /\ DiskInv => SpanTypes
<1> SUFFICES ASSUME TypeOK, DiskInv PROVE SpanTypes
  OBVIOUS
<1> DEFINE N == Len(LayoutClosed)
<1>1. /\ LayoutClosed \in Seq(Entry) /\ N \in Nat /\ Len(data) \in Nat /\ data \in Seq(SegmentFile)
  BY LayoutOK DEF TypeOK
<1>2. ASSUME NEW k \in 1..Len(data)
      PROVE  data[k].lines \in Seq(Event) /\ Len(data[k].lines) \in Nat
  <2>1. data[k] \in SegmentFile
    BY <1>1
  <2>2. data[k].lines \in Seq(Event)
    BY <2>1 DEF SegmentFile
  <2>3. QED
    BY <2>2
<1>3. /\ P \in {0, N + 1}
      /\ P = 0 => Len(data) = N
      /\ P # 0 => Len(data) = P
  BY DEF DiskInv, FullChainReadable
<1>4. ASSUME NEW k \in 1..N
      PROVE  /\ LayoutClosed[k] \in Entry
             /\ LayoutClosed[k].start \in Nat /\ LayoutClosed[k].end \in Nat
             /\ Len(data[k].lines) = LayoutClosed[k].end - LayoutClosed[k].start + 1
             /\ LastId(k) = LayoutClosed[k].head
  <2>1. LayoutClosed[k] \in Entry
    BY <1>1
  <2>2. QED
    BY <2>1 DEF Entry, DiskInv, FullChainReadable
<1>5. NextStart(LayoutClosed) \in Nat
  BY <1>1, <1>4 DEF NextStart
<1>6. OpenLines \in Seq(Event) /\ Len(OpenLines) \in Nat
  <2>1. OpenLines \in Seq(Event)
    BY OpenTypes DEF TypeOK, DiskTypeOK
  <2>2. QED
    BY <2>1
<1>7. Sealed \in Nat
  BY <1>5, <1>6 DEF Sealed
<1>8. ASSUME NEW k \in 1..Len(data) + 1 PROVE SegStart(k) \in Nat
  BY <1>1, <1>4, <1>5 DEF SegStart
<1>9. /\ P = 0 => OpenLines = <<>>
      /\ P # 0 => OpenLines = data[P].lines
  BY DEF OpenLines
<1>10. QED
  BY <1>1, <1>2, <1>3, <1>4, <1>5, <1>7, <1>8, <1>9 DEF SpanTypes

\* The same after a step.
LEMMA SpanTypedNext == TypeOK' /\ DiskInv' => SpanTypes'
BY SpanTyped, PTL

\* The last segment file ends with the last number.
LastFits == Len(data) # 0 => SegStart(Len(data)) + Len(data[Len(data)].lines) = Sealed

\* The last segment's lines end where the log ends.
LEMMA LastFit == SpanTypes => LastFits
<1> SUFFICES ASSUME SpanTypes, Len(data) # 0
             PROVE  SegStart(Len(data)) + Len(data[Len(data)].lines) = Sealed
  BY DEF LastFits
<1>1. CASE P = 0
  BY <1>1 DEF SpanTypes, Entry, NextStart, SegStart, Sealed
<1>2. CASE P # 0
  BY <1>2 DEF SpanTypes, SegStart, Sealed
<1>3. QED
  BY <1>1, <1>2

\* The same after a step.
LEMMA LastFitNext == SpanTypes' => LastFits'
BY LastFit, PTL

\* A number is one line's: the line that LineAt picks.
Numbered ==
  \A g \in 1..Sealed : \A k \in 1..Len(data) :
    Holds(k, g) => LineAt(g) = data[k].lines[g - SegStart(k)]

\* A line's global number finds it in the one segment that holds the number.
LEMMA LineNumbered == SpanTypes /\ Disjoint => Numbered
<1> SUFFICES ASSUME SpanTypes, Disjoint, NEW g \in 1..Sealed, NEW k \in 1..Len(data), Holds(k, g)
             PROVE  LineAt(g) = data[k].lines[g - SegStart(k)]
  BY DEF Numbered
<1>1. ASSUME NEW j \in 1..Len(data), Holds(j, g) PROVE j = k
  <2>1. SUFFICES ASSUME j # k PROVE FALSE
    OBVIOUS
  <2>2. /\ SegStart(j) \in Nat /\ SegStart(k) \in Nat
        /\ Len(data[j].lines) \in Nat /\ Len(data[k].lines) \in Nat /\ g \in Nat
        /\ j \in Nat /\ k \in Nat
    BY DEF SpanTypes
  <2>3. CASE j < k
    BY <2>3, <2>2, <1>1 DEF Disjoint, Holds
  <2>4. CASE k < j
    BY <2>4, <2>2, <1>1 DEF Disjoint, Holds
  <2>5. QED
    BY <2>1, <2>2, <2>3, <2>4
<1>2. SegmentOf(g) = k
  BY <1>1 DEF SegmentOf
<1>3. QED
  BY <1>2 DEF LineAt

\* The same after a step.
LEMMA LineNumberedNext == SpanTypes' /\ Disjoint' => Numbered'
BY LineNumbered, PTL

-----------------------------------------------------------------------------
(* What a step may do to the log.                                           *)

\* No line is added, at most an empty file.
LogStays ==
  /\ Sealed' = Sealed
  /\ \A k \in 1..Len(data) : SegStart(k)' = SegStart(k) /\ data'[k].lines = data[k].lines
  /\ \/ Len(data') = Len(data)
     \/ Len(data') = Len(data) + 1 /\ data'[Len(data) + 1].lines = <<>>
\* One line is added, at the end of the last file.
LogGrows(e) ==
  /\ Sealed' = Sealed + 1
  /\ Len(data') \in {Len(data), Len(data) + 1} /\ Len(data') # 0
  /\ \A k \in 1..Len(data) : SegStart(k)' = SegStart(k)
  /\ \A k \in 1..Len(data) : k # Len(data') => data'[k].lines = data[k].lines
  /\ Len(data') = Len(data) => data'[Len(data)].lines = Append(data[Len(data)].lines, e)
  /\ Len(data') = Len(data) + 1 => data'[Len(data')].lines = <<e>>

\* Segments whose spans do not change stay disjoint.
LEMMA StaysDisjoint ==
  ASSUME SpanTypes, SpanTypes', Disjoint, LogStays
  PROVE  Disjoint'
<1> USE DEF SpanTypes
<1>f. LastFits'
  BY LastFitNext
<1>1. ASSUME NEW k \in 1..Len(data) 
      PROVE  /\ SegStart(k)' = SegStart(k) /\ data'[k].lines = data[k].lines
             /\ SegStart(k) \in Nat /\ Len(data[k].lines) \in Nat
             /\ SegStart(k) + Len(data[k].lines) <= Sealed
  BY DEF LogStays, Disjoint
<1>2. CASE Len(data') = Len(data)
  BY <1>1, <1>2 DEF LogStays, Disjoint
<1>3. CASE Len(data') = Len(data) + 1 /\ data'[Len(data) + 1].lines = <<>>
  <2>0. PICK K \in Nat : K = Len(data) + 1
    OBVIOUS
  <2>1. /\ K = Len(data') /\ data'[K].lines = <<>> /\ Len(data'[K].lines) = 0
        /\ K \in 1..Len(data') /\ \A k \in 1..Len(data') : k \in 1..Len(data) \/ k = K
    BY <1>3, <2>0
  <2>2. SegStart(K)' = Sealed /\ Sealed \in Nat /\ Sealed' = Sealed
    BY <2>1, <1>f DEF LastFits, LogStays
  <2>3. ASSUME NEW k \in 1..Len(data')
        PROVE  SegStart(k)' + Len(data'[k].lines) <= Sealed'
    <3>1. CASE k \in 1..Len(data)
      BY <3>1, <1>1, <2>2
    <3>2. CASE k = K
      BY <3>2, <2>1, <2>2
    <3>3. QED
      BY <3>1, <3>2, <2>1
  <2>4. ASSUME NEW j \in 1..Len(data'), NEW k \in 1..Len(data'), j < k
        PROVE  SegStart(j)' + Len(data'[j].lines) <= SegStart(k)'
    <3>1. j \in 1..Len(data)
      BY <2>4, <1>3
    <3>2. CASE k \in 1..Len(data)
      BY <3>1, <3>2, <2>4, <1>1 DEF Disjoint
    <3>3. CASE k = K
      BY <3>1, <3>3, <1>1, <2>2
    <3>4. QED
      BY <3>2, <3>3, <2>1
  <2>5. QED
    BY <2>3, <2>4 DEF Disjoint
<1>4. QED
  BY <1>2, <1>3 DEF LogStays

\* Then every number keeps its line.
LEMMA StaysLog ==
  ASSUME SpanTypes, SpanTypes', Disjoint, Covered, LogStays
  PROVE  Disjoint' /\ Covered' /\ ChainLines' = ChainLines
<1> USE DEF SpanTypes
<1>d. Disjoint'
  BY StaysDisjoint
<1>n. Numbered /\ Numbered'
  BY <1>d, LineNumbered, LineNumberedNext
<1>1. ASSUME NEW g \in 1..Sealed
      PROVE  (\E k \in 1..Len(data') : Holds(k, g)') /\ LineAt(g)' = LineAt(g)
  <2>1. PICK k \in 1..Len(data) : Holds(k, g)
    BY DEF Covered
  <2>2. k \in 1..Len(data') /\ SegStart(k)' = SegStart(k) /\ data'[k].lines = data[k].lines
    BY DEF LogStays
  <2>3. Holds(k, g)' /\ g \in 1..Sealed'
    BY <2>1, <2>2 DEF Holds, LogStays
  <2>4. LineAt(g) = data[k].lines[g - SegStart(k)]
    BY <2>1, <1>n DEF Numbered
  <2>5. LineAt(g)' = data'[k].lines[g - SegStart(k)']
    BY <2>2, <2>3, <1>n DEF Numbered
  <2>6. QED
    BY <2>2, <2>3, <2>4, <2>5
<1>2. Covered'
  BY <1>1 DEF Covered, LogStays
<1>3. ChainLines' = ChainLines
  BY <1>1 DEF ChainLines, LogStays
<1>4. QED
  BY <1>d, <1>2, <1>3

\* Then the new line gets the next number.
Ends(e) ==
  /\ Len(data) # 0 /\ Holds(Len(data), Sealed)
  /\ data[Len(data)].lines[Sealed - SegStart(Len(data))] = e

\* One line appended is the last of the log, and no span meets another.
LEMMA GrowsEnd ==
  ASSUME SpanTypes, SpanTypes', Disjoint, NEW e \in Event, LogGrows(e)
  PROVE  Disjoint' /\ Ends(e)'
<1>t. /\ \A k \in 1..Len(data) : /\ data[k].lines \in Seq(Event) /\ Len(data[k].lines) \in Nat
                                /\ SegStart(k) \in Nat
      /\ Len(data) \in Nat /\ Len(data') \in Nat /\ Sealed \in Nat
  BY DEF SpanTypes
<1>u. /\ \A k \in 1..Len(data') : Len(data'[k].lines) \in Nat
      /\ \A k \in 1..Len(data') + 1 : SegStart(k)' \in Nat
  BY DEF SpanTypes
<1>f. LastFits'
  BY LastFitNext
<1>k. PICK K \in Nat : K = Len(data')
  BY <1>t
<1>1. ASSUME NEW k \in 1..Len(data)
      PROVE  /\ SegStart(k)' = SegStart(k)
             /\ SegStart(k) \in Nat /\ Len(data[k].lines) \in Nat
             /\ SegStart(k) + Len(data[k].lines) <= Sealed
             /\ k # K => data'[k].lines = data[k].lines
  BY <1>k, <1>t DEF LogGrows, Disjoint
<1>2. /\ K \in 1..Len(data') /\ K # 0
      /\ SegStart(K)' \in Nat /\ Len(data'[K].lines) \in Nat
      /\ SegStart(K)' + Len(data'[K].lines) = Sealed + 1
      /\ Sealed' = Sealed + 1 /\ Sealed \in Nat
  BY <1>k, <1>t, <1>f, <1>u DEF LogGrows, LastFits
<1>3. Len(data'[K].lines) > 0 /\ data'[K].lines[Len(data'[K].lines)] = e
  <2>1. CASE K = Len(data)
    <3>1. data'[K].lines = Append(data[K].lines, e) /\ data[K].lines \in Seq(Event)
      BY <2>1, <1>k, <1>2, <1>t DEF LogGrows
    <3>2. QED
      BY <3>1
  <2>2. CASE K = Len(data) + 1
    <3>1. data'[K].lines = <<e>>
      BY <2>2, <1>k DEF LogGrows
    <3>2. QED
      BY <3>1
  <2>3. QED
    BY <2>1, <2>2, <1>k DEF LogGrows
<1>4. Ends(e)'
  BY <1>2, <1>3, <1>k DEF Holds, Ends
<1>5. ASSUME NEW k \in 1..Len(data')
      PROVE  SegStart(k)' + Len(data'[k].lines) <= Sealed'
  <2>1. CASE k = K
    BY <2>1, <1>2
  <2>2. CASE k # K
    <3>1. k \in 1..Len(data)
      BY <2>2, <1>k, <1>t DEF LogGrows
    <3>2. SegStart(k)' = SegStart(k) /\ data'[k].lines = data[k].lines
      BY <3>1, <2>2, <1>1
    <3>3. QED
      BY <3>1, <3>2, <1>1, <1>2
  <2>3. QED
    BY <2>1, <2>2
<1>6. ASSUME NEW j \in 1..Len(data'), NEW k \in 1..Len(data'), j < k
      PROVE  SegStart(j)' + Len(data'[j].lines) <= SegStart(k)'
  <2>1. j \in 1..Len(data) /\ j # K
    BY <1>6, <1>k, <1>t DEF LogGrows
  <2>2. SegStart(j)' = SegStart(j) /\ data'[j].lines = data[j].lines
    BY <2>1, <1>1
  <2>3. CASE k \in 1..Len(data)
    BY <2>3, <1>1, <2>1, <1>6, <2>2 DEF Disjoint
  <2>4. CASE k \notin 1..Len(data)
    <3>1. k = K /\ K = Len(data) + 1
      BY <2>4, <1>k, <1>t DEF LogGrows
    <3>2. Len(data'[K].lines) = 1
      <4>1. data'[K].lines = <<e>>
        BY <3>1, <1>k DEF LogGrows
      <4>2. QED
        BY <4>1
    <3>3. SegStart(K)' = Sealed
      BY <3>2, <1>2
    <3>4. QED
      BY <3>1, <3>3, <2>1, <2>2, <1>1, <1>t
  <2>5. QED
    BY <2>3, <2>4
<1>7. QED
  BY <1>4, <1>5, <1>6 DEF Disjoint

\* One line appended to the last segment is one line appended to the log.
LEMMA GrowsLog ==
  ASSUME SpanTypes, SpanTypes', Disjoint, Covered, NEW e \in Event, LogGrows(e)
  PROVE  Disjoint' /\ Covered' /\ ChainLines' = Append(ChainLines, e)
<1>t. /\ \A k \in 1..Len(data) : /\ data[k].lines \in Seq(Event) /\ Len(data[k].lines) \in Nat
                                /\ SegStart(k) \in Nat
      /\ Len(data) \in Nat /\ Len(data') \in Nat
  BY DEF SpanTypes
<1>u. \A k \in 1..Len(data') : Len(data'[k].lines) \in Nat
  BY DEF SpanTypes
<1>d. Disjoint' /\ Ends(e)'
  BY GrowsEnd
<1>n. Numbered /\ Numbered'
  BY <1>d, LineNumbered, LineNumberedNext
<1>s. Sealed' = Sealed + 1 /\ Sealed \in Nat
  BY DEF LogGrows, SpanTypes
<1>1. ASSUME NEW g \in 1..Sealed
      PROVE  (\E k \in 1..Len(data) : Holds(k, g))' /\ LineAt(g)' = LineAt(g)
  <2>1. PICK k \in 1..Len(data) : Holds(k, g)
    BY DEF Covered
  <2>2. /\ k \in 1..Len(data') /\ SegStart(k)' = SegStart(k)
        /\ SegStart(k) \in Nat /\ Len(data[k].lines) \in Nat /\ Len(data'[k].lines) \in Nat
        /\ data[k].lines \in Seq(Event)
    BY <1>t, <1>u DEF LogGrows
  <2>3. /\ g - SegStart(k) \in 1..Len(data[k].lines)
        /\ g \in Nat
    BY <2>1, <2>2 DEF Holds
  <2>4. /\ Len(data'[k].lines) >= Len(data[k].lines)
        /\ data'[k].lines[g - SegStart(k)] = data[k].lines[g - SegStart(k)]
    <3>1. CASE data'[k].lines = data[k].lines
      BY <3>1, <2>2
    <3>2. CASE data'[k].lines = Append(data[k].lines, e)
      BY <3>2, <2>2, <2>3
    <3>3. data'[k].lines = data[k].lines \/ data'[k].lines = Append(data[k].lines, e)
      BY <1>t DEF LogGrows
    <3>4. QED
      BY <3>1, <3>2, <3>3
  <2>5. Holds(k, g)' /\ g \in 1..Sealed'
    BY <2>1, <2>2, <2>4, <1>s DEF Holds
  <2>6. LineAt(g) = data[k].lines[g - SegStart(k)]
    BY <2>1, <1>n DEF Numbered
  <2>7. LineAt(g)' = data'[k].lines[g - SegStart(k)']
    BY <2>2, <2>5, <1>n DEF Numbered
  <2>8. QED
    BY <2>2, <2>4, <2>5, <2>6, <2>7
<1>2. ASSUME NEW g \in 1..Sealed', g = Sealed'
      PROVE  (\E k \in 1..Len(data) : Holds(k, g))' /\ LineAt(g)' = e
  BY <1>t, <1>2, <1>d, <1>n DEF Ends, Numbered
<1>3. \A g \in 1..Sealed' : g \in 1..Sealed \/ g = Sealed'
  BY <1>s
<1>4. Covered'
  BY <1>1, <1>2, <1>3 DEF Covered
<1>5. ChainLines' = Append(ChainLines, e)
  <2>1. ChainLines' = [g \in 1..Sealed + 1 |-> IF g <= Sealed THEN LineAt(g) ELSE e]
    BY <1>1, <1>2, <1>s DEF ChainLines
  <2>2. Append(ChainLines, e) = [g \in 1..Sealed + 1 |-> IF g <= Sealed THEN LineAt(g) ELSE e]
    BY <1>s DEF ChainLines
  <2>3. QED
    BY <2>1, <2>2
<1>6. QED
  BY <1>d, <1>4, <1>5

-----------------------------------------------------------------------------
(* The head of the log.                                                     *)

\* The log's last event is the last line of the open segment, or of the last closed one.
ChainHead == IF OpenLines = <<>> THEN NextGen(LayoutClosed) ELSE LastId(P)

\* The head the next event links to is the abstract log's.
LEMMA HeadIs ==
  ASSUME SpanTypes, Disjoint, ClosedFilled
  PROVE  ChainHead = Log!Head0
<1>t. /\ Sealed \in Nat /\ Len(LayoutClosed) \in Nat /\ Len(data) \in Nat
      /\ \A k \in 1..Len(data) : data[k].lines \in Seq(Event) /\ Len(data[k].lines) \in Nat
                                 /\ SegStart(k) \in Nat
      /\ Len(LayoutClosed) <= Len(data)
  BY DEF SpanTypes
<1>n. Numbered
  BY LineNumbered
<1>f. LastFits
  BY LastFit
\* A last line that is there has the last number.
<1>1. ASSUME Len(data) # 0, data[Len(data)].lines # <<>>
      PROVE  Sealed # 0 /\ LineAt(Sealed).id = LastId(Len(data))
  <2> DEFINE K == Len(data)
  <2>1. K \in 1..Len(data) /\ Len(data[K].lines) > 0
    BY <1>1, <1>t
  <2>2. SegStart(K) + Len(data[K].lines) = Sealed
    BY <1>1, <1>f DEF LastFits
  <2>3. Holds(K, Sealed) /\ Sealed # 0 /\ Sealed \in 1..Sealed
    BY <2>1, <2>2, <1>t DEF Holds
  <2>4. LineAt(Sealed) = data[K].lines[Sealed - SegStart(K)]
    BY <2>1, <2>3, <1>n DEF Numbered
  <2>5. Sealed - SegStart(K) = Len(data[K].lines)
    BY <2>1, <2>2, <1>t
  <2>6. QED
    BY <2>3, <2>4, <2>5, <1>1 DEF LastId
<1>h. Log!Head0 = IF Sealed = 0 THEN 0 ELSE LineAt(Sealed).id
  <2>1. Len(ChainLines) = Sealed /\ (ChainLines = <<>> <=> Sealed = 0)
    <3>1. ChainLines = [g \in 1..Sealed |-> LineAt(g)]
      BY DEF ChainLines
    <3>2. Len(ChainLines) = Sealed
      BY <3>1, <1>t
    <3>3. Sealed = 0 => ChainLines = <<>>
      BY <3>1, <1>t
    <3>4. QED
      BY <3>2, <3>3
  <2>2. Sealed # 0 => ChainLines[Sealed] = LineAt(Sealed)
    BY <1>t DEF ChainLines
  <2>3. QED
    BY <2>1, <2>2 DEF Log!Head0
<1>2. CASE OpenLines # <<>>
  BY <1>2, <1>1, <1>h, <1>t DEF SpanTypes, OpenLines, ChainHead
<1>3. CASE OpenLines = <<>> /\ Len(LayoutClosed) = 0
  <2>1. Sealed = 0 /\ NextGen(LayoutClosed) = 0
    BY <1>3 DEF SpanTypes, Sealed, NextStart, NextGen, Genesis
  <2>2. QED
    BY <2>1, <1>3, <1>h DEF ChainHead
<1>4. CASE OpenLines = <<>> /\ Len(LayoutClosed) # 0
  <2> DEFINE N == Len(LayoutClosed)
  <2>1. N \in 1..Len(LayoutClosed) /\ N \in 1..Len(data)
    BY <1>4, <1>t
  <2>2. /\ data[N].lines # <<>> /\ LastId(N) = LayoutClosed[N].head
        /\ LayoutClosed[N].start \in Nat /\ LayoutClosed[N].end \in Nat
        /\ Len(data[N].lines) = LayoutClosed[N].end - LayoutClosed[N].start + 1
        /\ Len(data[N].lines) > 0
    <3>1. LayoutClosed[N] \in Entry /\ LastId(N) = LayoutClosed[N].head
          /\ Len(data[N].lines) = LayoutClosed[N].end - LayoutClosed[N].start + 1
      BY <2>1 DEF SpanTypes
    <3>2. data[N].lines # <<>>
      BY <2>1 DEF ClosedFilled
    <3>3. QED
      BY <3>1, <3>2, <2>1, <1>t DEF Entry
  <2>3. LayoutClosed # <<>>
    BY <2>1
  <2>4. NextStart(LayoutClosed) = LayoutClosed[N].end + 1 /\ NextGen(LayoutClosed) = LastId(N)
    BY <2>2, <2>3 DEF NextStart, NextGen
  <2>5. SegStart(N) = LayoutClosed[N].start /\ Sealed = LayoutClosed[N].end + 1
    BY <2>1, <1>t, <1>4, <2>2, <2>4 DEF SegStart, Sealed
  <2>6. Holds(N, Sealed) /\ Sealed # 0 /\ Sealed \in 1..Sealed /\ Sealed - SegStart(N) = Len(data[N].lines)
    <3>1. /\ SegStart(N) \in Nat /\ Len(data[N].lines) \in Nat /\ Len(data[N].lines) > 0
          /\ Sealed \in Nat
      BY <2>1, <2>2, <1>t
    <3>2. Sealed = SegStart(N) + Len(data[N].lines)
      BY <2>2, <2>5
    <3>3. /\ SegStart(N) < Sealed /\ Sealed <= SegStart(N) + Len(data[N].lines)
          /\ Sealed # 0 /\ Sealed \in 1..Sealed /\ Sealed - SegStart(N) = Len(data[N].lines)
      <4> DEFINE a == SegStart(N)
                 b == Len(data[N].lines)
                 c == Sealed
      <4>1. a \in Nat /\ b \in Nat /\ b > 0 /\ c = a + b
        BY <3>1, <3>2
      <4>2. SUFFICES a < c /\ c <= a + b /\ c # 0 /\ c \in 1..c /\ c - a = b
        OBVIOUS
      <4> HIDE DEF a, b, c
      <4>3. QED
        BY <4>1
    <3>4. QED
      BY <3>3 DEF Holds
  <2>7. LineAt(Sealed) = data[N].lines[Len(data[N].lines)]
    BY <2>1, <2>6, <1>n DEF Numbered
  <2>8. LineAt(Sealed).id = LastId(N)
    BY <2>2, <2>7 DEF LastId
  <2>9. QED
    BY <2>4, <2>6, <2>8, <1>4, <1>h DEF ChainHead
<1>5. QED
  BY <1>2, <1>3, <1>4

\* A file's line has its number in the log, and the log lists nothing else.
UsedLogged == \A n \in Nat : Used(n) <=> n \in Log!Ids

\* The ids in use are those of the log's lines.
LEMMA UsedIsLogged == SpanTypes /\ Disjoint /\ Covered => UsedLogged
<1> SUFFICES ASSUME SpanTypes, Disjoint, Covered, NEW n \in Nat
             PROVE  Used(n) <=> n \in Log!Ids
  BY DEF UsedLogged
<1>t. /\ Sealed \in Nat
      /\ \A k \in 1..Len(data) : Len(data[k].lines) \in Nat /\ SegStart(k) \in Nat
  BY DEF SpanTypes
<1>n. Numbered
  BY LineNumbered
<1>l. /\ Len(ChainLines) = Sealed
      /\ \A g \in 1..Sealed : ChainLines[g] = LineAt(g)
  BY <1>t DEF ChainLines
<1>1. ASSUME Used(n) PROVE n \in Log!Ids
  <2>1. PICK k \in 1..Len(data) : \E i \in 1..Len(data[k].lines) : data[k].lines[i].id = n
    BY <1>1 DEF Used
  <2>2. PICK i \in 1..Len(data[k].lines) : data[k].lines[i].id = n
    BY <2>1
  <2>3. PICK g \in Nat : g = SegStart(k) + i
    BY <1>t
  <2>4. SegStart(k) + Len(data[k].lines) <= Sealed
    BY DEF Disjoint
  <2>5. Holds(k, g) /\ g \in 1..Sealed /\ g - SegStart(k) = i
    BY <2>3, <2>4, <1>t DEF Holds
  <2>6. LineAt(g) = data[k].lines[i]
    BY <2>5, <1>n DEF Numbered
  <2>7. QED
    BY <2>2, <2>5, <2>6, <1>l DEF Log!Ids
<1>2. ASSUME n \in Log!Ids PROVE Used(n)
  <2>1. PICK g \in 1..Sealed : LineAt(g).id = n
    BY <1>2, <1>l DEF Log!Ids
  <2>2. PICK k \in 1..Len(data) : Holds(k, g)
    BY DEF Covered
  <2>3. LineAt(g) = data[k].lines[g - SegStart(k)]
    BY <2>2, <1>n DEF Numbered
  <2>4. g - SegStart(k) \in 1..Len(data[k].lines)
    BY <2>2, <1>t DEF Holds
  <2>5. QED
    BY <2>1, <2>3, <2>4 DEF Used
<1>3. QED
  BY <1>1, <1>2

\* The same after a step.
LEMMA UsedIsLoggedNext == SpanTypes' /\ Disjoint' /\ Covered' => UsedLogged'
BY UsedIsLogged, PTL

-----------------------------------------------------------------------------
(* Each effect on the files is one of these on the log.                     *)

LogEffect ==
  /\ LogStays \/ \E e \in Event : LogGrows(e) /\ e.prev = ChainHead
  /\ ClosedFilled'

\* The journal speaks, or a closed file moves.
LEMMA SpokenLog ==
  ASSUME SpanTypes, ClosedFilled, UNCHANGED <<P, data>>, LayoutClosed' = LayoutClosed
  PROVE  LogEffect
BY DEF OpenLines, Sealed, SegStart, ClosedFilled, LogEffect, LogStays

\* The open file gets its closed name: what the pending entry says of it becomes what
\* the layout says.
LEMMA ClosingLog ==
  ASSUME TypeOK, DiskInv, SpanTypes, ClosedFilled, PendingStart, Closing
  PROVE  LogEffect
<1> DEFINE N == Len(js.closed)
<1>t. /\ js.closed \in Seq(Entry) /\ N \in Nat /\ js.pending \in Entry
      /\ js.pending.start \in Nat /\ js.pending.end \in Nat
      /\ P' = 0 /\ data' = data /\ js' = js /\ js.pending # NoEntry
  BY LayoutOK DEF Closing, Entry
<1>l. LayoutClosed = js.closed
  BY DEF LayoutClosed, Closing, RotationReady
<1>a. LayoutClosed' = Append(js.closed, js.pending)
  BY ClosingStep
<1>p. P = N + 1 /\ Len(data) = N + 1 /\ OpenLines = data[P].lines /\ OpenLines # <<>>
  BY <1>l DEF SpanTypes, Closing, RotationReady
<1>e. /\ Len(LayoutClosed') = N + 1 /\ LayoutClosed'[N + 1] = js.pending
      /\ \A k \in 1..N : LayoutClosed'[k] = js.closed[k]
      /\ LayoutClosed' # <<>>
  BY <1>a, <1>t
<1>s. js.pending.start = NextStart(js.closed)
  BY <1>t DEF PendingStart
<1>1. Sealed' = Sealed
  BY <1>e, <1>t, <1>l, <1>s DEF NextStart, OpenLines, Sealed, Closing, RotationReady
<1>2. ASSUME NEW k \in 1..Len(data) PROVE SegStart(k)' = SegStart(k)
  <2>1. CASE k \in 1..N
    BY <2>1, <1>t, <1>l, <1>e DEF SegStart
  <2>2. CASE k = N + 1
    BY <2>2, <1>t, <1>l, <1>e, <1>s DEF SegStart
  <2>3. QED
    BY <2>1, <2>2, <1>t, <1>p
<1>3. ClosedFilled'
  <2>1. ASSUME NEW k \in 1..N + 1 PROVE data'[k].lines # <<>>
    BY <1>l, <1>t, <1>p DEF ClosedFilled
  <2>2. QED
    BY <2>1, <1>e DEF ClosedFilled
<1>4. QED
  BY <1>1, <1>2, <1>3, <1>t DEF LogEffect, LogStays

\* A file is created.
LEMMA BornLog ==
  ASSUME TypeOK, DiskInv, SpanTypes, SpanTypes', ClosedFilled, NEW f \in SegmentFile, Born(f)
  PROVE  LogEffect
<1> DEFINE N == Len(data)
<1>t. /\ P = 0 /\ P' = N + 1 /\ P' # 0 /\ data' = Append(data, f) /\ N \in Nat
      /\ data \in Seq(SegmentFile) /\ f.lines \in Seq(Event)
  BY DEF Born, SpanTypes, TypeOK, SegmentFile
<1>l. LayoutClosed' = LayoutClosed /\ Len(LayoutClosed) = N /\ OpenLines = <<>>
  BY <1>t, BornStep DEF SpanTypes
<1>d. /\ Len(data') = N + 1 /\ data'[N + 1] = f
      /\ \A k \in 1..N : data'[k] = data[k]
  BY <1>t
<1>s. /\ Sealed = NextStart(LayoutClosed) /\ NextStart(LayoutClosed) \in Nat
      /\ Sealed' = NextStart(LayoutClosed) + Len(f.lines)
  BY <1>t, <1>d, <1>l DEF OpenLines, Sealed, SpanTypes
<1>1. \A k \in 1..N : SegStart(k)' = SegStart(k) /\ data'[k].lines = data[k].lines
  BY <1>l, <1>d DEF SegStart
<1>2. ClosedFilled'
  BY <1>l, <1>d DEF ClosedFilled
<1>3. CASE f.lines = <<>>
  BY <1>3, <1>1, <1>d, <1>s, <1>2 DEF LogStays, LogEffect
<1>4. CASE f.lines # <<>>
  <2> DEFINE e == f.lines[1]
  <2>1. 1 \in 1..Len(f.lines) /\ e \in Event /\ Len(f.lines) \in Nat
    BY <1>4, <1>t
  <2>2. e.prev = ChainEnd /\ \A i \in 1..Len(f.lines) : i = 1
    BY <2>1 DEF Born
  <2>3. Len(f.lines) = 1
    <3>1. Len(f.lines) \in 1..Len(f.lines)
      BY <2>1
    <3>2. QED
      BY <3>1, <2>2
  <2>4. f.lines = <<e>>
    BY <2>3, <1>t
  <2>5. LogGrows(e)
    BY <2>3, <2>4, <1>1, <1>d, <1>s, <1>t DEF LogGrows
  <2>6. ChainEnd = ChainHead
    BY <1>l, LayoutEnd, <1>t DEF DiskInv, ChainEnd, ChainHead
  <2>7. QED
    BY <2>1, <2>2, <2>5, <2>6, <1>2 DEF LogEffect
<1>5. QED
  BY <1>3, <1>4

\* The open file is cut or extended.
LEMMA GrownLog ==
  ASSUME TypeOK, DiskInv, SpanTypes, ClosedFilled, NEW f \in SegmentFile, Grown(f)
  PROVE  LogEffect
<1> DEFINE N == Len(data)
<1>t. /\ P # 0 /\ P' = P /\ P = N /\ P = Len(LayoutClosed) + 1 /\ OpenLines = data[P].lines
      /\ data' = [data EXCEPT ![P] = f] /\ N \in Nat /\ N # 0
      /\ Len(LayoutClosed) \in Nat
  BY DEF Grown, SpanTypes
<1>u. data \in Seq(SegmentFile) /\ data[P].lines \in Seq(Event) /\ P \in 1..N
  BY <1>t DEF TypeOK, SpanTypes
<1>l. LayoutClosed' = LayoutClosed
  BY GrownStep
<1>d. /\ Len(data') = N /\ data'[P] = f
      /\ \A k \in 1..N : k # P => data'[k] = data[k]
  <2>1. data' = [data EXCEPT ![P] = f] /\ data \in Seq(SegmentFile) /\ P \in 1..Len(data)
    BY <1>t, <1>u
  <2>2. QED
    BY <2>1
<1>s. /\ Sealed = NextStart(LayoutClosed) + Len(data[P].lines)
      /\ Sealed' = NextStart(LayoutClosed) + Len(f.lines)
      /\ NextStart(LayoutClosed) \in Nat
  BY <1>t, <1>d, <1>l DEF OpenLines, Sealed, SpanTypes
<1>1. \A k \in 1..N : SegStart(k)' = SegStart(k)
  BY <1>l DEF SegStart
<1>2. ClosedFilled'
  <2>1. ASSUME NEW k \in 1..Len(LayoutClosed) PROVE k \in 1..N /\ k # P
    <3> HIDE DEF N
    <3>1. QED
      BY <1>t
  <2>2. QED
    BY <2>1, <1>l, <1>d DEF ClosedFilled
<1>3. CASE f.lines = data[P].lines
  BY <1>3, <1>d, <1>1, <1>s, <1>2 DEF LogStays, LogEffect
<1>4. ASSUME NEW e \in Event, f.lines = Append(data[P].lines, e),
             e.prev = IF OpenLines = <<>> THEN NextGen(LayoutClosed) ELSE LastId(P)
      PROVE  LogEffect
  <2>1. Len(f.lines) = Len(data[P].lines) + 1 /\ Len(data[P].lines) \in Nat
    BY <1>4, <1>u
  <2>2. Sealed' = Sealed + 1
    <3>1. \A a, b \in Nat : a + (b + 1) = a + b + 1
      OBVIOUS
    <3>2. QED
      BY <2>1, <3>1, <1>s
  <2>3. \A k \in 1..N : k # N => data'[k].lines = data[k].lines
    BY <1>d, <1>t
  <2>4. data'[N].lines = Append(data[N].lines, e)
    BY <1>4, <1>d, <1>t
  <2>5. LogGrows(e)
    BY <2>2, <2>3, <2>4, <1>1, <1>d, <1>t DEF LogGrows
  <2>6. e.prev = ChainHead
    BY <1>4 DEF ChainHead
  <2>7. QED
    BY <2>5, <2>6, <1>2 DEF LogEffect
<1>5. QED
  BY <1>3, <1>4 DEF Grown

\* What a step does to the disk, it does to the log: one append or nothing.
LEMMA EffectLog ==
  ASSUME TypeOK, TypeOK', JournalInv, DiskInv, DiskInv', DiskEffect, SpanInv
  PROVE  LogEffect
<1>1. SpanTypes /\ SpanTypes' /\ ClosedFilled /\ PendingStart
  BY SpanTyped, SpanTypedNext DEF SpanInv
<1>2. CASE Spoken
  BY <1>1, <1>2, SpokenLog DEF Spoken
<1>3. CASE Closing
  BY <1>1, <1>3, ClosingLog
<1>4. ASSUME NEW S \in SUBSET PendingMoves, Move(S) PROVE LogEffect
  BY <1>4, MoveStep, <1>1, SpokenLog DEF Move
<1>5. ASSUME NEW f \in SegmentFile, Born(f) \/ Grown(f) PROVE LogEffect
  BY <1>1, <1>5, BornLog, GrownLog
<1>6. QED
  BY <1>2, <1>3, <1>4, <1>5 DEF DiskEffect

-----------------------------------------------------------------------------
(* Ids.                                                                     *)

\* After a step of p a line has the id of a line that was there, or of p's own.
LEMMA UsedStep ==
  ASSUME Longer, NEW p \in Proc, NewLine(p), NEW n, Used(n)'
  PROVE  \/ Used(n)
         \/ pc[p] = "write2" /\ n = wip[p].id
         \/ pc[p] \in {"install", "rec_install"} /\ n = tmp.ev.id
<1>1. PICK k \in 1..Len(data') : \E i \in 1..Len(data'[k].lines) : data'[k].lines[i].id = n
  BY DEF Used
<1>2. PICK i \in 1..Len(data'[k].lines) : data'[k].lines[i].id = n
  BY <1>1
<1>3. CASE k \in 1..Len(data) /\ i \in 1..Len(data[k].lines)
  BY <1>3, <1>2 DEF Longer, Used
<1>4. QED
  BY <1>2, <1>3 DEF NewLine

\* The line a step adds has an id that no line had.
LEMMA NewEvent ==
  ASSUME TypeOK, JournalInv, WholeInv, SpanTypes, SpanTypes', IdInv, NEW p \in Proc, NewLine(p),
         NEW e \in Event, LogGrows(e)
  PROVE  ~Used(e.id)
<1>k. PICK K \in Nat : K = Len(data')
  BY DEF SpanTypes
<1>t. /\ Len(data) \in Nat /\ K # 0 /\ K \in {Len(data), Len(data) + 1} /\ K \in 1..Len(data')
      /\ K \in 1..Len(data) => data[K].lines \in Seq(Event)
  BY <1>k DEF SpanTypes, LogGrows
<1>1. PICK i \in Nat : /\ i \in 1..Len(data'[K].lines) /\ data'[K].lines[i] = e
                       /\ ~(K \in 1..Len(data) /\ i \in 1..Len(data[K].lines))
  <2>1. CASE K = Len(data)
    <3>1. data'[K].lines = Append(data[K].lines, e) /\ data[K].lines \in Seq(Event)
      BY <2>1, <1>k, <1>t DEF LogGrows
    <3>2. /\ Len(data[K].lines) + 1 \in Nat
          /\ Len(data[K].lines) + 1 \in 1..Len(data'[K].lines)
          /\ data'[K].lines[Len(data[K].lines) + 1] = e
          /\ Len(data[K].lines) + 1 \notin 1..Len(data[K].lines)
      BY <3>1
    <3>3. QED
      BY <3>2
  <2>2. CASE K = Len(data) + 1
    <3>1. data'[K].lines = <<e>>
      BY <2>2, <1>k DEF LogGrows
    <3>2. 1 \in 1..Len(data'[K].lines) /\ data'[K].lines[1] = e
      BY <3>1
    <3>3. K \notin 1..Len(data)
      BY <2>2, <1>t
    <3>4. QED
      BY <3>2, <3>3
  <2>3. QED
    BY <2>1, <2>2, <1>t
<1>2. \/ pc[p] = "write2" /\ e = wip[p]
      \/ pc[p] \in {"install", "rec_install"} /\ e = tmp.ev
  BY <1>1, <1>t DEF NewLine
<1>3. CASE pc[p] = "write2" /\ e = wip[p]
  BY <1>3 DEF IdInv
<1>4. CASE pc[p] \in {"install", "rec_install"} /\ e = tmp.ev
  BY <1>4 DEF WholeInv, WriterInv, JournalInv, JournalPhase, InRotation, IdInv
<1>5. QED
  BY <1>2, <1>3, <1>4

\* A pending entry that is left pending leaves the journal's list alone.
LEMMA PendingStartStep ==
  ASSUME TypeOK, TypeOK', JournalInv, WholeInv, WholeInv', DiskEffect, PendingStart,
         NEW p \in Proc, KeptEffect(p)
  PROVE  PendingStart'
<1> SUFFICES ASSUME js'.pending # NoEntry
             PROVE  js'.pending.start = NextStart(js.closed)'
  BY DEF PendingStart
<1>1. CASE RotateIntent(p) /\ js'.pending = RotatePlan(p)
  <2>1. js'.closed = js.closed
    BY <1>1, IntentSpoken DEF RotateIntent, WholeInv, WriterInv
  <2>2. RotatePlan(p).start = NextStart(js.closed)
    BY <1>1 DEF RotateIntent, RotatePlan, JournalInv, CacheCoherent, Agrees
  <2>3. QED
    BY <1>1, <2>1, <2>2 DEF NextStart
<1>2. CASE js'.pending = js.pending
  <2>1. js.pending # NoEntry /\ js.pending.start = NextStart(js.closed)
    BY <1>2 DEF PendingStart
  <2>2. CASE js' = js
    BY <2>1, <2>2 DEF NextStart
  <2>3. CASE Spoken
    <3>1. Renamed' = Renamed /\ LayoutClosed' = LayoutClosed
      BY <2>3, <1>2 DEF Spoken, Renamed
    <3>2. /\ js.pending.n = Len(js.closed) + 1 /\ js'.pending.n = Len(js'.closed) + 1
          /\ js.closed \in Seq(Entry) /\ js'.closed \in Seq(Entry)
          /\ Len(js.closed) \in Nat /\ Len(js'.closed) \in Nat
      BY <1>2, <2>1 DEF WholeInv, DiskInv, PendingNext, TypeOK, Journal
    <3>3. Len(js'.closed) = Len(js.closed)
      BY <3>2, <1>2
    <3>4. CASE Renamed
      <4>1. Append(js'.closed, js.pending) = Append(js.closed, js.pending)
        BY <3>1, <3>4, <1>2 DEF LayoutClosed
      <4>2. \A n \in 1..Len(js.closed) : js'.closed[n] = js.closed[n]
        <5>1. ASSUME NEW n \in 1..Len(js.closed) PROVE js'.closed[n] = js.closed[n]
          BY <3>2, <3>3, <4>1
        <5>2. QED
          BY <5>1
      <4>3. js'.closed = js.closed
        BY <4>2, <3>2, <3>3
      <4>4. QED
        BY <4>3, <2>1, <1>2 DEF NextStart
    <3>5. CASE ~Renamed
      BY <3>1, <3>5, <2>1, <1>2 DEF LayoutClosed, NextStart
    <3>6. QED
      BY <3>4, <3>5
  <2>4. QED
    BY <2>2, <2>3 DEF DiskEffect, Closing, Move, Born, Grown
<1>3. QED
  BY <1>1, <1>2 DEF KeptEffect, PendingEffect

\* Every line's id was given out before.
LEMMA IdLines ==
  ASSUME TypeOK, JournalInv, WholeInv, IdInv, Longer, NEW p \in Proc, KeptEffect(p)
  PROVE  /\ \A k \in 1..Len(data') : \A i \in 1..Len(data'[k].lines) :
              data'[k].lines[i].id < nextId'
         /\ nextId' \in Nat /\ nextId' >= nextId
<1>n. nextId \in Nat /\ nextId' \in {nextId, nextId + 1}
  BY DEF TypeOK, KeptEffect, AckEffect
<1>e. \A e \in Event : e.id \in Nat
  BY DEF Event
<1>1. ASSUME NEW k \in 1..Len(data'), NEW i \in 1..Len(data'[k].lines)
      PROVE  data'[k].lines[i].id < nextId'
  <2>1. CASE k \in 1..Len(data) /\ i \in 1..Len(data[k].lines)
    <3>1. data'[k].lines[i] = data[k].lines[i] /\ data[k].lines[i] \in Event
      <4>1. data[k] \in SegmentFile
        BY <2>1 DEF TypeOK
      <4>2. QED
        BY <2>1, <4>1 DEF Longer, SegmentFile
    <3>2. data[k].lines[i].id < nextId /\ data[k].lines[i].id \in Nat
      BY <2>1, <3>1, <1>e DEF IdInv
    <3>3. QED
      BY <3>1, <3>2, <1>n
  <2>2. CASE pc[p] = "write2" /\ data'[k].lines[i] = wip[p]
    BY <2>2, <1>e, <1>n DEF IdInv, TypeOK
  <2>3. CASE pc[p] \in {"install", "rec_install"} /\ data'[k].lines[i] = tmp.ev
    BY <2>3, <1>e, <1>n DEF WholeInv, WriterInv, JournalInv, JournalPhase, InRotation, IdInv, TypeOK
  <2>4. QED
    BY <2>1, <2>2, <2>3 DEF KeptEffect, NewLine
<1>2. QED
  BY <1>1, <1>n

\* An id that was not given out is no line's.
LEMMA FreshId ==
  ASSUME TypeOK, IdInv PROVE ~Used(nextId)
BY DEF Used, IdInv, TypeOK

\* A pending rotation's event enters the log when it is installed.
LEMMA IdPending ==
  ASSUME TypeOK, TypeOK', JournalInv, WholeInv, IdInv, Longer, DiskEffect,
         NEW p \in Proc, KeptEffect(p), js'.pending # NoEntry, NEW n, n = js'.pending.rot.id
  PROVE  n < nextId' /\ (Used(n)' => Renamed' /\ P' # 0)
<1>n. nextId' \in Nat /\ nextId' >= nextId /\ nextId \in Nat
  BY IdLines DEF TypeOK
<1>1. CASE RotateIntent(p) /\ js'.pending = RotatePlan(p)
  <2>1. n = nextId /\ nextId' = nextId + 1 /\ data' = data
    BY <1>1 DEF RotateIntent, RotatePlan
  <2>2. ~Used(nextId)
    BY FreshId
  <2>3. ~Used(n)'
    BY <2>1, <2>2 DEF Used
  <2>4. QED
    BY <2>1, <2>3, <1>n
<1>2. CASE js'.pending = js.pending
  <2>1. /\ js.pending # NoEntry /\ n = js.pending.rot.id
        /\ n < nextId /\ n \in Nat
        /\ Used(n) => Renamed /\ P # 0
    BY <1>2 DEF IdInv, TypeOK, Journal, Entry, Event
  <2>2. Used(n)' => Used(n) \/ pc[p] \in {"install", "rec_install"}
    BY <2>1, UsedStep DEF JournalInv, JournalPhase, Settled, KeptEffect
  <2>3. pc[p] \in {"install", "rec_install"} => Renamed /\ P = 0
    BY DEF WholeInv, WriterInv
  <2>s. ASSUME data' = data PROVE Used(n)' => Used(n)
    BY <2>s DEF Used
  <2>4. CASE Spoken
    BY <2>4, <1>2, <2>s, <2>1, <1>n DEF Spoken, Renamed
  <2>5. CASE Closing
    BY <2>5, <2>s, <2>1, <1>n DEF Closing, RotationReady
  <2>6. ASSUME NEW S \in SUBSET PendingMoves, Move(S)
        PROVE  n < nextId' /\ (Used(n)' => Renamed' /\ P' # 0)
    BY <2>6, MoveStep, <2>s, <2>1, <1>n DEF WholeInv, Move
  <2>7. ASSUME NEW f \in SegmentFile, Born(f)
        PROVE  n < nextId' /\ (Used(n)' => Renamed' /\ P' # 0)
    BY <2>7, BornStep, <2>1, <2>2, <2>3, <1>n DEF WholeInv, Born, TypeOK
  <2>8. ASSUME NEW f \in SegmentFile, Grown(f)
        PROVE  n < nextId' /\ (Used(n)' => Renamed' /\ P' # 0)
    <3>1. Renamed' = Renamed /\ P' = P /\ P # 0
      BY <2>8, GrownStep DEF WholeInv, Grown
    <3>2. QED
      BY <3>1, <2>1, <2>2, <2>3, <1>n
  <2>9. QED
    BY <2>4, <2>5, <2>6, <2>7, <2>8 DEF DiskEffect
<1>3. QED
  BY <1>1, <1>2 DEF KeptEffect, PendingEffect

\* A line that is being written has its own id.
LEMMA IdWrites ==
  ASSUME TypeOK, JournalInv, WholeInv, IdInv, Longer, NEW p \in Proc, KeptEffect(p), Frame(p),
         Entered(p), lock = p \/ Outside, \A q \in Proc \ {p} : wip'[q] = wip[q],
         NEW q \in Proc, pc'[q] = "write2", NEW n, n = wip'[q].id
  PROVE  n < nextId' /\ ~Used(n)'
<1>n. nextId' \in Nat /\ nextId' >= nextId /\ nextId \in Nat
  BY IdLines DEF TypeOK
<1>1. CASE q = p
  <2>1. WriteBegin(p)
    BY <1>1 DEF Entered
  <2>2. pc[p] = "write" /\ n = nextId /\ nextId' = nextId + 1
    BY <2>1, <1>1 DEF WriteBegin, TypeOK
  <2>3. Used(n)' => Used(n)
    BY <2>2, UsedStep DEF KeptEffect
  <2>4. QED
    BY <2>2, <2>3, FreshId, <1>n
<1>2. CASE q # p
  <2>1. pc[q] = "write2" /\ wip'[q] = wip[q]
    BY <1>2 DEF Frame
  <2>2. data' = data
    BY <2>1, <1>2 DEF JournalInv, LockExcludes, Locked, Settled, Outside
  <2>3. n = wip[q].id /\ n < nextId /\ n \in Nat /\ ~Used(n)
    BY <2>1 DEF IdInv, TypeOK, Event
  <2>4. QED
    BY <2>2, <2>3, <1>n DEF Used
<1>3. QED
  BY <1>1, <1>2

-----------------------------------------------------------------------------
(* The refinement.                                                          *)

\* The empty directory holds the empty log.
LEMMA SpanInit == Init => SpanInv /\ IdInv
<1> SUFFICES ASSUME Init PROVE SpanInv /\ IdInv
  OBVIOUS
<1>1. /\ P = 0 /\ data = <<>> /\ Len(data) = 0 /\ js.closed = <<>> /\ js.pending = NoEntry
      /\ \A p \in Proc : pc[p] = "idle"
  BY DEF Init, EmptyJournal
<1>2. LayoutClosed = <<>> /\ Len(LayoutClosed) = 0 /\ OpenLines = <<>> /\ Len(OpenLines) = 0
  BY <1>1 DEF LayoutClosed, Renamed, OpenLines
<1>3. Sealed = 0
  BY <1>2 DEF Sealed, NextStart
<1>4. SpanInv
  BY <1>1, <1>2, <1>3 DEF SpanInv, ClosedFilled, Disjoint, Covered, PendingStart
<1>5. IdInv
  BY <1>1 DEF IdInv
<1>6. QED
  BY <1>4, <1>5

\* Every step keeps the numbers and the ids, and is a step of the log.
LEMMA LogStep ==
  ASSUME TypeOK, TypeOK', JournalInv, WholeInv, AckInv', SpanInv, IdInv, CutsShow, Next
  PROVE  SpanInv' /\ IdInv' /\ Log!LogNext
<1>1. PICK p \in Proc : \/ \E g \in Ops : Acquire(p, g)
                        \/ ApplyStart(p) \/ Step(p) \/ Restart(p) \/ Crash(p)
  BY DEF Next
<1>2. KeptEffect(p) /\ WholeInv' /\ Longer /\ Frame(p) /\ DiskEffect /\ Entered(p)
  BY <1>1, EffectKept, WholeStep, FrameStep, EffectStep, EnteredStep
<1>3. (lock = p \/ Outside) /\ \A q \in Proc \ {p} : wip'[q] = wip[q]
  BY <1>1, LockedStep DEF WholeInv
<1>4. SpanTypes /\ SpanTypes' /\ LogEffect
  BY <1>2, SpanTyped, SpanTypedNext, EffectLog DEF WholeInv
<1>5. PendingStart'
  BY <1>2, PendingStartStep DEF SpanInv
<1>6. Disjoint' /\ Covered' /\ (UNCHANGED ChainLines \/ \E e \in Event : Log!Seal(e) /\ ChainLines' = Append(ChainLines, e))
  <2>1. CASE LogStays
    BY <2>1, <1>4, StaysLog DEF SpanInv
  <2>2. ASSUME NEW e \in Event, LogGrows(e), e.prev = ChainHead
        PROVE  Disjoint' /\ Covered' /\ Log!Seal(e) /\ ChainLines' = Append(ChainLines, e)
    <3>1. Disjoint' /\ Covered' /\ ChainLines' = Append(ChainLines, e)
      BY <2>2, <1>4, GrowsLog DEF SpanInv
    <3>2. e.prev = Log!Head0
      BY <2>2, <1>4, HeadIs DEF SpanInv
    <3>3. e.id \notin Log!Ids
      BY <2>2, <1>2, <1>4, NewEvent, UsedIsLogged DEF KeptEffect, Event, UsedLogged, SpanInv
    <3>4. QED
      BY <3>1, <3>2, <3>3 DEF Log!Seal
  <2>3. QED
    BY <2>1, <2>2, <1>4 DEF LogEffect
<1>7. SpanInv'
  BY <1>4, <1>5, <1>6 DEF LogEffect, SpanInv
<1>8. IdInv'
  <2>1. \A k \in 1..Len(data') : \A i \in 1..Len(data'[k].lines) : data'[k].lines[i].id < nextId'
    BY <1>2, IdLines
  <2>2. js'.pending # NoEntry => /\ js'.pending.rot.id < nextId'
                                 /\ Used(js.pending.rot.id)' => Renamed' /\ P' # 0
    BY <1>2, IdPending DEF Used
  <2>3. ASSUME NEW q \in Proc, pc'[q] = "write2"
        PROVE  wip'[q].id < nextId' /\ ~Used(wip[q].id)'
    BY <2>3, <1>2, <1>3, IdWrites DEF Used
  <2>4. QED
    BY <2>1, <2>2, <2>3 DEF IdInv
<1>9. Log!Tell
  <2>1. acked \subseteq acked'
    BY <1>2 DEF KeptEffect, AckEffect, WriteEnd, RotateCommit
  <2>2. ASSUME NEW n \in acked' PROVE n \in Log!Ids'
    BY <2>2, <1>4, <1>7, UsedIsLoggedNext DEF AckInv, AckDurable, Used, TypeOK, SpanInv, UsedLogged
  <2>3. QED
    BY <2>1, <2>2 DEF Log!Tell
<1>10. Log!LogNext
  <2>1. ASSUME NEW e \in Event, Log!Seal(e), ChainLines' = Append(ChainLines, e)
        PROVE  Len(ChainLines') = Len(ChainLines) + 1 /\ Log!Seal(ChainLines'[Len(ChainLines')])
    BY <1>4, <2>1 DEF SpanTypes, ChainLines
  <2>2. QED
    BY <2>1, <1>6, <1>9 DEF Log!LogNext
<1>11. QED
  BY <1>7, <1>8, <1>10

\* And so does one that only stutters.
LEMMA LogStutter ==
  ASSUME TypeOK, TypeOK', WholeInv, WholeInv', SpanInv, IdInv, UNCHANGED vars
  PROVE  SpanInv' /\ IdInv' /\ UNCHANGED Log!lvars
<1>1. /\ UNCHANGED <<P, data, js, closed, pc, wip, nextId, acked>>
      /\ LayoutClosed' = LayoutClosed /\ OpenLines' = OpenLines /\ Renamed' = Renamed
  BY DEF vars, disk, LayoutClosed, Renamed, OpenLines
<1>2. SpanTypes /\ SpanTypes'
  BY SpanTyped, SpanTypedNext DEF WholeInv
<1>3. LogStays /\ ClosedFilled'
  BY <1>1 DEF Sealed, SegStart, LogStays, SpanInv, ClosedFilled
<1>4. Disjoint' /\ Covered' /\ ChainLines' = ChainLines
  BY <1>2, <1>3, StaysLog DEF SpanInv
<1>5. PendingStart'
  BY <1>1 DEF SpanInv, PendingStart, NextStart
<1>6. IdInv'
  BY <1>1 DEF IdInv, Used
<1>7. QED
  BY <1>1, <1>3, <1>4, <1>5, <1>6 DEF SpanInv, Log!lvars

\* What the segmented ledger promises its callers: whatever processes append, rotate,
\* archive, recover and are killed, there is one log that only grows at its end, every
\* event chained to the one before it, and nobody is told of an event that is not in it.
THEOREM LedgerRefinesLog == ASSUME CutsShow PROVE Spec => LedgerIsAppendOnlyLog
<1>1. Init => Log!LogInit
  BY DEF Init, EmptyJournal, LayoutClosed, Renamed, OpenLines, Sealed, NextStart, ChainLines, Log!LogInit
<1> DEFINE I == SpanInv /\ IdInv
<1>2. TypeOK /\ TypeOK' /\ JournalInv /\ WholeInv /\ WholeInv' /\ AckInv' /\ I /\ [Next]_vars
        => I' /\ [Log!LogNext]_(Log!lvars)
  BY LogStep, LogStutter
<1>3. Init => I
  BY SpanInit
<1> HIDE DEF I
<1>4. QED
  BY <1>1, <1>2, <1>3, WholeAlways, AckAlways, TypeCorrect, JournalSound, PTL
     DEF Spec, LedgerIsAppendOnlyLog, Log!LogSpec

-----------------------------------------------------------------------------
(* The lock-free reader (LedgerReader) beside all of this.                   *)

\* Without its file the open segment is between a rename and an install, or was never
\* there; the first line of a segment says which it continues; a torn line is one of
\* the open segment, and no writer goes on past it.
OpenThere == P = 0 => Renamed \/ (js.closed = <<>> /\ js.pending = NoEntry)
ClosedClean == \A k \in 1..Len(data) : k # P => data[k].tail = "ok"
Continued == \A k \in 2..Len(data) : data[k].lines # <<>> /\ data[k].lines[1].closes = k - 1
PendingCloses == js.pending # NoEntry => js.pending.rot.closes = js.pending.n
Past == Locked \ {"fresh", "place", "release", "write2"}
TailKnown(p) ==
  /\ pc[p] \in Past => OpenTail = "ok"
  /\ cache[p].key.tail = "ok"
  /\ pc[p] \in {"commit", "rec_commit"} => P # 0
TailInv == OpenThere /\ ClosedClean /\ Continued /\ PendingCloses /\ \A p \in Proc : TailKnown(p)

\* What a killed append left torn, for good.
Stuck == Unparseable /\ ~AppendInFlight

\* The journal an attempt has read is an earlier state of the journal, and while the
\* attempt lasts no segment is archived that it does not know to be closed.
Begins(l) == Len(l) <= Len(LayoutClosed) /\ \A i \in 1..Len(l) : LayoutClosed[i] = l[i]
JournalSeen ==
  /\ ~rd.js.error /\ Begins(rd.js.closed)
  /\ rd.js.len <= js.len
  /\ rd.js.len = js.len =>
       rd.js.closed = js.closed /\ rd.js.pending = js.pending /\ rd.js.arch = js.arch
  /\ rd.js.arch <= js.arch /\ rd.js.arch <= Len(rd.js.closed)
  /\ rd.js.pending # NoEntry => rd.js.pending.n = Len(rd.js.closed) + 1 /\ rd.js.pending.n < MaxSeg
PendingSeen ==
  /\ js.arch <= Len(rd.js.closed)
  /\ rd.pend => rd.js.pending # NoEntry /\ closed[rd.js.pending.n] # 0

\* The handle is the segment after the closed ones the read counts, no line of the
\* ledger as it was is missing, and where there is no handle there was no open segment.
Unopened == rd.pend \/ (rd.js.closed = <<>> /\ rd.js.pending = NoEntry)
Handle ==
  LET l == ReadClosedList(rd)
  IN /\ Begins(l) /\ rd.h \in {0, Len(l) + 1} /\ rd.h <= Len(data)
     /\ rd.h = 0 => Unopened /\ rd.base <= NextStart(l)
     /\ rd.h # 0 => rd.base <= NextStart(l) + Len(data[rd.h].lines)

\* What was seen of the pending segment still holds.
Settles == rd.js.pending = NoEntry \/ rd.pend \/ closed[rd.js.pending.n] = 0

Taken ==
  LET l == ReadClosedList(rd)
  IN /\ Begins(l) /\ rd.h \in {0, Len(l) + 1} /\ rd.h <= Len(data)
     /\ rd.h = 0 => Unopened /\ rd.n = 0
     /\ rd.h # 0 => rd.n <= Len(data[rd.h].lines) /\ (l # <<>> => rd.n > 0)
     /\ rd.base <= NextStart(l) + rd.n
     /\ ~rd.missing /\ (rd.torn => Stuck)

Attempt == {"observe", "observe2", "open", "journal2", "restat", "restat2"}
Verifying == {"closed", "archived", "archived2", "ok"}
Reads ==
  [st : {"idle", "journal", "read", "break"} \cup Attempt \cup Verifying, base : Nat, js : Journal,
   pend : BOOLEAN, open : BOOLEAN, h : Nat, n : Nat, torn : BOOLEAN, k : Nat, missing : BOOLEAN]
ReaderInv ==
  /\ rd \in Reads /\ rd.base <= Sealed
  /\ rd.st = "journal" => ~rd.pend
  /\ rd.st \in {"journal", "read"} \cup Attempt => ~rd.missing
  /\ rd.st \in {"read"} \cup Attempt \cup Verifying => JournalSeen
  /\ rd.st \in Attempt => PendingSeen
  /\ rd.st = "journal2" /\ rd.js.len = js.len /\ Settles => Handle
  /\ rd.st \in {"restat", "restat2"} /\ Settles => Handle
  /\ rd.st = "read" => Handle
  /\ rd.st \in Verifying => Taken
  /\ rd.st = "closed" => rd.k > rd.js.arch
  /\ rd.st \in {"archived", "archived2"} => rd.k > 0
  /\ rd.st = "archived2" => rd.k <= rd.js.arch /\ closed[rd.k] = 0
  /\ rd.st = "break" => Stuck

\* An open segment is torn or whole.
LEMMA OpenTails ==
  ASSUME TypeOK, DiskInv
  PROVE  /\ OpenTail \in {"ok", "bad"} /\ (~Unparseable <=> OpenTail = "ok")
         /\ \A k \in 1..Len(data) : data[k].tail \in {"ok", "bad"}
BY LayoutOK DEF DiskInv, TailsClean, TypeOK, OpenTail, Unparseable

\* What is installed is the rotation's event, whole, as a new open segment.
LEMMA InstalledWhole ==
  ASSUME TypeOK, DiskInv, Install, tmp.st = "full"
  PROVE  /\ P' = Len(data) + 1 /\ P' # 0 /\ OpenTail' = "ok"
         /\ Len(data') = Len(data) + 1 /\ \A k \in 1..Len(data) : data'[k] = data[k]
         /\ data'[P'].lines = <<tmp.ev>>
<1> DEFINE f == [lines |-> <<tmp.ev>>, tail |-> "ok"]
<1>1. P' = Len(data) + 1 /\ data' = Append(data, f) BY DEF Install
<1>2. data \in Seq(SegmentFile) /\ Len(data) \in Nat BY LayoutOK DEF TypeOK
<1>3. f.tail = "ok" /\ f.lines = <<tmp.ev>> OBVIOUS
<1> HIDE DEF f
<1>4. Len(data') = Len(data) + 1 /\ data'[Len(data) + 1] = f /\ \A k \in 1..Len(data) : data'[k] = data[k]
  BY <1>1, <1>2
<1> QED BY <1>1, <1>2, <1>3, <1>4 DEF OpenTail

\* A line that is written to its end is whole.
LEMMA WrittenWhole ==
  ASSUME TypeOK, DiskInv, P # 0, P' = P, NEW e, NEW end, data' = Written(e, end)
  PROVE  OpenTail' = end
<1>1. P \in 1..Len(data) /\ data \in Seq(SegmentFile) /\ Len(data) \in Nat BY LayoutOK DEF TypeOK
<1>2. data[P].tail # "merged" BY <1>1, OpenTails
<1> DEFINE f == [lines |-> Append(data[P].lines, e), tail |-> end]
<1>3. data' = [data EXCEPT ![P] = f] BY <1>1, <1>2 DEF Written
<1>4. f.tail = end OBVIOUS
<1> HIDE DEF f
<1>5. data'[P] = f BY <1>1, <1>3
<1> QED BY <1>4, <1>5 DEF OpenTail

\* The acting process knows what it needs of the open segment's tail.
LEMMA TailOwn ==
  ASSUME TypeOK, TypeOK', JournalInv, WholeInv, WholeInv', AckInv, TailInv, NEW p \in Proc,
         \/ \E g \in Ops : Acquire(p, g)
         \/ ApplyStart(p) \/ Step(p) \/ Restart(p) \/ Crash(p)
  PROVE  TailKnown(p)'
<1> USE DEF Goto
<1>t. pc \in [Proc -> Label] /\ cache \in [Proc -> WriterCache] BY DEF TypeOK
<1>k. TailKnown(p) /\ DiskInv /\ DiskInv' BY DEF TailInv, WholeInv
<1>o. OpenTail \in {"ok", "bad"} /\ (~Unparseable <=> OpenTail = "ok") BY <1>k, OpenTails
<1>r. Recovered.key.tail = OpenTail /\ NoCache.key.tail = "ok" BY DEF Recovered, DiskKey, NoCache
<1>d. Recovered'.key.tail = OpenTail' BY DEF Recovered, DiskKey
<1>s. ASSUME UNCHANGED <<P, data>> PROVE OpenTail' = OpenTail BY <1>s DEF OpenTail
<1>p. /\ Past = {"write", "unlink", "intent", "abort", "rec_end", "a_commit", "rec_abort", "rec_install",
                 "rec_commit", "tmp", "rename", "install", "commit", "reconcile"}
      /\ \A g \in Goal : AfterFresh(g) \in {"intent", "a_commit", "write"}
  BY DEF Past, Locked, Settled, InRotation, AfterFresh
\* Nobody goes past a torn line, and who is past one already sees the segment as it was.
<1>a. ASSUME UNCHANGED <<P, data, cache>>, pc'[p] \in Past => pc[p] \in Past,
             pc'[p] \in {"commit", "rec_commit"} => pc[p] = pc'[p] \/ P # 0
      PROVE  TailKnown(p)'
  BY <1>a, <1>k, <1>s DEF TailKnown
<1>b. ASSUME UNCHANGED <<P, data>>, pc[p] \in Past \/ OpenTail = "ok", cache'[p].key.tail = OpenTail,
             pc'[p] \notin {"commit", "rec_commit"}
      PROVE  TailKnown(p)'
  BY <1>b, <1>k, <1>s DEF TailKnown
<1>1. CASE \/ \E g \in Ops : Acquire(p, g)
           \/ ApplyStart(p) \/ PlaceHold(p) \/ ReleaseHold(p) \/ ReleaseUnlink(p)
  BY <1>1, <1>t, <1>p, <1>a DEF Acquire, ApplyStart, PlaceHold, ReleaseHold, ReleaseUnlink, Unlock, disk
<1>2. CASE EnsureFresh(p)
  <2>0. UNCHANGED <<P, data>> /\ pc[p] = "fresh" BY <1>2 DEF EnsureFresh, disk
  <2>1. CASE /\ DiskKey = cache[p].key /\ Goto(p, AfterFresh(goal[p])) /\ UNCHANGED cache
    <3>1. DiskKey.tail = OpenTail BY DEF DiskKey
    <3>2. OpenTail = "ok" BY <3>1, <2>1, <1>k DEF TailKnown
    <3>3. pc'[p] \notin {"commit", "rec_commit"} BY <2>1, <1>t, <1>p DEF TypeOK
    <3> QED BY <2>0, <2>1, <3>2, <3>3, <1>b, <1>k DEF TailKnown
  <2>2. CASE ~Unparseable /\ cache' = [cache EXCEPT ![p] = Recovered]
             /\ Goto(p, IF Recovered.pending THEN "reconcile" ELSE AfterFresh(goal[p]))
    BY <2>2, <1>t, <1>p, <1>r, <2>0, <1>b, <1>o DEF TypeOK
  <2>3. CASE Unparseable /\ Fail(p) /\ UNCHANGED cache
    BY <2>3, <1>t, <2>0, <1>a, <1>p DEF Fail, Unlock
  <2> QED BY <1>2, <2>1, <2>2, <2>3 DEF EnsureFresh
<1>3. CASE \/ ReconcileTornTail(p) \/ ReconcileUnlinkTmp(p) \/ ReconcileAbort(p) \/ ReconcileCommit(p)
           \/ ReconcileForward(p)
  <2>1. UNCHANGED <<P, data, cache>> /\ pc[p] \in Past
    BY <1>3, <1>p DEF ReconcileTornTail, ReconcileUnlinkTmp, ReconcileAbort, ReconcileCommit, ReconcileForward
  <2>2. pc'[p] \in {"commit", "rec_commit"} => P # 0
    BY <1>t, <1>3 DEF ReconcileForward, ReconcileTornTail, ReconcileUnlinkTmp, ReconcileAbort, ReconcileCommit
  <2> QED BY <2>1, <2>2, <1>a
<1>4. CASE ReconcileInstall(p) \/ RotateInstall(p)
  BY <1>4, <1>k, InstalledWhole DEF ReconcileInstall, RotateInstall, AckInv, RotationKnown, TailKnown
<1>5. CASE ReconcileEnd(p)
  <2>1. UNCHANGED <<P, data>> /\ pc[p] \in Past /\ cache' = [cache EXCEPT ![p] = Recovered]
    BY <1>5, <1>p DEF ReconcileEnd, disk
  <2>2. pc'[p] \notin {"commit", "rec_commit"} BY <1>5, <1>t, <1>p DEF ReconcileEnd, Unlock, TypeOK
  <2>3. cache'[p].key.tail = OpenTail BY <2>1, <1>t, <1>r
  <2> QED BY <2>1, <2>2, <2>3, <1>b
<1>6. CASE WriteBegin(p)
  BY <1>6, <1>t, <1>k, <1>p DEF WriteBegin, TailKnown
<1>7. CASE WriteEnd(p)
  <2>1. P # 0 /\ P' = P /\ data' = Written(wip[p], "ok") BY <1>7 DEF WriteEnd, WholeInv, WriterInv
  <2>2. OpenTail' = "ok" BY <2>1, <1>k, WrittenWhole
  <2>3. cache'[p].key.tail = OpenTail'
    BY <1>7, <1>t DEF WriteEnd, WriterCache, Key
  <2>4. pc'[p] \in {"unlink", "idle"} BY <1>7, <1>t DEF WriteEnd, Unlock
  <2> QED BY <2>2, <2>3, <2>4 DEF TailKnown
<1>8. CASE RotateIntent(p) \/ RotateRefused(p) \/ RotateTmp(p) \/ RotateRenameRefused(p)
  BY <1>8, <1>p, <1>t, <1>a DEF RotateIntent, RotateRefused, RotateTmp, RotateRenameRefused, disk, Unlock
<1>9. CASE RotateRename(p)
  BY <1>9, <1>t, <1>k DEF RotateRename, TailKnown, OpenTail
<1>10. CASE RotateAborted(p)
  BY <1>10, <1>t, <1>p, <1>b DEF RotateAborted, Unlock, WriterCache, DiskKey
<1>11. CASE RotateCommit(p) \/ ApplyCommit(p)
  BY <1>11, <1>t, <1>p, <1>b, <1>d, <1>s DEF RotateCommit, ApplyCommit, Unlock
<1>12. CASE Restart(p) \/ StartReconcile(p)
  <2>1. UNCHANGED <<P, data>> /\ pc'[p] \notin {"commit", "rec_commit"}
    BY <1>12, <1>t DEF Restart, StartReconcile, disk
  <2>2. CASE cache' = [cache EXCEPT ![p] = Recovered] /\ ~Unparseable
    BY <2>2, <1>t, <1>r, <2>1, <1>b, <1>o
  <2>3. CASE cache' = cache /\ pc'[p] = "idle" BY <2>1, <2>3, <1>a, <1>p
  <2> QED BY <1>12, <2>2, <2>3, <1>t DEF Restart, StartReconcile
<1>13. CASE Crash(p)
  BY <1>13, <1>t, <1>r, <1>p DEF Crash, TailKnown
<1>14. CASE \/ ApplyCompleteMoves(p) \/ ApplyPlan(p) \/ ApplySidecar(p) \/ ApplyLock(p) \/ ApplyBusy(p)
            \/ ApplyHeld(p) \/ ApplyReplan(p) \/ ApplyMove(p) \/ ApplyEnd(p)
  <2>1. UNCHANGED <<P, data, cache>>
    BY <1>14 DEF ApplyCompleteMoves, ApplyPlan, ApplySidecar, ApplyLock, ApplyBusy, ApplyHeld, ApplyReplan,
                 ApplyMove, ApplyEnd, Move, disk
  <2>2. pc'[p] \in {"a_end", "a_plan", "a_side", "a_lock", "fresh", "idle"}
    BY <1>14, <1>t DEF ApplyCompleteMoves, ApplyPlan, ApplySidecar, ApplyLock, ApplyBusy, ApplyHeld,
                       ApplyReplan, ApplyMove, ApplyEnd, Unlock
  <2> QED BY <2>1, <2>2, <1>a, <1>p
<1> QED
  BY <1>1, <1>2, <1>3, <1>4, <1>5, <1>6, <1>7, <1>8, <1>9, <1>10, <1>11, <1>12, <1>13, <1>14
  DEF Step, Reconcile, Rotate, Apply

\* What the others know stays true: they are not past the lock, or hold it.
LEMMA TailOthers ==
  ASSUME JournalInv, TailInv, NEW p \in Proc, Frame(p), lock = p \/ Outside, NEW q \in Proc, q # p
  PROVE  TailKnown(q)'
BY DEF TailInv, Frame, JournalInv, LockExcludes, Past, Locked, InRotation, Outside, OpenTail, TailKnown

\* Who ends or begins a rotation, and who takes the open segment's name away.
LEMMA RotationMoves ==
  ASSUME TypeOK, JournalInv, NEW p \in Proc,
         \/ \E g \in Ops : Acquire(p, g)
         \/ ApplyStart(p) \/ Step(p) \/ Restart(p) \/ Crash(p)
  PROVE  /\ \/ UNCHANGED <<js.closed, js.pending>>
            \/ pc[p] \in {"commit", "rec_commit", "rec_abort", "rename"} \/ RotateIntent(p)
         /\ P = 0 \/ P' = P \/ RotateRename(p)
<1> DEFINE Said == UNCHANGED <<js.closed, js.pending>>
           Named == P = 0 \/ P' = P
<1>1. ASSUME UNCHANGED <<P, js>> PROVE Said /\ Named BY <1>1
<1>2. ASSUME NEW b \in BOOLEAN, js' = [js EXCEPT !.torn = b], P' = P PROVE Said /\ Named
  BY <1>2 DEF TypeOK, Journal
<1>3. CASE \/ \E g \in Ops : Acquire(p, g)
           \/ ApplyStart(p) \/ Restart(p) \/ StartReconcile(p)
  BY <1>1, <1>3 DEF Acquire, ApplyStart, Restart, StartReconcile, disk
<1>4. CASE Reconcile(p)
  <2>1. CASE EnsureFresh(p) \/ ReconcileUnlinkTmp(p) \/ ReconcileForward(p) \/ ReconcileEnd(p)
    BY <1>1, <2>1 DEF EnsureFresh, ReconcileUnlinkTmp, ReconcileForward, ReconcileEnd, disk
  <2>2. CASE ReconcileTornTail(p) BY <1>2, <2>2 DEF ReconcileTornTail
  <2>3. CASE ReconcileAbort(p) \/ ReconcileCommit(p) BY <2>3 DEF ReconcileAbort, ReconcileCommit
  <2>4. CASE ReconcileInstall(p) BY <2>4 DEF ReconcileInstall, Install
  <2> QED BY <1>4, <2>1, <2>2, <2>3, <2>4 DEF Reconcile
<1>5. CASE Rotate(p)
  <2>1. CASE RotateRefused(p) \/ RotateTmp(p) \/ RotateAborted(p)
    BY <1>1, <2>1 DEF RotateRefused, RotateTmp, RotateAborted, disk
  <2>2. CASE RotateIntent(p) \/ RotateRenameRefused(p) \/ RotateCommit(p)
    BY <2>2 DEF RotateIntent, RotateRenameRefused, RotateCommit
  <2>3. CASE RotateRename(p) BY <2>3 DEF RotateRename
  <2>4. CASE RotateInstall(p) BY <2>4 DEF RotateInstall, Install
  <2> QED BY <1>5, <2>1, <2>2, <2>3, <2>4 DEF Rotate
<1>6. CASE \/ WriteBegin(p) \/ WriteEnd(p)
           \/ PlaceHold(p) \/ ReleaseHold(p) \/ ReleaseUnlink(p)
  BY <1>6 DEF WriteBegin, WriteEnd, PlaceHold, ReleaseHold, ReleaseUnlink, disk
<1>7. CASE Apply(p) /\ ~ApplyCommit(p)
  BY <1>1, <1>7 DEF Apply, ApplyCompleteMoves, ApplyPlan, ApplySidecar, ApplyLock, ApplyBusy, ApplyHeld,
                    ApplyReplan, ApplyMove, ApplyEnd, Move, disk
<1>8. CASE ApplyCommit(p)
  <2>1. JournalRecord(p, "archive") BY <1>8, ArchiveRecord
  <2> QED BY <1>8, <2>1 DEF JournalRecord, ApplyCommit
<1>9. CASE Crash(p)
  BY <1>2, <1>1, <1>9 DEF TearJournal, TearTmp, TearLine, disk, Crash
<1> HIDE DEF Said, Named
<1> QED BY <1>3, <1>4, <1>5, <1>6, <1>7, <1>8, <1>9 DEF Step, Said, Named

\* The open segment's file is missing only between rename and install, or at the start.
LEMMA OpenThereStep ==
  ASSUME TypeOK, JournalInv, WholeInv, TailInv, NEW p \in Proc,
         \/ \E g \in Ops : Acquire(p, g)
         \/ ApplyStart(p) \/ Step(p) \/ Restart(p) \/ Crash(p),
         DiskEffect
  PROVE  OpenThere'
<1> SUFFICES ASSUME P' = 0 PROVE Renamed' \/ (js'.closed = <<>> /\ js'.pending = NoEntry) BY DEF OpenThere
<1>i. OpenThere /\ TailKnown(p) /\ WriterInv(p) /\ DiskInv /\ JournalPhase(p)
  BY DEF TailInv, WholeInv, JournalInv
<1>1. CASE Closing
  <2>1. js.pending.n \in Seg /\ closed \in [Seg -> Nat]
    BY <1>1, <1>i, LayoutOK DEF Closing, DiskInv, PendingNext, Seg, TypeOK
  <2>2. closed'[js.pending.n] # 0 BY <1>1, <2>1 DEF Closing, RotationReady
  <2> QED BY <1>1, <2>2 DEF Closing, Renamed
<1>2. ASSUME NEW S \in SUBSET PendingMoves, Move(S) PROVE P = 0 /\ Renamed' = Renamed /\ js' = js
  BY <1>2, <1>i, MoveStep DEF Move
<1>3. ASSUME NEW f \in SegmentFile, Born(f) \/ Grown(f) PROVE FALSE
  BY <1>3, LayoutOK DEF Born, Grown
<1>4. CASE Spoken
  <2>1. P = 0 /\ closed' = closed BY <1>4 DEF Spoken
  <2>2. pc[p] \notin {"commit", "rec_commit"} BY <2>1, <1>i DEF TailKnown
  <2>3. pc[p] # "rename" BY <2>1, <1>i DEF WriterInv, RotationReady
  <2>4. pc[p] # "rec_abort" BY <2>1, <1>i DEF WriterInv, OpenThere, JournalPhase, InRotation
  <2>5. ~RotateIntent(p)
    BY <2>1, <1>i DEF OpenLines, WriterInv, Current, TypeOK, WriterCache, RotateIntent
  <2>6. UNCHANGED <<js.closed, js.pending>> BY <2>2, <2>3, <2>4, <2>5, RotationMoves
  <2> QED BY <2>1, <2>6, <1>i DEF OpenThere, Renamed
<1> QED BY <1>1, <1>2, <1>3, <1>4, <1>i DEF DiskEffect, OpenThere

\* No closed segment ends in a torn line.
LEMMA ClosedCleanStep ==
  ASSUME TypeOK, JournalInv, WholeInv, TailInv, NEW p \in Proc,
         \/ \E g \in Ops : Acquire(p, g)
         \/ ApplyStart(p) \/ Step(p) \/ Restart(p) \/ Crash(p),
         DiskEffect
  PROVE  ClosedClean'
<1>i. ClosedClean /\ TailKnown(p) BY DEF TailInv
<1>t. data \in Seq(SegmentFile) /\ Len(data) \in Nat /\ P \in 0..Len(data) BY LayoutOK DEF TypeOK
<1>1. CASE Spoken BY <1>1, <1>i DEF Spoken, ClosedClean
<1>2. CASE Closing
  BY <1>2, RotationMoves, <1>i DEF Closing, RotationReady, RotateRename, TailKnown, Past, Locked, InRotation,
    ClosedClean, OpenTail
<1>3. ASSUME NEW S \in SUBSET PendingMoves, Move(S) PROVE ClosedClean' BY <1>3, <1>i DEF Move, ClosedClean
<1>4. ASSUME NEW f \in SegmentFile, Born(f) PROVE ClosedClean'
  BY <1>4, <1>t, <1>i DEF Born, ClosedClean
<1>5. ASSUME NEW f \in SegmentFile, Grown(f) PROVE ClosedClean'
  BY <1>5, <1>t, <1>i DEF Grown, ClosedClean
<1> QED BY <1>1, <1>2, <1>3, <1>4, <1>5 DEF DiskEffect

\* Every segment after the first begins with the event that closed the one before it.
LEMMA ContinuedStep ==
  ASSUME TypeOK, JournalInv, WholeInv, AckInv, TailInv, NEW p \in Proc, DiskEffect, Longer, OpenEffect(p)
  PROVE  Continued'
<1> SUFFICES ASSUME NEW k \in 2..Len(data') PROVE data'[k].lines # <<>> /\ data'[k].lines[1].closes = k - 1
  BY DEF Continued
<1>t. data \in Seq(SegmentFile) /\ Len(data) \in Nat /\ P \in 0..Len(data) BY LayoutOK DEF TypeOK
<1>i. DiskInv /\ WriterInv(p) /\ OpenThere /\ JournalPhase(p) /\ RotationKnown(p)
  BY DEF TailInv, WholeInv, JournalInv, AckInv
<1>1. CASE k <= Len(data)
  <2>1. k \in 1..Len(data) /\ data[k].lines # <<>> /\ data[k].lines[1].closes = k - 1
    BY <1>1, <1>t DEF TailInv, Continued
  <2>2. data[k].lines \in Seq(Event) /\ Len(data[k].lines) \in Nat
    <3>1. data[k] \in SegmentFile BY <2>1, <1>t
    <3> QED BY <3>1 DEF SegmentFile
  <2>3. 1 \in 1..Len(data[k].lines) BY <2>1, <2>2
  <2>4. data'[k].lines[1] = data[k].lines[1] /\ Len(data'[k].lines) >= 1 BY <2>1, <2>2, <2>3 DEF Longer
  <2> QED BY <2>1, <2>4
<1>2. CASE k > Len(data)
  <2>1. PICK f \in SegmentFile : Born(f)
    BY <1>2, <1>t DEF Grown, DiskEffect, Spoken, Closing, Move
  <2>2. P = 0 /\ P' = Len(data) + 1 /\ Len(data') = Len(data) + 1 /\ k = P' /\ P' # P /\ data' # data
    BY <2>1, <1>2, <1>t DEF Born
  <2>3. pc[p] = "write" \/ (pc[p] \in {"install", "rec_install"} /\ Install) BY <2>2 DEF OpenEffect
  <2>4. Len(data) = Len(LayoutClosed) BY <2>2, <1>i DEF DiskInv, FullChainReadable
  <2>5. pc[p] # "write"
    BY <1>i, <2>2, <2>4, <1>t DEF JournalPhase, Settled, OpenThere, Renamed, LayoutClosed
  <2>6. tmp.st = "full" /\ tmp.ev = js.pending.rot /\ Renamed BY <2>3, <2>5, <1>i DEF RotationKnown, WriterInv
  <2>7. data'[k].lines = <<tmp.ev>> BY <2>2, <2>3, <2>5, <2>6, <1>i, InstalledWhole
  <2>8. js.pending # NoEntry /\ js.pending.rot.closes = js.pending.n BY <2>6 DEF Renamed, TailInv, PendingCloses
  <2>9. js.pending.n = Len(js.closed) + 1 /\ Len(LayoutClosed) = Len(js.closed) + 1
    BY <2>6, <2>8, <1>i, LayoutOK DEF LayoutClosed, DiskInv, PendingNext
  <2> QED BY <2>2, <2>4, <2>6, <2>7, <2>8, <2>9, <1>t, LayoutOK
<1> QED BY <1>1, <1>2, <1>t

LEMMA PendingClosesStep ==
  ASSUME TailInv, NEW p \in Proc, PendingEffect(p)
  PROVE  PendingCloses'
BY DEF TailInv, RotatePlan, PendingEffect, PendingCloses

LEMMA TailStep ==
  ASSUME TypeOK, TypeOK', JournalInv, WholeInv, WholeInv', AckInv, TailInv, CutsShow, [Next]_vars
  PROVE  TailInv'
<1>1. CASE Next
  <2>1. PICK p \in Proc : \/ \E g \in Ops : Acquire(p, g)
                          \/ ApplyStart(p) \/ Step(p) \/ Restart(p) \/ Crash(p)
    BY <1>1 DEF Next
  <2>2. KeptEffect(p) /\ Longer /\ Frame(p) /\ DiskEffect
    BY <2>1, EffectKept, WholeStep, FrameStep, EffectStep
  <2>3. lock = p \/ Outside BY <2>1, LockedStep DEF WholeInv
  <2>4. OpenThere' BY <2>1, <2>2, OpenThereStep
  <2>5. ClosedClean' BY <2>1, <2>2, ClosedCleanStep
  <2>6. Continued' /\ PendingCloses' BY <2>2, ContinuedStep, PendingClosesStep DEF KeptEffect
  <2>7. TailKnown(p)' BY <2>1, TailOwn
  <2>8. ASSUME NEW q \in Proc, q # p PROVE TailKnown(q)' BY <2>2, <2>3, <2>8, TailOthers
  <2> QED BY <2>4, <2>5, <2>6, <2>7, <2>8 DEF TailInv
<1>2. CASE UNCHANGED vars
  BY <1>2 DEF vars, disk, OpenTail, Renamed, TailInv, OpenThere, ClosedClean, Continued, PendingCloses,
    TailKnown
<1> QED BY <1>1, <1>2

LEMMA TailInit == Init => TailInv
<1> SUFFICES ASSUME Init PROVE TailInv OBVIOUS
<1>1. /\ P = 0 /\ data = <<>> /\ Len(data) = 0 /\ js.closed = <<>> /\ js.pending = NoEntry
      /\ \A p \in Proc : pc[p] = "idle" /\ cache[p].key.tail = "ok"
  BY DEF Init, EmptyJournal, NoCache
<1>2. "idle" \notin Past BY DEF Past, Locked, Settled, InRotation
<1> QED BY <1>1, <1>2 DEF TailInv, OpenThere, ClosedClean, Continued, PendingCloses, TailKnown

LEMMA TailAlways == ASSUME CutsShow PROVE Spec => []TailInv
<1>1. TypeOK /\ TypeOK' /\ JournalInv /\ WholeInv /\ WholeInv' /\ AckInv /\ TailInv /\ [Next]_vars => TailInv'
  BY TailStep
<1> QED BY <1>1, TailInit, WholeAlways, AckAlways, TypeCorrect, JournalSound, PTL DEF Spec

-----------------------------------------------------------------------------
(* What a reader may rely on while the writers go on.                        *)

\* No writer goes on past a torn line.
LEMMA StuckStays ==
  ASSUME TypeOK, WholeInv, TailInv, NEW p \in Proc, Frame(p),
         \/ \E g \in Ops : Acquire(p, g)
         \/ ApplyStart(p) \/ Step(p) \/ Restart(p) \/ Crash(p),
         Stuck
  PROVE  Stuck'
<1> USE DEF Goto
<1>t. pc \in [Proc -> Label] BY DEF TypeOK
<1>1. OpenTail # "ok" BY DEF Stuck, Unparseable
<1>2. pc[p] \notin Past /\ pc[p] # "write2" BY <1>1 DEF TailInv, TailKnown, Stuck, AppendInFlight
<1>3. Past = {"write", "unlink", "intent", "abort", "rec_end", "a_commit", "rec_abort", "rec_install",
              "rec_commit", "tmp", "rename", "install", "commit", "reconcile"}
  BY DEF Past, Locked, Settled, InRotation
<1>4. pc'[p] # "write2"
  <2>1. Entered(p) BY EnteredStep
  <2> QED BY <2>1, <1>2, <1>3 DEF Entered, WriteBegin
<1>5. UNCHANGED <<P, data>>
  <2>1. CASE \/ \E g \in Ops : Acquire(p, g)
             \/ ApplyStart(p) \/ Restart(p) \/ StartReconcile(p)
    BY <2>1 DEF Acquire, ApplyStart, Restart, StartReconcile, disk
  <2>2. CASE Reconcile(p)
    BY <2>2, <1>2, <1>3 DEF Reconcile, EnsureFresh, ReconcileTornTail, ReconcileUnlinkTmp, ReconcileAbort,
       ReconcileForward, ReconcileInstall, ReconcileCommit, ReconcileEnd, disk
  <2>3. CASE Rotate(p)
    BY <2>3, <1>2, <1>3 DEF Rotate, RotateIntent, RotateRefused, RotateTmp, RotateRename,
       RotateRenameRefused, RotateAborted, RotateInstall, RotateCommit
  <2>4. CASE \/ WriteBegin(p) \/ WriteEnd(p)
             \/ PlaceHold(p) \/ ReleaseHold(p) \/ ReleaseUnlink(p)
    BY <2>4, <1>2, <1>3 DEF WriteBegin, WriteEnd, PlaceHold, ReleaseHold, ReleaseUnlink, disk
  <2>5. CASE Apply(p)
    BY <2>5 DEF Apply, ApplyCompleteMoves, ApplyPlan, ApplySidecar, ApplyLock, ApplyBusy, ApplyHeld,
       ApplyReplan, ApplyCommit, ApplyMove, ApplyEnd, Move, disk
  <2>6. CASE Crash(p)
    BY <2>6, <1>2 DEF Crash, TearJournal, TearTmp, TearLine, disk
  <2> QED BY <2>1, <2>2, <2>3, <2>4, <2>5, <2>6 DEF Step
<1>6. ~AppendInFlight' BY <1>4 DEF Stuck, AppendInFlight, Frame
<1>7. OpenTail' = OpenTail BY <1>5 DEF OpenTail
<1> QED BY <1>6, <1>7 DEF Stuck, Unparseable

\* What a step of the writers may do to what a read has seen.
LayoutGrows ==
  /\ Len(LayoutClosed') >= Len(LayoutClosed)
  /\ \A i \in 1..Len(LayoutClosed) : LayoutClosed'[i] = LayoutClosed[i]
NamesStay ==
  \A n \in Seg : /\ closed[n] # 0 /\ n > js.arch => closed'[n] # 0
                 /\ closed[n] = 0 /\ n <= Len(js.closed) => closed'[n] = 0
JournalGoesOn ==
  /\ js'.len >= js.len /\ js'.arch >= js.arch
  /\ js'.len = js.len => js'.closed = js.closed /\ js'.pending = js.pending /\ js'.arch = js.arch
DiskGoesOn ==
  LayoutGrows /\ NamesStay /\ JournalGoesOn /\ Longer /\ Sealed' >= Sealed /\ (Stuck => Stuck')

LEMMA LayoutStep == ASSUME TypeOK, JournalInv, DiskInv, DiskEffect PROVE LayoutGrows
<1>t. LayoutClosed \in Seq(Entry) /\ Len(LayoutClosed) \in Nat BY LayoutOK
<1>1. ASSUME LayoutClosed' = LayoutClosed PROVE LayoutGrows BY <1>1, <1>t DEF LayoutGrows
<1>2. CASE Spoken BY <1>1, <1>2 DEF Spoken
<1>3. ASSUME NEW S \in SUBSET PendingMoves, Move(S) PROVE LayoutGrows BY <1>1, <1>3, MoveStep
<1>4. ASSUME NEW f \in SegmentFile, Born(f) \/ Grown(f) PROVE LayoutGrows
  BY <1>1, <1>4 DEF Born, Grown, LayoutClosed, Renamed
<1>5. CASE Closing
  BY <1>5, LayoutPlain, LayoutOK, <1>t DEF Closing, RotationReady, LayoutClosed, LayoutGrows
<1> QED BY <1>2, <1>3, <1>4, <1>5 DEF DiskEffect

LEMMA NamesStep == ASSUME TypeOK, JournalInv, DiskInv, DiskEffect PROVE NamesStay
<1>t. closed \in [Seg -> Nat] /\ js.arch \in Nat /\ Len(js.closed) \in Nat BY LayoutOK DEF TypeOK
<1>1. ASSUME closed' = closed PROVE NamesStay BY <1>1 DEF NamesStay
<1>2. CASE Spoken BY <1>1, <1>2 DEF Spoken
<1>3. ASSUME NEW S \in SUBSET PendingMoves, Move(S) PROVE NamesStay
  BY <1>3, <1>t DEF PendingMoves, Move, Seg, NamesStay
<1>4. ASSUME NEW f \in SegmentFile, Born(f) \/ Grown(f) PROVE NamesStay BY <1>1, <1>4 DEF Born, Grown
<1>5. CASE Closing
  BY <1>5, <1>t DEF Closing, RotationReady, DiskInv, PendingNext, Seg, NamesStay
<1> QED BY <1>2, <1>3, <1>4, <1>5 DEF DiskEffect

LEMMA JournalGoes ==
  ASSUME TypeOK, JournalInv, NEW p \in Proc, Frame(p)
  PROVE  JournalGoesOn
<1>1. js.len \in Nat /\ js.arch \in Nat BY DEF TypeOK, Journal
<1>2. ASSUME js'.arch = js.arch + 1, ApplyCommit(p) PROVE js'.len = js.len + 1
  BY <1>2, ArchiveRecord DEF JournalRecord
<1> QED BY <1>1, <1>2 DEF Frame, JournalGoesOn

LEMMA SealedGrows ==
  ASSUME TypeOK, TypeOK', JournalInv, DiskInv, DiskInv', DiskEffect, SpanInv
  PROVE  Sealed' >= Sealed
<1>1. LogEffect /\ Sealed \in Nat BY EffectLog, SpanTyped DEF SpanTypes
<1> QED BY <1>1 DEF LogEffect, LogStays, LogGrows

LEMMA WritersGoOn ==
  ASSUME TypeOK, TypeOK', JournalInv, WholeInv, WholeInv', TailInv, SpanInv, CutsShow, [Next]_vars
  PROVE  DiskGoesOn
<1>1. CASE Next
  <2>1. PICK p \in Proc : \/ \E g \in Ops : Acquire(p, g)
                          \/ ApplyStart(p) \/ Step(p) \/ Restart(p) \/ Crash(p)
    BY <1>1 DEF Next
  <2>2. Longer /\ Frame(p) /\ DiskEffect BY <2>1, WholeStep, FrameStep, EffectStep
  <2>3. DiskInv /\ DiskInv' BY DEF WholeInv
  <2>4. LayoutGrows /\ NamesStay /\ JournalGoesOn BY <2>2, <2>3, LayoutStep, NamesStep, JournalGoes
  <2>5. Sealed' >= Sealed BY <2>2, <2>3, SealedGrows
  <2>6. Stuck => Stuck' BY <2>1, <2>2, StuckStays
  <2> QED BY <2>2, <2>4, <2>5, <2>6 DEF DiskGoesOn
<1>2. CASE UNCHANGED vars
  <2>1. UNCHANGED <<P, closed, data, js, pc>> BY <1>2 DEF vars, disk
  <2>2. UNCHANGED <<LayoutClosed, OpenLines, OpenTail>> BY <2>1 DEF LayoutClosed, Renamed, OpenLines, OpenTail
  <2>3. SpanTypes BY SpanTyped DEF WholeInv
  <2>4. Longer BY <2>1, <2>3 DEF Longer, SpanTypes
  <2>5. LayoutGrows /\ Sealed' >= Sealed BY <2>2, <2>3 DEF LayoutGrows, Sealed, SpanTypes
  <2>6. JournalGoesOn /\ NamesStay BY <2>1, LayoutOK DEF JournalGoesOn, NamesStay, TypeOK, Journal
  <2> QED BY <2>1, <2>2, <2>4, <2>5, <2>6 DEF DiskGoesOn, Stuck, Unparseable, AppendInFlight
<1> QED BY <1>1, <1>2

-----------------------------------------------------------------------------
(* The reader's invariant.                                                   *)

\* What the closed segments of a read are, and where the next one starts.
LEMMA ReadList ==
  ASSUME rd \in Reads
  PROVE  /\ rd.js \in Journal /\ rd.js.closed \in Seq(Entry) /\ Len(rd.js.closed) \in Nat
         /\ rd.js.len \in Nat /\ rd.js.arch \in Nat /\ rd.js.pending \in Entry
         /\ ReadClosedList(rd) \in Seq(Entry) /\ Len(ReadClosedList(rd)) \in Nat
         /\ NextStart(ReadClosedList(rd)) \in Nat
<1>1. rd.js \in Journal /\ rd.pend \in BOOLEAN BY DEF Reads
<1>2. rd.js.closed \in Seq(Entry) /\ rd.js.pending \in Entry /\ rd.js.len \in Nat /\ rd.js.arch \in Nat
  BY <1>1 DEF Journal
<1>3. ReadClosedList(rd) \in Seq(Entry) BY <1>1, <1>2 DEF ReadClosedList
<1>4. ASSUME NEW l \in Seq(Entry) PROVE Len(l) \in Nat /\ NextStart(l) \in Nat
  <2>1. Len(l) \in Nat /\ (l # <<>> => Len(l) \in 1..Len(l)) BY <1>4
  <2>2. l # <<>> => l[Len(l)] \in Entry BY <1>4, <2>1
  <2>3. l # <<>> => l[Len(l)].end \in Nat BY <2>2 DEF Entry
  <2> QED BY <2>1, <2>3 DEF NextStart
<1> QED BY <1>1, <1>2, <1>3, <1>4

\* The segment after the closed ones, and how a bound carries over a longer file.
LEMMA NextSegment ==
  ASSUME NEW a \in Nat, NEW b \in Nat, NEW n, n = a + 1, n < MaxSeg, b <= a
  PROVE  n \in Seg /\ n > b
<1>1. MaxSeg \in Nat /\ n \in Nat /\ n > b BY LayoutOK, LedgerAssumption
<1> QED BY <1>1 DEF Seg

LEMMA BoundGrows ==
  ASSUME NEW a \in Nat, NEW s \in Nat, NEW b \in Nat, NEW c \in Nat, a <= s + b, c >= b
  PROVE  a <= s + c
OBVIOUS

LEMMA StaysBelow ==
  ASSUME NEW a \in Nat, NEW b \in Nat, NEW c \in Nat, a <= b, c >= b
  PROVE  a <= c
OBVIOUS

LEMMA ArchivedSegment ==
  ASSUME NEW k \in Nat, NEW a \in Nat, NEW b \in Nat, NEW c \in Nat, k > 0, k <= a, a <= b, b <= c, c < MaxSeg
  PROVE  k \in Seg /\ k <= c
<1>1. MaxSeg \in Nat BY LedgerAssumption
<1> QED BY <1>1 DEF Seg

\* The writers take nothing from a read.
LEMMA BeginsGoesOn ==
  ASSUME TypeOK, LayoutGrows, NEW l, Len(l) \in Nat, Begins(l)
  PROVE  Len(l) <= Len(LayoutClosed') /\ \A i \in 1..Len(l) : LayoutClosed'[i] = l[i]
BY LayoutOK DEF Begins, LayoutGrows

LEMMA WritersSpareReads ==
  ASSUME TypeOK, TypeOK', JournalInv, WholeInv, WholeInv', ReaderInv, DiskGoesOn, ArchivesAged, ~SameDay, rd' = rd
  PROVE  ReaderInv'
<1> DEFINE l == ReadClosedList(rd)
<1>r. rd \in Reads /\ rd' \in Reads /\ rd.base <= Sealed BY DEF ReaderInv
<1>l. /\ Len(rd.js.closed) \in Nat /\ rd.js.len \in Nat /\ rd.js.arch \in Nat /\ rd.base \in Nat /\ rd.h \in Nat
      /\ rd.n \in Nat /\ rd.k \in Nat
  BY <1>r, ReadList DEF Reads
<1>n. Len(l) \in Nat /\ NextStart(l) \in Nat BY <1>r, ReadList
<1>g. LayoutGrows /\ NamesStay /\ JournalGoesOn /\ Longer /\ Sealed' >= Sealed /\ (Stuck => Stuck')
  BY DEF DiskGoesOn
<1>s. SpanTypes /\ SpanTypes' /\ Sealed \in Nat /\ Sealed' \in Nat
  <2>1. SpanTypes /\ SpanTypes' BY SpanTyped, SpanTypedNext DEF WholeInv
  <2> QED BY <2>1 DEF SpanTypes
<1>d. /\ Len(data) \in Nat /\ Len(data') \in Nat
      /\ \A k \in 1..Len(data) : Len(data[k].lines) \in Nat
      /\ \A k \in 1..Len(data') : Len(data'[k].lines) \in Nat
  BY <1>s DEF SpanTypes
<1>j. /\ js.arch \in Nat /\ js.len \in Nat /\ js'.len \in Nat /\ js'.arch \in Nat
  BY DEF TypeOK, Journal
<1>m. /\ MaxSeg \in Nat /\ Len(js.closed) < MaxSeg /\ Len(js.closed) \in Nat /\ js.arch <= Len(js.closed)
  BY LayoutOK DEF LayoutClosed, WholeInv, DiskInv, LayoutFits, JournalInv
<1>e. /\ js'.len >= js.len /\ js'.arch >= js.arch
      /\ js'.len = js.len => js'.closed = js.closed /\ js'.pending = js.pending /\ js'.arch = js.arch
  BY <1>g DEF JournalGoesOn
<1>f. \A n \in Seg : /\ closed[n] # 0 /\ n > js.arch => closed'[n] # 0
                     /\ closed[n] = 0 /\ n <= Len(js.closed) => closed'[n] = 0
  BY <1>g DEF NamesStay
<1>0. UNCHANGED <<l, Unopened>> BY DEF ReadClosedList, Unopened
<1>1. JournalSeen => JournalSeen'
  <2> SUFFICES ASSUME JournalSeen PROVE JournalSeen' OBVIOUS
  <2>1. Begins(rd.js.closed)'
    BY <1>l, <1>g, BeginsGoesOn DEF JournalSeen, Begins
  <2>0. rd.js.len <= js.len /\ rd.js.arch <= js.arch BY DEF JournalSeen
  <2>2. js'.len = rd.js.len => js'.len = js.len BY <2>0, <1>l, <1>j, <1>e
  <2>n. /\ rd.js.len \in Nat /\ js.len \in Nat /\ js'.len \in Nat /\ js'.len >= js.len
        /\ rd.js.arch \in Nat /\ js.arch \in Nat /\ js'.arch \in Nat /\ js'.arch >= js.arch
    BY <1>l, <1>j, <1>e
  <2>3. rd.js.len <= js'.len BY <2>0, <2>n, StaysBelow
  <2>4. rd.js.arch <= js'.arch BY <2>0, <2>n, StaysBelow
  <2> QED BY <2>1, <2>2, <2>3, <2>4, <1>e DEF JournalSeen
<1>c. JournalSeen /\ PendingSeen /\ rd.js.pending # NoEntry => rd.js.pending.n \in Seg /\ rd.js.pending.n > js.arch
  BY <1>l, <1>j, NextSegment DEF JournalSeen, PendingSeen
<1>2. rd.st \in Attempt /\ JournalSeen /\ PendingSeen => PendingSeen'
  <2> SUFFICES ASSUME rd.st \in Attempt, JournalSeen, PendingSeen PROVE PendingSeen' OBVIOUS
  <2>1. js'.arch <= Len(rd.js.closed)
    BY DEF ArchivesAged, AttemptKnows, Attempt, PendingSeen
  <2>2. rd.pend => closed'[rd.js.pending.n] # 0
    BY <1>c, <1>f DEF PendingSeen
  <2> QED BY <2>1, <2>2 DEF PendingSeen
<1>3. rd.st \in Attempt /\ JournalSeen /\ PendingSeen /\ Settles' => Settles
  BY <1>c, <1>f DEF Settles
<1>4. Begins(l) => Begins(l)' BY <1>0, <1>n, <1>g, BeginsGoesOn DEF Begins
<1>5. rd.h <= Len(data) => rd.h <= Len(data') BY <1>d, <1>l, <1>g DEF Longer
<1>6. rd.h # 0 /\ rd.h <= Len(data) => Len(data'[rd.h].lines) >= Len(data[rd.h].lines)
  BY <1>d, <1>l, <1>g DEF Longer
<1>8. rd.h # 0 /\ rd.h <= Len(data) => Len(data[rd.h].lines) \in Nat /\ Len(data'[rd.h].lines) \in Nat
  <2> SUFFICES ASSUME rd.h # 0, rd.h <= Len(data)
               PROVE  Len(data[rd.h].lines) \in Nat /\ Len(data'[rd.h].lines) \in Nat
    OBVIOUS
  <2>1. rd.h \in 1..Len(data) BY <1>d, <1>l
  <2>2. rd.h \in 1..Len(data') BY <1>d, <1>l, <1>5
  <2> QED BY <2>1, <2>2, <1>d
<1> HIDE DEF l
<1>7. Handle => Handle'
  <2> SUFFICES ASSUME Handle PROVE Handle' OBVIOUS
  <2>1. /\ Begins(l) /\ rd.h \in {0, Len(l) + 1} /\ rd.h <= Len(data)
        /\ rd.h = 0 => Unopened /\ rd.base <= NextStart(l)
        /\ rd.h # 0 => rd.base <= NextStart(l) + Len(data[rd.h].lines)
    BY DEF Handle, l
  <2>2. rd.h # 0 => rd.base <= NextStart(l) + Len(data'[rd.h].lines)
    <3> SUFFICES ASSUME rd.h # 0 PROVE rd.base <= NextStart(l) + Len(data'[rd.h].lines) OBVIOUS
    <3>1. /\ rd.base <= NextStart(l) + Len(data[rd.h].lines) /\ Len(data'[rd.h].lines) >= Len(data[rd.h].lines)
          /\ Len(data[rd.h].lines) \in Nat /\ Len(data'[rd.h].lines) \in Nat
      BY <2>1, <1>6, <1>8
    <3>2. rd.base \in Nat /\ NextStart(l) \in Nat BY <1>l, <1>n
    <3> QED BY <3>1, <3>2, BoundGrows
  <2>3. /\ Begins(l)' /\ rd'.h \in {0, Len(l') + 1} /\ rd'.h <= Len(data')
        /\ rd'.h = 0 => Unopened' /\ rd'.base <= NextStart(l')
        /\ rd'.h # 0 => rd'.base <= NextStart(l') + Len(data'[rd'.h].lines)
    BY <2>1, <2>2, <1>0, <1>4, <1>5
  <2> QED BY <2>3 DEF Handle, l, NextStart
<1>9. Taken => Taken'
  <2> SUFFICES ASSUME Taken PROVE Taken' OBVIOUS
  <2>1. /\ Begins(l) /\ rd.h \in {0, Len(l) + 1} /\ rd.h <= Len(data)
        /\ rd.h = 0 => Unopened /\ rd.n = 0
        /\ rd.h # 0 => rd.n <= Len(data[rd.h].lines) /\ (l # <<>> => rd.n > 0)
        /\ rd.base <= NextStart(l) + rd.n
        /\ ~rd.missing /\ (rd.torn => Stuck)
    BY DEF Taken, l
  <2>2. rd.h # 0 => rd.n <= Len(data'[rd.h].lines)
    BY <2>1, <1>6, <1>8, <1>l, StaysBelow
  <2>3. /\ Begins(l)' /\ rd'.h \in {0, Len(l') + 1} /\ rd'.h <= Len(data')
        /\ rd'.h = 0 => Unopened' /\ rd'.n = 0
        /\ rd'.h # 0 => rd'.n <= Len(data'[rd'.h].lines) /\ (l' # <<>> => rd'.n > 0)
        /\ rd'.base <= NextStart(l') + rd'.n
        /\ ~rd'.missing /\ (rd'.torn => Stuck')
    BY <2>1, <2>2, <1>0, <1>4, <1>5, <1>g
  <2> QED BY <2>3 DEF Taken, l, NextStart
<1>10. rd.st \in Verifying => JournalSeen BY DEF ReaderInv
<1>11. rd.st = "archived2" => closed'[rd.k] = 0
  <2> SUFFICES ASSUME rd.st = "archived2" PROVE closed'[rd.k] = 0 OBVIOUS
  <2>1. rd.k > 0 /\ rd.k <= rd.js.arch /\ closed[rd.k] = 0 /\ rd.js.arch <= js.arch
    BY <1>10 DEF ReaderInv, Verifying, JournalSeen
  <2>n. rd.k \in Nat /\ rd.js.arch \in Nat /\ js.arch \in Nat /\ Len(js.closed) \in Nat BY <1>l, <1>j, <1>m
  <2>2. rd.k \in Seg /\ rd.k <= Len(js.closed) BY <2>1, <2>n, <1>m, ArchivedSegment
  <2> QED BY <2>1, <2>2, <1>f
<1>12. rd.js.len = js'.len /\ JournalSeen => rd.js.len = js.len
  BY <1>l, <1>j, <1>e DEF JournalSeen
<1>13. rd.base <= Sealed' BY <1>r, <1>g, <1>l, <1>s
<1>14. /\ rd.st = "journal2" /\ rd.js.len = js'.len /\ Settles' => Handle'
       /\ rd.st \in {"restat", "restat2"} /\ Settles' => Handle'
  BY <1>3, <1>7, <1>12 DEF ReaderInv, Attempt
<1> QED
  BY <1>r, <1>1, <1>2, <1>7, <1>9, <1>11, <1>13, <1>14, <1>g DEF ReaderInv

\* A step of the reader leaves the ledger alone.
Frozen == UNCHANGED <<P, closed, archive, data, js, pc, LayoutClosed, Sealed, Stuck>>

LEMMA ReaderFrozen == ASSUME UNCHANGED vars PROVE Frozen
<1>1. UNCHANGED <<P, closed, archive, data, js, pc>> BY DEF vars, disk
<1>2. UNCHANGED <<LayoutClosed, OpenLines, OpenTail>> BY <1>1 DEF LayoutClosed, Renamed, OpenLines, OpenTail
<1> QED BY <1>1, <1>2 DEF Frozen, Sealed, Stuck, Unparseable, AppendInFlight

\* What an attempt saw is seen as long as it keeps it.
LEMMA SeenStays ==
  ASSUME Frozen, rd'.js = rd.js
  PROVE  /\ JournalSeen => JournalSeen'
         /\ rd'.pend = rd.pend /\ PendingSeen => PendingSeen'
         /\ rd'.pend = rd.pend => Settles' = Settles
BY DEF Frozen, JournalSeen, Begins, PendingSeen, Settles

LEMMA HandleStays ==
  ASSUME Frozen, UNCHANGED <<rd.js, rd.pend, rd.base, rd.h>>, Handle
  PROVE  Handle'
BY DEF ReadClosedList, Unopened, NextStart, Handle, Frozen, Begins

LEMMA TakenStays ==
  ASSUME Frozen, UNCHANGED <<rd.js, rd.pend, rd.base, rd.h, rd.n, rd.torn, rd.missing>>, Taken
  PROVE  Taken'
BY DEF ReadClosedList, Unopened, NextStart, Taken, Frozen, Begins

\* A read that starts, from nothing or from the top, or ends.
Top(b) == [NoRead EXCEPT !.st = "journal", !.base = b]
LEMMA ReadTop ==
  ASSUME Frozen, NEW b \in Nat, Sealed \in Nat, b <= Sealed,
         rd' = Top(b) \/ rd' = NoRead
  PROVE  ReaderInv'
<1>1. NoRead \in Reads
  <2>1. EmptyJournal \in Journal BY NullTypes DEF EmptyJournal, Journal
  <2> QED BY <2>1 DEF NoRead, Reads
<1>2. CASE rd' = Top(b)
  BY <1>1, <1>2 DEF Reads, Top, NoRead, Frozen, ReaderInv, Attempt, Verifying
<1>3. CASE rd' = NoRead
  BY <1>1, <1>3, 0 <= Sealed DEF NoRead, Frozen, ReaderInv, Attempt, Verifying
<1> QED BY <1>2, <1>3

\* The attempt up to the handle.
LEMMA ReadJournalKeeps ==
  ASSUME TypeOK, JournalInv, DiskInv, ReaderInv, Frozen, ReadJournal
  PROVE  ReaderInv'
<1>1. rd \in Reads /\ rd.st = "journal" /\ rd' = [rd EXCEPT !.st = "observe", !.js = js]
  BY DEF ReaderInv, ReadJournal
<1>2. js \in Journal BY DEF TypeOK
<1>3. rd' \in Reads BY <1>1, <1>2 DEF Reads, Attempt
<1>4. /\ rd'.st = "observe" /\ rd'.js = js /\ rd'.pend = rd.pend /\ rd'.base = rd.base
      /\ rd'.missing = rd.missing
  BY <1>1 DEF Reads
<1>5. ~rd.pend /\ ~rd.missing /\ rd.base <= Sealed BY <1>1 DEF ReaderInv
<1>6. Begins(js.closed)
  <2>1. js.closed \in Seq(Entry) /\ js.pending \in Entry /\ Len(js.closed) \in Nat BY LayoutOK
  <2>2. CASE Renamed
    BY <2>2, <2>1 DEF LayoutClosed, Begins
  <2>3. CASE ~Renamed BY <2>1, <2>3 DEF Begins, LayoutClosed
  <2> QED BY <2>2, <2>3
<1>7. js.len \in Nat /\ js.arch \in Nat BY <1>2 DEF Journal
<1>8. /\ ~js.error /\ js.arch <= Len(js.closed)
      /\ js.pending # NoEntry => js.pending.n = Len(js.closed) + 1 /\ js.pending.n < MaxSeg
  BY DEF JournalInv, JournalValid, DiskInv, PendingNext
<1>9. js' = js /\ Begins(js.closed)' BY <1>6 DEF Frozen, Begins
<1>10. JournalSeen' BY <1>4, <1>7, <1>8, <1>9 DEF JournalSeen, Begins
<1>11. PendingSeen' BY <1>4, <1>5, <1>8, <1>9 DEF PendingSeen
<1>12. rd'.base <= Sealed' BY <1>4, <1>5 DEF Frozen
<1> QED BY <1>3, <1>4, <1>5, <1>10, <1>11, <1>12 DEF ReaderInv, Attempt, Verifying

LEMMA ObservePendingKeeps ==
  ASSUME ReaderInv, Frozen, ObservePending
  PROVE  ReaderInv'
<1> DEFINE q == rd.js.pending # NoEntry /\ closed[rd.js.pending.n] # 0
<1>1. rd \in Reads /\ rd.st = "observe" /\ rd' = [rd EXCEPT !.st = "observe2", !.pend = q]
  BY DEF ReaderInv, ObservePending
<1>2. q \in BOOLEAN OBVIOUS
<1>q. q => rd.js.pending # NoEntry /\ closed[rd.js.pending.n] # 0 OBVIOUS
<1> HIDE DEF q
<1>3. rd' \in Reads BY <1>1, <1>2 DEF Reads, Attempt
<1>4. /\ rd'.st = "observe2" /\ rd'.js = rd.js /\ rd'.pend = q /\ rd'.base = rd.base
      /\ rd'.missing = rd.missing
  BY <1>1 DEF Reads
<1>5. JournalSeen /\ PendingSeen /\ ~rd.missing /\ rd.base <= Sealed BY <1>1 DEF ReaderInv, Attempt
<1>6. JournalSeen' BY <1>4, <1>5, SeenStays
<1>7. PendingSeen' BY <1>4, <1>5, <1>q DEF PendingSeen, Frozen
<1>8. rd'.base <= Sealed' BY <1>4, <1>5 DEF Frozen
<1> QED BY <1>3, <1>4, <1>5, <1>6, <1>7, <1>8 DEF ReaderInv, Attempt, Verifying

LEMMA ObserveOpenKeeps ==
  ASSUME ReaderInv, Frozen, ObserveOpen
  PROVE  ReaderInv'
BY SeenStays DEF ReaderInv, ObserveOpen, Reads, Attempt, Frozen, Verifying

\* The handle is opened: if the journal is still the one read, and what was seen of the
\* pending segment still holds, the layout is the one the read counts.
LEMMA OpenHandleKeeps ==
  ASSUME TypeOK, DiskInv, TailInv, ReaderInv, Frozen, OpenHandle
  PROVE  ReaderInv'
<1>1. rd \in Reads /\ rd.st = "open" /\ rd' = [rd EXCEPT !.st = "journal2", !.h = P]
  BY DEF ReaderInv, OpenHandle
<1>2. P \in Nat BY DEF TypeOK
<1>3. rd' \in Reads BY <1>1, <1>2 DEF Reads, Attempt
<1>4. /\ rd'.st = "journal2" /\ rd'.js = rd.js /\ rd'.pend = rd.pend /\ rd'.base = rd.base
      /\ rd'.missing = rd.missing /\ rd'.h = P
  BY <1>1 DEF Reads
<1>5. JournalSeen /\ PendingSeen /\ ~rd.missing /\ rd.base <= Sealed BY <1>1 DEF ReaderInv, Attempt
<1>6. JournalSeen' /\ PendingSeen' /\ Settles' = Settles BY <1>4, <1>5, SeenStays
<1>7. rd'.base <= Sealed' BY <1>4, <1>5 DEF Frozen
<1>8. ASSUME rd.js.len = js.len, Settles PROVE Handle'
  <2>1. /\ rd.js.closed = js.closed /\ rd.js.pending = js.pending
        /\ rd.pend => rd.js.pending # NoEntry /\ closed[rd.js.pending.n] # 0
    BY <1>5, <1>8 DEF JournalSeen, PendingSeen
  <2>2. rd.pend <=> Renamed BY <1>8, <2>1 DEF Settles, Renamed
  <2>3. ReadClosedList(rd) = LayoutClosed BY <2>1, <2>2 DEF ReadClosedList, LayoutClosed
  <2>4. SpanTypes BY SpanTyped
  <2>5. P \in {0, Len(LayoutClosed) + 1} /\ P <= Len(data) BY <2>4, <1>2 DEF SpanTypes
  <2>6. P = 0 => rd.pend \/ (rd.js.closed = <<>> /\ rd.js.pending = NoEntry)
    BY <2>1, <2>2 DEF TailInv, OpenThere
  <2>7. /\ P = 0 => Sealed = NextStart(LayoutClosed)
        /\ P # 0 => Sealed = NextStart(LayoutClosed) + Len(data[P].lines)
    BY <2>4 DEF SpanTypes, Sealed
  <2>8. ReadClosedList(rd)' = LayoutClosed BY <2>3, <1>4 DEF ReadClosedList
  <2>9. Begins(LayoutClosed)' /\ NextStart(LayoutClosed)' = NextStart(LayoutClosed)
    BY <2>4 DEF Frozen, Begins, SpanTypes, NextStart
  <2>10. /\ P = 0 => rd.base <= NextStart(LayoutClosed)
         /\ P # 0 => rd.base <= NextStart(LayoutClosed) + Len(data[P].lines)
    BY <2>7, <1>5
  <2> QED BY <1>4, <2>5, <2>6, <2>8, <2>9, <2>10 DEF Handle, Unopened, Frozen
<1>9. rd'.js.len = js'.len /\ Settles' => Handle' BY <1>4, <1>6, <1>8 DEF Frozen
<1> QED BY <1>3, <1>4, <1>5, <1>6, <1>7, <1>9 DEF ReaderInv, Attempt, Verifying

\* The second look at the journal and at the names.
LEMMA RestatKeeps ==
  ASSUME ReaderInv, Frozen, TypeOK, Sealed \in Nat, RereadJournal \/ RestatOpen \/ RestatPending
  PROVE  ReaderInv'
<1>1. rd \in Reads /\ rd.base \in Nat /\ rd.base <= Sealed BY DEF ReaderInv, Reads
<1>a. Again = Top(rd.base) BY DEF Again, Top
<1>2. ASSUME rd' = Again PROVE ReaderInv' BY <1>1, <1>2, <1>a, ReadTop
<1>3. ASSUME NEW s \in {"restat", "restat2", "read"}, rd' = [rd EXCEPT !.st = s], rd.st \in Attempt,
             IF s = "read" THEN Handle ELSE Settles => Handle
      PROVE  ReaderInv'
  BY <1>1, <1>3, SeenStays, HandleStays DEF Reads, Attempt, ReaderInv, Frozen, Verifying
<1>4. CASE RereadJournal
  <2>1. CASE <<js.len, js.torn>> # <<rd.js.len, rd.js.torn>> BY <1>2, <1>4, <2>1 DEF RereadJournal
  <2>2. CASE <<js.len, js.torn>> = <<rd.js.len, rd.js.torn>>
    BY <1>4, <2>2, <1>3 DEF RereadJournal, ReaderInv, Attempt
  <2> QED BY <2>1, <2>2
<1>5. CASE RestatOpen
  <2>1. CASE (P # 0) # rd.open BY <1>2, <1>5, <2>1 DEF RestatOpen
  <2>2. CASE ~((P # 0) # rd.open)
    BY <1>5, <2>2, <1>3 DEF RestatOpen, ReaderInv, Attempt
  <2> QED BY <2>1, <2>2
<1>6. CASE RestatPending
  <2>1. CASE rd.js.pending # NoEntry /\ (closed[rd.js.pending.n] # 0) # rd.pend
    BY <1>2, <1>6, <2>1 DEF RestatPending
  <2>2. CASE ~(rd.js.pending # NoEntry /\ (closed[rd.js.pending.n] # 0) # rd.pend)
    BY <1>6, <2>2, <1>1, <1>3 DEF RestatPending, Reads, Settles, ReaderInv, Attempt
  <2> QED BY <2>1, <2>2
<1> QED BY <1>4, <1>5, <1>6

\* The bytes behind the handle: a torn line in them is the open segment's, and no
\* append is still writing it; a segment that follows another is not empty.
LEMMA ReadOpenSegmentKeeps ==
  ASSUME TypeOK, DiskInv, TailInv, ReaderInv, Frozen, ReadOpenSegment
  PROVE  ReaderInv'
<1> DEFINE torn == rd.h # 0 /\ data[rd.h].tail = "bad"
           m == IF rd.h = 0 THEN 0 ELSE Len(data[rd.h].lines)
           l == ReadClosedList(rd)
<1>1. rd \in Reads /\ rd.st = "read" /\ rd.base \in Nat /\ rd.base <= Sealed /\ rd.h \in Nat
  BY DEF ReaderInv, Reads, ReadOpenSegment
<1>2. SpanTypes /\ Sealed \in Nat /\ Len(data) \in Nat BY SpanTyped DEF SpanTypes
<1>3. JournalSeen /\ Handle /\ ~rd.missing BY <1>1 DEF ReaderInv
<1>4. /\ rd.js.arch \in Nat /\ Len(l) \in Nat /\ NextStart(l) \in Nat BY <1>1, ReadList
<1>5. /\ Begins(l) /\ rd.h \in {0, Len(l) + 1} /\ rd.h <= Len(data)
      /\ rd.h = 0 => Unopened /\ rd.base <= NextStart(l)
      /\ rd.h # 0 => rd.base <= NextStart(l) + Len(data[rd.h].lines)
  BY <1>3 DEF Handle
<1>6. rd.h # 0 => Len(data[rd.h].lines) \in Nat
  BY <1>1, <1>2, <1>5 DEF SpanTypes
<1>7. m \in Nat BY <1>6
<1>8. CASE torn /\ AppendInFlight /\ rd.h = P
  BY <1>8, <1>1, <1>2, ReadTop DEF ReadOpenSegment, Again, Top
<1>9. CASE ~(torn /\ AppendInFlight /\ rd.h = P)
  <2>1. rd' = [rd EXCEPT !.st = "closed", !.torn = torn, !.k = rd.js.arch + 1, !.n = m]
    BY <1>9 DEF ReadOpenSegment
  <2>2. torn \in BOOLEAN OBVIOUS
  <2>3. torn => Stuck
    BY <1>1, <1>2, <1>5, <1>9 DEF TailInv, ClosedClean, OpenTail, Stuck, Unparseable
  <2>4. rd.h # 0 => m = Len(data[rd.h].lines) /\ (l # <<>> => m > 0)
    BY <1>1, ReadList, <1>2, <1>4, <1>5 DEF TailInv, Continued, SpanTypes
  <2>5. rd.base <= NextStart(l) + m BY <1>5, <2>4, <1>4, <1>1
  <2>6. rd.h = 0 => m = 0 OBVIOUS
  <2>7. rd.h # 0 => m <= Len(data[rd.h].lines) BY <2>4, <1>6
  <2>8. UNCHANGED <<l, Unopened>> /\ rd'.js = rd.js /\ rd'.pend = rd.pend
    BY <2>1, <1>1 DEF Reads, ReadClosedList, Unopened
  <2>a. rd.js.arch + 1 \in Nat /\ m \in Nat BY <1>4, <1>7
  <2> HIDE DEF torn, m
  <2>9. rd' \in Reads BY <1>1, <2>a, <2>1, <2>2 DEF Reads, Verifying
  <2>10. /\ rd'.st = "closed" /\ rd'.torn = torn /\ rd'.k = rd.js.arch + 1 /\ rd'.n = m
         /\ rd'.base = rd.base /\ rd'.h = rd.h /\ rd'.missing = rd.missing
    BY <1>1, <2>1 DEF Reads
  <2>11. JournalSeen' BY <1>3, <2>8, SeenStays
  <2>12. rd'.base <= Sealed' BY <2>10, <1>1 DEF Frozen
  <2>13. rd'.k > rd'.js.arch BY <2>10, <2>8, <1>4
  <2>14. Begins(l)' /\ NextStart(l)' = NextStart(l) BY <1>5, <2>8 DEF Begins, Frozen, NextStart
  <2>15. Taken'
    <3> HIDE DEF l
    <3>1. /\ Begins(l)' /\ rd'.h \in {0, Len(l') + 1} /\ rd'.h <= Len(data')
          /\ rd'.h = 0 => Unopened' /\ rd'.n = 0
          /\ rd'.h # 0 => rd'.n <= Len(data'[rd'.h].lines) /\ (l' # <<>> => rd'.n > 0)
          /\ rd'.base <= NextStart(l') + rd'.n
          /\ ~rd'.missing /\ (rd'.torn => Stuck')
      BY <1>3, <1>5, <2>3, <2>4, <2>5, <2>6, <2>7, <2>8, <2>10, <2>14 DEF Frozen, NextStart
    <3> QED BY <3>1 DEF Taken, l, NextStart
  <2> QED BY <2>9, <2>10, <2>11, <2>12, <2>13, <2>15 DEF ReaderInv, Attempt, Verifying
<1> QED BY <1>8, <1>9

\* A step of the verification that keeps what was taken.
Verify(s, k) == [rd EXCEPT !.st = s, !.k = k]
LEMMA VerifyKeeps ==
  ASSUME ReaderInv, Frozen, rd.st \in Verifying, NEW s \in {"closed", "archived", "archived2", "ok"},
         NEW k \in Nat, rd' = Verify(s, k),
         s = "closed" => k > rd.js.arch,
         s \in {"archived", "archived2"} => k > 0,
         s = "archived2" => k <= rd.js.arch /\ closed[k] = 0
  PROVE  ReaderInv'
BY SeenStays, TakenStays DEF ReaderInv, Verifying, Reads, Verify, Frozen, Attempt

\* A verdict of a break over a ledger that a killed append has stopped.
LEMMA BreakKeeps ==
  ASSUME ReaderInv, Frozen, rd' = [rd EXCEPT !.st = "break"], Stuck
  PROVE  ReaderInv'
BY DEF ReaderInv, Reads, Frozen, Attempt, Verifying

\* Every segment is in one of its two places, and in the ledger directory while the
\* journal does not call it archived.
LEMMA SegmentPlaced ==
  ASSUME TypeOK, DiskInv, NEW k \in 1..Len(LayoutClosed)
  PROVE  /\ closed[k] = 0 => archive[k] # 0
         /\ k > js.arch => closed[k] # 0
BY LayoutOK DEF DiskInv, FullChainReadable

LEMMA ReadClosedSegmentKeeps ==
  ASSUME TypeOK, DiskInv, ReaderInv, Frozen, ReadClosedSegment
  PROVE  ReaderInv'
<1> DEFINE l == ReadClosedList(rd)
<1>1. /\ rd \in Reads /\ rd.st = "closed" /\ rd.k \in Nat /\ rd.k <= Len(l)
      /\ rd.base \in Nat /\ rd.base <= Sealed
  BY DEF ReaderInv, Reads, ReadClosedSegment
<1>2. rd.k > rd.js.arch /\ JournalSeen /\ Taken BY <1>1 DEF ReaderInv, Verifying
<1>3. rd.js.arch \in Nat /\ Len(l) \in Nat BY <1>1, ReadList
<1>4. Sealed \in Nat /\ Len(LayoutClosed) \in Nat BY SpanTyped DEF SpanTypes
<1>5. Len(l) <= Len(LayoutClosed) BY <1>2 DEF Taken, Begins
<1>6. rd.k \in 1..Len(LayoutClosed) BY <1>1, <1>2, <1>3, <1>4, <1>5
<1>7. CASE closed[rd.k] # 0
  <2>1. rd' = [rd EXCEPT !.k = @ + 1] BY <1>7 DEF ReadClosedSegment
  <2>2. rd' = Verify("closed", rd.k + 1) BY <1>1, <2>1 DEF Reads, Verify
  <2>3. rd.k + 1 \in Nat /\ rd.k + 1 > rd.js.arch BY <1>1, <1>2, <1>3
  <2> QED BY <1>1, <2>2, <2>3, VerifyKeeps DEF Verifying
<1>8. CASE closed[rd.k] = 0
  <2>1. ~(rd.k > js.arch) BY <1>6, <1>8, SegmentPlaced
  <2>2. js.len # rd.js.len
    BY <1>2, <2>1 DEF JournalSeen
  <2>3. rd' = Again BY <1>8, <2>2 DEF ReadClosedSegment
  <2>4. rd' = Top(rd.base) BY <2>3 DEF Again, Top
  <2> QED BY <1>1, <1>4, <2>4, ReadTop
<1> QED BY <1>7, <1>8

\* What was taken walks as one chain, but for a line a killed append left torn.
LEMMA WalkLiveKeeps ==
  ASSUME TypeOK, DiskInv, TailInv, ReaderInv, Frozen, WalkLive
  PROVE  ReaderInv'
<1> DEFINE l == ReadClosedList(rd)
<1>1. rd \in Reads /\ rd.st = "closed" BY DEF ReaderInv, WalkLive
<1>2. JournalSeen /\ Taken BY <1>1 DEF ReaderInv, Verifying
<1>3. l \in Seq(Entry) /\ Len(l) \in Nat /\ rd.h \in Nat /\ rd.n \in Nat BY <1>1, ReadList DEF Reads
<1>4. SpanTypes /\ Len(data) \in Nat /\ Len(LayoutClosed) \in Nat BY SpanTyped DEF SpanTypes
<1>5. /\ Begins(l) /\ rd.h \in {0, Len(l) + 1} /\ rd.h <= Len(data)
      /\ rd.h = 0 => Unopened /\ rd.n = 0
      /\ rd.h # 0 => rd.n <= Len(data[rd.h].lines) /\ (l # <<>> => rd.n > 0)
      /\ ~rd.missing /\ (rd.torn => Stuck)
  BY <1>2 DEF Taken
<1> HIDE DEF l
<1>6. ASSUME rd.h # 0, rd.n > 0 PROVE data[rd.h].lines[1].prev = NextGen(l)
  <2>1. rd.h = Len(l) + 1 /\ rd.h \in 1..Len(data) BY <1>3, <1>4, <1>5, <1>6
  <2>2. Len(data[rd.h].lines) \in Nat BY <1>4, <2>1 DEF SpanTypes
  <2>3. 1 \in 1..Len(data[rd.h].lines) BY <1>3, <1>5, <1>6, <2>2
  <2>4. data[rd.h].lines[1].prev = IF rd.h > 1 THEN LastId(rd.h - 1) ELSE Genesis
    BY <2>1, <2>3 DEF DiskInv, ChainIntact
  <2>5. CASE l = <<>>
    <3>1. rd.h = 1 BY <2>1, <2>5
    <3> QED BY <2>4, <2>5, <3>1 DEF NextGen
  <2>6. CASE l # <<>>
    <3>1. Len(l) \in 1..Len(l) /\ rd.h > 1 /\ rd.h - 1 = Len(l) BY <1>3, <2>1, <2>6
    <3>2. Len(l) \in 1..Len(LayoutClosed) /\ LayoutClosed[Len(l)] = l[Len(l)]
      BY <1>3, <1>4, <1>5, <3>1 DEF Begins
    <3>3. LastId(Len(l)) = l[Len(l)].head BY <1>4, <3>2 DEF SpanTypes
    <3> QED BY <2>4, <2>6, <3>1, <3>3 DEF NextGen
  <2> QED BY <2>5, <2>6
<1>7. ASSUME rd.h # 0, l # <<>> PROVE rd.n > 0 /\ data[rd.h].lines[1].closes = Len(l)
  BY <1>3, <1>4, <1>5, <1>7 DEF TailInv, Continued
<1>8. ~rd.torn => LiveWalkOK(rd)
  BY <1>2, <1>5, <1>6, <1>7 DEF LiveWalkOK, JournalSeen, Unopened, l
<1>9. CASE LiveWalkOK(rd)
  <2>1. rd' = Verify("archived", 1) BY <1>9 DEF WalkLive, Verify
  <2>2. rd.st \in Verifying BY <1>1 DEF Verifying
  <2> QED BY <2>1, <2>2, VerifyKeeps
<1>10. CASE ~LiveWalkOK(rd)
  BY <1>10, <1>1, <1>5, <1>8, BreakKeeps DEF WalkLive, Reads
<1> QED BY <1>9, <1>10

\* The archived segments: one that was not in the ledger directory is in the archive.
LEMMA ArchivedKeeps ==
  ASSUME TypeOK, DiskInv, ReaderInv, Frozen, CheckInLedgerDir \/ CheckInArchiveDir \/ VerifyDone
  PROVE  ReaderInv'
<1>1. rd \in Reads /\ rd.st \in {"archived", "archived2"} /\ rd.k \in Nat
  BY DEF ReaderInv, Reads, CheckInLedgerDir, CheckInArchiveDir, VerifyDone
<1>2. rd.k > 0 /\ JournalSeen /\ Taken BY <1>1 DEF ReaderInv, Verifying
<1>3. rd.js.arch \in Nat /\ Len(rd.js.closed) \in Nat BY <1>1, ReadList
<1>4. ASSUME rd' = Verify("archived", rd.k + 1) PROVE ReaderInv'
  BY <1>1, <1>4, VerifyKeeps DEF Verifying
<1>5. CASE CheckInLedgerDir
  <2>1. rd.st = "archived" /\ rd.k <= rd.js.arch BY <1>5 DEF CheckInLedgerDir
  <2>2. CASE closed[rd.k] # 0 \/ rd.k \in ReadEvidenced(rd)
    BY <1>5, <2>2, <1>1, <2>1, <1>4 DEF CheckInLedgerDir, Reads, Verify
  <2>3. CASE ~(closed[rd.k] # 0 \/ rd.k \in ReadEvidenced(rd))
    BY <1>5, <2>3, <1>1, <1>2, <2>1, VerifyKeeps DEF CheckInLedgerDir, Reads, Verify, Verifying
  <2> QED BY <2>2, <2>3
<1>6. CASE CheckInArchiveDir
  <2>1. rd.st = "archived2" BY <1>6 DEF CheckInArchiveDir
  <2>2. rd.k <= rd.js.arch /\ closed[rd.k] = 0 BY <2>1 DEF ReaderInv
  <2>3. Len(LayoutClosed) \in Nat BY LayoutOK
  <2>4. rd.js.arch <= Len(rd.js.closed) /\ Len(rd.js.closed) <= Len(LayoutClosed) BY <1>2 DEF JournalSeen, Begins
  <2>5. rd.k \in 1..Len(LayoutClosed) BY <1>1, <1>2, <1>3, <2>2, <2>3, <2>4
  <2>6. archive[rd.k] # 0 BY <2>2, <2>5, SegmentPlaced
  <2>7. rd' = Verify("archived", rd.k + 1) BY <1>6, <2>6, <1>1 DEF CheckInArchiveDir, Verify, Reads
  <2> QED BY <1>4, <2>7
<1>7. CASE VerifyDone
  <2>1. rd' = [rd EXCEPT !.st = "ok"] BY <1>7 DEF VerifyDone
  <2>2. rd' = Verify("ok", rd.k) BY <1>1, <2>1 DEF Reads, Verify
  <2> QED BY <1>1, <2>2, VerifyKeeps DEF Verifying
<1> QED BY <1>5, <1>6, <1>7

LEMMA ReaderStepKeeps ==
  ASSUME TypeOK, JournalInv, DiskInv, TailInv, ReaderInv, ReadStart \/ ReadStep, UNCHANGED vars
  PROVE  ReaderInv'
<1>1. Frozen BY ReaderFrozen
<1>2. Sealed \in Nat /\ DiskLength = Sealed BY SpanTyped DEF SpanTypes, DiskLength, Sealed
<1>3. CASE ReadStart
  <2>1. rd' = Top(Sealed) BY <1>2, <1>3 DEF ReadStart, Top
  <2> QED BY <1>1, <1>2, <2>1, ReadTop
<1>4. CASE ReadReturn BY <1>1, <1>2, <1>4, ReadTop DEF ReadReturn
<1>5. CASE ReadJournal \/ ObservePending \/ ObserveOpen \/ OpenHandle
  BY <1>1, <1>5, ReadJournalKeeps, ObservePendingKeeps, ObserveOpenKeeps, OpenHandleKeeps
<1>6. CASE RereadJournal \/ RestatOpen \/ RestatPending BY <1>1, <1>2, <1>6, RestatKeeps
<1>7. CASE ReadOpenSegment \/ ReadClosedSegment \/ WalkLive
  BY <1>1, <1>7, ReadOpenSegmentKeeps, ReadClosedSegmentKeeps, WalkLiveKeeps
<1>8. CASE CheckInLedgerDir \/ CheckInArchiveDir \/ VerifyDone BY <1>1, <1>8, ArchivedKeeps
<1> QED BY <1>3, <1>4, <1>5, <1>6, <1>7, <1>8 DEF ReadStep

\* Nothing but the bookkeeping of a step the ledger takes no part in.
LEMMA ReaderNext ==
  ASSUME TypeOK, TypeOK', JournalInv, WholeInv, WholeInv', TailInv, SpanInv, ReaderInv, CutsShow, ~SameDay,
         [NextReader]_rvars
  PROVE  ReaderInv'
<1>1. DiskInv BY DEF WholeInv
<1>2. CASE (ReadStart \/ ReadStep) /\ UNCHANGED vars BY <1>1, <1>2, ReaderStepKeeps
<1>3. ASSUME [Next]_vars, ArchivesAged, rd' = rd PROVE ReaderInv'
  <2>1. DiskGoesOn BY <1>3, WritersGoOn
  <2> QED BY <1>3, <2>1, WritersSpareReads
<1>4. CASE Next /\ ArchivesAged /\ UNCHANGED rd BY <1>3, <1>4
<1>5. CASE UNCHANGED rvars
  BY <1>5, <1>3 DEF rvars, ArchivesAged, vars, disk
<1> QED BY <1>2, <1>4, <1>5 DEF NextReader

LEMMA SumBelow ==
  ASSUME NEW a \in Nat, NEW b \in Nat, NEW c \in Nat, NEW d \in Nat, NEW s \in Nat,
         c + d <= s, a <= c, b <= d
  PROVE  a + b <= s
OBVIOUS

\* A read that verifies is as long as the part of the log it has, which the log still has.
LEMMA ReaderInvSound ==
  ASSUME TypeOK, DiskInv, SpanInv, ReaderInv
  PROVE  ReaderSound
<1>1. rd.st = "break" => Unparseable BY DEF ReaderInv, Stuck
<1>2. ASSUME rd.st = "ok" PROVE rd.base <= ReadLength(rd) /\ ReadLength(rd) <= DiskLength
  <2> DEFINE l == ReadClosedList(rd)
  <2>1. rd \in Reads /\ Taken BY <1>2 DEF ReaderInv, Verifying
  <2>2. l \in Seq(Entry) /\ Len(l) \in Nat /\ NextStart(l) \in Nat /\ rd.h \in Nat /\ rd.n \in Nat
    BY <2>1, ReadList DEF Reads
  <2>3. SpanTypes BY SpanTyped
  <2>4. Len(data) \in Nat /\ Len(LayoutClosed) \in Nat /\ Sealed \in Nat BY <2>3 DEF SpanTypes
  <2>5. /\ Begins(l) /\ rd.h \in {0, Len(l) + 1} /\ rd.h <= Len(data)
        /\ rd.h = 0 => rd.n = 0
        /\ rd.h # 0 => rd.n <= Len(data[rd.h].lines)
        /\ rd.base <= NextStart(l) + rd.n
    BY <2>1 DEF Taken
  <2>6. ReadLength(rd) = NextStart(l) + rd.n /\ DiskLength = Sealed BY DEF ReadLength, DiskLength, Sealed
  <2> HIDE DEF l
  <2>e. ASSUME l # <<>>
        PROVE  Len(l) \in 1..Len(data) /\ NextStart(l) = SegStart(Len(l)) + Len(data[Len(l)].lines)
    <3>1. Len(l) \in 1..Len(l) /\ Len(l) \in 1..Len(LayoutClosed) /\ l[Len(l)] = LayoutClosed[Len(l)]
      BY <2>2, <2>4, <2>5, <2>e DEF Begins
    <3>2. Len(l) \in 1..Len(data) BY <2>2, <2>3, <2>4, <3>1 DEF SpanTypes
    <3>3. LayoutClosed[Len(l)] \in Entry BY <2>3, <3>1 DEF SpanTypes
    <3>4. LayoutClosed[Len(l)].end \in Nat /\ LayoutClosed[Len(l)].start \in Nat BY <3>3 DEF Entry
    <3>5. Len(data[Len(l)].lines) = LayoutClosed[Len(l)].end - LayoutClosed[Len(l)].start + 1
      BY <2>3, <3>1 DEF SpanTypes
    <3>6. SegStart(Len(l)) = LayoutClosed[Len(l)].start BY <3>1, <2>2, <2>4 DEF SegStart
    <3>7. NextStart(l) = LayoutClosed[Len(l)].end + 1 BY <2>e, <3>1 DEF NextStart
    <3> QED BY <3>2, <3>4, <3>5, <3>6, <3>7
  <2>7. CASE rd.h # 0
    <3>1. rd.h = Len(l) + 1 /\ rd.h \in 1..Len(data) BY <2>2, <2>4, <2>5, <2>7
    <3>2. SegStart(rd.h) + Len(data[rd.h].lines) <= Sealed BY <3>1 DEF SpanInv, Disjoint
    <3>3. SegStart(rd.h) \in Nat /\ Len(data[rd.h].lines) \in Nat BY <2>3, <2>4, <3>1 DEF SpanTypes
    <3>4. NextStart(l) <= SegStart(rd.h)
      <4>1. CASE l = <<>> BY <4>1, <3>3 DEF NextStart
      <4>2. CASE l # <<>>
        BY <2>2, <3>1, <2>e, <4>2 DEF SpanInv, Disjoint
      <4> QED BY <4>1, <4>2
    <3>5. rd.n <= Len(data[rd.h].lines) BY <2>5, <2>7
    <3>6. NextStart(l) + rd.n <= Sealed BY <2>2, <2>4, <3>2, <3>3, <3>4, <3>5, SumBelow
    <3> QED BY <2>5, <2>6, <3>6
  <2>8. CASE rd.h = 0
    <3>1. rd.n = 0 /\ NextStart(l) + rd.n = NextStart(l) BY <2>2, <2>5, <2>8
    <3>2. NextStart(l) <= Sealed
      <4>1. CASE l = <<>> BY <4>1, <2>4 DEF NextStart
      <4>2. CASE l # <<>>
        BY <2>e, <4>2 DEF SpanInv, Disjoint
      <4> QED BY <4>1, <4>2
    <3> QED BY <2>5, <2>6, <3>1, <3>2
  <2> QED BY <2>7, <2>8
<1> QED BY <1>1, <1>2 DEF ReaderSound, NoFalseBreak, ReadComplete

LEMMA SpanAlways == ASSUME CutsShow PROVE Spec => []SpanInv
<1> DEFINE I == SpanInv /\ IdInv
<1>1. TypeOK /\ TypeOK' /\ JournalInv /\ WholeInv /\ WholeInv' /\ AckInv' /\ I /\ [Next]_vars => I'
  BY LogStep, LogStutter
<1>2. Init => I BY SpanInit
<1>3. I => SpanInv OBVIOUS
<1> HIDE DEF I
<1> QED BY <1>1, <1>2, <1>3, WholeAlways, AckAlways, TypeCorrect, JournalSound, PTL DEF Spec

LEMMA ReaderInit == ASSUME TypeOK, DiskInv, InitReader PROVE ReaderInv
<1>1. rd = NoRead BY DEF InitReader
<1>2. NoRead \in Reads
  <2>1. EmptyJournal \in Journal BY NullTypes DEF EmptyJournal, Journal
  <2> QED BY <2>1 DEF NoRead, Reads
<1>3. rd.st = "idle" /\ rd.base = 0 BY <1>1 DEF NoRead
<1>4. Sealed \in Nat BY SpanTyped DEF SpanTypes
<1>5. rd.base <= Sealed BY <1>3, <1>4
<1> QED BY <1>1, <1>2, <1>3, <1>5 DEF ReaderInv, Attempt, Verifying

\* However a lock-free read interleaves with appends, rotations, archival moves,
\* recoveries and kills of any number of writers (_take_snapshot, Snapshot.verify), it
\* reports a break only over a line that a killed append left torn, and a read that
\* verifies has every line the ledger had when it began and none it does not have;
\* where a kill leaves a cut that shows, and no segment is archived the day it closed.
THEOREM ReaderAlwaysSound == ASSUME CutsShow, ~SameDay PROVE SpecReader => []ReaderSound
<1>1. InitReader => Init BY DEF InitReader
<1>2. [NextReader]_rvars => [Next]_vars BY DEF NextReader, rvars
<1>3. SpecReader => Spec BY <1>1, <1>2, PTL DEF SpecReader, Spec
<1>4. TypeOK /\ WholeInv /\ InitReader => ReaderInv BY ReaderInit DEF WholeInv
<1>5. TypeOK /\ TypeOK' /\ JournalInv /\ WholeInv /\ WholeInv' /\ TailInv /\ SpanInv /\ ReaderInv
        /\ [NextReader]_rvars => ReaderInv'
  BY ReaderNext
<1>6. TypeOK /\ WholeInv /\ SpanInv /\ ReaderInv => ReaderSound BY ReaderInvSound DEF WholeInv
<1> QED
  BY <1>3, <1>4, <1>5, <1>6, TypeCorrect, JournalSound, WholeAlways, TailAlways, SpanAlways, PTL
     DEF SpecReader
=============================================================================
