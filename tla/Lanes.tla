-------------------------------- MODULE Lanes --------------------------------
(***************************************************************************)
(* services/sealed-ledger: the threads of the served ledger.  Synchronous   *)
(* routes share one pool; /health, POST /events and the heavy reads have    *)
(* lanes of their own, so that reads queued on the read gate, or rotations  *)
(* waiting for a writer lock another process keeps, hold up neither the     *)
(* estate's health polls nor its appends.                                   *)
(***************************************************************************)
EXTENDS Naturals, Sequences, FiniteSets

CONSTANTS
  LaneRequests,      \* requests that may be in the service at once
  LaneKinds,         \* the routes they call
  LaneThreads,       \* lane -> its threads
  ReadConcurrency,   \* FIELD_LEDGER_READ_CONCURRENCY
  MaxRequests        \* bound: requests ever made

VARIABLES
  laneReq,   \* request -> [kind, stage, pc]
  gate,      \* how many are inside the read gate
  writer,    \* who holds the writer lock: a request, "other" or "nobody"
  made

laneVars == <<laneReq, gate, writer, made>>

LaneNobody == "nobody"
LaneOther == "other"     \* another process: `ledger ... --offline`
Absent == [pc |-> "absent"]

\* Faulty variant: an append is written in the pool of the synchronous routes.
AppendLanePooled == <<"append", "pool">>
\* Where an append is admitted and where it is written.
AppendLane == <<"append", "append">>

\* The work items of a route: where each runs and what it must hold.
In(lane, needs) == [lane |-> lane, needs |-> needs]
\* health_info takes no lock and no gate; the operator block is an item of its own.
HealthItems == <<In("health", {}), In("health", {})>>
AppendItems == <<In(AppendLane[1], {}), In(AppendLane[2], {"writer"})>>
ReadItems == <<In("read", {"gate"})>>
\* A guard is a dependency and runs first, in the pool.
ExportItems == <<In("pool", {}), In("read", {"gate"})>>
RotateItems == <<In("pool", {}), In("pool", {"writer"})>>
\* Planning takes the gate, committing the writer lock, on one thread.
ApplyItems == <<In("pool", {}), In("pool", {"gate"}), In("pool", {"writer"})>>
Work(kind) ==
  [health |-> HealthItems, append |-> AppendItems, events |-> ReadItems, verify |-> ReadItems,
   export |-> ExportItems, rotate |-> RotateItems, apply |-> ApplyItems][kind]

Item(r) == Work(laneReq[r].kind)[laneReq[r].stage]
KeepsThread(r) == laneReq[r].kind = "apply" /\ laneReq[r].stage = 2
OnThread(r) == laneReq[r].pc \in {"running", "holding"}
LaneBusy(lane) == Cardinality({r \in LaneRequests : OnThread(r) /\ Item(r).lane = lane})

LanesInit == laneReq = [r \in LaneRequests |-> Absent] /\ gate = 0 /\ writer = LaneNobody /\ made = 0

LaneArrive(r, kind) ==
  /\ laneReq[r].pc \in {"absent", "answered"} /\ made < MaxRequests /\ made' = made + 1
  /\ laneReq' = [laneReq EXCEPT ![r] = [pc |-> "queued", kind |-> kind, stage |-> 1]]
  /\ UNCHANGED <<gate, writer>>

\* run_in_executor, or the threadpool of synchronous routes: a work item waits
\* in its lane without a thread.
TakeThread(r) ==
  /\ laneReq[r].pc = "queued" /\ LaneBusy(Item(r).lane) < LaneThreads[Item(r).lane]
  /\ laneReq' = [laneReq EXCEPT ![r].pc = "running"] /\ UNCHANGED <<gate, writer, made>>

\* _gate and _writer block the thread they are taken on.
EnterGate(r) ==
  /\ laneReq[r].pc = "running" /\ "gate" \in Item(r).needs /\ gate < ReadConcurrency
  /\ gate' = gate + 1 /\ laneReq' = [laneReq EXCEPT ![r].pc = "holding"] /\ UNCHANGED <<writer, made>>
EnterWriter(r) ==
  /\ laneReq[r].pc = "running" /\ "writer" \in Item(r).needs /\ writer = LaneNobody
  /\ writer' = r /\ laneReq' = [laneReq EXCEPT ![r].pc = "holding"] /\ UNCHANGED <<gate, made>>

\* The item is over: the next one, or the answer.
AfterItem(r) ==
  IF laneReq[r].stage = Len(Work(laneReq[r].kind)) THEN [laneReq[r] EXCEPT !.pc = "answered"]
  ELSE [laneReq[r] EXCEPT !.stage = @ + 1, !.pc = IF KeepsThread(r) THEN "running" ELSE "queued"]
LaneFinish(r) ==
  /\ \/ laneReq[r].pc = "holding"
     \/ laneReq[r].pc = "running" /\ Item(r).needs = {}
  /\ gate' = IF laneReq[r].pc = "holding" /\ "gate" \in Item(r).needs THEN gate - 1 ELSE gate
  /\ writer' = IF writer = r THEN LaneNobody ELSE writer
  /\ laneReq' = [laneReq EXCEPT ![r] = AfterItem(r)] /\ UNCHANGED made

\* The lock file stayed with another process for WRITER_LOCK_TIMEOUT_S: 503.
LaneLockTimeout(r) ==
  /\ laneReq[r].pc = "running" /\ "writer" \in Item(r).needs /\ writer = LaneOther
  /\ laneReq' = [laneReq EXCEPT ![r].pc = "answered"] /\ UNCHANGED <<gate, writer, made>>

OtherLocks == writer = LaneNobody /\ writer' = LaneOther /\ UNCHANGED <<laneReq, gate, made>>
OtherUnlocks == writer = LaneOther /\ writer' = LaneNobody /\ UNCHANGED <<laneReq, gate, made>>

LanesNext ==
  \/ \E r \in LaneRequests :
       \/ \E kind \in LaneKinds : LaneArrive(r, kind)
       \/ TakeThread(r) \/ EnterGate(r) \/ EnterWriter(r) \/ LaneFinish(r) \/ LaneLockTimeout(r)
  \/ OtherLocks \/ OtherUnlocks

\* The threads of the two lanes run, and whoever is inside the writer lock of
\* this process leaves it.  Nothing is assumed of the pool, of the reads or of
\* the other process: an append gets the lock file or its deadline passes.
Quick(r) == laneReq[r].pc # "absent" /\ laneReq[r].kind \in {"health", "append"}
QuickStep(r) == Quick(r) /\ (TakeThread(r) \/ EnterWriter(r) \/ LaneFinish(r) \/ LaneLockTimeout(r))
LeaveWriter(r) == writer = r /\ LaneFinish(r)
LanesFairness == WF_laneVars(\E r \in LaneRequests : QuickStep(r)) /\ WF_laneVars(\E r \in LaneRequests : LeaveWriter(r))
LanesSpec == LanesInit /\ [][LanesNext]_laneVars /\ LanesFairness

-----------------------------------------------------------------------------
(* Properties. *)

\* create_app, "Lanes": a health poll and an append are answered although every
\* reader is stuck behind the read gate and every synchronous route behind a
\* writer lock or the gate.
QuickAnswered ==
  (\E r \in LaneRequests : Quick(r)) ~> (\A r \in LaneRequests : Quick(r) => laneReq[r].pc = "answered")
=============================================================================
