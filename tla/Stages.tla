-------------------------------- MODULE Stages --------------------------------
(***************************************************************************)
(* tools/stage_controller.py: the controller of the three arming stages.    *)
(* A live run holds the records file's lock, checks what the records say,   *)
(* arms step by step through the driver, and rolls the stage back on any    *)
(* failure.  Only the records tell a later run what an earlier one did.     *)
(***************************************************************************)
EXTENDS Integers, Sequences, FiniteSets

CONSTANTS
  LiveRuns,         \* controller processes started with live=True and a driver
  Proofs,           \* alerts and gate records: <<what, sha>>
  Builds,           \* build shas a run may name
  StageBudget       \* driver failures, lost rows, deaths, acks and runs: a record

VARIABLES
  word,             \* stage -> the last row about it that counts
  clean,            \* stages whose last start, end, abort or rollback row is stage_done
  place,            \* stage -> on the estate: "off", "part" or "on"
  stageLock,        \* the live run that holds <records>.lock
  ctl,              \* run -> where it is
  sleft

stagesVars == <<word, clean, place, stageLock, ctl, sleft>>

Free == "nobody"
NoSha == "no sha"
Resting == [at |-> "rest"]

\* A free lock is no run's.  Of the rows of the records, one may be lost.
ASSUME StagesConstants ==
  Free \notin LiveRuns /\ StageBudget \in [fault : Nat, row : 0..1, ack : Nat, run : Nat]

\* The stages of the runbook: how many steps arm and roll back, and what they need.
Stage == 1..3
Steps(s) == <<3, 2, 3>>[s]
RollbackSteps(s) == <<2, 2, 3>>[s]
Gates(s) == <<{}, {"G22"}, {"G21"}>>[s]
NeedsClean(s) == IF s = 3 THEN {2} ELSE {}

StagesInit ==
  /\ word = [s \in Stage |-> "none"] /\ clean = {}
  /\ place = [s \in Stage |-> "off"]
  /\ stageLock = Free /\ ctl = [r \in LiveRuns |-> Resting] /\ sleft = StageBudget

SpendStage(kind) == sleft[kind] > 0 /\ sleft' = [sleft EXCEPT ![kind] = @ - 1]

-----------------------------------------------------------------------------
(* The records *)

StageClean == {"stage_done"}
StageDirty == {"stage_start", "abort", "rolled_back", "rollback_failed"}

StageWritten(kind, s) ==
  /\ word' = [word EXCEPT ![s] = kind]
  /\ clean' = IF kind \in StageClean THEN clean \cup {s}
              ELSE IF kind \in StageDirty THEN clean \ {s} ELSE clean

\* A row that cannot be written is reported to the caller, never raised.
Record(kind, s, ok) ==
  IF ok THEN StageWritten(kind, s) /\ UNCHANGED sleft
        ELSE SpendStage("row") /\ UNCHANGED <<word, clean>>

\* Faulty variant: a stage that was left half way may start again.
UnresolvedOnlyFailed(s) == word[s] = "rollback_failed"

\* A failed rollback, or a run that never reached its last row.
Unresolved(s) == word[s] \notin {"none", "stage_done", "rolled_back", "rollback_ack"}

\* With a build sha the records must carry it; without one any record will do.
Proven(what, sha) == \E p \in Proofs : p[1] = what /\ (sha = NoSha \/ p[2] = sha)
Preconditions(s, sha) ==
  /\ Proven("alerts", sha)
  /\ \A g \in Gates(s) : Proven(g, sha)
  /\ NeedsClean(s) \subseteq clean
  /\ ~Unresolved(s)

\* The stage a live run is at.
Here(r) == ctl[r].stage

\* record ack-rollback --stage N: whoever acted by hand says it was done.  It takes no lock
\* and checks nothing: that no run is at work on that stage is up to whoever says it.
AckRollback(s) ==
  /\ SpendStage("ack") /\ place[s] = "part"
  /\ \A r \in LiveRuns : ctl[r].at \notin {"rest", "check"} => Here(r) # s
  /\ place' = [place EXCEPT ![s] = "off"]
  /\ StageWritten("rollback_ack", s)
  /\ UNCHANGED <<stageLock, ctl>>

-----------------------------------------------------------------------------
(* A live run *)

StageAt(r, where) == ctl[r].at = where
StageGoto(r, c) == ctl' = [ctl EXCEPT ![r] = c]

\* The lock first; a second live run is refused.
TakesLock(r) ==
  /\ StageAt(r, "rest") /\ stageLock = Free /\ SpendStage("run")
  /\ \E s \in Stage : StageGoto(r, [at |-> "check", stage |-> s])
  /\ stageLock' = r /\ UNCHANGED <<word, clean, place>>

\* Preconditions, and the stage_start row: one that fails is a controller error.
ChecksRecords(r) ==
  /\ StageAt(r, "check")
  /\ \/ /\ \E sha \in Builds \cup {NoSha} : ~Preconditions(Here(r), sha)
        /\ StageGoto(r, Resting) /\ stageLock' = Free /\ UNCHANGED <<word, clean, sleft>>
     \/ /\ \E sha \in Builds \cup {NoSha} : Preconditions(Here(r), sha)
        /\ UNCHANGED stageLock
        /\ \/ Record("stage_start", Here(r), TRUE) /\ StageGoto(r, [at |-> "arm", stage |-> Here(r), step |-> 0])
           \/ Record("stage_start", Here(r), FALSE) /\ StageGoto(r, [at |-> "abort", stage |-> Here(r)])
  /\ UNCHANGED place

\* The driver's step: it may fail before or after it took effect, and so may its check,
\* the counters or the baseline of the first one.
ArmStep(r) ==
  /\ StageAt(r, "arm") /\ ctl[r].step < Steps(Here(r))
  /\ \/ /\ place' = [place EXCEPT ![Here(r)] = IF ctl[r].step + 1 = Steps(Here(r)) THEN "on" ELSE "part"]
        /\ StageGoto(r, [ctl[r] EXCEPT !.at = "row"]) /\ UNCHANGED sleft
     \/ /\ SpendStage("fault") /\ StageGoto(r, [at |-> "abort", stage |-> Here(r)])
        /\ place' \in {place, [place EXCEPT ![Here(r)] = "part"]}
  /\ UNCHANGED <<word, clean, stageLock>>

StepRow(r) ==
  /\ StageAt(r, "row")
  /\ \/ Record("step_done", Here(r), TRUE) /\ StageGoto(r, [ctl[r] EXCEPT !.at = "arm", !.step = @ + 1])
     \/ Record("step_done", Here(r), FALSE) /\ StageGoto(r, [at |-> "abort", stage |-> Here(r)])
  /\ UNCHANGED <<place, stageLock>>

StageDone(r) ==
  /\ StageAt(r, "arm") /\ ctl[r].step = Steps(Here(r))
  /\ \/ Record("stage_done", Here(r), TRUE) /\ StageGoto(r, Resting) /\ stageLock' = Free
     \/ Record("stage_done", Here(r), FALSE) /\ StageGoto(r, [at |-> "abort", stage |-> Here(r)]) /\ UNCHANGED stageLock
  /\ UNCHANGED place

\* Ctrl-C or SystemExit while it arms: rolled back, then raised again.
StageInterrupted(r) ==
  /\ ctl[r].at \in {"arm", "row"} /\ SpendStage("fault")
  /\ StageGoto(r, [at |-> "abort", stage |-> Here(r)])
  /\ UNCHANGED <<word, clean, place, stageLock>>

-----------------------------------------------------------------------------
(* The rollback: once, in order, never retried *)

Abort(r) ==
  /\ StageAt(r, "abort") /\ StageGoto(r, [at |-> "back", stage |-> Here(r), step |-> 0])
  /\ \E ok \in BOOLEAN : Record("abort", Here(r), ok)
  /\ UNCHANGED <<place, stageLock>>

RollbackStep(r) ==
  /\ StageAt(r, "back") /\ ctl[r].step < RollbackSteps(Here(r))
  /\ place' = [place EXCEPT ![Here(r)] = "part"]
  /\ \/ StageGoto(r, [ctl[r] EXCEPT !.at = "backrow"]) /\ UNCHANGED sleft
     \/ SpendStage("fault") /\ StageGoto(r, [at |-> "failed", stage |-> Here(r)])
  /\ UNCHANGED <<word, clean, stageLock>>

RollbackRow(r) ==
  /\ StageAt(r, "backrow") /\ StageGoto(r, [ctl[r] EXCEPT !.at = "back", !.step = @ + 1])
  /\ \E ok \in BOOLEAN : Record("rollback_step", Here(r), ok)
  /\ UNCHANGED <<place, stageLock>>

VerifyRollback(r) ==
  /\ StageAt(r, "back") /\ ctl[r].step = RollbackSteps(Here(r))
  /\ \/ place' = [place EXCEPT ![Here(r)] = "off"] /\ StageGoto(r, [at |-> "rolled", stage |-> Here(r)]) /\ UNCHANGED sleft
     \/ SpendStage("fault") /\ StageGoto(r, [at |-> "failed", stage |-> Here(r)]) /\ UNCHANGED place
  /\ UNCHANGED <<word, clean, stageLock>>

\* The last row, one alert, and the lock goes with the run.
LastRow(r) ==
  /\ ctl[r].at \in {"rolled", "failed"} /\ StageGoto(r, Resting) /\ stageLock' = Free
  /\ \E ok \in BOOLEAN :
       Record(IF StageAt(r, "rolled") THEN "rolled_back" ELSE "rollback_failed", Here(r), ok)
  /\ UNCHANGED place

\* The process is killed, or interrupted while it rolls back: the system drops its lock.
ControllerDies(r) ==
  /\ ~StageAt(r, "rest") /\ SpendStage("fault")
  /\ StageGoto(r, Resting) /\ stageLock' = Free
  /\ UNCHANGED <<word, clean, place>>

-----------------------------------------------------------------------------
StagesNext ==
  \/ \E s \in Stage : AckRollback(s)
  \/ \E r \in LiveRuns :
       \/ TakesLock(r) \/ ChecksRecords(r) \/ ArmStep(r) \/ StepRow(r) \/ StageDone(r)
       \/ StageInterrupted(r) \/ Abort(r) \/ RollbackStep(r) \/ RollbackRow(r) \/ VerifyRollback(r)
       \/ LastRow(r) \/ ControllerDies(r)

StagesSpec == StagesInit /\ [][StagesNext]_stagesVars

-----------------------------------------------------------------------------
(* Properties *)

\* No stage begins to arm on an estate that an earlier run left half way, nor
\* the third while the second is not in place by its own steps: whatever failed,
\* was interrupted or killed, and with one row of the records lost.
StartsFromSettled ==
  [][\A r \in LiveRuns :
       StageAt(r, "check") /\ ctl'[r].at = "arm"
       => /\ place[Here(r)] # "part"
          /\ \A s \in NeedsClean(Here(r)) : place[s] = "on"]_stagesVars
=============================================================================
