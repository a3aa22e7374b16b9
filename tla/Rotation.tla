------------------------------- MODULE Rotation -------------------------------
(***************************************************************************)
(* The deployment agent's credential rotation: mint, install, verify, then  *)
(* revoke the old credential, one journaled state at a time.  The process   *)
(* may die between any two effects; the next rotate resumes from the        *)
(* journal.  People revoke, mint and let credentials expire meanwhile, and  *)
(* every provider call may fail with or without its effect.                 *)
(***************************************************************************)
EXTENDS Integers, FiniteSets

CONSTANTS
  Creds,            \* credential ids, 1 is the one the consumer starts with
  RotationScopes,   \* scopes a manifest may grant
  RotationBudget    \* crashes, provider errors and human deeds: a record

VARIABLES
  cred,             \* provider: state, who revoked it, whose stamp it carries
  installed,        \* the credential the consumer holds
  journal,          \* the run the journal describes
  stage,            \* staged secrets on disk: new and old
  rot,              \* the running attempt; pc is "idle" between attempts
  rleft

rotationVars == <<cred, installed, journal, stage, rot, rleft>>

None == 0
MintKind == "mint_fly_deploy_token"
WriteKind == "write_github_env_secret"
RevokeKind == "revoke_fly_deploy_token"
Unminted == [state |-> "none", by |-> "nobody", label |-> "none", run |-> None]
RotationLive(c) == cred[c].state = "active"
Minted == {c \in Creds : cred[c].state # "none"}
Idle == [pc |-> "idle"]

RotationAssumption ==
  /\ Creds \subseteq Nat \ {None} /\ 1 \in Creds
  /\ \A s \in RotationScopes : s \subseteq {MintKind, WriteKind, RevokeKind}
ASSUME RotationAssumption

RotationInit ==
  /\ cred = [c \in Creds |-> IF c = 1 THEN [Unminted EXCEPT !.state = "active"] ELSE Unminted]
  /\ installed = 1
  /\ journal = [state |-> "none", run |-> None, old |-> None, new |-> None, snapshot |-> {},
                leaves |-> FALSE, cleared |-> FALSE, orphans |-> {}]
  /\ stage = [new |-> None, old |-> None]
  /\ rot = Idle /\ rleft = RotationBudget

SpendRotation(kind) == rleft[kind] > 0 /\ rleft' = [rleft EXCEPT ![kind] = @ - 1]

-----------------------------------------------------------------------------
(* The journal: the state table, the pending run, the refuse list *)

Transitions ==
  [s \in {"planned", "minted", "installed", "verified", "old_revoked"} |->
     CASE s = "planned" -> {"minted", "rolled_back", "halted"}
       [] s = "minted" -> {"installed", "rolled_back", "halted"}
       [] s = "installed" -> {"verified", "rolled_back", "halted"}
       [] s = "verified" -> {"old_revoked", "halted"}
       [] s = "old_revoked" -> {"done", "halted"}]

Halted == journal.state = "halted" /\ ~journal.cleared
Pending == Halted \/ journal.state \in DOMAIN Transitions

\* A transition the table has, written with the ids the attempt knows.
Transition(s) ==
  /\ s \in Transitions[journal.state]
  /\ journal' = [journal EXCEPT !.state = s, !.leaves = FALSE,
                                !.new = IF rot.new # None THEN rot.new ELSE @]

\* A halt: the reason is left out, the row says whether the new credential stays by design.
HaltNoting(leaves, new, orphans) ==
  /\ "halted" \in Transitions[journal.state]
  /\ journal' = [journal EXCEPT !.state = "halted", !.leaves = leaves, !.cleared = FALSE,
                                !.new = new, !.orphans = @ \cup orphans]
  /\ rot' = Idle
RotationHalt(leaves) == HaltNoting(leaves, rot.new, {})

\* R12, R13 and R15 are the rules a rotation can meet.
RefuseRevoke(role) ==
  \/ RevokeKind \notin rot.scope
  \/ role = "old" /\ journal.state \notin {"verified", "old_revoked"}

Revoked(c) == [cred EXCEPT ![c].state = "revoked", ![c].by = "agent"]

\* Revoke and confirm: the credentials afterwards, and whether the caller was told it failed.
Revoke(c, role) ==
  (IF cred[c].state = "revoked" THEN {[cred |-> cred, err |-> FALSE]}
   ELSE IF RefuseRevoke(role) THEN {[cred |-> cred, err |-> TRUE]}
   ELSE {[cred |-> Revoked(c), err |-> FALSE], [cred |-> Revoked(c), err |-> TRUE]})
  \cup {[cred |-> cred, err |-> TRUE]}

\* An error the refuse list explains costs nothing; any other is a provider fault.
Charge(c, role, r) ==
  IF r.err /\ (cred[c].state = "revoked" \/ ~RefuseRevoke(role)) THEN SpendRotation("errors")
  ELSE UNCHANGED rleft

-----------------------------------------------------------------------------
(* Entry: one attempt at a time under the target's lock *)

RotationAt(pc) == rot.pc = pc
Go(pc) == rot' = [rot EXCEPT !.pc = pc]

\* No run pending: leftovers are cleaned, the scope is checked, the current credential is read.
Fresh(scope) ==
  /\ RotationAt("idle") /\ ~Pending /\ \E c \in Creds : cred[c].state = "none"
  /\ stage' = [new |-> None, old |-> None]
  /\ IF scope = {MintKind, WriteKind, RevokeKind} /\ cred[installed].state # "revoked"
     THEN rot' = [pc |-> "plan", old |-> installed, new |-> None, scope |-> scope, resuming |-> FALSE,
                  todo |-> {}, problem |-> FALSE, goal |-> "mint", ends |-> "rolled_back",
                  run |-> journal.run + 1, listed |-> FALSE]
     ELSE UNCHANGED rot
  /\ UNCHANGED <<cred, installed, journal, rleft>>

\* The pre-mint snapshot, then the planned row.
RotationPlan ==
  /\ RotationAt("plan")
  /\ journal' = [state |-> "planned", run |-> rot.run, old |-> rot.old, new |-> None,
                 snapshot |-> Minted, leaves |-> FALSE, cleared |-> FALSE, orphans |-> {}]
  /\ Go("mint")
  /\ UNCHANGED <<cred, installed, stage, rleft>>

Handler ==
  [s \in DOMAIN Transitions |->
     CASE s = "planned" -> "sweep" [] s = "minted" -> "install" [] s = "installed" -> "verify"
       [] s = "verified" -> "retire" [] s = "old_revoked" -> "finish"]

\* Faulty variant: a verified run counts as over.
ResumableShort == journal.state \in DOMAIN Transitions \ {"verified"}

Resumable == journal.state \in DOMAIN Transitions

\* A run the journal left unfinished is taken up at its last state, under today's scope.
Resume(scope) ==
  /\ RotationAt("idle") /\ Resumable
  /\ rot' = [pc |-> Handler[journal.state], old |-> journal.old, new |-> journal.new, scope |-> scope,
             resuming |-> TRUE, todo |-> {}, problem |-> FALSE, goal |-> "mint",
             ends |-> "rolled_back", run |-> journal.run, listed |-> FALSE]
  /\ UNCHANGED <<cred, installed, journal, stage, rleft>>

-----------------------------------------------------------------------------
(* planned -> minted *)

\* Faulty variant: only a resumed attempt can have left something behind.
SweepTodoResumed == IF rot.resuming THEN Minted \ (journal.snapshot \cup {rot.old}) ELSE {}

\* Everything listed that is neither in the snapshot nor the old credential.
SweepTodo == Minted \ (journal.snapshot \cup {rot.old})

SweepList ==
  /\ RotationAt("sweep") /\ ~rot.listed
  /\ rot' = [rot EXCEPT !.listed = TRUE, !.todo = SweepTodo]
  /\ UNCHANGED <<cred, installed, journal, stage, rleft>>

\* Faulty variant: anything new at the provider counts as this run's own.
OwnStampAny(c) == cred[c].label # "none" \/ cred[c].run = None

\* The stamp must match exactly: another run's, or nobody's, is not ours.
OwnStamp(c) == cred[c].label = "stamp" /\ cred[c].run = rot.run

\* One credential of the sweep: dead ones are skipped, unknown ones only noted, ours revoked.
SweepOne(c) ==
  /\ RotationAt("sweep") /\ rot.listed /\ c \in rot.todo
  /\ IF ~RotationLive(c)
     THEN rot' = [rot EXCEPT !.todo = @ \ {c}] /\ UNCHANGED <<cred, journal, rleft>>
     ELSE IF ~OwnStamp(c)
     THEN rot' = [rot EXCEPT !.todo = @ \ {c}, !.problem = TRUE] /\ UNCHANGED <<cred, journal, rleft>>
     ELSE \E r \in Revoke(c, "orphan") :
            /\ cred' = r.cred /\ Charge(c, "orphan", r)
            /\ rot' = [rot EXCEPT !.todo = @ \ {c}, !.problem = @ \/ r.err,
                                  !.new = IF r.err THEN c ELSE @]
            /\ journal' = IF r.err THEN [journal EXCEPT !.orphans = @ \cup {c}] ELSE journal
  /\ UNCHANGED <<installed, stage>>

\* A provider error while sweeping, or a problem it met, halts; else on to the goal.
SweepEnd ==
  /\ RotationAt("sweep")
  /\ \/ /\ ~rot.listed \/ rot.todo # {}
        /\ SpendRotation("errors") /\ RotationHalt(FALSE) /\ UNCHANGED <<cred, stage>>
     \/ /\ rot.listed /\ rot.todo = {} /\ rot.problem /\ RotationHalt(FALSE) /\ UNCHANGED <<cred, stage, rleft>>
     \/ /\ rot.listed /\ rot.todo = {} /\ ~rot.problem
        /\ stage' = [stage EXCEPT !.new = None]
        /\ rot' = [rot EXCEPT !.pc = IF rot.goal = "mint" THEN "mint" ELSE "rollback_row", !.listed = FALSE]
        /\ UNCHANGED <<cred, journal, rleft>>
  /\ UNCHANGED installed

\* The mint call.  It may answer, answer with an id the journal cannot hold, or raise
\* with or without having minted; the provider may drop the stamp.
Mint(c, label) ==
  /\ RotationAt("mint") /\ cred[c].state = "none" /\ \A d \in Creds : cred[d].state = "none" => c <= d
  /\ label # "stamp" => rleft.errors > 0
  /\ LET minted == [cred EXCEPT ![c] = [state |-> "active", by |-> "nobody", label |-> label, run |-> rot.run]]
     IN \/ /\ cred' = minted /\ rot' = [rot EXCEPT !.pc = "stage", !.new = c]
           /\ IF label # "stamp" THEN SpendRotation("errors") ELSE UNCHANGED rleft
        \/ /\ cred' = minted /\ SpendRotation("errors")
           /\ rot' = [rot EXCEPT !.pc = "drop", !.new = c, !.ends = "halted"]
        \/ /\ cred' \in {cred, minted} /\ SpendRotation("errors")
           /\ rot' = [rot EXCEPT !.pc = "sweep", !.goal = "roll", !.listed = FALSE]
  /\ UNCHANGED <<installed, journal, stage>>

\* Bound: no id is left, and the provider refuses.
MintNone ==
  /\ RotationAt("mint") /\ \A c \in Creds : cred[c].state # "none"
  /\ rot' = [rot EXCEPT !.pc = "sweep", !.goal = "roll", !.listed = FALSE]
  /\ UNCHANGED <<cred, installed, journal, stage, rleft>>

StageNew ==
  /\ RotationAt("stage") /\ stage' = [stage EXCEPT !.new = rot.new] /\ Go("readback")
  /\ UNCHANGED <<cred, installed, journal, rleft>>

\* The credential is read back; one that cannot be read or differs from the request is dropped.
ReadBack ==
  /\ RotationAt("readback")
  /\ \/ /\ RotationLive(rot.new) /\ cred[rot.new].label = "stamp"
        /\ Transition("minted") /\ Go("install") /\ UNCHANGED rleft
     \/ /\ ~(RotationLive(rot.new) /\ cred[rot.new].label = "stamp")
        /\ Go("drop") /\ UNCHANGED <<journal, rleft>>
     \/ /\ SpendRotation("errors") /\ Go("drop") /\ UNCHANGED journal
  /\ UNCHANGED <<cred, installed, stage>>

\* The new credential is revoked and the run ends; a revoke that fails halts it.
Drop ==
  /\ RotationAt("drop")
  /\ \E r \in Revoke(rot.new, "new_failed") :
       /\ cred' = r.cred /\ Charge(rot.new, "new_failed", r)
       /\ IF r.err \/ rot.ends = "halted" THEN RotationHalt(FALSE)
          ELSE Go("rollback_row") /\ UNCHANGED journal
  /\ UNCHANGED <<installed, stage>>

\* The rolled_back row, then the stage files go.
RolledBack ==
  /\ RotationAt("rollback_row") /\ Transition("rolled_back") /\ Go("clean")
  /\ UNCHANGED <<cred, installed, stage, rleft>>

Clean ==
  /\ RotationAt("clean") /\ stage' = [new |-> None, old |-> None] /\ rot' = Idle
  /\ UNCHANGED <<cred, installed, journal, rleft>>

-----------------------------------------------------------------------------
(* minted -> installed -> verified *)

\* The consumer's value is backed up once; without a staged value or a backup nothing is installed.
Backup ==
  /\ RotationAt("install")
  /\ \/ /\ stage.new = None /\ Go("drop") /\ UNCHANGED <<stage, rleft>>
     \/ /\ stage.new # None /\ stage.old # None /\ Go("put") /\ UNCHANGED <<stage, rleft>>
     \/ /\ stage.new # None /\ stage.old = None
        /\ stage' = [stage EXCEPT !.old = installed] /\ Go("put") /\ UNCHANGED rleft
     \/ /\ stage.new # None /\ stage.old = None
        /\ SpendRotation("errors") /\ Go("drop") /\ UNCHANGED stage
  /\ UNCHANGED <<cred, installed, journal>>

\* The install call may raise with or without its effect.
Install ==
  /\ RotationAt("put")
  /\ \/ installed' = stage.new /\ Go("mark") /\ UNCHANGED rleft
     \/ installed' \in {installed, stage.new} /\ Go("restore") /\ SpendRotation("errors")
  /\ UNCHANGED <<cred, journal, stage>>

MarkInstalled ==
  /\ RotationAt("mark") /\ Transition("installed") /\ Go("verify")
  /\ UNCHANGED <<cred, installed, stage, rleft>>

\* A bogus credential must be refused, then the real one accepted.
RotationVerify ==
  /\ RotationAt("verify")
  /\ \/ stage.new = None /\ RotationHalt(FALSE) /\ UNCHANGED rleft
     \/ stage.new # None /\ installed = stage.new /\ RotationLive(stage.new)
         /\ Go("states") /\ UNCHANGED <<journal, rleft>>
     \/ stage.new # None /\ (installed # stage.new \/ ~RotationLive(stage.new))
         /\ Go("restore") /\ UNCHANGED <<journal, rleft>>
     \/ stage.new # None /\ SpendRotation("errors") /\ Go("restore") /\ UNCHANGED journal
  /\ UNCHANGED <<cred, installed, stage>>

\* Both credentials are read again before the run counts as verified.
CheckStates ==
  /\ RotationAt("states")
  /\ LET new == cred[rot.new]
         old == cred[rot.old]
     IN \/ SpendRotation("errors") /\ Go("restore") /\ UNCHANGED journal
        \/ /\ new.state # "active" /\ UNCHANGED rleft
           /\ IF new.by = "agent" THEN Go("restore") /\ UNCHANGED journal ELSE RotationHalt(TRUE)
        \/ /\ new.state = "active" /\ old.state = "revoked" /\ old.by # "agent"
           /\ rot' = [rot EXCEPT !.pc = "drop", !.ends = "halted"] /\ UNCHANGED <<journal, rleft>>
        \/ /\ new.state = "active" /\ ~(old.state = "revoked" /\ old.by # "agent")
           /\ Transition("verified") /\ Go("retire") /\ UNCHANGED rleft
  /\ UNCHANGED <<cred, installed, stage>>

\* Faulty variant: the value the consumer holds is taken for the old one.
RestoredValueKept == installed

RestoredValue == stage.old

\* The way back: only to a live old credential whose backup exists.
Restore ==
  /\ RotationAt("restore")
  /\ \/ /\ SpendRotation("errors") /\ RotationHalt(FALSE)
        /\ installed' \in {installed} \cup (IF RotationLive(rot.old) /\ stage.old # None THEN {stage.old} ELSE {})
     \/ /\ ~RotationLive(rot.old) /\ RotationHalt(TRUE) /\ UNCHANGED <<installed, rleft>>
     \/ /\ RotationLive(rot.old) /\ stage.old = None /\ RotationHalt(FALSE) /\ UNCHANGED <<installed, rleft>>
     \/ /\ RotationLive(rot.old) /\ stage.old # None
        /\ installed' = RestoredValue
        /\ rot' = [rot EXCEPT !.pc = "drop", !.ends = "rolled_back"] /\ UNCHANGED <<journal, rleft>>
  /\ UNCHANGED <<cred, stage>>

-----------------------------------------------------------------------------
(* verified -> old_revoked -> done *)

RetireOld ==
  /\ RotationAt("retire")
  /\ \/ SpendRotation("errors") /\ RotationHalt(TRUE) /\ UNCHANGED cred
     \/ ~RotationLive(rot.old) /\ Go("retired") /\ UNCHANGED <<cred, journal, rleft>>
     \/ /\ RotationLive(rot.old)
        /\ \E r \in Revoke(rot.old, "old") :
             /\ cred' = r.cred /\ Charge(rot.old, "old", r)
             /\ IF r.err THEN RotationHalt(TRUE) ELSE Go("retired") /\ UNCHANGED journal
  /\ UNCHANGED <<installed, stage>>

MarkRetired ==
  /\ RotationAt("retired") /\ Transition("old_revoked") /\ Go("finish")
  /\ UNCHANGED <<cred, installed, stage, rleft>>

RotationDone ==
  /\ RotationAt("finish") /\ Transition("done") /\ Go("clean")
  /\ UNCHANGED <<cred, installed, stage, rleft>>

-----------------------------------------------------------------------------
(* Around the run *)

\* The process dies: what is on disk and at the provider stays.
RotationCrash ==
  /\ ~RotationAt("idle") /\ SpendRotation("crashes") /\ rot' = Idle
  /\ UNCHANGED <<cred, installed, journal, stage>>

\* A person clears a halt once nothing the journal tracks is live.
ClearHalt ==
  /\ RotationAt("idle") /\ Halted
  /\ LET tracked == journal.orphans
                    \cup (IF journal.new # None /\ ~journal.leaves THEN {journal.new} ELSE {})
     IN \A c \in tracked : ~RotationLive(c)
  /\ journal' = [journal EXCEPT !.cleared = TRUE]
  /\ UNCHANGED <<cred, installed, stage, rot, rleft>>

\* tidy: the leftovers of a run that died before its cleanup.
Tidy ==
  /\ RotationAt("idle") /\ ~Pending /\ stage # [new |-> None, old |-> None]
  /\ stage' = [new |-> None, old |-> None]
  /\ UNCHANGED <<cred, installed, journal, rot, rleft>>

\* People and time, at the provider.
HumanRevoke(c) ==
  /\ RotationLive(c) /\ SpendRotation("human")
  /\ cred' = [cred EXCEPT ![c].state = "revoked", ![c].by = "human"]
  /\ UNCHANGED <<installed, journal, stage, rot>>
Expire(c) ==
  /\ RotationLive(c) /\ SpendRotation("human")
  /\ cred' = [cred EXCEPT ![c].state = "expired"]
  /\ UNCHANGED <<installed, journal, stage, rot>>
HumanMint(c) ==
  /\ cred[c].state = "none" /\ \A d \in Creds : cred[d].state = "none" => c <= d
  /\ SpendRotation("human")
  /\ cred' = [cred EXCEPT ![c] = [Unminted EXCEPT !.state = "active"]]
  /\ UNCHANGED <<installed, journal, stage, rot>>

RotationStep ==
  \/ RotationPlan \/ SweepList \/ SweepEnd \/ MintNone \/ StageNew \/ ReadBack \/ Drop \/ RolledBack \/ Clean
  \/ Backup \/ Install \/ MarkInstalled \/ RotationVerify \/ CheckStates \/ Restore
  \/ RetireOld \/ MarkRetired \/ RotationDone
  \/ \E c \in Creds : SweepOne(c)
  \/ \E c \in Creds, l \in {"stamp", "none"} : Mint(c, l)

RotationNext ==
  \/ RotationStep
  \/ \E s \in RotationScopes : Fresh(s) \/ Resume(s)
  \/ RotationCrash \/ ClearHalt \/ Tidy
  \/ \E c \in Creds : HumanRevoke(c) \/ Expire(c) \/ HumanMint(c)

\* An attempt keeps going, and the schedule starts another while a run is unfinished.
RotationFairness == WF_rotationVars(RotationStep) /\ WF_rotationVars(\E s \in RotationScopes : Resume(s))

RotationSpec == RotationInit /\ [][RotationNext]_rotationVars /\ RotationFairness

-----------------------------------------------------------------------------
(* Properties *)

\* A finished rotation leaves the consumer with a credential that works, whatever crashes, lost
\* answers and resumes it took: a dead one there was revoked by a person or expired, never
\* killed by the agent.
FinishedServes ==
  journal.state \in {"done", "rolled_back"} /\ ~RotationLive(installed) => cred[installed].by # "agent"

\* A finished run leaves nothing of its own behind: every credential with the run's stamp is
\* dead, except the one it installed when it is done.
NoStrayCredential ==
  journal.state \in {"done", "rolled_back"} =>
    {c \in Creds : RotationLive(c) /\ cred[c].label = "stamp" /\ cred[c].run = journal.run}
        \subseteq (IF journal.state = "done" THEN {journal.new} ELSE {})

\* Credentials somebody else minted for the target are never revoked by the agent.
UnknownUntouched == \A c \in Creds \ {1} : cred[c].run = None => cred[c].by # "agent"

\* A run left pending by a crash is finished or handed to a person.
RotationSettles == (journal.state = "planned") ~> (journal.state \in {"done", "rolled_back", "halted"})
=============================================================================
