--------------------------- MODULE LifecycleEngine ----------------------------
(***************************************************************************)
(* lifecycle-manager's hygiene sweep: served on request or by the scheduler, *)
(* over a listing that is stale as soon as it is read, with an auto-kill     *)
(* that only an explicit request arms and a report that is replaced on disk. *)
(* Agents are edited, attested and re-owned meanwhile; calls fail and the    *)
(* service may die at any step.  Provisioning follows below.                 *)
(***************************************************************************)
EXTENDS Integers, FiniteSets

CONSTANTS
  Swept,          \* agents
  Owners,         \* humans an agent may name
  Sweeps,         \* sweeps that may run, the scheduler's ticks among them
  Ticks,          \* those of Sweeps that the scheduler starts
  Rosters,        \* contents a roster may have: owners, Missing or Malformed
  Scopes,         \* scope sets an operator row may hold
  Reattest,       \* re-attestation period
  SweepBudget     \* time, edits and faults: a record

VARIABLES
  now, agent,     \* the registry: status, owner, created, attested, edited
  roster,         \* the file at FIELD_LIFECYCLE_ROSTER
  sw,             \* per sweep: its request, its listing, where it is
  inode,          \* file contents by the sweep that created them
  tmp, last,      \* what last_sweep.json.tmp and last_sweep.json name
  tickFile,       \* a skipped tick was recorded
  kills, found,   \* kills posted and re-attestations reported, by sweep
  overlap,        \* two reports were being written at once
  sweepLeft

sweepVars == <<now, agent, roster, sw, inode, tmp, last, tickFile, kills, found, overlap, sweepLeft>>

SweepMissing == {"missing"}        \* no such file, or no body
Malformed == {"malformed"}    \* a text that cannot be parsed
NoFile == "none"
SweepTorn == "torn"
Unswept == [pc |-> "idle"]

\* A sweep is told from no file and from a torn one; agents have owners; the period is a number of days.
ASSUME SweepConstants ==
  NoFile \notin Sweeps /\ SweepTorn \notin Sweeps /\ Owners # {} /\ Reattest \in Nat

SweepInit ==
  /\ now = 0 /\ agent = [a \in Swept |-> [status |-> "active", owner |-> CHOOSE o \in Owners : TRUE,
                                          created |-> 0, attested |-> 0, edited |-> 0]]
  /\ roster \in Rosters
  /\ sw = [s \in Sweeps |-> Unswept] /\ inode = [s \in Sweeps |-> SweepTorn]
  /\ tmp = NoFile /\ last = NoFile /\ tickFile = FALSE
  /\ kills = {} /\ found = {} /\ overlap = FALSE /\ sweepLeft = SweepBudget

SpendSweep(kind) == sweepLeft[kind] > 0 /\ sweepLeft' = [sweepLeft EXCEPT ![kind] = @ - 1]
InPc(s, pc) == sw[s].pc = pc
ToPc(s, pc) == sw' = [sw EXCEPT ![s].pc = pc]
filesKept == UNCHANGED <<inode, tmp, last, overlap>>
worldKept == UNCHANGED <<now, agent, roster>>

-----------------------------------------------------------------------------
(* The estate meanwhile *)

SweepTimePasses == SpendSweep("time") /\ now' = now + 1 /\ UNCHANGED <<agent, roster, sw, tickFile, kills, found>> /\ filesKept

\* Any PATCH moves the edit timestamp; only an attestation moves attested_at.
EditAgent(a) ==
  /\ SpendSweep("edits")
  /\ \E s \in {"active", "killed", "retired"}, o \in Owners :
       agent' = [agent EXCEPT ![a] = [@ EXCEPT !.status = s, !.owner = o, !.edited = now]]
  /\ UNCHANGED <<now, roster, sw, tickFile, kills, found>> /\ filesKept
AttestAgent(a) ==
  /\ SpendSweep("edits") /\ agent' = [agent EXCEPT ![a].attested = now, ![a].edited = now]
  /\ UNCHANGED <<now, roster, sw, tickFile, kills, found>> /\ filesKept
EditRoster ==
  /\ SpendSweep("edits") /\ roster' \in Rosters \ {roster}
  /\ UNCHANGED <<now, agent, sw, tickFile, kills, found>> /\ filesKept

-----------------------------------------------------------------------------
(* POST /sweep and the scheduler's tick *)

\* Faulty variant: the roster of the body may arm a kill too.
RefusedRequestScopeOnly(req) == req.arm /\ "sweep_kill" \notin req.scopes

\* Auto-kill never with a roster of the request's own, and only under an explicit sweep_kill.
RefusedRequest(req) == req.arm /\ (req.body # SweepMissing \/ "sweep_kill" \notin req.scopes)

\* The scheduler's request: nothing can arm it, and it reads the configured roster.
TickRequest == [arm |-> FALSE, body |-> SweepMissing, scopes |-> {}]

\* The text a sweep goes by: the body's, else the configured file's.
RosterText(req) == IF req.body # SweepMissing THEN req.body ELSE roster
Unavailable(req) == RosterText(req) \in {SweepMissing, {}}

Begins(s, req) ==
  sw' = [sw EXCEPT ![s] = [pc |-> "list", arm |-> req.arm, names |-> RosterText(req), file |-> roster,
                           listing |-> [a \in {} |-> "none"], todo |-> {}]]

ServeSweep(s, req) ==
  /\ s \notin Ticks /\ InPc(s, "idle")
  /\ IF RefusedRequest(req) \/ Unavailable(req) \/ RosterText(req) = Malformed THEN ToPc(s, "refused")
     ELSE Begins(s, req)
  /\ UNCHANGED <<tickFile, kills, found, sweepLeft>> /\ worldKept /\ filesKept

\* A tick without a roster is recorded beside the last report, never over it.
TickSweep(s) ==
  /\ s \in Ticks /\ InPc(s, "idle")
  /\ IF Unavailable(TickRequest) THEN ToPc(s, "skipped") /\ tickFile' = TRUE
     ELSE IF roster = Malformed THEN ToPc(s, "failed") /\ UNCHANGED tickFile
     ELSE Begins(s, TickRequest) /\ UNCHANGED tickFile
  /\ UNCHANGED <<kills, found, sweepLeft>> /\ worldKept /\ filesKept

\* Faulty variant: the clock runs from the last edit of the record.
SinceEdited(a) == agent[a].edited

\* attested_at, else created_at; never the edit timestamp.
Since(a) == IF agent[a].attested > 0 THEN agent[a].attested ELSE agent[a].created

ReattestationDue(a) == agent[a].status = "active" /\ Since(a) < now - Reattest

Orphan(a, names) == agent[a].status # "retired" /\ agent[a].owner \notin names

\* The listing, with the findings that need nothing more.  A registry that fails ends the sweep.
List(s) ==
  /\ InPc(s, "list")
  /\ \/ /\ sw' = [sw EXCEPT ![s].pc = "orphans", ![s].listing = agent,
                            ![s].todo = {a \in Swept : Orphan(a, sw[s].names)}]
        /\ found' = found \cup {[by |-> s, about |-> a] : a \in {a \in Swept : ReattestationDue(a)}}
        /\ UNCHANGED sweepLeft
     \/ SpendSweep("faults") /\ ToPc(s, "failed") /\ UNCHANGED found
  /\ UNCHANGED <<tickFile, kills>> /\ worldKept /\ filesKept

\* One orphan: escalated always, killed when armed and listed active.  A kill-switch
\* that cannot be reached ends the sweep, with the kill done or not; one that refuses
\* leaves the agent as it is, and the sweep goes on (auto_killed stays false).
OrphanStep(s, a) ==
  /\ InPc(s, "orphans") /\ a \in sw[s].todo
  /\ LET armed == sw[s].arm /\ sw[s].listing[a].status = "active"
     IN \/ /\ sw' = [sw EXCEPT ![s].todo = @ \ {a}] /\ UNCHANGED sweepLeft
           /\ kills' = IF armed THEN kills \cup {[by |-> s, about |-> a]} ELSE kills
           /\ agent' = IF armed /\ agent[a].status # "retired"
                       THEN [agent EXCEPT ![a].status = "killed", ![a].edited = now] ELSE agent
        \/ /\ armed /\ SpendSweep("faults")
           /\ ToPc(s, "failed") \/ sw' = [sw EXCEPT ![s].todo = @ \ {a}]
           /\ kills' = kills \cup {[by |-> s, about |-> a]} /\ UNCHANGED agent
  /\ UNCHANGED <<now, roster, tickFile, found>> /\ filesKept

-----------------------------------------------------------------------------
(* The report: written beside the last one, then put in its place *)

ReportPath == tmp

Writing(s) == sw[s].pc \in {"write", "replace"}

OpenReport(s) ==
  /\ InPc(s, "orphans") /\ sw[s].todo = {}
  /\ LET file == IF ReportPath = NoFile THEN s ELSE ReportPath
     IN /\ inode' = [inode EXCEPT ![file] = SweepTorn]
        /\ tmp' = file
        /\ sw' = [sw EXCEPT ![s] = [pc |-> "write", file |-> file]]
  /\ overlap' = (overlap \/ \E q \in Sweeps \ {s} : Writing(q))
  /\ UNCHANGED <<last, tickFile, kills, found, sweepLeft>> /\ worldKept

\* A write over another's text may leave the two mixed.
WriteReport(s) ==
  /\ InPc(s, "write")
  /\ \E text \in IF inode[sw[s].file] = SweepTorn THEN {s} ELSE {s, SweepTorn} :
       inode' = [inode EXCEPT ![sw[s].file] = text]
  /\ ToPc(s, "replace")
  /\ UNCHANGED <<tmp, last, overlap, tickFile, kills, found, sweepLeft>> /\ worldKept

\* The rename; another sweep may have taken the temporary file away, and then it raises.
ReplaceReport(s) ==
  /\ InPc(s, "replace")
  /\ IF tmp # NoFile THEN last' = tmp /\ tmp' = NoFile /\ sw' = [sw EXCEPT ![s] = [pc |-> "swept"]]
     ELSE sw' = [sw EXCEPT ![s] = [pc |-> "failed"]] /\ UNCHANGED <<last, tmp>>
  /\ UNCHANGED <<inode, overlap, tickFile, kills, found, sweepLeft>> /\ worldKept

\* The service dies: every sweep under way is gone, the files stay as they are.
ServiceDies ==
  /\ SpendSweep("faults") /\ \E s \in Sweeps : sw[s].pc \in {"list", "orphans", "write", "replace"}
  /\ sw' = [s \in Sweeps |-> IF sw[s].pc \in {"list", "orphans", "write", "replace"} THEN [pc |-> "failed"] ELSE sw[s]]
  /\ UNCHANGED <<tickFile, kills, found>> /\ worldKept /\ filesKept

SweepNext ==
  \/ SweepTimePasses \/ EditRoster \/ \E a \in Swept : EditAgent(a) \/ AttestAgent(a)
  \/ \E s \in Sweeps :
       \/ \E req \in [arm : BOOLEAN, body : Rosters, scopes : Scopes] : ServeSweep(s, req)
       \/ TickSweep(s) \/ List(s) \/ OpenReport(s) \/ WriteReport(s) \/ ReplaceReport(s)
       \/ \E a \in Swept : OrphanStep(s, a)
  \/ ServiceDies

SweepSpec == SweepInit /\ [][SweepNext]_sweepVars

-----------------------------------------------------------------------------
(* A sweep posts a kill only for an agent that the configured roster, as the
   file stood when the sweep took it, left without an owner in the listing, and
   never from a roster a request brought along, whatever else is swept at the
   same time (put of a body roster, the scheduler, run_sweep's one arming point). *)
KillsOrphansOnly ==
  [][\A k \in kills' \ kills :
       /\ k.by \notin Ticks /\ sw[k.by].file \notin {SweepMissing, Malformed}
       /\ sw[k.by].listing[k.about].owner \notin sw[k.by].file]_kills

(* An active agent nobody attested for longer than the period is reported by
   every sweep that lists it, whatever was edited, killed or revived since
   (the edit timestamp hid this before v1.2). *)
StaleReported ==
  [][\A s \in Sweeps, a \in Swept :
       /\ InPc(s, "list") /\ sw'[s].pc = "orphans" /\ agent[a].status = "active"
       /\ now - agent[a].created > Reattest /\ (agent[a].attested = 0 \/ now - agent[a].attested > Reattest)
       => [by |-> s, about |-> a] \in found']_sw

(* The last report on disk is a whole one, through failures, skipped ticks and
   crashes, unless two sweeps were writing theirs at once (_persist). *)
LastReportWhole == last # NoFile /\ ~overlap => inode[last] # SweepTorn

-----------------------------------------------------------------------------
(***************************************************************************)
(* lifecycle-manager's provision: validate, register, cap, rate limits and   *)
(* mint, one call at a time and nothing rolled back, while another run of    *)
(* the same agent and a decommission go on.  Every call may fail, with its   *)
(* effect or without.                                                        *)
(***************************************************************************)

CONSTANTS
  Runs,                \* provision runs of one agent
  ProvisionManifests,  \* what a run is given: valid, owner, cap, limits
  HeldBefore,          \* rate-limit sets the governor may already hold
  ProvisionFaults

VARIABLES
  record,         \* the registry's record of the agent
  governed,       \* the governor's cap and rate-limit set
  tokens,         \* tokens minted: which run, and whether the agent was active
  run,            \* per run: its manifest, where it is and what it saw
  pleft

provisionVars == <<record, governed, tokens, run, pleft>>

NoRecord == [status |-> "none", owner |-> "nobody"]
NotRun == [pc |-> "idle"]

ProvisionInit ==
  /\ record \in {NoRecord, [status |-> "active", owner |-> "ann"]}
  /\ governed \in {[cap |-> "none", limits |-> "none"]} \cup {[cap |-> "old", limits |-> l] : l \in HeldBefore}
  /\ tokens = {} /\ run = [r \in Runs |-> NotRun] /\ pleft = ProvisionFaults

AtStep(r, pc) == run[r].pc = pc
OnTo(r, pc) == run' = [run EXCEPT ![r].pc = pc]

\* A call's answer may be lost, after its effect or before it.
CallLost == pleft > 0 /\ pleft' = pleft - 1

\* The gate: an invalid manifest, limits that cannot be loaded or an expiry too near touch nothing.
Provision(r, m) ==
  /\ AtStep(r, "idle")
  /\ run' = [run EXCEPT ![r] = [pc |-> IF m.valid THEN "register" ELSE "refused", m |-> m,
                                begun |-> record.status, did |-> {}]]
  /\ UNCHANGED <<record, governed, tokens, pleft>>

-----------------------------------------------------------------------------
(* register: POST, and on a 409 the record is read and perhaps patched *)

Registered(m) == [status |-> "active", owner |-> m.owner]

ProvisionRegister(r) ==
  /\ AtStep(r, "register")
  /\ \/ /\ record.status = "none" /\ record' = Registered(run[r].m)
        /\ OnTo(r, "cap") /\ UNCHANGED pleft
     \/ record.status # "none" /\ OnTo(r, "existing") /\ UNCHANGED <<record, pleft>>
     \/ /\ CallLost /\ OnTo(r, "failed")
        /\ record' \in {record, IF record.status = "none" THEN Registered(run[r].m) ELSE record}
  /\ UNCHANGED <<governed, tokens>>

\* Faulty variant: a retired agent whose record would not change goes on.
StopsRetiredIfEdited(r) == record.status = "retired" /\ record.owner # run[r].m.owner

StopsRetired(r) == record.status = "retired"

\* What is read decides; a record that cannot be read is patched.
ReadExisting(r) ==
  /\ AtStep(r, "existing")
  /\ \/ /\ OnTo(r, IF StopsRetired(r) THEN "failed"
                   ELSE IF record.owner = run[r].m.owner THEN "cap" ELSE "patch")
        /\ UNCHANGED pleft
     \/ CallLost /\ OnTo(r, "patch")
  /\ UNCHANGED <<record, governed, tokens>>

\* Faulty variant: the registry lets an edit that changes nothing pass.
FrozenUnlessSame(r) == record.status = "retired" /\ record.owner # run[r].m.owner

\* The registry: owner and manifest_ref of a retired record can no longer be edited.
Frozen(r) == record.status = "retired"

Patch(r) ==
  /\ AtStep(r, "patch")
  /\ \/ /\ ~Frozen(r) /\ record' = [record EXCEPT !.owner = run[r].m.owner]
        /\ OnTo(r, "cap") /\ UNCHANGED pleft
     \/ /\ CallLost /\ OnTo(r, "failed")
        /\ record' \in {record, IF Frozen(r) THEN record ELSE [record EXCEPT !.owner = run[r].m.owner]}
     \/ Frozen(r) /\ OnTo(r, "failed") /\ UNCHANGED <<record, pleft>>
  /\ UNCHANGED <<governed, tokens>>

-----------------------------------------------------------------------------
(* cap, then the rate limits by the governor's own loader *)

Cap(r) ==
  /\ AtStep(r, "cap")
  /\ LET capped == [governed EXCEPT !.cap = run[r].m.cap]
     IN \/ /\ run[r].m.cap = "none" /\ OnTo(r, "failed") /\ UNCHANGED <<governed, pleft>>
        \/ /\ run[r].m.cap # "none" /\ governed' = capped /\ UNCHANGED pleft
           /\ run' = [run EXCEPT ![r].pc = "limits", ![r].did = @ \cup {"cap"}]
        \/ run[r].m.cap # "none" /\ CallLost /\ governed' \in {governed, capped} /\ OnTo(r, "failed")
  /\ UNCHANGED <<record, tokens>>

\* Nothing declared: the governor's set is read, and any answer but a 200 counts as none held.
ReadLimits(r) ==
  /\ AtStep(r, "limits") /\ run[r].m.limits = "none"
  /\ \/ OnTo(r, IF governed.limits = "none" THEN "mint" ELSE "put") /\ UNCHANGED pleft
     \/ CallLost /\ OnTo(r, "mint")
     \/ CallLost /\ OnTo(r, "failed")
  /\ UNCHANGED <<record, governed, tokens>>

DeclaredLimits(r) ==
  /\ AtStep(r, "limits") /\ run[r].m.limits # "none" /\ OnTo(r, "put")
  /\ UNCHANGED <<record, governed, tokens, pleft>>

AfterLostPut(r) == OnTo(r, "failed")

PutLimits(r) ==
  /\ AtStep(r, "put")
  /\ LET loaded == [governed EXCEPT !.limits = run[r].m.limits]
     IN \/ /\ governed' = loaded /\ UNCHANGED pleft
           /\ run' = [run EXCEPT ![r].pc = "mint", ![r].did = @ \cup {"limits"}]
        \/ CallLost /\ governed' \in {governed, loaded} /\ AfterLostPut(r)
  /\ UNCHANGED <<record, tokens>>

\* The delegation authority mints for an active agent only; its answer may be lost after the mint.
ProvisionMint(r) ==
  /\ AtStep(r, "mint")
  /\ LET minted == tokens \cup {[by |-> r, live |-> TRUE]}
     IN \/ record.status = "active" /\ tokens' = minted /\ OnTo(r, "ok") /\ UNCHANGED pleft
        \/ record.status # "active" /\ OnTo(r, "failed") /\ UNCHANGED <<tokens, pleft>>
        \/ /\ CallLost /\ OnTo(r, "failed")
           /\ tokens' \in {tokens, IF record.status = "active" THEN minted ELSE tokens}
  /\ UNCHANGED <<record, governed>>

-----------------------------------------------------------------------------
(* A decommission: tokens revoked, then the record retired *)

RevokeAll ==
  /\ \E t \in tokens : t.live
  /\ tokens' = {[t EXCEPT !.live = FALSE] : t \in tokens}
  /\ UNCHANGED <<record, governed, run, pleft>>

ProvisionRetire ==
  /\ record.status = "active" /\ \A t \in tokens : ~t.live
  /\ record' = [record EXCEPT !.status = "retired"]
  /\ UNCHANGED <<governed, tokens, run, pleft>>

ProvisionNext ==
  \/ \E r \in Runs : \/ \E m \in ProvisionManifests : Provision(r, m)
                     \/ ProvisionRegister(r) \/ ReadExisting(r) \/ Patch(r) \/ Cap(r) \/ ReadLimits(r)
                     \/ DeclaredLimits(r) \/ PutLimits(r) \/ ProvisionMint(r)
  \/ RevokeAll \/ ProvisionRetire

ProvisionSpec == ProvisionInit /\ [][ProvisionNext]_provisionVars

-----------------------------------------------------------------------------
(* A run that begins on a retired agent leaves it alone: no cap, no limits, no
   token, even when the read that shows the retirement fails, for the registry
   refuses the edit it then tries (provision, step 2).  And no run mints before
   its own cap and its own declared limits were accepted, whichever calls
   failed on the way (steps 3 to 5). *)
RetiredLeftAlone ==
  \A r \in Runs : run[r].pc # "idle" /\ run[r].begun = "retired" =>
    run[r].did = {} /\ \A t \in tokens : t.by # r
MintedUnderLimits ==
  \A t \in tokens : "cap" \in run[t.by].did /\ (run[t.by].m.limits # "none" => "limits" \in run[t.by].did)
ProvisionSafe == RetiredLeftAlone /\ MintedUnderLimits

(* What TransitionStep says of a failed run: one that stops at the mint leaves
   a registered, capped agent with no token.
   The code does not keep this; no run asks for it (README, Divergences). *)
FailedRunLeavesNoToken == \A t \in tokens : run[t.by].pc # "failed"

(* What load_rate_limits says of a run that declares none: a stale set of an
   earlier load is cleared before the run reports success.
   The code does not keep this; no run asks for it (README, Divergences). *)
StaleLimitsCleared ==
  \A r \in Runs : run[r].pc = "ok" /\ run[r].m.limits = "none"
                    /\ (\A q \in Runs \ {r} : run[q].pc = "idle") => governed.limits = "none"
===============================================================================
