# A TLA+ model of the FIELD platform

The platform governs autonomous agents. A registry says which agents exist and
whether they may run, a delegation authority hands out and revokes what they may
do, a sentinel decides each action, a governor meters it, a kill-switch and a
lifecycle manager stop it, and every decision is recorded in a hash-chained
ledger. This directory holds TLA+ modules for the parts of the code under `src/`
where the order of steps decides whether that works, the TLC runs that check
them on small instances, and TLAPS proofs of the results that hold for every
instance.

`PROJECT.json` is the index: components, runs, the source lines behind each
definition, a faulty variant for each property, findings, hazards, theorems.

## 1. The system

| Component | State it keeps | Operations | What makes it correct |
|---|---|---|---|
| sealed-ledger store | segment files, segments journal, hold marker, sidecars, writer lock file; a cache per process | append, rotate, reconcile, place/release hold, archive, lock-free snapshot | one unbroken chain; an interrupted rotation is finished or undone; an archived segment is journalled first; a hold stops archival; a reader needs no lock |
| sealed-ledger around the store | keyring cache, anchors file, bundles, observer memory, thread pools | signed appends, witness ticks, export and verify, commands, observer ticks | a stored claim is genuine; no false alarm; a verified bundle is whole; an exit code is true; what is remembered is in the ledger; appends and health do not wait behind reads |
| agent-registry | one row per agent, a counter of lost ledger notes | PATCH, attest, enrol, list | retired is terminal; the ledger's trail of statuses is the rows' history |
| kill-switch | lost notes, heartbeats seen | kill, kill domain, revive, drill, signal, check-in | an answered stop holds; a drill puts back what it found; signals go only where they may |
| delegation-authority | tokens, a lock per token and process | mint, revoke, introspect | no token and no revocation without its event; one revocation id |
| lifecycle-manager | the last sweep report | provision, decommission, sweep | a decommission that reports ok left nothing behind; a sweep kills orphans only; no token outside its agent's limits |
| conformance-sentinel | policy and manifest caches; a judge and its meter | check in enforce or log-only mode, governed call, measurement run | a check begun after an answered stop is refused; an ALLOW is recorded before it is answered; a scorecard is worth what it says |
| spend-governor | caps, rate limits, policies, spend and usage rows, escalations | put cap/limits/policy, record spend/usage, status, resolve | one open escalation of a kind, one human of record; a reached cap is noticed; an allowed action heeds what was recorded; the told wait is exact |
| federation-broker | contracts in a database several processes share | register contract, decide inbound and outbound crossing | a crossing rests on a contract in force; duplicates of an org only go away |
| force-gateway | stride, coverage and drift counters, mirrored in a database; bypass windows | messages, bypass, restart | egress fails closed; telemetry fails open; a restart changes nothing |
| claude-approver | a cursor of reported usage, what was asked and sent | poll, decide, confirm, report usage, halt | an allow heeds the stop; no ask is stranded; no usage is lost |
| field-core | operators file and memory of retired keys; alert counters | authenticate an operator, admit ledger events, send alerts | the newest file rules; a list names who may; each alert ends in one counter |
| field-agent SDK | liveness of the agent, canary state | heartbeat, liveness gate, canary | a killed agent's gate closes in bounded time |
| incident-replay, attestation-reporter, compliance-crosswalk, ops-console | a corpus with flags; published packs; open streams | replay, board pack, regulatory watch, fleet halt, bulk actions | a report says what it left out; only reviewed text is in the corpus; "all ok" means stopped |
| tools | stage records, sentinel and stamp files, rotation and renewal journals | stage controller, kill watcher, credential rotation, token renewal | a stage starts from a settled estate; a kill reaches the session; a finished run leaves one working credential and none astray |

Services talk over HTTP: kill-switch, lifecycle manager, delegation authority,
sentinel, console and stage controller call the registry and the ledger, and
each other. Every call can fail, and one that timed out at its caller may still
be carried out. Every service runs its handlers in threads, so requests overlap
between any two calls. The ledger, the federation contracts, the regulatory
corpus and the journals of the tools are files shared by several processes, each
of which can be killed at any instruction.

The hard behaviour, and the line where it bites, is the list `hazards` in
`PROJECT.json`: crash recovery of segmented files, caches of other processes,
lock-free reading, read-then-PATCH races, late PATCH calls, ledger-first order
under outages, partial failure of a decommission, a status put together from
reads between which others record, answers lost after the work was done, and
files replaced between a check and its use.

## 2. Modules

### The ledger's store

`LedgerStore` is the writer side of `store.py`. Files are inodes and directory
entries are variables (`P` the open segment, `closed[n]`, `archive[n]`), so a
rename moves an inode and an open handle keeps its bytes. The journal is kept as
what `parse_journal` makes of it. An event is its identity and its
predecessor's: since ids are unique an id stands for the hash of its event.
Each process runs through the labels of `pc`, one file-system effect per step.

| Code | Actions |
|---|---|
| `_writer` (lock file), `_ensure_fresh_locked`, `_recover_locked` | `Acquire`, `EnsureFresh`, `Recovered` |
| `_reconcile_locked` | `ReconcileTornTail`, `ReconcileUnlinkTmp`, `ReconcileAbort`, `ReconcileForward`, `ReconcileInstall`, `ReconcileCommit`, `ReconcileEnd` |
| `_append`, `_append_event_locked` | `WriteBegin`, `WriteEnd` |
| `rotate` | `RotateIntent`, `RotateRefused`, `RotateTmp`, `RotateRename`, `RotateRenameRefused`, `RotateAborted`, `RotateInstall`, `RotateCommit` |
| `place_hold`, `release_hold` | `PlaceHold`, `ReleaseHold`, `ReleaseUnlink` |
| `archive_closed_segments` | `ApplyStart`, `ApplyCompleteMoves`, `ApplyPlan`, `ApplySidecar`, `ApplyLock`, `ApplyBusy`, `ApplyHeld`, `ApplyReplan`, `ApplyCommit`, `ApplyMove`, `ApplyEnd` |
| a process killed in any of these | `Crash` with what it leaves half written (`TearJournal`, `TearTmp`, `TearLine`), `Restart`, `StartReconcile` |

`AppendOnlyLog` is what the store promises: a sequence of events to which one
event at a time is added, and a set of acknowledged ids that are in it.
`LedgerStore` instantiates it (`Log`), giving event number `g` of the log as the
line that bears that global number (`LineAt`, from the start each file's journal
entry gives it) and `Sealed` as their count; `LedgerIsAppendOnlyLog` is the
refinement. `LedgerReader` adds a reader (`_take_snapshot`, `Snapshot.verify`,
`_verify_archived`), again one file access per step.

### The authority of an agent

A request is a frame (`rq[r]`) with a program counter, like a thread in a
handler; a call to the registry that changes something is a message in `patch`
that the registry serves in three steps (guard, transaction, note) and that may
outlive its caller. The ledger is a set of accepted events: which order they got
there and that they stay is `LedgerStore`'s business, and `LedgerIsAppendOnlyLog`
is the property that justifies the set.

| Module | Code |
|---|---|
| `Registry` | `update_agent`, `update_with_previous`, `attest`; the ledger and registry clients' outcomes |
| `KillSwitch` | `_kill_one`, `kill_domain`, `revive`, `drill` |
| `Delegation` | `mint`, `revoke` (keyed lock, ledger first), a process that dies |
| `Authority` | lifecycle-manager `decommission`, which runs the revoke and kill steps of the other services; the sentinel's `_decide` and `_verdict` in enforce mode; the composition: requests of every kind at once, and the properties |

### Spend

`SpendGovernor` is one agent's rows in the governor's database (every query is
by agent) and the handlers over them. A store call takes the store's lock, so it
is one step; a handler is a sequence of such steps and handlers overlap.
`_status_full` is up to nine reads (`StatusCap` to `StatusTokens`) with a verdict
in the middle. A sum that a handler carries from one read to the next is kept as
the set of rows it was taken over. Time is a counter of fractions of a second
that is read when a handler begins. `Metering` adds the sentinel's step 8, the
token's ceiling, the recorded ALLOW and the metering call, which may fail,
or time out at the sentinel and be carried out all the same.

| Code | Actions |
|---|---|
| `set_cap`, `set_policy`, `set_rate_limits` | `PutCap`, `PutPolicy`, `RatesCheck`, `RatesWrite`, `RatesBack`, `RatesNote` |
| `_status_full`, `_throttle` | `GetStatus`, `StatusCap`, `StatusTotals`, `StatusUsage`, `StatusActions`, `StatusOpen`, `StatusRates`, `StatusWindow`, `StatusPolicy`, `StatusTokens` |
| `record_spend` | `SpendBegin`, `Record`, `RecordNote`, `SpendOutcome`, `EscalateNote`, `BlockNote` |
| `record_usage` | `UsageBegin`, `UsageRecord`, `UsageNote`, `UsagePolicy`, `UsageWindow`, `UsageRogue`, `RogueNote`, `UsageEnd` |
| `resolve` | `Resolve`, `ResolveNote` |
| sentinel `_decide` step 8, `_token_ceiling`, `check`, `_meter` | `CheckStatus`, `CheckNoCap`, `CheckVerdict`, `CeilingTotals`, `CeilingUsage`, `CheckAllow`, `Meter`, `MeterTimeout`, `GapNote` |

### What decides and stops (composed in `MCControl`)

| Module | Code | Actions |
|---|---|---|
| `Gateway` | force-gateway `messages`, `_authorize`, `_load_state`; `GatewayStore` | `Arrive`, `Authorize`, `Route`, `WindowRead`, `WindowWrite`, `Upstream`, `MeterPassthrough`, `ToolBlock`, `Instrument`, `StrideRead`, `StrideReserve`, `StrideSlot`, `MaybeJudge`, `CommitRequest`, `FeedDrift`, `Release`, `Unreserve`, `GatewayRestart`, `Stop` |
| `Operators` | field-core `operator_auth`, `operator_health`: the loader, the memory of retired keys, `guard`, `authenticate`, `admit_ledger_event` | `PutFile`, `TimePasses`, `Guard`, `GuardMalformed`, `RecordEnds`, `ServiceAppend`, `PostClaim`, `VerifyHash`, `ProcRestart` |
| `Federation` | federation-broker `ContractStore.save`, `_decide_inbound`, `_decide_outbound`; SDK `cross` | `StartBroker`, `BrokerDies`, `PutContract`, `SaveBegin`, `SaveCheck`, `SaveCommit`, `Ask`, `Lookup`, `Decide`, `Answer`, `SdkCross` |
| `LifecycleEngine` | lifecycle-manager `sweep`, `run_sweep`, `scheduled_tick`, `_persist`; `provision` with the governor's `load_rate_limits` | `ServeSweep`, `TickSweep`, `List`, `OrphanStep`, `OpenReport`, `WriteReport`, `ReplaceReport`, `ServiceDies`; `Provision`, `ProvisionRegister`, `ReadExisting`, `Patch`, `Cap`, `ReadLimits`, `DeclaredLimits`, `PutLimits`, `ProvisionMint`, `RevokeAll`, `ProvisionRetire` |
| `Halting` | SDK `agent.py`, `liveness.py`, `canary.py`; kill-switch `_signal_endpoint`, `checkin` | `Gate`, `HeartbeatFor`, `Unreachable`, `EnsureAlive`, `HaltCalls`, `KillAgent`, `SignalSkipped`, `SignalHook`, `SignalReenters`, `SignalBack`, `Revive`, `Checkin`, `PollHeartbeat`, `CanaryRestarts` |
| `Console` | ops-console `bulk`, fleet halt, `stream` | `HaltDomain`, `KillNext`, `DomainDone`, `BulkNext`, `ToStream`, `OpenStream`, `CloseStream` |
| `Stages` | `stage_controller.py` | `TakesLock`, `ChecksRecords`, `ArmStep`, `StepRow`, `StageDone`, `StageInterrupted`, `Abort`, `RollbackStep`, `RollbackRow`, `VerifyRollback`, `LastRow`, `AckRollback`, `ControllerDies` |
| `Watcher` | `estate_kill_watcher.py` | `Polls`, `EstateAnswers`, `NoAnswer`, `Looks`, `Creates`, `Unlinks`, `Stamps`, `WriteFails`, `WatcherDies`, `Kill`, `WatchRevive`, `HumanHalts`, `HumanResumes` |
| `Verdicts` | sentinel `_decide`, `_judge_scope`, `_verdict`, `governed`; the measurement run of `measure.py`, `seeded.py` | `CheckStep` (scope, policy, spend, judge, verdict, meter, answer, call); `ScoreHealth`, `ScoreRegister`, `ScoreMint`, `AskSeed`, `LedgerDown`, `SkipSeed`, `Finally`, `RunFails` |

### What keeps and shows evidence (composed in `MCEvidence`)

| Module | Code | Actions |
|---|---|---|
| `Witness` | `witness.py`, `anchors.py`, `verify-witness` | `TickStarts`, `Direction1`, `Direction2`, `Post`, `TickRaises`, `AnchorReads`, `AnchorWrites`, `FetchAnchors`, `WalkChain`, `CompareAnchors`, `Restored`, `Archived`, `KeyFileChanges` |
| `Bundle` | `bundle.py`, `LedgerStore.export`, `verify-export`, `verify` of an archived segment | `BundleRecord`, `Rotate`, `BundleArchive`, `ExportReads`, `ExportWrites`, `ExportKilled`, `BundleDamaged`, `CopyTaken`, `CopyDamaged` |
| `Sealing` | `CallerKeyring`, `CallerPolicy`, `_seal`, `stamp_event` | `Receive`, `CheckUnclaimed`, `CheckUnverifiable`, `StatKey`, `ReadKey`, `Seal`, `OwnAppend`, `ImportKey`, `ReplaceSignKey`, `Restart`, `AlterEvent`, `Verify` |
| `LedgerCli` | `cli.py`: rotate, hold, retention apply, verify of one file; served or `--offline` | `CliBegin`, `Busy`, `CliRefused`, `Rotate...`, `PlaceHold`, `ReleaseHold`, `Apply...`, `CliAnswer`, `LoseAnswer`, `ChooseMode`, `StatFile`, `ReadSegment`, `ReadWhole`, `CliEdit` |
| `Replay` | incident-replay `engine.py` | `AskVerify`, `AskHealth`, `AskAgent`, `AskEvents`, `AskTokens` over `Append1`, `Archive`, `ReplayMint`, `ReplayRevoke` |
| `BoardPack` | attestation-reporter `PackEngine.build`, `_non_records`; `sign_pack`, `render`, `_write_pair`, `ServedSigning` | `Build`, `PackAnswered`, `Unusable`, `PackNoAnswer`, `PackSkipped`, `PackRead`; `StartApp`, `Serve`, `Render`, `WriteTmp`, `ReplaceFirst`, `ReplaceSecond`, `RenderFails`, `PutBackFails`, `FileKilled`, `Edit` |
| `Regwatch` | compliance-crosswalk `regwatch.py`, `staleness.py`, `evidence_pack.py` | `BeginCheck`, `BeginFile`, `BeginMark`, `BeginClear`, `BeginPack`, `Fly`, `Fetch`, `FallBack`, `Fetched`, `TakeStoreLock`, `LockTimeout`, `CommitReading`, `CommitMark`, `CommitClear`, `PersistFails`, `WritePack`, `CommandDies`, `ServeDies` |

### What has to get somewhere (composed in `MCOperations`)

| Module | Code | Actions |
|---|---|---|
| `Approver` | `Approver._tick`, `_read_events`, `_answer`, `_send`, `_post_usage`, `halt`; `UsageCursor` | `Tick` (list, read, check, send, usage), `Halt`, `Service` (turns, humans, late deliveries), `ApproverRestart` |
| `Observer` | `operator_observer.py` | `ObserverTick` (read, observe, slots, retired keys, alert), `ObserverChange`, `ServiceRestart`, `ServiceBack`, `LedgerRestart` |
| `Rotation` | `deployment_agent/`: `rotation.py`, `journal.py`, `provider.py` | `Fresh`, `Resume`, `RotationStep` (plan, sweep, mint, stage, back up, install, verify, retire, restore), `HaltNoting`, `ClearHalt`, `Tidy`, `RotationCrash` |
| `Renewal` | `renew_token.py` | `RunRenewal`, `RenewalStep` (recover, decide, intent, mint, confirm, swap, verify, revoke, abandon, undo), `PersistLate`, `RenewalCrash`, `EditStore` |
| `Alerts` | `alerts.py`, `alert_senders.py` | `SendStep`, `StartAttempt`, `Accepts`, `Answered`, `FilesChange` |
| `Lanes` | `sealed_ledger/api.py` pools, `LedgerStore._gate`, `_writer` | `LaneArrive`, `TakeThread`, `EnterGate`, `EnterWriter`, `LaneFinish`, `LaneLockTimeout`, `OtherLocks`, `OtherUnlocks` |

The parts of one composition share no state, so a behaviour studies one of them:
`part` is chosen at the start, the variables of the others are `Idle` or rest in
one initial state, and each property speaks of the part it belongs to. Several
specifications in one run cost TLC the sum of their states, not the product.

Definitions marked *Faulty variant* are not part of any specification: each is a
plausible mistake in the definition that follows it. `PROJECT.json` names one
variant per property of a run; the variants for the other conjuncts of a
property that are kept have each been put in place and violate it as well.

## 3. Runs

| Run | Instance | What it shows |
|---|---|---|
| `ledger_writers` | 2 processes append and rotate, 3 segments, 5 events, 2 kills, fairness | the chain stays whole and the journal parseable through every kill; a pending rotation is resolved; the files implement `AppendOnlyLog` |
| `ledger_retention` | a writer that rotates and holds, two archivers, 1 kill | a hold stops archival already under way and its ledger events fit its marker; moves follow their journal record; the inductive invariant of the proofs holds |
| `ledger_evidence` | writer, archiver, holder; 3 segments, 6 events | the evidence of archived segments survives later archival, and each has its sidecar |
| `ledger_reader` | a writer, an archiver and a reader, 1 kill | no false break and no short or mixed snapshot |
| `authority_stops` | a decommission or domain kill, a revive, drill, mint, edit or attestation, a check, kill or revoke; 1 fault | retired is terminal, the status trail is true, nothing is unledgered, a stop that was answered holds |
| `authority_revokes` | one token, 2 worker processes, 2 faults, fairness | one revocation id, a bounded number of events, no lock left behind, every request answered |
| `governor` | two requests of any kind and a resolver, one agent with earlier rows, a day boundary and a window's edge within reach, 1 fault | one open escalation of a kind, also when it is resolved and crossed again; the first resolver stays; `SpendLedgered`: every escalation, resolution and allowed action left its trail, or its loss was counted; `SpendHeeded`: a reached cap is noticed and an allowed check was below every limit by what was recorded when the governor took it up; the wait told is exact |
| `operations` | each part of `MCOperations`, with its crashes, lost answers and fairness | `ApproverSound`, `CredentialsSound`, `NoticesAccounted`, `TokensSpared`; and that asks are answered, credentials settle, notices arrive, appends and health polls are served |
| `control` | each part of `MCControl`, with its faults, deaths and edits | `GatewaySound`, `OperatorsSound`, `StopsSound`, `ChecksSound`, `EstateSound`, and the steps of `StepsSound` |
| `evidence` | each part of `MCEvidence` over a ledger that grows and is archived | `EvidenceSound`, `OperatorsToldTrue`, `ReportsSound`, and that nothing is forgotten |

Each conjunct of the last three runs' properties is a definition of the module it
is about, with a comment there; the composed definition says which part it holds
of.

### Bounds

`MaxSeg`, `MaxEvents`, `MaxCrashes` and `MaxFaults` bound counters in guards.
Three segments are what it takes for one archived, one closed and one open
segment, which is when evidence is carried; two kills are one in an operation
and one in its recovery. One fault per authority run suffices to reach each
failure branch; the second in `authority_revokes` is a retry that fails again.
Three requests are needed because the races are between a stop, something that
undoes it, and a check that witnesses the result. In `governor` a second has two
fractions and a day one second, so that two ticks cross the day and empty a
one-second window; earlier rows stand for requests that are long over, so that
two in flight meet a window or cap that is nearly full.

In the composed runs a budget is a record of what may still happen (faults,
restarts, edits, human interventions), counted down by the action that spends
it. Where the product of all budgets would be out of reach a set of budgets
replaces the largest one, each enough for one kind of race: the approver's
scenes (a lost answer or a crash meets one ask; a batch that is split has two
asks; two turns follow one another without faults), the observer's (changes and
a failed append; a restart), `Halting`'s (a revive and a check-in; a restarted
canary), `Operators`' (three versions of the file; two requests; one of each;
a restart in a mixed mode). Two sweeps, brokers, commands, renders, watchers,
stage runs and provision runs suffice because a race is between two; the lanes
have one thread each and three requests, so that every pool can be full; a board
pack meets two outages, which is when an upstream might be waited for twice
(`PackMaxBoth`: over two events then, over three with one outage).

`SYMMETRY Alike` is used where callers, agents and keys are interchangeable and
the run states no liveness. `CHECK_DEADLOCK FALSE` is set because requests and
budgets run out: a state with nothing left to do is not a deadlock. Waiting for
ever is covered by `PendingResolved`, `RequestsFinish`, `CredentialsSettle`,
`AsksAnswered`, `NoticesArrive` and `QuickAnswered`.

### Fairness

* `LedgerStore`: weak fairness of each process's next step and of its restart. A
  process that is not killed goes on (lock waits are bounded by the holder
  finishing or dying, which frees the lock), and the service is restarted and
  reconciles when it opens the store.
* `Authority`: weak fairness of each request's next step (every request has a
  thread) and of the registry serving some PATCH.
* `Approver`: the poller's ticks end and begin again. A tick survives every
  exception and runs on a timer; weak fairness of its steps would say less,
  because people and the session service act between them.
* `Observer`: the thread keeps ticking, a service that is away comes back.
* `Rotation`, `Renewal`: a run goes on; the schedule starts another; a mint whose
  answer was lost lands.
* `Alerts`: the sender's own steps, whose attempts have deadlines; nothing is
  assumed of the server.
* `Lanes`: the health and append threads run, and whoever is inside the writer
  lock of this process leaves it; nothing is assumed of the pool, of reads or of
  another process that keeps the lock.

Nothing is assumed about who asks for what, nor of faults.


## 4. Divergences

Two runs expect a violation; `PROJECT.json` lists them under `findings`.

* `vio_ack`: the sealed-ledger's README:561 says "Appends are durable when
  acknowledged". An append killed after its bytes and before its newline leaves
  a line the next process reads as whole; that process's own append, fsynced and
  acknowledged (store.py:2016), is glued onto it, and neither parses any more.
* `vio_kill`: the kill-switch's README:99 says "Killed agents fail sentinel
  checks instantly". A drill's `finally` (api.py:908) writes back the status it
  read at its start, over a kill that was answered with success meanwhile.

Six further sentences of docs and comments say more than the code does. Each is
a definition in its module, asked by no run; name it as an INVARIANT of the cfg,
with `Parts` reduced to the part, and TLC shows the behaviour.

| Definition | Cfg, part | What is said | What happens |
|---|---|---|---|
| `Watcher!HumanHaltKept` | Control, `watcher` | estate_kill_watcher.py:22: a poll does not undo a human's halt | the human writes the sentinel between the look at who owns it and the unlink or replace (167-184) |
| `Replay!ArchivedIsNoted` | Evidence, `replay` | engine.py 364-368: a window that starts before the earliest live event is noted | retention archives between the read of `/health` (416) and of `/events` (430) |
| `Gateway!AlertsWereLedgered` | Control, `gateway` | api.py, `_load_state`: a recorded drift alert was ledgered | the append failed after the tracker had counted the alert |
| `Operators!RereadHonoured` | Control, `operators` | operator_auth.py:1355: a re-read of the newest generation does not refuse its keys | an older file that was in place in between makes the memory keep the key retired |
| `LifecycleEngine!FailedRunLeavesNoToken` | Control, `provision` | engine.py:244-247: a run that failed leaves no token | the answer to a mint that was carried out is lost |
| `LifecycleEngine!StaleLimitsCleared` | Control, `provision` | spend_governor/provisioning.py:48-51: limits of an earlier load are cleared | any answer to the GET but 200 counts as "nothing to clear" (101-107) |

Two more are seen with cfgs of their own. An operator applies the same segments
twice at once and the one that is refused by a hold unlinks the sidecar the
other archived with (store.py:2422; sealed-ledger README:592 "An archived
segment verifies standalone from its sidecar"): `MCLedger` with
`Proc = {p1, p2, p3}`, `Role <- TwoArchiversHold`, `Operator <- SameOperator`,
`MaxSeg = 2`, `MaxEvents = 4`, `MaxCrashes = 0`, INVARIANT `ArchivedHasSidecar`.
`ledger verify --path` then calls that segment tampered although nobody touched it;
it is the one exception `FileVerdictTrue` names (`SidecarLost` of `LedgerCli`). It
takes five commands (two applies, a hold, its release, the verify), more than the
run has, and was met when the invariant turned out not to be inductive without it.
A failure after the point of no return is met in three places, all modelled, and the
properties say what is left of the promise. After the commit line of a rotation or an
archival the journal is read again (store.py:2091, 2433); a file another process holds
for longer than `SNAPSHOT_TIMEOUT_S` ends the command with exit 4 although the segment
is rotated, or archived with no event that names it, where store.py:2436 says "only a
killed process leaves an archival with no event" (`unread` of `LedgerCli`). The
put-back of a pack's first file is a write that may fail, so that "both files or
neither" (attestation-reporter cli.py:30) needs it to succeed (`PutBackFails`). And
measure.py:124-129 swallows the failing restart of a ledger it took down (`Finally`).
A reader that lists the archive before a segment moves there on the same day
reports a break (store.py:1591, 1593): `ReaderArchive.cfg` with
`SameDay = TRUE`, `MaxCrashes = 0`, INVARIANT `NoFalseBreak`.

## 5. Proofs

The theorems hold for any processes, requests, agents and bounds. What they assume
of the constants are the ASSUMEs named in the modules (`LedgerAssumption`,
`FederationConstants`, `SweepConstants`, `StagesConstants`, `WatchConstants`,
`HaltConstants`, `VerdictRequests`, `ScoreConstants`, `AlertsAssumption`,
`ApproverAssumption`, `GatewayAssumption`, `OperatorsAssumption`, `CliAssumption`,
`ReplayAssumption`, `PackAssumption`, `FileAssumption`, `RegwatchAssumption`,
`SealingAssumption` and those of `Registry`,
`Authority`, `Observer`, `Rotation` and `Renewal`: types of the parameters, budgets
that are numbers, and that no caller's id is a mark of a missing claim), which TLC evaluates in each run, and four hypotheses:

* `CutsShow`, in `LedgerKeptProofs`: a line cut off by a kill can be told from a whole
  one (`"noeol" \notin TornLine`). It is false exactly where `vio_ack` shows the code
  to fail, and true in every passing run.
* `~SameDay`, for `ReaderAlwaysSound`: no segment is archived within the five seconds
  (`SNAPSHOT_TIMEOUT_S`) after it was closed, which only `older_than_days = 0` could
  do. It is false exactly where `ReaderArchive.cfg` with `SameDay = TRUE` shows a read
  to report a break (section 4), and true in `ledger_reader`.
* `RetiredFit`, in `ControlProofs`: there are no more operator keys than a process's
  memory of retired ones holds (4096, operator_auth.py:1309). A process that has to
  forget a retired key may take it again.
* `OwnPrefixes`, there too: a row whose `event_prefixes` hold a service's event type
  is the row of that service. Who may attribute what is decided by the ledger's
  file alone, so that a file which grants it to another row lets that row's holder
  write under any name.

The last two are true of the files of the `control` run.

| Module | About |
|---|---|
| `LedgerProofs` | the store's journal, archive and hold; the chain stays whole |
| `LedgerKeptProofs` | what was written, acknowledged and held stays; the refinement; the lock-free reader |
| `AuthorityProofs` | rows, tokens and their events; stops, the trail, revocation |
| `MeteringProofs` | the governor and the sentinel's metering |
| `ControlProofs` | federation, sweeps, provisioning, stages, operator authentication |
| `ControlStopsProofs` | what stops an agent and what decides: watcher, gate and signals, console, checks, scorecards, gateway |
| `OperationsProofs` | alerts, observer, rotation, renewal, approver |
| `EvidenceProofs` | witness checks, the ledger's commands, post-mortems, board packs and their files, the corpus |

**The store.** `TypeCorrect` comes first, one lemma per action.

* `JournalSound`: `JournalAlwaysValid` (no journal that `parse_journal` refuses)
  is not inductive, because whether an `intent` or `archive` record is legal
  depends on what the writer's *cache* says of the journal. `JournalInv` adds
  that whoever is past the lock holds it (`LockExcludes`), that a process in the
  middle of a rotation has its own intent pending and nobody else does
  (`JournalPhase`), and that a fresh cache agrees with the journal
  (`CacheCoherent`). `ArchiveCommitted` and `HoldRespected` follow; for the hold,
  because the marker is looked at under the lock that commits.
* `ChainStaysWhole` (`LedgerWhole`): `WholeInv` is what lies on disk (`DiskInv`:
  each file where journal and pending rotation say, lines chained, tails whole)
  and what a writer at each label may rely on (`WriterInv`: its cache is not ahead
  of the disk, what it is about to write continues the last line). The 40 actions
  reduce to five effects on files (`Born`, `Grown`, `Closing`, `Spoken`, `Move`),
  and each effect is shown once to keep the chain.
* `RecoveryAlwaysMatches`, `LinesNeverChange`, `AckedStays`: recovery always finds a
  situation it knows, no step changes a line readers count, an acknowledged
  event stays (`AckInv`). `HoldStaysLedgered` (`HoldLedgered`): `HoldInv` counts
  who is between the marker and its event.
* `LedgerRefinesLog` (`LedgerIsAppendOnlyLog`): every step is an append of the
  abstract log or no step of it. The mapping names lines by their global number,
  so that a rename or archival maps every line to itself; `SpanInv` gives each
  file its range of numbers, `IdInv` that ids are fresh.
* `ReaderAlwaysSound` (`ReaderSound`): `DiskGoesOn` is what a reader may rely on while
  the writers go on: the layout only grows, a closed segment the journal does not call
  archived keeps its name, no line changes, and nobody writes past a torn line
  (`TailInv`, `Stuck`). On it `ReaderInv` follows an attempt file access by file
  access: the journal that was read is an earlier state of the journal
  (`JournalSeen`); while the journal has not moved and the pending name looks as it
  did, the handle is the segment after those the read counts (`Handle`), so that the
  second look at both either sends the read back to the top or makes it one consistent
  snapshot (`Taken`), whatever is renamed and archived from then on.

**The authority.**

* `RetiredIsTerminal`: only `update_with_previous` and `attest` write rows, and
  both test the row inside the transaction; types are all the proof needs, so no
  behaviour of a caller matters.
* `AlwaysLedgerFirst`, `AuthorityAlwaysLedgered`: `LedgerFirst` says what each
  label implies (`Ordered`: whoever is about to store a token has its event in the
  ledger) and where a nested call can resume (`Resumes`).
* `StopsAlwaysSound` gives `DecommissionAlwaysComplete` and `StopsStayFinal`:
  `StopInv` ties the numbers of PATCH calls to their callers, the labels of a
  decommission to what it has done so far, and an answer to the row it was given
  about.
* `TrailAlwaysSound` gives `TrailAlwaysTrue`: counting the notes still pending,
  the ledger's status changes of an agent form a path to its present status at
  every step (`TrailInv`), whoever interleaves. Together: `StopsAlwaysHold`
  (`StopsHold`).
* `RevokesOnce` (`RevokedOnce`): in `RevokeInv` the keyed lock belongs to one
  request of a process, and a request has added at most one event more than
  faults have met it; the sum over requests is bounded by lemmas on finite sums
  (`Budget`).

**Spend.** `OneOpenAlways`, `FirstResolverAlwaysWins`: a step leaves the
escalation table alone, adds one open row of a kind of which none is open, or
resolves an open row (`QueueStep`). `SpendAlwaysLedgered` (`SpendLedgered`):
`SpendInv` adds per request what it still owes the ledger (`MeterInv`) and that
each row is told of or about to be (`QueueTold`).

**Federation, sweeps, provisioning, stages, operators.** Each component is proved of its own
specification and carried over by `ControlParted`: a behaviour of the composed
`Control` is one of each part.

* `FederationInv`: locks are held exactly between a writer's check and its
  commit, the check still stands, and a crossing has seen every contract in force
  since it was sent. Hence `CrossingsAlwaysBacked`, `DuplicatesAlwaysShrink`.
* `SweepInv`: an armed sweep goes by the configured file, and a writer that was
  never joined by another owns the temporary file. Hence `SweepsKillOrphansOnly`,
  `SweepsReportStale`, `LastReportAlwaysWhole`.
* `ProvisionInv`, `StageInv` (the records tell of every stage left half way while
  at most one row was lost): `ProvisionAlwaysSafe`, `StagesStartSettled`.
* `OperatorsInv` (`OperatorsAlwaysSound`): per process, what it remembers against the
  newest good file it has seen and the keys that file or an earlier one dropped
  (`Memories`: the file in force is the newest, what was dropped is in the retired
  memory, and as long as nobody put a key back nothing in force is in it); that each
  refusal counted is written, dropped or in flight (`Tallies`); and that a request
  which goes on names who was authenticated for it (`Attributes`). A load learns from
  the file and only then judges a key, which is why `Memories` is shown of every load
  (`LoadsKeep`) and each handler reduces to loads.
* `EstateAlwaysSound`, `StepsAlwaysSound`, `ControlOperatorsSound` state the run's
  properties `EstateSound`, `StepsSound` and `OperatorsSound`.

**What stops and what decides.** Six more parts of `MCControl`, put together by
`ControlStopsSound` (`StopsSound`), `ControlChecksSound` (`ChecksSound`) and
`ControlGatewaySound` (`GatewaySound`).

* `WatcherInv`: an answer that was asked before a kill expires with its timeout, and
  while no sentinel file is there the stamp is at most a timeout older than the kill;
  hence the gate of `KillAlwaysReachesGate` denies in bounded time, for every
  interval, timeout and age.
* `HaltInv`: a body believed alive has seen no kill that its gate's age does not
  cover; a liveness answer in flight is no younger than what it tells
  (`AnswersBound`); the signals of a kill reenter once and end (`SignalsEnd`).
  Hence `GateAlwaysHeedsKill`, `SignalsAlwaysSound`.
* `ConsoleInv` follows a halt or bulk request agent by agent: what it has reported so
  far is true of every agent nobody else wrote to since it was asked (`touched`),
  hence `AllOkAlwaysMeansStopped`.
* `VerdictInv`: what each label of a check tells of its request (`Tells`); the answer is
  the only place where it is used. `ScoreInv`: rows are in step with the corpus, each
  has its cause ready, and a score run that was not disturbed leaves nothing behind.

* `GatewayInv` (`GatewayAlwaysSound`): what a call may have sent and handed out at each
  label, if its agent was stopped before or during it (`Egress`); the counters in
  memory against those of the store (`Books`); and how far a request in its
  instrumentation is ahead of the store, and the drift tracker behind it, as long as
  no two requests were there at once (`Half`, `Mirrored`). `Replay` is a function over
  the stored scores, and a score fed is a score replayed (`ReplayAppend`).

**What has to get somewhere.** Five parts of `MCOperations`.

* `AlertInv`: a 2xx is only heard of a server that took the alert, each send ends in one
  counter. `ObserverInv`: the memory is of what the ledger was given.
* `RotationInv` (`RotationAlwaysSound`): what the journal on disk says of the run in
  memory (`OnDisk`), whose credentials there are and which of them is marked as ours
  (`Marked`, `Known`), that there is a way back from every step that may fail
  (`WayBack`), and that a sweep which listed without a problem has every stray on its
  list (`Swept`).
* `RenewalInv` (`NoTokenAstray`, `TokensAlwaysSpared`): the journal is written before the
  mint, so that each token of the tool that is alive and in nobody's hand is either
  the one the journal names or one its snapshot does not know (`Tracked`); the
  listing a sweep or a recovery goes by still holds when it is used (`Looked`,
  `InHand`). That a new token finds a free id is a minimum over the numbers.
* `ApproverInv` (`ApproverAlwaysSound`): of every ask that blocks the session, what the
  session's log holds past the cursor and what the approver remembers of it (`Held`),
  in each step of a tick and through a restart that forgets everything but the
  cursor of usage. The log is read by a function over its positions; that it exists
  and keeps `Held` is proved along the positions.
* `CredentialsAlwaysSound`, `TokensAlwaysSpared`, `OperationsAlwaysAccounted` and
  `ApproverSoundAlways` state the run's properties `CredentialsSound`, `TokensSpared`,
  `NoticesAccounted` and `ApproverSound`.

**What operators are told.** Two parts of `MCEvidence`.

* `WitnessInv` (`NeverFalseAlarm`): an anchor of an estate that was never put back is a
  head its chain has had (`Headed`), wherever the anchor is: in a chain, in the hands of
  a tick, in the anchors file or taken by a check, which reads the anchors before it
  walks the chain. A step adds one event to a chain, puts one back in a new epoch, or
  leaves them alone (`ChainEffect`), and each keeps it.
* `CliInv` (`CommandsAlwaysTruthful`): the files of a segment only go forward
  (`CliOnward`), so that what a command saw remains true in that direction; who has the
  writer lock knows the segment it rotates (`LockFits`); a file nobody edited was recorded
  whole (`DigestFits`); and per command and label, what its rotation, apply or verify has
  done so far (`Fits`). The steps of other commands are then one lemma, and what remains
  is each command's own.
* `WitnessPast` (`LossAlwaysShows`): an anchor is of no later epoch than its estate's, and
  of an earlier one when its chain is too short for it, so that it is of an earlier epoch
  than anything the estate can append in its place. So what a chain appends (`ChainMoves`) never gives
  back the hash such an anchor holds, and a check that fails on it goes on failing; the
  file's verdict is one of three breaks (`FileBroken`), and each stays.
* `OperatorsAlwaysToldTrue` states the run's property `OperatorsToldTrue`.

**What is signed and reported.** Five parts of `MCEvidence`.

* `ReplayInv` (`ReportsAlwaysTrue`): what an event says of the grants is what the grants
  say of its instant ever after (`KnownStill`), because a mint and a revocation have
  instants of their own (`InstantsApart`); and what a report misses of its window is
  archived, and noted unless it was archived since (`ReportHeld`).
* `PackInv` (`PacksAlwaysSound`): each figure is the size of a set of events between
  what the window held when the build began and what it holds now (`BuildHeld`); when
  the window was given a start alone the two are one set. `HonestCounts` and
  `RateHonest` follow by cardinalities, `OneTimeout` from the upstreams the build has marked as down.
* `FileInv` (`PackFilesAlwaysSound`): every signature that exists is of the bytes of an
  issued pack (`AllGenuine`), wherever the pack is: on disk, in a temporary file, in the
  hands of a run; and while no two renders overlap and none was killed, the two files
  differ only between the two renames of the one render at work, which remembers the
  one it replaced (`PairInv`).
* `RegwatchInv` (`CorpusAlwaysReviewed`, `ReviewsAlwaysKept`): who commits holds the
  store's lock and has read the store under it (`CommitAlone`), so that a persisted
  store differs from the last one by one reading, mark or review; and an operation's
  snapshot a pack works on, if no framework of it is flagged, was reviewed when it was
  taken and stays so (`SnapshotsCovered`), since what was accepted is only added to.
* `SealInv` (`ClaimsAlwaysGenuine`): a cache entry is what the file held at its time,
  and never of a time to come (`CacheTrue`); what an append has seen of its caller's
  file includes what the file holds for as long as the append runs (`SeenFits`), so a
  claim that verified, by the cache or by the file, is of a key that was seen; and an
  event keeps what its stamp promised (`EventsFit`), by which a verification of an
  unaltered chain objects only after a key was exchanged.
* `ReportsAlwaysSound` and `NothingIsForgotten` state the run's properties
  `ReportsSound` and `NothingForgotten`.

The inductive invariants were put to TLC before they were proved: `WholeInv`,
`HoldInv`, `AckInv`, `SpanInv` and `IdInv` on the ledger runs, `TailInv` and
`ReaderInv` on `ledger_reader`, `StopInv`, `TrailInv`
and `RevokeInv` on the authority runs, `SpendInv` on `governor`, those of the parts
of `MCControl`, `MCOperations` and `MCEvidence` on `control`, `operations` and
`evidence` restricted to one part.

**Only model-checked.**
* Liveness (`PendingResolved`, `RequestsFinish`, `CredentialsSettle`, `AsksAnswered`,
  `NoticesArrive`, `QuickAnswered`): fairness and ENABLED are out of the prover's
  reach.
* What depends on sums of rows (`SpendHeeded`, `RetryExact`): the sums are folds,
  whose general laws need induction with an operator parameter. Induction for one
  definite predicate is within reach, as a minimum of the numbers that violate it;
  the proofs of `Renewal` and `Approver` use it.
* `RetentionEvidence`, which needs a single archiver that is not killed: with two of
  them it fails (Divergences).
* `MisnamedSwept`, which is checked as a part of `CredentialsSettle` and only for one
  odd answer and one human hand (below).
* `FreshVerifies` and `VerifiedIsWhole`, the bundle's half of `EvidenceSound`: what an
  export selects is a `SelectSeq` of the chain, a recursive function whose laws need
  induction over sequences.

**Where a renewal's promise ends.** A mint may be answered with the row of another
token (`MintedRows`, "misnamed"). The tool then sweeps what it does not know before
it revokes the id it was told (renew_token.py:63-67), and `MisnamedSwept` says that
the token really minted is gone when the journal is. Two faults together are more
than it covers, which is why it is checked with one odd answer and one human hand:
(a) such an answer, and a disk that does not take the record of it:
`abandon("journal_failed")` (renew_token.py:1060-1063) revokes the id it was told and
clears the journal without a sweep; (b) such an answer, a crash before the sweep,
and a person who puts the minted token into the store: the recovery takes it for the
new one. `NoOrphanToken` and `TokensSpared` are proved with no bound on either.

## 6. What the model leaves out

In general: formats, hashes, wording, wall-clock dates, HTTP routing, and whatever
only reads. A text, prompt or rule is a free choice of what it would say. Cut-offs
and budgets are those of the section on bounds.

The ledger.
* `verify`'s hash checks become comparisons of ids; redaction and timestamps are
  left out.
* An append that finds the lock busy (`LedgerBusy`) changes nothing and is a
  stutter. The retention run's busy branch is modelled, because it follows a
  written sidecar.
* A reader that meets an unterminated last line retries while its append is in
  flight: the code's three sightings over 100 ms are taken to outlast an append.
* Two processes writing the same sidecar's temporary file at the same instant.
* The re-read after a commit line is refused in `LedgerCli` only: in `LedgerStore` it
  would change no file. Its `LedgerCorrupt` (`_install`, store.py:1859) needs a file
  put there by hand.
* Retention is run for segments older than a reader's attempt lasts. A killed
  append leaves a broken or a whole line in all runs but `vio_ack`, which looks at
  the line without its newline.
* `Witness`, `Bundle`, `Sealing` and `LedgerCli` have ledgers of their own, reduced to
  what these components see of one; zip files and signatures are what can be
  told of them (whole, changed, signed with which key).

The authority.
* Operator authentication: a request is one that was allowed (`Operators` models how).
* Roster, scope, expiry and manifest rules may refuse at any time, freely.
* The endpoint signal of a kill is `Halting`'s; its ledger note is modelled here.
* Enrolment: agents start registered, active, with one token each. A domain
  kill's domain is all agents.
* Crashes of the registry or kill-switch process; the delegation authority's
  workers do crash. Timeouts of the lifecycle manager's own calls are covered
  by PATCH calls that land late and by failing steps.
* Log-only mode and the judge are in `Verdicts`.

Spend.
* Currencies other than the cap's (a token's ceiling is refused then), ceilings
  below a cent (they always block), monthly windows (like daily ones), a change
  of price book, and rows that older versions stored above today's bounds.
* A token's ceiling counts from before all rows, as for a token that is older.
* The gap note of a metering call that timed out is written when the governor
  has finished with the call; in the code it may be earlier.
* Whether an unlocked counter misses one of two lost notes: `dropped` only says
  that a service counted some.

The others.
* `Gateway`: presets, the hygiene of a text and the judge's rubric; `Operators`: the
  hashing of keys (a key stands for its hash) and messages; `Federation`: what a
  task carries; `Verdicts`: what a policy rule matches, the statistics of a
  measurement.
* `Approver` follows one session (state is kept per session); the session service,
  and the credential provider of `Rotation`, are external and modelled as they are
  used.
* `Rotation`: a run refused because the kill switch is engaged (rotation.py:341) is a
  stutter, and its fairness assumes that the switch does not stay engaged for ever. A
  hashed id on resume (387-390) does not arise: a mint halts on one before it is
  journaled (525).
* `Stages`: `ack-rollback` takes no lock and checks nothing; whoever says it is taken to
  have acted by hand, on a stage no run is at work on.
* `Console` and `Replay`: a 200 whose body has not the shape the estate's own service
  gives (ops-console api.py:845, incident-replay engine.py:376).
* `Alerts` and `Witness`: what a receiver outside the estate does with a message.
* `Replay`, `BoardPack`, `Regwatch`, `Console`: rendering and pages; catalogues and
  mapping tables are data.

Components with no module are listed in `PROJECT.json` with the reason.

## 7. What is open

In the order in which it would say most about the system:

1. The sums of the governor as functions over row numbers instead of folds, which
   would bring `SpendHeeded` within the prover's reach.
2. The bundle's half of `EvidenceSound`, with the selection of an export stated by what
   it contains instead of `SelectSeq`.
