------------------------------- MODULE MCControl -------------------------------
(***************************************************************************)
(* Small instances of the parts that decide and stop: who may call, what    *)
(* an agent may do, and how a kill, a halt or a lapsed record gets to it.   *)
(* They share nothing, so a behaviour studies one of them (part); the       *)
(* variables of the others are Idle.                                        *)
(***************************************************************************)
EXTENDS Gateway, Operators, Federation, LifecycleEngine, Halting, Console, Stages, Watcher,
        Verdicts, TLC

CONSTANTS
  Parts,             \* the parts a run studies
  c1, c2, d1, d2     \* concurrent callers, brokers and agents; writers and domains

VARIABLE part

Idle == "idle"

\* Calls, brokers and watched agents are alike, and so are writers and domains.
Alike == Permutations({c1, c2}) \cup Permutations({d1, d2})

-----------------------------------------------------------------------------
(* Instances *)

\* A plain call, a call of the gateway's own agent, and one with nothing set.
MCShapes ==
  {[agent |-> "agent", token |-> TRUE, judge |-> FALSE, auth |-> TRUE, preset |-> TRUE],
   [agent |-> "self", token |-> TRUE, judge |-> TRUE, auth |-> TRUE, preset |-> TRUE],
   [agent |-> "agent", token |-> FALSE, judge |-> TRUE, auth |-> FALSE, preset |-> FALSE]}
MCPostures ==
  {[enforce |-> TRUE, toolCheck |-> TRUE, secret |-> TRUE, sentinel |-> TRUE],
   [enforce |-> FALSE, toolCheck |-> TRUE, secret |-> TRUE, sentinel |-> FALSE]}
MCStoredScores ==
  {<<>>, <<<<"overall", 0, "j1">>, <<"sycophancy", 0, "j1">>, <<"overall", 2, "j1">>, <<"sycophancy", 0, "j1">>>>}
MCSamples == {<<2, 0, "j1">>}

\* Operators files: rotations, retirements, reuse of a retired key or id, a row
\* of other scopes, a window that has closed, an old format.
Row(id, key, scopes) ==
  [id |-> id, key |-> key, status |-> "active", rotation |-> "auto", notAfter |-> 2,
   next |-> NoNext, scopes |-> scopes, names |-> {}, prefixes |-> {}, auth |-> {"key"}]
Svc == [Row("svc-kill", "s1", {"ledger_attribute"}) EXCEPT !.prefixes = {"kill."}]
Other == [Row("svc-del", "t1", {"ledger_attribute"}) EXCEPT !.prefixes = {"delegation."}]
Verifier == [Row("svc-verifier-gb10", "v1", {"kill", "revive", "revoke", "mint"}) EXCEPT !.names = {"canary"}]
Glass == [Row("don-breakglass", "b1", {"kill", "bypass_operator_list"}) EXCEPT !.rotation = "sealed", !.notAfter = Never]
Don(key) == [Row("don", key, {"*"}) EXCEPT !.names = {"Don"}]
Rotating == [Don("k1") EXCEPT !.notAfter = 1, !.next = [key |-> "k2", from |-> 1, to |-> 2]]
Doc(generation, rows) == [format |-> 2, generation |-> generation, rows |-> rows]
MCDocuments ==
  {Doc(1, <<Don("k1"), Svc, Other, Verifier, Glass>>),
   Doc(2, <<Rotating, Svc, Verifier>>),
   Doc(3, <<Don("k2"), Svc, Verifier>>),
   Doc(3, <<Don("k1"), Svc>>),
   Doc(4, <<Don("k1"), Svc, Glass>>),
   Doc(4, <<Don("k2"), [Row("mallory", "k1", {"*"}) EXCEPT !.names = {"Don"}]>>),
   Doc(4, <<Don("k2"), Row("verifier", "v1", {"kill", "revive", "revoke", "mint"})>>),
   Doc(4, <<[Rotating EXCEPT !.next.to = 1]>>),
   [format |-> 1, generation |-> 0, rows |-> <<[Don("k1") EXCEPT !.rotation = "none", !.notAfter = Never]>>]}
MCCallers ==
  {[op |-> "don", key |-> "k1"], [op |-> "don", key |-> "k2"], [op |-> "mallory", key |-> "k1"],
   [op |-> "svc-verifier-gb10", key |-> "v1"], [op |-> "verifier", key |-> "v1"],
   [op |-> "don-breakglass", key |-> "b1"], [op |-> "svc-del", key |-> "t1"], [op |-> "none", key |-> "k1"]}
MCManifests ==
  [kind : {"list"}, names : {{}, {"Don"}, {"canary"}}] \cup [kind : {"no_ref", "unreadable"}, names : {{}}]
MCServiceOf == [s \in {"kill"} |-> [id |-> "svc-kill", key |-> "s1", type |-> "kill."]]

\* Three versions of the file; or two requests; or one of each; or a restart.
Armed(ledgerMode, killMode) == [p \in Procs |-> IF p = "ledger" THEN ledgerMode ELSE killMode]
Scene(modes, puts, requests, restarts) ==
  [armed |-> modes, left |-> [puts |-> puts, requests |-> requests, restarts |-> restarts]]
MCScenes ==
  {Scene(Armed("off", "enforce"), 3, 0, 0), Scene(Armed("enforce", "enforce"), 0, 2, 0),
   Scene(Armed("enforce", "enforce"), 1, 1, 0), Scene(Armed("enforce", "log-only"), 0, 1, 1)}

\* A counterparty spelled in two ways, and one whose name contains the first's.
MCNormal == ("Acme" :> "acme") @@ ("ACME" :> "acme") @@ ("Acme Bank" :> "acme bank") @@ ("Home" :> "home")
MCInside == {<<"acme", "acme">>, <<"acme", "acme bank">>, <<"acme bank", "acme bank">>, <<"home", "home">>}
Offer(org, scopes, key, active) ==
  [org |-> org, scopes |-> scopes, classes |-> {"d"}, key |-> key, active |-> active]
MCOffers == {Offer("Acme", {"s", "t"}, "k1", TRUE), Offer("Acme Bank", {"s"}, "none", TRUE)}
Empty == [i \in Ids |-> NoContract]
MCStoredRows ==
  {Empty, [Empty EXCEPT ![1] = Offer("Acme", {"s"}, "k1", TRUE), ![2] = Offer("ACME", {"t"}, "junk", TRUE)]}
Inbound(signed, scope) ==
  [direction |-> "inbound", org |-> "Acme", valid |-> TRUE, federates |-> TRUE, peers |-> {"Home"},
   signed |-> signed, scope |-> scope, class |-> "d"]
MCCrossings ==
  {Inbound("k1", "s"), Inbound("none", "s"),
   [Inbound("none", "s") EXCEPT !.direction = "outbound", !.peers = {"Acme Bank"}],
   [Inbound("none", "t") EXCEPT !.direction = "outbound", !.peers = {"Home"}]}

MCRosters == {SweepMissing, Malformed, {"bob"}}
MCSweepBudget == [time |-> 2, edits |-> 2, faults |-> 1]
MCSweepScopes == {{"sweep"}, {"sweep", "sweep_kill"}}

MCHaltBudgets ==
  {[revive |-> 1, checkin |-> 1, restart |-> 0], [revive |-> 1, checkin |-> 0, restart |-> 1]}

MCProofs == {<<"alerts", "b1">>, <<"G22", "b1">>, <<"G21", NoSha>>}
MCStageBudget == [fault |-> 2, row |-> 1, ack |-> 1, run |-> 4]

MCWatchBudget == [kill |-> 2, revive |-> 1, die |-> 2, write |-> 1, halt |-> 1]

Manifest(valid, owner, cap, limits) == [valid |-> valid, owner |-> owner, cap |-> cap, limits |-> limits]
MCProvisionManifests ==
  {Manifest(TRUE, "ann", "c1", "l1"), Manifest(TRUE, "bob", "c2", "none"),
   Manifest(TRUE, "ann", "none", "none"), Manifest(FALSE, "bob", "c1", "l1")}

Asks(scope, policy, ceiling) == [scope |-> scope, policy |-> policy, ceiling |-> ceiling, capDeclared |-> ~ceiling]
MCRequests ==
  {Asks("exact", "none", TRUE), Asks("exact", "ESCALATE", FALSE), Asks("near", "none", FALSE),
   Asks("injected", "none", FALSE), Asks("far", "none", TRUE)}

-----------------------------------------------------------------------------
(* One part moves *)

Init ==
  /\ part \in Parts
  /\ IF part = "gateway" THEN GatewayInit
     ELSE /\ posture = Idle /\ db = Idle /\ mem = Idle /\ call = Idle /\ stopped = Idle /\ drifted = Idle
          /\ metered = Idle /\ shared = Idle /\ gfaults = Idle /\ gcrashes = Idle
  /\ IF part = "operators" THEN OperatorsInit
     ELSE /\ operatorDisk = Idle /\ operatorClock = Idle /\ armed = Idle /\ memory = Idle /\ newest = Idle
          /\ gone = Idle /\ glass = Idle /\ req = Idle /\ tally = Idle /\ trail = Idle /\ proved = Idle
          /\ left = Idle
  /\ FederationInit /\ (part # "federation" => contract = Empty)
  /\ SweepInit /\ (part # "sweep" => roster = SweepMissing)
  /\ IF part = "halting" THEN HaltInit
     ELSE /\ status = Idle /\ killedFor = Idle /\ endpoint = Idle /\ aliveAge = Idle /\ thread = Idle
          /\ kill = Idle /\ seen = Idle /\ checkedIn = Idle /\ canary = Idle /\ hbudget = Idle
  /\ IF part = "console" THEN ConsoleInit
     ELSE /\ reg = Idle /\ request = Idle /\ touched = Idle /\ stream = Idle /\ openStreams = Idle
          /\ consoleEdits = Idle /\ consoleFaults = Idle
  /\ StagesInit
  /\ IF part = "watcher" THEN WatcherInit
     ELSE /\ killed = Idle /\ watchKilledFor = Idle /\ sentinel = Idle /\ halted = Idle /\ stampAge = Idle
          /\ watch = Idle /\ wbudget = Idle
  /\ IF part = "provision" THEN ProvisionInit
     ELSE /\ record = Idle /\ governed = Idle /\ tokens = Idle /\ run = Idle /\ pleft = Idle
  /\ IF part = "verdicts" THEN VerdictInit
     ELSE /\ mode = Idle /\ judging = Idle /\ estate = Idle /\ check = Idle /\ ledger = Idle
          /\ dropped = Idle /\ actions = Idle /\ checkUsage = Idle /\ ran = Idle /\ verdictFaults = Idle
          /\ changes = Idle
  /\ IF part = "scorecard" THEN ScoreInit
     ELSE /\ est = Idle /\ score = Idle /\ scoreChanges = Idle /\ scoreFaults = Idle

Next ==
  /\ UNCHANGED part
  /\ IF part = "gateway" THEN GatewayNext ELSE UNCHANGED gatewayVars
  /\ IF part = "operators" THEN OperatorsNext ELSE UNCHANGED operatorVars
  /\ IF part = "federation" THEN FederationNext ELSE UNCHANGED federationVars
  /\ IF part = "sweep" THEN SweepNext ELSE UNCHANGED sweepVars
  /\ IF part = "halting" THEN HaltNext ELSE UNCHANGED haltVars
  /\ IF part = "console" THEN ConsoleNext ELSE UNCHANGED consoleVars
  /\ IF part = "stages" THEN StagesNext ELSE UNCHANGED stagesVars
  /\ IF part = "watcher" THEN WatcherNext ELSE UNCHANGED watcherVars
  /\ IF part = "provision" THEN ProvisionNext ELSE UNCHANGED provisionVars
  /\ IF part = "verdicts" THEN VerdictNext ELSE UNCHANGED verdictVars
  /\ IF part = "scorecard" THEN ScoreNext ELSE UNCHANGED scoreVars

Vars ==
  <<part, gatewayVars, operatorVars, federationVars, sweepVars, haltVars, consoleVars,
    stagesVars, watcherVars, provisionVars, verdictVars, scoreVars>>
Spec == Init /\ [][Next]_Vars

-----------------------------------------------------------------------------
(* What the parts owe, by theme *)

\* force-gateway: no provider call goes out without what the posture asks for,
\* and a restart leaves windows, baselines and cooldowns as they were.
GatewaySound == part = "gateway" => EgressHeldClosed /\ RestartChangesNothing

\* field_core.operator_auth: the newest good file rules every service of the
\* estate, no reuse or edit of a row widens what a key may do, and what is
\* refused or attributed is accounted for.
OperatorsSound ==
  part = "operators" =>
    NewestFileRules /\ NewestFileWorks /\ ListsBind /\ AttributionGenuine /\ RefusalsAccounted

\* field-agent SDK, kill-switch, ops-console and the kill watcher: a kill gets to
\* the gate in time, signals go only where they may, and "all ok" means stopped.
StopsSound ==
  /\ part = "halting" => GateHeedsKill /\ SignalsSound
  /\ part = "console" => AllOkMeansStopped
  /\ part = "watcher" => KillReachesGate

\* conformance-sentinel: each check meters and ledgers what it answers, in
\* either mode, and a scorecard is worth what it says.
ChecksSound ==
  /\ part = "verdicts" => CheckSound
  /\ part = "scorecard" => ScoreSound

\* federation-broker and lifecycle-manager: a crossing rests on a contract that
\* backs it, a report is whole, an agent is provisioned under its own limits.
EstateSound ==
  /\ part = "federation" => CrossingBacked
  /\ part = "sweep" => LastReportWhole
  /\ part = "provision" => ProvisionSafe

\* What a step may never do: the sweep kills orphans only and reports what is
\* stale, duplicate contracts only get fewer, a stage starts from a settled run.
StepsSound == KillsOrphansOnly /\ StaleReported /\ DuplicatesOnlyShrink /\ StartsFromSettled
=============================================================================
