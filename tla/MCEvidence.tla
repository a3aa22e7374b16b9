------------------------------- MODULE MCEvidence -------------------------------
(***************************************************************************)
(* Small instances of the parts that keep and show evidence: witnesses and  *)
(* anchors, bundles, signed appends, the ledger's commands, incident        *)
(* reports, board packs and the regulatory corpus.  They share nothing, so  *)
(* a behaviour studies one of them (part); the variables of the others are  *)
(* Idle, or stay in one initial state.                                      *)
(***************************************************************************)
EXTENDS Witness, Bundle, Sealing, LedgerCli, Replay, BoardPack, Regwatch, TLC

CONSTANTS
  Parts,             \* the parts a run studies
  c1, c2, k1, k2     \* appends, commands, agents and grants; the keys of callers

VARIABLE part

Idle == "idle"

\* Appends, commands, agents and grants are alike, and so are keys.
Alike == Permutations({c1, c2}) \cup Permutations({k1, k2})

-----------------------------------------------------------------------------
(* Instances *)

\* Two estates witness each other; or a check crosses their ticks; or one is
\* anchored to a file by overlapping runs.
MCWitnessBudgets ==
  {[restore |-> 1, archive |-> 1, key |-> 0, tick |-> 2, check |-> 0, anchor |-> 0],
   [restore |-> 0, archive |-> 0, key |-> 0, tick |-> 2, check |-> 1, anchor |-> 0],
   [restore |-> 0, archive |-> 0, key |-> 1, tick |-> 1, check |-> 1, anchor |-> 0],
   [restore |-> 1, archive |-> 1, key |-> 0, tick |-> 0, check |-> 0, anchor |-> 2]}

MCSettings ==
  {[keyring |-> TRUE, requireSigning |-> r, requireCaller |-> r] : r \in BOOLEAN}
    \cup {[keyring |-> FALSE, requireSigning |-> FALSE, requireCaller |-> TRUE]}

MCOrders ==
  {[verb |-> "rotate", served |-> s, anchors |-> s] : s \in BOOLEAN}
    \cup {[verb |-> v, served |-> v # "release"] : v \in {"place", "release", "apply"}}
    \cup {[verb |-> "verify", dir |-> d, seg |-> n] : d \in {"live", "archive"}, n \in {1, 2}}

MCWindows == {[since |-> 1, until |-> 9], [since |-> 2, until |-> 9]}

MCPackRequests ==
  [period : {FALSE}, since : {Open, 2}, until : {Open, 2}] \cup
  {[period |-> TRUE, since |-> Open, until |-> Open], [period |-> TRUE, since |-> 1, until |-> Open]}
MCQuarter == [since |-> 2, until |-> 3]
MCWritten ==
  {[kind |-> "allow", agent |-> "a1"], [kind |-> "allow", agent |-> "canary"],
   [kind |-> "shadow", agent |-> "a1"], [kind |-> "due", agent |-> "a1"]}

MCTiers == [f \in Frameworks |-> IF f = "eu" THEN <<{"elu"}, {"mir"}>> ELSE <<{"osfi"}>>]

-----------------------------------------------------------------------------
(* One part moves *)

Init ==
  /\ part \in Parts
  /\ WitnessInit /\ (part # "witness" => /\ secretFile /\ keyFile = "k1" /\ wleft.tick = 0)
  /\ IF part = "bundle" THEN BundleInit
     ELSE /\ chain = Idle /\ segments = Idle /\ archived = Idle /\ export = Idle /\ bundle = Idle
          /\ copy = Idle /\ damage = Idle
  /\ IF part = "sealing" THEN SealingInit
     ELSE /\ signFile = Idle /\ config = Idle /\ keyring = Idle /\ cache = Idle /\ append = Idle
          /\ sealChain = Idle /\ verify = Idle /\ sealChanges = Idle
  /\ IF part = "ledgercli" THEN CliInit
     ELSE /\ at = Idle /\ bytes = Idle /\ digest = Idle /\ sidecars = Idle /\ hold = Idle
          /\ holdEvents = Idle /\ named = Idle /\ offbox = Idle /\ lock = Idle /\ cmd = Idle
          /\ cliFaults = Idle /\ cliEdits = Idle
  /\ IF part = "replay" THEN ReplayInit
     ELSE /\ clock = Idle /\ replayEvents = Idle /\ replayArchived = Idle /\ grant = Idle /\ report = Idle
          /\ replayLate = Idle /\ replayFaults = Idle
  /\ IF part = "boardpack" THEN PackInit
     ELSE /\ events = Idle /\ packArchived = Idle /\ pack = Idle /\ waits = Idle /\ packFaults = Idle
  /\ IF part = "packfile" THEN FileInit
     ELSE /\ packs = Idle /\ served = Idle /\ file = Idle /\ fileTmp = Idle /\ fileRun = Idle
          /\ issued = Idle /\ torn = Idle /\ fileFaults = Idle /\ edits = Idle
  /\ RegwatchInit /\ (part # "regwatch" => page = [u \in Urls |-> "v1"])

Next ==
  /\ UNCHANGED part
  /\ IF part = "witness" THEN WitnessNext ELSE UNCHANGED witnessVars
  /\ IF part = "bundle" THEN BundleNext ELSE UNCHANGED bundleVars
  /\ IF part = "sealing" THEN SealingNext ELSE UNCHANGED sealingVars
  /\ IF part = "ledgercli" THEN CliNext ELSE UNCHANGED cliVars
  /\ IF part = "replay" THEN ReplayNext ELSE UNCHANGED replayVars
  /\ IF part = "boardpack" THEN PackNext ELSE UNCHANGED packVars
  /\ IF part = "packfile" THEN FileNext ELSE UNCHANGED fileVars
  /\ IF part = "regwatch" THEN RegwatchNext ELSE UNCHANGED regwatchVars

Vars ==
  <<part, witnessVars, bundleVars, sealingVars, cliVars, replayVars, packVars, fileVars,
    regwatchVars>>
Spec == Init /\ [][Next]_Vars

-----------------------------------------------------------------------------
(* What the parts owe, by theme *)

\* sealed-ledger: a fresh bundle verifies and a verified one is whole, a signed
\* claim is genuine, and a stop is appended whatever its claim is worth.
EvidenceSound ==
  /\ part = "bundle" => FreshVerifies /\ VerifiedIsWhole
  /\ part = "sealing" => ClaimsGenuine /\ StopsLand

\* sealed-ledger, command line: no alarm without a loss, and what a command tells
\* its operator is what it did.
OperatorsToldTrue ==
  /\ part = "witness" => NoFalseAlarm
  /\ part = "ledgercli" => CliTruthful

\* incident-replay, attestation-reporter and compliance-crosswalk: a report says
\* what it left out, blames what stood at the time, adds up, is published whole,
\* and the corpus only holds what a named person reviewed.
ReportsSound ==
  /\ part = "replay" => ReportComplete /\ BlameFits
  /\ part = "boardpack" => PackSound
  /\ part = "packfile" => PackFileSound
  /\ part = "regwatch" => CorpusReviewed

\* What a step may never do: make a loss that was witnessed look well again, or
\* drop a flag or a review.
NothingForgotten == LossNeverHeals /\ ReviewsKept
=============================================================================
