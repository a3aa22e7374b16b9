----------------------------- MODULE MCOperations -----------------------------
(***************************************************************************)
(* Small instances of the parts that operate the estate and have to get    *)
(* somewhere: credentials that are renewed and rotated, asks, alerts and   *)
(* notices that are answered, and the lanes every request waits in.  They  *)
(* share nothing, so a behaviour studies one of them (part) and leaves the *)
(* others at rest in an initial state.                                     *)
(***************************************************************************)
EXTENDS Approver, Observer, Rotation, Renewal, Alerts, Lanes, TLC

CONSTANT Parts      \* the parts a run studies
VARIABLE part

-----------------------------------------------------------------------------
(* Instances *)

Turn(asked, custom, named, ahead) == [asked |-> asked, custom |-> custom, named |-> named, ahead |-> ahead]
MCApproverScenes ==
  {[turns |-> 1, faults |-> 1, shapes |-> {Turn({"a1"}, FALSE, TRUE, TRUE)}],
   [turns |-> 1, faults |-> 0, shapes |-> {Turn({"a1", "a2"}, FALSE, TRUE, TRUE)}],
   [turns |-> 2, faults |-> 0, shapes |-> {Turn({"a1"}, FALSE, FALSE, TRUE), Turn({"a2"}, TRUE, TRUE, FALSE)}]}

MCFiles == {[sha |-> "a", generation |-> 1], [sha |-> "b", generation |-> 2]}
MCObserverBudgets ==
  {[changes |-> 2, failures |-> 1, restarts |-> 0], [changes |-> 1, failures |-> 1, restarts |-> 1]}

MCScopes == {{MintKind, WriteKind, RevokeKind}, {MintKind, WriteKind}}
MCRotationBudget == [crashes |-> 2, errors |-> 1, human |-> 1]
MCRenewalBudget == [crashes |-> 1, errors |-> 2, odd |-> 1, verifies |-> 1, human |-> 1]

MCThreads == [pool |-> 1, health |-> 1, append |-> 1, read |-> 1]

-----------------------------------------------------------------------------
(* One part moves *)

Init ==
  /\ part \in Parts
  /\ ApproverInit /\ ObserverInit /\ RotationInit /\ RenewalInit /\ AlertsInit /\ LanesInit
  \* One initial state of each is enough for those that rest.
  /\ part # "observer" =>
       /\ oleft = CHOOSE b \in ObserverBudgets : TRUE
       /\ health = [s \in Watched |-> [mode |-> "off", file |-> CHOOSE f \in Files : TRUE, glass |-> 0,
                                  retired |-> 0]]
  /\ part # "approver" => aleft.faults = 1
  /\ part # "alerts" => topicFile = "long" /\ tokenFile = "token"

Next ==
  /\ UNCHANGED part
  /\ IF part = "approver" THEN ApproverNext ELSE UNCHANGED approverVars
  /\ IF part = "observer" THEN ObserverNext ELSE UNCHANGED observerVars
  /\ IF part = "rotation" THEN RotationNext ELSE UNCHANGED rotationVars
  /\ IF part = "renewal" THEN RenewalNext ELSE UNCHANGED renewalVars
  /\ IF part = "alerts" THEN AlertsNext ELSE UNCHANGED alertVars
  /\ IF part = "lanes" THEN LanesNext ELSE UNCHANGED laneVars

\* The fairness of the part that moves.
PartFairness ==
  /\ []<>(part # "approver" \/ tick.pc = "rest")
  /\ []<>(part # "approver" \/ tick.pc # "rest" \/ api.archived)
  /\ WF_observerVars(part = "observer" /\ ObserverTick)
  /\ WF_observerVars(part = "observer" /\ \E s \in Watched : ServiceBack(s))
  /\ WF_rotationVars(part = "rotation" /\ RotationStep)
  /\ WF_rotationVars(part = "rotation" /\ \E s \in RotationScopes : Resume(s))
  /\ WF_renewalVars(part = "renewal" /\ RenewalStep)
  /\ WF_renewalVars(part = "renewal" /\ RunRenewal(FALSE))
  /\ WF_renewalVars(part = "renewal" /\ PersistLate)
  /\ WF_alertVars(part = "alerts" /\ \E s \in Senders : SendStep(s))
  /\ WF_laneVars(part = "lanes" /\ \E r \in LaneRequests : QuickStep(r))
  /\ WF_laneVars(part = "lanes" /\ \E r \in LaneRequests : LeaveWriter(r))

Vars == <<part, approverVars, observerVars, rotationVars, renewalVars, alertVars, laneVars>>
Spec == Init /\ [][Next]_Vars /\ PartFairness

-----------------------------------------------------------------------------
(* What the parts owe, by theme *)

\* claude-approver: an allow heeds the stop, no ask is stranded, no usage lost.
ApproverSound == part = "approver" => AllowsHeedStop /\ NoAskStranded /\ UsageNeverLost

\* renew_token and deployment_agent: a run that ends leaves one credential that
\* serves, none astray, and never touches one it cannot tell for its own.
CredentialsSound ==
  /\ part = "rotation" => FinishedServes /\ NoStrayCredential /\ UnknownUntouched
  /\ part = "renewal" => NoOrphanToken

\* renew_token: a revocation spares what another run may still be serving with.
TokensSpared == SnapshotSpared /\ StoredTokenSpared

\* Both reach an end in spite of crashes and errors, and a renewal's end takes along the token of
\* a mint that was answered with another one's row.
CredentialsSettle ==
  RotationSettles /\ RenewalSettles /\ [](part = "renewal" => MisnamedSwept)

\* sealed-ledger observer and field_core.alerts: what was told is in the ledger,
\* and each alert is counted once, as sent, failed or suppressed.
NoticesAccounted ==
  /\ part = "observer" => MemoryIsLedgered
  /\ part = "alerts" => AlertsAccounted

\* The observer catches up with the services, and a sender comes back.
NoticesArrive == (part = "observer" => WitnessCatchesUp) /\ SendsReturn
=============================================================================
