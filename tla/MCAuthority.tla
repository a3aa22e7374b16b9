------------------------------ MODULE MCAuthority ------------------------------
(* Authority on small instances: which requests overlap in each run.        *)
EXTENDS Authority, TLC

CONSTANTS r1, r2, r3

\* One request that stops an agent, one that may restart or extend it, a check or
\* a second stop.
StopsAndChecks ==
  (r1 :> {"decommission", "domain"}) @@ (r2 :> {"revive", "drill", "mint", "edit", "attest"})
    @@ (r3 :> {"check", "kill", "revoke"})
\* Revokes of one token by several callers, beside a mint.
Revokes == (r1 :> {"revoke"}) @@ (r2 :> {"mint", "revoke"})
             @@ (r3 :> {"revoke", "check"})
\* A kill, a drill and a check.
KillDrillCheck == (r1 :> {"kill"}) @@ (r2 :> {"drill"}) @@ (r3 :> {"check"})
=============================================================================
