------------------------------ MODULE MCMetering ------------------------------
(* Bounds of the run on the spend governor and the metering of checks: what *)
(* three requests ask for, and what the database holds when they arrive.   *)
EXTENDS Metering

CONSTANTS r1, r2, r3, act, known, unknown, alice, bob

daily == [cents |-> 4, tokens |-> 5, actions |-> 3, pct |-> 60, daily |-> TRUE]
total == [cents |-> 0, tokens |-> 3, actions |-> 0, pct |-> 100, daily |-> FALSE]
rates == {[action |-> act, max |-> 2, secs |-> 1], [action |-> act, max |-> 2, secs |-> 0]}
burst == [limit |-> 3, secs |-> 1, models |-> {}]
allowlist == [limit |-> 0, secs |-> 1, models |-> {unknown}]
past(source) == [id |-> Past, ts |-> 0, cents |-> 0, tokens |-> 0, actions |-> 1,
                    action |-> act, source |-> source]

MCAsks ==
  [r \in {r1, r2, r3} |->
    CASE r = r1 ->
           {[op |-> "cap", cap |-> total],
            [op |-> "rates", set |-> rates],
            [op |-> "policy", policy |-> allowlist],
            [op |-> "usage", model |-> unknown, tokens |-> 1, units |-> 3],
            [op |-> "spend", cents |-> 3, tokens |-> 1, actions |-> 1, action |-> act,
             source |-> "self"],
            [op |-> "check", action |-> act, ceiling |-> 0]}
      [] r = r2 ->
           {[op |-> "spend", cents |-> 3, tokens |-> 2, actions |-> 1, action |-> "none",
             source |-> "self"],
            [op |-> "spend", cents |-> 0, tokens |-> 0, actions |-> 2, action |-> act,
             source |-> "sentinel"],
            [op |-> "usage", model |-> known, tokens |-> 3, units |-> 3],
            [op |-> "check", action |-> act, ceiling |-> 3],
            [op |-> "status", action |-> act],
            [op |-> "resolve", human |-> alice]}
      [] OTHER ->
           {[op |-> "resolve", human |-> bob]}]

MCCaps == {NoCap, daily}
MCLimits == {rates}
MCPolicies == {burst}
MCSpend == {{past("self"), past("sentinel")}}

\* What was spent before is heeded: a breach of a cap is seen once it is recorded, and
\* an allowed check heeded what had been recorded when it began.
SpendHeeded == BreachSeen /\ AllowHeedsSpend
===============================================================================
