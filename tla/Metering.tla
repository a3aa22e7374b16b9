------------------------------- MODULE Metering -------------------------------
(***************************************************************************)
(* The sentinel beside the governor: step 8 of a check reads the spend     *)
(* status and the token's ceiling, an ALLOW is recorded in the ledger and  *)
(* then metered as one action, each in a call of its own.  The other steps *)
(* of a check are in Authority.                                            *)
(***************************************************************************)
EXTENDS SpendGovernor

Refuse(r) == Finish(r, FALSE)

\* GET /status: unreachable is a BLOCK.
CheckStatus(r) ==
  /\ rq[r].pc = "check"
  /\ \/ Fault /\ Refuse(r) /\ UNCHANGED clock
     \/ /\ \E t \in clock..MaxClock :
             /\ clock' = t
             /\ Become(r, [rq[r] EXCEPT !.pc = "st_cap", !.now = t,
                                        !.base = [money |-> spend, use |-> usage, at |-> t]])
        /\ UNCHANGED faults
  /\ UNCHANGED <<store, ledger, dropped>>

\* No cap: escalated if the manifest declares one or the token has a ceiling.
CheckNoCap(r) ==
  /\ rq[r].pc = "check_nocap"
  /\ \/ Reads(r, Finished(rq[r], FALSE))
     \/ rq[r].body.ceiling = 0 /\ Reads(r, [rq[r] EXCEPT !.pc = "check_allow"])

\* Faulty variant: only a cap that is reached stops the action.
DecidedOnCap(q) == IF Verdict(q) = "BLOCK" THEN Finished(q, FALSE) ELSE [q EXCEPT !.pc = "check_allow"]
Decided(q) == IF Verdict(q) = "OK" THEN [q EXCEPT !.pc = "check_allow"] ELSE Finished(q, FALSE)
CheckVerdict(r) ==
  /\ rq[r].pc = "check_verdict"
  /\ Reads(r, IF rq[r].state = "BLOCK" \/ rq[r].body.ceiling = 0 THEN Decided(rq[r])
              ELSE [rq[r] EXCEPT !.pc = "ceiling"])

\* _token_ceiling: GET /totals since the token was issued (here before all rows),
\* read by read; without an answer the action is refused.
CeilingTotals(r) ==
  /\ rq[r].pc = "ceiling"
  /\ \/ Fault /\ Refuse(r)
     \/ Become(r, [rq[r] EXCEPT !.pc = "ceiling_usage", !.money = spend]) /\ UNCHANGED faults
  /\ UNCHANGED <<store, clock, ledger, dropped>>
CeilingUsage(r) ==
  /\ rq[r].pc = "ceiling_usage"
  /\ LET q == [rq[r] EXCEPT !.money = {}]
     IN Reads(r, IF Cents(rq[r].money, usage) >= q.body.ceiling THEN Finished(q, FALSE)
                 ELSE Decided(q))

\* The ALLOW is answered only with its event in the ledger.
CheckAllow(r) ==
  /\ rq[r].pc = "check_allow"
  /\ LET e == Event("conformance.allow", <<r>>, "none")
     IN \/ /\ ledger' = ledger \union {e} /\ UNCHANGED faults
           /\ IF rq[r].cap = NoCap THEN Finish(r, TRUE) ELSE Goto(r, "meter")
        \/ Fault /\ ledger' \in {ledger, ledger \union {e}} /\ Refuse(r)
  /\ UNCHANGED <<store, clock, dropped>>

\* Faulty variant: a metering call that failed is nobody's business.
MeterSwallowed(r) ==
  /\ rq[r].pc = "meter"
  /\ \/ Become(r, [rq[r] EXCEPT !.pc = "spend", !.metering = TRUE, !.exh = {}]) /\ UNCHANGED faults
     \/ Fault /\ Finish(r, TRUE)
  /\ UNCHANGED <<store, clock, ledger, dropped>>
\* _meter: POST /spend, best effort; it may not arrive, or be given up on while
\* the governor goes on with it (the gap is then noted when it has).
Meter(r) ==
  /\ rq[r].pc = "meter"
  /\ \/ Become(r, [rq[r] EXCEPT !.pc = "spend", !.metering = TRUE, !.exh = {}]) /\ UNCHANGED faults
     \/ Fault /\ Become(r, [rq[r] EXCEPT !.pc = "gap_note", !.gap = TRUE])
  /\ UNCHANGED <<store, clock, ledger, dropped>>
MeterTimeout(r) ==
  /\ rq[r].metering /\ ~rq[r].gap
  /\ Fault
  /\ Become(r, [rq[r] EXCEPT !.gap = TRUE])
  /\ UNCHANGED <<store, clock, ledger, dropped>>
\* The outage that cost the metering may cost its note too.
GapNote(r) ==
  /\ rq[r].pc = "gap_note"
  /\ LET e == Event("sentinel.metering_gap", <<r>>, "none")
     IN \/ ledger' = ledger \union {e} /\ UNCHANGED dropped
        \/ ledger' \in {ledger, ledger \union {e}} /\ dropped' = dropped \union {"sentinel"}
  /\ Become(r, Finished([rq[r] EXCEPT !.gap = FALSE], TRUE))
  /\ UNCHANGED <<store, clock, faults>>

CheckStep(r) ==
  \/ CheckStatus(r) \/ CheckNoCap(r) \/ CheckVerdict(r) \/ CeilingTotals(r) \/ CeilingUsage(r)
  \/ CheckAllow(r) \/ Meter(r) \/ MeterTimeout(r) \/ GapNote(r)

Next == \E r \in Req : GovernorStep(r) \/ CheckStep(r)

Spec == Init /\ [][Next]_gvars

-----------------------------------------------------------------------------
(* Correctness.                                                            *)

Label == {"done", "cap", "policy", "rates", "rates_write", "rates_back", "rates_note",
          "status", "st_cap", "st_totals", "st_usage", "st_actions", "st_open", "st_rates",
          "st_window", "st_policy", "st_tokens", "resolve", "resolve_note", "spend", "record",
          "record_note", "outcome", "escalate_note", "block_note", "usage", "usage_record",
          "usage_note", "usage_policy", "usage_window", "usage_rogue", "rogue_note", "usage_end",
          "check", "check_nocap", "check_verdict", "ceiling", "ceiling_usage", "check_allow",
          "meter", "gap_note"}
EscalationKind == Kinds \union Rogue
EscalationId == Req \X EscalationKind
Frame == [body : Body \union {NoBody}, pc : Label, now : Nat, cap : Cap \union {NoCap},
          policy : Policy, money : SUBSET SpendRow, use : SUBSET UsageRow, acts : SUBSET SpendRow,
          todo : SUBSET Limit, rogue : SUBSET Rogue, exh : SUBSET Window,
          state : {"OK", "ESCALATE", "BLOCK"}, kind : Null(EscalationKind),
          esc : EscalationId \union {<<>>}, metering : BOOLEAN, gap : BOOLEAN, ret : BOOLEAN,
          base : [money : SUBSET SpendRow, use : SUBSET UsageRow, at : Nat]]

\* Every variable keeps its type.
GovernorTypeOK ==
  /\ cap \in Cap \union {NoCap} /\ limits \subseteq Limit /\ policy \in Policy
  /\ spend \subseteq SpendRow /\ usage \subseteq UsageRow
  /\ esc \subseteq [id : EscalationId, kind : EscalationKind, by : Null(Humans)]
  /\ clock \in Nat
  /\ rq \in [Req -> Frame]
  /\ dropped \subseteq {"governor", "sentinel"}
  /\ faults \in Nat

\* However many requests cross a threshold together, there is one open escalation
\* of a kind (add_escalation_if_none_open).
OneOpen == \A e, f \in esc : e.kind = f.kind /\ e.by = "none" /\ f.by = "none" => e = f

\* An escalation never goes away, and the human of record never changes
\* (resolve_escalation_once).
FirstResolverWins ==
  [][\A e \in esc : \E f \in esc' : f.id = e.id /\ f.kind = e.kind
                                      /\ (e.by # "none" => f.by = e.by)]_gvars

\* Every escalation is in the ledger, and every resolution with the one human of
\* record, unless its handler is just about to note it or a note was lost and
\* counted.  Nobody else is named as its resolver.
AboutTo(label, id) == \E r \in Req : rq[r].pc \in label /\
                         id = IF rq[r].pc = "resolve_note" THEN rq[r].esc ELSE <<r, rq[r].kind>>
EscalationsLedgered ==
  /\ \A e \in esc :
       /\ \/ \E n \in ledger : n.type \in {"spend.escalate", "usage.rogue"} /\ n.about = e.id
          \/ AboutTo({"escalate_note", "rogue_note"}, e.id) \/ dropped # {}
       /\ e.by # "none" =>
            \/ Event("spend.escalation_resolved", e.id, e.by) \in ledger
            \/ AboutTo({"resolve_note"}, e.id) \/ dropped # {}
  /\ \A n \in ledger : n.type = "spend.escalation_resolved" =>
       \E e \in esc : e.id = n.about /\ e.by = n.by

\* Nobody changed what the agent may spend.
NoPut == \A r \in Req : rq[r].body.op \notin {"cap", "rates", "policy"}
Quiet == \A r \in Req : rq[r].pc = "done"

\* A cap that has been reached, by however many requests at once, was seen by one
\* of them: it recorded before it looked, and noted it in the same window.
BreachSeen ==
  Quiet /\ NoPut /\ cap # NoCap =>
    LET start == WindowStart(cap, clock)
        money == {x \in spend : x.ts >= start}
        use == {x \in usage : x.ts >= start}
    IN Evaluate(cap, Spent(money, use, money), FALSE).state = "BLOCK" =>
         \/ dropped # {}
         \/ \E r \in Req : /\ Event("spend.cap_reached", <<r>>, "none") \in ledger
                           /\ rq[r].now >= start

\* A check that is allowed heeded all that had been recorded when the governor took it up: it was
\* below every threshold of the cap, below the token's ceiling, and metered rows
\* did not fill a window of its action.  What overshoots was in flight with it.
Allowed(r) == rq[r].body.op = "check" /\ rq[r].pc = "done" /\ rq[r].ret
AllowHeedsSpend ==
  \A r \in Req :
    Allowed(r) /\ NoPut /\ cap # NoCap =>
      LET q == rq[r]
          money == {x \in q.base.money : x.ts >= WindowStart(cap, q.base.at)}
          use == {x \in q.base.use : x.ts >= WindowStart(cap, q.base.at)}
      IN /\ Evaluate(cap, Spent(money, use, money), FALSE).state = "OK"
         /\ q.body.ceiling # 0 => Cents(q.base.money, q.base.use) < q.body.ceiling
         /\ \A l \in limits : l.action = q.body.action /\ l.secs # 0 =>
              MapThenSumSet(LAMBDA x : x.actions,
                            {x \in q.base.money : x.action = l.action /\ x.source = "sentinel"
                                                  /\ x.ts > q.base.at - l.secs * Second}) < l.max

\* An allowed action is metered, or the ledger has the gap, or lost it and counted
\* that, or there was no cap to meter it against.
AllowsMetered ==
  \A r \in Req :
    Allowed(r) => \/ \E x \in spend : x.id = r
                  \/ Event("sentinel.metering_gap", <<r>>, "none") \in ledger
                  \/ "sentinel" \in dropped
                  \/ rq[r].cap = NoCap

\* What is spent leaves its trail: every escalation, every resolution and every allowed
\* action is in the ledger or metered, or its loss was counted.
SpendLedgered == GovernorTypeOK /\ EscalationsLedgered /\ AllowsMetered

\* The wait a throttled caller is told is exact for the rows that were counted:
\* after it the window has room, a second earlier it had not.
Left(rows, w, t) == Count({x \in rows : x.ts + w.secs * Second > t})
RetryExact ==
  \A r \in Req : rq[r].pc = "done" /\ rq[r].state # "BLOCK" =>
    \A w \in rq[r].exh :
      LET wait == RetryAfter(w, rq[r].now)
          rows == WindowRows(w.rows)
      IN /\ Left(rows, w, rq[r].now + wait * Second) < w.max
         /\ Left(rows, w, rq[r].now + (wait - 1) * Second) >= w.max

-----------------------------------------------------------------------------
(* What SpendLedgered rests on, for the proofs.                            *)

Reading == {"st_cap", "st_totals", "st_usage", "st_actions", "st_open", "st_rates", "st_window",
            "st_policy", "st_tokens"}
Recorded == {"outcome", "escalate_note", "block_note"}
Deciding == {"check", "check_nocap", "check_verdict", "ceiling", "ceiling_usage", "check_allow",
             "meter"}
\* Where a handler of each operation may be.
Path(op) ==
  CASE op \in {"cap", "policy"} -> {op, "done"}
    [] op = "rates" -> {"rates", "rates_write", "rates_back", "rates_note", "done"}
    [] op = "status" -> {"status", "done"} \union Reading
    [] op = "resolve" -> {"resolve", "resolve_note", "done"}
    [] op = "spend" -> {"spend", "record", "record_note", "done"} \union Reading \union Recorded
    [] op = "usage" -> {"usage", "usage_record", "usage_note", "usage_policy", "usage_window",
                        "usage_rogue", "rogue_note", "usage_end", "block_note", "done"} \union Reading
    [] OTHER -> {"spend", "record", "gap_note", "done"} \union Deciding \union Reading \union Recorded

\* A metering call is under way only for a check, after its ALLOW and under a cap, and
\* has recorded its row before it looks at the cap.
MeterInv(r) ==
  LET q == rq[r]
  IN /\ q.body \in Body /\ q.pc \in Path(q.body.op)
     /\ q.metering \/ q.gap => q.body.op = "check" /\ q.pc \notin Deciding /\ q.pc # "done"
     /\ q.body.op = "check" /\ q.pc \in {"spend", "record"} \union Recorded => q.metering
     /\ q.pc = "gap_note" => q.gap
     /\ q.gap => q.metering \/ q.pc = "gap_note"
     /\ q.metering /\ q.pc \in Reading \union Recorded => \E x \in spend : x.id = r
     /\ q.pc = "meter" \/ q.metering => cap # NoCap
     /\ q.cap # NoCap => cap # NoCap

\* Where a request may be that has opened an escalation, of a kind it has not to open.
OpenedBy(e, r) ==
  LET q == rq[r]
  IN \/ q.body.op \in {"spend", "check"} /\ q.pc \in {"escalate_note", "gap_note", "done"}
     \/ /\ q.body.op = "usage" /\ e.kind \notin q.rogue
        /\ q.pc \notin {"usage", "usage_record", "usage_note", "usage_policy", "usage_window"}
QueueTold ==
  /\ \A e, f \in esc : e.id = f.id => e = f
  /\ \A e \in esc : e.id = <<e.id[1], e.kind>> /\ OpenedBy(e, e.id[1])
  /\ \A r \in Req : rq[r].pc = "usage_rogue" => rq[r].rogue # {}
  /\ \A r \in Req : rq[r].pc = "resolve_note" =>
       \E e \in esc : e.id = rq[r].esc /\ e.by = rq[r].body.human
  /\ \A n \in ledger : n.type = "spend.escalation_resolved" => n.by # "none"

SpendInv == SpendLedgered /\ (\A r \in Req : MeterInv(r)) /\ QueueTold
=============================================================================
