------------------------------- MODULE Verdicts -------------------------------
(***************************************************************************)
(* services/conformance-sentinel: SentinelEngine.check in both modes, with  *)
(* the semantic judge on or off, and the @governed wrapper that runs the    *)
(* function.  Authority has enforcement alone, as the estate's stops meet  *)
(* it; here is the whole decision: each question to another service may     *)
(* fail, and the estate changes between two of them.                        *)
(***************************************************************************)
EXTENDS Naturals, Sequences, FiniteSets

CONSTANTS
  Checks,                       \* calls of a governed function
  Modes,                        \* FIELD_SENTINEL_MODE as the engine read it at its start
  Requests,                     \* [scope, policy, ceiling, capDeclared]: what is asked, and the manifest and token facts about it
  VerdictFaults, EstateChanges  \* bounds

\* The manifest's word on an action is a refusal, or there is none.
ASSUME VerdictRequests ==
  Requests \subseteq [scope : {"exact", "near", "injected", "far"}, policy : {"none", "ESCALATE", "BLOCK"},
                      ceiling : BOOLEAN, capDeclared : BOOLEAN]

VARIABLES
  mode, judging,        \* operating mode; is there a judge
  estate,               \* what the other services would answer
  check,                \* check -> where its decision stands
  ledger, dropped,      \* [type, check] recorded; best-effort appends lost, as /health counts them
  actions, checkUsage,  \* checks the governor metered; judgments it metered
  ran,                  \* checks whose function ran
  verdictFaults, changes

verdictVars == <<mode, judging, estate, check, ledger, dropped, actions, checkUsage, ran, verdictFaults, changes>>

CheckNotAsked == [pc |-> "new"]
Asked(c) == check[c].pc # "new"

VerdictInit ==
  /\ mode \in Modes /\ judging \in BOOLEAN
  /\ estate = [agent |-> "active", token |-> "active", cap |-> "ok", judgeCap |-> "ok"]
  /\ check = [c \in Checks |-> CheckNotAsked]
  /\ ledger = {} /\ dropped = {} /\ actions = {} /\ checkUsage = {} /\ ran = {}
  /\ verdictFaults = 0 /\ changes = 0

\* A kill, a revocation, a cap reached, removed or throttled, the judge's budget spent.
EstateChanges1 ==
  /\ changes < EstateChanges /\ changes' = changes + 1
  /\ \/ estate' = [estate EXCEPT !.agent = "killed"]
     \/ estate' = [estate EXCEPT !.token = "revoked"]
     \/ \E s \in {"none", "BLOCK", "THROTTLED", "ESCALATE"}: estate' = [estate EXCEPT !.cap = s]
     \/ \E s \in {"none", "BLOCK"}: estate' = [estate EXCEPT !.judgeCap = s]
  /\ UNCHANGED <<mode, judging, check, ledger, dropped, actions, checkUsage, ran, verdictFaults>>

-----------------------------------------------------------------------------
(* Moves of one check. *)

CheckGoes(c, pc) == check' = [check EXCEPT ![c].pc = pc]
Decides(c, d) == check' = [check EXCEPT ![c].pc = "verdict", ![c].decision = d]
CheckFault == verdictFaults < VerdictFaults /\ verdictFaults' = verdictFaults + 1
NoFault == UNCHANGED verdictFaults
BooksSame == UNCHANGED <<ledger, dropped, actions, checkUsage>>
Only == UNCHANGED <<mode, judging, estate, changes>>
CheckQuestion == BooksSame /\ UNCHANGED ran /\ Only

\* The function is called: what the estate held against it already is kept aside.
Call(c) ==
  /\ ~Asked(c)
  /\ \E r \in Requests:
       check' = [check EXCEPT ![c] = [pc |-> "health", req |-> r, decision |-> "ALLOW", judge |-> "none", shadowed |-> FALSE,
                                      spendRead |-> FALSE, noCap |-> FALSE, outcome |-> "none",
                                      stopped |-> estate.agent = "killed" \/ estate.token = "revoked"]]
  /\ NoFault /\ CheckQuestion

Health(c) ==
  /\ check[c].pc = "health"
  /\ \/ CheckGoes(c, "registry") /\ NoFault
     \/ Decides(c, "BLOCK") /\ CheckFault
  /\ CheckQuestion
Registry(c) ==
  /\ check[c].pc = "registry"
  /\ \/ estate.agent = "active" /\ CheckGoes(c, "token") /\ NoFault
     \/ estate.agent = "killed" /\ Decides(c, "BLOCK") /\ NoFault
     \/ Decides(c, "BLOCK") /\ CheckFault
  /\ CheckQuestion
\* The manifest is there (a missing one blocks like a missing agent); then introspection.
Token(c) ==
  /\ check[c].pc = "token"
  /\ \/ estate.token = "active" /\ CheckGoes(c, "scope") /\ NoFault
     \/ estate.token # "active" /\ Decides(c, "BLOCK") /\ NoFault
     \/ Decides(c, "BLOCK") /\ CheckFault
  /\ CheckQuestion
\* Inside both scopes, in the paraphrase neighbourhood of their intersection, or outside.
NeedsJudgment(c) == judging /\ check[c].req.scope \in {"near", "injected"}
Scope(c) ==
  /\ check[c].pc = "scope"
  /\ IF check[c].req.scope = "exact" THEN CheckGoes(c, "policy")
     ELSE IF ~NeedsJudgment(c) THEN Decides(c, "BLOCK")
     ELSE IF check[c].req.scope = "injected" THEN Decides(c, "ESCALATE")   \* injection_screen
     ELSE CheckGoes(c, "budget")
  /\ NoFault /\ CheckQuestion

\* The sentinel's own metered budget: no cap, a spent one or no answer escalates.
Budget(c) ==
  /\ check[c].pc = "budget"
  /\ \/ estate.judgeCap = "ok" /\ CheckGoes(c, "judge") /\ NoFault
     \/ estate.judgeCap # "ok" /\ Decides(c, "ESCALATE") /\ NoFault
     \/ Decides(c, "ESCALATE") /\ CheckFault
  /\ CheckQuestion
\* Unreachable, not 200 or unparseable escalates; an answer below the floor is unsure.
Judge(c) ==
  /\ check[c].pc = "judge"
  /\ \/ \E v \in {"conforms", "outside", "unsure"}: check' = [check EXCEPT ![c].pc = "usage", ![c].judge = v] /\ NoFault
     \/ Decides(c, "ESCALATE") /\ CheckFault
  /\ CheckQuestion
Unmetered(c) == Decides(c, "ESCALATE")
ReportUsage(c) ==
  /\ check[c].pc = "usage"
  /\ \/ checkUsage' = checkUsage \cup {c} /\ CheckGoes(c, "judged") /\ NoFault
     \/ CheckFault /\ checkUsage' \in {checkUsage, checkUsage \cup {c}} /\ Unmetered(c)   \* the answer may be lost, too
  /\ UNCHANGED <<ledger, dropped, actions, ran>> /\ Only

\* A best-effort append: recorded, or lost and counted (_note_drop).
BestEffort(c, type) ==
  \/ ledger' = ledger \cup {[type |-> type, c |-> c]} /\ UNCHANGED dropped /\ NoFault
  \/ CheckFault /\ UNCHANGED ledger /\ dropped' = dropped \cup {[type |-> type, c |-> c]}
Judged(c) ==
  /\ check[c].pc = "judged" /\ BestEffort(c, "sentinel.judge")
  /\ CASE check[c].judge = "conforms" -> CheckGoes(c, "policy")
       [] check[c].judge = "outside" -> Decides(c, "BLOCK")
       [] OTHER -> Decides(c, "ESCALATE")
  /\ UNCHANGED <<actions, checkUsage, ran>> /\ Only

\* Irreversible actions and declared triggers: the manifest's word.
Policy(c) ==
  /\ check[c].pc = "policy"
  /\ IF check[c].req.policy = "none" THEN CheckGoes(c, "spend") ELSE Decides(c, check[c].req.policy)
  /\ NoFault /\ CheckQuestion
\* Step 8: a cap BLOCK before the token's ceiling, a throttle after it.
CheckSpend(c) ==
  /\ check[c].pc = "spend"
  /\ \/ Decides(c, "BLOCK") /\ CheckFault
     \/ /\ check' = [check EXCEPT ![c].spendRead = TRUE, ![c].noCap = (estate.cap = "none"),
                       ![c].pc = CASE estate.cap = "BLOCK" -> "verdict"
                                   [] check[c].req.ceiling /\ estate.cap # "none" -> "ceiling"
                                   [] OTHER -> "verdict",
                       ![c].decision = CASE estate.cap = "none" -> IF check[c].req.capDeclared \/ check[c].req.ceiling
                              THEN "ESCALATE" ELSE @
                                         [] estate.cap \in {"BLOCK", "THROTTLED"} -> "BLOCK"
                                         [] estate.cap = "ESCALATE" -> "ESCALATE"
                                         [] OTHER -> @]
        /\ NoFault
  /\ CheckQuestion
\* The ceiling: reached, not comparable or not answered blocks; a cap gone meanwhile escalates.
Ceiling(c) ==
  /\ check[c].pc = "ceiling"
  /\ \/ estate.cap # "none" /\ CheckGoes(c, "verdict") /\ NoFault
     \/ estate.cap # "none" /\ Decides(c, "BLOCK") /\ NoFault
     \/ estate.cap = "none" /\ Decides(c, "ESCALATE") /\ NoFault
     \/ Decides(c, "BLOCK") /\ CheckFault
  /\ CheckQuestion

-----------------------------------------------------------------------------
(* _verdict, _meter and the wrapper. *)

\* Log-only: the violation is recorded in the shadow and the caller is not blocked.
Shadow(c) ==
  /\ check[c].pc = "verdict" /\ mode = "log_only" /\ check[c].decision # "ALLOW"
  /\ BestEffort(c, "shadow")
  /\ check' = [check EXCEPT ![c].pc = "meter", ![c].decision = "ALLOW", ![c].shadowed = TRUE]
  /\ UNCHANGED <<actions, checkUsage, ran>> /\ Only
\* Faulty variant: an allow that could not be recorded stands.
LostAllowStands(c) == "ALLOW"
\* An allow whose record failed is a BLOCK in enforce mode.
LostAllow(c) == IF mode = "enforce" THEN "BLOCK" ELSE "ALLOW"
CheckVerdict(c) ==
  /\ check[c].pc = "verdict" /\ ~(mode = "log_only" /\ check[c].decision # "ALLOW")
  /\ LET d == check[c].decision
         \* Only an ALLOW is metered.
         next(e) == [check EXCEPT ![c].pc = IF e = "ALLOW" THEN "meter" ELSE "answer", ![c].decision = e]
     IN  \/ ledger' = ledger \cup {[type |-> d, c |-> c]} /\ check' = next(d) /\ NoFault
         \/ CheckFault /\ UNCHANGED ledger /\ check' = next(IF d = "ALLOW" THEN LostAllow(c) ELSE d)
  /\ UNCHANGED <<dropped, actions, checkUsage, ran>> /\ Only

\* Faulty variant: only what is genuinely allowed is metered.
SkipsShadows(c) == check[c].shadowed \/ (check[c].spendRead /\ check[c].noCap)
\* Nothing is posted only when step 8 read that there is no cap.
Skips(c) == check[c].spendRead /\ check[c].noCap
Outcome(c, o, pc) == check' = [check EXCEPT ![c].pc = pc, ![c].outcome = o]
Meter(c) ==
  /\ check[c].pc = "meter"
  /\ \/ Skips(c) /\ Outcome(c, "no_cap", "answer") /\ UNCHANGED actions /\ NoFault
     \/ ~Skips(c) /\ estate.cap = "none" /\ Outcome(c, "no_cap", "answer") /\ UNCHANGED actions /\ NoFault
     \/ ~Skips(c) /\ estate.cap # "none" /\ Outcome(c, "metered", "answer") /\ actions' = actions \cup {c} /\ NoFault
     \/ ~Skips(c) /\ CheckFault /\ Outcome(c, "metering_gap", "gap") /\ actions' \in {actions, actions \cup {c}}
  /\ UNCHANGED <<ledger, dropped, checkUsage, ran>> /\ Only
Gap(c) ==
  /\ check[c].pc = "gap" /\ BestEffort(c, "metering_gap") /\ CheckGoes(c, "answer")
  /\ UNCHANGED <<actions, checkUsage, ran>> /\ Only

\* Governor.check: anything but an ALLOW that arrived raises, and nothing runs.
CheckAnswer(c) ==
  /\ check[c].pc = "answer" /\ CheckGoes(c, "done")
  /\ \/ ran' = (IF check[c].decision = "ALLOW" THEN ran \cup {c} ELSE ran) /\ NoFault
     \/ CheckFault /\ UNCHANGED ran
  /\ BooksSame /\ Only

CheckStep(c) ==
  \/ Call(c) \/ Health(c) \/ Registry(c) \/ Token(c) \/ Scope(c) \/ Budget(c) \/ Judge(c) \/ ReportUsage(c)
  \/ Judged(c) \/ Policy(c) \/ CheckSpend(c) \/ Ceiling(c) \/ Shadow(c)
  \/ CheckVerdict(c) \/ Meter(c) \/ Gap(c) \/ CheckAnswer(c)
VerdictNext == EstateChanges1 \/ \E c \in Checks: CheckStep(c)
VerdictSpec == VerdictInit /\ [][VerdictNext]_verdictVars

-----------------------------------------------------------------------------
Recorded(c, type) == [type |-> type, c |-> c] \in ledger
Lost(c, type) == [type |-> type, c |-> c] \in dropped
\* What the manifest, the token or a stop of before the call holds against it.
Violates(c) ==
  \/ check[c].stopped \/ check[c].req.policy # "none"
  \/ check[c].req.scope # "exact" /\ check[c].judge # "conforms"

\* In enforce mode a function runs only after an allow in the ledger, never when
\* its agent was killed or its token revoked before the call, outside its scope
\* or against its policy; and what the judge let pass was metered to the
\* sentinel's own cap (engine.py _decide, _judge_scope, _verdict; governed.py).
RefusalHolds ==
  mode = "enforce" => \A c \in ran:
    Recorded(c, "ALLOW") /\ ~Violates(c) /\ (check[c].req.scope = "exact" \/ c \in checkUsage)
\* In log-only mode no check refuses, and each violation let through shows in
\* the ledger's shadow events or in the count of lost appends (_verdict).
LogOnlyObserves ==
  mode = "log_only" => \A c \in Checks: check[c].pc = "done" =>
    /\ check[c].decision = "ALLOW"
    /\ Violates(c) => Recorded(c, "shadow") \/ Lost(c, "shadow")
\* Every allow, shadowed or not, is one action in the governor's books, or the
\* governor has no cap, or the gap is in the ledger or among the lost (_meter).
AllowsCounted ==
  \A c \in Checks: check[c].pc = "done" /\ check[c].decision = "ALLOW" =>
    \/ c \in actions
    \/ check[c].outcome = "no_cap" /\ estate.cap # "ok"   \* the first cap, gone, does not come back
    \/ Recorded(c, "metering_gap") \/ Lost(c, "metering_gap")
CheckSound == RefusalHolds /\ LogOnlyObserves /\ AllowsCounted

-----------------------------------------------------------------------------
(***************************************************************************)
(* services/conformance-sentinel: `sentinel score`.  A run reads the mode   *)
(* and the judge's state once, provisions its own agent and tokens, puts    *)
(* every seed of the corpus to the served sentinel and counts what a        *)
(* log-only estate would have refused.  The estate may change meanwhile:    *)
(* the sentinel is restarted in another mode, the ledger goes down, the     *)
(* seed agent is stopped.                                                   *)
(***************************************************************************)

CONSTANTS
  Runners,           \* who controls the ledger: "none", "cmd" (down only), "process"
  ScoreChanges,      \* bound: changes made to the estate by others
  ScoreFaults        \* bound: calls of the run that fail

\* Changes are counted down.
ASSUME ScoreConstants == ScoreChanges \in Nat

VARIABLES
  est,               \* the estate: [mode, ledger, agent, expired, revoked]
  score,             \* the run
  scoreChanges, scoreFaults

scoreVars == <<est, score, scoreChanges, scoreFaults>>

\* The corpus, one or two seeds of a category; the ledger group comes last.
Corpus == <<"breach", "expired", "revoked", "vague", "exact", "paraphrase", "exact", "unreachable">>
Violations == {"breach", "expired", "revoked", "vague", "unreachable"}
Expected == [breach |-> "D.scope", expired |-> "D.expired", revoked |-> "D.revoked", vague |-> "D.scope",
             unreachable |-> "L.unreachable"]

\* SentinelEngine._decide without a judge: the first clause that refuses.
Clause(kind) ==
  IF est.ledger = "down" THEN "L.unreachable"
  ELSE IF est.agent # "active" THEN "K.halted"
  ELSE IF kind = "expired" /\ est.expired = "expired" THEN "D.expired"
  ELSE IF kind = "revoked" /\ est.revoked THEN "D.revoked"
  ELSE IF kind \in {"breach", "vague", "paraphrase"} THEN "D.scope" ELSE "none"

\* POST /check: the refusal itself, or in log-only ALLOW with the refusal in
\* context.would_be.
ScoreCheck(kind) ==
  IF est.mode = "enforce" /\ Clause(kind) # "none" THEN [decision |-> "BLOCK", wouldBe |-> "none"]
  ELSE [decision |-> "ALLOW", wouldBe |-> Clause(kind)]

ScoreInit ==
  /\ est \in [mode : {"log_only", "enforce"}, ledger : {"up"}, agent : {"absent", "active", "stopped"},
              expired : {"none"}, revoked : {FALSE}]
  /\ \E runner \in Runners :
       score = [pc |-> "health", runner |-> runner, mode |-> "none", at |-> 1, rows |-> <<>>, down |-> FALSE]
  /\ scoreChanges = ScoreChanges /\ scoreFaults = ScoreFaults

Becomes(s) == score' = s
Refuses == Becomes([score EXCEPT !.pc = "finally", !.rows = <<>>])

\* A call of the run fails: nothing is scored.
RunFails ==
  /\ score.pc \in {"health", "register", "mint", "revoke", "seed"} /\ scoreFaults > 0 /\ scoreFaults' = scoreFaults - 1
  /\ Refuses /\ UNCHANGED <<est, scoreChanges>>

ScoreHealth ==
  /\ score.pc = "health" /\ Becomes([score EXCEPT !.pc = "register", !.mode = est.mode])
  /\ UNCHANGED <<est, scoreChanges, scoreFaults>>

\* provision: POST /agents, or a PATCH that repoints and revives it, ...
ScoreRegister ==
  /\ score.pc = "register" /\ est' = [est EXCEPT !.agent = "active"]
  /\ Becomes([score EXCEPT !.pc = "mint"]) /\ UNCHANGED <<scoreChanges, scoreFaults>>
\* ... the expired token first, with one second to live, then the others ...
ScoreMint ==
  /\ score.pc = "mint" /\ est' = [est EXCEPT !.expired = "short"]
  /\ Becomes([score EXCEPT !.pc = "revoke"]) /\ UNCHANGED <<scoreChanges, scoreFaults>>
ScoreRevoke ==
  /\ score.pc = "revoke" /\ est' = [est EXCEPT !.revoked = TRUE]
  /\ Becomes([score EXCEPT !.pc = "wait"]) /\ UNCHANGED <<scoreChanges, scoreFaults>>
\* ... and the rest of expiry_margin, longer than the token lives.
Waited == est.expired = "expired"
\* run_suite refuses anything but a log-only estate before the first seed.
WaitOut ==
  /\ score.pc = "wait" /\ Waited
  /\ IF score.mode # "log_only" THEN Refuses ELSE Becomes([score EXCEPT !.pc = "seed"])
  /\ UNCHANGED <<est, scoreChanges, scoreFaults>>

Kind == Corpus[score.at]
ScoreRow(kind, outcome) == [kind |-> kind, skipped |-> FALSE, wouldBe |-> outcome.wouldBe, ledger |-> est.ledger]
ScoreSkipped == [kind |-> "unreachable", skipped |-> TRUE, wouldBe |-> "none", ledger |-> "up"]
Advance(row) ==
  Becomes([score EXCEPT !.rows = Append(@, row), !.at = @ + 1,
                        !.pc = IF score.at = Len(Corpus) THEN "finally" ELSE "seed"])

SkipSeed ==
  /\ score.pc = "seed" /\ Kind = "unreachable" /\ score.runner = "none"
  /\ Advance(ScoreSkipped) /\ UNCHANGED <<est, scoreChanges, scoreFaults>>

\* ledger_toggle(True) before the group.
LedgerDown ==
  /\ score.pc = "seed" /\ Kind = "unreachable" /\ score.runner # "none" /\ ~score.down
  /\ est' = [est EXCEPT !.ledger = "down"] /\ Becomes([score EXCEPT !.down = TRUE])
  /\ UNCHANGED <<scoreChanges, scoreFaults>>

\* A real refusal: the target is not behaving log-only.
NotLogOnly(outcome) == outcome.decision # "ALLOW"
AskSeed ==
  /\ score.pc = "seed" /\ (Kind = "unreachable" => score.down)
  /\ LET outcome == ScoreCheck(Kind) IN IF NotLogOnly(outcome) THEN Refuses ELSE Advance(ScoreRow(Kind, outcome))
  /\ UNCHANGED <<est, scoreChanges, scoreFaults>>

\* The finally of run_suite: a runner that owns the process starts it again; a
\* start that fails is swallowed, and the ledger stays down.
Ending == IF score.rows = <<>> THEN "refused" ELSE "scored"
Finally ==
  /\ score.pc = "finally" /\ UNCHANGED scoreChanges
  /\ \/ /\ est' = IF score.down /\ score.runner = "process" THEN [est EXCEPT !.ledger = "up"] ELSE est
        /\ Becomes([score EXCEPT !.pc = Ending, !.down = FALSE]) /\ UNCHANGED scoreFaults
     \/ /\ score.down /\ score.runner = "process" /\ scoreFaults > 0 /\ scoreFaults' = scoreFaults - 1
        /\ Becomes([score EXCEPT !.pc = Ending]) /\ UNCHANGED est

\* The delegation service's clock, and the estate's other users.
ScoreExpire ==
  /\ est.expired = "short" /\ est' = [est EXCEPT !.expired = "expired"] /\ UNCHANGED <<score, scoreChanges, scoreFaults>>
EstateChange ==
  /\ scoreChanges > 0 /\ scoreChanges' = scoreChanges - 1 /\ score.pc \notin {"scored", "refused"}
  /\ est' \in {[est EXCEPT !.mode = "log_only"], [est EXCEPT !.mode = "enforce"],
               [est EXCEPT !.ledger = "up"], [est EXCEPT !.ledger = "down"]}
              \union (IF est.agent = "absent" THEN {} ELSE {[est EXCEPT !.agent = "stopped"]})
  /\ UNCHANGED <<score, scoreFaults>>

ScoreNext ==
  \/ ScoreHealth \/ ScoreRegister \/ ScoreMint \/ ScoreRevoke \/ WaitOut
  \/ SkipSeed \/ LedgerDown \/ AskSeed \/ Finally \/ RunFails
  \/ ScoreExpire \/ EstateChange

ScoreSpec == ScoreInit /\ [][ScoreNext]_scoreVars

-----------------------------------------------------------------------------
(* compute_metrics. *)

\* Faulty variant: any refusal of a violation is a catch.
GatedCaughtAny(row) == row.kind \in Violations /\ ~row.skipped /\ row.wouldBe # "none"
\* Decision and clause are the seed's own.
GatedCaught(row) == row.kind \in Violations /\ ~row.skipped /\ row.wouldBe = Expected[row.kind]
FalseBlock(row) == row.kind = "exact" /\ row.wouldBe # "none"
RowsRun == {k \in DOMAIN score.rows : ~score.rows[k].skipped}
GatesPassed ==
  \A k \in RowsRun : LET row == score.rows[k] IN (row.kind \in Violations => GatedCaught(row)) /\ ~FalseBlock(row)

-----------------------------------------------------------------------------
(* Properties. *)

\* measure.py's honesty contract: a card counts a violation as caught only
\* where the cause it was seeded with was what refused it (an outage of the
\* ledger in mid-run catches nothing but its own group), has a row for every
\* seed of the corpus, and never shows a refused violation as one that passed
\* because the target had stopped being log-only.
CardHonest ==
  score.pc = "scored" =>
    /\ Len(score.rows) = Len(Corpus)
    /\ \A k \in RowsRun : 
         GatedCaught(score.rows[k]) => (score.rows[k].ledger = "down" <=> score.rows[k].kind = "unreachable")
    /\ \A k \in RowsRun : score.rows[k].kind \in Violations \ {"unreachable"} => score.rows[k].wouldBe # "none"

\* Nothing disturbed the estate: a healthy sentinel passes the gates, and an
\* estate whose ledger the runner owns has it back however the run ended, unless
\* the ledger did not start.
Undisturbed == scoreChanges = ScoreChanges
HealthyPasses ==
  /\ score.pc = "scored" /\ Undisturbed => GatesPassed
  /\ score.pc \in {"scored", "refused"} /\ score.runner = "process" /\ Undisturbed => (score.down \/ est.ledger = "up")

ScoreSound == CardHonest /\ HealthyPasses
===============================================================================
