---------------------------- MODULE MeteringProofs ----------------------------
(***************************************************************************)
(* The escalation queue for any number of requests, humans and actions:    *)
(* one open escalation of a kind, and a human of record that never         *)
(* changes.                                                                *)
(***************************************************************************)
EXTENDS Metering, TLAPS

\* The rows of the escalation table are records of three fields; all a step needs
\* to know of a row it rewrites.
EscalationRows == \A e \in esc : e = [id |-> e.id, kind |-> e.kind, by |-> e.by]

\* What a step may do to the queue: nothing, open one escalation of a kind of
\* which none is open, or resolve one that is open.
Opens == \E id, k : /\ ~Open(k)
                    /\ esc' = esc \union {[id |-> id, kind |-> k, by |-> "none"]}
Resolves == \E e \in esc, h \in {rq[r].body.human : r \in Req} :
              /\ e.by = "none"
              /\ esc' = (esc \ {e}) \union {[e EXCEPT !.by = h]}
QueueStep == esc' = esc \/ Opens \/ Resolves

\* The insert that finds no open row of its kind adds one, or nothing.
LEMMA AddIfNoneOpenStep ==
  ASSUME NEW r, NEW k, NEW q1, NEW q2, AddIfNoneOpen(r, k, q1, q2)
  PROVE  QueueStep
BY DEF AddIfNoneOpen, QueueStep, Opens

\* The steps that only configure, read or record leave the queue alone.
LEMMA ConfigStepQueue == ASSUME NEW r, ConfigStep(r) PROVE esc' = esc
BY DEF ConfigStep, PutCap, PutPolicy, RatesCheck, RatesWrite, RatesBack, RatesNote, Reads, store, config

\* A status call leaves the queue alone.
LEMMA StatusStepQueue == ASSUME NEW r, StatusStep(r) PROVE esc' = esc
BY DEF StatusStep, GetStatus, StatusCap, StatusTotals, StatusUsage, StatusActions, StatusOpen,
       StatusRates, StatusWindow, StatusPolicy, StatusTokens, Reads, store, config

\* So does a check.
LEMMA CheckStepQueue == ASSUME NEW r, CheckStep(r) PROVE esc' = esc
BY DEF CheckStep, CheckStatus, CheckNoCap, CheckVerdict, CeilingTotals, CeilingUsage, CheckAllow,
       Meter, MeterTimeout, GapNote, Reads, store, config

\* A spend may open one escalation.
LEMMA SpendStepQueue == ASSUME NEW r, SpendStep(r) PROVE QueueStep
BY AddIfNoneOpenStep DEF SpendOutcome, QueueStep, SpendBegin, Record, RecordNote, EscalateNote, BlockNote,
  store, config, SpendStep

\* A usage report may open one.
LEMMA UsageStepQueue == ASSUME NEW r, UsageStep(r) PROVE QueueStep
<1>1. CASE UsageRogue(r)
  BY <1>1, AddIfNoneOpenStep DEF UsageRogue
<1>2. CASE UsageBegin(r) \/ UsageRecord(r) \/ UsageNote(r) \/ UsagePolicy(r) \/ UsageWindow(r)
             \/ RogueNote(r) \/ UsageEnd(r)
  BY <1>2 DEF UsageBegin, UsageRecord, UsageNote, UsagePolicy, UsageWindow, RogueNote, UsageEnd,
              Reads, QueueStep, store, config
<1> QED BY <1>1, <1>2 DEF UsageStep

\* A resolve closes one, if it was open.
LEMMA ResolveQueue == ASSUME NEW r \in Req, Resolve(r) PROVE QueueStep
BY DEF Resolve, QueueStep, Resolves, store

\* Every step opens at most one row of a kind, closes one, or does neither.
LEMMA NextQueue == ASSUME [Next]_gvars PROVE QueueStep
<1>1. CASE UNCHANGED gvars
  BY <1>1 DEF gvars, store, QueueStep
<1>2. ASSUME NEW r \in Req, GovernorStep(r) \/ CheckStep(r) PROVE QueueStep
  BY ConfigStepQueue, StatusStepQueue, CheckStepQueue, SpendStepQueue, UsageStepQueue, ResolveQueue, <1>2 DEF
    QueueStep, ResolveNote, store, GovernorStep
<1> QED BY <1>1, <1>2 DEF Next

QueueInv == EscalationRows /\ OneOpen

\* At first the rows are those an earlier release left.
LEMMA InitQueueInv == Init => QueueInv
BY DEF Init, QueueInv, EscalationRows, OneOpen

\* Such a step keeps one open row of a kind, and each row its resolver of record.
LEMMA QueueInvStep == ASSUME QueueInv, QueueStep PROVE QueueInv'
<1>1. CASE esc' = esc
  BY <1>1 DEF QueueInv, EscalationRows, OneOpen
<1>2. CASE Opens
  BY <1>2 DEF Opens, Open, QueueInv, EscalationRows, OneOpen
<1>3. CASE Resolves
  BY <1>3 DEF Resolves, QueueInv, EscalationRows, OneOpen
<1> QED BY <1>1, <1>2, <1>3 DEF QueueStep

\* However many requests cross a threshold, and however their steps interleave, no
\* two escalations of a kind are open (add_escalation_if_none_open).
THEOREM OneOpenAlways == Spec => []OneOpen
<1>1. QueueInv /\ [Next]_gvars => QueueInv'
  BY NextQueue, QueueInvStep
<1>2. QueueInv => OneOpen
  BY DEF QueueInv
<1> QED BY InitQueueInv, <1>1, <1>2, PTL DEF Spec

\* A row stays: its kind, and once resolved the human who resolved it.
LEMMA QueueStepKeeps ==
  ASSUME EscalationRows, QueueStep, NEW e \in esc
  PROVE  \E f \in esc' : f.id = e.id /\ f.kind = e.kind /\ (e.by # "none" => f.by = e.by)
<1>1. CASE esc' = esc
  BY <1>1
<1>2. CASE Opens
  BY <1>2 DEF Opens
<1>3. CASE Resolves
  <2>1. PICK g \in esc, h \in {rq[r].body.human : r \in Req} :
          g.by = "none" /\ esc' = (esc \ {g}) \union {[g EXCEPT !.by = h]}
    BY <1>3 DEF Resolves
  <2>2. [g EXCEPT !.by = h] = [id |-> g.id, kind |-> g.kind, by |-> h]
    BY DEF EscalationRows
  <2>3. CASE e = g
    BY <2>1, <2>2, <2>3
  <2>4. CASE e # g
    BY <2>1, <2>4
  <2> QED BY <2>3, <2>4
<1> QED BY <1>1, <1>2, <1>3 DEF QueueStep

\* No step removes an escalation or replaces the human who resolved it
\* (resolve_escalation_once).
THEOREM FirstResolverAlwaysWins == Spec => FirstResolverWins
<1>1. QueueInv /\ [Next]_gvars => QueueInv'
  BY NextQueue, QueueInvStep
<1>2. QueueInv /\ [Next]_gvars =>
        [\A e \in esc : \E f \in esc' : f.id = e.id /\ f.kind = e.kind
                                           /\ (e.by # "none" => f.by = e.by)]_gvars
  BY NextQueue, QueueStepKeeps DEF QueueInv
<1> QED BY InitQueueInv, <1>1, <1>2, PTL DEF Spec, FirstResolverWins

-----------------------------------------------------------------------------
(* Types.                                                                   *)

\* What the steps put into a frame is of its type.
LEMMA FrameAt ==
  ASSUME NEW q \in Frame, NEW l \in Label
  PROVE  /\ [q EXCEPT !.pc = l] \in Frame
         /\ \A t \in Nat : [q EXCEPT !.pc = l, !.now = t] \in Frame
         /\ \A c \in Cap \union {NoCap} : [q EXCEPT !.pc = l, !.cap = c] \in Frame
         /\ \A p \in Policy : [q EXCEPT !.pc = l, !.policy = p] \in Frame
BY DEF Frame

\* A cap is never the absence of one.
LEMMA CapIsSet == NoCap \notin Cap /\ NoPolicy \in Policy
BY DEF NoCap, Cap, Kinds, NoPolicy, Policy

\* What is left of a frame when its handler ends, or goes on to note a gap.
LEMMA FinishedFrame ==
  ASSUME NEW q \in Frame, NEW ret \in BOOLEAN
  PROVE  LET f == Finished(q, ret)
         IN /\ f \in Frame /\ f.body = q.body /\ f.cap = q.cap
            /\ q.gap => f.pc = "gap_note" /\ f.gap /\ f.rogue = q.rogue
            /\ ~q.gap => f.pc = "done" /\ ~f.metering /\ ~f.gap /\ f.ret = ret /\ f.rogue = {}
<1>1. CASE q.gap
  BY <1>1 DEF Finished, Frame, Label
<1>2. CASE ~q.gap
  <2>1. Finished(q, ret) =
          [body |-> q.body, pc |-> "done", now |-> q.now, cap |-> q.cap, policy |-> NoPolicy,
           money |-> {}, use |-> {}, acts |-> {}, todo |-> {}, rogue |-> {}, exh |-> q.exh,
           state |-> q.state, kind |-> "none", esc |-> <<>>, metering |-> FALSE, gap |-> FALSE,
           ret |-> ret, base |-> q.base]
    BY <1>2 DEF Finished, Fresh
  <2> QED BY <1>2, <2>1, CapIsSet DEF Frame, Label, Null
<1> QED BY <1>1, <1>2 DEF Frame

\* One request moves on.
LEMMA BecomeFrame ==
  ASSUME rq \in [Req -> Frame], NEW r \in Req, NEW q \in Frame, Become(r, q)
  PROVE  /\ rq' \in [Req -> Frame] /\ rq'[r] = q
         /\ \A s \in Req : s # r => rq'[s] = rq[s]
BY DEF Become

\* A note counts its loss with the service that sends it.
LEMMA NoteTyped ==
  ASSUME GovernorTypeOK, NEW e, NEW svc \in {"governor", "sentinel"}, Note(svc, e)
  PROVE  /\ dropped' \subseteq {"governor", "sentinel"} /\ faults' \in Nat
         /\ dropped \subseteq dropped' /\ ledger \subseteq ledger' /\ ledger' \subseteq ledger \union {e}
         /\ e \in ledger' \/ svc \in dropped'
<1>1. faults \in Nat /\ dropped \subseteq {"governor", "sentinel"}
  BY DEF GovernorTypeOK
<1>2. CASE ledger' = ledger \union {e} /\ UNCHANGED <<dropped, faults>>
  BY <1>1, <1>2
<1>3. CASE Fault /\ ledger' \in {ledger, ledger \union {e}} /\ dropped' = dropped \union {svc}
  <2>1. faults' = faults + 1
    BY <1>3 DEF Fault
  <2> QED BY <1>1, <1>3, <2>1
<1> QED BY <1>2, <1>3 DEF Note

\* The body of a request is one of those it may have, and says which steps it takes.
LEMMA BodyTyped ==
  ASSUME NEW b \in Body
  PROVE  /\ b.op = "cap" => b.cap \in Cap
         /\ b.op = "rates" => b.set \subseteq Limit
         /\ b.op = "policy" => b.policy \in Policy
         /\ b.op = "usage" => b.model \in Models /\ b.tokens \in Nat /\ b.units \in Nat
         /\ b.op = "resolve" => b.human \in Humans
         /\ b.op = "check" => b.action \in Actions /\ b.ceiling \in Nat
         /\ b.op = "status" => b.action \in Null(Actions)
         /\ b.op = "spend" => /\ b.cents \in Nat /\ b.tokens \in Nat /\ b.actions \in Nat
                              /\ b.action \in Null(Actions) /\ b.source \in {"self", "sentinel"}
         /\ b.op \in {"cap", "rates", "policy", "usage", "resolve", "check", "status", "spend"}
BY DEF Body

\* A request is on the path of the operation it asks for.
LEMMA OnPath ==
  ASSUME NEW r \in Req, MeterInv(r)
  PROVE  LET q == rq[r]
         IN /\ q.body \in Body
            /\ q.pc \in {"cap", "rates", "policy"} => q.body.op = q.pc
            /\ q.pc \in {"rates_write", "rates_back", "rates_note"} => q.body.op = "rates"
            /\ q.pc = "status" => q.body.op = "status"
            /\ q.pc \in {"resolve", "resolve_note"} => q.body.op = "resolve"
            /\ q.pc \in {"spend", "record"} => q.body.op \in {"spend", "check"}
            /\ q.pc = "record_note" => q.body.op = "spend"
            /\ q.pc \in {"usage", "usage_record", "usage_note", "usage_policy", "usage_window",
                         "usage_rogue", "rogue_note", "usage_end"} => q.body.op = "usage"
            /\ q.pc \in {"outcome", "escalate_note"} => q.body.op \in {"spend", "check"}
            /\ q.pc = "block_note" => q.body.op \in {"spend", "check", "usage"}
            /\ q.pc \in Reading => q.body.op \in {"spend", "check", "usage", "status"}
            /\ q.pc \in {"gap_note"} \union Deciding => q.body.op = "check"
BY BodyTyped DEF MeterInv, Path, Reading, Recorded, Deciding

\* The rest of the type invariant, for the steps that leave it alone.
StoreTyped ==
  /\ cap \in Cap \union {NoCap} /\ limits \subseteq Limit /\ policy \in Policy
  /\ spend \subseteq SpendRow /\ usage \subseteq UsageRow
  /\ esc \subseteq [id : EscalationId, kind : EscalationKind, by : Null(Humans)]
  /\ clock \in Nat /\ dropped \subseteq {"governor", "sentinel"} /\ faults \in Nat

\* The store's variables and the requests, typed apart.
LEMMA TypesSplit == GovernorTypeOK <=> StoreTyped /\ rq \in [Req -> Frame]
BY DEF GovernorTypeOK, StoreTyped

\* A step that only moves one frame on.
LEMMA ReadTyped ==
  ASSUME GovernorTypeOK, NEW r \in Req, NEW q \in Frame, Reads(r, q)
  PROVE  /\ GovernorTypeOK' /\ rq'[r] = q /\ \A s \in Req : s # r => rq'[s] = rq[s]
BY TypesSplit, BecomeFrame DEF Reads, StoreTyped, store, config, GovernorTypeOK

\* PUT /caps, /policies, /rate-limits.
LEMMA ConfigTyped ==
  ASSUME GovernorTypeOK, NEW r \in Req, MeterInv(r), ConfigStep(r)
  PROVE  GovernorTypeOK'
<1> DEFINE q == rq[r]
<1>q. q \in Frame /\ Finished(q, TRUE) \in Frame /\ Finished(q, FALSE) \in Frame
  BY FinishedFrame DEF GovernorTypeOK
<1>l. \A l \in Label : [q EXCEPT !.pc = l] \in Frame
  BY <1>q, FrameAt
<1>1. CASE PutCap(r)
  BY <1>1, <1>q, OnPath, BodyTyped, BecomeFrame DEF PutCap, Finish, GovernorTypeOK
<1>2. CASE PutPolicy(r)
  BY <1>2, <1>q, OnPath, BodyTyped, BecomeFrame DEF PutPolicy, Finish, GovernorTypeOK
<1>3. CASE RatesCheck(r)
  BY <1>3, <1>q, <1>l, ReadTyped DEF RatesCheck, Label
<1>4. CASE RatesWrite(r)
  BY <1>4, <1>l, OnPath, BodyTyped, BecomeFrame DEF RatesWrite, Goto, Label, GovernorTypeOK
<1>5. CASE RatesBack(r)
  BY <1>5, <1>q, <1>l, ReadTyped DEF RatesBack, Label
<1>6. CASE RatesNote(r)
  BY <1>6, <1>q, BecomeFrame, NoteTyped DEF RatesNote, Finish, GovernorTypeOK, store, config
<1> QED BY <1>1, <1>2, <1>3, <1>4, <1>5, <1>6 DEF ConfigStep

\* A verdict is one of three, and about a kind the cap limits.
LEMMA EvaluateTyped ==
  ASSUME NEW c, NEW spent, NEW open \in BOOLEAN
  PROVE  LET v == Evaluate(c, spent, open)
         IN v.state \in {"OK", "ESCALATE", "BLOCK"} /\ v.kind \in Null(EscalationKind)
<1> DEFINE reached == {k \in Kinds : c[k] # 0 /\ spent[k] >= c[k]}
           crossed == {k \in Kinds : c[k] # 0 /\ spent[k] * 100 >= c[k] * c.pct}
<1>f. \A S : First(S) \in Null(EscalationKind)
  BY DEF First, Null, EscalationKind, Kinds
<1>e. Evaluate(c, spent, open) =
        CASE reached # {} -> [state |-> "BLOCK", kind |-> First(reached)]
          [] reached = {} /\ crossed # {} -> [state |-> "ESCALATE", kind |-> First(crossed)]
          [] reached = {} /\ crossed = {} ->
               [state |-> IF open THEN "ESCALATE" ELSE "OK", kind |-> "none"]
  BY DEF Evaluate
<1> HIDE DEF reached, crossed
<1>n. "none" \in Null(EscalationKind)
  BY DEF Null
<1>1. CASE reached # {}
  BY <1>1, <1>e, <1>f
<1>2. CASE reached = {} /\ crossed # {}
  BY <1>2, <1>e, <1>f
<1>3. CASE reached = {} /\ crossed = {}
  BY <1>3, <1>e, <1>n
<1> QED BY <1>1, <1>2, <1>3

\* What a status goes on to.
LEMMA AnsweredFrame ==
  ASSUME NEW q \in Frame
  PROVE  LET f == Answered(q)
         IN /\ f \in Frame /\ f.body = q.body /\ f.cap = q.cap
            /\ q.body.op = "status" => f = Finished(q, TRUE)
            /\ q.body.op = "spend" => f = [q EXCEPT !.pc = "outcome"]
            /\ q.body.op = "usage" => f = [q EXCEPT !.pc = "usage_end"]
            /\ q.body.op \notin {"status", "spend", "usage"} =>
                 f = [q EXCEPT !.pc = IF q.metering THEN "outcome" ELSE "check_verdict"]
<1>1. \A l \in Label : LET g == [q EXCEPT !.pc = l]
                     IN g \in Frame /\ g.pc = l /\ g.body = q.body /\ g.cap = q.cap
  BY FrameAt DEF Frame
<1>2. "outcome" \in Label /\ "usage_end" \in Label /\ "check_verdict" \in Label
  BY DEF Label
<1>3. CASE q.body.op = "status"
  BY <1>3, FinishedFrame DEF Answered
<1>4. CASE q.body.op = "spend"
  BY <1>4, <1>1, <1>2 DEF Answered
<1>5. CASE q.body.op = "usage"
  BY <1>5, <1>1, <1>2 DEF Answered
<1>6. CASE q.body.op \notin {"status", "spend", "usage"}
  <2> DEFINE l == IF q.metering THEN "outcome" ELSE "check_verdict"
  <2>1. Answered(q) = [q EXCEPT !.pc = l]
    BY <1>6 DEF Answered
  <2>2. l \in Label
    BY <1>2
  <2>3. SUFFICES /\ Answered(q) \in Frame /\ Answered(q).body = q.body /\ Answered(q).cap = q.cap
                 /\ Answered(q) = [q EXCEPT !.pc = l]
    BY <1>6
  <2> HIDE DEF l
  <2> QED BY <1>1, <2>1, <2>2
<1> QED BY <1>3, <1>4, <1>5, <1>6

\* The rows of a window.
LEMMA WindowTyped ==
  ASSUME GovernorTypeOK
  PROVE  /\ \A l \in Limit : \A t : [max |-> l.max, secs |-> l.secs, rows |-> ActionEntries(l.action, t)] \in Window
         /\ \A p \in Policy : \A t : [max |-> p.limit, secs |-> p.secs, rows |-> TokenEntries(t)] \in Window
BY DEF ActionEntries, Entry, GovernorTypeOK, SpendRow, TokenEntries, UsageRow, Window, Limit, Policy

\* The frames the reads of a status make.
LEMMA StatusFrame ==
  ASSUME GovernorTypeOK, NEW q \in Frame, NEW l \in Label
  PROVE  /\ \A rows \in SUBSET SpendRow : [q EXCEPT !.pc = l, !.money = rows] \in Frame
         /\ \A rows \in SUBSET UsageRow : [q EXCEPT !.pc = l, !.use = rows] \in Frame
         /\ \A rows \in SUBSET SpendRow : [q EXCEPT !.pc = l, !.acts = rows] \in Frame
         /\ \A s \in {"OK", "ESCALATE", "BLOCK"}, k \in Null(EscalationKind) :
              [q EXCEPT !.state = s, !.kind = k, !.money = {}, !.use = {}, !.acts = {}] \in Frame
         /\ \A todo \in SUBSET Limit : [q EXCEPT !.todo = todo, !.pc = l] \in Frame
         /\ \A todo \in SUBSET Limit, exh \in SUBSET Window :
              [q EXCEPT !.todo = todo, !.exh = exh, !.pc = l] \in Frame
         /\ \A exh \in SUBSET Window : [q EXCEPT !.policy = NoPolicy, !.exh = exh] \in Frame
BY CapIsSet DEF Frame

\* A status call keeps the types.
LEMMA StatusTyped ==
  ASSUME GovernorTypeOK, NEW r \in Req, StatusStep(r)
  PROVE  GovernorTypeOK'
<1> DEFINE q == rq[r]
<1>q. q \in Frame /\ Finished(q, FALSE) \in Frame
  BY FinishedFrame DEF GovernorTypeOK
<1>l. \A l \in Label : [q EXCEPT !.pc = l] \in Frame
  BY <1>q, FrameAt
<1>a. \A f \in Frame : Answered(f) \in Frame
  BY AnsweredFrame
<1>r. \A f \in Frame : Reads(r, f) => GovernorTypeOK'
  BY ReadTyped
<1>p. Reading \subseteq Label /\ "check_nocap" \in Label
  BY DEF Reading, Label
<1>1. CASE GetStatus(r)
  <2>1. PICK t \in clock..MaxClock : clock' = t /\ Become(r, [q EXCEPT !.pc = "st_cap", !.now = t])
    BY <1>1 DEF GetStatus, Looks
  <2>2. t \in Nat
    BY GovernorAssumption DEF GovernorTypeOK
  <2>3. [q EXCEPT !.pc = "st_cap", !.now = t] \in Frame
    BY <1>q, <2>2, FrameAt DEF Label
  <2>4. rq' \in [Req -> Frame]
    BY <2>1, <2>3, BecomeFrame DEF GovernorTypeOK
  <2> QED BY <1>1, <2>1, <2>2, <2>4 DEF GetStatus, GovernorTypeOK, store, config
<1>2. CASE StatusCap(r)
  BY <1>q, FrameAt, <1>2, <1>l, <1>r, <1>p DEF GovernorTypeOK, Label, StatusCap
<1>3. CASE StatusTotals(r)
  BY <1>q, StatusFrame, <1>3, <1>r DEF GovernorTypeOK, InWindow, Label, StatusTotals
<1>4. CASE StatusUsage(r)
  BY <1>q, StatusFrame, <1>4, <1>r DEF GovernorTypeOK, InWindow, Label, StatusUsage
<1>5. CASE StatusActions(r)
  BY <1>q, StatusFrame, <1>5, <1>r DEF GovernorTypeOK, InWindow, Label, StatusActions
<1>6. CASE StatusOpen(r)
  <2> DEFINE v == Evaluate(q.cap, Spent(q.money, q.use, q.acts), \E e \in esc : e.by = "none")
             s == [q EXCEPT !.state = v.state, !.kind = v.kind, !.money = {}, !.use = {}, !.acts = {}]
  <2>1. v.state \in {"OK", "ESCALATE", "BLOCK"} /\ v.kind \in Null(EscalationKind)
    BY EvaluateTyped
  <2>2. s \in Frame
    <3> HIDE DEF v
    <3> QED BY <1>q, <2>1 DEF Frame
  <2>3. Reads(r, IF v.state = "BLOCK" THEN Answered(s)
                 ELSE [s EXCEPT !.pc = IF ActionOf(q) = "none" THEN "st_policy" ELSE "st_rates"])
    BY <1>6 DEF StatusOpen
  <2> HIDE DEF s, v
  <2>4. [s EXCEPT !.pc = IF ActionOf(q) = "none" THEN "st_policy" ELSE "st_rates"] \in Frame
    BY <2>2, FrameAt DEF Label
  <2>5. CASE v.state = "BLOCK"
    BY <1>a, <1>r, <2>2, <2>3, <2>5
  <2>6. CASE v.state # "BLOCK"
    BY <1>r, <2>3, <2>4, <2>6
  <2> QED BY <2>5, <2>6
<1>7. CASE StatusRates(r)
  <2> DEFINE todo == {l \in limits : l.action = ActionOf(q) /\ l.secs # 0}
  <2>1. todo \in SUBSET Limit
    BY DEF GovernorTypeOK
  <2>2. Reads(r, [q EXCEPT !.todo = todo, !.pc = IF todo = {} THEN "st_policy" ELSE "st_window"])
    BY <1>7 DEF StatusRates
  <2> HIDE DEF todo
  <2>3. [q EXCEPT !.todo = todo, !.pc = IF todo = {} THEN "st_policy" ELSE "st_window"] \in Frame
    <3>1. (IF todo = {} THEN "st_policy" ELSE "st_window") \in Label
      BY DEF Label
    <3> QED BY <1>q, <2>1, <3>1 DEF Frame
  <2> QED BY <1>r, <2>2, <2>3
<1>8. CASE StatusWindow(r)
  <2>1. PICK l \in q.todo :
          LET w == [max |-> l.max, secs |-> l.secs,
                    rows |-> ActionEntries(l.action, q.now - l.secs * Second)]
          IN Reads(r, [q EXCEPT !.todo = q.todo \ {l},
                                !.exh = IF Exhausted(w) THEN q.exh \union {w} ELSE q.exh,
                                !.pc = IF q.todo = {l} THEN "st_policy" ELSE "st_window"])
    BY <1>8, Zenon DEF StatusWindow
  <2> DEFINE w == [max |-> l.max, secs |-> l.secs,
                   rows |-> ActionEntries(l.action, q.now - l.secs * Second)]
             exh == IF Exhausted(w) THEN q.exh \union {w} ELSE q.exh
             next == IF q.todo = {l} THEN "st_policy" ELSE "st_window"
  <2>2. q.todo \ {l} \in SUBSET Limit /\ l \in Limit /\ q.exh \in SUBSET Window
    BY <1>q, <2>1 DEF Frame
  <2>3. w \in Window
    BY <2>2, WindowTyped
  <2>4. exh \in SUBSET Window /\ next \in Label
    <3> HIDE DEF w
    <3> QED BY <2>2, <2>3 DEF Label
  <2>5. Reads(r, [q EXCEPT !.todo = q.todo \ {l}, !.exh = exh, !.pc = next])
    BY <2>1
  <2> HIDE DEF w, exh, next
  <2> QED BY <1>q, <1>r, <2>2, <2>4, <2>5, StatusFrame
<1>9. CASE StatusPolicy(r)
  BY <1>q, FrameAt, <1>9, <1>a, <1>r DEF GovernorTypeOK, Label, StatusPolicy
<1>10. CASE StatusTokens(r)
  <2> DEFINE w == [max |-> q.policy.limit, secs |-> q.policy.secs,
                   rows |-> TokenEntries(q.now - q.policy.secs * Second)]
             exh == IF Exhausted(w) THEN q.exh \union {w} ELSE q.exh
  <2>1. q.policy \in Policy /\ q.exh \in SUBSET Window
    BY <1>q DEF Frame
  <2>2. w \in Window
    BY <2>1, WindowTyped
  <2>3. exh \in SUBSET Window
    <3> HIDE DEF w
    <3> QED BY <2>1, <2>2
  <2>4. Reads(r, Answered([q EXCEPT !.policy = NoPolicy, !.exh = exh]))
    BY <1>10 DEF StatusTokens
  <2> HIDE DEF w, exh
  <2>5. [q EXCEPT !.policy = NoPolicy, !.exh = exh] \in Frame
    BY <1>q, <2>3, StatusFrame DEF Label
  <2> QED BY <1>a, <1>r, <2>4, <2>5
<1> QED BY <1>1, <1>2, <1>3, <1>4, <1>5, <1>6, <1>7, <1>8, <1>9, <1>10 DEF StatusStep

\* Opening an escalation keeps the types.
LEMMA OpenTyped ==
  ASSUME GovernorTypeOK, NEW r \in Req, NEW k \in EscalationKind, NEW q1 \in Frame, NEW q2 \in Frame,
         AddIfNoneOpen(r, k, q1, q2)
  PROVE  /\ rq' \in [Req -> Frame]
         /\ esc' \subseteq [id : EscalationId, kind : EscalationKind, by : Null(Humans)]
BY BecomeFrame DEF GovernorTypeOK, EscalationId, Null, AddIfNoneOpen

\* POST /spend.
LEMMA SpendTyped ==
  ASSUME GovernorTypeOK, NEW r \in Req, MeterInv(r), SpendStep(r)
  PROVE  GovernorTypeOK'
<1> DEFINE q == rq[r]
<1>q. q \in Frame /\ Finished(q, TRUE) \in Frame /\ Finished(q, FALSE) \in Frame
  BY FinishedFrame DEF GovernorTypeOK
<1>l. \A l \in Label : [q EXCEPT !.pc = l] \in Frame
  BY <1>q, FrameAt
<1>t. StoreTyped /\ rq \in [Req -> Frame]
  BY TypesSplit
<1>1. CASE SpendBegin(r)
  <2>1. CASE Finish(r, FALSE) /\ UNCHANGED clock
    BY <1>1, <1>q, <2>1, BecomeFrame DEF SpendBegin, Finish, GovernorTypeOK, store, config
  <2>2. CASE Looks(r, [q EXCEPT !.pc = "record"])
    <3>1. PICK t \in clock..MaxClock : clock' = t /\ Become(r, [q EXCEPT !.pc = "record", !.now = t])
      BY <2>2 DEF Looks
    <3>2. t \in Nat
      BY GovernorAssumption DEF GovernorTypeOK
    <3>3. [q EXCEPT !.pc = "record", !.now = t] \in Frame
      BY <1>q, <3>2, FrameAt DEF Label
    <3>4. rq' \in [Req -> Frame]
      BY <3>1, <3>3, BecomeFrame DEF GovernorTypeOK
    <3> QED BY <1>1, <3>1, <3>2, <3>4 DEF SpendBegin, GovernorTypeOK, store, config
  <2> QED BY <1>1, <2>1, <2>2 DEF SpendBegin
<1>2. CASE Record(r)
  <2>1. q.body \in Body /\ q.body.op \in {"spend", "check"} /\ q.now \in Nat
    BY <1>2, <1>q, OnPath DEF Record, Frame
  <2>2. Row(r) \in SpendRow
    BY <2>1, BodyTyped DEF Row, SpendRow, Null
  <2>3. rq' \in [Req -> Frame]
    BY <1>2, <1>l, <1>t, BecomeFrame DEF Record, Goto, Label
  <2> QED BY <1>2, <2>2, <2>3 DEF Record, GovernorTypeOK, config
<1>3. CASE RecordNote(r) \/ EscalateNote(r) \/ BlockNote(r)
  BY <1>3, <1>q, <1>l, <1>t, BecomeFrame, NoteTyped DEF RecordNote, EscalateNote, BlockNote, Finish, Goto,
    Label, GovernorTypeOK, store, config
<1>4. CASE SpendOutcome(r)
  <2>1. CASE /\ q.kind # "none"
             /\ AddIfNoneOpen(r, q.kind, [q EXCEPT !.pc = "escalate_note"], Finished(q, TRUE))
    <3>1. q.kind \in EscalationKind
      BY <1>q, <2>1 DEF Frame, Null
    <3>2. [q EXCEPT !.pc = "escalate_note"] \in Frame
      BY <1>l DEF Label
    <3> QED BY <1>4, <1>q, <2>1, <3>1, <3>2, OpenTyped DEF SpendOutcome, GovernorTypeOK, config
  <2>2. CASE Goto(r, "block_note") /\ UNCHANGED esc
    BY <1>4, <1>l, <2>2, BecomeFrame DEF SpendOutcome, Goto, Label, GovernorTypeOK, config
  <2>3. CASE Finish(r, TRUE) /\ UNCHANGED esc
    BY <1>4, <1>q, <2>3, BecomeFrame DEF SpendOutcome, Finish, GovernorTypeOK, config
  <2> QED BY <1>4, <2>1, <2>2, <2>3 DEF SpendOutcome
<1> QED BY <1>1, <1>2, <1>3, <1>4 DEF SpendStep

\* POST /usage.
LEMMA UsageTyped ==
  ASSUME GovernorTypeOK, NEW r \in Req, MeterInv(r), UsageStep(r)
  PROVE  GovernorTypeOK'
<1> DEFINE q == rq[r]
<1>q. q \in Frame /\ Finished(q, TRUE) \in Frame /\ Finished(q, FALSE) \in Frame
  BY FinishedFrame DEF GovernorTypeOK
<1>l. \A l \in Label : [q EXCEPT !.pc = l] \in Frame
  BY <1>q, FrameAt
<1>t. StoreTyped /\ rq \in [Req -> Frame]
  BY TypesSplit
<1>r. \A f \in Frame : Reads(r, f) => GovernorTypeOK'
  BY ReadTyped
<1>1. CASE UsageBegin(r)
  <2>1. CASE Finish(r, FALSE) /\ UNCHANGED clock
    BY <1>1, <1>q, <2>1, BecomeFrame DEF UsageBegin, Finish, GovernorTypeOK, store, config
  <2>2. CASE Looks(r, [q EXCEPT !.pc = "usage_record"])
    <3>1. PICK t \in clock..MaxClock : clock' = t /\ Become(r, [q EXCEPT !.pc = "usage_record", !.now = t])
      BY <2>2 DEF Looks
    <3>2. t \in Nat
      BY GovernorAssumption DEF GovernorTypeOK
    <3>3. [q EXCEPT !.pc = "usage_record", !.now = t] \in Frame
      BY <1>q, <3>2, FrameAt DEF Label
    <3>4. rq' \in [Req -> Frame]
      BY <3>1, <3>3, BecomeFrame DEF GovernorTypeOK
    <3> QED BY <1>1, <3>1, <3>2, <3>4 DEF UsageBegin, GovernorTypeOK, store, config
  <2> QED BY <1>1, <2>1, <2>2 DEF UsageBegin
<1>2. CASE UsageRecord(r)
  <2> DEFINE row == [id |-> r, ts |-> q.now, tokens |-> q.body.tokens,
                     units |-> IF q.body.model \in Priced THEN q.body.units ELSE 0]
  <2>1. q.body \in Body /\ q.body.op = "usage" /\ q.now \in Nat
    BY <1>2, <1>q, OnPath DEF UsageRecord, Frame
  <2>2. row \in UsageRow
    BY <2>1, BodyTyped DEF UsageRow
  <2>3. usage' = usage \union {row}
    BY <1>2 DEF UsageRecord
  <2>4. rq' \in [Req -> Frame]
    BY <1>2, <1>l, <1>t, BecomeFrame DEF UsageRecord, Goto, Label
  <2> HIDE DEF row
  <2> QED BY <1>2, <2>2, <2>3, <2>4 DEF UsageRecord, GovernorTypeOK, config
<1>3. CASE UsageNote(r) \/ RogueNote(r)
  BY <1>3, <1>l, <1>t, BecomeFrame, NoteTyped DEF UsageNote, RogueNote, Goto, Label, GovernorTypeOK, store,
    config
<1>4. CASE UsagePolicy(r)
  BY <1>q, FrameAt, <1>4, <1>r DEF GovernorTypeOK, Label, UsagePolicy
<1>5. CASE UsageWindow(r)
  <2> DEFINE found == Findings(q.policy, q.body.model,
                               Tokens({}, {x \in usage : x.ts >= q.now - q.policy.secs * Second}))
             next == IF found = {} THEN "st_cap" ELSE "usage_rogue"
  <2>1. found \in SUBSET Rogue
    BY DEF Findings, Rogue
  <2>2. next \in Label
    BY DEF Label
  <2>3. Reads(r, [q EXCEPT !.policy = NoPolicy, !.rogue = found, !.pc = next])
    BY <1>5 DEF UsageWindow
  <2> HIDE DEF found, next
  <2>4. [q EXCEPT !.policy = NoPolicy, !.rogue = found, !.pc = next] \in Frame
    BY <1>q, <2>1, <2>2, CapIsSet DEF Frame
  <2> QED BY <1>r, <2>3, <2>4
<1>6. CASE UsageRogue(r)
  <2> DEFINE k == IF "unpriced" \in q.rogue THEN "unpriced"
                  ELSE IF "rogue_model" \in q.rogue THEN "rogue_model" ELSE "rogue_burst"
             next == IF q.rogue = {k} THEN "st_cap" ELSE q.pc
             rest == [q EXCEPT !.rogue = q.rogue \ {k}, !.pc = next]
  <2>1. k \in Rogue /\ next \in Label /\ q.rogue \ {k} \in SUBSET Rogue
    BY <1>q DEF Rogue, Label, Frame
  <2>2. k \in EscalationKind /\ k \in Null(EscalationKind)
    BY <2>1 DEF EscalationKind, Null
  <2>3. AddIfNoneOpen(r, k, [rest EXCEPT !.pc = "rogue_note", !.kind = k], rest)
    BY <1>6 DEF UsageRogue
  <2> HIDE DEF k, next
  <2>r. rest \in Frame
    BY <1>q, <2>1 DEF Frame
  <2> HIDE DEF rest
  <2>4. [rest EXCEPT !.pc = "rogue_note", !.kind = k] \in Frame
    <3>1. "rogue_note" \in Label
      BY DEF Label
    <3> QED BY <2>r, <2>2, <3>1 DEF Frame
  <2>5. /\ rq' \in [Req -> Frame]
        /\ esc' \subseteq [id : EscalationId, kind : EscalationKind, by : Null(Humans)]
    BY <2>2, <2>3, <2>r, <2>4, OpenTyped
  <2> QED BY <1>6, <2>5 DEF UsageRogue, GovernorTypeOK, config
<1>7. CASE UsageEnd(r)
  BY <1>7, <1>q, <1>l, <1>r DEF UsageEnd, Label
<1> QED BY <1>1, <1>2, <1>3, <1>4, <1>5, <1>6, <1>7 DEF UsageStep

\* POST /escalations/resolve.
LEMMA ResolveTyped ==
  ASSUME GovernorTypeOK, NEW r \in Req, MeterInv(r), Resolve(r) \/ ResolveNote(r)
  PROVE  GovernorTypeOK'
<1> DEFINE q == rq[r]
<1>q. q \in Frame /\ Finished(q, TRUE) \in Frame /\ Finished(q, FALSE) \in Frame
  BY FinishedFrame DEF GovernorTypeOK
<1>t. StoreTyped /\ rq \in [Req -> Frame]
  BY TypesSplit
<1>1. CASE Resolve(r)
  <2>0. q.body.human \in Null(Humans)
    BY <1>1, OnPath, BodyTyped DEF Resolve, Null
  <2>1. CASE \E ret \in BOOLEAN : Finish(r, ret) /\ UNCHANGED esc
    BY <1>q, <1>t, <2>1, FinishedFrame, BecomeFrame, <1>1 DEF Finish, Resolve, GovernorTypeOK, config
  <2>2. CASE \E e \in esc :
               /\ esc' = (esc \ {e}) \union {[e EXCEPT !.by = q.body.human]}
               /\ Become(r, [q EXCEPT !.pc = "resolve_note", !.esc = e.id])
    <3>1. PICK e \in esc :
            /\ esc' = (esc \ {e}) \union {[e EXCEPT !.by = q.body.human]}
            /\ Become(r, [q EXCEPT !.pc = "resolve_note", !.esc = e.id])
      BY <2>2
    <3>2. /\ e \in [id : EscalationId, kind : EscalationKind, by : Null(Humans)]
          /\ e.id \in EscalationId
      BY <1>t DEF StoreTyped
    <3>3. [e EXCEPT !.by = q.body.human] \in [id : EscalationId, kind : EscalationKind, by : Null(Humans)]
      BY <2>0, <3>2
    <3>4. [q EXCEPT !.pc = "resolve_note", !.esc = e.id] \in Frame
      BY <1>q, <3>2 DEF Frame, Label
    <3>5. rq' \in [Req -> Frame]
      BY <1>t, <3>1, <3>4, BecomeFrame
    <3>6. esc' \subseteq [id : EscalationId, kind : EscalationKind, by : Null(Humans)]
      BY <1>t, <3>1, <3>3 DEF StoreTyped
    <3> QED BY <1>1, <3>5, <3>6 DEF Resolve, GovernorTypeOK, config
  <2>3. \A e \in esc : (e.by = q.body.human) \in BOOLEAN
    OBVIOUS
  <2> QED BY <1>1, <2>1, <2>2, <2>3 DEF Resolve
<1>2. CASE ResolveNote(r)
  BY <1>2, <1>q, <1>t, BecomeFrame, NoteTyped DEF ResolveNote, Finish, GovernorTypeOK, store, config
<1> QED BY <1>1, <1>2

\* The frames of a check.
LEMMA CheckFrame ==
  ASSUME GovernorTypeOK, NEW q \in Frame, NEW t \in Nat, NEW g \in BOOLEAN, NEW m \in BOOLEAN
  PROVE  /\ [q EXCEPT !.pc = "st_cap", !.now = t, !.base = [money |-> spend, use |-> usage, at |-> t]] \in Frame
         /\ [q EXCEPT !.pc = "ceiling_usage", !.money = spend] \in Frame
         /\ [q EXCEPT !.money = {}] \in Frame
         /\ [q EXCEPT !.pc = "spend", !.metering = m, !.exh = {}] \in Frame
         /\ [q EXCEPT !.pc = "gap_note", !.gap = g] \in Frame
         /\ [q EXCEPT !.gap = g] \in Frame
<1>1. spend \in SUBSET SpendRow /\ usage \in SUBSET UsageRow
  BY DEF GovernorTypeOK
<1>2. {"st_cap", "ceiling_usage", "spend", "gap_note"} \subseteq Label
  BY DEF Label
<1> QED BY <1>1, <1>2 DEF Frame

\* POST /check.
LEMMA CheckTyped ==
  ASSUME GovernorTypeOK, NEW r \in Req, CheckStep(r)
  PROVE  GovernorTypeOK'
<1> DEFINE q == rq[r]
<1>q. q \in Frame /\ \A f \in Frame, ret \in BOOLEAN : Finished(f, ret) \in Frame
  BY FinishedFrame DEF GovernorTypeOK
<1>l. \A f \in Frame, l \in Label : [f EXCEPT !.pc = l] \in Frame
  BY FrameAt
<1>t. StoreTyped /\ rq \in [Req -> Frame]
  BY TypesSplit
<1>r. \A f \in Frame : Reads(r, f) => GovernorTypeOK'
  BY ReadTyped
<1>b. \A f \in Frame : Become(r, f) => rq' \in [Req -> Frame]
  BY <1>t, BecomeFrame
<1>f. Fault => faults' \in Nat
  BY <1>t DEF Fault, StoreTyped
<1>d. \A f \in Frame : Decided(f) \in Frame
  BY <1>q, <1>l DEF Decided, Label
<1>1. CASE CheckStatus(r)
  <2>1. CASE Fault /\ Refuse(r) /\ UNCHANGED clock
    BY <1>1, <1>q, <1>b, <1>f, <2>1 DEF CheckStatus, Refuse, Finish, GovernorTypeOK, store, config
  <2>2. CASE /\ \E t \in clock..MaxClock :
                  /\ clock' = t
                  /\ Become(r, [q EXCEPT !.pc = "st_cap", !.now = t,
                                         !.base = [money |-> spend, use |-> usage, at |-> t]])
             /\ UNCHANGED faults
    <3>1. PICK t \in clock..MaxClock :
            /\ clock' = t
            /\ Become(r, [q EXCEPT !.pc = "st_cap", !.now = t,
                                   !.base = [money |-> spend, use |-> usage, at |-> t]])
      BY <2>2
    <3>2. t \in Nat
      BY GovernorAssumption DEF GovernorTypeOK
    <3>3. rq' \in [Req -> Frame]
      BY <1>q, <1>b, <3>1, <3>2, CheckFrame
    <3> QED BY <1>1, <2>2, <3>1, <3>2, <3>3 DEF CheckStatus, GovernorTypeOK, store, config
  <2> QED BY <1>1, <2>1, <2>2 DEF CheckStatus
<1>2. CASE CheckNoCap(r)
  BY <1>2, <1>q, <1>l, <1>r DEF CheckNoCap, Label
<1>3. CASE CheckVerdict(r)
  BY <1>q, <1>l, <1>d, <1>3, <1>r DEF Label, CheckVerdict
<1>4. CASE CeilingTotals(r)
  BY <1>4, <1>q, <1>b, <1>f, <1>t, CheckFrame DEF CeilingTotals, Refuse, Finish, StoreTyped, GovernorTypeOK,
    store, config
<1>5. CASE CeilingUsage(r)
  <2> DEFINE f == [q EXCEPT !.money = {}]
  <2>1. f \in Frame
    BY <1>q, CheckFrame
  <2>2. Reads(r, IF Cents(q.money, usage) >= f.body.ceiling THEN Finished(f, FALSE) ELSE Decided(f))
    BY <1>5 DEF CeilingUsage
  <2> HIDE DEF f
  <2> QED BY <1>q, <1>r, <1>d, <2>1, <2>2
<1>6. CASE CheckAllow(r)
  BY <1>6, <1>q, <1>l, <1>b, <1>f, <1>t DEF CheckAllow, Refuse, Finish, Goto, Label, StoreTyped,
    GovernorTypeOK, store, config
<1>7. CASE Meter(r) \/ MeterTimeout(r)
  BY <1>7, <1>q, <1>b, <1>f, <1>t, CheckFrame DEF Meter, MeterTimeout, StoreTyped, GovernorTypeOK, store,
    config
<1>8. CASE GapNote(r)
  BY <1>8, <1>q, <1>b, CheckFrame DEF GapNote, GovernorTypeOK, store, config
<1> QED BY <1>1, <1>2, <1>3, <1>4, <1>5, <1>6, <1>7, <1>8 DEF CheckStep

\* A step keeps the types.
LEMMA StepTyped ==
  ASSUME GovernorTypeOK, \A r \in Req : MeterInv(r), [Next]_gvars
  PROVE  GovernorTypeOK'
BY ConfigTyped, StatusTyped, SpendTyped, UsageTyped, ResolveTyped, CheckTyped DEF gvars, store, config,
  GovernorTypeOK, GovernorStep, Next

-----------------------------------------------------------------------------
(* What a step does to metering.                                            *)

\* An allowed check of r is metered, noted, or there was no cap (AllowsMetered, of one).
Accounted(r) ==
  Allowed(r) => \/ \E x \in spend : x.id = r
                \/ Event("sentinel.metering_gap", <<r>>, "none") \in ledger
                \/ "sentinel" \in dropped
                \/ rq[r].cap = NoCap

\* Rows stay, and so does a cap once there is one.
Remains == spend \subseteq spend' /\ (cap # NoCap => cap' # NoCap)

\* The labels of the paths.
LEMMA Paths ==
  /\ \A op : "done" \in Path(op)
  /\ \A op \in {"spend", "usage", "status", "check"} : Reading \subseteq Path(op)
  /\ \A op \in {"spend", "check"} : {"spend", "record"} \union Recorded \subseteq Path(op)
  /\ "record_note" \in Path("spend") /\ "resolve_note" \in Path("resolve")
  /\ {"rates_write", "rates_back", "rates_note"} \subseteq Path("rates")
  /\ {"usage_record", "usage_note", "usage_policy", "usage_window", "usage_rogue", "rogue_note",
      "usage_end", "block_note"} \subseteq Path("usage")
  /\ {"gap_note"} \union Deciding \subseteq Path("check")
BY DEF Path, Reading, Recorded, Deciding

\* A frame that differs from another in what a status reads.
SameCall(q, f) ==
  /\ q.body = f.body /\ q.cap = f.cap /\ q.rogue = f.rogue
  /\ q.metering = f.metering /\ q.gap = f.gap

\* A handler that ends: a check that was allowed has its row, or has still to note the gap.
LEMMA MeterEnds ==
  ASSUME NEW r \in Req, MeterInv(r), NEW ret \in BOOLEAN, Remains,
         NEW q \in Frame, SameCall(q, rq[r]), rq'[r] = Finished(q, ret),
         q.body.op = "check" /\ ret => (\E x \in spend' : x.id = r) \/ q.cap = NoCap
  PROVE  MeterInv(r)' /\ Accounted(r)'
<1> DEFINE f == rq'[r]
<1>1. q \in Frame
  OBVIOUS
<1>2. /\ f.body = q.body /\ f.cap = q.cap
      /\ q.gap => f.pc = "gap_note" /\ f.gap
      /\ ~q.gap => f.pc = "done" /\ ~f.metering /\ ~f.gap /\ f.ret = ret
  BY <1>1, FinishedFrame
<1>3. /\ q.body \in Body /\ (q.gap => q.body.op = "check")
      /\ q.cap # NoCap => cap' # NoCap
      /\ q.metering => cap' # NoCap
  BY DEF MeterInv, Remains, SameCall
<1>4. CASE q.gap
  BY <1>4, <1>1, <1>2, <1>3, Paths DEF Finished, Frame, Deciding, Reading, Recorded, MeterInv, Accounted,
    Allowed
<1>5. CASE ~q.gap
  BY <1>2, <1>3, <1>5, Paths DEF Deciding, Reading, Recorded, MeterInv, Accounted, Allowed
<1> QED BY <1>4, <1>5

\* A handler that goes on.
LEMMA MeterGoes ==
  ASSUME NEW r \in Req, MeterInv(r), Remains,
         rq'[r].body = rq[r].body, rq'[r].metering = rq[r].metering, rq'[r].gap = rq[r].gap,
         rq'[r].cap \in {rq[r].cap, cap'}, rq[r].pc # "gap_note",
         rq'[r].pc \in Path(rq[r].body.op) \ {"done", "gap_note"},
         rq'[r].pc \in Deciding => ~rq[r].metering /\ ~rq[r].gap,
         rq[r].body.op = "check" /\ rq'[r].pc \in {"spend", "record"} \union Recorded => rq[r].metering,
         rq[r].metering /\ rq'[r].pc \in Reading \union Recorded => \E x \in spend' : x.id = r,
         rq'[r].pc = "meter" => cap' # NoCap
  PROVE  MeterInv(r)' /\ Accounted(r)'
<1>1. MeterInv(r)'
  BY DEF MeterInv, Remains
<1> QED BY <1>1 DEF Accounted, Allowed

\* The others are not concerned.
LEMMA MeterOthers ==
  ASSUME NEW r \in Req, MeterInv(r), Accounted(r), rq'[r] = rq[r], Remains,
         ledger \subseteq ledger', dropped \subseteq dropped'
  PROVE  MeterInv(r)' /\ Accounted(r)'
BY DEF MeterInv, Remains, Accounted, Allowed

-----------------------------------------------------------------------------
(* What a step does to the queue and its notes.                             *)

NoteLabels == {"escalate_note", "rogue_note", "resolve_note"}
EarlyUsage == {"usage", "usage_record", "usage_note", "usage_policy", "usage_window"}
Told == {"escalate_note", "gap_note", "done"}

\* The ledger and the counts of what it lost only grow, and one request moves.
Grows(r) ==
  /\ \A s \in Req : s # r => rq'[s] = rq[s]
  /\ rq'[r].body = rq[r].body
  /\ ledger \subseteq ledger' /\ dropped \subseteq dropped'

\* A step that neither opens nor resolves nor notes an escalation.
Calm(r) ==
  /\ Grows(r) /\ esc' = esc
  /\ \A n \in ledger' : n \in ledger \/ n.type # "spend.escalation_resolved"
  /\ \/ rq'[r].pc = rq[r].pc /\ rq'[r].kind = rq[r].kind /\ rq'[r].esc = rq[r].esc
     \/ rq[r].pc \notin NoteLabels /\ rq'[r].pc \notin NoteLabels
  /\ rq'[r].rogue \subseteq rq[r].rogue \/ rq[r].pc \in EarlyUsage
  /\ rq'[r].pc \in EarlyUsage => rq[r].pc \in EarlyUsage
  /\ rq[r].pc \in Told => rq'[r].pc \in Told
  /\ rq'[r].pc = "usage_rogue" => rq'[r].rogue # {}

Keeps(r) == Remains /\ MeterInv(r)' /\ Accounted(r)'

\* A handler that ends, in these terms.
LEMMA CalmEnds ==
  ASSUME NEW r \in Req, NEW ret \in BOOLEAN, NEW q \in Frame, SameCall(q, rq[r]),
         rq'[r] = Finished(q, ret), rq[r].pc \notin NoteLabels, Grows(r), esc' = esc,
         \A n \in ledger' : n \in ledger \/ n.type # "spend.escalation_resolved"
  PROVE  Calm(r)
BY FinishedFrame DEF SameCall, Calm, NoteLabels, EarlyUsage, Told

\* One that goes on.
LEMMA CalmGoes ==
  ASSUME NEW r \in Req, Grows(r), esc' = esc,
         \A n \in ledger' : n \in ledger \/ n.type # "spend.escalation_resolved",
         rq[r].pc \notin NoteLabels \union Told, rq'[r].pc \notin NoteLabels \union {"usage_rogue"},
         rq'[r].pc \in EarlyUsage => rq[r].pc \in EarlyUsage,
         rq'[r].rogue = rq[r].rogue
  PROVE  Calm(r)
BY DEF Calm

\* A read that ends a handler, or goes on with it.
LEMMA ReadEnds ==
  ASSUME GovernorTypeOK, NEW r \in Req, MeterInv(r), NEW ret \in BOOLEAN,
         NEW q \in Frame, SameCall(q, rq[r]),
         Reads(r, Finished(q, ret)), rq[r].pc \notin NoteLabels,
         q.body.op = "check" /\ ret => (\E x \in spend : x.id = r) \/ q.cap = NoCap
  PROVE  Calm(r) /\ Keeps(r)
BY FinishedFrame, ReadTyped, CalmEnds, MeterEnds DEF SameCall, Reads, store, config, Grows, Remains, Keeps

\* A request that only reads goes on with what it read, and what it may rely on stays true.
LEMMA ReadGoes ==
  ASSUME GovernorTypeOK, NEW r \in Req, MeterInv(r), NEW f \in Frame, Reads(r, f),
         f.body = rq[r].body, f.metering = rq[r].metering, f.gap = rq[r].gap,
         f.rogue = rq[r].rogue, f.cap \in {rq[r].cap, cap},
         rq[r].pc \notin NoteLabels \union Told,
         f.pc \in Path(rq[r].body.op) \ (NoteLabels \union {"done", "gap_note", "usage_rogue"}),
         f.pc \in EarlyUsage => rq[r].pc \in EarlyUsage,
         f.pc \in Deciding => ~rq[r].metering /\ ~rq[r].gap,
         rq[r].body.op = "check" /\ f.pc \in {"spend", "record"} \union Recorded => rq[r].metering,
         rq[r].metering /\ f.pc \in Reading \union Recorded => \E x \in spend : x.id = r,
         f.pc = "meter" => cap # NoCap
  PROVE  Calm(r) /\ Keeps(r)
BY ReadTyped, CalmGoes, MeterGoes DEF Reads, store, config, Grows, Remains, Told, Keeps

\* A read of a status, and the last of them.
LEMMA ReadReads ==
  ASSUME GovernorTypeOK, NEW r \in Req, MeterInv(r), rq[r].pc \in Reading,
         NEW f \in Frame, Reads(r, f), f.pc \in Reading,
         f.body = rq[r].body, f.metering = rq[r].metering, f.gap = rq[r].gap,
         f.rogue = rq[r].rogue, f.cap \in {rq[r].cap, cap}
  PROVE  Calm(r) /\ Keeps(r)
BY OnPath, Paths, ReadGoes DEF Reading, NoteLabels, Told, EarlyUsage, Deciding, Recorded, MeterInv

\* A status call that answers leaves nothing to note.
LEMMA StatusAnswered ==
  ASSUME GovernorTypeOK, NEW r \in Req, MeterInv(r), rq[r].pc \in Reading,
         NEW q \in Frame, SameCall(q, rq[r]), Reads(r, Answered(q))
  PROVE  Calm(r) /\ Keeps(r)
<1>1. q.body.op \in {"spend", "check", "usage", "status"}
  BY OnPath DEF SameCall
<1>2. rq[r].pc \notin NoteLabels \union Told \union EarlyUsage
  BY DEF Reading, NoteLabels, Told, EarlyUsage
<1>3. /\ rq[r].metering => \E x \in spend : x.id = r
      /\ rq[r].gap => rq[r].metering
      /\ rq[r].metering => q.body.op = "check"
  BY DEF MeterInv, Reading, SameCall
<1>4. CASE q.body.op = "status"
  BY <1>2, <1>4, AnsweredFrame, ReadEnds
<1>5. CASE q.body.op # "status"
  <2> DEFINE f == Answered(q)
             next == IF q.body.op = "spend" THEN "outcome"
                     ELSE IF q.body.op = "usage" THEN "usage_end"
                     ELSE IF q.metering THEN "outcome" ELSE "check_verdict"
  <2>1. f \in Frame /\ f = [q EXCEPT !.pc = next]
    BY <1>1, <1>5, AnsweredFrame
  <2>2. /\ next \in Path(q.body.op) \ (NoteLabels \union {"done", "gap_note", "usage_rogue"})
        /\ next \notin EarlyUsage \union {"spend", "record", "meter"}
        /\ next \in Deciding => ~q.metering
        /\ next \in Recorded /\ q.body.op = "check" => q.metering
    BY <1>1, <1>5, Paths DEF Path, Recorded, Deciding, NoteLabels, EarlyUsage
  <2> HIDE DEF next
  <2>3. f.pc = next /\ SameCall(f, rq[r])
    BY <2>1 DEF Frame, SameCall
  <2> HIDE DEF f
  <2>4. Reads(r, f)
    BY DEF f
  <2> QED BY <1>2, <1>3, <2>1, <2>2, <2>3, <2>4, ReadGoes DEF SameCall
<1> QED BY <1>4, <1>5

\* The types of a frame's fields that the steps below look at.
LEMMA FrameFields ==
  ASSUME NEW q \in Frame
  PROVE  /\ \A l : LET f == [q EXCEPT !.pc = l]
                   IN f.pc = l /\ SameCall(f, q) /\ f.kind = q.kind /\ f.esc = q.esc
         /\ \A l, t : LET f == [q EXCEPT !.pc = l, !.now = t]
                      IN f.pc = l /\ SameCall(f, q)
         /\ \A l, p : LET f == [q EXCEPT !.pc = l, !.policy = p]
                      IN f.pc = l /\ SameCall(f, q)
BY DEF Frame, SameCall

\* Each read of a status is one of the two kinds above, or ends the handler.
LEMMA StatusCalm ==
  ASSUME GovernorTypeOK, NEW r \in Req, MeterInv(r), StatusStep(r)
  PROVE  Calm(r) /\ Keeps(r)
<1> DEFINE q == rq[r]
<1>q. q \in Frame
  BY DEF GovernorTypeOK
<1>l. \A l \in Reading : l \in Label
  BY DEF Reading, Label
<1>g. ASSUME q.pc \in Reading, NEW f \in Frame, Reads(r, f), f.pc \in Reading, SameCall(f, q)
      PROVE  Calm(r) /\ Keeps(r)
  BY <1>g, ReadReads DEF SameCall
<1>1. CASE GetStatus(r)
  <2>1. PICK t \in clock..MaxClock : clock' = t /\ Become(r, [q EXCEPT !.pc = "st_cap", !.now = t])
    BY <1>1 DEF GetStatus, Looks
  <2>2. t \in Nat
    BY GovernorAssumption DEF GovernorTypeOK
  <2> DEFINE f == [q EXCEPT !.pc = "st_cap", !.now = t]
  <2>3. f \in Frame /\ f.pc = "st_cap" /\ SameCall(f, q)
    <3>1. "st_cap" \in Label
      BY DEF Label
    <3>2. f \in Frame
      BY <1>q, <2>2, <3>1 DEF Frame
    <3>3. f.pc = "st_cap" /\ SameCall(f, q)
      BY <1>q DEF Frame, SameCall
    <3> QED BY <3>2, <3>3
  <2>4. Become(r, f)
    BY <2>1
  <2> HIDE DEF f
  <2>5. rq'[r] = f /\ \A s \in Req : s # r => rq'[s] = rq[s]
    BY <2>3, <2>4, BecomeFrame DEF GovernorTypeOK
  <2>6. /\ esc' = esc /\ ledger' = ledger /\ dropped' = dropped /\ spend' = spend /\ cap' = cap
        /\ q.pc = "status" /\ q.body.op = "status"
    BY <1>1, OnPath DEF GetStatus, store, config
  <2>7. Grows(r) /\ Remains
    BY <2>3, <2>5, <2>6 DEF Grows, Remains, SameCall
  <2>8. Calm(r)
    BY <2>6, <2>3, <2>5, <2>7, CalmGoes DEF NoteLabels, Told, EarlyUsage, SameCall
  <2>9. ~q.metering
    BY <2>6 DEF MeterInv
  <2>10. MeterInv(r)' /\ Accounted(r)'
    BY <2>3, <2>5, <2>6, <2>7, <2>9, MeterGoes DEF Path, Reading, Deciding, SameCall
  <2> QED BY <2>7, <2>8, <2>10 DEF Keeps
<1>2. CASE StatusCap(r)
  <2>0. q.pc = "st_cap" /\ q.pc \in Reading /\ q.body.op \in {"spend", "check", "usage", "status"}
    BY <1>2, OnPath DEF StatusCap, Reading
  <2>1. CASE cap # NoCap
    <3> DEFINE f == [q EXCEPT !.pc = "st_totals", !.cap = cap]
    <3>1. f.pc = "st_totals" /\ f.body = q.body /\ f.metering = q.metering
          /\ f.gap = q.gap /\ f.rogue = q.rogue /\ f.cap = cap
      BY <1>q DEF Frame
    <3>4. f \in Frame
      BY <1>q, FrameAt DEF Label, GovernorTypeOK
    <3>2. Reads(r, f)
      BY <1>2, <2>1 DEF StatusCap
    <3> HIDE DEF f
    <3> QED BY <2>0, <3>1, <3>2, <3>4, ReadReads DEF Reading
  <2>2. CASE cap = NoCap /\ q.body.op = "check"
    <3> DEFINE f == [q EXCEPT !.pc = "check_nocap"]
    <3>1. f \in Frame /\ f.pc = "check_nocap" /\ SameCall(f, q)
      BY <1>q, FrameAt, FrameFields DEF Label
    <3>2. Reads(r, f)
      BY <1>2, <2>2 DEF StatusCap
    <3>3. ~q.metering /\ ~q.gap
      BY <2>0, <2>2 DEF MeterInv
    <3>4. "check_nocap" \in Path("check") \ (NoteLabels \union {"done", "gap_note", "usage_rogue"})
          /\ "check_nocap" \notin EarlyUsage \union {"spend", "record", "meter"} \union Recorded
      BY DEF Path, Deciding, NoteLabels, EarlyUsage, Recorded
    <3>5. q.pc \notin NoteLabels \union Told
      BY <2>0 DEF NoteLabels, Told
    <3> HIDE DEF f
    <3> QED BY <2>2, <3>1, <3>2, <3>3, <3>4, <3>5, ReadGoes DEF SameCall
  <2>3. CASE cap = NoCap /\ q.body.op # "check"
    BY <1>2, <2>0, <2>3, <1>q, ReadEnds DEF StatusCap, NoteLabels, SameCall
  <2> QED BY <2>1, <2>2, <2>3
<1>3. CASE StatusTotals(r)
  <2> DEFINE f == [q EXCEPT !.pc = "st_usage", !.money = InWindow(q, spend)]
  <2>1. f \in Frame
    BY <1>q, StatusFrame DEF GovernorTypeOK, InWindow, Label
  <2>2. f.pc = "st_usage" /\ SameCall(f, q)
    BY <1>q DEF Frame, SameCall
  <2>3. Reads(r, f) /\ q.pc \in Reading
    BY <1>3 DEF StatusTotals, Reading
  <2> HIDE DEF f
  <2> QED BY <1>g, <2>1, <2>2, <2>3 DEF Reading
<1>4. CASE StatusUsage(r)
  <2> DEFINE f == [q EXCEPT !.pc = "st_actions", !.use = InWindow(q, usage)]
  <2>1. f \in Frame
    BY <1>q, StatusFrame DEF GovernorTypeOK, InWindow, Label
  <2>2. f.pc = "st_actions" /\ SameCall(f, q)
    BY <1>q DEF Frame, SameCall
  <2>3. Reads(r, f) /\ q.pc \in Reading
    BY <1>4 DEF StatusUsage, Reading
  <2> HIDE DEF f
  <2> QED BY <1>g, <2>1, <2>2, <2>3 DEF Reading
<1>5. CASE StatusActions(r)
  <2> DEFINE f == [q EXCEPT !.pc = "st_open", !.acts = InWindow(q, spend)]
  <2>1. f \in Frame
    BY <1>q, StatusFrame DEF GovernorTypeOK, InWindow, Label
  <2>2. f.pc = "st_open" /\ SameCall(f, q)
    BY <1>q DEF Frame, SameCall
  <2>3. Reads(r, f) /\ q.pc \in Reading
    BY <1>5 DEF StatusActions, Reading
  <2> HIDE DEF f
  <2> QED BY <1>g, <2>1, <2>2, <2>3 DEF Reading
<1>6. CASE StatusOpen(r)
  <2> DEFINE v == Evaluate(q.cap, Spent(q.money, q.use, q.acts), \E e \in esc : e.by = "none")
             s == [q EXCEPT !.state = v.state, !.kind = v.kind, !.money = {}, !.use = {}, !.acts = {}]
             l == IF ActionOf(q) = "none" THEN "st_policy" ELSE "st_rates"
  <2>1. v.state \in {"OK", "ESCALATE", "BLOCK"} /\ v.kind \in Null(EscalationKind)
    BY EvaluateTyped
  <2>2. s \in Frame /\ SameCall(s, q)
    <3> HIDE DEF v
    <3> QED BY <1>q, <2>1 DEF Frame, SameCall
  <2>3. Reads(r, IF v.state = "BLOCK" THEN Answered(s) ELSE [s EXCEPT !.pc = l])
    BY <1>6 DEF StatusOpen
  <2>4. q.pc \in Reading /\ l \in Reading
    BY <1>6 DEF StatusOpen, Reading
  <2> HIDE DEF s, v, l
  <2>5. CASE v.state = "BLOCK"
    BY <2>2, <2>3, <2>4, <2>5, StatusAnswered
  <2>6. CASE v.state # "BLOCK"
    <3> DEFINE f == [s EXCEPT !.pc = l]
    <3>1. f \in Frame /\ f.pc = l /\ SameCall(f, q)
      BY <1>l, <2>2, <2>4, FrameAt, FrameFields DEF SameCall
    <3>2. Reads(r, f)
      BY <2>3, <2>6
    <3> HIDE DEF f
    <3> QED BY <1>g, <2>4, <3>1, <3>2
  <2> QED BY <2>5, <2>6
<1>7. CASE StatusRates(r)
  <2> DEFINE todo == {l \in limits : l.action = ActionOf(q) /\ l.secs # 0}
             next == IF todo = {} THEN "st_policy" ELSE "st_window"
             f == [q EXCEPT !.todo = todo, !.pc = next]
  <2>1. todo \in SUBSET Limit /\ next \in Reading
    BY DEF GovernorTypeOK, Reading
  <2>2. Reads(r, f) /\ q.pc \in Reading
    BY <1>7 DEF StatusRates, Reading
  <2> HIDE DEF todo, next
  <2>3. f \in Frame /\ f.pc = next /\ SameCall(f, q)
    BY <1>q, <1>l, <2>1 DEF Frame, SameCall
  <2> HIDE DEF f
  <2> QED BY <1>g, <2>1, <2>2, <2>3
<1>8. CASE StatusWindow(r)
  <2>1. PICK l \in q.todo :
          LET w == [max |-> l.max, secs |-> l.secs,
                    rows |-> ActionEntries(l.action, q.now - l.secs * Second)]
          IN Reads(r, [q EXCEPT !.todo = q.todo \ {l},
                                !.exh = IF Exhausted(w) THEN q.exh \union {w} ELSE q.exh,
                                !.pc = IF q.todo = {l} THEN "st_policy" ELSE "st_window"])
    BY <1>8, Zenon DEF StatusWindow
  <2> DEFINE w == [max |-> l.max, secs |-> l.secs,
                   rows |-> ActionEntries(l.action, q.now - l.secs * Second)]
             exh == IF Exhausted(w) THEN q.exh \union {w} ELSE q.exh
             next == IF q.todo = {l} THEN "st_policy" ELSE "st_window"
             f == [q EXCEPT !.todo = q.todo \ {l}, !.exh = exh, !.pc = next]
  <2>2. q.todo \ {l} \in SUBSET Limit /\ l \in Limit /\ q.exh \in SUBSET Window
    BY <1>q, <2>1 DEF Frame
  <2>3. w \in Window
    BY <2>2, WindowTyped
  <2>4. exh \in SUBSET Window /\ next \in Reading /\ q.pc \in Reading
    <3> HIDE DEF w
    <3> QED BY <1>8, <2>2, <2>3 DEF Reading, StatusWindow
  <2>5. Reads(r, f)
    BY <2>1
  <2> HIDE DEF w, exh, next
  <2>6. f \in Frame /\ f.pc = next /\ SameCall(f, q)
    BY <1>q, <1>l, <2>2, <2>4 DEF Frame, SameCall
  <2> HIDE DEF f
  <2> QED BY <1>g, <2>4, <2>5, <2>6
<1>9. CASE StatusPolicy(r)
  <2>0. q.pc \in Reading
    BY <1>9 DEF StatusPolicy, Reading
  <2>1. CASE policy.limit = 0
    BY <1>9, <1>q, <2>0, <2>1, StatusAnswered DEF StatusPolicy, SameCall
  <2>2. CASE policy.limit # 0
    <3> DEFINE f == [q EXCEPT !.pc = "st_tokens", !.policy = policy]
    <3>1. f \in Frame /\ f.pc = "st_tokens" /\ SameCall(f, q)
      <4>1. "st_tokens" \in Label /\ policy \in Policy
        BY DEF Label, GovernorTypeOK
      <4>2. f \in Frame
        BY <1>q, <4>1 DEF Frame
      <4>3. f.pc = "st_tokens" /\ SameCall(f, q)
        BY <1>q DEF Frame, SameCall
      <4> QED BY <4>2, <4>3
    <3>2. Reads(r, f)
      BY <1>9, <2>2 DEF StatusPolicy
    <3> HIDE DEF f
    <3> QED BY <1>g, <2>0, <3>1, <3>2 DEF Reading
  <2> QED BY <2>1, <2>2
<1>10. CASE StatusTokens(r)
  <2> DEFINE w == [max |-> q.policy.limit, secs |-> q.policy.secs,
                   rows |-> TokenEntries(q.now - q.policy.secs * Second)]
             exh == IF Exhausted(w) THEN q.exh \union {w} ELSE q.exh
             f == [q EXCEPT !.policy = NoPolicy, !.exh = exh]
  <2>1. q.policy \in Policy /\ q.exh \in SUBSET Window
    BY <1>q DEF Frame
  <2>2. w \in Window
    BY <2>1, WindowTyped
  <2>3. exh \in SUBSET Window
    <3> HIDE DEF w
    <3> QED BY <2>1, <2>2
  <2>4. Reads(r, Answered(f)) /\ q.pc \in Reading
    BY <1>10 DEF StatusTokens, Reading
  <2> HIDE DEF w, exh
  <2>5. f \in Frame /\ SameCall(f, q)
    BY <1>q, <2>3, CapIsSet DEF Frame, SameCall
  <2> HIDE DEF f
  <2> QED BY <2>4, <2>5, StatusAnswered
<1> QED BY <1>1, <1>2, <1>3, <1>4, <1>5, <1>6, <1>7, <1>8, <1>9, <1>10 DEF StatusStep

-----------------------------------------------------------------------------
(* The calm steps outside a status.                                         *)

\* What such a step may do to the rows, the cap and the ledger.
Plain ==
  /\ esc' = esc /\ Remains /\ ledger \subseteq ledger' /\ dropped \subseteq dropped'
  /\ \A n \in ledger' : n \in ledger \/ n.type # "spend.escalation_resolved"

\* A note of another kind of event is plain.
LEMMA NotePlain ==
  ASSUME GovernorTypeOK, NEW svc \in {"governor", "sentinel"}, NEW e,
         e.type # "spend.escalation_resolved", Note(svc, e), UNCHANGED store
  PROVE  Plain
BY NoteTyped DEF Plain, Remains, store, config

\* A handler that ends.
LEMMA PlainEnds ==
  ASSUME GovernorTypeOK, NEW r \in Req, MeterInv(r), Plain, NEW ret \in BOOLEAN,
         NEW q \in Frame, SameCall(q, rq[r]), Become(r, Finished(q, ret)),
         rq[r].pc \notin NoteLabels,
         q.body.op = "check" /\ ret => (\E x \in spend' : x.id = r) \/ q.cap = NoCap
  PROVE  Calm(r) /\ Keeps(r)
BY FinishedFrame, BecomeFrame, CalmEnds, MeterEnds DEF SameCall, GovernorTypeOK, Grows, Plain, Keeps

\* A handler that goes on.
LEMMA PlainGoes ==
  ASSUME GovernorTypeOK, NEW r \in Req, MeterInv(r), Plain,
         NEW f \in Frame, Become(r, f), SameCall(f, rq[r]),
         rq[r].pc \notin NoteLabels \union Told,
         f.pc \in Path(rq[r].body.op) \ (NoteLabels \union {"done", "gap_note", "usage_rogue"}),
         f.pc \in EarlyUsage => rq[r].pc \in EarlyUsage,
         f.pc \in Deciding => ~rq[r].metering /\ ~rq[r].gap,
         rq[r].body.op = "check" /\ f.pc \in {"spend", "record"} \union Recorded => rq[r].metering,
         rq[r].metering /\ f.pc \in Reading \union Recorded => \E x \in spend' : x.id = r,
         f.pc = "meter" => cap' # NoCap
  PROVE  Calm(r) /\ Keeps(r)
BY BecomeFrame, CalmGoes, MeterGoes DEF GovernorTypeOK, Grows, Plain, SameCall, Told, Keeps

\* A frame that only moves on.
LEMMA MovesOn ==
  ASSUME GovernorTypeOK, NEW r \in Req, NEW l \in Label
  PROVE  LET f == [rq[r] EXCEPT !.pc = l]
         IN f \in Frame /\ f.pc = l /\ SameCall(f, rq[r])
<1>1. rq[r] \in Frame
  BY DEF GovernorTypeOK
<1> QED BY <1>1, FrameAt, FrameFields

\* The configuration is written: what it was does not matter here, as long as a cap stays one.
LEMMA ConfigCalm ==
  ASSUME GovernorTypeOK, NEW r \in Req, MeterInv(r), ConfigStep(r)
  PROVE  Calm(r) /\ Keeps(r)
<1> DEFINE q == rq[r]
<1>q. q \in Frame /\ SameCall(q, q)
  BY DEF GovernorTypeOK, SameCall
<1>e. ASSUME q.pc \in {"cap", "policy", "rates", "rates_back", "rates_note"}, Plain,
             NEW ret \in BOOLEAN, Become(r, Finished(q, ret))
      PROVE  Calm(r) /\ Keeps(r)
  BY <1>e, OnPath, <1>q, PlainEnds DEF NoteLabels
<1>g. ASSUME q.pc \in {"rates", "rates_write", "rates_back"}, Plain,
             NEW l \in {"rates_write", "rates_back", "rates_note"}, Become(r, [q EXCEPT !.pc = l])
      PROVE  Calm(r) /\ Keeps(r)
  <2>1. q.body.op = "rates" /\ ~q.metering
    BY <1>g, OnPath DEF MeterInv
  <2>2. q.pc \notin NoteLabels \union Told
    BY <1>g DEF NoteLabels, Told
  <2>3. /\ l \in Path("rates") \ (NoteLabels \union {"done", "gap_note", "usage_rogue"})
        /\ l \notin EarlyUsage \union Deciding \union {"meter"} /\ l \in Label
    BY DEF Path, NoteLabels, EarlyUsage, Deciding, Label
  <2> DEFINE f == [q EXCEPT !.pc = l]
  <2>4. f \in Frame /\ f.pc = l /\ SameCall(f, q)
    BY <2>3, MovesOn
  <2>5. Become(r, f)
    BY <1>g
  <2> HIDE DEF f
  <2> QED BY <1>g, <2>1, <2>2, <2>3, <2>4, <2>5, PlainGoes
<1>u. ASSUME NEW f, Reads(r, f) PROVE Plain /\ Become(r, f)
  BY <1>u DEF Reads, Plain, Remains, store, config
<1>1. CASE PutCap(r)
  <2>1. cap' = q.body.cap /\ q.body.cap # NoCap
    BY <1>1, OnPath, BodyTyped, CapIsSet DEF PutCap
  <2>2. Plain
    BY <1>1, <2>1 DEF PutCap, Plain, Remains
  <2> QED BY <1>1, <1>e, <2>2 DEF PutCap, Finish
<1>2. CASE PutPolicy(r)
  <2>1. Plain
    BY <1>2 DEF PutPolicy, Plain, Remains
  <2> QED BY <1>2, <1>e, <2>1 DEF PutPolicy, Finish
<1>3. CASE RatesCheck(r)
  BY <1>3, <1>e, <1>u, <1>g DEF RatesCheck
<1>4. CASE RatesWrite(r)
  <2>1. Plain
    BY <1>4 DEF RatesWrite, Plain, Remains
  <2> QED BY <1>4, <1>g, <2>1 DEF RatesWrite, Goto
<1>5. CASE RatesBack(r)
  BY <1>5, <1>g, <1>u, <1>e DEF RatesBack
<1>6. CASE RatesNote(r)
  <2>1. Plain
    BY <1>6, NotePlain DEF RatesNote, Event
  <2> QED BY <1>6, <1>e, <2>1 DEF RatesNote, Finish
<1> QED BY <1>1, <1>2, <1>3, <1>4, <1>5, <1>6 DEF ConfigStep

\* POST /spend, up to what it opens or notes.
LEMMA SpendCalm ==
  ASSUME GovernorTypeOK, NEW r \in Req, MeterInv(r),
         SpendBegin(r) \/ Record(r) \/ RecordNote(r) \/ BlockNote(r)
  PROVE  Calm(r) /\ Keeps(r)
<1> DEFINE q == rq[r]
<1>q. q \in Frame /\ SameCall(q, q)
  BY DEF GovernorTypeOK, SameCall
<1>1. CASE SpendBegin(r)
  <2>1. q.pc = "spend" /\ q.body.op \in {"spend", "check"} /\ q.pc \notin NoteLabels \union Told
    BY <1>1, OnPath DEF SpendBegin, NoteLabels, Told
  <2>2. Plain
    BY <1>1 DEF SpendBegin, Plain, Remains, store, config
  <2>3. CASE Finish(r, FALSE)
    BY <1>q, <2>1, <2>2, <2>3, PlainEnds DEF Finish
  <2>4. CASE Looks(r, [q EXCEPT !.pc = "record"])
    <3>1. PICK t \in clock..MaxClock : clock' = t /\ Become(r, [q EXCEPT !.pc = "record", !.now = t])
      BY <2>4 DEF Looks
    <3>2. t \in Nat
      BY GovernorAssumption DEF GovernorTypeOK
    <3> DEFINE f == [q EXCEPT !.pc = "record", !.now = t]
    <3>3. f \in Frame /\ f.pc = "record" /\ SameCall(f, q)
      <4>1. "record" \in Label
        BY DEF Label
      <4>2. f \in Frame
        BY <1>q, <3>2, <4>1 DEF Frame
      <4>3. f.pc = "record" /\ SameCall(f, q)
        BY <1>q DEF Frame, SameCall
      <4> QED BY <4>2, <4>3
    <3>4. Become(r, f)
      BY <3>1
    <3>5. /\ "record" \in Path(q.body.op) \ (NoteLabels \union {"done", "gap_note", "usage_rogue"})
          /\ "record" \notin EarlyUsage \union Deciding \union Reading \union Recorded \union {"meter"}
          /\ q.body.op = "check" => q.metering
      BY <2>1, Paths DEF NoteLabels, EarlyUsage, Deciding, Reading, Recorded, MeterInv
    <3> HIDE DEF f
    <3> QED BY <2>1, <2>2, <3>3, <3>4, <3>5, PlainGoes
  <2> QED BY <1>1, <2>3, <2>4 DEF SpendBegin
<1>2. CASE Record(r)
  <2>1. q.pc = "record" /\ q.body.op \in {"spend", "check"} /\ q.pc \notin NoteLabels \union Told
    BY <1>2, OnPath DEF Record, NoteLabels, Told
  <2>2. Row(r).id = r /\ (q.body.op = "check" => Row(r).source = "sentinel")
    BY DEF Row
  <2>3. Plain /\ \E x \in spend' : x.id = r
    BY <1>2, <2>2 DEF Record, Plain, Remains, config
  <2> DEFINE l == IF Row(r).source = "sentinel" THEN "st_cap" ELSE "record_note"
             f == [q EXCEPT !.pc = l]
  <2>4. /\ l \in Path(q.body.op) \ (NoteLabels \union {"done", "gap_note", "usage_rogue"})
        /\ l \notin EarlyUsage \union Deciding \union Recorded \union {"spend", "record", "meter"}
    BY <2>1, <2>2 DEF Path, NoteLabels, EarlyUsage, Deciding, Reading, Recorded
  <2>5. l \in Label
    BY DEF Label
  <2>6. Become(r, f)
    BY <1>2 DEF Record, Goto
  <2> HIDE DEF l
  <2>7. f \in Frame /\ f.pc = l /\ SameCall(f, q)
    BY <2>5, MovesOn
  <2> HIDE DEF f
  <2> QED BY <2>1, <2>3, <2>4, <2>6, <2>7, PlainGoes
<1>3. CASE RecordNote(r)
  <2>1. q.pc = "record_note" /\ q.body.op = "spend" /\ ~q.metering /\ q.pc \notin NoteLabels \union Told
    BY <1>3, OnPath DEF RecordNote, NoteLabels, Told, MeterInv
  <2>2. Plain
    BY <1>3, NotePlain DEF RecordNote, Event
  <2> DEFINE f == [q EXCEPT !.pc = "st_cap"]
  <2>3. f \in Frame /\ f.pc = "st_cap" /\ SameCall(f, q)
    BY MovesOn DEF Label
  <2>4. Become(r, f)
    BY <1>3 DEF RecordNote, Goto
  <2>5. /\ "st_cap" \in Path("spend") \ (NoteLabels \union {"done", "gap_note", "usage_rogue"})
        /\ "st_cap" \notin EarlyUsage \union Deciding \union {"meter"}
    BY DEF Path, NoteLabels, EarlyUsage, Deciding, Reading
  <2> HIDE DEF f
  <2> QED BY <2>1, <2>2, <2>3, <2>4, <2>5, PlainGoes
<1>4. CASE BlockNote(r)
  BY <1>4, NotePlain, <1>q, PlainEnds DEF BlockNote, NoteLabels, Event, MeterInv, Recorded, Plain, Remains,
    Finish
<1> QED BY <1>1, <1>2, <1>3, <1>4

\* A threshold that was not crossed, or for which an escalation is open already.
LEMMA OutcomeCalm ==
  ASSUME GovernorTypeOK, NEW r \in Req, MeterInv(r), SpendOutcome(r),
         rq[r].kind # "none" => rq[r].state # "ESCALATE" \/ Open(rq[r].kind)
  PROVE  Calm(r) /\ Keeps(r)
<1> DEFINE q == rq[r]
<1>q. q \in Frame /\ SameCall(q, q)
  BY DEF GovernorTypeOK, SameCall
<1>1. /\ q.pc = "outcome" /\ q.body.op \in {"spend", "check"} /\ q.pc \notin NoteLabels \union Told
      /\ q.body.op = "check" => q.metering /\ \E x \in spend : x.id = r
  BY OnPath DEF SpendOutcome, NoteLabels, Told, MeterInv, Recorded
<1>2. CASE Become(r, Finished(q, TRUE)) /\ UNCHANGED esc
  <2>1. Plain /\ spend' = spend
    BY <1>2 DEF SpendOutcome, Plain, Remains, config
  <2> QED BY <1>q, <1>1, <1>2, <2>1, PlainEnds
<1>3. CASE Goto(r, "block_note") /\ UNCHANGED esc
  <2>1. Plain /\ spend' = spend
    BY <1>3 DEF SpendOutcome, Plain, Remains, config
  <2> DEFINE f == [q EXCEPT !.pc = "block_note"]
  <2>2. f \in Frame /\ f.pc = "block_note" /\ SameCall(f, q)
    BY MovesOn DEF Label
  <2>3. Become(r, f)
    BY <1>3 DEF Goto
  <2>4. /\ "block_note" \in Path(q.body.op) \ (NoteLabels \union {"done", "gap_note", "usage_rogue"})
        /\ "block_note" \notin EarlyUsage \union Deciding \union {"meter"}
    BY <1>1, Paths DEF NoteLabels, EarlyUsage, Deciding, Recorded
  <2>5. q.metering => \E x \in spend : x.id = r
    BY <1>1 DEF MeterInv
  <2> HIDE DEF f
  <2> QED BY <1>1, <2>1, <2>2, <2>3, <2>4, <2>5, PlainGoes
<1> QED BY <1>2, <1>3 DEF SpendOutcome, AddIfNoneOpen, Finish

\* POST /usage, up to what it opens or notes as rogue.
LEMMA UsageCalm ==
  ASSUME GovernorTypeOK, NEW r \in Req, MeterInv(r),
         \/ UsageBegin(r) \/ UsageRecord(r) \/ UsageNote(r) \/ UsagePolicy(r) \/ UsageWindow(r)
         \/ UsageEnd(r)
  PROVE  Calm(r) /\ Keeps(r)
<1> DEFINE q == rq[r]
<1>q. q \in Frame /\ SameCall(q, q)
  BY DEF GovernorTypeOK, SameCall
<1>o. /\ q.body.op = "usage" /\ ~q.metering /\ ~q.gap
      /\ q.pc \in EarlyUsage \union {"usage_end"} /\ q.pc \notin NoteLabels \union Told
  BY OnPath DEF UsageBegin, UsageRecord, UsageNote, UsagePolicy, UsageWindow, UsageEnd, MeterInv,
                EarlyUsage, NoteLabels, Told
<1>g. ASSUME q.pc \in EarlyUsage, Plain, NEW l \in {"usage_record", "usage_note", "usage_policy", "usage_window"},
             NEW f \in Frame, f.pc = l, SameCall(f, q), Become(r, f)
      PROVE  Calm(r) /\ Keeps(r)
  BY <1>g, <1>o, PlainGoes DEF Path, NoteLabels, Deciding
<1>e. ASSUME Plain, NEW ret \in BOOLEAN, Become(r, Finished(q, ret))
      PROVE  Calm(r) /\ Keeps(r)
  BY <1>e, <1>q, <1>o, PlainEnds
<1>1. CASE UsageBegin(r)
  <2>1. Plain /\ q.pc \in EarlyUsage
    BY <1>1 DEF UsageBegin, Plain, Remains, store, config, EarlyUsage
  <2>2. CASE Finish(r, FALSE)
    BY <1>e, <2>1, <2>2 DEF Finish
  <2>3. CASE Looks(r, [q EXCEPT !.pc = "usage_record"])
    <3>1. PICK t \in clock..MaxClock : clock' = t /\ Become(r, [q EXCEPT !.pc = "usage_record", !.now = t])
      BY <2>3 DEF Looks
    <3>2. t \in Nat
      BY GovernorAssumption DEF GovernorTypeOK
    <3> DEFINE f == [q EXCEPT !.pc = "usage_record", !.now = t]
    <3>3. "usage_record" \in Label
      BY DEF Label
    <3>4. f \in Frame
      BY <1>q, <3>2, <3>3 DEF Frame
    <3>5. f.pc = "usage_record" /\ SameCall(f, q)
      BY <1>q DEF Frame, SameCall
    <3>6. Become(r, f)
      BY <3>1
    <3> HIDE DEF f
    <3> QED BY <1>g, <2>1, <3>4, <3>5, <3>6
  <2> QED BY <1>1, <2>2, <2>3 DEF UsageBegin
<1>2. CASE UsageRecord(r)
  BY <1>2, <1>g, MovesOn DEF UsageRecord, Plain, Remains, config, EarlyUsage, Goto, Label
<1>3. CASE UsageNote(r)
  BY <1>3, NotePlain, <1>g, MovesOn DEF UsageNote, Event, EarlyUsage, Goto, Label
<1>4. CASE UsagePolicy(r)
  <2>1. Plain /\ q.pc \in EarlyUsage
    BY <1>4 DEF UsagePolicy, Reads, Plain, Remains, store, config, EarlyUsage
  <2> DEFINE f == [q EXCEPT !.pc = "usage_window", !.policy = policy]
  <2>2. "usage_window" \in Label /\ policy \in Policy
    BY DEF Label, GovernorTypeOK
  <2>3. f \in Frame
    BY <1>q, <2>2 DEF Frame
  <2>4. f.pc = "usage_window" /\ SameCall(f, q)
    BY <1>q DEF Frame, SameCall
  <2>5. Become(r, f)
    BY <1>4 DEF UsagePolicy, Reads
  <2> HIDE DEF f
  <2> QED BY <1>g, <2>1, <2>3, <2>4, <2>5
<1>5. CASE UsageWindow(r)
  <2> DEFINE found == Findings(q.policy, q.body.model,
                               Tokens({}, {x \in usage : x.ts >= q.now - q.policy.secs * Second}))
             next == IF found = {} THEN "st_cap" ELSE "usage_rogue"
             f == [q EXCEPT !.policy = NoPolicy, !.rogue = found, !.pc = next]
  <2>1. found \in SUBSET Rogue
    BY DEF Findings, Rogue
  <2>2. next \in Label /\ next \in {"st_cap", "usage_rogue"} /\ (next = "usage_rogue" => found # {})
    BY DEF Label
  <2>3. Reads(r, f)
    BY <1>5 DEF UsageWindow
  <2> HIDE DEF found, next
  <2>4. f \in Frame
    BY <1>q, <2>1, <2>2, CapIsSet DEF Frame
  <2>5. /\ f.pc = next /\ f.body = q.body /\ f.metering = q.metering /\ f.gap = q.gap
        /\ f.cap = q.cap /\ f.rogue = found
    BY <1>q DEF Frame
  <2> HIDE DEF f
  <2>6. rq'[r] = f /\ \A s \in Req : s # r => rq'[s] = rq[s]
    BY <2>3, <2>4, ReadTyped
  <2>7. /\ esc' = esc /\ ledger' = ledger /\ dropped' = dropped /\ spend' = spend /\ cap' = cap
        /\ q.pc \in EarlyUsage
    BY <1>5, <2>3 DEF UsageWindow, Reads, store, config, EarlyUsage
  <2>8. Grows(r) /\ Remains
    BY <2>5, <2>6, <2>7 DEF Grows, Remains
  <2>9. next \in Path("usage") /\ next \notin NoteLabels \union {"done", "gap_note", "meter"} \union EarlyUsage \union Deciding
    BY <2>2 DEF Path, Reading, NoteLabels, EarlyUsage, Deciding
  <2>10. Calm(r)
    BY <1>o, <2>2, <2>5, <2>6, <2>7, <2>8, <2>9 DEF Calm
  <2>11. MeterInv(r)' /\ Accounted(r)'
    BY <1>o, <2>5, <2>6, <2>8, <2>9, MeterGoes DEF Told
  <2> QED BY <2>8, <2>10, <2>11 DEF Keeps
<1>6. CASE UsageEnd(r)
  <2>1. Plain /\ spend' = spend
    BY <1>6 DEF UsageEnd, Reads, Plain, Remains, store, config
  <2>2. CASE Verdict(q) = "BLOCK"
    <3> DEFINE f == [q EXCEPT !.pc = "block_note"]
    <3>1. f \in Frame /\ f.pc = "block_note" /\ SameCall(f, q)
      BY MovesOn DEF Label
    <3>2. Become(r, f)
      BY <1>6, <2>2 DEF UsageEnd, Reads
    <3>3. /\ "block_note" \in Path("usage") \ (NoteLabels \union {"done", "gap_note", "usage_rogue"})
          /\ "block_note" \notin EarlyUsage \union Deciding \union {"meter"}
      BY DEF Path, NoteLabels, EarlyUsage, Deciding
    <3> HIDE DEF f
    <3> QED BY <1>o, <2>1, <3>1, <3>2, <3>3, PlainGoes
  <2>3. CASE Verdict(q) # "BLOCK"
    BY <1>6, <2>3, <1>e, <2>1 DEF UsageEnd, Reads
  <2> QED BY <2>2, <2>3
<1> QED BY <1>1, <1>2, <1>3, <1>4, <1>5, <1>6

\* A resolution that comes too late, or finds nothing to resolve.
LEMMA ResolveCalm ==
  ASSUME GovernorTypeOK, NEW r \in Req, MeterInv(r), rq[r].pc = "resolve",
         NEW ret \in BOOLEAN, Finish(r, ret), UNCHANGED <<config, spend, usage, esc, ledger, dropped>>
  PROVE  Calm(r) /\ Keeps(r)
BY OnPath, PlainEnds DEF GovernorTypeOK, SameCall, NoteLabels, Plain, Remains, config, Finish

\* POST /check: what it has been allowed is metered, or its gap is noted.
LEMMA CheckCalm ==
  ASSUME GovernorTypeOK, NEW r \in Req, MeterInv(r), CheckStep(r),
         rq[r].pc = "usage_rogue" => rq[r].rogue # {}
  PROVE  Calm(r) /\ Keeps(r)
<1> DEFINE q == rq[r]
<1>q. q \in Frame /\ SameCall(q, q)
  BY DEF GovernorTypeOK, SameCall
<1>d. \A l \in Deciding : l \notin NoteLabels \union Told \union EarlyUsage \union Reading \union Recorded
                                     \union {"done", "gap_note", "usage_rogue", "spend", "record"}
  BY DEF Deciding, NoteLabels, Told, EarlyUsage, Reading, Recorded
\* A refusal.
<1>e. ASSUME q.pc \in Deciding, Plain, NEW f \in Frame, SameCall(f, q), Become(r, Finished(f, FALSE))
      PROVE  Calm(r) /\ Keeps(r)
  BY <1>e, <1>d, PlainEnds
\* A step to the next of its own reads.
<1>g. ASSUME q.pc \in Deciding, q.body.op = "check", Plain,
             NEW f \in Frame, SameCall(f, q), f.pc \in Deciding \ {"meter"}, Become(r, f)
      PROVE  Calm(r) /\ Keeps(r)
  BY <1>g, Paths, <1>d, PlainGoes DEF MeterInv
<1>w. ASSUME q.pc \in Deciding, q.body.op = "check", Plain,
             NEW f \in Frame, SameCall(f, q), Become(r, Decided(f))
      PROVE  Calm(r) /\ Keeps(r)
  <2>1. CASE Verdict(f) = "OK"
    <3> DEFINE g == [f EXCEPT !.pc = "check_allow"]
    <3>1. g \in Frame /\ g.pc = "check_allow" /\ SameCall(g, q)
      <4>1. "check_allow" \in Label
        BY DEF Label
      <4> QED BY <1>w, <4>1, FrameAt, FrameFields DEF SameCall
    <3>2. Become(r, g)
      BY <1>w, <2>1 DEF Decided
    <3> HIDE DEF g
    <3> QED BY <1>w, <1>g, <3>1, <3>2 DEF Deciding
  <2>2. CASE Verdict(f) # "OK"
    BY <1>w, <1>e, <2>2 DEF Decided
  <2> QED BY <2>1, <2>2
<1>u. ASSUME NEW f, Reads(r, f) PROVE Plain /\ Become(r, f)
  BY <1>u DEF Reads, Plain, Remains, store, config
<1>o. q.pc \in Deciding => q.body.op = "check"
  BY OnPath, BodyTyped DEF Deciding, MeterInv, Path, Reading, Recorded
<1>1. CASE CheckStatus(r)
  <2>1. Plain /\ q.pc \in Deciding
    BY <1>1 DEF CheckStatus, Plain, Remains, store, config, Deciding
  <2>2. CASE Refuse(r)
    BY <1>e, <1>q, <2>1, <2>2 DEF Refuse, Finish
  <2>3. CASE \E t \in clock..MaxClock :
               Become(r, [q EXCEPT !.pc = "st_cap", !.now = t,
                                   !.base = [money |-> spend, use |-> usage, at |-> t]])
    <3>1. PICK t \in clock..MaxClock :
            Become(r, [q EXCEPT !.pc = "st_cap", !.now = t,
                                !.base = [money |-> spend, use |-> usage, at |-> t]])
      BY <2>3
    <3>2. t \in Nat
      BY GovernorAssumption DEF GovernorTypeOK
    <3> DEFINE base == [money |-> spend, use |-> usage, at |-> t]
               f == [q EXCEPT !.pc = "st_cap", !.now = t, !.base = base]
    <3>3. f \in Frame
      BY <1>q, <3>2, CheckFrame
    <3>4. Become(r, f)
      BY <3>1
    <3> HIDE DEF base
    <3>5. f.pc = "st_cap" /\ SameCall(f, q)
      BY <1>q DEF Frame, SameCall
    <3>6. ~q.metering /\ ~q.gap
      BY <2>1 DEF MeterInv
    <3>7. /\ "st_cap" \in Path("check") \ (NoteLabels \union {"done", "gap_note", "usage_rogue"})
          /\ "st_cap" \notin EarlyUsage \union Deciding \union Recorded \union {"spend", "record", "meter"}
      BY DEF Path, Reading, NoteLabels, EarlyUsage, Deciding, Recorded
    <3> HIDE DEF f
    <3> QED BY <1>d, <1>o, <2>1, <3>3, <3>4, <3>5, <3>6, <3>7, PlainGoes
  <2> QED BY <1>1, <2>2, <2>3 DEF CheckStatus
<1>2. CASE CheckNoCap(r)
  <2>1. q.pc \in Deciding
    BY <1>2 DEF CheckNoCap, Deciding
  <2>2. CASE Reads(r, Finished(q, FALSE))
    BY <1>e, <1>q, <1>u, <2>1, <2>2
  <2>3. CASE Reads(r, [q EXCEPT !.pc = "check_allow"])
    <3> DEFINE f == [q EXCEPT !.pc = "check_allow"]
    <3>1. f \in Frame /\ f.pc = "check_allow" /\ SameCall(f, q)
      BY MovesOn DEF Label
    <3>2. Plain /\ Become(r, f)
      BY <1>u, <2>3
    <3> HIDE DEF f
    <3> QED BY <1>g, <1>o, <2>1, <3>1, <3>2 DEF Deciding
  <2> QED BY <1>2, <2>2, <2>3 DEF CheckNoCap
<1>3. CASE CheckVerdict(r)
  <2>1. q.pc \in Deciding
    BY <1>3 DEF CheckVerdict, Deciding
  <2>2. CASE Reads(r, Decided(q))
    BY <1>w, <1>o, <1>q, <1>u, <2>1, <2>2
  <2>3. CASE Reads(r, [q EXCEPT !.pc = "ceiling"])
    <3> DEFINE f == [q EXCEPT !.pc = "ceiling"]
    <3>1. f \in Frame /\ f.pc = "ceiling" /\ SameCall(f, q)
      BY MovesOn DEF Label
    <3>2. Plain /\ Become(r, f)
      BY <1>u, <2>3
    <3> HIDE DEF f
    <3> QED BY <1>g, <1>o, <2>1, <3>1, <3>2 DEF Deciding
  <2> QED BY <1>3, <2>2, <2>3 DEF CheckVerdict
<1>4. CASE CeilingTotals(r)
  <2>1. Plain /\ q.pc \in Deciding
    BY <1>4 DEF CeilingTotals, Plain, Remains, store, config, Deciding
  <2>2. CASE Refuse(r)
    BY <1>e, <1>q, <2>1, <2>2 DEF Refuse, Finish
  <2>3. CASE Become(r, [q EXCEPT !.pc = "ceiling_usage", !.money = spend])
    <3> DEFINE f == [q EXCEPT !.pc = "ceiling_usage", !.money = spend]
    <3>1. f \in Frame
      BY <1>q, CheckFrame
    <3>2. f.pc = "ceiling_usage" /\ SameCall(f, q)
      BY <1>q DEF Frame, SameCall
    <3>3. Become(r, f)
      BY <2>3
    <3> HIDE DEF f
    <3> QED BY <1>g, <1>o, <2>1, <3>1, <3>2, <3>3 DEF Deciding
  <2> QED BY <1>4, <2>2, <2>3 DEF CeilingTotals
<1>5. CASE CeilingUsage(r)
  <2> DEFINE f == [q EXCEPT !.money = {}]
  <2>1. f \in Frame
    BY <1>q, CheckFrame
  <2>2. SameCall(f, q)
    BY <1>q DEF Frame, SameCall
  <2>3. q.pc \in Deciding /\ Reads(r, IF Cents(q.money, usage) >= f.body.ceiling
                                       THEN Finished(f, FALSE) ELSE Decided(f))
    BY <1>5 DEF CeilingUsage, Deciding
  <2> HIDE DEF f
  <2>4. CASE Reads(r, Finished(f, FALSE))
    BY <1>e, <1>u, <2>1, <2>2, <2>3, <2>4
  <2>5. CASE Reads(r, Decided(f))
    BY <1>w, <1>o, <1>u, <2>1, <2>2, <2>3, <2>5
  <2> QED BY <2>3, <2>4, <2>5
<1>6. CASE CheckAllow(r)
  <2> DEFINE e == Event("conformance.allow", <<r>>, "none")
  <2>0. ledger' \subseteq ledger \union {e} /\ ledger \subseteq ledger'
    BY <1>6 DEF CheckAllow
  <2>1. Plain /\ q.pc \in Deciding
    BY <1>6, <2>0 DEF CheckAllow, Plain, Remains, store, config, Deciding, Event
  <2>2. CASE Refuse(r)
    BY <1>e, <1>q, <2>1, <2>2 DEF Refuse, Finish
  <2>3. CASE q.cap = NoCap /\ Finish(r, TRUE)
    BY <1>q, <1>d, <2>1, <2>3, PlainEnds DEF Finish
  <2>4. CASE q.cap # NoCap /\ Goto(r, "meter")
    <3> DEFINE f == [q EXCEPT !.pc = "meter"]
    <3>1. f \in Frame /\ f.pc = "meter" /\ SameCall(f, q)
      BY MovesOn DEF Label
    <3>2. Become(r, f)
      BY <2>4 DEF Goto
    <3>3. ~q.metering /\ ~q.gap /\ cap' # NoCap
      BY <2>1, <2>4 DEF MeterInv, Plain, Remains
    <3>4. "meter" \in Path("check") /\ "meter" \in Deciding
      BY DEF Path, Deciding
    <3> HIDE DEF f
    <3> QED BY <1>d, <1>o, <2>1, <3>1, <3>2, <3>3, <3>4, PlainGoes
  <2> QED BY <1>6, <2>2, <2>3, <2>4 DEF CheckAllow
<1>7. CASE Meter(r)
  <2>1. q.pc = "meter" /\ q.pc \in Deciding /\ q.body.op = "check" /\ ~q.metering /\ ~q.gap /\ cap # NoCap
    BY <1>7, <1>o DEF Meter, MeterInv, Deciding
  <2>2. Plain /\ spend' = spend /\ cap' = cap
    BY <1>7 DEF Meter, Plain, Remains, store, config
  <2> DEFINE go == [q EXCEPT !.pc = "spend", !.metering = TRUE, !.exh = {}]
             lost == [q EXCEPT !.pc = "gap_note", !.gap = TRUE]
  <2>3. go \in Frame /\ lost \in Frame
    BY <1>q, CheckFrame
  <2>4. /\ go.pc = "spend" /\ go.metering /\ go.gap = q.gap /\ go.body = q.body /\ go.cap = q.cap
        /\ go.rogue = q.rogue
    BY <1>q DEF Frame
  <2>5. /\ lost.pc = "gap_note" /\ lost.gap /\ lost.metering = q.metering /\ lost.body = q.body
        /\ lost.cap = q.cap /\ lost.rogue = q.rogue
    BY <1>q DEF Frame
  <2>6. Become(r, go) \/ Become(r, lost)
    BY <1>7 DEF Meter
  <2> HIDE DEF go, lost
  <2>7. rq'[r] \in {go, lost} /\ \A s \in Req : s # r => rq'[s] = rq[s]
    BY <2>3, <2>6, BecomeFrame DEF GovernorTypeOK
  <2>8. rq'[r].body = q.body /\ rq'[r].cap = q.cap /\ rq'[r].rogue = q.rogue
        /\ rq'[r].pc \in {"spend", "gap_note"}
    BY <2>4, <2>5, <2>7
  <2>9. Grows(r) /\ Remains
    BY <2>2, <2>7, <2>8 DEF Grows, Plain
  <2>10. Calm(r)
    BY <1>d, <2>1, <2>2, <2>8, <2>9 DEF NoteLabels, EarlyUsage, Calm, Plain
  <2>11. MeterInv(r)' /\ Accounted(r)'
    BY <2>1, <2>4, <2>5, <2>7, <2>2, <2>8 DEF Deciding, Reading, Recorded, Path, MeterInv, Accounted, Allowed
  <2> QED BY <2>9, <2>10, <2>11 DEF Keeps
<1>8. CASE MeterTimeout(r)
  <2>1. Plain /\ spend' = spend /\ cap' = cap /\ q.metering
    BY <1>8 DEF MeterTimeout, Plain, Remains, store, config
  <2> DEFINE f == [q EXCEPT !.gap = TRUE]
  <2>2. f \in Frame
    BY <1>q, CheckFrame
  <2>3. /\ f.pc = q.pc /\ f.gap /\ f.metering = q.metering /\ f.body = q.body /\ f.cap = q.cap
        /\ f.rogue = q.rogue /\ f.kind = q.kind /\ f.esc = q.esc
    BY <1>q DEF Frame
  <2>4. Become(r, f)
    BY <1>8 DEF MeterTimeout
  <2> HIDE DEF f
  <2>5. rq'[r] = f /\ \A s \in Req : s # r => rq'[s] = rq[s]
    BY <2>2, <2>4, BecomeFrame DEF GovernorTypeOK
  <2>6. Grows(r) /\ Remains
    BY <2>1, <2>3, <2>5 DEF Grows, Plain
  <2>7. Calm(r)
    BY <2>1, <2>3, <2>5, <2>6 DEF Calm, Plain
  <2>8. MeterInv(r)'
    BY <2>1, <2>3, <2>5 DEF MeterInv
  <2>9. Accounted(r)'
    BY <2>1, <2>3, <2>5 DEF Accounted, Allowed, MeterInv
  <2> QED BY <2>6, <2>7, <2>8, <2>9 DEF Keeps
<1>9. CASE GapNote(r)
  <2> DEFINE e == Event("sentinel.metering_gap", <<r>>, "none")
             g == [q EXCEPT !.gap = FALSE]
             f == Finished(g, TRUE)
  <2>1. /\ ledger' \subseteq ledger \union {e} /\ ledger \subseteq ledger' /\ dropped \subseteq dropped'
        /\ e \in ledger' \/ "sentinel" \in dropped'
    BY <1>9 DEF GapNote
  <2>2. Plain /\ spend' = spend /\ cap' = cap /\ q.pc = "gap_note"
    BY <1>9, <2>1 DEF GapNote, Plain, Remains, store, config, Event
  <2>3. g \in Frame
    BY <1>q, CheckFrame
  <2>4. ~g.gap /\ g.body = q.body /\ g.cap = q.cap
    BY <1>q DEF Frame
  <2>5. Become(r, f)
    BY <1>9 DEF GapNote
  <2> HIDE DEF g
  <2>6. f \in Frame /\ f.body = q.body /\ f.cap = q.cap /\ f.pc = "done" /\ ~f.metering /\ ~f.gap /\ f.rogue = {}
    BY <2>3, <2>4, FinishedFrame
  <2> HIDE DEF f
  <2>7. rq'[r] = f /\ \A s \in Req : s # r => rq'[s] = rq[s]
    BY <2>5, <2>6, BecomeFrame DEF GovernorTypeOK
  <2>8. Grows(r) /\ Remains
    BY <2>2, <2>6, <2>7 DEF Grows, Plain
  <2>9. Calm(r)
    BY <2>2, <2>6, <2>7, <2>8 DEF Calm, Plain, NoteLabels, EarlyUsage, Told
  <2>10. MeterInv(r)'
    BY <2>2, <2>6, <2>7, Paths DEF Deciding, Reading, Recorded, MeterInv
  <2>11. Accounted(r)'
    BY <2>1 DEF Accounted
  <2> QED BY <2>8, <2>9, <2>10, <2>11 DEF Keeps
<1> QED BY <1>1, <1>2, <1>3, <1>4, <1>5, <1>6, <1>7, <1>8, <1>9 DEF CheckStep

-----------------------------------------------------------------------------
(* What the queue and its notes come to.                                    *)

Queued == EscalationsLedgered /\ QueueTold

\* What a note of an escalation, and one of its resolution, comes to.
OpeningTold(e) ==
  \/ \E n \in ledger : n.type \in {"spend.escalate", "usage.rogue"} /\ n.about = e.id
  \/ AboutTo({"escalate_note", "rogue_note"}, e.id) \/ dropped # {}
ResolvingTold(e) ==
  e.by # "none" =>
    \/ Event("spend.escalation_resolved", e.id, e.by) \in ledger
    \/ AboutTo({"resolve_note"}, e.id) \/ dropped # {}

\* A handler that is about to note goes on being that, when another one moves.
LEMMA AboutToStays ==
  ASSUME NEW r \in Req, Grows(r), NEW labels, NEW id,
         \E s \in Req \ {r} : rq[s].pc \in labels /\
                                id = IF rq[s].pc = "resolve_note" THEN rq[s].esc ELSE <<s, rq[s].kind>>
  PROVE  AboutTo(labels, id)'
BY DEF AboutTo, Grows

\* So does one that is about another kind of note than the mover.
LEMMA AboutToOthers ==
  ASSUME NEW r \in Req, Grows(r), NEW labels, rq[r].pc \notin labels, NEW id, AboutTo(labels, id)
  PROVE  AboutTo(labels, id)'
BY AboutToStays DEF AboutTo

\* The mover's own: it is about to note as before, or it was not and is not.
LEMMA TellingStays ==
  ASSUME NEW r \in Req, Grows(r), NEW e, NEW f,
         f.id = e.id, f.by = e.by, OpeningTold(e) /\ ResolvingTold(e),
         \/ rq'[r].pc = rq[r].pc /\ rq'[r].kind = rq[r].kind /\ rq'[r].esc = rq[r].esc
         \/ rq[r].pc \notin NoteLabels
  PROVE  OpeningTold(f)' /\ ResolvingTold(f)'
<1>1. ASSUME NEW labels \in SUBSET NoteLabels, AboutTo(labels, e.id) PROVE AboutTo(labels, e.id)'
  BY <1>1, AboutToStays DEF AboutTo
<1>2. {"escalate_note", "rogue_note"} \in SUBSET NoteLabels /\ {"resolve_note"} \in SUBSET NoteLabels
  BY DEF NoteLabels
<1>3. ledger \subseteq ledger' /\ (dropped # {} => dropped' # {})
  BY DEF Grows
<1>4. OpeningTold(f)'
  BY <1>1, <1>2, <1>3 DEF OpeningTold
<1>5. ResolvingTold(f)'
  BY <1>1, <1>2, <1>3 DEF ResolvingTold, Event
<1> QED BY <1>4, <1>5

\* The same of all the queue.
LEMMA QueuedParts ==
  Queued <=>
    /\ \A e \in esc : OpeningTold(e) /\ ResolvingTold(e) /\ e.id = <<e.id[1], e.kind>> /\ OpenedBy(e, e.id[1])
    /\ \A e, f \in esc : e.id = f.id => e = f
    /\ \A n \in ledger : n.type = "spend.escalation_resolved" =>
         n.by # "none" /\ \E e \in esc : e.id = n.about /\ e.by = n.by
    /\ \A r \in Req : rq[r].pc = "usage_rogue" => rq[r].rogue # {}
    /\ \A r \in Req : rq[r].pc = "resolve_note" =>
         \E e \in esc : e.id = rq[r].esc /\ e.by = rq[r].body.human
BY DEF Queued, EscalationsLedgered, QueueTold, OpeningTold, ResolvingTold

\* Who opened an escalation has gone on from there.
LEMMA OpenedStays ==
  ASSUME NEW r \in Req, Grows(r), NEW e, OpenedBy(e, e.id[1]), e.id[1] \in Req,
         rq'[r].rogue \subseteq rq[r].rogue \/ rq[r].pc \in EarlyUsage,
         rq'[r].pc \in EarlyUsage => rq[r].pc \in EarlyUsage,
         rq[r].pc \in Told => rq'[r].pc \in Told
  PROVE  OpenedBy(e, e.id[1])'
<1>1. CASE e.id[1] = r
  <2>1. rq'[r].body = rq[r].body
    BY DEF Grows
  <2> QED BY <1>1, <2>1 DEF OpenedBy, Told, EarlyUsage
<1>2. CASE e.id[1] # r
  BY <1>2 DEF OpenedBy, Grows
<1> QED BY <1>1, <1>2

\* An escalation is known by the request that opened it.
LEMMA EscalationIds ==
  ASSUME GovernorTypeOK, NEW e \in esc
  PROVE  /\ e.id[1] \in Req /\ e.kind \in EscalationKind /\ e.by \in Null(Humans)
         /\ e = [id |-> e.id, kind |-> e.kind, by |-> e.by]
BY DEF GovernorTypeOK, EscalationId

\* A calm step leaves the queue and its notes as they were.
LEMMA CalmKeeps ==
  ASSUME GovernorTypeOK, Queued, NEW r \in Req, Calm(r)
  PROVE  Queued'
BY QueuedParts, TellingStays, OpenedStays, EscalationIds DEF Calm, Grows, NoteLabels, Queued,
  EscalationsLedgered, QueueTold, OpeningTold, ResolvingTold

\* An escalation is opened by a request that has not opened one of the kind before.
LEMMA OpeningKeeps ==
  ASSUME GovernorTypeOK, Queued, NEW r \in Req, Grows(r), NEW k \in EscalationKind,
         esc' = esc \union {[id |-> <<r, k>>, kind |-> k, by |-> "none"]}, ledger' = ledger,
         rq'[r].kind = k,
         \/ /\ rq[r].body.op \in {"spend", "check"} /\ rq[r].pc = "outcome"
            /\ rq'[r].pc = "escalate_note" /\ rq'[r].rogue = rq[r].rogue
         \/ /\ rq[r].body.op = "usage" /\ rq[r].pc = "usage_rogue" /\ k \in rq[r].rogue
            /\ rq'[r].pc = "rogue_note" /\ rq'[r].rogue = rq[r].rogue \ {k}
  PROVE  Queued'
<1> DEFINE new == [id |-> <<r, k>>, kind |-> k, by |-> "none"]
<1>0. esc' = esc \union {new} /\ new.id = <<r, k>> /\ new.kind = k /\ new.by = "none"
  OBVIOUS
<1> HIDE DEF new
<1>p. /\ rq[r].pc \notin NoteLabels \union EarlyUsage \union Told
      /\ rq'[r].pc \notin EarlyUsage \union {"usage_rogue", "resolve_note"}
  BY DEF NoteLabels, EarlyUsage, Told
<1>1. \A e \in esc : e.id # <<r, k>>
  BY QueuedParts, <1>p DEF OpenedBy, Told
<1>2. \A e \in esc : OpeningTold(e)' /\ ResolvingTold(e)'
  BY <1>p, QueuedParts, TellingStays
<1>3. OpeningTold(new)' /\ ResolvingTold(new)'
  BY <1>0 DEF OpeningTold, ResolvingTold, AboutTo
<1>4. \A e \in esc : e.id = <<e.id[1], e.kind>> /\ OpenedBy(e, e.id[1])'
  BY <1>p, QueuedParts, OpenedStays, EscalationIds
<1>5. new.id = <<new.id[1], new.kind>> /\ OpenedBy(new, new.id[1])'
  BY <1>0, <1>p DEF OpenedBy, Grows, EarlyUsage
<1>6. \A n \in ledger' : n.type = "spend.escalation_resolved" =>
        n.by # "none" /\ \E e \in esc' : e.id = n.about /\ e.by = n.by
  BY <1>0, QueuedParts
<1>7. \A s \in Req : rq'[s].pc = "usage_rogue" => rq'[s].rogue # {}
  BY <1>p, QueuedParts DEF Grows
<1>8. \A s \in Req : rq'[s].pc = "resolve_note" =>
        \E e \in esc' : e.id = rq'[s].esc /\ e.by = rq'[s].body.human
  BY <1>0, <1>p, QueuedParts DEF Grows
<1>9. \A e, f \in esc' : e.id = f.id => e = f
  BY <1>0, <1>1, QueuedParts
<1> QED BY <1>0, <1>2, <1>3, <1>4, <1>5, <1>6, <1>7, <1>8, <1>9
  DEF Queued, EscalationsLedgered, QueueTold, OpeningTold, ResolvingTold

\* The note of an escalation arrives, or its loss is counted.
LEMMA NotingKeeps ==
  ASSUME GovernorTypeOK, Queued, NEW r \in Req, Grows(r), esc' = esc,
         rq[r].pc \in {"escalate_note", "rogue_note"}, rq'[r].pc \notin NoteLabels \union EarlyUsage,
         rq[r].pc \in Told => rq'[r].pc \in Told,
         rq'[r].rogue \subseteq rq[r].rogue, rq'[r].pc = "usage_rogue" => rq'[r].rogue # {},
         \A n \in ledger' : n \in ledger \/ n.type # "spend.escalation_resolved",
         \/ \E n \in ledger' : n.type \in {"spend.escalate", "usage.rogue"} /\ n.about = <<r, rq[r].kind>>
         \/ dropped' # {}
  PROVE  Queued'
<1>1. \A e \in esc : OpeningTold(e)' /\ ResolvingTold(e)'
  <2> SUFFICES ASSUME NEW e \in esc PROVE OpeningTold(e)' /\ ResolvingTold(e)'
    OBVIOUS
  <2>1. OpeningTold(e) /\ ResolvingTold(e) /\ ledger \subseteq ledger' /\ (dropped # {} => dropped' # {})
    BY QueuedParts DEF Grows
  <2>2. OpeningTold(e)'
    <3>1. CASE AboutTo({"escalate_note", "rogue_note"}, e.id)
      <4>1. PICK s \in Req : rq[s].pc \in {"escalate_note", "rogue_note"} /\ e.id = <<s, rq[s].kind>>
        BY <3>1 DEF AboutTo
      <4>2. CASE s = r
        BY <4>1, <4>2 DEF OpeningTold
      <4>3. CASE s # r
        BY <4>1, <4>3, AboutToStays DEF OpeningTold
      <4> QED BY <4>2, <4>3
    <3> QED BY <2>1, <3>1 DEF OpeningTold
  <2>3. AboutTo({"resolve_note"}, e.id) => AboutTo({"resolve_note"}, e.id)'
    BY AboutToOthers
  <2>4. ResolvingTold(e)'
    BY <2>1, <2>3 DEF ResolvingTold, Event
  <2> QED BY <2>2, <2>4
<1>2. \A e \in esc : e.id = <<e.id[1], e.kind>> /\ OpenedBy(e, e.id[1])'
  BY QueuedParts, OpenedStays, EscalationIds
<1>3. \A n \in ledger' : n.type = "spend.escalation_resolved" =>
        n.by # "none" /\ \E e \in esc' : e.id = n.about /\ e.by = n.by
  BY QueuedParts
<1>4. \A s \in Req : rq'[s].pc = "usage_rogue" => rq'[s].rogue # {}
  BY QueuedParts DEF Grows
<1>5. \A s \in Req : rq'[s].pc = "resolve_note" =>
        \E e \in esc' : e.id = rq'[s].esc /\ e.by = rq'[s].body.human
  BY QueuedParts DEF Grows, NoteLabels
<1>6. \A e, f \in esc' : e.id = f.id => e = f
  BY QueuedParts
<1> QED BY <1>1, <1>2, <1>3, <1>4, <1>5, <1>6
  DEF Queued, EscalationsLedgered, QueueTold, OpeningTold, ResolvingTold

\* A human resolves an open escalation.
LEMMA ResolvingKeeps ==
  ASSUME GovernorTypeOK, Queued, \A s \in Req : MeterInv(s), NEW r \in Req, Grows(r),
         NEW e \in esc, e.by = "none", ledger' = ledger, rq[r].pc = "resolve",
         esc' = (esc \ {e}) \union {[e EXCEPT !.by = rq[r].body.human]},
         rq'[r].pc = "resolve_note", rq'[r].esc = e.id, rq'[r].rogue = rq[r].rogue
  PROVE  Queued'
<1>h. \A s \in Req : rq[s].pc \in {"resolve", "resolve_note"} =>
        rq[s].body.op = "resolve" /\ rq[s].body.human # "none"
  BY OnPath, BodyTyped, GovernorAssumption
<1>f. PICK h, f : h = rq[r].body.human /\ f = [e EXCEPT !.by = h]
  OBVIOUS
<1>0. f.id = e.id /\ f.kind = e.kind /\ f.by = h /\ h # "none" /\ rq[r].body.op = "resolve"
  BY EscalationIds, <1>f, <1>h
<1>1. esc' = (esc \ {e}) \union {f}
  BY <1>f
<1>b. rq'[r].body.human = h
  BY <1>f DEF Grows
<1>p. rq[r].pc \notin NoteLabels \union EarlyUsage \union Told /\ rq'[r].pc \notin EarlyUsage
  BY DEF NoteLabels, EarlyUsage, Told
<1>2. \A g \in esc : OpeningTold(g)' /\ ResolvingTold(g)'
  BY <1>p, QueuedParts, TellingStays
<1>3. OpeningTold(f)' /\ ResolvingTold(f)'
  BY <1>0, <1>2 DEF OpeningTold, AboutTo, ResolvingTold
<1>4. \A g \in esc : g.id = <<g.id[1], g.kind>> /\ OpenedBy(g, g.id[1])'
  BY <1>p, QueuedParts, OpenedStays, EscalationIds
<1>5. f.id = <<f.id[1], f.kind>> /\ OpenedBy(f, f.id[1])'
  BY <1>0, <1>4 DEF OpenedBy
<1>6. \A n \in ledger' : n.type = "spend.escalation_resolved" =>
        n.by # "none" /\ \E g \in esc' : g.id = n.about /\ g.by = n.by
  BY <1>1, QueuedParts
<1>7. \A s \in Req : rq'[s].pc = "usage_rogue" => rq'[s].rogue # {}
  BY QueuedParts DEF Grows
<1>8. \A s \in Req : rq'[s].pc = "resolve_note" =>
        \E g \in esc' : g.id = rq'[s].esc /\ g.by = rq'[s].body.human
  <2> SUFFICES ASSUME NEW s \in Req, rq'[s].pc = "resolve_note"
               PROVE  \E g \in esc' : g.id = rq'[s].esc /\ g.by = rq'[s].body.human
    OBVIOUS
  <2>1. CASE s = r
    BY <1>0, <1>1, <1>b, <2>1
  <2>2. CASE s # r
    BY <2>2, QueuedParts, <1>h, <1>1 DEF Grows
  <2> QED BY <2>1, <2>2
<1>9. \A g, g2 \in esc' : g.id = g2.id => g = g2
  BY <1>0, <1>1, QueuedParts
<1> QED BY <1>1, <1>2, <1>3, <1>4, <1>5, <1>6, <1>7, <1>8, <1>9
  DEF Queued, EscalationsLedgered, QueueTold, OpeningTold, ResolvingTold

\* The note of a resolution arrives, or its loss is counted.
LEMMA ResolvedKeeps ==
  ASSUME GovernorTypeOK, Queued, \A s \in Req : MeterInv(s), NEW r \in Req, Grows(r),
         esc' = esc, rq[r].pc = "resolve_note", rq'[r].pc \in {"done", "gap_note"},
         rq'[r].rogue \subseteq rq[r].rogue,
         ledger' \subseteq ledger \union {Event("spend.escalation_resolved", rq[r].esc, rq[r].body.human)},
         \/ Event("spend.escalation_resolved", rq[r].esc, rq[r].body.human) \in ledger'
         \/ dropped' # {}
  PROVE  Queued'
<1> DEFINE h == rq[r].body.human
<1>h. rq[r].body.op = "resolve" /\ h # "none"
  BY OnPath, BodyTyped, GovernorAssumption
<1>0. PICK f \in esc : f.id = rq[r].esc /\ f.by = h
  BY QueuedParts
<1>1. \A e \in esc : OpeningTold(e)' /\ ResolvingTold(e)'
  <2> SUFFICES ASSUME NEW e \in esc PROVE OpeningTold(e)' /\ ResolvingTold(e)'
    OBVIOUS
  <2>1. OpeningTold(e) /\ ResolvingTold(e) /\ ledger \subseteq ledger' /\ (dropped # {} => dropped' # {})
    BY QueuedParts DEF Grows
  <2>2. AboutTo({"escalate_note", "rogue_note"}, e.id) => AboutTo({"escalate_note", "rogue_note"}, e.id)'
    BY AboutToOthers
  <2>3. OpeningTold(e)'
    BY <2>1, <2>2 DEF OpeningTold
  <2>4. ResolvingTold(e)'
    <3>1. CASE AboutTo({"resolve_note"}, e.id)
      <4>1. PICK s \in Req : rq[s].pc = "resolve_note" /\ e.id = rq[s].esc
        BY <3>1 DEF AboutTo
      <4>2. CASE s = r
        BY <1>0, <4>1, <4>2, QueuedParts DEF ResolvingTold
      <4>3. CASE s # r
        BY <4>1, <4>3, AboutToStays DEF ResolvingTold
      <4> QED BY <4>2, <4>3
    <3> QED BY <2>1, <3>1 DEF ResolvingTold, Event
  <2> QED BY <2>3, <2>4
<1>2. \A e \in esc : e.id = <<e.id[1], e.kind>> /\ OpenedBy(e, e.id[1])'
  BY QueuedParts, OpenedStays, EscalationIds DEF EarlyUsage, Told
<1>3. \A n \in ledger' : n.type = "spend.escalation_resolved" =>
        n.by # "none" /\ \E e \in esc' : e.id = n.about /\ e.by = n.by
  BY <1>h, <1>0, QueuedParts DEF Event
<1>4. \A s \in Req : rq'[s].pc = "usage_rogue" => rq'[s].rogue # {}
  BY QueuedParts DEF Grows
<1>5. \A s \in Req : rq'[s].pc = "resolve_note" =>
        \E e \in esc' : e.id = rq'[s].esc /\ e.by = rq'[s].body.human
  BY QueuedParts DEF Grows
<1>6. \A e, g \in esc' : e.id = g.id => e = g
  BY QueuedParts
<1> QED BY <1>1, <1>2, <1>3, <1>4, <1>5, <1>6
  DEF Queued, EscalationsLedgered, QueueTold, OpeningTold, ResolvingTold

\* What a step of r does, in both respects.
Moves(r) == Grows(r) /\ Keeps(r) /\ Queued'

\* POST /spend opens an escalation when it crosses a threshold first, and notes it.
LEMMA SpendMoves ==
  ASSUME GovernorTypeOK, Queued, NEW r \in Req, MeterInv(r), SpendOutcome(r) \/ EscalateNote(r)
  PROVE  Moves(r)
<1> DEFINE q == rq[r]
<1>q. q \in Frame /\ SameCall(q, q)
  BY DEF GovernorTypeOK, SameCall
<1>o. /\ q.pc \in {"outcome", "escalate_note"} /\ q.body.op \in {"spend", "check"}
      /\ q.body.op = "check" => \E x \in spend : x.id = r
      /\ q.metering => \E x \in spend : x.id = r
  BY OnPath DEF SpendOutcome, EscalateNote, MeterInv, Recorded
<1>1. CASE SpendOutcome(r) /\ (q.kind # "none" => q.state # "ESCALATE" \/ Open(q.kind))
  BY <1>1, OutcomeCalm, CalmKeeps DEF Moves, Calm
<1>2. CASE SpendOutcome(r) /\ q.kind # "none" /\ q.state = "ESCALATE" /\ ~Open(q.kind)
  <2> DEFINE f == [q EXCEPT !.pc = "escalate_note"]
  <2>1. /\ esc' = esc \union {[id |-> <<r, q.kind>>, kind |-> q.kind, by |-> "none"]} /\ Become(r, f)
        /\ q.pc = "outcome" /\ ledger' = ledger /\ dropped' = dropped /\ spend' = spend /\ cap' = cap
    BY <1>2 DEF SpendOutcome, AddIfNoneOpen, config
  <2>2. f \in Frame /\ f.pc = "escalate_note" /\ SameCall(f, q) /\ f.kind = q.kind
    <3>1. "escalate_note" \in Label
      BY DEF Label
    <3> QED BY <1>q, <3>1, FrameAt, FrameFields
  <2> HIDE DEF f
  <2>3. rq'[r] = f /\ \A s \in Req : s # r => rq'[s] = rq[s]
    BY <2>1, <2>2, BecomeFrame DEF GovernorTypeOK
  <2>4. Grows(r) /\ Remains
    BY <2>1, <2>2, <2>3 DEF Grows, Remains, SameCall
  <2>5. q.kind \in EscalationKind
    BY <1>q, <1>2 DEF Frame, Null
  <2>6. Queued'
    BY <1>o, <2>1, <2>2, <2>3, <2>4, <2>5, OpeningKeeps DEF SameCall
  <2>7. /\ "escalate_note" \in Path(q.body.op) \ {"done", "gap_note"} /\ "escalate_note" \notin Deciding
        /\ q.body.op = "check" => q.metering
    BY <1>o, <2>1, Paths DEF Recorded, Deciding, MeterInv
  <2>8. MeterInv(r)' /\ Accounted(r)'
    BY <1>o, <2>1, <2>2, <2>3, <2>4, <2>7, MeterGoes DEF SameCall
  <2> QED BY <2>4, <2>6, <2>8 DEF Moves, Keeps
<1>3. CASE EscalateNote(r)
  <2> DEFINE f == Finished(q, TRUE)
             e == Event("spend.escalate", <<r, q.kind>>, "none")
  <2>1. Become(r, f) /\ Note("governor", e) /\ UNCHANGED store /\ q.pc = "escalate_note"
    BY <1>3 DEF EscalateNote, Finish
  <2>2. /\ f \in Frame /\ f.body = q.body /\ f.pc \in {"done", "gap_note"} /\ f.rogue \in {q.rogue, {}}
    BY <1>q, FinishedFrame
  <2>3. rq'[r] = f /\ \A s \in Req : s # r => rq'[s] = rq[s]
    BY <2>1, <2>2, BecomeFrame DEF GovernorTypeOK
  <2>4. /\ ledger \subseteq ledger' /\ ledger' \subseteq ledger \union {e} /\ dropped \subseteq dropped'
        /\ e \in ledger' \/ dropped' # {}
    BY <2>1, NoteTyped
  <2>5. esc' = esc /\ spend' = spend /\ cap' = cap
    BY <2>1 DEF store, config
  <2>6. Grows(r) /\ Remains
    BY <2>2, <2>3, <2>4, <2>5 DEF Grows, Remains
  <2>7. MeterInv(r)' /\ Accounted(r)'
    BY <1>q, <1>o, <2>3, <2>5, <2>6, MeterEnds
  <2>8. f.pc \notin NoteLabels \union EarlyUsage \union {"usage_rogue"} /\ f.pc \in Told
    BY <2>2 DEF NoteLabels, EarlyUsage, Told
  <2>9. e.type = "spend.escalate" /\ e.about = <<r, q.kind>>
    BY DEF Event
  <2> HIDE DEF e, f
  <2>10. Queued'
    BY <2>1, <2>2, <2>3, <2>4, <2>5, <2>6, <2>8, <2>9, NotingKeeps
  <2> QED BY <2>6, <2>7, <2>10 DEF Moves, Keeps
<1> QED BY <1>1, <1>2, <1>3

\* POST /usage opens one for each finding of a kind that has none open, and notes it.
LEMMA UsageMoves ==
  ASSUME GovernorTypeOK, Queued, NEW r \in Req, MeterInv(r), UsageRogue(r) \/ RogueNote(r)
  PROVE  Moves(r)
<1> DEFINE q == rq[r]
<1>q. q \in Frame /\ q.rogue \in SUBSET Rogue
  BY DEF GovernorTypeOK, Frame
<1>o. /\ q.pc \in {"usage_rogue", "rogue_note"} /\ q.body.op = "usage" /\ ~q.metering /\ ~q.gap
  BY OnPath DEF UsageRogue, RogueNote, MeterInv
\* Metering is not concerned.
<1>m. ASSUME Grows(r), Remains, rq'[r].metering = q.metering, rq'[r].gap = q.gap, rq'[r].cap = q.cap,
             rq'[r].pc \in {"st_cap", "usage_rogue", "rogue_note"}
      PROVE  MeterInv(r)' /\ Accounted(r)'
  BY <1>m, <1>o, MeterGoes DEF Path, Reading, Deciding, Grows
<1>1. CASE UsageRogue(r)
  <2> DEFINE k == IF "unpriced" \in q.rogue THEN "unpriced"
                  ELSE IF "rogue_model" \in q.rogue THEN "rogue_model" ELSE "rogue_burst"
             next == IF q.rogue = {k} THEN "st_cap" ELSE q.pc
             rest == [q EXCEPT !.rogue = q.rogue \ {k}, !.pc = next]
             note == [rest EXCEPT !.pc = "rogue_note", !.kind = k]
  <2>0. q.pc = "usage_rogue" /\ q.rogue # {}
    BY <1>1, QueuedParts DEF UsageRogue
  <2>1. k \in q.rogue /\ k \in Rogue
    BY <1>q, <2>0 DEF Rogue
  <2>2. k \in EscalationKind /\ k \in Null(EscalationKind)
    BY <2>1 DEF EscalationKind, Null
  <2>3. /\ AddIfNoneOpen(r, k, note, rest)
        /\ ledger' = ledger /\ dropped' = dropped /\ spend' = spend /\ cap' = cap
    BY <1>1 DEF UsageRogue, config
  <2>4. /\ next \in {"st_cap", "usage_rogue"} /\ next \in Label
        /\ next = "usage_rogue" => q.rogue \ {k} # {}
    BY <2>0, <2>1 DEF Label
  <2> HIDE DEF k, next
  <2>5. rest \in Frame
    BY <1>q, <2>4 DEF Frame
  <2>6. /\ rest.pc = next /\ rest.rogue = q.rogue \ {k} /\ rest.body = q.body /\ rest.cap = q.cap
        /\ rest.metering = q.metering /\ rest.gap = q.gap
    BY <1>q DEF Frame
  <2> HIDE DEF rest
  <2>7. note \in Frame
    <3>1. "rogue_note" \in Label
      BY DEF Label
    <3> QED BY <2>2, <2>5, <3>1 DEF Frame
  <2>8. /\ note.pc = "rogue_note" /\ note.kind = k /\ note.rogue = q.rogue \ {k} /\ note.body = q.body
        /\ note.cap = q.cap /\ note.metering = q.metering /\ note.gap = q.gap
    BY <2>5, <2>6 DEF Frame
  <2> HIDE DEF note
  <2>9. CASE Open(k)
    <3>1. Become(r, rest) /\ esc' = esc
      BY <2>3, <2>9 DEF AddIfNoneOpen
    <3>2. rq'[r] = rest /\ \A s \in Req : s # r => rq'[s] = rq[s]
      BY <2>5, <3>1, BecomeFrame DEF GovernorTypeOK
    <3>3. Grows(r) /\ Remains
      BY <2>3, <2>6, <3>2 DEF Grows, Remains
    <3>4. MeterInv(r)' /\ Accounted(r)'
      BY <1>m, <2>4, <2>6, <3>2, <3>3
    <3>5. Calm(r)
      BY <2>0, <2>3, <2>4, <2>6, <3>1, <3>2, <3>3 DEF Calm, NoteLabels, EarlyUsage, Told
    <3> QED BY <3>3, <3>4, <3>5, CalmKeeps DEF Moves, Keeps
  <2>10. CASE ~Open(k)
    <3>1. Become(r, note) /\ esc' = esc \union {[id |-> <<r, k>>, kind |-> k, by |-> "none"]}
      BY <2>3, <2>10 DEF AddIfNoneOpen
    <3>2. rq'[r] = note /\ \A s \in Req : s # r => rq'[s] = rq[s]
      BY <2>7, <3>1, BecomeFrame DEF GovernorTypeOK
    <3>3. Grows(r) /\ Remains
      BY <2>3, <2>8, <3>2 DEF Grows, Remains
    <3>4. MeterInv(r)' /\ Accounted(r)'
      BY <1>m, <2>8, <3>2, <3>3
    <3>5. Queued'
      BY <1>o, <2>0, <2>1, <2>2, <2>3, <2>8, <3>1, <3>2, <3>3, OpeningKeeps
    <3> QED BY <3>3, <3>4, <3>5 DEF Moves, Keeps
  <2> QED BY <2>9, <2>10
<1>2. CASE RogueNote(r)
  <2> DEFINE l == IF q.rogue = {} THEN "st_cap" ELSE "usage_rogue"
             f == [q EXCEPT !.pc = l]
             e == Event("usage.rogue", <<r, q.kind>>, "none")
  <2>1. Become(r, f) /\ Note("governor", e) /\ UNCHANGED store /\ q.pc = "rogue_note"
    BY <1>2 DEF RogueNote, Goto
  <2>2. l \in {"st_cap", "usage_rogue"} /\ l \in Label /\ (l = "usage_rogue" => q.rogue # {})
    BY DEF Label
  <2> HIDE DEF l
  <2>3. f \in Frame /\ f.pc = l /\ SameCall(f, q)
    BY <2>2, MovesOn
  <2> HIDE DEF f
  <2>4. rq'[r] = f /\ \A s \in Req : s # r => rq'[s] = rq[s]
    BY <2>1, <2>3, BecomeFrame DEF GovernorTypeOK
  <2>5. /\ ledger \subseteq ledger' /\ ledger' \subseteq ledger \union {e} /\ dropped \subseteq dropped'
        /\ e \in ledger' \/ dropped' # {}
    BY <2>1, NoteTyped
  <2>6. esc' = esc /\ spend' = spend /\ cap' = cap
    BY <2>1 DEF store, config
  <2>7. Grows(r) /\ Remains
    BY <2>3, <2>4, <2>5, <2>6 DEF Grows, Remains, SameCall
  <2>8. MeterInv(r)' /\ Accounted(r)'
    BY <1>m, <2>2, <2>3, <2>4, <2>7 DEF SameCall
  <2>9. e.type = "usage.rogue" /\ e.about = <<r, q.kind>>
    BY DEF Event
  <2>10. l \notin NoteLabels \union EarlyUsage /\ "rogue_note" \notin Told
    BY <2>2 DEF NoteLabels, EarlyUsage, Told
  <2> HIDE DEF e
  <2>11. Queued'
    BY <2>1, <2>2, <2>3, <2>4, <2>5, <2>6, <2>7, <2>9, <2>10, NotingKeeps DEF SameCall
  <2> QED BY <2>7, <2>8, <2>11 DEF Moves, Keeps
<1> QED BY <1>1, <1>2

\* POST /escalations/resolve: the first resolver closes it, and notes that.
LEMMA ResolveMoves ==
  ASSUME GovernorTypeOK, Queued, NEW r \in Req, \A s \in Req : MeterInv(s), Resolve(r) \/ ResolveNote(r)
  PROVE  Moves(r)
<1> DEFINE q == rq[r]
<1>q. q \in Frame /\ SameCall(q, q)
  BY DEF GovernorTypeOK, SameCall
<1>o. /\ q.pc \in {"resolve", "resolve_note"} /\ q.body.op = "resolve" /\ ~q.metering /\ ~q.gap
  BY OnPath DEF Resolve, ResolveNote, MeterInv
<1>1. CASE \E ret \in BOOLEAN : Resolve(r) /\ Finish(r, ret) /\ UNCHANGED esc
  BY <1>1, ResolveCalm, CalmKeeps DEF Resolve, Moves, Calm
<1>2. CASE \E e \in esc : /\ Resolve(r) /\ e.by = "none"
                          /\ esc' = (esc \ {e}) \union {[e EXCEPT !.by = q.body.human]}
                          /\ Become(r, [q EXCEPT !.pc = "resolve_note", !.esc = e.id])
  <2>1. PICK e \in esc : /\ Resolve(r) /\ e.by = "none"
                         /\ esc' = (esc \ {e}) \union {[e EXCEPT !.by = q.body.human]}
                         /\ Become(r, [q EXCEPT !.pc = "resolve_note", !.esc = e.id])
    BY <1>2
  <2>2. /\ q.pc = "resolve" /\ ledger' = ledger /\ dropped' = dropped /\ spend' = spend /\ cap' = cap
    BY <2>1 DEF Resolve, config
  <2> DEFINE f == [q EXCEPT !.pc = "resolve_note", !.esc = e.id]
  <2>3. e.id \in EscalationId \union {<<>>} /\ "resolve_note" \in Label
    BY DEF GovernorTypeOK, Label
  <2>4. f \in Frame
    BY <1>q, <2>3 DEF Frame
  <2>5. /\ f.pc = "resolve_note" /\ f.esc = e.id /\ SameCall(f, q)
    BY <1>q DEF Frame, SameCall
  <2>6. Become(r, f)
    BY <2>1
  <2> HIDE DEF f
  <2>7. rq'[r] = f /\ \A s \in Req : s # r => rq'[s] = rq[s]
    BY <2>4, <2>6, BecomeFrame DEF GovernorTypeOK
  <2>8. Grows(r) /\ Remains
    BY <2>2, <2>5, <2>7 DEF Grows, Remains, SameCall
  <2>9. Queued'
    BY <2>1, <2>2, <2>5, <2>7, <2>8, ResolvingKeeps DEF SameCall
  <2>10. /\ "resolve_note" \in Path("resolve") \ {"done", "gap_note"}
         /\ "resolve_note" \notin Deciding \union {"meter"}
    BY DEF Path, Deciding
  <2>11. MeterInv(r)' /\ Accounted(r)'
    BY <1>o, <2>2, <2>5, <2>7, <2>8, <2>10, MeterGoes DEF SameCall
  <2> QED BY <2>8, <2>9, <2>11 DEF Moves, Keeps
<1>3. CASE ResolveNote(r)
  <2> DEFINE f == Finished(q, TRUE)
             e == Event("spend.escalation_resolved", q.esc, q.body.human)
  <2>1. Become(r, f) /\ Note("governor", e) /\ UNCHANGED store /\ q.pc = "resolve_note"
    BY <1>3 DEF ResolveNote, Finish
  <2>2. f \in Frame /\ f.body = q.body /\ f.pc = "done" /\ f.rogue = {}
    BY <1>q, <1>o, FinishedFrame
  <2>3. rq'[r] = f /\ \A s \in Req : s # r => rq'[s] = rq[s]
    BY <2>1, <2>2, BecomeFrame DEF GovernorTypeOK
  <2>4. /\ ledger \subseteq ledger' /\ ledger' \subseteq ledger \union {e} /\ dropped \subseteq dropped'
        /\ e \in ledger' \/ dropped' # {}
    BY <2>1, NoteTyped
  <2>5. esc' = esc /\ spend' = spend /\ cap' = cap
    BY <2>1 DEF store, config
  <2>6. Grows(r) /\ Remains
    BY <2>2, <2>3, <2>4, <2>5 DEF Grows, Remains
  <2>7. MeterInv(r)' /\ Accounted(r)'
    BY <1>q, <1>o, <2>3, <2>6, MeterEnds
  <2>8. Queued'
    BY <2>1, <2>2, <2>3, <2>4, <2>5, <2>6, ResolvedKeeps
  <2> QED BY <2>6, <2>7, <2>8 DEF Moves, Keeps
<1>4. ASSUME Resolve(r)
      PROVE  \/ \E ret \in BOOLEAN : Resolve(r) /\ Finish(r, ret) /\ UNCHANGED esc
             \/ \E e \in esc : /\ Resolve(r) /\ e.by = "none"
                               /\ esc' = (esc \ {e}) \union {[e EXCEPT !.by = q.body.human]}
                               /\ Become(r, [q EXCEPT !.pc = "resolve_note", !.esc = e.id])
  BY <1>4 DEF Resolve
<1> QED BY <1>1, <1>2, <1>3, <1>4

\* Any step moves one request so, or is none.
LEMMA StepMoves ==
  ASSUME SpendInv, NEW r \in Req, GovernorStep(r) \/ CheckStep(r)
  PROVE  Moves(r)
<1>0. GovernorTypeOK /\ Queued /\ \A s \in Req : MeterInv(s)
  BY DEF SpendInv, SpendLedgered, Queued
<1>1. rq[r].pc = "usage_rogue" => rq[r].rogue # {}
  BY <1>0, QueuedParts
<1>2. CASE Calm(r) /\ Keeps(r)
  BY <1>0, <1>2, CalmKeeps DEF Moves, Calm
<1>3. CASE ConfigStep(r)
  BY <1>0, <1>2, <1>3, ConfigCalm
<1>4. CASE StatusStep(r)
  BY <1>0, <1>2, <1>4, StatusCalm
<1>5. CASE SpendStep(r)
  BY <1>0, <1>2, <1>5, SpendCalm, SpendMoves DEF SpendStep
<1>6. CASE UsageStep(r)
  BY <1>0, <1>2, <1>6, UsageCalm, UsageMoves DEF UsageStep
<1>7. CASE Resolve(r) \/ ResolveNote(r)
  BY <1>0, <1>7, ResolveMoves
<1>8. CASE CheckStep(r)
  BY <1>0, <1>1, <1>2, <1>8, CheckCalm
<1> QED BY <1>3, <1>4, <1>5, <1>6, <1>7, <1>8 DEF GovernorStep

-----------------------------------------------------------------------------
(* SpendLedgered, from SpendInv.                                            *)

\* At the start every request waits and nothing has happened.
LEMMA SpendInit == Init => SpendInv
<1> SUFFICES ASSUME Init PROVE SpendInv
  OBVIOUS
<1>1. PICK ask \in [Req -> UNION {Asks[r] : r \in Req}] :
        /\ \A r \in Req : ask[r] \in Asks[r]
        /\ rq = [r \in Req |-> [Fresh EXCEPT !.body = ask[r], !.pc = ask[r].op]]
  BY DEF Init
<1>2. \A r \in Req : ask[r] \in Body
  BY <1>1, GovernorAssumption
<1>3. \A r \in Req : /\ rq[r].body = ask[r] /\ rq[r].pc = ask[r].op /\ rq[r].cap = NoCap
                     /\ ~rq[r].metering /\ ~rq[r].gap /\ rq[r].rogue = {}
  BY <1>1 DEF Fresh
<1>o. \A r \in Req :
        rq[r].pc \in {"cap", "rates", "policy", "usage", "resolve", "check", "status", "spend"}
  BY <1>2, <1>3, BodyTyped
<1>4. GovernorTypeOK
  <2>1. Fresh \in Frame
    BY CapIsSet DEF Fresh, Frame, Label, Nothing, Null
  <2>2. \A r \in Req : [Fresh EXCEPT !.body = ask[r], !.pc = ask[r].op] \in Frame
    <3> SUFFICES ASSUME NEW r \in Req PROVE [Fresh EXCEPT !.body = ask[r], !.pc = ask[r].op] \in Frame
      OBVIOUS
    <3>1. ask[r] \in Body \union {NoBody} /\ ask[r].op \in Label
      BY <1>2, BodyTyped DEF Label
    <3> HIDE DEF Fresh
    <3> QED BY <2>1, <3>1 DEF Frame
  <2>3. rq \in [Req -> Frame]
    BY <1>1, <2>2
  <2>4. /\ cap \in Cap \union {NoCap} /\ limits \subseteq Limit /\ policy \in Policy
        /\ spend \subseteq SpendRow
    BY GovernorAssumption DEF Init
  <2> QED BY <2>3, <2>4 DEF Init, GovernorTypeOK
<1>5. \A r \in Req : MeterInv(r)
  BY <1>3, <1>o, <1>2 DEF Path, Deciding, Recorded, MeterInv
<1>6. EscalationsLedgered /\ QueueTold
  BY <1>o DEF Init, EscalationsLedgered, QueueTold
<1>7. AllowsMetered
  BY <1>o DEF AllowsMetered, Allowed
<1> QED BY <1>4, <1>5, <1>6, <1>7 DEF SpendInv, SpendLedgered

\* Every step keeps it.
LEMMA SpendNext == SpendInv /\ [Next]_gvars => SpendInv'
<1> SUFFICES ASSUME SpendInv, [Next]_gvars PROVE SpendInv'
  OBVIOUS
<1>0. GovernorTypeOK /\ Queued /\ (\A s \in Req : MeterInv(s)) /\ AllowsMetered
  BY DEF SpendInv, SpendLedgered, Queued
<1>a. \A s \in Req : Accounted(s)
  BY <1>0 DEF AllowsMetered, Accounted
<1>1. GovernorTypeOK'
  BY <1>0, StepTyped
<1>2. CASE UNCHANGED gvars
  <2>1. UNCHANGED <<cap, spend, esc, rq, ledger, dropped>>
    BY <1>2 DEF gvars, store, config
  <2>2. (\A s \in Req : MeterInv(s))' /\ AllowsMetered'
    BY <1>0, <2>1 DEF MeterInv, AllowsMetered, Allowed
  <2>3. EscalationsLedgered' /\ QueueTold'
    BY <1>0, <2>1 DEF Queued, EscalationsLedgered, AboutTo, QueueTold, OpenedBy
  <2> QED BY <1>1, <2>2, <2>3 DEF SpendInv, SpendLedgered
<1>3. ASSUME NEW r \in Req, GovernorStep(r) \/ CheckStep(r) PROVE SpendInv'
  <2>1. Grows(r) /\ Keeps(r) /\ Queued'
    BY <1>3, StepMoves DEF Moves
  <2>2. \A s \in Req : MeterInv(s)' /\ Accounted(s)'
    BY <2>1, <1>0, <1>a, MeterOthers DEF Keeps, Grows
  <2>3. AllowsMetered'
    BY <2>2 DEF AllowsMetered, Accounted
  <2> QED BY <1>1, <2>1, <2>2, <2>3 DEF SpendInv, SpendLedgered, Queued
<1> QED BY <1>2, <1>3 DEF Next

\* Whatever the requests, the caps and the order of their steps, and whichever calls fail:
\* every escalation and every resolution is in the ledger with the human of record, and
\* every allowed action is metered, or the loss of it is noted or counted
\* (api.py _ledger_note, _meter).
THEOREM SpendAlwaysLedgered == Spec => []SpendLedgered
<1>1. Spec => []SpendInv
  BY SpendInit, SpendNext, PTL DEF Spec
<1>2. SpendInv => SpendLedgered
  BY DEF SpendInv
<1> QED BY <1>1, <1>2, PTL
=============================================================================
