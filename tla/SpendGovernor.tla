----------------------------- MODULE SpendGovernor -----------------------------
(***************************************************************************)
(* services/spend-governor: caps, rate windows, usage policies, spend and  *)
(* usage rows and the escalation queue of one agent (every query is by     *)
(* agent id).  Each store call is one step, under the store's lock; a      *)
(* handler is a sequence of them, so handlers in other threads come in     *)
(* between.  A status is put together from up to nine such reads.          *)
(*                                                                         *)
(* Time is counted in fractions of a second (Second of them in each).  It  *)
(* is only ever looked at when a handler begins, so it passes there.  A    *)
(* sum a handler holds is kept as the rows it was taken over.  Limits that *)
(* are not configured are 0: the code refuses a limit of 0.  There is one  *)
(* currency and one price book, and who may configure or resolve is the    *)
(* operator guard's business, not modelled here.                           *)
(***************************************************************************)
EXTENDS Integers, FiniteSets, FiniteSetsExt

CONSTANTS
  Req,                                            \* requests
  Asks,                                           \* Asks[r]: what request r may ask for
  Humans,                                         \* who may resolve an escalation
  Actions,                                        \* action names
  Models,                                         \* model names
  Priced,                                         \* those in the price book
  InitCaps, InitLimits, InitPolicies, InitSpend,  \* what the database may hold at the start
  Second, Day,                                    \* a second, and a calendar day in seconds
  CentUnits,                                      \* price units in a cent
  MaxClock,                                       \* bound: time
  MaxFaults                                       \* bound: calls that fail

Kinds == {"cents", "tokens", "actions"}
Rogue == {"unpriced", "rogue_model", "rogue_burst"}
Null(S) == S \union {"none"}

\* A cap has a limit of at least one kind.
Cap == {c \in [cents : Nat, tokens : Nat, actions : Nat, pct : 1..100, daily : BOOLEAN] :
          \E k \in Kinds : c[k] # 0}
NoCap == [cents |-> 0, tokens |-> 0, actions |-> 0, pct |-> 1, daily |-> FALSE]
Limit == [action : Actions, max : Nat \ {0}, secs : Nat]   \* secs 0: session, unenforced
Policy == [limit : Nat, secs : Nat \ {0}, models : SUBSET Models]
NoPolicy == [limit |-> 0, secs |-> 1, models |-> {}]

\* A request's body.
Body ==
  [op : {"cap"}, cap : Cap] \union
  [op : {"rates"}, set : SUBSET Limit] \union
  [op : {"policy"}, policy : Policy] \union
  [op : {"spend"}, cents : Nat, tokens : Nat, actions : Nat, action : Null(Actions),
   source : {"self", "sentinel"}] \union
  [op : {"usage"}, model : Models, tokens : Nat, units : Nat] \union
  [op : {"status"}, action : Null(Actions)] \union
  [op : {"check"}, action : Actions, ceiling : Nat] \union
  [op : {"resolve"}, human : Humans]
NoBody == [op |-> "none"]

Past == "past"   \* recorded before the first of the requests
SpendRow == [id : Req \union {Past}, ts : Nat, cents : Nat, tokens : Nat, actions : Nat,
             action : Null(Actions), source : {"self", "sentinel"}]
UsageRow == [id : Req, ts : Nat, tokens : Nat, units : Nat]

ASSUME GovernorAssumption ==
  /\ Asks \in [Req -> SUBSET Body]
  /\ Priced \subseteq Models
  /\ InitCaps \subseteq Cap \union {NoCap} /\ InitLimits \subseteq SUBSET Limit /\ InitPolicies \subseteq Policy
  /\ \A rows \in InitSpend : rows \subseteq SpendRow /\ \A x \in rows : x.id = Past /\ x.ts = 0
  /\ Second \in Nat \ {0} /\ Day \in Nat \ {0} /\ CentUnits \in Nat \ {0}
  /\ MaxClock \in Nat /\ MaxFaults \in Nat
  /\ "none" \notin Actions /\ "none" \notin Humans /\ Past \notin Req

VARIABLES
  cap, limits, policy,   \* tables caps, rate_limits, usage_policies
  spend, usage,          \* tables spend and usage: sets of rows
  esc,                   \* table escalations; by = "none": open
  clock,
  rq,                    \* the frame of each request
  ledger,                \* events in the sealed ledger
  dropped,               \* services that count a lost ledger event
  faults

config == <<cap, limits, policy>>
store == <<config, spend, usage, esc>>
gvars == <<store, clock, rq, ledger, dropped, faults>>

\* What a check found recorded when the governor took up its status request.
Nothing == [money |-> {}, use |-> {}, at |-> 0]
Fresh == [body |-> NoBody, pc |-> "done", now |-> 0, cap |-> NoCap, policy |-> NoPolicy,
         money |-> {}, use |-> {}, acts |-> {}, todo |-> {}, rogue |-> {}, exh |-> {},
         state |-> "OK", kind |-> "none", esc |-> <<>>, metering |-> FALSE, gap |-> FALSE,
         ret |-> FALSE, base |-> Nothing]

\* Every request has been made and waits for its handler to begin.
Init ==
  /\ cap \in InitCaps
  /\ limits \in IF cap = NoCap THEN {{}} ELSE InitLimits
  /\ policy \in InitPolicies
  /\ spend \in IF cap = NoCap THEN {{}} ELSE InitSpend
  /\ usage = {} /\ esc = {}
  /\ clock = 0
  /\ \E ask \in [Req -> UNION {Asks[r] : r \in Req}] :
       /\ \A r \in Req : ask[r] \in Asks[r]
       /\ rq = [r \in Req |-> [Fresh EXCEPT !.body = ask[r], !.pc = ask[r].op]]
  /\ ledger = {} /\ dropped = {} /\ faults = 0

-----------------------------------------------------------------------------
(* The arithmetic.                                                         *)

\* window_start: calendar days, or since ever.
WindowStart(c, t) == IF c.daily THEN t - (t % (Day * Second)) ELSE 0

\* totals_since, usage_totals_since and units_to_cents: the cost of tokens is
\* floored to whole cents once, over all rows.
Cents(money, use) == MapThenSumSet(LAMBDA x : x.cents, money)
                       + MapThenSumSet(LAMBDA x : x.units, use) \div CentUnits
Tokens(money, use) == MapThenSumSet(LAMBDA x : x.tokens, money)
                        + MapThenSumSet(LAMBDA x : x.tokens, use)

\* action_totals: of one action the larger of the two counts, and every row that
\* names none.
Counted(rows, a, src) ==
  MapThenSumSet(LAMBDA x : x.actions, {x \in rows : x.action = a /\ x.source \in src})
ActionTotal(rows) ==
  Counted(rows, "none", {"self", "sentinel"})
    + MapThenSumSet(LAMBDA a : Max({Counted(rows, a, {"self"}), Counted(rows, a, {"sentinel"})}),
                    Actions)

\* evaluate: BLOCK at or over any limit, ESCALATE at the threshold of one or while
\* an escalation is open; the first kind in the code's order is the one reported.
First(S) == IF "cents" \in S THEN "cents" ELSE IF "tokens" \in S THEN "tokens" ELSE "actions"
Evaluate(c, spent, open) ==
  LET reached == {k \in Kinds : c[k] # 0 /\ spent[k] >= c[k]}
      crossed == {k \in Kinds : c[k] # 0 /\ spent[k] * 100 >= c[k] * c.pct}
  IN CASE reached # {} -> [state |-> "BLOCK", kind |-> First(reached)]
       [] reached = {} /\ crossed # {} -> [state |-> "ESCALATE", kind |-> First(crossed)]
       [] reached = {} /\ crossed = {} ->
            [state |-> IF open THEN "ESCALATE" ELSE "OK", kind |-> "none"]
Spent(money, use, acts) ==
  [cents |-> Cents(money, use), tokens |-> Tokens(money, use), actions |-> ActionTotal(acts)]

\* The rows of a rolling window, and window_action_rows: the metered ones when
\* there are any.
Entry == [id : Req \union {Past}, ts : Nat, n : Nat, src : {"self", "sentinel", "usage"}]
Window == [max : Nat, secs : Nat, rows : SUBSET Entry]
ActionEntries(a, after) ==
  {[id |-> x.id, ts |-> x.ts, n |-> x.actions, src |-> x.source] :
     x \in {y \in spend : y.action = a /\ y.ts > after /\ y.actions > 0}}
TokenEntries(after) ==
  {[id |-> x.id, ts |-> x.ts, n |-> x.tokens, src |-> "usage"] : x \in {y \in usage : y.ts > after}}
WindowRows(rows) ==
  LET metered == {x \in rows : x.src = "sentinel"} IN IF metered # {} THEN metered ELSE rows
Count(rows) == MapThenSumSet(LAMBDA x : x.n, rows)
Exhausted(w) == Count(WindowRows(w.rows)) >= w.max

\* Faulty variant: the wait until the window is down to its limit, not below it.
RetryAfterAtLimit(w, now) ==
  LET rows == WindowRows(w.rows)
      shed(t) == Count({x \in rows : x.ts <= t})
      leaves == Min({x.ts : x \in {y \in rows : shed(y.ts) >= Count(rows) - w.max}})
  IN Max({1, (leaves + w.secs * Second - now + Second - 1) \div Second})
\* window_retry_after: seconds, rounded up, until enough of the oldest rows have
\* left the window.
RetryAfter(w, now) ==
  LET rows == WindowRows(w.rows)
      shed(t) == Count({x \in rows : x.ts <= t})
      leaves == Min({x.ts : x \in {y \in rows : shed(y.ts) >= Count(rows) - w.max + 1}})
  IN Max({1, (leaves + w.secs * Second - now + Second - 1) \div Second})

\* evaluate_rogue.
Findings(p, model, tokens) ==
  (IF model \notin Priced THEN {"unpriced"} ELSE {})
    \union (IF p.models # {} /\ model \notin p.models THEN {"rogue_model"} ELSE {})
    \union (IF p.limit # 0 /\ tokens >= p.limit THEN {"rogue_burst"} ELSE {})

-----------------------------------------------------------------------------
(* Frames, the clock and the ledger.                                       *)

Become(r, q) == rq' = [rq EXCEPT ![r] = q]
Goto(r, l) == Become(r, [rq[r] EXCEPT !.pc = l])
\* A read changes nothing but the frame.
Reads(r, q) == Become(r, q) /\ UNCHANGED <<store, clock, ledger, dropped, faults>>

\* A handler ends.  Of its frame only the answer is kept; a check whose metering
\* call had been given up on still has to note the gap.
Finished(q, ret) ==
  IF q.gap THEN [q EXCEPT !.pc = "gap_note"]
  ELSE [Fresh EXCEPT !.body = q.body, !.pc = "done", !.now = q.now, !.state = q.state,
                    !.exh = q.exh, !.cap = q.cap, !.ret = ret, !.base = q.base]
Finish(r, ret) == Become(r, Finished(rq[r], ret))

Looks(r, q) == \E t \in clock..MaxClock : clock' = t /\ Become(r, [q EXCEPT !.now = t])

Fault == faults < MaxFaults /\ faults' = faults + 1
Event(type, about, by) == [type |-> type, about |-> about, by |-> by]
\* _ledger_note: the row is kept, a lost note is counted.  It may have arrived.
Note(svc, e) ==
  \/ ledger' = ledger \union {e} /\ UNCHANGED <<dropped, faults>>
  \/ Fault /\ ledger' \in {ledger, ledger \union {e}} /\ dropped' = dropped \union {svc}

-----------------------------------------------------------------------------
(* PUT /caps, /policies, /rate-limits.                                     *)

PutCap(r) ==
  /\ rq[r].pc = "cap"
  /\ cap' = rq[r].body.cap
  /\ Finish(r, TRUE)
  /\ UNCHANGED <<limits, policy, spend, usage, esc, clock, ledger, dropped, faults>>
PutPolicy(r) ==
  /\ rq[r].pc = "policy"
  /\ policy' = rq[r].body.policy
  /\ Finish(r, TRUE)
  /\ UNCHANGED <<cap, limits, spend, usage, esc, clock, ledger, dropped, faults>>

\* Rate limits are refused for an agent without a cap.
RatesCheck(r) ==
  /\ rq[r].pc = "rates"
  /\ Reads(r, IF cap = NoCap THEN Finished(rq[r], FALSE) ELSE [rq[r] EXCEPT !.pc = "rates_write"])
RatesWrite(r) ==
  /\ rq[r].pc = "rates_write"
  /\ limits' = rq[r].body.set
  /\ Goto(r, "rates_back")
  /\ UNCHANGED <<cap, policy, spend, usage, esc, clock, ledger, dropped, faults>>
\* The set is read back, and the entries no window stands for are noted.
RatesBack(r) ==
  /\ rq[r].pc = "rates_back"
  /\ Reads(r, IF \E l \in limits : l.secs = 0 THEN [rq[r] EXCEPT !.pc = "rates_note"]
              ELSE Finished(rq[r], TRUE))
RatesNote(r) ==
  /\ rq[r].pc = "rates_note"
  /\ Note("governor", Event("spend.rate_limit_declared_unenforced", <<r>>, "none"))
  /\ Finish(r, TRUE)
  /\ UNCHANGED <<store, clock>>

-----------------------------------------------------------------------------
(* _status_full, read by read.                                             *)

ActionOf(q) == IF q.body.op = "usage" THEN "none" ELSE q.body.action
\* BLOCK outranks THROTTLED, which outranks ESCALATE.
Verdict(q) == IF q.state # "BLOCK" /\ q.exh # {} THEN "THROTTLED" ELSE q.state
\* Who asked for the status goes on.
Answered(q) ==
  CASE q.body.op = "status" -> Finished(q, TRUE)
    [] q.body.op = "spend" -> [q EXCEPT !.pc = "outcome"]
    [] q.body.op = "usage" -> [q EXCEPT !.pc = "usage_end"]
    [] OTHER -> [q EXCEPT !.pc = IF q.metering THEN "outcome" ELSE "check_verdict"]

GetStatus(r) ==
  /\ rq[r].pc = "status"
  /\ Looks(r, [rq[r] EXCEPT !.pc = "st_cap"])
  /\ UNCHANGED <<store, ledger, dropped, faults>>
StatusCap(r) ==
  /\ rq[r].pc = "st_cap"
  /\ Reads(r, IF cap # NoCap THEN [rq[r] EXCEPT !.pc = "st_totals", !.cap = cap]
              ELSE IF rq[r].body.op = "check" THEN [rq[r] EXCEPT !.pc = "check_nocap"]
              ELSE Finished(rq[r], FALSE))
\* Faulty variant: what came at the very start of the window is left out.
InWindowAfter(q, rows) == {x \in rows : x.ts > WindowStart(q.cap, q.now)}
InWindow(q, rows) == {x \in rows : x.ts >= WindowStart(q.cap, q.now)}
StatusTotals(r) ==
  /\ rq[r].pc = "st_totals"
  /\ Reads(r, [rq[r] EXCEPT !.pc = "st_usage", !.money = InWindow(rq[r], spend)])
StatusUsage(r) ==
  /\ rq[r].pc = "st_usage"
  /\ Reads(r, [rq[r] EXCEPT !.pc = "st_actions", !.use = InWindow(rq[r], usage)])
StatusActions(r) ==
  /\ rq[r].pc = "st_actions"
  /\ Reads(r, [rq[r] EXCEPT !.pc = "st_open", !.acts = InWindow(rq[r], spend)])
StatusOpen(r) ==
  /\ rq[r].pc = "st_open"
  /\ LET q == rq[r]
         v == Evaluate(q.cap, Spent(q.money, q.use, q.acts), \E e \in esc : e.by = "none")
         s == [q EXCEPT !.state = v.state, !.kind = v.kind, !.money = {}, !.use = {}, !.acts = {}]
     IN Reads(r, IF v.state = "BLOCK" THEN Answered(s)
                 ELSE [s EXCEPT !.pc = IF ActionOf(q) = "none" THEN "st_policy" ELSE "st_rates"])
\* _throttle: the windows of this very action, one after the other, then the
\* policy's token window.
StatusRates(r) ==
  /\ rq[r].pc = "st_rates"
  /\ LET todo == {l \in limits : l.action = ActionOf(rq[r]) /\ l.secs # 0}
     IN Reads(r, [rq[r] EXCEPT !.todo = todo, !.pc = IF todo = {} THEN "st_policy" ELSE "st_window"])
StatusWindow(r) ==
  /\ rq[r].pc = "st_window"
  /\ \E l \in rq[r].todo :
       LET q == rq[r]
           w == [max |-> l.max, secs |-> l.secs,
                 rows |-> ActionEntries(l.action, q.now - l.secs * Second)]
       IN Reads(r, [q EXCEPT !.todo = @ \ {l}, !.exh = IF Exhausted(w) THEN @ \union {w} ELSE @,
                             !.pc = IF q.todo = {l} THEN "st_policy" ELSE "st_window"])
StatusPolicy(r) ==
  /\ rq[r].pc = "st_policy"
  /\ Reads(r, IF policy.limit = 0 THEN Answered(rq[r])
              ELSE [rq[r] EXCEPT !.pc = "st_tokens", !.policy = policy])
StatusTokens(r) ==
  /\ rq[r].pc = "st_tokens"
  /\ LET q == rq[r]
         w == [max |-> q.policy.limit, secs |-> q.policy.secs,
               rows |-> TokenEntries(q.now - q.policy.secs * Second)]
     IN Reads(r, Answered([q EXCEPT !.policy = NoPolicy,
                                    !.exh = IF Exhausted(w) THEN @ \union {w} ELSE @]))

-----------------------------------------------------------------------------
(* The escalation queue.                                                   *)

Open(k) == \E e \in esc : e.kind = k /\ e.by = "none"
\* Faulty variant: whatever is open already.
AddAnyway(r, k, opened, already) ==
  esc' = esc \union {[id |-> <<r, k>>, kind |-> k, by |-> "none"]} /\ Become(r, opened)
\* add_escalation_if_none_open: check and insert in one transaction.
AddIfNoneOpen(r, k, opened, already) ==
  IF Open(k) THEN Become(r, already) /\ UNCHANGED esc
  ELSE /\ esc' = esc \union {[id |-> <<r, k>>, kind |-> k, by |-> "none"]}
       /\ Become(r, opened)

\* resolve_escalation_once: the first resolver wins.
\* Faulty variant: the last one does.
ResolveLast(r) ==
  /\ rq[r].pc = "resolve"
  /\ \/ esc = {} /\ Finish(r, FALSE) /\ UNCHANGED esc
     \/ \E e \in esc :
          /\ esc' = (esc \ {e}) \union {[e EXCEPT !.by = rq[r].body.human]}
          /\ Become(r, [rq[r] EXCEPT !.pc = "resolve_note", !.esc = e.id])
  /\ UNCHANGED <<config, spend, usage, clock, ledger, dropped, faults>>
Resolve(r) ==
  /\ rq[r].pc = "resolve"
  /\ \/ esc = {} /\ Finish(r, FALSE) /\ UNCHANGED esc
     \/ \E e \in esc :
          /\ e.by = "none"
          /\ esc' = (esc \ {e}) \union {[e EXCEPT !.by = rq[r].body.human]}
          /\ Become(r, [rq[r] EXCEPT !.pc = "resolve_note", !.esc = e.id])
     \/ \E e \in esc :
          e.by # "none" /\ Finish(r, e.by = rq[r].body.human) /\ UNCHANGED esc
  /\ UNCHANGED <<config, spend, usage, clock, ledger, dropped, faults>>
ResolveNote(r) ==
  /\ rq[r].pc = "resolve_note"
  /\ Note("governor", Event("spend.escalation_resolved", rq[r].esc, rq[r].body.human))
  /\ Finish(r, TRUE)
  /\ UNCHANGED <<store, clock>>

-----------------------------------------------------------------------------
(* POST /spend: refused without a cap, then recorded, noted, and only then *)
(* measured against the cap.  That the sentinel counted a row is what the  *)
(* caller says; such a row has to name its action.                         *)

Row(r) ==
  LET b == rq[r].body
      counted == [id |-> r, ts |-> rq[r].now, cents |-> 0, tokens |-> 0, actions |-> 1,
                  action |-> b.action, source |-> "sentinel"]
  IN IF b.op = "check" THEN counted
     ELSE [counted EXCEPT !.cents = b.cents, !.tokens = b.tokens, !.actions = b.actions,
                          !.source = b.source]
SpendBegin(r) ==
  /\ rq[r].pc = "spend"
  /\ IF cap = NoCap \/ (Row(r).source = "sentinel" /\ Row(r).action = "none")
     THEN Finish(r, FALSE) /\ UNCHANGED clock
     ELSE Looks(r, [rq[r] EXCEPT !.pc = "record"])
  /\ UNCHANGED <<store, ledger, dropped, faults>>

\* A metered row is not noted again: its conformance.allow is its record.
Record(r) ==
  /\ rq[r].pc = "record"
  /\ spend' = spend \union {Row(r)}
  /\ Goto(r, IF Row(r).source = "sentinel" THEN "st_cap" ELSE "record_note")
  /\ UNCHANGED <<config, usage, esc, clock, ledger, dropped, faults>>
RecordNote(r) ==
  /\ rq[r].pc = "record_note"
  /\ Note("governor", Event("spend.recorded", <<r>>, "none"))
  /\ Goto(r, "st_cap")
  /\ UNCHANGED <<store, clock>>

\* A threshold crossed opens an escalation of its kind; a cap reached is noted.
SpendOutcome(r) ==
  /\ rq[r].pc = "outcome"
  /\ \/ /\ rq[r].state = "ESCALATE" /\ rq[r].kind # "none"
        /\ AddIfNoneOpen(r, rq[r].kind, [rq[r] EXCEPT !.pc = "escalate_note"], Finished(rq[r], TRUE))
     \/ rq[r].state = "BLOCK" /\ Goto(r, "block_note") /\ UNCHANGED esc
     \/ rq[r].state # "BLOCK" /\ rq[r].kind = "none" /\ Finish(r, TRUE) /\ UNCHANGED esc
  /\ UNCHANGED <<config, spend, usage, clock, ledger, dropped, faults>>
EscalateNote(r) ==
  /\ rq[r].pc = "escalate_note"
  /\ Note("governor", Event("spend.escalate", <<r, rq[r].kind>>, "none"))
  /\ Finish(r, TRUE)
  /\ UNCHANGED <<store, clock>>
BlockNote(r) ==
  /\ rq[r].pc = "block_note"
  /\ Note("governor", Event("spend.cap_reached", <<r>>, "none"))
  /\ Finish(r, TRUE)
  /\ UNCHANGED <<store, clock>>

-----------------------------------------------------------------------------
(* POST /usage: recorded and noted, then searched for rogue use, then      *)
(* measured against the cap; it opens no threshold escalation.             *)

UsageBegin(r) ==
  /\ rq[r].pc = "usage"
  /\ IF cap = NoCap THEN Finish(r, FALSE) /\ UNCHANGED clock
     ELSE Looks(r, [rq[r] EXCEPT !.pc = "usage_record"])
  /\ UNCHANGED <<store, ledger, dropped, faults>>
UsageRecord(r) ==
  /\ rq[r].pc = "usage_record"
  /\ LET b == rq[r].body
     IN usage' = usage \union {[id |-> r, ts |-> rq[r].now, tokens |-> b.tokens,
                                units |-> IF b.model \in Priced THEN b.units ELSE 0]}
  /\ Goto(r, "usage_note")
  /\ UNCHANGED <<config, spend, esc, clock, ledger, dropped, faults>>
UsageNote(r) ==
  /\ rq[r].pc = "usage_note"
  /\ Note("governor", Event("usage.recorded", <<r>>, "none"))
  /\ Goto(r, "usage_policy")
  /\ UNCHANGED <<store, clock>>
UsagePolicy(r) ==
  /\ rq[r].pc = "usage_policy"
  /\ Reads(r, [rq[r] EXCEPT !.pc = "usage_window", !.policy = policy])
\* window_tokens: this edge is inclusive.
UsageWindow(r) ==
  /\ rq[r].pc = "usage_window"
  /\ LET q == rq[r]
         found == Findings(q.policy, q.body.model,
                           Tokens({}, {x \in usage : x.ts >= q.now - q.policy.secs * Second}))
     IN Reads(r, [q EXCEPT !.policy = NoPolicy, !.rogue = found,
                           !.pc = IF found = {} THEN "st_cap" ELSE "usage_rogue"])
\* Each finding is an escalation of a kind of its own, in evaluate_rogue's order.
UsageRogue(r) ==
  /\ rq[r].pc = "usage_rogue"
  /\ LET q == rq[r]
         k == IF "unpriced" \in q.rogue THEN "unpriced"
              ELSE IF "rogue_model" \in q.rogue THEN "rogue_model" ELSE "rogue_burst"
         rest == [q EXCEPT !.rogue = @ \ {k}, !.pc = IF q.rogue = {k} THEN "st_cap" ELSE @]
     IN AddIfNoneOpen(r, k, [rest EXCEPT !.pc = "rogue_note", !.kind = k], rest)
  /\ UNCHANGED <<config, spend, usage, clock, ledger, dropped, faults>>
RogueNote(r) ==
  /\ rq[r].pc = "rogue_note"
  /\ Note("governor", Event("usage.rogue", <<r, rq[r].kind>>, "none"))
  /\ Goto(r, IF rq[r].rogue = {} THEN "st_cap" ELSE "usage_rogue")
  /\ UNCHANGED <<store, clock>>
UsageEnd(r) ==
  /\ rq[r].pc = "usage_end"
  /\ Reads(r, IF Verdict(rq[r]) = "BLOCK" THEN [rq[r] EXCEPT !.pc = "block_note"]
              ELSE Finished(rq[r], TRUE))

ConfigStep(r) ==
  PutCap(r) \/ PutPolicy(r) \/ RatesCheck(r) \/ RatesWrite(r) \/ RatesBack(r) \/ RatesNote(r)
StatusStep(r) ==
  \/ GetStatus(r) \/ StatusCap(r) \/ StatusTotals(r) \/ StatusUsage(r) \/ StatusActions(r)
  \/ StatusOpen(r) \/ StatusRates(r) \/ StatusWindow(r) \/ StatusPolicy(r) \/ StatusTokens(r)
SpendStep(r) ==
  \/ SpendBegin(r) \/ Record(r) \/ RecordNote(r) \/ SpendOutcome(r) \/ EscalateNote(r)
  \/ BlockNote(r)
UsageStep(r) ==
  \/ UsageBegin(r) \/ UsageRecord(r) \/ UsageNote(r) \/ UsagePolicy(r) \/ UsageWindow(r)
  \/ UsageRogue(r) \/ RogueNote(r) \/ UsageEnd(r)
GovernorStep(r) ==
  ConfigStep(r) \/ StatusStep(r) \/ SpendStep(r) \/ UsageStep(r) \/ Resolve(r) \/ ResolveNote(r)
=============================================================================
