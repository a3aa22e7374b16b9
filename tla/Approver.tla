------------------------------ MODULE Approver ------------------------------
(***************************************************************************)
(* The claude-approver: a poller that answers the permission questions       *)
(* ("asks") of hosted sessions with the sentinel's verdicts, reports their   *)
(* token usage and halts them on a kill.  One session is modelled (state is  *)
(* kept per session).  The session service (Managed Agents API) is external: *)
(* it keeps a log of events, and a call to it may be refused, may be carried *)
(* out although its answer is lost, and may even be carried out late.        *)
(***************************************************************************)
EXTENDS Integers, Sequences, FiniteSets, SequencesExt, TLC

CONSTANTS
  Asks,                   \* ids of tool uses that need a confirmation
  ApproverScenes          \* the turns a session may take, each [asked, custom, named, ahead],
                          \* how many, and the failed calls or kills that may come

VARIABLES
  api,                    \* the session at the service (external)
  wire,                   \* confirmations that timed out here and may land yet
  blocked,                \* the sentinel allows the agent nothing any more
  applied,                \* confirmations the service took: [ask, result, late]
  st,                     \* SessionState
  tick,                   \* the poller's frame
  usage,                  \* governor's total, cursor in memory, cursor file
  halt,                   \* the /halt handler's frame
  refused,                \* asks whose confirmation was refused for good
  aleft

approverVars == <<api, wire, blocked, applied, st, tick, usage, halt, refused, aleft>>

Results == {"allow", "deny"}
Far == 1000               \* a processed_at ahead of the clock

ApproverAssumption ==
  /\ IsFiniteSet(Asks)
  /\ \A s \in ApproverScenes :
       /\ {s.turns, s.faults} \subseteq Nat
       /\ s.shapes \subseteq [asked : SUBSET Asks, custom : BOOLEAN, named : BOOLEAN, ahead : BOOLEAN]
ASSUME ApproverAssumption

-----------------------------------------------------------------------------
NoState == [seen |-> 0, cursor |-> 0, asks |-> {}, answered |-> {}, stale |-> {}, customs |-> 0,
            stop |-> "none", ids |-> {}, listed |-> FALSE, idleSeq |-> 0,
            maybe |-> <<>>, updated |-> 0, read |-> FALSE]
NoTick == [pc |-> "rest", snap |-> [updated |-> 0, used |-> 0], plan |-> <<>>,
           outcome |-> <<>>, late |-> FALSE]

ApproverInit ==
  /\ api = [status |-> "running", archived |-> FALSE, log |-> <<>>, open |-> {},
            fresh |-> Asks, used |-> 0, interrupting |-> FALSE]
  /\ wire = {} /\ blocked = FALSE /\ applied = {} /\ refused = {}
  /\ st = NoState /\ tick = NoTick
  /\ usage = [governor |-> 0, memory |-> 0, disk |-> 0]
  /\ halt = "rest"
  /\ \E s \in ApproverScenes :
       aleft = [shapes |-> s.shapes, turns |-> s.turns, faults |-> s.faults, failed |-> FALSE]

Fault == aleft.faults > 0 /\ aleft' = [aleft EXCEPT !.faults = @ - 1, !.failed = TRUE]

-----------------------------------------------------------------------------
(* The session service *)

Event(type, id, ids, ahead) == [type |-> type, id |-> id, ids |-> ids, ahead |-> ahead]
NoAsk == "none"

\* The agent works, asks, and goes idle naming what it waits for (or, in older answers, not).
AgentTurn(t) ==
  /\ api.status = "running" /\ ~api.archived /\ aleft.turns > 0
  /\ t.asked \subseteq api.fresh
  /\ LET events == SetToSeq({Event("ask", a, {}, t.ahead) : a \in t.asked})
                     \o (IF t.custom THEN <<Event("custom", NoAsk, {}, FALSE)>> ELSE <<>>)
         idle == Event(IF t.asked # {} \/ t.custom THEN "requires_action" ELSE "end_turn",
                       NoAsk, IF t.named THEN t.asked \cup (IF t.custom THEN {"custom"} ELSE {}) ELSE {"absent"}, FALSE)
     IN api' = [api EXCEPT !.log = @ \o events \o <<idle>>, !.status = "idle", !.open = t.asked,
                           !.fresh = @ \ t.asked, !.used = @ + 1]
  /\ aleft' = [aleft EXCEPT !.turns = @ - 1]
  /\ UNCHANGED <<wire, blocked, applied, st, tick, usage, halt, refused>>

\* The session after a confirmation of the asks in `as`, all of which were open.
Confirmed(as) ==
  LET log == api.log \o SetToSeq({Event("confirmation", a, {}, FALSE) : a \in as})
      left == api.open \ as
  IN [api EXCEPT !.open = left,
                 !.log = IF left = {} THEN log \o <<Event("running", NoAsk, {}, FALSE)>> ELSE log,
                 !.status = IF left = {} THEN "running" ELSE @]

\* Somebody answers in the Console.
HumanAnswers(a) ==
  /\ a \in api.open /\ ~api.archived
  /\ api' = Confirmed({a})
  /\ UNCHANGED <<wire, blocked, applied, st, tick, usage, halt, refused, aleft>>

\* Somebody ends the turn in the Console: what it waited for is void.  A custom tool's
\* result continues it the same way.
HumanContinues(void) ==
  /\ api.status = "idle" /\ ~api.archived
  /\ api' = [api EXCEPT !.open = {}, !.status = "running",
                        !.log = @ \o <<Event(IF void THEN "running" ELSE "custom_result", NoAsk, {}, FALSE)>>]
  /\ void \/ api.open = {}
  /\ UNCHANGED <<wire, blocked, applied, st, tick, usage, halt, refused, aleft>>

\* The service gets to an interrupt it accepted.
Interrupted ==
  /\ api.interrupting /\ ~api.archived
  /\ api' = [api EXCEPT !.interrupting = FALSE, !.open = {}, !.status = "idle",
                        !.log = Append(@, Event("end_turn", NoAsk, {}, FALSE))]
  /\ UNCHANGED <<wire, blocked, applied, st, tick, usage, halt, refused, aleft>>

\* A kill or a revoked token: from now on the sentinel says ALLOW to nothing (external).
Block ==
  /\ ~blocked /\ blocked' = TRUE
  /\ UNCHANGED <<api, wire, applied, st, tick, usage, halt, refused, aleft>>

\* A batch is taken whole or refused: 400 when one of its asks is not open.
Takes(batch) == ~api.archived /\ DOMAIN batch \subseteq api.open
TakenFrom(batch, late) == {[ask |-> a, result |-> batch[a], late |-> late] : a \in DOMAIN batch}

\* A call that timed out at the approver is carried out after all.
Lands(w) ==
  /\ w \in wire
  /\ wire' = wire \ {w}
  /\ IF Takes(w.batch)
     THEN api' = Confirmed(DOMAIN w.batch) /\ applied' = applied \cup TakenFrom(w.batch, w.late)
     ELSE UNCHANGED <<api, applied>>
  /\ UNCHANGED <<blocked, st, tick, usage, halt, refused, aleft>>

-----------------------------------------------------------------------------
(* tick *)

\* sessions.list: the session as it is now, or nothing this time.  The state of a session
\* that left the listing is dropped.
TickList(ok) ==
  /\ tick.pc = "rest"
  /\ IF ok THEN UNCHANGED aleft ELSE Fault
  /\ st' = IF ok /\ api.archived THEN NoState ELSE st
  /\ tick' = IF ~ok \/ api.archived THEN NoTick
             ELSE [NoTick EXCEPT !.pc = IF api.status = "idle" THEN "read" ELSE "usage",
                                 !.snap = [updated |-> Len(api.log), used |-> api.used], !.late = blocked]
  /\ UNCHANGED <<api, wire, blocked, applied, usage, halt, refused>>

\* Faulty variant: any processed_at becomes the cursor.
CursorAfterAny(cursor, i, e) == IF e.ahead THEN Far ELSE IF cursor < i THEN i ELSE cursor

\* The cursor moves to later times, never to one ahead of the clock.
CursorAfter(cursor, i, e) == IF ~e.ahead /\ cursor < i THEN i ELSE cursor

\* One event into the session's state; i is its place in the log, which is its time.
ReadEvent(s, i, e) ==
  LET t == [s EXCEPT !.seen = i, !.cursor = CursorAfter(@, i, e)]
  IN CASE e.type = "ask" /\ e.id \notin s.answered \cup s.stale -> [t EXCEPT !.asks = @ \cup {e.id}]
       [] e.type = "confirmation" ->
            [t EXCEPT !.answered = @ \cup {e.id}, !.asks = @ \ {e.id},
                      !.maybe = [a \in DOMAIN @ \ {e.id} |-> @[a]]]
       [] e.type = "custom" -> [t EXCEPT !.customs = i]
       [] e.type = "custom_result" -> [t EXCEPT !.customs = 0]
       [] e.type \in {"requires_action", "end_turn"} ->
            [t EXCEPT !.stop = e.type, !.listed = e.ids # {"absent"},
                      !.ids = IF e.ids # {"absent"} THEN e.ids ELSE {}, !.idleSeq = i]
       [] e.type = "running" -> [t EXCEPT !.stop = "none", !.listed = FALSE, !.ids = {}]
       [] OTHER -> t

\* The answer to events.list(created_at_gte = cursor), without what was seen; it may break
\* off after k events, each of which was taken in.
ReadEvents(s, k) ==
  LET read[i \in 0..k] ==
        IF i = 0 THEN s
        ELSE IF i > s.seen /\ i >= s.cursor THEN ReadEvent(read[i - 1], i, api.log[i]) ELSE read[i - 1]
  IN read[k]

PlaceOf(a) == CHOOSE i \in 1..Len(api.log) : api.log[i].type = "ask" /\ api.log[i].id = a

\* Asks and custom tool uses read before the latest idle that it does not name belong to a turn that is over.
DropSuperseded(s) ==
  IF ~(s.stop = "requires_action" /\ s.listed) THEN s
  ELSE LET over == {a \in s.asks : a \notin s.ids /\ PlaceOf(a) < s.idleSeq}
       IN [s EXCEPT !.asks = @ \ over, !.stale = @ \cup over,
                    !.maybe = [a \in DOMAIN @ \ over |-> @[a]],
                    !.customs = IF "custom" \notin s.ids /\ @ < s.idleSeq THEN 0 ELSE @]

Eligible(s) ==
  IF s.stop # "requires_action" \/ s.customs # 0 THEN {}
  ELSE IF s.listed THEN s.asks \cap s.ids ELSE s.asks

\* Nothing pending, the session unchanged since the last read: the read is skipped.
UpToDate == st.read /\ tick.snap.updated = st.updated /\ st.asks = {} /\ st.customs = 0

ApproveSession ==
  /\ tick.pc = "read"
  /\ \E skip \in BOOLEAN, k \in 0..Len(api.log) :
       /\ skip => UpToDate /\ k = 0
       /\ ~skip => k >= st.seen
       /\ LET ok == skip \/ k = Len(api.log)
              s == IF skip THEN st
                   ELSE LET r == ReadEvents(st, k)
                        IN IF ok THEN [r EXCEPT !.updated = tick.snap.updated, !.read = TRUE] ELSE r
              d == IF ok THEN DropSuperseded(s) ELSE s
          IN /\ st' = d
             /\ IF ok THEN UNCHANGED aleft ELSE Fault
             /\ tick' = [tick EXCEPT !.pc = IF ok /\ Eligible(d) # {} THEN "check" ELSE "usage"]
  /\ UNCHANGED <<api, wire, blocked, applied, usage, halt, refused>>

\* Faulty variant: a verdict whose send may have failed is used again.
VerdictsRemembered(a) ==
  IF a \in DOMAIN st.maybe THEN {st.maybe[a]} ELSE IF blocked THEN {"deny"} ELSE Results

\* A fresh verdict for each ask, remembered or not: only ALLOW allows, all else denies.
Verdicts(a) == IF blocked THEN {"deny"} ELSE Results

Check ==
  /\ tick.pc = "check"
  /\ \E plan \in [Eligible(st) -> Results] :
       /\ \A a \in DOMAIN plan : plan[a] \in Verdicts(a)
       /\ tick' = [tick EXCEPT !.plan = plan, !.pc = "send"]
  /\ UNCHANGED <<api, wire, blocked, applied, st, usage, halt, refused, aleft>>

\* What a send can come to: taken, refused as a duplicate, refused for good, or unknown
\* (nothing happened, it was taken, or it lands later).
Send(batch, outcome) ==
  \/ /\ outcome = "sent" /\ Takes(batch)
     /\ api' = Confirmed(DOMAIN batch) /\ applied' = applied \cup TakenFrom(batch, tick.late)
     /\ UNCHANGED <<wire, refused, aleft>>
  \/ /\ outcome = "conflict" /\ ~Takes(batch)
     /\ UNCHANGED <<api, wire, applied, refused, aleft>>
  \/ /\ outcome = "rejected" /\ Fault
     /\ refused' = IF Cardinality(DOMAIN batch) = 1 THEN refused \cup DOMAIN batch ELSE refused
     /\ UNCHANGED <<api, wire, applied>>
  \/ /\ outcome = "retry" /\ Fault
     /\ \/ UNCHANGED <<api, wire, applied>>
        \/ /\ Takes(batch)
           /\ api' = Confirmed(DOMAIN batch) /\ applied' = applied \cup TakenFrom(batch, tick.late)
           /\ UNCHANGED wire
        \/ /\ wire' = wire \cup {[batch |-> batch, late |-> tick.late]}
           /\ UNCHANGED <<api, applied>>
     /\ UNCHANGED refused

\* Faulty variant: an unknown outcome is taken for an answer.
BookedUnknownDone(outcome) ==
  LET with(os) == {a \in DOMAIN outcome : outcome[a] \in os}
  IN [st EXCEPT !.asks = @ \ DOMAIN outcome, !.answered = @ \cup with({"sent", "retry"}),
                !.stale = @ \cup with({"rejected", "conflict"})]

\* The outcomes are booked: a duplicate after a send of unknown outcome is an answer.
Booked(outcome) ==
  LET with(os) == {a \in DOMAIN outcome : outcome[a] \in os}
      duplicate == with({"conflict"}) \cap DOMAIN st.maybe
      done == with({"sent"}) \cup duplicate
      dead == with({"rejected", "conflict"}) \ duplicate
      unknown == with({"retry"})
  IN [st EXCEPT !.asks = @ \ (done \cup dead), !.answered = @ \cup done, !.stale = @ \cup dead,
                !.maybe = [a \in (DOMAIN @ \ (done \cup dead)) \cup unknown |->
                             IF a \in unknown THEN tick.plan[a] ELSE @[a]]]

\* All confirmations in one call; only a refused batch is split.
SendBatch(outcome) ==
  /\ tick.pc = "send"
  /\ Send(tick.plan, outcome)
  /\ IF outcome \in {"conflict", "rejected"} /\ Cardinality(DOMAIN tick.plan) > 1
     THEN tick' = [tick EXCEPT !.pc = "split"] /\ UNCHANGED st
     ELSE /\ st' = Booked([a \in DOMAIN tick.plan |-> outcome])
          /\ tick' = [tick EXCEPT !.pc = "usage", !.plan = <<>>]
  /\ UNCHANGED <<blocked, usage, halt>>

SendSingle(a, outcome) ==
  /\ tick.pc = "split" /\ a = CHOOSE x \in DOMAIN tick.plan \ DOMAIN tick.outcome : TRUE
  /\ Send([x \in {a} |-> tick.plan[a]], outcome)
  /\ LET all == [x \in DOMAIN tick.outcome \cup {a} |-> IF x = a THEN outcome ELSE tick.outcome[x]]
     IN IF DOMAIN all # DOMAIN tick.plan
        THEN tick' = [tick EXCEPT !.outcome = all] /\ UNCHANGED st
        ELSE /\ st' = Booked(all)
             /\ tick' = [tick EXCEPT !.pc = "usage", !.plan = <<>>, !.outcome = <<>>]
  /\ UNCHANGED <<blocked, usage, halt>>

-----------------------------------------------------------------------------
(* Usage: the part of the session's total that was not posted yet. *)

Delta == IF tick.snap.used > usage.memory THEN tick.snap.used - usage.memory ELSE 0

PostUsage(recorded, answered) ==
  /\ tick.pc = "usage"
  /\ \/ /\ Delta = 0 /\ recorded /\ answered
        /\ tick' = NoTick
        /\ UNCHANGED <<usage, aleft>>
     \/ /\ Delta > 0
        /\ answered => recorded
        /\ IF recorded /\ answered THEN UNCHANGED aleft ELSE Fault
        /\ usage' = IF recorded THEN [usage EXCEPT !.governor = @ + Delta] ELSE usage
        /\ tick' = IF answered THEN [tick EXCEPT !.pc = "cursor"] ELSE NoTick
  /\ UNCHANGED <<api, wire, blocked, applied, st, halt, refused>>

\* UsageCursor.set: the file first, then memory.
SetCursor(ok) ==
  /\ tick.pc = "cursor"
  /\ usage' = IF ok THEN [usage EXCEPT !.disk = tick.snap.used, !.memory = tick.snap.used] ELSE usage
  /\ IF ok THEN UNCHANGED aleft ELSE Fault
  /\ tick' = NoTick
  /\ UNCHANGED <<api, wire, blocked, applied, st, halt, refused>>

\* The process is killed and started again: only the cursor file is left.
ApproverRestart ==
  /\ Fault
  /\ st' = NoState /\ tick' = NoTick
  /\ usage' = [usage EXCEPT !.memory = usage.disk]
  /\ halt' = IF halt = "rest" THEN halt ELSE "done"
  /\ UNCHANGED <<api, wire, blocked, applied, refused>>

-----------------------------------------------------------------------------
(* /halt, in a thread of its own: interrupt, wait, archive. *)

\* Listed, and interrupted unless it is over already.  The kill that calls it blocks first.
HaltInterrupt(ok) ==
  /\ halt = "rest" /\ blocked
  /\ IF ok THEN UNCHANGED aleft ELSE Fault
  /\ api' = IF ok /\ ~api.archived THEN [api EXCEPT !.interrupting = TRUE] ELSE api
  /\ halt' = IF api.archived THEN "done" ELSE "poll"
  /\ UNCHANGED <<wire, blocked, applied, st, tick, usage, refused>>

\* Polled until it is idle, then archived; at the deadline, or when a call fails, it is left.
HaltArchive(ok) ==
  /\ halt = "poll" /\ halt' = "done"
  /\ ok => api.status = "idle"
  /\ api' = IF ok THEN [api EXCEPT !.archived = TRUE, !.open = {}] ELSE api
  /\ UNCHANGED <<wire, blocked, applied, st, tick, usage, refused, aleft>>

-----------------------------------------------------------------------------
Tick ==
  \/ \E ok \in BOOLEAN : TickList(ok)
  \/ ApproveSession
  \/ Check
  \/ \E o \in {"sent", "conflict", "rejected", "retry"} : SendBatch(o) \/ \E a \in Asks : SendSingle(a, o)
  \/ \E recorded, answered \in BOOLEAN : PostUsage(recorded, answered)
  \/ \E ok \in BOOLEAN : SetCursor(ok)

Halt == \E ok \in BOOLEAN : HaltInterrupt(ok) \/ HaltArchive(ok)

Service ==
  \/ \E t \in aleft.shapes : AgentTurn(t)
  \/ \E a \in Asks : HumanAnswers(a)
  \/ \E void \in BOOLEAN : HumanContinues(void)
  \/ Interrupted \/ Block
  \/ \E w \in wire : Lands(w)

ApproverNext == Tick \/ Halt \/ Service \/ ApproverRestart

\* The poller's thread ticks for ever (a tick survives every exception); nothing is assumed
\* of the service, of people or of the halt handler.
ApproverFairness == []<>(tick.pc = "rest") /\ []<>(tick.pc # "rest" \/ api.archived)
ApproverSpec == ApproverInit /\ [][ApproverNext]_approverVars /\ ApproverFairness

-----------------------------------------------------------------------------
(* An allow the service took was not decided by a tick that began when the  *)
(* agent was already stopped: not by a retry of an earlier send, nor by a   *)
(* late delivery of a tick's own.                                           *)
AllowsHeedStop == \A c \in applied : c.result = "allow" => ~c.late

(* No ask that still blocks the session is given up: what is booked as      *)
(* answered or stale cannot be open, unless the service refused its         *)
(* confirmation for good.  Batches that are split, lost answers, answers    *)
(* given in the Console and turns that were ended all book asks.            *)
NoAskStranded == api.open \cap (st.answered \cup st.stale) \subseteq refused

(* The governor has at least what the cursor file says was posted, and      *)
(* exactly that when no call failed and no process was killed: usage may be *)
(* counted twice after a lost answer, but never dropped by a restart.       *)
UsageNeverLost ==
  /\ usage.disk <= usage.governor /\ usage.memory <= usage.governor
  /\ ~aleft.failed /\ tick.pc # "cursor" => usage.governor = usage.disk

(* An ask that blocks a session is answered, or its turn ended: the poller  *)
(* does not skip, strand or forget it.  Left out, as in the code: sessions  *)
(* that wait for a custom tool, archived ones, and confirmations that the   *)
(* service refuses for good.                                                *)
AsksAnswered ==
  api.open # {} ~> (api.open \subseteq refused \/ api.archived \/ st.customs # 0)
=============================================================================
