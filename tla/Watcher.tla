-------------------------------- MODULE Watcher --------------------------------
(***************************************************************************)
(* tools/estate_kill_watcher.py: it polls the estate's heartbeat for one    *)
(* agent and keeps a local sentinel file, which the session's gate denies   *)
(* on, in step with it.  A stamp says when a poll last succeeded; the gate  *)
(* also denies when the stamp is too old.                                   *)
(***************************************************************************)
EXTENDS Integers, FiniteSets

CONSTANTS
  Watchers,           \* watcher processes on one sentinel: the loop, and perhaps a --once
  Interval, Timeout,  \* seconds between polls, and the total deadline of one (in units)
  WatchMaxAge,        \* sentinel_max_age_s
  WatchBudget         \* kills, revives, deaths, failed writes, human halts: a record

\* sentinel_max_age_s is no negative number; Settles says what else it is.
ASSUME WatchConstants == WatchMaxAge \in Nat

VARIABLES
  killed,           \* what the estate would answer
  watchKilledFor,   \* time since the kill, or since a human last cleared the file
  sentinel,         \* the file: "none", "watcher" (first line is MARKER) or "human"
  halted,           \* a human halted the session and has not undone it
  stampAge,         \* age of <sentinel>.alive
  watch,            \* watcher -> where it is
  wbudget

watcherVars == <<killed, watchKilledFor, sentinel, halted, stampAge, watch, wbudget>>

WatchNever == WatchMaxAge + 1       \* a missing stamp, or one past the limit
Settled == WatchMaxAge + Timeout + 1          \* ages are capped here
Wait(n) == [at |-> "wait", left |-> n]

\* A watcher only starts when the limit leaves room for two polls and a timeout.
Settles ==
  /\ Interval \in Nat \ {0} /\ Timeout \in Nat \ {0}
  /\ WatchMaxAge > 2 * Interval + Timeout

WatcherInit ==
  /\ Settles
  /\ killed = FALSE /\ watchKilledFor = 0 /\ sentinel = "none" /\ halted = FALSE
  /\ stampAge = WatchNever /\ watch = [w \in Watchers |-> Wait(0)] /\ wbudget = WatchBudget

SpendWatch(kind) == wbudget[kind] > 0 /\ wbudget' = [wbudget EXCEPT ![kind] = @ - 1]
WatchGoto(w, c) == watch' = [watch EXCEPT ![w] = c]
WatchAt(w, where) == watch[w].at = where

-----------------------------------------------------------------------------
(* The estate, the human and time *)

Kill ==
  /\ ~killed /\ SpendWatch("kill") /\ killed' = TRUE /\ watchKilledFor' = 0
  /\ UNCHANGED <<sentinel, halted, stampAge, watch>>

WatchRevive ==
  /\ killed /\ SpendWatch("revive") /\ killed' = FALSE /\ watchKilledFor' = 0
  /\ UNCHANGED <<sentinel, halted, stampAge, watch>>

HumanHalts ==
  /\ ~halted /\ SpendWatch("halt") /\ halted' = TRUE /\ sentinel' = "human"
  /\ UNCHANGED <<killed, watchKilledFor, stampAge, watch>>

HumanResumes ==
  /\ halted /\ halted' = FALSE /\ sentinel' = "none" /\ watchKilledFor' = 0
  /\ UNCHANGED <<killed, stampAge, watch, wbudget>>

\* File operations take no time here; a poll takes at most its total deadline.
TimeGoesOn ==
  /\ \A w \in Watchers :
       watch[w].at \in {"wait", "ask", "dead"} /\ (WatchAt(w, "ask") => watch[w].left > 0)
  /\ watch' = [w \in Watchers |->
                 IF WatchAt(w, "dead") \/ watch[w].left = 0 THEN watch[w] ELSE [watch[w] EXCEPT !.left = @ - 1]]
  /\ watchKilledFor' = IF killed /\ watchKilledFor < Settled THEN watchKilledFor + 1 ELSE watchKilledFor
  /\ stampAge' = IF stampAge < WatchNever THEN stampAge + 1 ELSE stampAge
  /\ UNCHANGED <<killed, sentinel, halted, wbudget>>

WatcherDies(w) ==
  /\ ~WatchAt(w, "dead") /\ SpendWatch("die") /\ WatchGoto(w, [at |-> "dead"])
  /\ UNCHANGED <<killed, watchKilledFor, sentinel, halted, stampAge>>

-----------------------------------------------------------------------------
(* One poll *)

Polls(w) ==
  /\ WatchAt(w, "wait") /\ watch[w].left = 0 /\ WatchGoto(w, [at |-> "ask", left |-> Timeout])
  /\ UNCHANGED <<killed, watchKilledFor, sentinel, halted, stampAge, wbudget>>

\* The estate says what is true when it answers; the answer may take the rest of the deadline.
EstateAnswers(w) ==
  /\ WatchAt(w, "ask") /\ "says" \notin DOMAIN watch[w]
  /\ WatchGoto(w, [at |-> "ask", left |-> watch[w].left, says |-> killed])
  /\ UNCHANGED <<killed, watchKilledFor, sentinel, halted, stampAge, wbudget>>

\* Faulty variant: the stamp is refreshed by a poll that got no answer.
NoAnswerStamped(w) ==
  /\ WatchAt(w, "ask") /\ "says" \notin DOMAIN watch[w] /\ WatchGoto(w, Wait(Interval))
  /\ stampAge' = 0 /\ UNCHANGED <<killed, watchKilledFor, sentinel, halted, wbudget>>

\* Unreachable, not 200, another agent's or no heartbeat: nothing changes.
NoAnswer(w) ==
  /\ WatchAt(w, "ask") /\ WatchGoto(w, Wait(Interval))
  /\ UNCHANGED <<killed, watchKilledFor, sentinel, halted, stampAge, wbudget>>

\* apply(): does the file exist, and whose is it?  What follows acts on that look.
Looks(w) ==
  /\ WatchAt(w, "ask") /\ "says" \in DOMAIN watch[w]
  /\ WatchGoto(w, [at |-> IF watch[w].says THEN (IF sentinel = "none" THEN "create" ELSE "stamp")
                          ELSE (IF sentinel = "watcher" THEN "unlink" ELSE "stamp")])
  /\ UNCHANGED <<killed, watchKilledFor, sentinel, halted, stampAge, wbudget>>

\* os.replace puts the watcher's file there, whatever is there by now.
Creates(w) ==
  /\ WatchAt(w, "create") /\ sentinel' = "watcher" /\ WatchGoto(w, [at |-> "stamp"])
  /\ UNCHANGED <<killed, watchKilledFor, halted, stampAge, wbudget>>

\* os.unlink: of a file that is gone by now it fails, and nothing is stamped.
Unlinks(w) ==
  /\ WatchAt(w, "unlink")
  /\ IF sentinel = "none" THEN WatchGoto(w, Wait(Interval)) ELSE WatchGoto(w, [at |-> "stamp"])
  /\ sentinel' = "none"
  /\ UNCHANGED <<killed, watchKilledFor, halted, stampAge, wbudget>>

Stamps(w) ==
  /\ WatchAt(w, "stamp") /\ stampAge' = 0 /\ WatchGoto(w, Wait(Interval))
  /\ UNCHANGED <<killed, watchKilledFor, sentinel, halted, wbudget>>

\* A full disk or a permission: the poll counts as failed, the stamp stays old.
WriteFails(w) ==
  /\ watch[w].at \in {"create", "unlink", "stamp"} /\ SpendWatch("write") /\ WatchGoto(w, Wait(Interval))
  /\ UNCHANGED <<killed, watchKilledFor, sentinel, halted, stampAge>>

-----------------------------------------------------------------------------
WatcherNext ==
  \/ Kill \/ WatchRevive \/ HumanHalts \/ HumanResumes \/ TimeGoesOn
  \/ \E w \in Watchers :
       \/ WatcherDies(w) \/ Polls(w) \/ EstateAnswers(w) \/ NoAnswer(w) \/ Looks(w)
       \/ Creates(w) \/ Unlinks(w) \/ Stamps(w) \/ WriteFails(w)

WatcherSpec == WatcherInit /\ [][WatcherNext]_watcherVars

-----------------------------------------------------------------------------
(* Properties *)

\* The gate of the session, with sentinel_max_age_s set.
Denies == sentinel # "none" \/ stampAge > WatchMaxAge

\* A kill reaches the session in bounded time or the session stops anyway: with
\* watchers dead, the estate silent, late answers applied after newer ones, and
\* writes that fail.
KillReachesGate == killed /\ watchKilledFor >= Settled => Denies

\* "A sentinel a human created is left in place: a revive on the estate does not
\* undo a human's halt" (the tool's own description of a poll).
\* The code does not keep this; no run asks for it (README, Divergences).
HumanHaltKept == halted => sentinel # "none"
=============================================================================
