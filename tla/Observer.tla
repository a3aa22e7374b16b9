------------------------------- MODULE Observer -------------------------------
(***************************************************************************)
(* The sealed-ledger's operator observer: a thread that reads the operator  *)
(* block of every service's /health, and the ledger's own parse of the      *)
(* operators file, and appends a row whenever what it reads differs from    *)
(* what it last recorded.  Its memory dies with the process; the rows stay. *)
(***************************************************************************)
EXTENDS Integers, Sequences, FiniteSets

CONSTANTS
  Watched,               \* services with a /health; "sealed-ledger" reads its own block
  ObserverModes, Files,  \* operator modes and operators files
  MaxCount,              \* counts of break-glass requests and of retired keys a process can reach
  ObserverBudgets        \* changes, append failures and restarts that may come

VARIABLES
  health,           \* what each service would answer: mode, file, generation, counters
  answers,          \* services that answer
  known,            \* the observer's memory: kind of fact -> service -> value
  ledgered,         \* the last row of each kind and service
  drops,            \* generation decreases ledgered: <<service, from, to>>
  queue,            \* alerts waiting, one per service
  told,             \* the last break-glass count each service's alert told
  todo,             \* what this tick still has to look at: services, and Own
  phase, oleft

observerVars == <<health, answers, known, ledgered, drops, queue, told, todo, phase, oleft>>

Self == "sealed-ledger"
NoAlert == -1
Unseen == [seen |-> FALSE]
Saw(v) == [seen |-> TRUE, value |-> v]
Kinds == {"mode", "registry", "generation", "glass", "slots", "retired"}
Counters == {"glass", "retired"}
\* What the ledger reads of itself without a /health: its parse, and its count of retired keys.
Own == {"slots", "retired"}
Nothing == [k \in Kinds |-> [s \in Watched |-> Unseen]]

ObserverAssumption ==
  /\ Self \in Watched /\ MaxCount \in Nat
  /\ \A f \in Files : f \in [sha : STRING, generation : Nat]
ASSUME ObserverAssumption

ObserverInit ==
  /\ \E m \in ObserverModes, f \in Files :
       health = [s \in Watched |-> [mode |-> m, file |-> f, glass |-> 0, retired |-> 0]]
  /\ answers = Watched
  /\ known = Nothing /\ ledgered = Nothing /\ drops = {}
  /\ queue = [s \in Watched |-> NoAlert] /\ told = [s \in Watched |-> 0]
  /\ todo = {} /\ phase = "wait" /\ oleft \in ObserverBudgets

SpendObserver(kind) == oleft[kind] > 0 /\ oleft' = [oleft EXCEPT ![kind] = @ - 1]

-----------------------------------------------------------------------------
(* A tick *)

StartTick ==
  /\ phase = "wait" /\ phase' = "read" /\ todo' = Watched \cup Own
  /\ UNCHANGED <<health, answers, known, ledgered, drops, queue, told, oleft>>

\* The operator block of /health: the mode, and the file's digest and generation.
HealthBlock(s) ==
  [mode |-> health[s].mode, registry |-> health[s].file.sha,
   generation |-> health[s].file.generation, glass |-> health[s].glass]

\* The ledger's own parse: generation, slots and digest stand for the file.
SlotWitness == health[Self].file

\* The values a row of each kind carries.
Reading(s) ==
  [k \in Kinds |-> CASE k = "slots" -> SlotWitness [] k = "retired" -> health[Self].retired
                     [] OTHER -> HealthBlock(s)[k]]

\* Is a row due?  Generations only when they fall, counters at the start only when above zero.
Due(k, s, v) ==
  LET prev == known[k][s]
  IN CASE k \in {"mode", "registry", "slots"} -> prev # Saw(v)
       [] k = "generation" -> prev.seen /\ v < prev.value
       [] k \in Counters -> IF prev.seen THEN prev.value # v ELSE v > 0

\* The kinds of one look, in the order they are written; the first failed append ends it.
Order == <<"mode", "registry", "generation", "glass">>

\* Faulty variant: a value counts as recorded although its append failed.
RememberedAnyway(s, r, upto, failed) ==
  [k \in Kinds |->
     IF \E i \in 1..upto + failed : i <= Len(Order) /\ Order[i] = k
     THEN [known[k] EXCEPT ![s] = Saw(r[k])] ELSE known[k]]

\* What is remembered after the appends of Order[1..upto] went through (failed = 1: the next did not).
Remembered(s, r, upto, failed) ==
  [k \in Kinds |->
     IF \E i \in 1..upto : Order[i] = k
     THEN [known[k] EXCEPT ![s] = Saw(r[k])] ELSE known[k]]

\* The rows of the kinds Order[1..upto] that were due.
ObserverRows(s, r, upto) ==
  [k \in Kinds |->
     IF \E i \in 1..upto : Order[i] = k /\ Due(k, s, r[k])
     THEN [ledgered[k] EXCEPT ![s] = Saw(r[k])] ELSE ledgered[k]]

\* One service: _observe, then _observe_rotation.  upto = 4 when nothing failed.
Observe(s, upto) ==
  /\ phase = "read" /\ s \in todo \ Own /\ s \in answers
  /\ LET r == Reading(s)
         failed == IF upto < Len(Order) THEN 1 ELSE 0
     IN /\ failed = 1 => SpendObserver("failures") /\ Due(Order[upto + 1], s, r[Order[upto + 1]])
        /\ failed = 0 => UNCHANGED oleft
        /\ known' = Remembered(s, r, upto, failed)
        /\ ledgered' = ObserverRows(s, r, upto)
        /\ drops' = IF upto >= 3 /\ Due("generation", s, r.generation)
                    THEN drops \cup {<<s, known["generation"][s].value, r.generation>>} ELSE drops
        /\ queue' = IF upto = 4 /\ Due("glass", s, r.glass) THEN [queue EXCEPT ![s] = r.glass] ELSE queue
  /\ todo' = todo \ {s}
  /\ UNCHANGED <<health, answers, told, phase>>

\* A service that does not answer is skipped and its state kept.
SkipSilent(s) ==
  /\ phase = "read" /\ s \in todo \ Own /\ s \notin answers
  /\ todo' = todo \ {s}
  /\ UNCHANGED <<health, answers, known, ledgered, drops, queue, told, phase, oleft>>

\* The ledger's own parse, after the services; a failed append does not keep it from its counter.
ObserveSlots(ok) ==
  /\ phase = "read" /\ todo = Own
  /\ LET v == Reading(Self)["slots"]
         due == Due("slots", Self, v)
     IN /\ ~ok => due /\ SpendObserver("failures")
        /\ ok => UNCHANGED oleft
        /\ known' = IF ok /\ due THEN [known EXCEPT !["slots"][Self] = Saw(v)] ELSE known
        /\ ledgered' = IF ok /\ due THEN [ledgered EXCEPT !["slots"][Self] = Saw(v)] ELSE ledgered
  /\ todo' = todo \ {"slots"}
  /\ UNCHANGED <<health, answers, drops, queue, told, phase>>

\* Its own count of retired keys that were tried: a zero at the start is remembered without a row.
ObserveRetired(ok) ==
  /\ phase = "read" /\ todo = {"retired"}
  /\ LET v == Reading(Self)["retired"]
         due == Due("retired", Self, v)
     IN /\ ~ok => due /\ SpendObserver("failures")
        /\ ok => UNCHANGED oleft
        /\ known' = IF ok THEN [known EXCEPT !["retired"][Self] = Saw(v)] ELSE known
        /\ ledgered' = IF ok /\ due THEN [ledgered EXCEPT !["retired"][Self] = Saw(v)] ELSE ledgered
  /\ todo' = {} /\ phase' = "alert"
  /\ UNCHANGED <<health, answers, drops, queue, told>>

\* Outside the lock, until the queue is empty or the tick's budget is spent; at least one goes.
SendAlert(s) ==
  /\ phase \in {"alert", "alerting"} /\ queue[s] # NoAlert
  /\ told' = [told EXCEPT ![s] = queue[s]]
  /\ queue' = [queue EXCEPT ![s] = NoAlert]
  /\ phase' = "alerting"
  /\ UNCHANGED <<health, answers, known, ledgered, drops, todo, oleft>>

\* Faulty variant: alerts the budget left over are forgotten with the tick.
EndTickForgets ==
  /\ \/ phase = "alerting"
     \/ phase = "alert" /\ \A s \in Watched : queue[s] = NoAlert
  /\ phase' = "wait" /\ queue' = [s \in Watched |-> NoAlert]
  /\ UNCHANGED <<health, answers, known, ledgered, drops, told, todo, oleft>>

EndTick ==
  /\ \/ phase = "alerting"
     \/ phase = "alert" /\ \A s \in Watched : queue[s] = NoAlert
  /\ phase' = "wait"
  /\ UNCHANGED <<health, answers, known, ledgered, drops, queue, told, todo, oleft>>

-----------------------------------------------------------------------------
(* What is observed *)

\* A mode flip, a new or restored operators file, a break-glass request, or a retired key that is
\* tried; of these last only the ledger's own are read.
ObserverChange(s) ==
  /\ SpendObserver("changes")
  /\ \/ \E m \in ObserverModes \ {health[s].mode} : health' = [health EXCEPT ![s].mode = m]
     \/ \E f \in Files \ {health[s].file} : health' = [health EXCEPT ![s].file = f]
     \/ health[s].glass < MaxCount /\ health' = [health EXCEPT ![s].glass = @ + 1]
     \/ s = Self /\ health[s].retired < MaxCount /\ health' = [health EXCEPT ![s].retired = @ + 1]
  /\ UNCHANGED <<answers, known, ledgered, drops, queue, told, todo, phase>>

\* A service restarts with fresh counters, or is away for a while.
ServiceRestart(s) ==
  /\ s # Self /\ SpendObserver("restarts")
  /\ health' = [health EXCEPT ![s].glass = 0]
  /\ answers' = answers \ {s}
  /\ UNCHANGED <<known, ledgered, drops, queue, told, todo, phase>>

ServiceBack(s) ==
  /\ s \notin answers /\ answers' = answers \cup {s}
  /\ UNCHANGED <<health, known, ledgered, drops, queue, told, todo, phase, oleft>>

\* The ledger restarts: memory, queue and its own counters are gone.
LedgerRestart ==
  /\ SpendObserver("restarts")
  /\ known' = Nothing /\ queue' = [s \in Watched |-> NoAlert] /\ todo' = {} /\ phase' = "wait"
  /\ health' = [health EXCEPT ![Self].glass = 0, ![Self].retired = 0]
  /\ UNCHANGED <<answers, ledgered, drops, told>>

ObserverTick ==
  \/ StartTick \/ EndTick
  \/ \E s \in Watched : SkipSilent(s) \/ SendAlert(s) \/ (\E n \in 0..Len(Order) : Observe(s, n))
  \/ \E ok \in BOOLEAN : ObserveSlots(ok) \/ ObserveRetired(ok)

ObserverNext ==
  \/ ObserverTick \/ LedgerRestart
  \/ \E s \in Watched : ObserverChange(s) \/ ServiceRestart(s) \/ ServiceBack(s)

\* The thread goes on ticking, and a service that is away comes back.
ObserverFairness == WF_observerVars(ObserverTick) /\ \A s \in Watched : WF_observerVars(ServiceBack(s))

ObserverSpec == ObserverInit /\ [][ObserverNext]_observerVars /\ ObserverFairness

-----------------------------------------------------------------------------
(* An alert is only sent for a count that is in the ledger, and what the    *)
(* observer remembers of a mode, a file or a count is what the ledger says: *)
(* no failed append, restart or skipped service lets the two part, except   *)
(* that a zero count at a start is remembered without a row.                *)
MemoryIsLedgered ==
  /\ \A s \in Watched, k \in {"mode", "registry", "slots"} :
       known[k][s].seen => known[k][s] = ledgered[k][s]
  /\ \A s \in Watched, k \in Counters : (known[k][s].seen /\ known[k][s].value > 0) =>
       known[k][s] = ledgered[k][s]

(* Once things are quiet the ledger's last rows say how each service is     *)
(* armed and from which file, and each break-glass count that is not zero   *)
(* is ledgered and has been alerted, and so is the ledger's count of retired*)
(* keys ledgered: through failed appends, restarts of the ledger and of the *)
(* services, and a tick that runs out of its budget.                        *)
WitnessCatchesUp ==
  <>[](\A s \in Watched :
         /\ ledgered["mode"][s] = Saw(health[s].mode)
         /\ ledgered["registry"][s] = Saw(health[s].file.sha)
         /\ health[s].glass > 0 => ledgered["glass"][s] = Saw(health[s].glass) /\ told[s] = health[s].glass
         /\ health[Self].retired > 0 => ledgered["retired"][Self] = Saw(health[Self].retired))
=============================================================================
