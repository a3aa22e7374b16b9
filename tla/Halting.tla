-------------------------------- MODULE Halting --------------------------------
(***************************************************************************)
(* How a kill reaches an agent that cooperates: the SDK's liveness gate     *)
(* (field_agent/agent.py, liveness.py, field_client.py), the kill-switch's  *)
(* heartbeats and its signal to the endpoint an agent's manifest declares,  *)
(* and the canary that listens at one (field_agent/canary.py).              *)
(***************************************************************************)
EXTENDS Integers, FiniteSets

CONSTANTS
  Bodies,               \* agents; the SDK and the canary run as Sdk
  Sdk,
  Threads,              \* threads of the SDK's process, one FieldAgent among them
  Kills,                \* kill requests of operators
  MaxAge, HaltTimeout,  \* heartbeat_max_age and the heartbeat's time limit, in units
  HaltBudgets           \* revives, check-ins and restarts of the canary

\* The limits are times, and there is another agent for an endpoint to lead to.
ASSUME HaltConstants == MaxAge \in Nat /\ HaltTimeout \in Nat /\ Sdk \in Bodies /\ Bodies # {Sdk}

VARIABLES
  status,           \* the registry's status of each agent
  killedFor,        \* time since Sdk stopped being active
  endpoint,         \* what the manifest of each agent declares
  aliveAge,         \* time since _alive_at was set
  thread,
  kill,             \* request or signal -> where its handler is
  seen,             \* heartbeat store: agents with a row, and what they were told
  checkedIn,        \* agents that did check in
  canary,           \* halted, and how the last halt came
  hbudget

haltVars ==
  <<status, killedFor, endpoint, aliveAge, thread, kill, seen, checkedIn, canary, hbudget>>

Unset == MaxAge + 1
HaltSettled == MaxAge + HaltTimeout + 1
HaltFree == [at |-> "free"]
Signals == Kills \X {"operator", "signal"}    \* a signal may come back as a request

\* Where an endpoint leads: nowhere (no http, not allowlisted, unknown method), to a
\* hook outside, to a route of the kill-switch itself in some spelling, or to a host
\* that relays it to /kill of the other agent, headers and all.
Endpoints == {"none", "hook", "redirecting", "own kill", "other heartbeat", "relay"}

HaltOther(a) == CHOOSE b \in Bodies : b # a
HaltSpend(kind) == hbudget[kind] > 0 /\ hbudget' = [hbudget EXCEPT ![kind] = @ - 1]
Alive(a) == status[a] = "active"

HaltInit ==
  /\ status = [a \in Bodies |-> "active"] /\ killedFor = 0
  /\ endpoint \in [Bodies -> Endpoints]
  /\ aliveAge = Unset /\ thread = [t \in Threads |-> HaltFree]
  /\ kill = [k \in Signals |-> HaltFree]
  /\ seen = [a \in Bodies |-> "none"] /\ checkedIn = {}
  /\ canary = [halted |-> FALSE, by |-> "none"] /\ hbudget \in HaltBudgets

InThread(t, c) == thread' = [thread EXCEPT ![t] = c]
Estate == UNCHANGED <<status, killedFor, endpoint, kill, seen, checkedIn, canary>>

-----------------------------------------------------------------------------
(* The SDK: FieldAgent.check and cross *)

\* The liveness gate: a heartbeat is asked for when the last one is too old.
Gate(t) ==
  /\ thread[t] = HaltFree
  /\ InThread(t, IF aliveAge > MaxAge THEN [at |-> "ask", left |-> HaltTimeout] ELSE [at |-> "call"])
  /\ Estate /\ UNCHANGED <<aliveAge, hbudget>>

\* _heartbeat_for: active is alive; any other status, or none, is killed.
HeartbeatFor(t) ==
  /\ thread[t].at = "ask" /\ "alive" \notin DOMAIN thread[t]
  /\ InThread(t, [at |-> "ask", left |-> thread[t].left, alive |-> Alive(Sdk)])
  /\ Estate /\ UNCHANGED <<aliveAge, hbudget>>

\* No answer, or not 200: HeartbeatUnreachable, the call is not made.
Unreachable(t) ==
  /\ thread[t].at = "ask" /\ InThread(t, HaltFree)
  /\ Estate /\ UNCHANGED <<aliveAge, hbudget>>

\* Faulty variant: the time is noted before the answer is looked at.
EnsureAliveNotes(t) ==
  /\ thread[t].at = "ask" /\ "alive" \in DOMAIN thread[t]
  /\ InThread(t, IF thread[t].alive THEN [at |-> "call"] ELSE HaltFree) /\ aliveAge' = 0
  /\ Estate /\ UNCHANGED hbudget

\* ensure_alive: killed raises; alive sets _alive_at to the time of the answer's
\* arrival, for every thread.
EnsureAlive(t) ==
  /\ thread[t].at = "ask" /\ "alive" \in DOMAIN thread[t]
  /\ IF thread[t].alive THEN InThread(t, [at |-> "call"]) /\ aliveAge' = 0
     ELSE InThread(t, HaltFree) /\ UNCHANGED aliveAge
  /\ Estate /\ UNCHANGED hbudget

\* The governed call itself, decided by the sentinel or the broker.
HaltCalls(t) ==
  /\ thread[t].at = "call" /\ InThread(t, HaltFree)
  /\ Estate /\ UNCHANGED <<aliveAge, hbudget>>

Waiting == {t \in Threads : thread[t].at = "ask"}
HaltTimeGoesOn ==
  /\ \A t \in Waiting : thread[t].left > 0
  /\ \A t \in Threads : thread[t].at # "call"
  /\ thread' = [t \in Threads |->
       IF t \in Waiting THEN [thread[t] EXCEPT !.left = @ - 1] ELSE thread[t]]
  /\ aliveAge' = IF aliveAge < Unset THEN aliveAge + 1 ELSE aliveAge
  /\ killedFor' = IF ~Alive(Sdk) /\ killedFor < HaltSettled THEN killedFor + 1 ELSE killedFor
  /\ UNCHANGED <<status, endpoint, kill, seen, checkedIn, canary, hbudget>>

-----------------------------------------------------------------------------
(* The kill-switch *)

InKill(k, c) == kill' = [kill EXCEPT ![k] = c]
Agent == UNCHANGED <<aliveAge, thread, endpoint>>

\* A request's handler flips the status and then signals, also on a repeated kill.  The PATCH is
\* the flip; it is skipped when the row was read as killed, and then the step changes nothing.
FlipStatus(a) ==
  /\ status' = [status EXCEPT ![a] = "killed"]
  /\ killedFor' = IF a = Sdk /\ Alive(Sdk) THEN 0 ELSE killedFor
KillAgent(k) ==
  /\ kill[k] = HaltFree /\ k[2] = "operator"
  /\ \E a \in Bodies : InKill(k, [at |-> "signal", a |-> a, origin |-> FALSE]) /\ FlipStatus(a)
  /\ Agent /\ UNCHANGED <<seen, checkedIn, canary, hbudget>>

\* Faulty variant: only the kill route of the same agent is known as the service's own.
IsSelfEndpointNarrow(e) == e = "own kill"

\* Any route of the service, whatever agent it names and however it is spelt.
IsSelfEndpoint(e) == e \in {"own kill", "other heartbeat"}

\* A request that a signal caused signals no further.
Skipped(k) == kill[k].origin \/ endpoint[kill[k].a] = "none" \/ IsSelfEndpoint(endpoint[kill[k].a])

HaltAnswered(k, outcome) == InKill(k, [at |-> "done", a |-> kill[k].a, outcome |-> outcome])

SignalSkipped(k) ==
  /\ kill[k].at = "signal" /\ Skipped(k) /\ HaltAnswered(k, "skipped")
  /\ Agent /\ UNCHANGED <<status, killedFor, seen, checkedIn, canary, hbudget>>

\* CanaryState.halt: under the lock the work loop takes, and sticky.
CanaryHalts(by) == canary' = [halted |-> TRUE, by |-> by]

\* POST /halt with the origin header: the canary halts before it answers.
HookTakes(k, delivered) ==
  IF delivered /\ kill[k].a = Sdk THEN CanaryHalts("endpoint") ELSE UNCHANGED canary

\* The signal to a hook: delivered and answered 2xx, or answered 3xx or more, or not
\* answered in time though it may have been delivered.  Redirects are not followed.
SignalHook(k) ==
  /\ kill[k].at = "signal" /\ ~Skipped(k) /\ endpoint[kill[k].a] \in {"hook", "redirecting"}
  /\ \E outcome \in {"called", "failed"}, delivered \in BOOLEAN :
       /\ outcome = "called" => delivered
       /\ delivered => endpoint[kill[k].a] = "hook"
       /\ HaltAnswered(k, outcome)
       /\ HookTakes(k, delivered)
  /\ Agent /\ UNCHANGED <<status, killedFor, seen, checkedIn, hbudget>>

\* What happens to a signal that does reach a route of the service: a check-in nobody
\* made, or a kill within the kill.
SignalReenters(k) ==
  /\ kill[k].at = "signal" /\ ~Skipped(k)
  /\ \/ /\ endpoint[kill[k].a] = "other heartbeat"
        /\ seen' = [seen EXCEPT ![HaltOther(kill[k].a)] = status[HaltOther(kill[k].a)]]
        /\ HaltAnswered(k, "called") /\ UNCHANGED <<status, killedFor>>
     \/ /\ endpoint[kill[k].a] = "relay" /\ k[2] = "operator" /\ kill[<<k[1], "signal">>] = HaltFree
        /\ kill' = [kill EXCEPT ![k] = [kill[k] EXCEPT !.at = "wait"],
                      ![<<k[1], "signal">>] = [at |-> "signal", a |-> HaltOther(kill[k].a), origin |-> TRUE]]
        /\ FlipStatus(HaltOther(kill[k].a)) /\ UNCHANGED seen
  /\ Agent /\ UNCHANGED <<checkedIn, canary, hbudget>>

\* The relayed request has answered, or the signal's two seconds are over.
SignalBack(k) ==
  /\ kill[k].at = "wait"
  /\ \/ kill[<<k[1], "signal">>].at = "done" /\ HaltAnswered(k, "called")
     \/ HaltAnswered(k, "failed")
  /\ Agent /\ UNCHANGED <<status, killedFor, seen, checkedIn, canary, hbudget>>

Revive(a) ==
  /\ status[a] = "killed" /\ HaltSpend("revive") /\ status' = [status EXCEPT ![a] = "active"]
  /\ killedFor' = IF a = Sdk THEN 0 ELSE killedFor
  /\ Agent /\ UNCHANGED <<kill, seen, checkedIn, canary>>

\* POST /heartbeat: the only call that writes a row, of any agent, known or not.
Checkin(a) ==
  /\ HaltSpend("checkin") /\ seen' = [seen EXCEPT ![a] = status[a]] /\ checkedIn' = checkedIn \cup {a}
  /\ Agent /\ UNCHANGED <<status, killedFor, kill, canary>>

-----------------------------------------------------------------------------
(* The canary *)

\* poll_heartbeat_once: killed, or no answer, halts.
PollHeartbeat ==
  /\ ~canary.halted
  /\ \/ ~Alive(Sdk) /\ CanaryHalts("heartbeat")
     \/ CanaryHalts("heartbeat_unreachable")
  /\ UNCHANGED <<status, killedFor, kill, seen, checkedIn, hbudget>> /\ Agent

\* A revive does not reach it; a restart resumes its work.
CanaryRestarts ==
  /\ canary.halted /\ HaltSpend("restart") /\ canary' = [halted |-> FALSE, by |-> "restart"]
  /\ UNCHANGED <<status, killedFor, kill, seen, checkedIn>> /\ Agent

-----------------------------------------------------------------------------
HaltNext ==
  \/ \E t \in Threads :
       Gate(t) \/ HeartbeatFor(t) \/ Unreachable(t) \/ EnsureAlive(t) \/ HaltCalls(t)
  \/ \E k \in Signals :
       KillAgent(k) \/ SignalSkipped(k) \/ SignalHook(k) \/ SignalReenters(k) \/ SignalBack(k)
  \/ \E a \in Bodies : Revive(a) \/ Checkin(a)
  \/ PollHeartbeat \/ CanaryRestarts \/ HaltTimeGoesOn

HaltSpec == HaltInit /\ [][HaltNext]_haltVars

-----------------------------------------------------------------------------
(* Properties *)

\* With one _alive_at for all threads and heartbeats that answer late: no governed
\* call is made on a liveness older than the age allowed and one heartbeat's time.
GateHeedsKill ==
  \A t \in Threads : thread[t].at = "call" => killedFor <= MaxAge + HaltTimeout

\* "A halt signal must never re-enter this service by ANY route" and a signal counts
\* as called only if its target took it: no check-in is forged, and a canary whose
\* kill was answered "called" is halted unless it was restarted since.
SignalsSound ==
  /\ \A a \in Bodies : seen[a] # "none" => a \in checkedIn
  /\ \A k \in Signals :
       /\ kill[k].at = "done" /\ kill[k].outcome = "called" /\ kill[k].a = Sdk
            /\ endpoint[Sdk] # "relay"
            => canary.halted \/ canary.by = "restart"
       /\ k[2] = "signal" /\ kill[k].at = "done" => kill[k].outcome = "skipped"
=============================================================================
