------------------------- MODULE ControlStopsProofs -------------------------
(***************************************************************************)
(* Proofs about how a kill gets to where it must and what a check answers:  *)
(* the kill watcher, the SDK's gate with the kill-switch's signals, the     *)
(* console's requests, the sentinel's decisions, its scorecard and the      *)
(* gateway that asks for them.  Each part has its inductive invariant; the  *)
(* last section puts them together for the composition MCControl            *)
(* (StopsSound, ChecksSound, GatewaySound).                                 *)
(***************************************************************************)
EXTENDS MCControl, SequenceTheorems, FiniteSetTheorems, WellFoundedInduction, NaturalsInduction, TLAPS

-----------------------------------------------------------------------------
(* The kill watcher (Watcher) *)

\* Where a watcher may be, with the time it has left there.
WatchPlaces ==
  [at : {"wait"}, left : 0 .. Interval] \cup [at : {"ask"}, left : 0 .. Timeout]
    \cup [at : {"ask"}, left : 0 .. Timeout, says : BOOLEAN] \cup [at : {"dead", "create", "stamp", "unlink"}]

WatcherTypes ==
  /\ Settles
  /\ killed \in BOOLEAN /\ watchKilledFor \in 0 .. Settled /\ stampAge \in 0 .. WatchNever
  /\ sentinel \in {"none", "watcher", "human"}
  /\ watch \in [Watchers -> WatchPlaces]

\* A poll that heard "alive" of a killed agent has little of its deadline left, and
\* acts within it; what such a poll may leave behind is as young as the kill.
LateAnswer(w) == WatchAt(w, "ask") /\ "says" \in DOMAIN watch[w] /\ ~watch[w].says
LateAnswersExpire ==
  killed => \A w \in Watchers :
    /\ LateAnswer(w) => watchKilledFor + watch[w].left <= Timeout
    /\ WatchAt(w, "unlink") => watchKilledFor <= Timeout
    /\ WatchAt(w, "stamp") /\ sentinel = "none" => watchKilledFor <= Timeout

\* With no file there, the stamp is about as old as the kill.
StampTellsAge == killed /\ sentinel = "none" => watchKilledFor <= stampAge + Timeout

WatcherInv == WatcherTypes /\ LateAnswersExpire /\ StampTellsAge

LEMMA WatcherBegins == WatcherInit => WatcherInv
<1> SUFFICES ASSUME WatcherInit PROVE WatcherInv OBVIOUS
<1>1. WatcherTypes
  <2>1. Interval \in Nat /\ Timeout \in Nat /\ WatchMaxAge \in Nat BY WatchConstants DEF WatcherInit, Settles
  <2>2. watchKilledFor \in 0 .. Settled /\ stampAge \in 0 .. WatchNever BY <2>1 DEF WatcherInit, Settled, WatchNever
  <2>3. Wait(0) \in WatchPlaces BY <2>1 DEF Wait, WatchPlaces
  <2> QED BY <2>2, <2>3 DEF WatcherInit, WatcherTypes
<1>2. ~killed BY DEF WatcherInit
<1> QED BY <1>1, <1>2 DEF WatcherInv, LateAnswersExpire, StampTellsAge

LEMMA WatcherInvReaches == WatcherInv => KillReachesGate
  BY WatchConstants DEF WatcherInv, WatcherTypes, StampTellsAge, KillReachesGate, Denies, Settled, WatchNever, Settles

LEMMA WatcherKeeps == WatcherInv /\ [WatcherNext]_watcherVars => WatcherInv'
<1> SUFFICES ASSUME WatcherInv, [WatcherNext]_watcherVars PROVE WatcherInv' OBVIOUS
<1> USE DEF WatcherInv
<1>0. Interval \in Nat /\ Timeout \in Nat /\ WatchMaxAge \in Nat /\ Settled \in Nat /\ Settles
  /\ Settled = WatchMaxAge + Timeout + 1 /\ WatchNever = WatchMaxAge + 1
  BY WatchConstants DEF WatcherTypes, Settles, Settled, WatchNever
<1>1. CASE UNCHANGED watcherVars
  BY <1>1 DEF watcherVars, WatcherTypes, LateAnswersExpire, LateAnswer, StampTellsAge, WatchAt
<1>2. CASE Kill
  BY <1>2, <1>0 DEF Kill, WatcherTypes, LateAnswersExpire, LateAnswer, StampTellsAge, WatchAt, WatchPlaces
<1>3. CASE WatchRevive
  <2>1. killed' = FALSE /\ UNCHANGED <<sentinel, stampAge, watch>> /\ watchKilledFor' = 0 BY <1>3 DEF WatchRevive
  <2>2. WatcherTypes'
    <3>1. watchKilledFor' \in 0 .. Settled BY <2>1, <1>0
    <3>2. killed' \in BOOLEAN BY <2>1
    <3> QED BY <2>1, <3>1, <3>2 DEF WatcherTypes
  <2>3. LateAnswersExpire' /\ StampTellsAge' BY <2>1 DEF LateAnswersExpire, StampTellsAge
  <2> QED BY <2>2, <2>3
<1>4. CASE HumanHalts
  BY <1>4, <1>0 DEF HumanHalts, WatcherTypes, LateAnswersExpire, LateAnswer, StampTellsAge, WatchAt
<1>5. CASE HumanResumes
  BY <1>5, <1>0 DEF HumanResumes, WatcherTypes, LateAnswersExpire, LateAnswer, StampTellsAge, WatchAt, WatchPlaces
<1>6. CASE TimeGoesOn
  BY <1>6, <1>0 DEF TimeGoesOn, WatcherTypes, WatchAt, WatchPlaces, LateAnswersExpire, LateAnswer,
    StampTellsAge
<1>7. ASSUME NEW w \in Watchers, WatcherDies(w) \/ Polls(w) \/ EstateAnswers(w) \/ NoAnswer(w) \/ Looks(w)
        \/ Creates(w) \/ Unlinks(w) \/ Stamps(w) \/ WriteFails(w)
      PROVE WatcherInv'
  <2> USE DEF WatchGoto, WatchAt, Wait
  <2>1. CASE WatcherDies(w)
    BY <2>1, <1>0 DEF WatcherDies, WatcherTypes, LateAnswersExpire, LateAnswer, StampTellsAge, WatchPlaces
  <2>2. CASE Polls(w)
    BY <2>2, <1>0 DEF Polls, WatcherTypes, LateAnswersExpire, LateAnswer, StampTellsAge, WatchPlaces
  <2>3. CASE EstateAnswers(w)
    BY <2>3, <1>0 DEF EstateAnswers, WatcherTypes, LateAnswersExpire, LateAnswer, StampTellsAge, WatchPlaces
  <2>4. CASE NoAnswer(w)
    BY <2>4, <1>0 DEF NoAnswer, WatcherTypes, LateAnswersExpire, LateAnswer, StampTellsAge, WatchPlaces
  <2>5. CASE Looks(w)
    BY <2>5, <1>0 DEF Looks, WatcherTypes, LateAnswersExpire, LateAnswer, StampTellsAge, WatchPlaces
  <2>6. CASE Creates(w)
    BY <2>6, <1>0 DEF Creates, WatcherTypes, LateAnswersExpire, LateAnswer, StampTellsAge, WatchPlaces
  <2>7. CASE Unlinks(w)
    BY <2>7, <1>0 DEF Unlinks, WatcherTypes, LateAnswersExpire, LateAnswer, StampTellsAge, WatchPlaces
  <2>8. CASE Stamps(w)
    BY <2>8, <1>0 DEF Stamps, WatcherTypes, LateAnswersExpire, LateAnswer, StampTellsAge, WatchPlaces
  <2>9. CASE WriteFails(w)
    BY <2>9, <1>0 DEF WriteFails, WatcherTypes, LateAnswersExpire, LateAnswer, StampTellsAge, WatchPlaces
  <2> QED BY <1>7, <2>1, <2>2, <2>3, <2>4, <2>5, <2>6, <2>7, <2>8, <2>9
<1> QED BY <1>1, <1>2, <1>3, <1>4, <1>5, <1>6, <1>7 DEF WatcherNext

\* A kill reaches the session's gate in bounded time or the gate denies on the stamp's age:
\* for any number of watchers, intervals, limits, deaths and failed writes (KillReachesGate).
THEOREM KillAlwaysReachesGate == WatcherSpec => []KillReachesGate
  BY WatcherBegins, WatcherKeeps, WatcherInvReaches, PTL DEF WatcherSpec

-----------------------------------------------------------------------------
(* The SDK's gate, the signals and the canary (Halting) *)

\* Where a thread of the SDK and the handler of a request or signal may be.
ThreadPlaces ==
  [at : {"free", "call"}] \cup [at : {"ask"}, left : 0 .. HaltTimeout]
    \cup [at : {"ask"}, left : 0 .. HaltTimeout, alive : BOOLEAN]
KillPlaces ==
  [at : {"free"}] \cup [at : {"signal", "wait"}, a : Bodies, origin : BOOLEAN]
    \cup [at : {"done"}, a : Bodies, outcome : {"skipped", "called", "failed"}]

HaltTypes ==
  /\ status \in [Bodies -> {"active", "killed"}] /\ killedFor \in 0 .. HaltSettled
  /\ aliveAge \in 0 .. Unset /\ thread \in [Threads -> ThreadPlaces]
HaltKillTypes == 
  /\ kill \in [Signals -> KillPlaces]
  /\ seen \in [Bodies -> {"none", "active", "killed"}]

\* A heartbeat that said alive is as young as the kill when it comes back.
HeardAlive(t) == thread[t].at = "ask" /\ "alive" \in DOMAIN thread[t] /\ thread[t].alive
AliveMeansNoKill == Alive(Sdk) => killedFor = 0
AnswersBound ==
  /\ \A t \in Threads : HeardAlive(t) => killedFor + thread[t].left <= HaltTimeout
  /\ aliveAge <= MaxAge => killedFor <= aliveAge + HaltTimeout

\* A signal carries its origin and so goes no further; only a relay makes a request wait.
SignalsEnd ==
  \A k \in Signals :
    /\ k[2] = "signal" /\ kill[k].at = "signal" => kill[k].origin
    /\ kill[k].at = "wait" => k[2] = "operator" /\ endpoint[kill[k].a] = "relay"

HaltInv ==
  /\ HaltTypes /\ AliveMeansNoKill /\ AnswersBound /\ GateHeedsKill
  /\ HaltKillTypes /\ SignalsEnd /\ SignalsSound

LEMMA HaltNumbers ==
  /\ MaxAge \in Nat /\ HaltTimeout \in Nat /\ HaltSettled = MaxAge + HaltTimeout + 1 /\ Unset = MaxAge + 1
  BY HaltConstants DEF HaltSettled, Unset

LEMMA OtherBody == \A a \in Bodies : HaltOther(a) \in Bodies /\ HaltOther(a) # a
BY HaltConstants DEF HaltOther

LEMMA HaltBegins == HaltInit => HaltInv
<1> SUFFICES ASSUME HaltInit PROVE HaltInv OBVIOUS
<1>1. HaltTypes BY HaltNumbers DEF HaltInit, HaltTypes, HaltFree, ThreadPlaces
<1>2. AliveMeansNoKill /\ AnswersBound /\ GateHeedsKill
  BY HaltNumbers DEF HaltInit, AliveMeansNoKill, AnswersBound, HeardAlive, GateHeedsKill, HaltFree
<1>3. HaltKillTypes BY DEF HaltInit, HaltKillTypes, HaltFree, KillPlaces
<1>4. SignalsEnd /\ SignalsSound BY DEF HaltInit, SignalsEnd, SignalsSound, HaltFree
<1> QED BY <1>1, <1>2, <1>3, <1>4 DEF HaltInv

\* The gate: what a change of the estate may do to what the SDK has heard.
Hears == HaltTypes /\ AliveMeansNoKill /\ AnswersBound /\ GateHeedsKill

LEMMA FlipKeepsHears ==
  ASSUME Hears, NEW a \in Bodies, FlipStatus(a), UNCHANGED <<aliveAge, thread>> PROVE Hears'
BY HaltNumbers DEF Hears, FlipStatus, HaltTypes, AliveMeansNoKill, Alive, AnswersBound, GateHeedsKill,
  HeardAlive, ThreadPlaces

LEMMA HearsKept == Hears /\ UNCHANGED <<status, killedFor, aliveAge, thread>> => Hears'
  BY DEF Hears, HaltTypes, AliveMeansNoKill, Alive, AnswersBound, HeardAlive, GateHeedsKill

LEMMA HearsKeeps == HaltInv /\ [HaltNext]_haltVars => Hears'
<1> SUFFICES ASSUME HaltInv, [HaltNext]_haltVars PROVE Hears' OBVIOUS
<1>0. Hears BY DEF HaltInv, Hears
<1>1. CASE UNCHANGED haltVars BY <1>0, <1>1, HearsKept DEF haltVars
<1>2. ASSUME NEW t \in Threads, Gate(t) \/ HeartbeatFor(t) \/ Unreachable(t) \/ EnsureAlive(t) \/ HaltCalls(t)
      PROVE Hears'
  <2> USE HaltNumbers DEF Hears, InThread, Estate
  <2>1. CASE Gate(t)
    BY <1>0, <2>1 DEF Gate, HaltFree, HaltTypes, AliveMeansNoKill, Alive, AnswersBound, HeardAlive, GateHeedsKill, ThreadPlaces
  <2>2. CASE HeartbeatFor(t)
    <3> DEFINE c == [at |-> "ask", left |-> thread[t].left, alive |-> Alive(Sdk)]
    <3>1. thread' = [thread EXCEPT ![t] = c] /\ UNCHANGED <<status, killedFor, aliveAge>> /\ thread[t].at = "ask"
      BY <2>2 DEF HeartbeatFor
    <3>2. thread[t].left \in 0 .. HaltTimeout BY <1>0, <3>1 DEF HaltTypes, ThreadPlaces
    <3>3. c \in ThreadPlaces BY <3>2 DEF ThreadPlaces, Alive
    <3>4. HaltTypes' BY <1>0, <3>1, <3>3 DEF HaltTypes
    <3>5. AliveMeansNoKill' /\ (c.alive => killedFor = 0) BY <1>0, <3>1 DEF AliveMeansNoKill, Alive
    <3>6. AnswersBound'
      BY <1>0, <3>1, <3>2, <3>5 DEF AnswersBound, HeardAlive, HaltTypes
    <3>7. GateHeedsKill' BY <1>0, <3>1 DEF GateHeedsKill, HaltTypes
    <3> QED BY <3>4, <3>5, <3>6, <3>7
  <2>3. CASE Unreachable(t)
    BY <1>0, <2>3 DEF Unreachable, HaltFree, HaltTypes, AliveMeansNoKill, Alive, AnswersBound, HeardAlive, GateHeedsKill, ThreadPlaces
  <2>4. CASE EnsureAlive(t)
    BY <1>0, <2>4 DEF EnsureAlive, HaltFree, HaltTypes, AliveMeansNoKill, Alive, AnswersBound, HeardAlive, GateHeedsKill, ThreadPlaces
  <2>5. CASE HaltCalls(t)
    BY <1>0, <2>5 DEF HaltCalls, HaltFree, HaltTypes, AliveMeansNoKill, Alive, AnswersBound, HeardAlive, GateHeedsKill, ThreadPlaces
  <2> QED BY <1>2, <2>1, <2>2, <2>3, <2>4, <2>5
<1>3. ASSUME NEW k \in Signals, KillAgent(k) PROVE Hears'
  BY <1>0, <1>3, FlipKeepsHears DEF KillAgent, Agent
<1>4. ASSUME NEW k \in Signals, SignalSkipped(k) \/ SignalHook(k) \/ SignalBack(k) PROVE Hears'
  BY <1>0, <1>4, HearsKept DEF SignalSkipped, SignalHook, SignalBack, Agent
<1>5. ASSUME NEW k \in Signals, SignalReenters(k) PROVE Hears'
  <2>1. kill[k].a \in Bodies
    BY <1>5 DEF HaltInv, HaltKillTypes, SignalReenters, KillPlaces
  <2>2. HaltOther(kill[k].a) \in Bodies BY <2>1, OtherBody
  <2> QED BY <1>0, <1>5, <2>2, HearsKept, FlipKeepsHears DEF SignalReenters, Agent
<1>6. ASSUME NEW a \in Bodies, Revive(a) PROVE Hears'
  BY HaltNumbers, <1>6, <1>0, HaltConstants DEF Hears, Revive, Agent, HaltTypes, AliveMeansNoKill, Alive,
    AnswersBound, GateHeedsKill, HeardAlive, ThreadPlaces
<1>7. ASSUME NEW a \in Bodies, Checkin(a) PROVE Hears'
  BY <1>0, <1>7, HearsKept DEF Checkin, Agent
<1>8. CASE PollHeartbeat \/ CanaryRestarts
  BY <1>0, <1>8, HearsKept DEF PollHeartbeat, CanaryRestarts, Agent
<1>9. CASE HaltTimeGoesOn
  BY HaltNumbers, <1>0, <1>9 DEF Hears, HaltTimeGoesOn, HaltTypes, Waiting, ThreadPlaces, AliveMeansNoKill,
    Alive, GateHeedsKill, AnswersBound, HeardAlive
<1> QED BY <1>1, <1>2, <1>3, <1>4, <1>5, <1>6, <1>7, <1>8, <1>9 DEF HaltNext

\* The kill-switch and the canary.
Sounds == HaltKillTypes /\ SignalsEnd /\ SignalsSound

LEMMA SoundsKept ==
  Sounds /\ UNCHANGED <<endpoint, kill, seen, checkedIn, canary>> => Sounds'
  BY DEF Sounds, HaltKillTypes, SignalsEnd, SignalsSound

LEMMA SoundsKeeps == HaltInv /\ [HaltNext]_haltVars => Sounds'
<1> SUFFICES ASSUME HaltInv, [HaltNext]_haltVars PROVE Sounds' OBVIOUS
<1>0. Sounds /\ status \in [Bodies -> {"active", "killed"}] BY DEF HaltInv, Sounds, HaltTypes
<1>1. CASE UNCHANGED haltVars BY <1>0, <1>1, SoundsKept DEF haltVars
<1>2. ASSUME NEW t \in Threads, Gate(t) \/ HeartbeatFor(t) \/ Unreachable(t) \/ EnsureAlive(t) \/ HaltCalls(t)
      PROVE Sounds'
  BY <1>0, <1>2, SoundsKept DEF Gate, HeartbeatFor, Unreachable, EnsureAlive, HaltCalls, Estate
<1>3. ASSUME NEW k \in Signals, KillAgent(k) PROVE Sounds'
  BY <1>0, <1>3 DEF Sounds, KillAgent, InKill, Agent, FlipStatus, HaltFree, HaltKillTypes, KillPlaces, SignalsEnd, SignalsSound
<1>4. ASSUME NEW k \in Signals, SignalSkipped(k) PROVE Sounds'
  BY <1>4, <1>0 DEF SignalSkipped, HaltAnswered, InKill, Sounds, Agent, HaltKillTypes, KillPlaces, SignalsEnd,
    SignalsSound
<1>5. ASSUME NEW k \in Signals, SignalHook(k) PROVE Sounds'
  <2>1. kill[k].at = "signal" /\ ~kill[k].origin /\ UNCHANGED <<endpoint, seen, checkedIn>>
    BY <1>5 DEF SignalHook, Skipped, Agent
  <2>2. PICK outcome \in {"called", "failed"}, delivered \in BOOLEAN :
          /\ outcome = "called" => delivered
          /\ HaltAnswered(k, outcome) /\ HookTakes(k, delivered)
    BY <1>5 DEF SignalHook
  <2>3. kill' = [kill EXCEPT ![k] = [at |-> "done", a |-> kill[k].a, outcome |-> outcome]]
    BY <2>2 DEF HaltAnswered, InKill
  <2>4. k[2] # "signal" BY <1>0, <2>1 DEF Sounds, SignalsEnd
  <2>5. (canary.halted \/ canary.by = "restart") => canary'.halted \/ canary'.by = "restart"
    BY <2>2 DEF HookTakes, CanaryHalts
  <2>6. outcome = "called" /\ kill[k].a = Sdk => canary'.halted BY <2>2 DEF HookTakes, CanaryHalts
  <2>7. HaltKillTypes' BY <1>0, <2>1, <2>3 DEF Sounds, HaltKillTypes, KillPlaces
  <2>8. SignalsEnd' BY <1>0, <2>1, <2>3 DEF Sounds, HaltKillTypes, SignalsEnd
  <2>9. SignalsSound' BY <1>0, <2>1, <2>3, <2>4, <2>5, <2>6 DEF Sounds, HaltKillTypes, SignalsSound
  <2> QED BY <2>7, <2>8, <2>9 DEF Sounds
<1>6. ASSUME NEW k \in Signals, SignalReenters(k) PROVE Sounds'
  <2> DEFINE s == <<k[1], "signal">>
             o == HaltOther(kill[k].a)
  <2>1. /\ kill[k].at = "signal" /\ endpoint[kill[k].a] = "relay" /\ k[2] = "operator" /\ kill[s] = HaltFree
        /\ UNCHANGED <<endpoint, seen, checkedIn, canary>>
        /\ kill' = [kill EXCEPT ![k] = [kill[k] EXCEPT !.at = "wait"], ![s] = [at |-> "signal", a |-> o, origin |-> TRUE]]
    BY <1>6 DEF SignalReenters, Skipped, IsSelfEndpoint, Agent
  <2>2. kill[k] \in [at : {"signal"}, a : Bodies, origin : BOOLEAN]
    <3>1. kill[k] \in KillPlaces BY <1>0 DEF Sounds, HaltKillTypes
    <3> QED BY <3>1, <2>1 DEF KillPlaces
  <2>3. o \in Bodies BY <2>2, OtherBody
  <2>4. s \in Signals /\ s # k /\ s[2] = "signal" BY <2>1 DEF Signals
  <2>5. HaltKillTypes' BY <1>0, <2>1, <2>2, <2>3, <2>4 DEF Sounds, HaltKillTypes, KillPlaces
  <2>6. /\ kill'[k].at = "wait" /\ kill'[k].a = kill[k].a /\ kill'[s].at = "signal" /\ kill'[s].origin
        /\ \A j \in Signals : j # k /\ j # s => kill'[j] = kill[j]
    BY <1>0, <2>1, <2>2, <2>4 DEF Sounds, HaltKillTypes
  <2> HIDE DEF s, o
  <2>7. SignalsEnd'
    <3>1. ASSUME NEW j \in Signals
          PROVE  /\ j[2] = "signal" /\ kill'[j].at = "signal" => kill'[j].origin
                 /\ kill'[j].at = "wait" => j[2] = "operator" /\ endpoint[kill'[j].a] = "relay"
      <4>1. CASE j = k BY <2>1, <2>6, <4>1
      <4>2. CASE j = s BY <2>6, <4>2
      <4>3. CASE j # k /\ j # s BY <1>0, <2>6, <4>3 DEF Sounds, SignalsEnd
      <4> QED BY <4>1, <4>2, <4>3
    <3> QED BY <2>1, <3>1 DEF SignalsEnd
  <2>8. SignalsSound'
    <3>1. \A j \in Signals : kill'[j].at = "done" => kill'[j] = kill[j]
      BY <2>6
    <3>2. UNCHANGED <<endpoint, seen, checkedIn, canary>> BY <2>1
    <3> QED BY <1>0, <3>1, <3>2 DEF Sounds, SignalsSound
  <2> QED BY <2>5, <2>7, <2>8 DEF Sounds
<1>7. ASSUME NEW k \in Signals, SignalBack(k) PROVE Sounds'
  BY <1>7, <1>0 DEF SignalBack, HaltAnswered, InKill, Agent, Sounds, SignalsEnd, HaltKillTypes, KillPlaces,
    SignalsSound
<1>8. ASSUME NEW a \in Bodies, Revive(a) PROVE Sounds'
  BY <1>0, <1>8, SoundsKept DEF Revive, Agent
<1>9. ASSUME NEW a \in Bodies, Checkin(a) PROVE Sounds'
  BY <1>0, <1>9 DEF Sounds, Checkin, Agent, HaltKillTypes, SignalsEnd, SignalsSound
<1>10. CASE PollHeartbeat \/ CanaryRestarts
  BY <1>0, <1>10 DEF Sounds, PollHeartbeat, CanaryRestarts, CanaryHalts, Agent, HaltKillTypes, SignalsEnd, SignalsSound
<1>11. CASE HaltTimeGoesOn BY <1>0, <1>11, SoundsKept DEF HaltTimeGoesOn
<1> QED BY <1>1, <1>2, <1>3, <1>4, <1>5, <1>6, <1>7, <1>8, <1>9, <1>10, <1>11 DEF HaltNext

LEMMA HaltKeeps == HaltInv /\ [HaltNext]_haltVars => HaltInv'
  BY HearsKeeps, SoundsKeeps DEF HaltInv, Hears, Sounds

LEMMA HaltInvSound == HaltInv => GateHeedsKill /\ SignalsSound BY DEF HaltInv

\* No governed call is made on a liveness older than the age allowed and one heartbeat's
\* time, by any of a process's threads sharing the one time stamp (GateHeedsKill).
THEOREM GateAlwaysHeedsKill == HaltSpec => []GateHeedsKill
  BY HaltBegins, HaltKeeps, HaltInvSound, PTL DEF HaltSpec

\* No halt signal comes back into the service, and "called" means the target took it
\* (SignalsSound): for any agents, endpoints, requests and restarts of the canary.
THEOREM SignalsAlwaysSound == HaltSpec => []SignalsSound
  BY HaltBegins, HaltKeeps, HaltInvSound, PTL DEF HaltSpec

-----------------------------------------------------------------------------
(* The console's requests (Console) *)

HaltRequests ==
  [at : {"enumerate", "halting", "killing", "answered"}, kind : {"halt"}, todo : SUBSET Domains,
   left : SUBSET ConsoleAgents, counts : [done : Nat, error : Nat], asked : SUBSET Domains, ok : BOOLEAN]
BulkRequests ==
  [at : {"bulk", "answered"}, kind : {"kill", "revive", "drill"}, todo : SUBSET ConsoleAgents,
   asked : SUBSET ConsoleAgents, ok : BOOLEAN]
AnyRequests == {ConsoleWaiting} \cup [at : {"refused"}, code : {401, 502}] \cup HaltRequests \cup BulkRequests
ConsoleTypes ==
  /\ reg \in [ConsoleAgents -> [status : {"active", "killed", "retired", Unregistered}, domain : Domains]]
  /\ touched \in [Halts -> SUBSET ConsoleAgents]
  /\ request \in [Halts -> AnyRequests]

\* A fleet halt still ok has stopped the domains it is done with, up to those its
\* kill-switch call has still to visit or counted as an error.
HaltingTrue(h) ==
  LET r == request[h] IN
  request[h] \in HaltRequests =>
    /\ r.at = "answered" => r.todo = {}
    /\ r.at = "enumerate" => r.asked = {}
    /\ r.ok /\ (r.at = "killing" => r.counts.error = 0) =>
         \A a \in ConsoleAgents \ touched[h] :
           reg[a].domain \in r.asked \ r.todo => Stopped(a) \/ (r.at = "killing" /\ a \in r.left)

\* A bulk action still ok took effect on every agent it is done with.
BulkTrue(h) ==
  LET r == request[h] IN
  request[h] \in BulkRequests =>
    /\ r.at = "answered" => r.todo = {}
    /\ r.ok => \A a \in (r.asked \ r.todo) \ touched[h] :
         /\ r.kind = "kill" => Stopped(a)
         /\ r.kind = "revive" => reg[a].status = "active"

ConsoleInv == ConsoleTypes /\ \A h \in Halts : HaltingTrue(h) /\ BulkTrue(h)

LEMMA ConsoleBegins == ConsoleInit => ConsoleInv
BY DEF ConsoleInit, ConsoleTypes, AnyRequests, Unregistered, ConsoleWaiting, HaltRequests, BulkRequests,
  ConsoleInv, HaltingTrue, BulkTrue

LEMMA ConsoleInvTrue == ConsoleInv => AllOkMeansStopped
<1> SUFFICES ASSUME ConsoleInv, NEW h \in Halts, NEW a \in ConsoleAgents, a \notin touched[h]
    PROVE /\ ConsoleAnswered(h, "halt") /\ reg[a].domain \in request[h].asked => Stopped(a)
          /\ ConsoleAnswered(h, "kill") /\ a \in request[h].asked => Stopped(a)
          /\ ConsoleAnswered(h, "revive") /\ a \in request[h].asked => reg[a].status = "active"
  BY DEF AllOkMeansStopped
<1>1. request[h].at = "answered" => request[h] \in HaltRequests \/ request[h] \in BulkRequests
  BY DEF ConsoleInv, ConsoleTypes, AnyRequests, ConsoleWaiting
<1>2. CASE ConsoleAnswered(h, "halt")
  BY <1>1, <1>2 DEF ConsoleAnswered, BulkRequests, ConsoleInv, HaltingTrue
<1>3. CASE ConsoleAnswered(h, "kill") \/ ConsoleAnswered(h, "revive")
  BY <1>1, <1>3 DEF ConsoleAnswered, HaltRequests, ConsoleInv, BulkTrue
<1> QED BY <1>2, <1>3

\* What others do is not held against a request: its agents are touched by then.
LEMMA OthersTouch ==
  ASSUME ConsoleInv, NEW h \in Halts, request'[h] = request[h],
         request[h] = ConsoleWaiting \/
           (touched[h] \subseteq touched'[h]
              /\ \A a \in ConsoleAgents \ touched'[h] : reg'[a] = reg[a])
  PROVE  HaltingTrue(h)' /\ BulkTrue(h)'
<1>1. CASE request[h] = ConsoleWaiting
  BY <1>1 DEF ConsoleWaiting, HaltRequests, BulkRequests, HaltingTrue, BulkTrue
<1>2. CASE touched[h] \subseteq touched'[h] /\ \A a \in ConsoleAgents \ touched'[h] : reg'[a] = reg[a]
  BY <1>2 DEF ConsoleInv, BulkRequests, HaltingTrue, Stopped, ConsoleAlive, HaltRequests, BulkTrue
<1> QED BY <1>1, <1>2

\* A request moves: the others are served by OthersTouch, it by its own account.
LEMMA RequestMoves ==
  ASSUME ConsoleInv, NEW h \in Halts, NEW r \in AnyRequests, Become(h, r),
         HaltingTrue(h)' /\ BulkTrue(h)',
         StatusSame \/ \E a \in ConsoleAgents, to \in {"active", "killed", "retired"} : SetStatus(h, a, to)
  PROVE  ConsoleInv'
<1>1. request' \in [Halts -> AnyRequests] /\ \A g \in Halts \ {h} : request'[g] = request[g]
  BY DEF Become, ConsoleInv, ConsoleTypes
<1>2. CASE StatusSame
  BY <1>1, <1>2, OthersTouch DEF StatusSame, ConsoleInv, ConsoleTypes, AnyRequests, HaltRequests, BulkRequests
<1>3. ASSUME NEW a \in ConsoleAgents, NEW to \in {"active", "killed", "retired"}, SetStatus(h, a, to)
      PROVE  ConsoleInv'
  <2>1. ConsoleTypes'
    BY <1>1, <1>3 DEF SetStatus, ConsoleInv, ConsoleTypes, AnyRequests, HaltRequests, BulkRequests
  <2>2. \A b \in ConsoleAgents : reg'[b] # reg[b] => b = a /\ reg[a].status # to
    BY <1>3 DEF SetStatus, ConsoleInv, ConsoleTypes
  <2>3. ASSUME NEW g \in Halts \ {h} PROVE HaltingTrue(g)' /\ BulkTrue(g)'
    BY <1>3, <2>2, <1>1, OthersTouch DEF SetStatus
  <2> QED BY <2>1, <2>3 DEF ConsoleInv
<1> QED BY <1>2, <1>3

\* Before it moves, a request that is under way is one of two kinds.
LEMMA RequestKinds ==
  ASSUME ConsoleInv, NEW h \in Halts
  PROVE  /\ request[h].at \in {"enumerate", "halting", "killing"} => request[h] \in HaltRequests /\ HaltingTrue(h)
         /\ request[h].at = "bulk" => request[h] \in BulkRequests /\ BulkTrue(h)
  BY DEF ConsoleInv, ConsoleTypes, AnyRequests, ConsoleWaiting, HaltRequests, BulkRequests

LEMMA HaltIsNotBulk == HaltRequests \cap BulkRequests = {}
  BY DEF HaltRequests, BulkRequests

LEMMA EditsKeep ==
  ASSUME ConsoleInv, NEW a \in ConsoleAgents, Register(a) \/ ReviveAgent(a) \/ Retire(a) \/ ConsoleMove(a)
  PROVE  ConsoleInv'
<1>1. PICK entry \in [status : {"active", "killed", "retired", Unregistered}, domain : Domains] : ConsoleEdit(a, entry)
  BY DEF Register, ReviveAgent, Retire, ConsoleMove, ConsoleInv, ConsoleTypes
<1>2. ConsoleTypes' BY <1>1 DEF ConsoleEdit, ConsoleInv, ConsoleTypes, AnyRequests, HaltRequests, BulkRequests
<1>3. ASSUME NEW h \in Halts PROVE HaltingTrue(h)' /\ BulkTrue(h)'
  BY <1>1, OthersTouch DEF ConsoleEdit, ConsoleInv, ConsoleTypes
<1> QED BY <1>2, <1>3 DEF ConsoleInv

LEMMA StartsKeep ==
  ASSUME ConsoleInv, NEW h \in Halts, StartHalt(h) \/ StartBulk(h)
  PROVE  ConsoleInv'
<1>1. PICK r \in AnyRequests :
        /\ Become(h, r)
        /\ r \in HaltRequests => r.at \in {"enumerate", "halting"} /\ r.todo = r.asked /\ (r.at = "enumerate" => r.asked = {})
        /\ r \in BulkRequests => r.at = "bulk" /\ r.todo = r.asked
  <2>1. CASE StartHalt(h)
    <3>1. PICK human \in BOOLEAN, given \in {{}} \cup {{d}: d \in Domains} :
       Become(h, IF ~Forwards(human) THEN [at |-> "refused", code |-> 401]
                 ELSE [at |-> IF given = {} THEN "enumerate" ELSE "halting", kind |-> "halt",
                       todo |-> given, left |-> {}, counts |-> [done |-> 0, error |-> 0],
                       asked |-> given, ok |-> TRUE]) BY <2>1 DEF StartHalt
    <3> DEFINE r == [at |-> IF given = {} THEN "enumerate" ELSE "halting", kind |-> "halt",
                       todo |-> given, left |-> {}, counts |-> [done |-> 0, error |-> 0],
                       asked |-> given, ok |-> TRUE]
    <3>2. r \in HaltRequests /\ r \notin BulkRequests /\ r.todo = r.asked /\ r.at \in {"enumerate", "halting"}
      BY DEF HaltRequests, BulkRequests
    <3>3. CASE Forwards(human) BY <3>1, <3>2, <3>3 DEF AnyRequests
    <3>4. CASE ~Forwards(human) BY <3>1, <3>4 DEF AnyRequests, HaltRequests, BulkRequests
    <3> QED BY <3>3, <3>4
  <2>2. CASE StartBulk(h)
    <3>1. PICK human \in BOOLEAN, ids \in SUBSET ConsoleAgents \ {{}}, action \in {"kill", "revive", "drill"} :
       Become(h, IF ~Forwards(human) THEN [at |-> "refused", code |-> 401]
                 ELSE [at |-> "bulk", kind |-> action, todo |-> ids, asked |-> ids, ok |-> TRUE]) BY <2>2 DEF StartBulk
    <3> DEFINE r == [at |-> "bulk", kind |-> action, todo |-> ids, asked |-> ids, ok |-> TRUE]
    <3>2. r \in BulkRequests /\ r \notin HaltRequests BY DEF HaltRequests, BulkRequests
    <3>3. CASE Forwards(human) BY <3>1, <3>2, <3>3 DEF AnyRequests
    <3>4. CASE ~Forwards(human) BY <3>1, <3>4 DEF AnyRequests, HaltRequests, BulkRequests
    <3> QED BY <3>3, <3>4
  <2> QED BY <2>1, <2>2
<1>2. StatusSame BY DEF StartHalt, StartBulk, StatusSame, RegistrySame
<1>3. request'[h] = r BY <1>1 DEF Become, ConsoleInv, ConsoleTypes
<1>4. HaltingTrue(h)' BY <1>1, <1>3 DEF HaltingTrue, HaltRequests
<1>5. BulkTrue(h)' BY <1>1, <1>3 DEF BulkTrue, BulkRequests
<1> QED BY <1>1, <1>2, <1>4, <1>5, RequestMoves

\* What is left to show of a fleet halt that moved to r and left the registry alone.
LEMMA HaltMoves ==
  ASSUME ConsoleInv, NEW h \in Halts, NEW r \in HaltRequests, Become(h, r), StatusSame,
         r.at = "answered" => r.todo = {}, r.at = "enumerate" => r.asked = {},
         r.ok /\ (r.at = "killing" => r.counts.error = 0) =>
           \A a \in ConsoleAgents \ touched[h] :
             reg[a].domain \in r.asked \ r.todo => Stopped(a) \/ (r.at = "killing" /\ a \in r.left)
  PROVE  ConsoleInv'
<1>1. request'[h] = r BY DEF Become, ConsoleInv, ConsoleTypes
<1>2. r \notin BulkRequests /\ r \in AnyRequests BY HaltIsNotBulk DEF AnyRequests
<1>3. BulkTrue(h)' BY <1>1, <1>2 DEF BulkTrue, BulkRequests
<1>4. HaltingTrue(h)' BY <1>1 DEF HaltingTrue, HaltRequests, StatusSame, Stopped, ConsoleAlive
<1> QED BY <1>2, <1>3, <1>4, RequestMoves

LEMMA RefusedKeeps ==
  ASSUME ConsoleInv, NEW h \in Halts, NEW r \in [at : {"refused"}, code : {401, 502}], Become(h, r), StatusSame
  PROVE  ConsoleInv'
<1>1. request'[h] = r BY DEF Become, ConsoleInv, ConsoleTypes
<1>2. r \notin HaltRequests /\ r \notin BulkRequests /\ r \in AnyRequests BY DEF AnyRequests, HaltRequests, BulkRequests
<1>3. HaltingTrue(h)' /\ BulkTrue(h)' BY <1>1, <1>2 DEF HaltingTrue, BulkTrue, HaltRequests, BulkRequests
<1> QED BY <1>2, <1>3, RequestMoves

\* The domains read are those of every agent that is not stopped.
LEMMA EnumerateKeeps == ASSUME ConsoleInv, NEW h \in Halts, Enumerate(h) PROVE ConsoleInv'
<1>1. StatusSame BY DEF Enumerate, StatusSame, RegistrySame
<1>2. request[h] \in HaltRequests BY RequestKinds DEF Enumerate
<1> DEFINE domains == {reg[a].domain: a \in {x \in ConsoleAgents: ConsoleAlive(x)}}
           r == [request[h] EXCEPT !.at = "halting", !.todo = domains, !.asked = domains]
<1>3. CASE Become(h, r)
  <2>1. domains \subseteq Domains BY DEF ConsoleInv, ConsoleTypes
  <2>2. r \in HaltRequests /\ r.at = "halting" /\ r.todo = r.asked BY <1>2, <2>1 DEF HaltRequests
  <2> QED BY <1>1, <1>3, <2>2, HaltMoves
<1>4. CASE Become(h, [at |-> "refused", code |-> 502]) BY <1>1, <1>4, RefusedKeeps
<1> QED BY <1>3, <1>4 DEF Enumerate

\* An unstopped domain ends the hope of an ok; the kill-switch's list holds the others.
LEMMA HaltDomainKeeps == ASSUME ConsoleInv, NEW h \in Halts, HaltDomain(h) PROVE ConsoleInv'
<1>1. StatusSame BY DEF HaltDomain, StatusSame, RegistrySame
<1>2. request[h] \in HaltRequests /\ HaltingTrue(h) /\ request[h].at = "halting" BY RequestKinds DEF HaltDomain
<1> DEFINE members(d) == {a \in ConsoleAgents: reg[a].status # Unregistered /\ reg[a].domain = d}
           rest(d) == [request[h] EXCEPT !.todo = @ \ {d}]
           killing(d) == [rest(d) EXCEPT !.at = "killing", !.left = {a \in members(d): reg[a].status # "retired"}]
           unstopped(d) == [rest(d) EXCEPT !.ok = FALSE]
<1>3. PICK d \in request[h].todo : Become(h, killing(d)) \/ Become(h, unstopped(d)) BY DEF HaltDomain
<1>4. CASE Become(h, unstopped(d))
  BY <1>2, <1>1, <1>4, HaltMoves DEF HaltRequests
<1>5. CASE Become(h, killing(d))
  <2> DEFINE r == killing(d)
  <2>1. r \in HaltRequests /\ r.at = "killing" /\ r.ok = request[h].ok /\ r.asked = request[h].asked
        /\ r.todo = request[h].todo \ {d} /\ r.left = {a \in members(d): reg[a].status # "retired"}
    BY <1>2 DEF HaltRequests
  <2>2. ASSUME r.ok, NEW a \in ConsoleAgents \ touched[h], reg[a].domain \in r.asked \ r.todo
        PROVE  Stopped(a) \/ a \in r.left
    BY <2>1, <1>2, <2>2 DEF Stopped, ConsoleAlive, HaltingTrue
  <2> HIDE DEF r
  <2> QED BY <1>1, <1>5, <2>1, <2>2, HaltMoves DEF r
<1> QED BY <1>3, <1>4, <1>5

\* Each agent of the list is killed, or its error is counted.
LEMMA KillNextKeeps == ASSUME ConsoleInv, NEW h \in Halts, KillNext(h) PROVE ConsoleInv'
<1>1. request[h] \in HaltRequests /\ HaltingTrue(h) /\ request[h].at = "killing" BY RequestKinds DEF KillNext
<1> DEFINE c == request[h].counts
           r(a, error) == [request[h] EXCEPT !.left = @ \ {a},
                   !.counts = IF error THEN [c EXCEPT !.error = @ + 1] ELSE [c EXCEPT !.done = @ + 1]]
<1>2. PICK a \in request[h].left :
        \/ SetStatus(h, a, "killed") /\ \E error \in BOOLEAN : Become(h, r(a, error))
        \/ StatusSame /\ Become(h, r(a, TRUE))
  BY DEF KillNext, ConsoleKills
<1>3. a \in ConsoleAgents BY <1>1 DEF HaltRequests
<1>4. ASSUME NEW error \in BOOLEAN
      PROVE  /\ r(a, error) \in HaltRequests /\ r(a, error).at = "killing" /\ r(a, error).ok = request[h].ok
             /\ r(a, error).todo = request[h].todo /\ r(a, error).asked = request[h].asked
             /\ r(a, error).left = request[h].left \ {a}
             /\ error => r(a, error).counts.error # 0
             /\ ~error => r(a, error).counts.error = request[h].counts.error
  <2>1. c \in [done : Nat, error : Nat] BY <1>1 DEF HaltRequests
  <2> DEFINE n == IF error THEN [c EXCEPT !.error = @ + 1] ELSE [c EXCEPT !.done = @ + 1]
  <2>2. n \in [done : Nat, error : Nat] /\ (error => n.error # 0) /\ (~error => n.error = c.error) BY <2>1
  <2>3. r(a, error) = [request[h] EXCEPT !.left = @ \ {a}, !.counts = n] OBVIOUS
  <2> HIDE DEF n
  <2>4. [request[h] EXCEPT !.left = @ \ {a}, !.counts = n] \in HaltRequests BY <1>1, <2>2 DEF HaltRequests
  <2> QED BY <1>1, <2>2, <2>3, <2>4 DEF HaltRequests
<1>5. CASE StatusSame /\ Become(h, r(a, TRUE)) BY <1>4, <1>5, HaltMoves
<1>6. ASSUME SetStatus(h, a, "killed"), NEW error \in BOOLEAN, Become(h, r(a, error)) PROVE ConsoleInv'
  <2> DEFINE q == r(a, error)
  <2>1. request'[h] = q BY <1>6 DEF Become, ConsoleInv, ConsoleTypes
  <2>2. q \in AnyRequests /\ q \notin BulkRequests BY <1>4, HaltIsNotBulk DEF AnyRequests
  <2>3. BulkTrue(h)' BY <2>1, <2>2 DEF BulkTrue, BulkRequests
  <2>4. touched'[h] = touched[h] /\ reg' = [reg EXCEPT ![a].status = "killed"] BY <1>6 DEF SetStatus
  <2>5. ASSUME q.ok, q.counts.error = 0, NEW b \in ConsoleAgents \ touched[h], reg'[b].domain \in q.asked \ q.todo
        PROVE  Stopped(b)' \/ b \in q.left
    <3>1. reg'[b].domain = reg[b].domain /\ reg'[b].status = IF b = a THEN "killed" ELSE reg[b].status
      BY <2>4, <1>3 DEF ConsoleInv, ConsoleTypes
    <3>2. ~error BY <2>5, <1>4
    <3>3. b # a => Stopped(b) \/ b \in request[h].left BY <1>1, <1>4, <2>5, <3>1, <3>2 DEF HaltingTrue
    <3> QED BY <1>4, <3>1, <3>3 DEF Stopped, ConsoleAlive
  <2>6. HaltingTrue(h)'
    <3> HIDE DEF q
    <3>1. q.at = "killing" /\ q \in HaltRequests BY <1>4 DEF q
    <3> QED BY <2>1, <2>4, <2>5, <3>1 DEF HaltingTrue, HaltRequests
  <2> QED BY <1>3, <1>6, <2>2, <2>3, <2>6, RequestMoves
<1> QED BY <1>2, <1>5, <1>6

\* A row with an error ends the hope of an ok.
LEMMA DomainDoneKeeps == ASSUME ConsoleInv, NEW h \in Halts, DomainDone(h) PROVE ConsoleInv'
<1>1. StatusSame BY DEF DomainDone, StatusSame, RegistrySame
<1>2. request[h] \in HaltRequests /\ HaltingTrue(h) /\ request[h].at = "killing" /\ request[h].left = {}
  BY RequestKinds DEF DomainDone
<1> DEFINE r(ok) == [request[h] EXCEPT !.at = "halting", !.left = {}, !.counts = [done |-> 0, error |-> 0], !.ok = ok]
<1>3. PICK http \in BOOLEAN : Become(h, r(request[h].ok /\ http /\ request[h].counts.error = 0))
  BY DEF DomainDone, CloseRow, RowOk
<1> DEFINE q == r(request[h].ok /\ http /\ request[h].counts.error = 0)
<1>4. q \in HaltRequests /\ q.at = "halting" /\ q.todo = request[h].todo /\ q.asked = request[h].asked
      /\ (q.ok => request[h].ok /\ request[h].counts.error = 0)
  BY <1>2 DEF HaltRequests
<1>5. q.ok => \A a \in ConsoleAgents \ touched[h] : reg[a].domain \in q.asked \ q.todo => Stopped(a)
  BY <1>2, <1>4 DEF HaltingTrue
<1> HIDE DEF q
<1> QED BY <1>1, <1>3, <1>4, <1>5, HaltMoves DEF q

LEMMA AnswerHaltKeeps == ASSUME ConsoleInv, NEW h \in Halts, AnswerHalt(h) PROVE ConsoleInv'
<1>1. StatusSame BY DEF AnswerHalt, StatusSame, RegistrySame
<1>2. request[h] \in HaltRequests /\ HaltingTrue(h) /\ request[h].at = "halting" /\ request[h].todo = {}
  BY RequestKinds DEF AnswerHalt
<1> DEFINE r == [request[h] EXCEPT !.at = "answered"]
<1>3. r \in HaltRequests /\ r.at = "answered" /\ r.todo = {} /\ r.asked = request[h].asked /\ r.ok = request[h].ok
  BY <1>2 DEF HaltRequests
<1>4. r.ok => \A a \in ConsoleAgents \ touched[h] : reg[a].domain \in r.asked \ r.todo => Stopped(a)
  BY <1>2, <1>3 DEF HaltingTrue
<1>5. Become(h, r) BY DEF AnswerHalt
<1> HIDE DEF r
<1> QED BY <1>1, <1>3, <1>4, <1>5, HaltMoves

\* Each row of a bulk action tells what the agent's own call came to.
LEMMA BulkNextKeeps == ASSUME ConsoleInv, NEW h \in Halts, BulkNext(h) PROVE ConsoleInv'
<1>1. request[h] \in BulkRequests /\ BulkTrue(h) /\ request[h].at = "bulk" BY RequestKinds DEF BulkNext
<1> DEFINE r(a, ok) == [request[h] EXCEPT !.todo = @ \ {a}, !.ok = @ /\ ok]
           effect(a) == After(request[h].kind, reg[a].status)
<1>2. PICK a \in request[h].todo, ok \in BOOLEAN :
        /\ Become(h, r(a, ok))
        /\ \/ ConsoleAlive(a) /\ SetStatus(h, a, effect(a))
           \/ ~ok /\ ConsoleAlive(a) /\ SetStatus(h, a, "killed")
           \/ ~ok /\ StatusSame
  BY DEF BulkNext
<1>3. a \in ConsoleAgents BY <1>1 DEF BulkRequests
<1>4. r(a, ok) \in BulkRequests /\ r(a, ok).at = "bulk" /\ r(a, ok).asked = request[h].asked /\ r(a, ok).kind = request[h].kind
      /\ r(a, ok).todo = request[h].todo \ {a} /\ (r(a, ok).ok => request[h].ok /\ ok)
  BY <1>1 DEF BulkRequests
<1> DEFINE q == r(a, ok)
<1>5. request'[h] = q BY <1>2 DEF Become, ConsoleInv, ConsoleTypes
<1>6. effect(a) \in {"active", "killed", "retired"} \/ ~ConsoleAlive(a)
  BY <1>1, <1>3 DEF After, ConsoleAlive, ConsoleInv, ConsoleTypes, BulkRequests
<1>7. StatusSame \/ \E b \in ConsoleAgents, to \in {"active", "killed", "retired"} : SetStatus(h, b, to)
  BY <1>2, <1>3, <1>6
<1>8. q \in AnyRequests /\ q \notin HaltRequests BY <1>4, HaltIsNotBulk DEF AnyRequests
<1>9. HaltingTrue(h)' BY <1>5, <1>8 DEF HaltingTrue, HaltRequests
<1>10. touched'[h] = touched[h] /\ \A b \in ConsoleAgents \ {a} : reg'[b] = reg[b]
  BY <1>2, <1>3 DEF SetStatus, StatusSame, ConsoleInv, ConsoleTypes
<1>11. ok => reg'[a].status = effect(a) BY <1>2, <1>3 DEF SetStatus, ConsoleInv, ConsoleTypes
<1>12. ASSUME q.ok, NEW b \in (q.asked \ q.todo) \ touched[h]
       PROVE  /\ q.kind = "kill" => Stopped(b)'
              /\ q.kind = "revive" => reg'[b].status = "active"
  <2>1. CASE b = a BY <1>4, <1>11, <1>12, <2>1 DEF After, Stopped
  <2>2. CASE b # a
    BY <1>1, <1>4, <1>12, <2>2, <1>10 DEF BulkRequests, BulkTrue, Stopped, ConsoleAlive
  <2> QED BY <2>1, <2>2
<1>13. BulkTrue(h)'
  <2> HIDE DEF q
  <2>1. q.at = "bulk" BY <1>4 DEF q
  <2> QED BY <1>5, <1>10, <1>12, <2>1 DEF BulkTrue
<1> QED BY <1>2, <1>7, <1>8, <1>9, <1>13, RequestMoves

LEMMA AnswerBulkKeeps == ASSUME ConsoleInv, NEW h \in Halts, AnswerBulk(h) PROVE ConsoleInv'
<1>1. StatusSame BY DEF AnswerBulk, StatusSame, RegistrySame
<1>2. request[h] \in BulkRequests /\ BulkTrue(h) /\ request[h].at = "bulk" /\ request[h].todo = {}
  BY RequestKinds DEF AnswerBulk
<1> DEFINE r == [request[h] EXCEPT !.at = "answered"]
<1>3. r \in BulkRequests /\ r.todo = {} /\ r.asked = request[h].asked /\ r.ok = request[h].ok /\ r.kind = request[h].kind
  BY <1>2 DEF BulkRequests
<1>4. Become(h, r) BY DEF AnswerBulk
<1>5. request'[h] = r /\ r \in AnyRequests /\ r \notin HaltRequests
  BY <1>3, <1>4, HaltIsNotBulk DEF Become, ConsoleInv, ConsoleTypes, AnyRequests
<1> HIDE DEF r
<1>6. HaltingTrue(h)' BY <1>5 DEF HaltingTrue, HaltRequests
<1>7. BulkTrue(h)' BY <1>1, <1>2, <1>3, <1>5 DEF BulkTrue, StatusSame, Stopped, ConsoleAlive
<1> QED BY <1>1, <1>4, <1>5, <1>6, <1>7, RequestMoves

LEMMA ConsoleRests == ConsoleInv /\ UNCHANGED <<reg, request, touched>> => ConsoleInv'
BY OthersTouch DEF ConsoleInv, ConsoleTypes, AnyRequests, HaltRequests, BulkRequests

LEMMA ConsoleKeeps == ConsoleInv /\ [ConsoleNext]_consoleVars => ConsoleInv'
<1> SUFFICES ASSUME ConsoleInv, [ConsoleNext]_consoleVars PROVE ConsoleInv' OBVIOUS
<1>1. CASE UNCHANGED consoleVars BY <1>1, ConsoleRests DEF consoleVars
<1>2. ASSUME NEW a \in ConsoleAgents, Register(a) \/ ReviveAgent(a) \/ Retire(a) \/ ConsoleMove(a) PROVE ConsoleInv'
  BY <1>2, EditsKeep
<1>3. ASSUME NEW h \in Halts, \/ StartHalt(h) \/ Enumerate(h) \/ HaltDomain(h) \/ KillNext(h) \/ DomainDone(h)
                     \/ AnswerHalt(h) \/ StartBulk(h) \/ BulkNext(h) \/ AnswerBulk(h) PROVE ConsoleInv'
  BY <1>3, StartsKeep, EnumerateKeeps, HaltDomainKeeps, KillNextKeeps, DomainDoneKeeps, AnswerHaltKeeps, BulkNextKeeps, AnswerBulkKeeps
<1>4. ASSUME NEW s \in Streams, AdmitStream(s) \/ DropStream(s) \/ OpenStream(s) \/ CloseStream(s) PROVE ConsoleInv'
  BY <1>4, ConsoleRests DEF AdmitStream, DropStream, OpenStream, CloseStream, OtherSame
<1> QED BY <1>1, <1>2, <1>3, <1>4 DEF ConsoleNext

\* An answer that says all_ok is true of every agent nobody else changed meanwhile: for any
\* number of agents, domains, concurrent requests and lost answers (AllOkMeansStopped).
THEOREM AllOkAlwaysMeansStopped == ConsoleSpec => []AllOkMeansStopped
  BY ConsoleBegins, ConsoleKeeps, ConsoleInvTrue, PTL DEF ConsoleSpec

-----------------------------------------------------------------------------
(* A check from call to answer (Verdicts) *)

\* Where a decision is still being made, and where it stands.
Deciding == {"health", "registry", "token", "scope", "budget", "judge", "usage", "judged", "policy", "spend", "ceiling"}
Decided == {"verdict", "meter", "gap", "answer", "done"}
AskedChecks ==
  [pc : Deciding \cup Decided, req : Requests, decision : {"ALLOW", "BLOCK", "ESCALATE"},
   judge : {"none", "conforms", "outside", "unsure"}, shadowed : BOOLEAN, spendRead : BOOLEAN, noCap : BOOLEAN,
   outcome : {"none", "no_cap", "metered", "metering_gap"}, stopped : BOOLEAN]
VerdictTypes ==
  /\ check \in [Checks -> {CheckNotAsked} \cup AskedChecks]
  /\ ran \subseteq {c \in Checks : check[c].pc = "done" /\ check[c].decision = "ALLOW"}

\* An allow that is one: not the shadow of a refusal.
GenuineAllow(c) == check[c].pc \in Decided /\ check[c].decision = "ALLOW" /\ ~check[c].shadowed

\* A decision gets past a question only with the answer it needs.
PastStops(c) ==
  /\ check[c].stopped => estate.agent = "killed" \/ estate.token = "revoked"
  /\ check[c].pc = "token" /\ check[c].stopped => estate.token = "revoked"
  /\ check[c].pc \in Deciding \ {"health", "registry", "token"} \/ GenuineAllow(c) => ~check[c].stopped
PastScope(c) ==
  /\ check[c].pc = "judged" => c \in checkUsage
  /\ check[c].pc \in {"policy", "spend", "ceiling"} \/ GenuineAllow(c) =>
       check[c].req.scope = "exact" \/ (check[c].judge = "conforms" /\ c \in checkUsage)
PastPolicy(c) == check[c].pc \in {"spend", "ceiling"} \/ GenuineAllow(c) => check[c].req.policy = "none"

\* What is true of the mode: shadows in log-only alone, every allow of enforce in the ledger.
ByMode(c) ==
  /\ check[c].pc \in Deciding \cup {"verdict"} => ~check[c].shadowed
  /\ check[c].pc \in Decided \ {"verdict"} =>
       /\ mode = "enforce" => ~check[c].shadowed
       /\ mode = "enforce" /\ check[c].decision = "ALLOW" => Recorded(c, "ALLOW")
       /\ mode = "log_only" => check[c].decision = "ALLOW"
       /\ check[c].shadowed => Recorded(c, "shadow") \/ Lost(c, "shadow")

\* What the governor's books owe, once the meter was asked.
Counted(c) ==
  /\ check[c].noCap => estate.cap # "ok"
  /\ check[c].pc \in {"meter", "gap"} => check[c].decision = "ALLOW"
  /\ check[c].pc \in {"answer", "done"} /\ check[c].decision = "ALLOW" =>
       \/ c \in actions
       \/ check[c].outcome = "no_cap" /\ estate.cap # "ok"
       \/ Recorded(c, "metering_gap") \/ Lost(c, "metering_gap")

Tells(c) == PastStops(c) /\ PastScope(c) /\ PastPolicy(c) /\ ByMode(c) /\ Counted(c)
EstateTypes ==
  estate \in [agent : {"active", "killed"}, token : {"active", "revoked"},
              cap : {"ok", "none", "BLOCK", "THROTTLED", "ESCALATE"}, judgeCap : {"ok", "none", "BLOCK"}]
VerdictInv == VerdictTypes /\ EstateTypes /\ \A c \in Checks : Asked(c) => Tells(c)

LEMMA VerdictBegins == VerdictInit => VerdictInv
  BY DEF VerdictInit, VerdictInv, VerdictTypes, EstateTypes, Asked, CheckNotAsked

LEMMA VerdictInvSound == VerdictInv => CheckSound
<1> SUFFICES ASSUME VerdictInv PROVE CheckSound OBVIOUS
<1>1. \A c \in Checks : check[c].pc = "done" => check[c] \in AskedChecks /\ Tells(c)
  BY DEF VerdictInv, VerdictTypes, Asked, CheckNotAsked
<1>2. RefusalHolds
  <2> SUFFICES ASSUME mode = "enforce", NEW c \in ran
      PROVE Recorded(c, "ALLOW") /\ ~Violates(c) /\ (check[c].req.scope = "exact" \/ c \in checkUsage)
    BY DEF RefusalHolds
  <2>1. c \in Checks /\ check[c].pc = "done" /\ check[c].decision = "ALLOW" BY DEF VerdictInv, VerdictTypes
  <2>2. Tells(c) BY <1>1, <2>1
  <2>3. GenuineAllow(c) /\ Recorded(c, "ALLOW") BY <2>1, <2>2 DEF Tells, ByMode, GenuineAllow, Decided
  <2> QED BY <2>1, <2>2, <2>3 DEF Tells, PastStops, PastScope, PastPolicy, Violates
<1>3. LogOnlyObserves
  BY <1>1 DEF LogOnlyObserves, Tells, ByMode, Decided, GenuineAllow, PastStops, PastScope, PastPolicy,
    Violates
<1>4. AllowsCounted BY <1>1 DEF AllowsCounted, Tells, Counted
<1> QED BY <1>2, <1>3, <1>4 DEF CheckSound

\* What a check has told stays true while the estate gets worse and the books grow.
LEMMA TellsKept ==
  ASSUME VerdictInv, NEW c \in Checks, Asked(c), check'[c] = check[c], UNCHANGED mode,
         estate' = estate \/ EstateChanges1,
         ledger \subseteq ledger', dropped \subseteq dropped', actions \subseteq actions', checkUsage \subseteq checkUsage'
  PROVE  Tells(c)'
<1>1. Tells(c) BY DEF VerdictInv
<1>2. /\ estate.agent = "killed" => estate'.agent = "killed"
      /\ estate.token = "revoked" => estate'.token = "revoked"
      /\ estate.cap # "ok" => estate'.cap # "ok"
  BY DEF VerdictInv, EstateTypes, EstateChanges1
<1>3. PastStops(c)' BY <1>1, <1>2 DEF Tells, PastStops, GenuineAllow
<1>4. PastScope(c)' BY <1>1 DEF Tells, PastScope, GenuineAllow
<1>5. PastPolicy(c)' BY <1>1 DEF Tells, PastPolicy, GenuineAllow
<1>6. ByMode(c)' BY <1>1 DEF Tells, ByMode, Recorded, Lost
<1>7. Counted(c)' BY <1>1, <1>2 DEF Tells, Counted, Recorded, Lost
<1> QED BY <1>3, <1>4, <1>5, <1>6, <1>7 DEF Tells

\* A check that moved to r tells what it owes; the others are as they were.
LEMMA CheckMoves ==
  ASSUME VerdictInv, NEW c \in Checks, NEW r \in AskedChecks, check' = [check EXCEPT ![c] = r], Tells(c)',
         UNCHANGED <<mode, estate>>,
         ledger \subseteq ledger', dropped \subseteq dropped', actions \subseteq actions', checkUsage \subseteq checkUsage',
         ran' = ran \/ (ran' = ran \cup {c} /\ r.pc = "done" /\ r.decision = "ALLOW"), check[c].pc # "done"
  PROVE  VerdictInv'
<1>1. check'[c] = r /\ \A d \in Checks \ {c} : check'[d] = check[d] BY DEF VerdictInv, VerdictTypes
<1>2. c \notin ran BY DEF VerdictInv, VerdictTypes
<1>3. VerdictTypes' BY <1>1, <1>2 DEF VerdictInv, VerdictTypes, AskedChecks
<1>4. EstateTypes' BY DEF VerdictInv, EstateTypes
<1>5. \A d \in Checks : Asked(d)' => Tells(d)'
  BY <1>1, TellsKept DEF Asked
<1> QED BY <1>3, <1>4, <1>5 DEF VerdictInv

\* Where a check stands tells what it is.
LEMMA CheckStands ==
  ASSUME VerdictInv, NEW c \in Checks, check[c].pc # "new"
  PROVE  check[c] \in AskedChecks /\ Asked(c) /\ Tells(c)
  BY DEF VerdictInv, VerdictTypes, Asked, CheckNotAsked

\* A refusal owes nothing but its shadow; so does one that is still to be recorded.
LEMMA RefusesSoundly ==
  ASSUME VerdictInv, NEW c \in Checks, check[c].pc \in Deciding, NEW d \in {"BLOCK", "ESCALATE"}, Decides(c, d),
         UNCHANGED <<mode, estate, ledger, dropped, actions, ran>>, checkUsage \subseteq checkUsage'
  PROVE  VerdictInv'
<1> DEFINE r == [check[c] EXCEPT !.pc = "verdict", !.decision = d]
<1>1. check[c] \in AskedChecks /\ Tells(c) BY CheckStands DEF Deciding
<1>2. check' = [check EXCEPT ![c] = r] BY DEF Decides
<1>3. /\ r \in AskedChecks /\ r.pc = "verdict" /\ r.decision = d
      /\ r.stopped = check[c].stopped /\ r.shadowed = check[c].shadowed /\ r.noCap = check[c].noCap
  BY <1>1 DEF AskedChecks, Decided
<1>4. check'[c] = r BY <1>2 DEF VerdictInv, VerdictTypes
<1> HIDE DEF r
<1>5. ~GenuineAllow(c)' BY <1>3, <1>4 DEF GenuineAllow
<1>6. PastStops(c)' /\ PastScope(c)' /\ PastPolicy(c)'
  BY <1>1, <1>3, <1>4, <1>5 DEF Tells, PastStops, PastScope, PastPolicy, Deciding
<1>7. ByMode(c)' BY <1>1, <1>3, <1>4 DEF Tells, ByMode, Deciding, Decided
<1>8. Counted(c)' BY <1>1, <1>3, <1>4 DEF Tells, Counted
<1> QED BY <1>2, <1>3, <1>6, <1>7, <1>8, CheckMoves DEF Tells, Deciding

\* On to the next question, with what this one gave.
LEMMA GoesSoundly ==
  ASSUME VerdictInv, NEW c \in Checks, check[c].pc \in Deciding, NEW r \in AskedChecks, check' = [check EXCEPT ![c] = r],
         r.pc \in Deciding \ {"health"}, r.stopped = check[c].stopped, r.shadowed = check[c].shadowed,
         r.req = check[c].req,
         r.noCap => estate.cap # "ok",
         r.pc = "token" /\ r.stopped => estate.token = "revoked",
         r.pc \notin {"registry", "token"} => ~r.stopped,
         r.pc = "judged" => c \in checkUsage',
         r.pc \in {"policy", "spend", "ceiling"} => r.req.scope = "exact" \/ (r.judge = "conforms" /\ c \in checkUsage'),
         r.pc \in {"spend", "ceiling"} => r.req.policy = "none",
         UNCHANGED <<mode, estate, actions, ran>>,
         ledger \subseteq ledger', dropped \subseteq dropped', checkUsage \subseteq checkUsage'
  PROVE  VerdictInv'
<1>1. check[c] \in AskedChecks /\ Tells(c) BY CheckStands DEF Deciding
<1>4. check'[c] = r BY DEF VerdictInv, VerdictTypes
<1>5. ~GenuineAllow(c)' BY <1>4 DEF GenuineAllow, Deciding, Decided
<1>6. PastStops(c)' /\ PastScope(c)' /\ PastPolicy(c)'
  BY <1>1, <1>4, <1>5 DEF Tells, PastStops, PastScope, PastPolicy, Deciding
<1>7. ByMode(c)' BY <1>1, <1>4 DEF Tells, ByMode, Deciding, Decided
<1>8. Counted(c)' BY <1>1, <1>4 DEF Tells, Counted, Deciding
<1> QED BY <1>6, <1>7, <1>8, CheckMoves DEF Tells, Deciding

LEMMA CallKeeps == ASSUME VerdictInv, NEW c \in Checks, Call(c) PROVE VerdictInv'
<1>1. PICK q \in Requests :
        check' = [check EXCEPT ![c] = [pc |-> "health", req |-> q, decision |-> "ALLOW", judge |-> "none", shadowed |-> FALSE,
                                      spendRead |-> FALSE, noCap |-> FALSE, outcome |-> "none",
                                      stopped |-> estate.agent = "killed" \/ estate.token = "revoked"]]
  BY DEF Call
<1> DEFINE r == [pc |-> "health", req |-> q, decision |-> "ALLOW", judge |-> "none", shadowed |-> FALSE,
                 spendRead |-> FALSE, noCap |-> FALSE, outcome |-> "none",
                 stopped |-> estate.agent = "killed" \/ estate.token = "revoked"]
<1>2. /\ r \in AskedChecks /\ r.pc = "health" /\ ~r.shadowed /\ ~r.noCap
      /\ (r.stopped => estate.agent = "killed" \/ estate.token = "revoked") BY DEF AskedChecks, Deciding
<1>3. check'[c] = r /\ check' = [check EXCEPT ![c] = r] BY <1>1 DEF VerdictInv, VerdictTypes
<1> HIDE DEF r
<1>4. UNCHANGED <<mode, estate, ledger, dropped, actions, checkUsage, ran>> BY DEF Call, CheckQuestion, BooksSame, Only
<1>5. check[c].pc # "done" BY DEF Call, Asked
<1>6. ~GenuineAllow(c)' BY <1>2, <1>3 DEF GenuineAllow, Decided
<1>7. Tells(c)' BY <1>2, <1>3, <1>4, <1>6 DEF Tells, PastStops, PastScope, PastPolicy, ByMode, Counted, Deciding, Decided
<1> QED BY <1>2, <1>3, <1>4, <1>5, <1>7, CheckMoves

\* The questions of _decide, one by one.
LEMMA QuestionsKeep ==
  ASSUME VerdictInv, NEW c \in Checks, Health(c) \/ Registry(c) \/ Token(c) \/ Scope(c) \/ Budget(c) \/ Judge(c)
  PROVE  VerdictInv'
<1>1. UNCHANGED <<mode, estate, ledger, dropped, actions, checkUsage, ran>>
  BY DEF Health, Registry, Token, Scope, Budget, Judge, CheckQuestion, BooksSame, Only
<1>2. check[c].pc \in Deciding BY DEF Health, Registry, Token, Scope, Budget, Judge, Deciding
<1>3. check[c] \in AskedChecks /\ Tells(c) BY <1>2, CheckStands DEF Deciding
<1>4. CASE \E d \in {"BLOCK", "ESCALATE"} : Decides(c, d) BY <1>1, <1>2, <1>4, RefusesSoundly
<1>5. CASE \E pc \in {"registry", "token", "scope", "policy", "budget", "judge"} :
             /\ CheckGoes(c, pc)
             /\ pc = "token" => check[c].pc = "registry" /\ estate.agent = "active"
             /\ pc = "scope" => check[c].pc = "token" /\ estate.token = "active"
             /\ pc \in {"policy", "budget"} => check[c].pc = "scope"
             /\ pc = "judge" => check[c].pc = "budget"
             /\ pc = "policy" => check[c].req.scope = "exact"
  <2>1. PICK pc \in {"registry", "token", "scope", "policy", "budget", "judge"} :
             /\ CheckGoes(c, pc)
             /\ pc = "token" => check[c].pc = "registry" /\ estate.agent = "active"
             /\ pc = "scope" => check[c].pc = "token" /\ estate.token = "active"
             /\ pc \in {"policy", "budget"} => check[c].pc = "scope"
             /\ pc = "judge" => check[c].pc = "budget"
             /\ pc = "policy" => check[c].req.scope = "exact" BY <1>5
  <2> DEFINE r == [check[c] EXCEPT !.pc = pc]
  <2>2. /\ check' = [check EXCEPT ![c] = r] /\ r \in AskedChecks /\ r.pc = pc /\ r.stopped = check[c].stopped
        /\ r.shadowed = check[c].shadowed /\ r.req = check[c].req /\ r.noCap = check[c].noCap
    BY <1>3, <2>1 DEF CheckGoes, AskedChecks, Deciding
  <2>3. r.pc = "token" /\ r.stopped => estate.token = "revoked" BY <1>3, <2>1, <2>2 DEF Tells, PastStops
  <2>4. r.pc \notin {"registry", "token"} => ~r.stopped BY <1>3, <2>1, <2>2 DEF Tells, PastStops, Deciding
  <2>5. r.noCap => estate.cap # "ok" BY <1>3, <2>2 DEF Tells, Counted
  <2> HIDE DEF r
  <2> QED BY <1>1, <1>2, <2>1, <2>2, <2>3, <2>4, <2>5, GoesSoundly DEF Deciding
<1>6. CASE \E v \in {"conforms", "outside", "unsure"} :
             check' = [check EXCEPT ![c].pc = "usage", ![c].judge = v] /\ check[c].pc = "judge"
  <2>1. PICK v \in {"conforms", "outside", "unsure"} :
             check' = [check EXCEPT ![c].pc = "usage", ![c].judge = v] /\ check[c].pc = "judge" BY <1>6
  <2> DEFINE r == [check[c] EXCEPT !.pc = "usage", !.judge = v]
  <2>2. /\ check' = [check EXCEPT ![c] = r] /\ r \in AskedChecks /\ r.pc = "usage" /\ r.stopped = check[c].stopped
        /\ r.shadowed = check[c].shadowed /\ r.req = check[c].req /\ r.noCap = check[c].noCap
    BY <1>3, <2>1 DEF AskedChecks, Deciding
  <2>3. ~r.stopped /\ (r.noCap => estate.cap # "ok") BY <1>3, <2>1, <2>2 DEF Tells, PastStops, Counted, Deciding
  <2> HIDE DEF r
  <2> QED BY <1>1, <1>2, <2>2, <2>3, GoesSoundly DEF Deciding
<1>7. CASE Health(c) BY <1>4, <1>5, <1>7 DEF Health
<1>8. CASE Registry(c) BY <1>4, <1>5, <1>8 DEF Registry
<1>9. CASE Token(c) BY <1>4, <1>5, <1>9 DEF Token
<1>10. CASE Scope(c) BY <1>4, <1>5, <1>10 DEF Scope
<1>11. CASE Budget(c) BY <1>4, <1>5, <1>11 DEF Budget
<1>12. CASE Judge(c) BY <1>4, <1>6, <1>12 DEF Judge
<1> QED BY <1>7, <1>8, <1>9, <1>10, <1>11, <1>12

LEMMA UsageKeeps == ASSUME VerdictInv, NEW c \in Checks, ReportUsage(c) PROVE VerdictInv'
<1>1. UNCHANGED <<mode, estate, ledger, dropped, actions, ran>> /\ checkUsage \subseteq checkUsage'
  BY DEF ReportUsage, Only
<1>2. check[c].pc = "usage" BY DEF ReportUsage
<1>3. check[c] \in AskedChecks /\ Tells(c) BY <1>2, CheckStands
<1>4. CASE Decides(c, "ESCALATE") BY <1>1, <1>2, <1>4, RefusesSoundly DEF Deciding
<1>5. CASE CheckGoes(c, "judged") /\ c \in checkUsage'
  <2> DEFINE r == [check[c] EXCEPT !.pc = "judged"]
  <2>1. /\ check' = [check EXCEPT ![c] = r] /\ r \in AskedChecks /\ r.pc = "judged" /\ r.stopped = check[c].stopped
        /\ r.shadowed = check[c].shadowed /\ r.req = check[c].req /\ r.noCap = check[c].noCap
    BY <1>3, <1>5 DEF CheckGoes, AskedChecks, Deciding
  <2>2. ~r.stopped /\ (r.noCap => estate.cap # "ok") BY <1>2, <1>3, <2>1 DEF Tells, PastStops, Counted, Deciding
  <2> HIDE DEF r
  <2> QED BY <1>1, <1>2, <1>5, <2>1, <2>2, GoesSoundly DEF Deciding
<1> QED BY <1>4, <1>5 DEF ReportUsage, Unmetered

\* The append is made or its loss counted; the books only grow.
LEMMA BestEffortGrows ==
  ASSUME NEW c, NEW type, BestEffort(c, type)
  PROVE  ledger \subseteq ledger' /\ dropped \subseteq dropped' /\ (Recorded(c, type)' \/ Lost(c, type)')
  BY DEF BestEffort, Recorded, Lost

\* Not being exact took the judge's word, and its metering.
LEMMA JudgedKeeps == ASSUME VerdictInv, NEW c \in Checks, Judged(c) PROVE VerdictInv'
<1>1. UNCHANGED <<mode, estate, actions, checkUsage, ran>> /\ ledger \subseteq ledger' /\ dropped \subseteq dropped'
  BY BestEffortGrows DEF Judged, Only
<1>2. check[c].pc = "judged" BY DEF Judged
<1>3. check[c] \in AskedChecks /\ Tells(c) BY <1>2, CheckStands
<1>4. ASSUME NEW d \in {"BLOCK", "ESCALATE"}, Decides(c, d) PROVE VerdictInv'
  <2> DEFINE r == [check[c] EXCEPT !.pc = "verdict", !.decision = d]
  <2>1. check' = [check EXCEPT ![c] = r] BY <1>4 DEF Decides
  <2>2. /\ r \in AskedChecks /\ r.pc = "verdict" /\ r.decision = d
        /\ r.stopped = check[c].stopped /\ r.shadowed = check[c].shadowed /\ r.noCap = check[c].noCap
    BY <1>3 DEF AskedChecks, Decided
  <2>3. check'[c] = r BY <2>1 DEF VerdictInv, VerdictTypes
  <2> HIDE DEF r
  <2>4. ~GenuineAllow(c)' BY <2>2, <2>3 DEF GenuineAllow
  <2>5. PastStops(c)' /\ PastScope(c)' /\ PastPolicy(c)'
    BY <1>1, <1>3, <2>2, <2>3, <2>4 DEF Tells, PastStops, PastScope, PastPolicy, Deciding
  <2>6. ByMode(c)' /\ Counted(c)' BY <1>1, <1>2, <1>3, <2>2, <2>3 DEF Tells, ByMode, Counted, Deciding, Decided
  <2> QED BY <1>1, <1>2, <2>1, <2>2, <2>5, <2>6, CheckMoves DEF Tells
<1>5. ASSUME check[c].judge = "conforms", CheckGoes(c, "policy") PROVE VerdictInv'
  <2> DEFINE r == [check[c] EXCEPT !.pc = "policy"]
  <2>1. /\ check' = [check EXCEPT ![c] = r] /\ r \in AskedChecks /\ r.pc = "policy" /\ r.stopped = check[c].stopped
        /\ r.shadowed = check[c].shadowed /\ r.req = check[c].req /\ r.noCap = check[c].noCap /\ r.judge = "conforms"
    BY <1>3, <1>5 DEF CheckGoes, AskedChecks, Deciding
  <2>2. ~r.stopped /\ (r.noCap => estate.cap # "ok") /\ c \in checkUsage
    BY <1>2, <1>3, <2>1 DEF Tells, PastStops, PastScope, Counted, Deciding
  <2> HIDE DEF r
  <2> QED BY <1>1, <1>2, <2>1, <2>2, GoesSoundly DEF Deciding
<1> QED BY <1>4, <1>5 DEF Judged

LEMMA PolicyKeeps == ASSUME VerdictInv, NEW c \in Checks, Policy(c) PROVE VerdictInv'
<1>1. UNCHANGED <<mode, estate, ledger, dropped, actions, checkUsage, ran>> BY DEF Policy, CheckQuestion, BooksSame, Only
<1>2. check[c].pc = "policy" BY DEF Policy
<1>3. check[c] \in AskedChecks /\ Tells(c) BY <1>2, CheckStands
<1>4. CASE check[c].req.policy = "none"
  <2> DEFINE r == [check[c] EXCEPT !.pc = "spend"]
  <2>1. /\ check' = [check EXCEPT ![c] = r] /\ r \in AskedChecks /\ r.pc = "spend" /\ r.stopped = check[c].stopped
        /\ r.shadowed = check[c].shadowed /\ r.req = check[c].req /\ r.noCap = check[c].noCap /\ r.judge = check[c].judge
    BY <1>3, <1>4 DEF Policy, CheckGoes, AskedChecks, Deciding
  <2>2. /\ ~r.stopped /\ (r.noCap => estate.cap # "ok")
        /\ r.req.scope = "exact" \/ (r.judge = "conforms" /\ c \in checkUsage)
    BY <1>2, <1>3, <2>1 DEF Tells, PastStops, PastScope, Counted, Deciding
  <2> HIDE DEF r
  <2> QED BY <1>1, <1>2, <1>4, <2>1, <2>2, GoesSoundly DEF Deciding
<1>5. CASE check[c].req.policy # "none"
  BY <1>3, <1>5, VerdictRequests, <1>1, <1>2, RefusesSoundly DEF AskedChecks, Policy, Deciding
<1> QED BY <1>4, <1>5

\* Past the questions, an allow is genuine; any other word is a refusal.
LEMMA DecidesSoundly ==
  ASSUME VerdictInv, NEW c \in Checks, check[c].pc \in {"spend", "ceiling"}, NEW r \in AskedChecks,
         check' = [check EXCEPT ![c] = r], r.pc \in {"ceiling", "verdict"},
         r.stopped = check[c].stopped, r.shadowed = check[c].shadowed, r.req = check[c].req, r.judge = check[c].judge,
         r.noCap => estate.cap # "ok",
         UNCHANGED <<mode, estate, ledger, dropped, actions, checkUsage, ran>>
  PROVE  VerdictInv'
<1>1. check[c] \in AskedChecks /\ Tells(c) BY CheckStands
<1>2. check'[c] = r BY DEF VerdictInv, VerdictTypes
<1>3. ~check[c].stopped /\ check[c].req.policy = "none" /\ ~check[c].shadowed
      /\ (check[c].req.scope = "exact" \/ (check[c].judge = "conforms" /\ c \in checkUsage))
  BY <1>1 DEF Tells, PastStops, PastScope, PastPolicy, ByMode, Deciding
<1>4. PastStops(c)' /\ PastScope(c)' /\ PastPolicy(c)' BY <1>2, <1>3 DEF PastStops, PastScope, PastPolicy
<1>5. ByMode(c)' /\ Counted(c)' BY <1>2, <1>3 DEF ByMode, Counted, Decided
<1> QED BY <1>4, <1>5, CheckMoves DEF Tells

LEMMA SpendKeeps == ASSUME VerdictInv, NEW c \in Checks, CheckSpend(c) PROVE VerdictInv'
<1>1. UNCHANGED <<mode, estate, ledger, dropped, actions, checkUsage, ran>> BY DEF CheckSpend, CheckQuestion, BooksSame, Only
<1>2. check[c].pc = "spend" BY DEF CheckSpend
<1>3. check[c] \in AskedChecks /\ Tells(c) BY <1>2, CheckStands
<1>4. CASE Decides(c, "BLOCK") BY <1>1, <1>2, <1>4, RefusesSoundly DEF Deciding
<1>5. ASSUME NEW pc \in {"ceiling", "verdict"}, NEW d \in {"ALLOW", "BLOCK", "ESCALATE"},
             check' = [check EXCEPT ![c].spendRead = TRUE, ![c].noCap = (estate.cap = "none"), ![c].pc = pc, ![c].decision = d]
      PROVE VerdictInv'
  <2> DEFINE r == [check[c] EXCEPT !.spendRead = TRUE, !.noCap = (estate.cap = "none"), !.pc = pc, !.decision = d]
  <2>1. /\ check' = [check EXCEPT ![c] = r] /\ r \in AskedChecks /\ r.pc = pc /\ r.stopped = check[c].stopped
        /\ r.shadowed = check[c].shadowed /\ r.req = check[c].req /\ r.judge = check[c].judge
        /\ (r.noCap => estate.cap # "ok")
    BY <1>3, <1>5 DEF AskedChecks, Deciding, Decided
  <2> HIDE DEF r
  <2> QED BY <1>1, <1>2, <2>1, DecidesSoundly
<1>6. check[c].decision \in {"ALLOW", "BLOCK", "ESCALATE"} BY <1>3 DEF AskedChecks
<1> DEFINE pc == CASE estate.cap = "BLOCK" -> "verdict"
                   [] check[c].req.ceiling /\ estate.cap # "none" -> "ceiling"
                   [] OTHER -> "verdict"
           d == CASE estate.cap = "none" -> IF check[c].req.capDeclared \/ check[c].req.ceiling
                              THEN "ESCALATE" ELSE check[c].decision
                  [] estate.cap \in {"BLOCK", "THROTTLED"} -> "BLOCK"
                  [] estate.cap = "ESCALATE" -> "ESCALATE"
                  [] OTHER -> check[c].decision
<1>7. pc \in {"ceiling", "verdict"} OBVIOUS
<1>8. d \in {"ALLOW", "BLOCK", "ESCALATE"} BY <1>6
<1>9. CASE check' = [check EXCEPT ![c].spendRead = TRUE, ![c].noCap = (estate.cap = "none"), ![c].pc = pc, ![c].decision = d]
  <2> HIDE DEF pc, d
  <2> QED BY <1>5, <1>7, <1>8, <1>9
<1> QED BY <1>4, <1>9 DEF CheckSpend

LEMMA CeilingKeeps == ASSUME VerdictInv, NEW c \in Checks, Ceiling(c) PROVE VerdictInv'
<1>1. UNCHANGED <<mode, estate, ledger, dropped, actions, checkUsage, ran>> BY DEF Ceiling, CheckQuestion, BooksSame, Only
<1>2. check[c].pc = "ceiling" BY DEF Ceiling
<1>3. check[c] \in AskedChecks /\ Tells(c) BY <1>2, CheckStands
<1>4. CASE \E d \in {"BLOCK", "ESCALATE"} : Decides(c, d) BY <1>1, <1>2, <1>4, RefusesSoundly DEF Deciding
<1>5. CASE CheckGoes(c, "verdict")
  <2> DEFINE r == [check[c] EXCEPT !.pc = "verdict"]
  <2>1. /\ check' = [check EXCEPT ![c] = r] /\ r \in AskedChecks /\ r.pc = "verdict" /\ r.stopped = check[c].stopped
        /\ r.shadowed = check[c].shadowed /\ r.req = check[c].req /\ r.judge = check[c].judge /\ r.noCap = check[c].noCap
    BY <1>3, <1>5 DEF CheckGoes, AskedChecks, Decided
  <2>2. r.noCap => estate.cap # "ok" BY <1>3, <2>1 DEF Tells, Counted
  <2> HIDE DEF r
  <2> QED BY <1>1, <1>2, <2>1, <2>2, DecidesSoundly
<1> QED BY <1>4, <1>5 DEF Ceiling

\* In log-only the refusal goes into the shadow and the check is an allow.
LEMMA ShadowKeeps == ASSUME VerdictInv, NEW c \in Checks, Shadow(c) PROVE VerdictInv'
<1>1. /\ UNCHANGED <<mode, estate, actions, checkUsage, ran>> /\ ledger \subseteq ledger' /\ dropped \subseteq dropped'
      /\ Recorded(c, "shadow")' \/ Lost(c, "shadow")'
  BY BestEffortGrows DEF Shadow, Only
<1>2. check[c].pc = "verdict" /\ mode = "log_only" BY DEF Shadow
<1>3. check[c] \in AskedChecks /\ Tells(c) BY <1>2, CheckStands
<1> DEFINE r == [check[c] EXCEPT !.pc = "meter", !.decision = "ALLOW", !.shadowed = TRUE]
<1>4. /\ check' = [check EXCEPT ![c] = r] /\ r \in AskedChecks /\ r.pc = "meter" /\ r.decision = "ALLOW" /\ r.shadowed
      /\ r.stopped = check[c].stopped /\ r.noCap = check[c].noCap
  BY <1>3 DEF Shadow, AskedChecks, Decided
<1>5. check'[c] = r BY <1>4 DEF VerdictInv, VerdictTypes
<1> HIDE DEF r
<1>6. ~GenuineAllow(c)' BY <1>4, <1>5 DEF GenuineAllow
<1>7. PastStops(c)' /\ PastScope(c)' /\ PastPolicy(c)'
  BY <1>1, <1>3, <1>4, <1>5, <1>6 DEF Tells, PastStops, PastScope, PastPolicy, Deciding
<1>8. ByMode(c)' BY <1>1, <1>2, <1>4, <1>5 DEF ByMode, Deciding, Decided
<1>9. Counted(c)' BY <1>1, <1>3, <1>4, <1>5 DEF Tells, Counted
<1> QED BY <1>1, <1>2, <1>4, <1>7, <1>8, <1>9, CheckMoves DEF Tells

\* An allow that was not recorded is none, in enforce mode.
LEMMA VerdictKeeps == ASSUME VerdictInv, NEW c \in Checks, CheckVerdict(c) PROVE VerdictInv'
<1>1. UNCHANGED <<mode, estate, dropped, actions, checkUsage, ran>> /\ ledger \subseteq ledger' BY DEF CheckVerdict, Only
<1>2. check[c].pc = "verdict" BY DEF CheckVerdict
<1>3. check[c] \in AskedChecks /\ Tells(c) BY <1>2, CheckStands
<1>4. mode = "log_only" => check[c].decision = "ALLOW" BY DEF CheckVerdict
<1>5. PICK e \in {"ALLOW", "BLOCK", "ESCALATE"} :
        /\ check' = [check EXCEPT ![c].pc = IF e = "ALLOW" THEN "meter" ELSE "answer", ![c].decision = e]
        /\ e = "ALLOW" => check[c].decision = "ALLOW" /\ (mode = "enforce" => Recorded(c, "ALLOW")')
        /\ e # "ALLOW" => mode = "enforce" \/ check[c].decision # "ALLOW"
  BY <1>3 DEF AskedChecks, CheckVerdict, LostAllow, Recorded
<1> DEFINE r == [check[c] EXCEPT !.pc = IF e = "ALLOW" THEN "meter" ELSE "answer", !.decision = e]
<1>6. /\ check' = [check EXCEPT ![c] = r] /\ r \in AskedChecks /\ r.decision = e /\ r.shadowed = check[c].shadowed
      /\ r.pc = IF e = "ALLOW" THEN "meter" ELSE "answer"
      /\ r.stopped = check[c].stopped /\ r.noCap = check[c].noCap /\ r.req = check[c].req /\ r.judge = check[c].judge
  BY <1>3, <1>5 DEF AskedChecks, Decided
<1>7. check'[c] = r BY <1>6 DEF VerdictInv, VerdictTypes
<1> HIDE DEF r
<1>8. GenuineAllow(c)' => GenuineAllow(c) BY <1>2, <1>5, <1>6, <1>7 DEF GenuineAllow, Decided
<1>9. PastStops(c)' /\ PastScope(c)' /\ PastPolicy(c)'
  BY <1>1, <1>3, <1>6, <1>7, <1>8 DEF Tells, PastStops, PastScope, PastPolicy, Deciding
<1>10. ByMode(c)'
  BY <1>2, <1>3, <1>4, <1>5, <1>1, <1>6, <1>7 DEF Tells, ByMode, Deciding
<1>11. Counted(c)' BY <1>1, <1>3, <1>6, <1>7 DEF Tells, Counted
<1> QED BY <1>1, <1>2, <1>6, <1>9, <1>10, <1>11, CheckMoves DEF Tells

\* Past the verdict the decision stays as it is; the meter adds what came of the action.
LEMMA StandsSoundly ==
  ASSUME VerdictInv, NEW c \in Checks, check[c].pc \in {"meter", "gap", "answer"}, NEW r \in AskedChecks,
         check' = [check EXCEPT ![c] = r], r.pc \in {"gap", "answer", "done"},
         r.stopped = check[c].stopped, r.shadowed = check[c].shadowed, r.req = check[c].req, r.judge = check[c].judge,
         r.decision = check[c].decision, r.noCap = check[c].noCap,
         r.pc = "gap" => r.decision = "ALLOW",
         r.pc \in {"answer", "done"} /\ r.decision = "ALLOW" =>
           \/ c \in actions'
           \/ r.outcome = "no_cap" /\ estate.cap # "ok"
           \/ Recorded(c, "metering_gap")' \/ Lost(c, "metering_gap")',
         ran' = ran \/ (ran' = ran \cup {c} /\ r.pc = "done" /\ r.decision = "ALLOW"),
         UNCHANGED <<mode, estate, checkUsage>>, ledger \subseteq ledger', dropped \subseteq dropped', actions \subseteq actions'
  PROVE  VerdictInv'
<1>1. check[c] \in AskedChecks /\ Tells(c) BY CheckStands
<1>2. check'[c] = r BY DEF VerdictInv, VerdictTypes
<1>3. GenuineAllow(c)' => GenuineAllow(c) BY <1>2 DEF GenuineAllow, Decided
<1>4. PastStops(c)' /\ PastScope(c)' /\ PastPolicy(c)'
  BY <1>1, <1>2, <1>3 DEF Tells, PastStops, PastScope, PastPolicy, Deciding
<1>5. ByMode(c)' BY <1>1, <1>2 DEF Tells, ByMode, Recorded, Lost, Deciding, Decided
<1>6. Counted(c)'
  BY <1>1, <1>2 DEF Tells, Counted
<1> QED BY <1>4, <1>5, <1>6, CheckMoves DEF Tells

LEMMA MeterKeeps == ASSUME VerdictInv, NEW c \in Checks, Meter(c) PROVE VerdictInv'
<1>1. UNCHANGED <<mode, estate, ledger, dropped, checkUsage, ran>> /\ actions \subseteq actions' BY DEF Meter, Only
<1>2. check[c].pc = "meter" BY DEF Meter
<1>3. check[c] \in AskedChecks /\ Tells(c) BY <1>2, CheckStands
<1>4. PICK o \in {"no_cap", "metered", "metering_gap"} :
        /\ Outcome(c, o, IF o = "metering_gap" THEN "gap" ELSE "answer")
        /\ o = "no_cap" => estate.cap # "ok"
        /\ o = "metered" => c \in actions'
  <2>1. Skips(c) => estate.cap # "ok" BY <1>3 DEF Skips, Tells, Counted
  <2> QED BY <2>1 DEF Meter
<1> DEFINE r == [check[c] EXCEPT !.pc = IF o = "metering_gap" THEN "gap" ELSE "answer", !.outcome = o]
<1>5. /\ check' = [check EXCEPT ![c] = r] /\ r \in AskedChecks /\ r.decision = check[c].decision
      /\ r.shadowed = check[c].shadowed /\ r.outcome = o /\ r.pc = IF o = "metering_gap" THEN "gap" ELSE "answer"
      /\ r.stopped = check[c].stopped /\ r.noCap = check[c].noCap /\ r.req = check[c].req /\ r.judge = check[c].judge
  BY <1>3, <1>4 DEF Outcome, AskedChecks, Decided
<1>6. r.decision = "ALLOW" BY <1>2, <1>3, <1>5 DEF Tells, Counted
<1> HIDE DEF r
<1> QED BY <1>1, <1>2, <1>4, <1>5, <1>6, StandsSoundly

LEMMA GapKeeps == ASSUME VerdictInv, NEW c \in Checks, Gap(c) PROVE VerdictInv'
<1>1. /\ UNCHANGED <<mode, estate, actions, checkUsage, ran>> /\ ledger \subseteq ledger' /\ dropped \subseteq dropped'
      /\ Recorded(c, "metering_gap")' \/ Lost(c, "metering_gap")'
  BY BestEffortGrows DEF Gap, Only
<1>2. check[c].pc = "gap" BY DEF Gap
<1>3. check[c] \in AskedChecks BY <1>2, CheckStands
<1> DEFINE r == [check[c] EXCEPT !.pc = "answer"]
<1>4. /\ check' = [check EXCEPT ![c] = r] /\ r \in AskedChecks /\ r.decision = check[c].decision
      /\ r.shadowed = check[c].shadowed /\ r.pc = "answer"
      /\ r.stopped = check[c].stopped /\ r.noCap = check[c].noCap /\ r.req = check[c].req /\ r.judge = check[c].judge
  BY <1>3 DEF Gap, CheckGoes, AskedChecks, Decided
<1> HIDE DEF r
<1> QED BY <1>1, <1>2, <1>4, StandsSoundly

LEMMA AnswerKeeps == ASSUME VerdictInv, NEW c \in Checks, CheckAnswer(c) PROVE VerdictInv'
<1>1. UNCHANGED <<mode, estate, ledger, dropped, actions, checkUsage>> BY DEF CheckAnswer, BooksSame, Only
<1>2. check[c].pc = "answer" BY DEF CheckAnswer
<1>3. check[c] \in AskedChecks /\ Tells(c) BY <1>2, CheckStands
<1> DEFINE r == [check[c] EXCEPT !.pc = "done"]
<1>4. /\ check' = [check EXCEPT ![c] = r] /\ r \in AskedChecks /\ r.decision = check[c].decision
      /\ r.shadowed = check[c].shadowed /\ r.pc = "done" /\ r.outcome = check[c].outcome
      /\ r.stopped = check[c].stopped /\ r.noCap = check[c].noCap /\ r.req = check[c].req /\ r.judge = check[c].judge
  BY <1>3 DEF CheckAnswer, CheckGoes, AskedChecks, Decided
<1>5. r.decision = "ALLOW" =>
           \/ c \in actions'
           \/ r.outcome = "no_cap" /\ estate.cap # "ok"
           \/ Recorded(c, "metering_gap")' \/ Lost(c, "metering_gap")'
  BY <1>1, <1>2, <1>3, <1>4 DEF Tells, Counted, Recorded, Lost
<1>6. ran' = ran \/ (ran' = ran \cup {c} /\ r.decision = "ALLOW") BY <1>4 DEF CheckAnswer
<1> HIDE DEF r
<1> QED BY <1>1, <1>2, <1>4, <1>5, <1>6, StandsSoundly

LEMMA EstateKeeps == ASSUME VerdictInv, EstateChanges1 PROVE VerdictInv'
BY TellsKept DEF EstateChanges1, VerdictInv, VerdictTypes, AskedChecks, EstateTypes, Asked

LEMMA VerdictsKeep == VerdictInv /\ [VerdictNext]_verdictVars => VerdictInv'
<1> SUFFICES ASSUME VerdictInv, [VerdictNext]_verdictVars PROVE VerdictInv' OBVIOUS
<1>1. CASE UNCHANGED verdictVars
  BY <1>1, TellsKept DEF verdictVars, VerdictInv, VerdictTypes, EstateTypes, AskedChecks, Asked
<1>2. CASE EstateChanges1 BY <1>2, EstateKeeps
<1>3. ASSUME NEW c \in Checks, CheckStep(c) PROVE VerdictInv'
  BY <1>3, CallKeeps, QuestionsKeep, UsageKeeps, JudgedKeeps, PolicyKeeps, SpendKeeps, CeilingKeeps, ShadowKeeps,
     VerdictKeeps, MeterKeeps, GapKeeps, AnswerKeeps DEF CheckStep
<1> QED BY <1>1, <1>2, <1>3 DEF VerdictNext

\* Refusals hold, log-only observes and every allow is counted, in either mode, with or
\* without a judge, for any number of checks in flight (CheckSound).
THEOREM ChecksAlwaysSound == VerdictSpec => []CheckSound
  BY VerdictBegins, VerdictsKeep, VerdictInvSound, PTL DEF VerdictSpec

-----------------------------------------------------------------------------
(* The scorecard (Verdicts) *)

SeedKinds == {"breach", "expired", "revoked", "vague", "exact", "paraphrase", "unreachable"}
Clauses == {"none", "L.unreachable", "K.halted", "D.expired", "D.revoked", "D.scope"}
Rows == [kind : SeedKinds, skipped : BOOLEAN, wouldBe : Clauses, ledger : {"up", "down"}]
Preparing == {"health", "register", "mint", "revoke", "wait"}
CardDone == {"scored", "refused"}

ScoreTypes ==
  /\ est \in [mode : {"log_only", "enforce"}, ledger : {"up", "down"}, agent : {"absent", "active", "stopped"},
              expired : {"none", "short", "expired"}, revoked : BOOLEAN]
  /\ score \in [pc : Preparing \cup CardDone \cup {"seed", "finally"}, runner : Runners, mode : {"none", "log_only", "enforce"},
                at : Nat, rows : Seq(Rows), down : BOOLEAN]
  /\ scoreChanges \in 0 .. ScoreChanges

\* A row for each seed put so far, or none.
RowsInStep ==
  /\ score.pc \in Preparing => score.rows = <<>> /\ score.at = 1 /\ ~score.down
  /\ score.pc = "seed" =>
       /\ score.at \in 1 .. 8 /\ Len(score.rows) = score.at - 1 /\ score.mode = "log_only"
       /\ score.down => score.at = 8
  /\ score.pc \in CardDone \cup {"finally"} => score.rows = <<>> \/ Len(score.rows) = 8
  /\ score.pc = "scored" => score.rows # <<>>

\* The seeds' causes are there before the first of them is put.
CausesReady ==
  /\ score.pc \in {"wait", "seed"} => est.revoked
  /\ score.pc = "seed" => est.expired = "expired"

\* A row names its seed and what the estate was when it was asked.
RowHonest(row) ==
  /\ row.skipped => row.kind = "unreachable"
  /\ ~row.skipped =>
       /\ row.ledger = "down" <=> row.wouldBe = "L.unreachable"
       /\ row.kind \in Violations \ {"unreachable"} => row.wouldBe # "none"

\* Left alone, the estate is as the run made it, and refuses each seed for its own cause.
LeftAlone ==
  Undisturbed =>
    /\ score.pc \notin {"health", "register"} \cup CardDone \cup {"finally"} => est.agent = "active"
    /\ score.pc \in (Preparing \ {"health"}) \cup {"seed"} => est.mode = score.mode
    /\ score.pc \notin CardDone => (est.ledger = "down" <=> score.down)
    /\ score.pc \in CardDone /\ score.runner = "process" => (score.down \/ est.ledger = "up")
RowHealthy(row) ==
  ~row.skipped => (row.kind \in Violations => row.wouldBe = Expected[row.kind]) /\ (row.kind = "exact" => row.wouldBe = "none")
RowsTrue ==
  \A k \in 1 .. Len(score.rows) :
    score.rows[k].kind = Corpus[k] /\ RowHonest(score.rows[k]) /\ (Undisturbed => RowHealthy(score.rows[k]))

ScoreInv == ScoreTypes /\ RowsInStep /\ CausesReady /\ LeftAlone /\ RowsTrue

LEMMA CorpusShape ==
  /\ Len(Corpus) = 8
  /\ \A k \in 1 .. 8 : Corpus[k] \in SeedKinds /\ (Corpus[k] = "unreachable" <=> k = 8)
  BY DEF Corpus, SeedKinds

LEMMA ScoreBegins == ScoreInit => ScoreInv
<1> SUFFICES ASSUME ScoreInit PROVE ScoreInv OBVIOUS
<1>1. ScoreTypes
  <2>1. est \in [mode : {"log_only", "enforce"}, ledger : {"up", "down"}, agent : {"absent", "active", "stopped"},
              expired : {"none", "short", "expired"}, revoked : BOOLEAN] BY DEF ScoreInit
  <2>2. PICK runner \in Runners :
       score = [pc |-> "health", runner |-> runner, mode |-> "none", at |-> 1, rows |-> <<>>, down |-> FALSE]
    BY DEF ScoreInit
  <2>3. <<>> \in Seq(Rows) OBVIOUS
  <2>4. score \in [pc : Preparing \cup CardDone \cup {"seed", "finally"}, runner : Runners, mode : {"none", "log_only", "enforce"},
                at : Nat, rows : Seq(Rows), down : BOOLEAN] BY <2>2, <2>3 DEF Preparing
  <2> QED BY <2>1, <2>4, ScoreConstants DEF ScoreInit, ScoreTypes
<1>2. score.pc = "health" /\ score.rows = <<>> /\ score.at = 1 /\ ~score.down /\ est.ledger = "up" BY DEF ScoreInit
<1>3. RowsInStep /\ CausesReady /\ LeftAlone BY <1>2 DEF RowsInStep, CausesReady, LeftAlone, Preparing, CardDone
<1>4. RowsTrue BY <1>2 DEF RowsTrue
<1> QED BY <1>1, <1>3, <1>4 DEF ScoreInv

LEMMA ScoreInvSound == ScoreInv => ScoreSound
<1> SUFFICES ASSUME ScoreInv PROVE ScoreSound OBVIOUS
<1>0. score.rows \in Seq(Rows) BY DEF ScoreInv, ScoreTypes
<1>1. \A k \in RowsRun : k \in 1 .. Len(score.rows) /\ score.rows[k] \in Rows /\ ~score.rows[k].skipped
  BY <1>0 DEF RowsRun
<1>2. CardHonest
  BY CorpusShape, <1>1 DEF CardHonest, ScoreInv, RowsInStep, CardDone, RowsTrue, Violations, Expected,
    GatedCaught, RowHonest
<1>3. HealthyPasses
  <2>1. ASSUME score.pc = "scored", Undisturbed PROVE GatesPassed
    BY <1>1, <2>1 DEF ScoreInv, RowsTrue, GatesPassed, GatedCaught, FalseBlock, RowHealthy
  <2>2. score.pc \in {"scored", "refused"} /\ score.runner = "process" /\ Undisturbed => (score.down \/ est.ledger = "up")
    BY DEF ScoreInv, LeftAlone, CardDone
  <2> QED BY <2>1, <2>2 DEF HealthyPasses
<1> QED BY <1>2, <1>3 DEF ScoreSound

\* A row that is asked tells the estate as it is.
LEMMA RowAsked ==
  ASSUME ScoreInv, score.pc = "seed", Kind = "unreachable" => score.down, ~NotLogOnly(ScoreCheck(Kind))
  PROVE  LET row == ScoreRow(Kind, ScoreCheck(Kind))
         IN  row \in Rows /\ row.kind = Corpus[score.at] /\ RowHonest(row) /\ (Undisturbed => RowHealthy(row))
<1> DEFINE row == ScoreRow(Kind, ScoreCheck(Kind))
<1>1. score.at \in 1 .. 8 /\ Kind \in SeedKinds /\ (Kind = "unreachable" <=> score.at = 8) /\ Kind = Corpus[score.at]
  BY CorpusShape DEF ScoreInv, RowsInStep, Kind
<1>2. row = [kind |-> Kind, skipped |-> FALSE, wouldBe |-> Clause(Kind), ledger |-> est.ledger]
  BY DEF ScoreRow, NotLogOnly, ScoreCheck
<1>3. est.ledger \in {"up", "down"} BY DEF ScoreInv, ScoreTypes
<1>4. Clause(Kind) \in Clauses /\ (est.ledger = "down" <=> Clause(Kind) = "L.unreachable") BY <1>3 DEF Clause, Clauses
<1>5. est.revoked /\ est.expired = "expired" BY DEF ScoreInv, CausesReady
<1>6. Kind \in Violations \ {"unreachable"} => Clause(Kind) # "none" BY <1>5 DEF Clause, Violations
<1>7. Undisturbed => est.agent = "active" /\ (est.ledger = "down" <=> Kind = "unreachable")
  BY <1>1 DEF ScoreInv, RowsInStep, LeftAlone, CardDone
<1>8. Undisturbed => (Kind \in Violations => Clause(Kind) = Expected[Kind]) /\ (Kind = "exact" => Clause(Kind) = "none")
  BY <1>5, <1>7 DEF Clause, Violations, Expected
<1> HIDE DEF row
<1> QED BY <1>1, <1>2, <1>3, <1>4, <1>6, <1>8 DEF Rows, RowHonest, RowHealthy, row

\* One more row, for the seed that was put.
LEMMA AdvanceKeeps ==
  ASSUME ScoreInv, score.pc = "seed", NEW row \in Rows, row.kind = Corpus[score.at], RowHonest(row),
         Undisturbed => RowHealthy(row), Advance(row), UNCHANGED <<est, scoreChanges>>
  PROVE  ScoreInv'
<1>0. score \in [pc : Preparing \cup CardDone \cup {"seed", "finally"}, runner : Runners, mode : {"none", "log_only", "enforce"},
                at : Nat, rows : Seq(Rows), down : BOOLEAN] BY DEF ScoreInv, ScoreTypes
<1>1. score.at \in 1 .. 8 /\ Len(score.rows) = score.at - 1 /\ score.mode = "log_only" /\ (score.down => score.at = 8)
  BY DEF ScoreInv, RowsInStep
<1>2. /\ score'.rows = Append(score.rows, row) /\ score'.at = score.at + 1 /\ score'.runner = score.runner
      /\ score'.pc = (IF score.at = 8 THEN "finally" ELSE "seed") /\ score'.mode = score.mode /\ score'.down = score.down
  BY <1>0, CorpusShape DEF Advance, Becomes
<1>3. ScoreTypes'
  <2>1. Append(score.rows, row) \in Seq(Rows) /\ score.at + 1 \in Nat BY <1>0, <1>1
  <2>2. score' \in [pc : Preparing \cup CardDone \cup {"seed", "finally"}, runner : Runners, mode : {"none", "log_only", "enforce"},
                at : Nat, rows : Seq(Rows), down : BOOLEAN] BY <1>0, <2>1 DEF Advance, Becomes
  <2> QED BY <2>2 DEF ScoreInv, ScoreTypes
<1>4. Len(score'.rows) = score.at /\ score'.rows # <<>> BY <1>0, <1>1, <1>2
<1>5. RowsInStep' BY <1>1, <1>2, <1>4 DEF RowsInStep, Preparing, CardDone
<1>6. CausesReady' BY <1>2 DEF ScoreInv, CausesReady
<1>7. LeftAlone' BY <1>2 DEF ScoreInv, LeftAlone, Undisturbed, Preparing, CardDone
<1>8. ASSUME NEW k \in 1 .. Len(score'.rows)
      PROVE score'.rows[k].kind = Corpus[k] /\ RowHonest(score'.rows[k]) /\ (Undisturbed => RowHealthy(score'.rows[k]))
  <2>1. CASE k = score.at BY <1>0, <1>1, <1>2, <2>1
  <2>2. CASE k # score.at
    BY <1>1, <1>4, <2>2, <1>0, <1>2 DEF ScoreInv, RowsTrue
  <2> QED BY <2>1, <2>2
<1>9. RowsTrue' BY <1>8 DEF RowsTrue, Undisturbed, RowHonest, RowHealthy
<1> QED BY <1>3, <1>5, <1>6, <1>7, <1>9 DEF ScoreInv

\* A run that ends without a card has no rows; what it did to the ledger is undone later.
LEMMA RefusesKeeps ==
  ASSUME ScoreInv, score.pc \notin CardDone, Refuses, UNCHANGED <<est, scoreChanges>> PROVE ScoreInv'
<1>1. score' = [score EXCEPT !.pc = "finally", !.rows = <<>>] BY DEF Refuses, Becomes
<1>2. score \in [pc : Preparing \cup CardDone \cup {"seed", "finally"}, runner : Runners, mode : {"none", "log_only", "enforce"},
                at : Nat, rows : Seq(Rows), down : BOOLEAN] BY DEF ScoreInv, ScoreTypes
<1>3. <<>> \in Seq(Rows) /\ Len(<<>>) = 0 OBVIOUS
<1>4. ScoreTypes' BY <1>1, <1>2, <1>3 DEF ScoreInv, ScoreTypes
<1>5. /\ score'.pc = "finally" /\ score'.rows = <<>> /\ score'.down = score.down /\ score'.runner = score.runner
  BY <1>1, <1>2
<1>6. RowsInStep' /\ CausesReady' BY <1>5 DEF RowsInStep, CausesReady, Preparing, CardDone
<1>7. LeftAlone' BY <1>5 DEF ScoreInv, LeftAlone, Undisturbed, Preparing, CardDone
<1>8. RowsTrue' BY <1>3, <1>5 DEF RowsTrue
<1> QED BY <1>4, <1>6, <1>7, <1>8 DEF ScoreInv

\* The steps that prepare the seeds' causes, and the ledger taken down for its group.
LEMMA PreparesKeep ==
  ASSUME ScoreInv, ScoreHealth \/ ScoreRegister \/ ScoreMint \/ ScoreRevoke \/ WaitOut \/ LedgerDown PROVE ScoreInv'
<1>1. score \in [pc : Preparing \cup CardDone \cup {"seed", "finally"}, runner : Runners, mode : {"none", "log_only", "enforce"},
                at : Nat, rows : Seq(Rows), down : BOOLEAN] BY DEF ScoreInv, ScoreTypes
<1>2. est \in [mode : {"log_only", "enforce"}, ledger : {"up", "down"}, agent : {"absent", "active", "stopped"},
              expired : {"none", "short", "expired"}, revoked : BOOLEAN] BY DEF ScoreInv, ScoreTypes
<1>3. CASE WaitOut /\ Refuses BY <1>3, RefusesKeeps DEF WaitOut, CardDone
<1>4. CASE ~Refuses
  <2> DEFINE moved == score'.rows = score.rows /\ score'.at = score.at /\ score'.runner = score.runner
  <2>1. UNCHANGED scoreChanges /\ moved /\ score.pc \in Preparing \cup {"seed"} /\ score'.pc \in Preparing \cup {"seed"}
    BY <1>1, <1>4 DEF ScoreHealth, ScoreRegister, ScoreMint, ScoreRevoke, WaitOut, LedgerDown, Becomes, Preparing
  <2>2. ScoreTypes'
    <3>1. score' \in [pc : Preparing \cup CardDone \cup {"seed", "finally"}, runner : Runners, mode : {"none", "log_only", "enforce"},
                at : Nat, rows : Seq(Rows), down : BOOLEAN]
      BY <1>1, <1>2, <1>4 DEF ScoreHealth, ScoreRegister, ScoreMint, ScoreRevoke, WaitOut, LedgerDown, Becomes, Preparing
    <3>2. est' \in [mode : {"log_only", "enforce"}, ledger : {"up", "down"}, agent : {"absent", "active", "stopped"},
              expired : {"none", "short", "expired"}, revoked : BOOLEAN]
      BY <1>2, <1>4 DEF ScoreHealth, ScoreRegister, ScoreMint, ScoreRevoke, WaitOut, LedgerDown
    <3> QED BY <2>1, <3>1, <3>2 DEF ScoreInv, ScoreTypes
  <2>3. RowsInStep'
    <3>1. Kind = "unreachable" /\ score.pc = "seed" => score.at = 8 BY CorpusShape DEF Kind, ScoreInv, RowsInStep
    <3>2. score'.pc \in Preparing => score.pc \in Preparing /\ score'.down = score.down
      BY <1>1, <1>4 DEF ScoreHealth, ScoreRegister, ScoreMint, ScoreRevoke, WaitOut, LedgerDown, Becomes, Preparing
    <3>3. score'.pc = "seed" =>
            \/ score.pc = "wait" /\ score.mode = "log_only" /\ score'.mode = score.mode /\ score'.down = score.down
            \/ score.pc = "seed" /\ score.at = 8 /\ score'.mode = score.mode
      BY <1>1, <1>4, <3>1 DEF ScoreHealth, ScoreRegister, ScoreMint, ScoreRevoke, WaitOut, LedgerDown, Becomes
    <3>4. score'.pc \notin CardDone \cup {"finally"} BY <2>1 DEF Preparing, CardDone
    <3> QED BY <2>1, <3>2, <3>3, <3>4 DEF ScoreInv, RowsInStep, Preparing, CardDone
  <2>4. CausesReady'
    BY <1>1, <1>2, <1>4 DEF ScoreHealth, ScoreRegister, ScoreMint, ScoreRevoke, WaitOut, Waited, LedgerDown, Becomes,
       ScoreInv, CausesReady
  <2>5. LeftAlone'
    BY <1>1, <1>2, <1>4 DEF ScoreHealth, ScoreRegister, ScoreMint, ScoreRevoke, WaitOut, LedgerDown, Becomes,
       ScoreInv, RowsInStep, LeftAlone, Undisturbed, Preparing, CardDone
  <2>6. RowsTrue' BY <2>1 DEF ScoreInv, RowsTrue, Undisturbed, RowHonest, RowHealthy
  <2> QED BY <2>2, <2>3, <2>4, <2>5, <2>6 DEF ScoreInv
<1>5. Refuses => WaitOut
  BY <1>1 DEF Refuses, ScoreHealth, ScoreRegister, ScoreMint, ScoreRevoke, WaitOut, LedgerDown, Becomes
<1> QED BY <1>3, <1>4, <1>5

\* The end of a run: what it took down it brings back, if it owns the process.
LEMMA FinallyKeeps == ASSUME ScoreInv, Finally PROVE ScoreInv'
<1>1. score \in [pc : Preparing \cup CardDone \cup {"seed", "finally"}, runner : Runners, mode : {"none", "log_only", "enforce"},
                at : Nat, rows : Seq(Rows), down : BOOLEAN] BY DEF ScoreInv, ScoreTypes
<1>2. est \in [mode : {"log_only", "enforce"}, ledger : {"up", "down"}, agent : {"absent", "active", "stopped"},
              expired : {"none", "short", "expired"}, revoked : BOOLEAN] BY DEF ScoreInv, ScoreTypes
<1>3. /\ score.pc = "finally" /\ UNCHANGED scoreChanges
      /\ \/ /\ score' = [score EXCEPT !.pc = Ending, !.down = FALSE]
            /\ est' = IF score.down /\ score.runner = "process" THEN [est EXCEPT !.ledger = "up"] ELSE est
         \/ score' = [score EXCEPT !.pc = Ending] /\ UNCHANGED est /\ score.down
  BY DEF Finally, Becomes
<1>e. Ending \in CardDone /\ (Ending = "scored" => score.rows # <<>>) BY DEF Ending, CardDone
<1>4. ScoreTypes'
  <2>1. est' \in [mode : {"log_only", "enforce"}, ledger : {"up", "down"}, agent : {"absent", "active", "stopped"},
                  expired : {"none", "short", "expired"}, revoked : BOOLEAN] BY <1>2, <1>3
  <2>2. score' \in [pc : Preparing \cup CardDone \cup {"seed", "finally"}, runner : Runners,
                    mode : {"none", "log_only", "enforce"}, at : Nat, rows : Seq(Rows), down : BOOLEAN]
    BY <1>1, <1>3, <1>e
  <2> QED BY <1>3, <2>1, <2>2 DEF ScoreInv, ScoreTypes
<1>5. /\ score'.rows = score.rows /\ score'.runner = score.runner /\ score'.pc = Ending
      /\ est'.ledger = "up" \/ score'.down \/ ~score.down \/ score.runner # "process"
      /\ est'.ledger = "up" \/ est'.ledger = est.ledger
  BY <1>1, <1>2, <1>3
<1>6. RowsInStep' BY <1>3, <1>5, <1>e DEF ScoreInv, RowsInStep, Preparing, CardDone
<1>7. CausesReady' BY <1>5, <1>e DEF CausesReady, CardDone
<1>8. LeftAlone' BY <1>2, <1>3, <1>5, <1>e DEF ScoreInv, LeftAlone, Undisturbed, Preparing, CardDone
<1>9. RowsTrue' BY <1>3, <1>5 DEF ScoreInv, RowsTrue, Undisturbed, RowHonest, RowHealthy
<1> QED BY <1>4, <1>6, <1>7, <1>8, <1>9 DEF ScoreInv

LEMMA SeedsKeep == ASSUME ScoreInv, SkipSeed \/ AskSeed PROVE ScoreInv'
<1>1. CASE SkipSeed
  BY <1>1, AdvanceKeeps DEF ScoreSkipped, Rows, SeedKinds, Clauses, SkipSeed, Kind, RowHonest, RowHealthy
<1>2. CASE AskSeed /\ NotLogOnly(ScoreCheck(Kind)) BY <1>2, RefusesKeeps DEF AskSeed, CardDone
<1>3. CASE AskSeed /\ ~NotLogOnly(ScoreCheck(Kind)) BY <1>3, RowAsked, AdvanceKeeps DEF AskSeed
<1> QED BY <1>1, <1>2, <1>3

\* Whoever else changes the estate, and the clock.
LEMMA OthersKeep == ASSUME ScoreInv, ScoreExpire \/ EstateChange PROVE ScoreInv'
<1>1. est \in [mode : {"log_only", "enforce"}, ledger : {"up", "down"}, agent : {"absent", "active", "stopped"},
              expired : {"none", "short", "expired"}, revoked : BOOLEAN] BY DEF ScoreInv, ScoreTypes
<1>2. score' = score /\ est'.revoked = est.revoked /\ (est.expired = "expired" => est'.expired = "expired")
  BY <1>1 DEF ScoreExpire, EstateChange
<1>3. Undisturbed' => Undisturbed /\ ScoreExpire
  BY ScoreConstants DEF Undisturbed, ScoreExpire, EstateChange, ScoreInv, ScoreTypes
<1>4. ScoreTypes' BY <1>1, ScoreConstants DEF ScoreExpire, EstateChange, ScoreInv, ScoreTypes
<1>5. RowsInStep' /\ CausesReady' BY <1>2 DEF ScoreInv, RowsInStep, CausesReady
<1>6. ScoreExpire => est'.agent = est.agent /\ est'.mode = est.mode /\ est'.ledger = est.ledger BY <1>1 DEF ScoreExpire
<1>7. LeftAlone' BY <1>2, <1>3, <1>6 DEF ScoreInv, LeftAlone
<1>8. RowsTrue' BY <1>2, <1>3 DEF ScoreInv, RowsTrue, RowHonest, RowHealthy
<1> QED BY <1>4, <1>5, <1>7, <1>8 DEF ScoreInv

LEMMA ScoreKeeps == ScoreInv /\ [ScoreNext]_scoreVars => ScoreInv'
<1> SUFFICES ASSUME ScoreInv, [ScoreNext]_scoreVars PROVE ScoreInv' OBVIOUS
<1>1. CASE UNCHANGED scoreVars
  BY <1>1 DEF scoreVars, ScoreInv, ScoreTypes, RowsInStep, CausesReady, LeftAlone, Undisturbed, RowsTrue, RowHonest, RowHealthy
<1>2. CASE RunFails BY <1>2, RefusesKeeps DEF RunFails, CardDone
<1> QED BY <1>1, <1>2, PreparesKeep, FinallyKeeps, SeedsKeep, OthersKeep DEF ScoreNext

\* A card has a row for each seed, counts a catch only by its own cause, and a healthy
\* sentinel left alone passes the gates, for any bound on changes and faults (ScoreSound).
THEOREM ScoresAlwaysSound == ScoreSpec => []ScoreSound
  BY ScoreBegins, ScoreKeeps, ScoreInvSound, PTL DEF ScoreSpec

-----------------------------------------------------------------------------
(* The force-gateway *)

GatewayLabels ==
  {"idle", "authorize", "route", "window", "windowWrite", "upstream", "meter", "tools", "done", "lost"}
    \cup Instrumenting
Frames ==
  [pc : GatewayLabels, shape : Shapes \cup {0}, mode : {"none", "passthrough", "bypass", "instrumented"},
   sent : BOOLEAN, late : BOOLEAN, lateTools : BOOLEAN, tools : SUBSET Tools, out : SUBSET Tools,
   reg : Int, stride : Int, pending : SUBSET Coverage, scores : Seq(Scored)]

\* What app.state holds, short of the tracker, whose series are never looked into.
MemoryTyped(m) ==
  /\ DOMAIN m = {"stride", "cov", "bypass", "drift", "store"}
  /\ m.stride \in Int /\ m.cov \in [Coverage -> Nat] /\ m.bypass \in Int /\ m.store \in BOOLEAN
GatewayTypes ==
  /\ stopped \in BOOLEAN /\ shared \in BOOLEAN /\ gfaults \in Nat
  /\ call \in [Calls -> Frames]
  /\ db \in [stride : Int, cov : [Coverage -> Nat], scores : Seq(Scored)]
  /\ MemoryTyped(mem)

\* An agent that was stopped before its call gets no further than the sentinel; one stopped while
\* the model answered has nothing of its tools delivered.
EgressAt(c) ==
  /\ call[c].pc = "idle" => ~call[c].sent
  /\ call[c].late \/ call[c].lateTools => stopped
  /\ posture.enforce /\ call[c].late => ~call[c].sent /\ call[c].pc \in {"authorize", "done", "lost"}
  /\ call[c].pc \in {"idle", "authorize", "route", "window", "windowWrite", "upstream"} => ~call[c].lateTools
  /\ call[c].pc \in {"idle", "authorize", "route", "window", "windowWrite", "upstream", "meter"} => call[c].out = {}
  /\ posture.enforce /\ posture.toolCheck /\ call[c].lateTools => call[c].out = {}
Egress == \A c \in Calls : EgressAt(c)

\* Coverage is in memory at least, and there alone only after a fault.
Books ==
  /\ mem.store => \A k \in Coverage : mem.cov[k] >= db.cov[k]
  /\ gfaults = 0 => mem.store /\ mem.cov = db.cov

Alone == ~shared => \A c, d \in Calls : call[c].pc \in Instrumenting /\ call[d].pc \in Instrumenting => c = d

\* How far a request in its instrumentation has got ahead of the store, and the tracker behind it.
Half(c) ==
  /\ mem.stride = db.stride + (IF call[c].pc \in {"stride", "judge", "commit", "release", "unreserve"} THEN 1 ELSE 0)
  /\ call[c].pc \in {"reserve", "unreserve"} => call[c].reg = mem.stride
  /\ call[c].pc # "feed" => mem.drift = Replay(db.scores)
  /\ call[c].pc = "feed" => \E p \in Seq(Scored) : db.scores = p \o call[c].scores /\ mem.drift = Replay(p)
Mirrored ==
  ~shared /\ mem.store =>
    /\ (\A c \in Calls : call[c].pc \notin Instrumenting) => mem.stride = db.stride /\ mem.drift = Replay(db.scores)
    /\ \A c \in Calls : call[c].pc \in Instrumenting => Half(c)

GatewayInv == GatewayTypes /\ Egress /\ Books /\ Alone /\ Mirrored

Less == {ss \in Nat \X Nat : ss[1] < ss[2]}
LEMMA NatMin == ASSUME NEW T, T \subseteq Nat, T # {} PROVE \E m \in T : \A n \in T : m <= n
<1>1. IsWellFoundedOn(Less, Nat) BY NatLessThanWellFounded DEF OpToRel, Less
<1>2. PICK x \in T : \A y \in T : ~(<<y, x>> \in Less) BY <1>1, WFMin
<1>3. \A y \in T : ~(y < x) BY <1>2 DEF Less
<1> QED BY <1>3

-----------------------------------------------------------------------------
(* The force-gateway: replaying the stored scores *)

\* What one more stored score makes of a tracker.
FedWith(d, s) == DriftRecord(d, s[1], s[2], s[3])
ReplayOf(ss, f, n) == f = [i \in 0..n |-> IF i = 0 THEN NoDrift ELSE FedWith(f[i - 1], ss[i])]

LEMMA ReplayExists == ASSUME NEW ss, NEW n \in Nat PROVE \E f : ReplayOf(ss, f, n)
<1> DEFINE Bad == {k \in Nat : ~\E f : ReplayOf(ss, f, k)}
<1> SUFFICES ASSUME Bad # {} PROVE FALSE OBVIOUS
<1>1. PICK m \in Bad : \A k \in Bad : m <= k BY NatMin
<1>2. m \in Nat /\ ~\E f : ReplayOf(ss, f, m) OBVIOUS
<1>3. CASE m = 0
  <2> DEFINE f == [i \in 0..0 |-> NoDrift]
  <2>1. f = [i \in 0..0 |-> IF i = 0 THEN NoDrift ELSE FedWith(f[i - 1], ss[i])] OBVIOUS
  <2> QED BY <1>2, <1>3, <2>1 DEF ReplayOf
<1>4. CASE m # 0
  <2>1. m - 1 \in Nat /\ m - 1 \notin Bad BY <1>1, <1>2, <1>4
  <2>2. PICK f : ReplayOf(ss, f, m - 1) BY <2>1
  <2> DEFINE g == [i \in 0..m |-> IF i = m THEN FedWith(f[m - 1], ss[m]) ELSE f[i]]
             h == [i \in 0..m |-> IF i = 0 THEN NoDrift ELSE FedWith(g[i - 1], ss[i])]
  <2>3. ASSUME NEW i \in 0..m PROVE g[i] = h[i]
    <3>1. CASE i = m
      <4>1. g[m - 1] = f[m - 1] BY <1>2, <1>4
      <4>2. g[m] = FedWith(f[m - 1], ss[m]) BY <1>2
      <4> HIDE DEF g
      <4> QED BY <1>2, <1>4, <3>1, <4>1, <4>2
    <3>2. CASE i # m
      <4>1. i \in 0..(m - 1) BY <1>2, <3>2
      <4>2. f[i] = IF i = 0 THEN NoDrift ELSE FedWith(f[i - 1], ss[i])
        BY <2>2, <4>1 DEF ReplayOf
      <4>3. g[i] = f[i] /\ (i # 0 => g[i - 1] = f[i - 1]) BY <1>2, <3>2, <4>1
      <4> HIDE DEF g
      <4> QED BY <4>2, <4>3
    <3> QED BY <3>1, <3>2
  <2>4. g = h
    <3>1. g = [i \in 0..m |-> g[i]] /\ h = [i \in 0..m |-> h[i]] OBVIOUS
    <3> HIDE DEF g, h
    <3> QED BY <2>3, <3>1
  <2>5. ReplayOf(ss, g, m)
    <3> HIDE DEF g
    <3> QED BY <2>4 DEF ReplayOf
  <2> HIDE DEF g
  <2> QED BY <1>2, <2>5
<1> QED BY <1>3, <1>4

LEMMA ReplayIsReplaying == ASSUME NEW ss, Len(ss) \in Nat PROVE \E f : ReplayOf(ss, f, Len(ss)) /\ Replay(ss) = f[Len(ss)]
<1> DEFINE h == CHOOSE f : f = [i \in 0..Len(ss) |->
                                  IF i = 0 THEN NoDrift ELSE DriftRecord(f[i - 1], ss[i][1], ss[i][2], ss[i][3])]
<1>1. Replay(ss) = h[Len(ss)] BY Zenon DEF Replay
<1>2. \E f : f = [i \in 0..Len(ss) |-> IF i = 0 THEN NoDrift ELSE DriftRecord(f[i - 1], ss[i][1], ss[i][2], ss[i][3])]
  BY ReplayExists, Zenon DEF ReplayOf, FedWith
<1>3. h = [i \in 0..Len(ss) |-> IF i = 0 THEN NoDrift ELSE DriftRecord(h[i - 1], ss[i][1], ss[i][2], ss[i][3])]
  BY <1>2, Zenon
<1> HIDE DEF h
<1>4. ReplayOf(ss, h, Len(ss)) BY <1>3, Zenon DEF ReplayOf, FedWith
<1> QED BY <1>1, <1>4

\* One score more is fed last.
LEMMA ReplayAppend ==
  ASSUME NEW S, NEW p \in Seq(S), NEW x \in S
  PROVE  Replay(Append(p, x)) = FedWith(Replay(p), x)
<1> DEFINE q == Append(p, x)
<1>1. Len(p) \in Nat /\ Len(q) = Len(p) + 1 /\ q[Len(p) + 1] = x /\ \A i \in 1..Len(p) : q[i] = p[i]
  BY AppendProperties, LenProperties
<1> HIDE DEF q
<1>2. PICK f : ReplayOf(p, f, Len(p)) /\ Replay(p) = f[Len(p)] BY <1>1, ReplayIsReplaying
<1>3. PICK g : ReplayOf(q, g, Len(q)) /\ Replay(q) = g[Len(q)]
  <2>1. Len(q) \in Nat BY <1>1
  <2> QED BY <2>1, ReplayIsReplaying
<1>4. \A i \in 0..Len(p) : f[i] = IF i = 0 THEN NoDrift ELSE FedWith(f[i - 1], p[i])
  BY <1>2 DEF ReplayOf
<1>5. \A i \in 0..Len(q) : g[i] = IF i = 0 THEN NoDrift ELSE FedWith(g[i - 1], q[i])
  BY <1>3 DEF ReplayOf
<1> DEFINE Bad == {i \in 0..Len(p) : f[i] # g[i]}
<1>6. Bad = {}
  <2> SUFFICES ASSUME Bad # {} PROVE FALSE OBVIOUS
  <2>1. Bad \subseteq Nat BY <1>1
  <2>2. PICK m \in Bad : \A k \in Bad : m <= k BY <2>1, NatMin
  <2>3. m \in 0..Len(p) /\ m \in 0..Len(q) /\ f[m] # g[m] BY <1>1
  <2>4. CASE m = 0 BY <1>4, <1>5, <2>3, <2>4
  <2>5. CASE m # 0
    BY <1>1, <2>2, <2>3, <2>5, <1>4, <1>5
  <2> QED BY <2>4, <2>5
<1>7. f[Len(p)] = g[Len(p)] BY <1>1, <1>6
<1>8. g[Len(q)] = FedWith(g[Len(p)], x)
  BY <1>1, <1>5
<1> QED BY <1>2, <1>3, <1>7, <1>8 DEF q

-----------------------------------------------------------------------------
(* The force-gateway: frames *)

LEMMA NoFrameFits == NoFrame \in Frames
<1>1. <<>> \in Seq(Scored) OBVIOUS
<1> QED BY <1>1 DEF NoFrame, Frames, GatewayLabels, Instrumenting

LEMMA GatewayBegins == GatewayInit => GatewayInv
<1> SUFFICES ASSUME GatewayInit PROVE GatewayInv OBVIOUS
<1>1. PICK old \in StoredScores :
        /\ db = [stride |-> SampleEvery * (Len(old) \div 2), cov |-> [k \in Coverage |-> 0], scores |-> old]
        /\ mem = [FreshMemory(TRUE) EXCEPT !.stride = db.stride, !.drift = Replay(old)]
  BY DEF GatewayInit
<1>2. old \in Seq(Scored) /\ SampleEvery \in Nat BY GatewayAssumption DEF GatewayAssumption
<1>3. Len(old) \in Nat BY <1>2, LenProperties
<1>4. Len(old) \div 2 \in Nat BY <1>3
<1>5. db.stride \in Int
  BY <1>2, <1>4, <1>1
<1>6. db \in [stride : Int, cov : [Coverage -> Nat], scores : Seq(Scored)] BY <1>1, <1>2, <1>5
<1>7. MemoryTyped(mem) /\ mem.stride = db.stride /\ mem.drift = Replay(old) /\ mem.store /\ mem.cov = [k \in Coverage |-> 0]
  BY <1>1, <1>5 DEF FreshMemory, MemoryTyped
<1>8. NoFrame \in Frames BY NoFrameFits
<1>9. \A c \in Calls : call[c] = NoFrame BY DEF GatewayInit
<1>10. GatewayTypes BY <1>6, <1>7, <1>8 DEF GatewayInit, GatewayTypes
<1>11. Egress BY <1>9 DEF Egress, EgressAt, NoFrame, GatewayInit
<1>12. Books
  <2>1. db.cov = [k \in Coverage |-> 0] BY <1>1
  <2>2. mem.cov = db.cov /\ \A k \in Coverage : mem.cov[k] = 0 /\ db.cov[k] = 0 BY <1>7, <2>1
  <2> QED BY <1>7, <2>2 DEF Books
<1>13. Alone /\ Mirrored
  <2>1. \A c \in Calls : call[c].pc \notin Instrumenting BY <1>9 DEF NoFrame, Instrumenting
  <2>2. db.scores = old BY <1>1
  <2> QED BY <1>7, <2>1, <2>2 DEF Alone, Mirrored
<1> QED BY <1>10, <1>11, <1>12, <1>13 DEF GatewayInv

\* The frame a step leaves: at the label, and at the end only what was sent and handed out.
NewFrame(f, label) == IF label = "done" THEN Ended(f, label) ELSE [f EXCEPT !.pc = label]
LEMMA NewFrames ==
  ASSUME NEW f \in Frames, NEW label \in GatewayLabels
  PROVE  LET g == NewFrame(f, label)
         IN /\ g \in Frames /\ g.pc = label
            /\ g.sent = f.sent /\ g.late = f.late /\ g.lateTools = f.lateTools /\ g.out = f.out
            /\ label # "done" => g = [f EXCEPT !.pc = label]
<1> DEFINE g == NewFrame(f, label)
<1>1. CASE label = "done"
  <2>1. g = Ended(f, label) BY <1>1 DEF NewFrame
  <2>2. NoFrame \in Frames BY NoFrameFits
  <2>3. f.sent \in BOOLEAN /\ f.late \in BOOLEAN /\ f.lateTools \in BOOLEAN /\ f.out \in SUBSET Tools BY DEF Frames
  <2> HIDE DEF g
  <2>4. /\ g \in Frames /\ g.pc = label /\ g.sent = f.sent /\ g.late = f.late /\ g.lateTools = f.lateTools
        /\ g.out = f.out
    BY <1>1, <2>1, <2>2, <2>3 DEF Ended, Frames
  <2> QED BY <1>1, <2>4 DEF g
<1>2. CASE label # "done"
  <2>1. g = [f EXCEPT !.pc = label] BY <1>2 DEF NewFrame
  <2> HIDE DEF g
  <2>2. /\ g \in Frames /\ g.pc = label /\ g.sent = f.sent /\ g.late = f.late /\ g.lateTools = f.lateTools
        /\ g.out = f.out
    BY <1>2, <2>1 DEF Frames
  <2> QED BY <1>2, <2>1, <2>2 DEF g
<1> QED BY <1>1, <1>2

\* Sharing is noticed by the step that begins it.
Noticed(c, g) == shared \/ (g.pc \in Instrumenting /\ \E d \in Calls \ {c} : call[d].pc \in Instrumenting)

\* A step of one request: it has a new frame, the others keep theirs.
LEMMA Goes ==
  ASSUME GatewayInv, NEW c \in Calls, NEW g \in Frames, call' = [call EXCEPT ![c] = g], shared' = Noticed(c, g)
  PROVE  /\ call' \in [Calls -> Frames] /\ shared' \in BOOLEAN
         /\ call'[c] = g
         /\ \A d \in Calls \ {c} : call'[d] = call[d]
         /\ ~shared' => ~shared
         /\ ~shared' /\ g.pc \in Instrumenting => \A d \in Calls \ {c} : call[d].pc \notin Instrumenting
         /\ Alone'
<1>1. call \in [Calls -> Frames] /\ shared \in BOOLEAN /\ Alone BY DEF GatewayInv, GatewayTypes
<1>5. call' \in [Calls -> Frames] /\ call'[c] = g /\ \A d \in Calls \ {c} : call'[d] = call[d] BY <1>1
<1>6. /\ shared' \in BOOLEAN /\ (~shared' => ~shared)
      /\ ~shared' /\ g.pc \in Instrumenting => \A d \in Calls \ {c} : call[d].pc \notin Instrumenting
  BY <1>1 DEF Noticed
<1>7. Alone'
  BY <1>6, <1>1, <1>5 DEF Alone
<1> QED BY <1>5, <1>6, <1>7

\* Bookkeeping: counters in memory, and in the store where it takes them.
LEMMA Bookkept ==
  ASSUME GatewayInv, NEW ks \in SUBSET Coverage, NEW m, NEW ok \in BOOLEAN, Count(ks, m, ok),
         MemoryTyped(m), m.cov = mem.cov, m.store = mem.store
  PROVE  /\ MemoryTyped(mem') /\ mem'.stride = m.stride /\ mem'.drift = m.drift /\ mem'.store = mem.store
         /\ db' \in [stride : Int, cov : [Coverage -> Nat], scores : Seq(Scored)]
         /\ db'.stride = db.stride /\ db'.scores = db.scores
         /\ gfaults' \in Nat /\ Books'
<1>1. /\ mem.cov \in [Coverage -> Nat] /\ db \in [stride : Int, cov : [Coverage -> Nat], scores : Seq(Scored)]
      /\ gfaults \in Nat /\ mem.store \in BOOLEAN /\ Books
  BY DEF GatewayInv, GatewayTypes, MemoryTyped
<1>2. Bump(mem.cov, ks) \in [Coverage -> Nat] /\ Bump(db.cov, ks) \in [Coverage -> Nat] BY <1>1 DEF Bump
<1>3. mem' = [m EXCEPT !.cov = Bump(mem.cov, ks)] BY DEF Count
<1>4. MemoryTyped(mem') /\ mem'.stride = m.stride /\ mem'.drift = m.drift /\ mem'.store = mem.store
      /\ mem'.cov = Bump(mem.cov, ks)
  BY <1>2, <1>3 DEF MemoryTyped
<1>5. db' = (IF ok /\ mem.store THEN [db EXCEPT !.cov = Bump(db.cov, ks)] ELSE db) BY DEF Count
<1>6. /\ db' \in [stride : Int, cov : [Coverage -> Nat], scores : Seq(Scored)]
      /\ db'.stride = db.stride /\ db'.scores = db.scores
      /\ db'.cov = IF ok /\ mem.store THEN Bump(db.cov, ks) ELSE db.cov
  BY <1>1, <1>2, <1>5
<1>7. gfaults' = (IF ok THEN gfaults ELSE gfaults + 1) /\ gfaults' \in Nat BY <1>1 DEF Count, StoreOutcome
<1>8. Books'
  <2>1. \A k \in Coverage : /\ Bump(mem.cov, ks)[k] >= mem.cov[k] /\ mem.cov[k] \in Nat /\ db.cov[k] \in Nat
                            /\ mem.cov[k] >= db.cov[k] => Bump(mem.cov, ks)[k] >= Bump(db.cov, ks)[k]
    BY <1>1 DEF Bump
  <2>2. \A k \in Coverage : Bump(mem.cov, ks)[k] \in Nat BY <1>2
  <2>3. ASSUME mem.store PROVE \A k \in Coverage : mem'.cov[k] >= db'.cov[k]
    BY <1>1, <1>4, <1>6, <2>1, <2>2, <2>3 DEF Books
  <2>4. ASSUME gfaults' = 0 PROVE mem'.store /\ mem'.cov = db'.cov
    <3>1. ok /\ gfaults = 0 BY <1>1, <1>7, <2>4
    <3> QED BY <1>1, <1>4, <1>6, <3>1 DEF Books
  <2> QED BY <1>4, <2>3, <2>4 DEF Books
<1> QED BY <1>4, <1>6, <1>7, <1>8

\* A step of a request outside its instrumentation that ends outside it changes nothing a restart goes by.
LEMMA MirrorStays ==
  ASSUME GatewayInv, NEW c \in Calls, call[c].pc \notin Instrumenting, call'[c].pc \notin Instrumenting,
         \A d \in Calls \ {c} : call'[d] = call[d], ~shared' => ~shared,
         mem'.stride = mem.stride, mem'.drift = mem.drift, mem'.store = mem.store,
         db'.stride = db.stride, db'.scores = db.scores
  PROVE  Mirrored'
<1> SUFFICES ASSUME ~shared', mem'.store PROVE
      /\ (\A d \in Calls : call'[d].pc \notin Instrumenting) => mem'.stride = db'.stride /\ mem'.drift = Replay(db'.scores)
      /\ \A d \in Calls : call'[d].pc \in Instrumenting => Half(d)'
  BY Zenon DEF Mirrored
<1>1. ~shared /\ mem.store /\ Mirrored BY DEF GatewayInv
<1>2. ASSUME \A d \in Calls : call'[d].pc \notin Instrumenting
      PROVE  mem'.stride = db'.stride /\ mem'.drift = Replay(db'.scores)
  BY <1>2, <1>1 DEF Mirrored
<1>3. ASSUME NEW d \in Calls, call'[d].pc \in Instrumenting PROVE Half(d)'
  BY <1>3, <1>1 DEF Mirrored, Half
<1> QED BY <1>2, <1>3

\* A step of the only request in its instrumentation: it is half-way again, or leaves things in step.
LEMMA MirrorMoves ==
  ASSUME GatewayInv, NEW c \in Calls, call'[c].pc \in Instrumenting \/ call[c].pc \in Instrumenting,
         Alone', \A d \in Calls \ {c} : call'[d] = call[d], ~shared' => ~shared,
         ~shared /\ ~shared' /\ mem'.store /\ call'[c].pc \in Instrumenting => Half(c)',
         ~shared /\ ~shared' /\ mem'.store /\ call'[c].pc \notin Instrumenting =>
            mem'.stride = db'.stride /\ mem'.drift = Replay(db'.scores)
  PROVE  Mirrored'
<1> SUFFICES ASSUME ~shared', mem'.store PROVE
      /\ (\A d \in Calls : call'[d].pc \notin Instrumenting) => mem'.stride = db'.stride /\ mem'.drift = Replay(db'.scores)
      /\ \A d \in Calls : call'[d].pc \in Instrumenting => Half(d)'
  BY Zenon DEF Mirrored
<1>1. Alone /\ ~shared BY DEF GatewayInv
<1>2. ASSUME NEW d \in Calls, call'[d].pc \in Instrumenting PROVE d = c
  <2>1. ASSUME d # c PROVE FALSE
    BY <1>2, <2>1, <1>1 DEF Alone
  <2> QED BY <2>1
<1> QED BY <1>1, <1>2

LEMMA EgressStays ==
  ASSUME GatewayInv, NEW c \in Calls, \A d \in Calls \ {c} : call'[d] = call[d], UNCHANGED <<posture, stopped>>, EgressAt(c)'
  PROVE  Egress'
<1> SUFFICES ASSUME NEW d \in Calls PROVE EgressAt(d)' BY DEF Egress
<1>1. EgressAt(d) BY DEF GatewayInv, Egress
<1>2. CASE d = c BY <1>2
<1>3. CASE d # c
  <2>1. call'[d] = call[d] BY <1>3
  <2> QED BY <1>1, <2>1 DEF EgressAt
<1> QED BY <1>2, <1>3

\* What a request finds at a label of its own: nobody else is in the instrumentation, and it knows how far it is.
LEMMA HalfWay == ASSUME GatewayInv, NEW c \in Calls, call[c].pc \in Instrumenting, ~shared, mem.store PROVE Half(c)
  BY DEF GatewayInv, Mirrored

LEMMA InStepBefore ==
  ASSUME GatewayInv, NEW c \in Calls, call[c].pc \notin Instrumenting,
         \A d \in Calls \ {c} : call[d].pc \notin Instrumenting, ~shared, mem.store
  PROVE  mem.stride = db.stride /\ mem.drift = Replay(db.scores)
BY DEF GatewayInv, Mirrored

\* A step that leaves memory and store alone, outside the instrumentation.
LEMMA PlainSteps ==
  ASSUME GatewayInv, NEW c \in Calls, NEW g \in Frames, call' = [call EXCEPT ![c] = g], shared' = Noticed(c, g),
         g.pc \notin Instrumenting, call[c].pc \notin Instrumenting,
         UNCHANGED <<posture, db, mem, stopped, gfaults>>, EgressAt(c)'
  PROVE  GatewayInv'
BY Goes, EgressStays, MirrorStays DEF GatewayInv, GatewayTypes, MemoryTyped, Books

\* One outside the instrumentation that counts, or moves the bypass window.
LEMMA AsideSteps ==
  ASSUME GatewayInv, NEW c \in Calls, NEW g \in Frames, call' = [call EXCEPT ![c] = g], shared' = Noticed(c, g),
         g.pc \notin Instrumenting, call[c].pc \notin Instrumenting, UNCHANGED <<posture, stopped>>, EgressAt(c)',
         MemoryTyped(mem'), mem'.stride = mem.stride, mem'.drift = mem.drift, mem'.store = mem.store,
         db' \in [stride : Int, cov : [Coverage -> Nat], scores : Seq(Scored)],
         db'.stride = db.stride, db'.scores = db.scores, gfaults' \in Nat, Books'
  PROVE  GatewayInv'
BY Goes, EgressStays, MirrorStays DEF GatewayInv, GatewayTypes, MemoryTyped

\* One that is in its instrumentation before or after.
LEMMA MovingSteps ==
  ASSUME GatewayInv, NEW c \in Calls, NEW g \in Frames, call' = [call EXCEPT ![c] = g], shared' = Noticed(c, g),
         g.pc \in Instrumenting \/ call[c].pc \in Instrumenting, UNCHANGED <<posture, stopped>>, EgressAt(c)',
         MemoryTyped(mem'), db' \in [stride : Int, cov : [Coverage -> Nat], scores : Seq(Scored)],
         gfaults' \in Nat, Books',
         ~shared /\ ~shared' /\ mem'.store /\ g.pc \in Instrumenting => Half(c)',
         ~shared /\ ~shared' /\ mem'.store /\ g.pc \notin Instrumenting =>
            mem'.stride = db'.stride /\ mem'.drift = Replay(db'.scores)
  PROVE  GatewayInv'
<1>1. /\ call' \in [Calls -> Frames] /\ shared' \in BOOLEAN /\ call'[c] = g /\ Alone'
      /\ \A d \in Calls \ {c} : call'[d] = call[d]
      /\ ~shared' => ~shared
  BY Goes
<1>2. GatewayTypes' BY <1>1 DEF GatewayInv, GatewayTypes, MemoryTyped
<1>3. Egress' BY <1>1, EgressStays
<1>4. Mirrored' BY <1>1, MirrorMoves
<1> QED BY <1>1, <1>2, <1>3, <1>4 DEF GatewayInv

\* From the tools on, a step sends nothing and hands nothing out.
LEMMA EgressOn ==
  ASSUME GatewayInv, NEW c \in Calls, NEW g \in Frames, call'[c] = g, UNCHANGED <<posture, stopped>>,
         call[c].pc \in Instrumenting \cup {"tools", "meter"}, g.pc \in Instrumenting \cup {"tools", "done"},
         g.sent = call[c].sent, g.late = call[c].late, g.lateTools = call[c].lateTools, g.out = call[c].out
  PROVE  EgressAt(c)'
<1>1. EgressAt(c) BY DEF GatewayInv, Egress
<1> QED BY <1>1 DEF EgressAt, Instrumenting

-----------------------------------------------------------------------------
(* The force-gateway: identity, authority and the call *)

LEMMA FrameOf ==
  ASSUME GatewayInv, NEW c \in Calls
  PROVE  /\ call[c] \in Frames /\ EgressAt(c) /\ stopped \in BOOLEAN
         /\ db.cov \in [Coverage -> Nat] /\ MemoryTyped(mem)
  BY DEF GatewayInv, GatewayTypes, Egress

LEMMA Went ==
  ASSUME GatewayInv, NEW c \in Calls, NEW f \in Frames, NEW label \in GatewayLabels, Goto(c, f, label)
  PROVE  \E g \in Frames :
           /\ call' = [call EXCEPT ![c] = g] /\ call'[c] = g /\ shared' = Noticed(c, g)
           /\ g.pc = label /\ g.sent = f.sent /\ g.late = f.late /\ g.lateTools = f.lateTools /\ g.out = f.out
           /\ label # "done" => g = [f EXCEPT !.pc = label]
<1> DEFINE g == NewFrame(f, label)
<1>1. /\ g \in Frames /\ g.pc = label /\ g.sent = f.sent /\ g.late = f.late /\ g.lateTools = f.lateTools /\ g.out = f.out
      /\ label # "done" => g = [f EXCEPT !.pc = label]
  BY NewFrames
<1>2. call' = [call EXCEPT ![c] = g] BY DEF Goto, NewFrame
<1>3. shared' = Noticed(c, g) BY <1>1 DEF Goto, Noticed
<1> HIDE DEF g
<1>4. call'[c] = g BY <1>1, <1>2 DEF GatewayInv, GatewayTypes
<1> QED BY <1>1, <1>2, <1>3, <1>4

LEMMA ArriveKeeps == ASSUME GatewayInv, NEW c \in Calls, NEW s \in Shapes, Arrive(c, s) PROVE GatewayInv'
<1> DEFINE f == [call[c] EXCEPT !.shape = s, !.late = stopped]
           label == IF posture.enforce /\ ~(s.agent # "none" /\ s.token) THEN "done"
                    ELSE IF posture.enforce THEN "authorize" ELSE "route"
<1>1. call[c] \in Frames /\ EgressAt(c) /\ stopped \in BOOLEAN /\ call[c].pc = "idle" BY FrameOf DEF Arrive, At
<1>2. f \in Frames /\ f.late = stopped /\ f.sent = call[c].sent /\ f.lateTools = call[c].lateTools /\ f.out = call[c].out
  BY <1>1 DEF Frames
<1>3. label \in GatewayLabels /\ label \in {"done", "authorize", "route"} /\ (posture.enforce => label # "route")
  BY DEF GatewayLabels
<1>4. Goto(c, f, label) /\ UNCHANGED <<posture, db, mem, stopped, gfaults>> BY DEF Arrive
<1> HIDE DEF f, label
<1>5. PICK g \in Frames :
        /\ call' = [call EXCEPT ![c] = g] /\ call'[c] = g /\ shared' = Noticed(c, g)
        /\ g.pc = label /\ g.sent = f.sent /\ g.late = f.late /\ g.lateTools = f.lateTools /\ g.out = f.out
  BY <1>2, <1>3, <1>4, Went
<1>8. EgressAt(c)'
  BY <1>1, <1>2, <1>3, <1>4, <1>5 DEF EgressAt
<1>9. call[c].pc \notin Instrumenting /\ g.pc \notin Instrumenting BY <1>1, <1>3, <1>5 DEF Instrumenting
<1> QED BY <1>4, <1>5, <1>8, <1>9, PlainSteps

LEMMA AuthorizeKeeps == ASSUME GatewayInv, NEW c \in Calls, Authorize(c) PROVE GatewayInv'
<1>1. call[c] \in Frames /\ EgressAt(c) /\ stopped \in BOOLEAN /\ call[c].pc = "authorize" BY FrameOf DEF Authorize, At
<1>2. PICK allowed \in BOOLEAN : Allows(allowed) /\ Goto(c, call[c], IF allowed THEN "route" ELSE "done") BY DEF Authorize
<1> DEFINE label == IF allowed THEN "route" ELSE "done"
<1>3. label \in GatewayLabels /\ label \in {"done", "route"} /\ (label = "route" => ~stopped)
  BY <1>1, <1>2 DEF GatewayLabels, Allows
<1>4. Goto(c, call[c], label) /\ UNCHANGED <<posture, db, mem, stopped, gfaults>> BY <1>2 DEF Authorize
<1> HIDE DEF label
<1>5. PICK g \in Frames :
        /\ call' = [call EXCEPT ![c] = g] /\ call'[c] = g /\ shared' = Noticed(c, g) /\ g.pc = label
        /\ g.sent = call[c].sent /\ g.late = call[c].late /\ g.lateTools = call[c].lateTools /\ g.out = call[c].out
  BY <1>1, <1>3, <1>4, Went
<1>6. EgressAt(c)' BY <1>1, <1>3, <1>4, <1>5 DEF EgressAt
<1>7. call[c].pc \notin Instrumenting /\ g.pc \notin Instrumenting BY <1>1, <1>3, <1>5 DEF Instrumenting
<1> QED BY <1>4, <1>5, <1>6, <1>7, PlainSteps

LEMMA RouteKeeps == ASSUME GatewayInv, NEW c \in Calls, Route(c) PROVE GatewayInv'
<1>1. call[c] \in Frames /\ EgressAt(c) /\ call[c].pc = "route" /\ MemoryTyped(mem) BY FrameOf DEF Route, At
<1>2. call[c].pc \notin Instrumenting /\ UNCHANGED <<posture, stopped>> BY <1>1 DEF Instrumenting, Route
<1>3. ASSUME NEW f \in Frames, NEW label \in {"upstream", "window", "done"}, Goto(c, f, label),
             f.sent = call[c].sent, f.late = call[c].late, f.lateTools = call[c].lateTools, f.out = call[c].out
      PROVE  \E g \in Frames :
               /\ call' = [call EXCEPT ![c] = g] /\ call'[c] = g /\ shared' = Noticed(c, g) /\ g.pc \notin Instrumenting
               /\ EgressAt(c)'
  BY <1>3, Went, <1>1, <1>2 DEF GatewayLabels, EgressAt, Instrumenting
<1>4. CASE /\ \E ok \in BOOLEAN : Count({"passthrough"}, mem, ok)
           /\ Goto(c, [call[c] EXCEPT !.mode = "passthrough"], "upstream")
  <2> DEFINE f == [call[c] EXCEPT !.mode = "passthrough"]
  <2>1. f \in Frames /\ f.sent = call[c].sent /\ f.late = call[c].late /\ f.lateTools = call[c].lateTools /\ f.out = call[c].out
    BY <1>1 DEF Frames
  <2>2. Goto(c, f, "upstream") BY <1>4
  <2> HIDE DEF f
  <2>3. PICK g \in Frames :
          /\ call' = [call EXCEPT ![c] = g] /\ call'[c] = g /\ shared' = Noticed(c, g) /\ g.pc \notin Instrumenting
          /\ EgressAt(c)'
    BY <1>3, <2>1, <2>2
  <2>4. PICK ok \in BOOLEAN : Count({"passthrough"}, mem, ok) BY <1>4
  <2>5. /\ MemoryTyped(mem') /\ mem'.stride = mem.stride /\ mem'.drift = mem.drift /\ mem'.store = mem.store
        /\ db' \in [stride : Int, cov : [Coverage -> Nat], scores : Seq(Scored)]
        /\ db'.stride = db.stride /\ db'.scores = db.scores /\ gfaults' \in Nat /\ Books'
    BY <1>1, <2>4, Bookkept DEF Coverage
  <2> QED BY <1>2, <2>3, <2>5, AsideSteps
<1>5. CASE /\ \/ mem.bypass > 0 /\ Goto(c, [call[c] EXCEPT !.mode = "bypass"], "window")
              \/ /\ ~(mem.bypass > 0)
                 /\ Goto(c, [call[c] EXCEPT !.mode = "instrumented"], IF call[c].shape.preset THEN "upstream" ELSE "done")
           /\ UNCHANGED <<db, mem, gfaults>>
  <2>1. \E f \in Frames, label \in {"upstream", "window", "done"} :
           /\ Goto(c, f, label) /\ f.sent = call[c].sent /\ f.late = call[c].late
           /\ f.lateTools = call[c].lateTools /\ f.out = call[c].out
    <3>1. CASE Goto(c, [call[c] EXCEPT !.mode = "bypass"], "window")
      <4> DEFINE f == [call[c] EXCEPT !.mode = "bypass"]
      <4>1. /\ f \in Frames /\ f.sent = call[c].sent /\ f.late = call[c].late /\ f.lateTools = call[c].lateTools
            /\ f.out = call[c].out
        BY <1>1 DEF Frames
      <4>2. Goto(c, f, "window") BY <3>1
      <4> HIDE DEF f
      <4> QED BY <4>1, <4>2
    <3>2. CASE Goto(c, [call[c] EXCEPT !.mode = "instrumented"], IF call[c].shape.preset THEN "upstream" ELSE "done")
      <4> DEFINE f == [call[c] EXCEPT !.mode = "instrumented"]
                 label == IF call[c].shape.preset THEN "upstream" ELSE "done"
      <4>1. /\ f \in Frames /\ f.sent = call[c].sent /\ f.late = call[c].late /\ f.lateTools = call[c].lateTools
            /\ f.out = call[c].out
        BY <1>1 DEF Frames
      <4>2. Goto(c, f, label) /\ label \in {"upstream", "done"} BY <3>2
      <4> HIDE DEF f, label
      <4> QED BY <4>1, <4>2
    <3> QED BY <1>5, <3>1, <3>2
  <2>2. \E g \in Frames :
          /\ call' = [call EXCEPT ![c] = g] /\ call'[c] = g /\ shared' = Noticed(c, g) /\ g.pc \notin Instrumenting
          /\ EgressAt(c)'
    BY <1>3, <2>1
  <2> QED BY <1>2, <1>5, <2>2, PlainSteps
<1> QED BY <1>4, <1>5 DEF Route

LEMMA WindowReadKeeps == ASSUME GatewayInv, NEW c \in Calls, WindowRead(c) PROVE GatewayInv'
<1> DEFINE f == [call[c] EXCEPT !.reg = mem.bypass]
<1>1. call[c] \in Frames /\ EgressAt(c) /\ call[c].pc = "window" /\ MemoryTyped(mem) BY FrameOf DEF WindowRead, At
<1>2. f \in Frames /\ f.late = call[c].late /\ f.sent = call[c].sent /\ f.lateTools = call[c].lateTools /\ f.out = call[c].out
  BY <1>1 DEF Frames, MemoryTyped
<1>3. Goto(c, f, "windowWrite") /\ UNCHANGED <<posture, db, mem, stopped, gfaults>> BY DEF WindowRead
<1>4. "windowWrite" \in GatewayLabels BY DEF GatewayLabels
<1> HIDE DEF f
<1>5. PICK g \in Frames :
        /\ call' = [call EXCEPT ![c] = g] /\ call'[c] = g /\ shared' = Noticed(c, g) /\ g.pc = "windowWrite"
        /\ g.sent = f.sent /\ g.late = f.late /\ g.lateTools = f.lateTools /\ g.out = f.out
  BY <1>2, <1>3, <1>4, Went
<1>6. EgressAt(c)' BY <1>1, <1>2, <1>3, <1>5 DEF EgressAt
<1>7. call[c].pc \notin Instrumenting /\ g.pc \notin Instrumenting BY <1>1, <1>5 DEF Instrumenting
<1> QED BY <1>3, <1>5, <1>6, <1>7, PlainSteps

LEMMA WindowWriteKeeps == ASSUME GatewayInv, NEW c \in Calls, WindowWrite(c) PROVE GatewayInv'
<1>1. call[c] \in Frames /\ EgressAt(c) /\ call[c].pc = "windowWrite" /\ MemoryTyped(mem) BY FrameOf DEF WindowWrite, At
<1>2. Goto(c, call[c], "upstream") /\ UNCHANGED <<posture, stopped>> /\ "upstream" \in GatewayLabels
  BY DEF WindowWrite, GatewayLabels
<1>3. PICK g \in Frames :
        /\ call' = [call EXCEPT ![c] = g] /\ call'[c] = g /\ shared' = Noticed(c, g) /\ g.pc = "upstream"
        /\ g.sent = call[c].sent /\ g.late = call[c].late /\ g.lateTools = call[c].lateTools /\ g.out = call[c].out
  BY <1>1, <1>2, Went
<1>4. EgressAt(c)' BY <1>1, <1>2, <1>3 DEF EgressAt
<1>5. call[c].pc \notin Instrumenting /\ g.pc \notin Instrumenting BY <1>1, <1>3 DEF Instrumenting
<1> DEFINE m == [mem EXCEPT !.bypass = call[c].reg - 1]
<1>6. PICK ok \in BOOLEAN : Count({"bypassed"}, m, ok) BY DEF WindowWrite
<1>7. MemoryTyped(m) /\ m.cov = mem.cov /\ m.store = mem.store /\ m.stride = mem.stride /\ m.drift = mem.drift
  <2>1. call[c].reg - 1 \in Int BY <1>1 DEF Frames
  <2> QED BY <1>1, <2>1 DEF MemoryTyped
<1> HIDE DEF m
<1>8. /\ MemoryTyped(mem') /\ mem'.stride = mem.stride /\ mem'.drift = mem.drift /\ mem'.store = mem.store
      /\ db' \in [stride : Int, cov : [Coverage -> Nat], scores : Seq(Scored)]
      /\ db'.stride = db.stride /\ db'.scores = db.scores /\ gfaults' \in Nat /\ Books'
  <2>1. {"bypassed"} \in SUBSET Coverage BY DEF Coverage
  <2> QED BY <1>6, <1>7, <2>1, Bookkept
<1> QED BY <1>2, <1>3, <1>4, <1>5, <1>8, AsideSteps

LEMMA UpstreamKeeps == ASSUME GatewayInv, NEW c \in Calls, Upstream(c) PROVE GatewayInv'
<1>1. call[c] \in Frames /\ EgressAt(c) /\ stopped \in BOOLEAN /\ call[c].pc = "upstream" BY FrameOf DEF Upstream, At
<1>2. PICK a \in UpstreamAnswers :
        Goto(c, [call[c] EXCEPT !.sent = TRUE, !.tools = a.tools, !.lateTools = stopped],
             CASE ~a.ok -> "done" [] a.ok /\ call[c].mode = "passthrough" -> "meter" [] OTHER -> "tools")
  BY DEF Upstream
<1> DEFINE f == [call[c] EXCEPT !.sent = TRUE, !.tools = a.tools, !.lateTools = stopped]
           label == CASE ~a.ok -> "done" [] a.ok /\ call[c].mode = "passthrough" -> "meter" [] OTHER -> "tools"
<1>3. a.tools \in SUBSET Tools /\ a.ok \in BOOLEAN BY DEF UpstreamAnswers
<1>4. f \in Frames /\ f.late = call[c].late /\ f.lateTools = stopped /\ f.out = call[c].out BY <1>1, <1>3 DEF Frames
<1>5. label \in {"done", "meter", "tools"} /\ label \in GatewayLabels BY <1>3 DEF GatewayLabels
<1>6. Goto(c, f, label) /\ UNCHANGED <<posture, db, mem, stopped, gfaults>> BY <1>2 DEF Upstream
<1> HIDE DEF f, label
<1>7. PICK g \in Frames :
        /\ call' = [call EXCEPT ![c] = g] /\ call'[c] = g /\ shared' = Noticed(c, g) /\ g.pc = label
        /\ g.late = f.late /\ g.lateTools = f.lateTools /\ g.out = f.out
  BY <1>4, <1>5, <1>6, Went
<1>8. call[c].out = {} /\ (posture.enforce => ~call[c].late) /\ (call[c].late => stopped) BY <1>1 DEF EgressAt
<1>9. EgressAt(c)' BY <1>4, <1>5, <1>6, <1>7, <1>8 DEF EgressAt
<1>10. call[c].pc \notin Instrumenting /\ g.pc \notin Instrumenting BY <1>1, <1>5, <1>7 DEF Instrumenting
<1> QED BY <1>6, <1>7, <1>9, <1>10, PlainSteps

LEMMA MeterPassthroughKeeps == ASSUME GatewayInv, NEW c \in Calls, MeterPassthrough(c) PROVE GatewayInv'
BY FrameOf, Went, EgressOn, PlainSteps DEF MeterPassthrough, At, GatewayLabels, Instrumenting

LEMMA ToolBlockKeeps == ASSUME GatewayInv, NEW c \in Calls, ToolBlock(c) PROVE GatewayInv'
<1>1. /\ call[c] \in Frames /\ EgressAt(c) /\ stopped \in BOOLEAN /\ call[c].pc = "tools"
      /\ UNCHANGED <<posture, db, mem, stopped, gfaults>>
  BY FrameOf DEF ToolBlock, At
<1> DEFINE checked == posture.enforce /\ posture.toolCheck
<1>2. ASSUME NEW f \in Frames, NEW label \in {"instrument", "done", "tools"}, Goto(c, f, label),
             f.sent = call[c].sent, f.late = call[c].late, f.lateTools = call[c].lateTools,
             f.out = call[c].out \/ ~checked \/ ~stopped
      PROVE  GatewayInv'
  <2>1. label \in GatewayLabels BY DEF GatewayLabels, Instrumenting
  <2>2. PICK g \in Frames :
          /\ call' = [call EXCEPT ![c] = g] /\ call'[c] = g /\ shared' = Noticed(c, g) /\ g.pc = label
          /\ g.sent = f.sent /\ g.late = f.late /\ g.lateTools = f.lateTools /\ g.out = f.out
    BY <1>2, <2>1, Went
  <2>3. EgressAt(c)' BY <1>1, <1>2, <2>2 DEF EgressAt
  <2>4. call[c].pc \notin Instrumenting BY <1>1 DEF Instrumenting
  <2>5. CASE label = "instrument"
    <3>1. g.pc \in Instrumenting BY <2>2, <2>5 DEF Instrumenting
    <3>2. ASSUME ~shared, ~shared', mem'.store PROVE Half(c)'
      <4>1. \A d \in Calls \ {c} : call[d].pc \notin Instrumenting BY <2>2, <3>1, <3>2, Goes
      <4>2. mem.stride = db.stride /\ mem.drift = Replay(db.scores) BY <1>1, <2>4, <3>2, <4>1, InStepBefore
      <4> QED BY <1>1, <2>2, <2>5, <4>2 DEF Half, GatewayInv, GatewayTypes
    <3>3. MemoryTyped(mem') /\ db' \in [stride : Int, cov : [Coverage -> Nat], scores : Seq(Scored)] /\ gfaults' \in Nat /\ Books'
      BY <1>1 DEF GatewayInv, GatewayTypes, MemoryTyped, Books
    <3> QED BY <1>1, <2>2, <2>3, <3>1, <3>2, <3>3, MovingSteps
  <2>6. CASE label # "instrument"
    <3>1. g.pc \notin Instrumenting BY <2>2, <2>6 DEF Instrumenting
    <3> QED BY <1>1, <2>2, <2>3, <2>4, <3>1, PlainSteps
  <2> QED BY <2>5, <2>6
<1>3. CASE /\ call[c].tools = {} \/ ~checked
           /\ Goto(c, [call[c] EXCEPT !.out = @ \cup call[c].tools, !.tools = {}], AfterTools(call[c]))
  <2> DEFINE f == [call[c] EXCEPT !.out = @ \cup call[c].tools, !.tools = {}]
  <2>1. /\ f \in Frames /\ f.sent = call[c].sent /\ f.late = call[c].late /\ f.lateTools = call[c].lateTools
        /\ f.out = call[c].out \cup call[c].tools
    BY <1>1 DEF Frames
  <2>2. Goto(c, f, AfterTools(call[c])) /\ AfterTools(call[c]) \in {"instrument", "done"} BY <1>3 DEF AfterTools
  <2>3. f.out = call[c].out \/ ~checked BY <1>3, <2>1
  <2> HIDE DEF f, checked
  <2> QED BY <1>2, <2>1, <2>2, <2>3
<1>4. CASE \E t \in call[c].tools, allowed \in BOOLEAN :
             /\ checked /\ Allows(allowed)
             /\ Goto(c, [call[c] EXCEPT !.tools = @ \ {t}, !.out = IF allowed THEN @ \cup {t} ELSE @], "tools")
  <2>1. PICK t \in call[c].tools, allowed \in BOOLEAN :
          /\ Allows(allowed)
          /\ Goto(c, [call[c] EXCEPT !.tools = @ \ {t}, !.out = IF allowed THEN @ \cup {t} ELSE @], "tools")
    BY <1>4
  <2> DEFINE f == [call[c] EXCEPT !.tools = @ \ {t}, !.out = IF allowed THEN @ \cup {t} ELSE @]
  <2>2. /\ f \in Frames /\ f.sent = call[c].sent /\ f.late = call[c].late /\ f.lateTools = call[c].lateTools
        /\ allowed \/ f.out = call[c].out
    BY <1>1 DEF Frames
  <2>3. f.out = call[c].out \/ ~stopped BY <2>1, <2>2 DEF Allows
  <2>4. Goto(c, f, "tools") BY <2>1
  <2> HIDE DEF f, checked
  <2> QED BY <1>2, <2>2, <2>3, <2>4
<1> QED BY <1>3, <1>4 DEF ToolBlock

-----------------------------------------------------------------------------
(* The force-gateway: instrumentation *)

LEMMA StoreTyped ==
  ASSUME GatewayInv
  PROVE  /\ MemoryTyped(mem) /\ db \in [stride : Int, cov : [Coverage -> Nat], scores : Seq(Scored)]
         /\ gfaults \in Nat /\ Books
  BY DEF GatewayInv, GatewayTypes

LEMMA StoreStays ==
  ASSUME GatewayInv, UNCHANGED <<db, mem, gfaults>>
  PROVE  /\ MemoryTyped(mem') /\ db' \in [stride : Int, cov : [Coverage -> Nat], scores : Seq(Scored)]
         /\ gfaults' \in Nat /\ Books'
  BY StoreTyped DEF MemoryTyped, Books

\* A bypass window opens; the stride and the tracker stay.
LEMMA BypassEntered ==
  ASSUME GatewayInv, NEW ks \in SUBSET Coverage, NEW ok \in BOOLEAN, EnterBypass(ks, mem, ok)
  PROVE  /\ MemoryTyped(mem') /\ mem'.stride = mem.stride /\ mem'.drift = mem.drift /\ mem'.store = mem.store
         /\ db' \in [stride : Int, cov : [Coverage -> Nat], scores : Seq(Scored)]
         /\ db'.stride = db.stride /\ db'.scores = db.scores /\ gfaults' \in Nat /\ Books'
<1> DEFINE m == [mem EXCEPT !.bypass = Cooldown]
<1>1. MemoryTyped(m) /\ m.cov = mem.cov /\ m.store = mem.store /\ m.stride = mem.stride /\ m.drift = mem.drift
  <2>1. Cooldown \in Int BY GatewayAssumption DEF GatewayAssumption
  <2> QED BY <2>1, StoreTyped DEF MemoryTyped
<1>2. Count(ks \cup {"bypass_entries"}, m, ok) BY DEF EnterBypass
<1>3. ks \cup {"bypass_entries"} \in SUBSET Coverage BY DEF Coverage
<1> HIDE DEF m
<1> QED BY <1>1, <1>2, <1>3, Bookkept

LEMMA InstrumentKeeps == ASSUME GatewayInv, NEW c \in Calls, Instrument(c) PROVE GatewayInv'
<1>1. /\ call[c] \in Frames /\ call[c].pc = "instrument" /\ call[c].pc \in Instrumenting /\ UNCHANGED <<posture, stopped>>
  BY FrameOf DEF Instrument, At, Instrumenting
<1>2. CASE Goto(c, call[c], "load") /\ UNCHANGED <<db, mem, gfaults>>
  <2>1. "load" \in GatewayLabels /\ "load" \in Instrumenting BY DEF GatewayLabels, Instrumenting
  <2>2. PICK g \in Frames :
          /\ call' = [call EXCEPT ![c] = g] /\ call'[c] = g /\ shared' = Noticed(c, g) /\ g.pc = "load"
          /\ g.sent = call[c].sent /\ g.late = call[c].late /\ g.lateTools = call[c].lateTools /\ g.out = call[c].out
    BY <1>1, <1>2, <2>1, Went
  <2>3. EgressAt(c)' BY <1>1, <2>1, <2>2, EgressOn
  <2>4. ASSUME ~shared, mem'.store PROVE Half(c)'
    <3>1. Half(c) BY <1>1, <1>2, <2>4, HalfWay
    <3> QED BY <1>1, <1>2, <2>2, <3>1 DEF Half
  <2> QED BY <1>1, <1>2, <2>1, <2>2, <2>3, <2>4, StoreStays, MovingSteps
<1>3. CASE Goto(c, call[c], "done") /\ \E ok \in BOOLEAN : EnterBypass({"instrumented"}, mem, ok)
  <2>1. "done" \in GatewayLabels /\ "done" \notin Instrumenting BY DEF GatewayLabels, Instrumenting
  <2>2. PICK g \in Frames :
          /\ call' = [call EXCEPT ![c] = g] /\ call'[c] = g /\ shared' = Noticed(c, g) /\ g.pc = "done"
          /\ g.sent = call[c].sent /\ g.late = call[c].late /\ g.lateTools = call[c].lateTools /\ g.out = call[c].out
    BY <1>1, <1>3, <2>1, Went
  <2>3. EgressAt(c)' BY <1>1, <2>2, EgressOn
  <2>4. PICK ok \in BOOLEAN : EnterBypass({"instrumented"}, mem, ok) BY <1>3
  <2>5. /\ MemoryTyped(mem') /\ mem'.stride = mem.stride /\ mem'.drift = mem.drift /\ mem'.store = mem.store
        /\ db' \in [stride : Int, cov : [Coverage -> Nat], scores : Seq(Scored)]
        /\ db'.stride = db.stride /\ db'.scores = db.scores /\ gfaults' \in Nat /\ Books'
    BY <2>4, BypassEntered DEF Coverage
  <2>6. ASSUME ~shared, mem'.store PROVE mem'.stride = db'.stride /\ mem'.drift = Replay(db'.scores)
    <3>1. Half(c) BY <1>1, <2>5, <2>6, HalfWay
    <3>2. mem.stride = db.stride + 0 /\ mem.drift = Replay(db.scores) BY <1>1, <3>1 DEF Half
    <3>3. db.stride \in Int BY StoreTyped
    <3> QED BY <2>5, <3>2, <3>3
  <2> QED BY <1>1, <2>1, <2>2, <2>3, <2>5, <2>6, MovingSteps
<1> QED BY <1>2, <1>3 DEF Instrument

LEMMA StrideReadKeeps == ASSUME GatewayInv, NEW c \in Calls, StrideRead(c) PROVE GatewayInv'
<1> DEFINE f == [call[c] EXCEPT !.reg = mem.stride]
<1>1. /\ call[c] \in Frames /\ call[c].pc = "load" /\ call[c].pc \in Instrumenting /\ MemoryTyped(mem)
      /\ UNCHANGED <<posture, stopped, db, mem, gfaults>>
  BY FrameOf DEF StrideRead, At, Instrumenting
<1>2. /\ f \in Frames /\ f.late = call[c].late /\ f.sent = call[c].sent /\ f.lateTools = call[c].lateTools
      /\ f.out = call[c].out /\ f.reg = mem.stride
  BY <1>1 DEF Frames, MemoryTyped
<1>3. Goto(c, f, "reserve") BY DEF StrideRead
<1>4. "reserve" \in GatewayLabels /\ "reserve" \in Instrumenting BY DEF GatewayLabels, Instrumenting
<1> HIDE DEF f
<1>5. PICK g \in Frames :
        /\ call' = [call EXCEPT ![c] = g] /\ call'[c] = g /\ shared' = Noticed(c, g) /\ g.pc = "reserve"
        /\ g.sent = f.sent /\ g.late = f.late /\ g.lateTools = f.lateTools /\ g.out = f.out /\ g = [f EXCEPT !.pc = "reserve"]
  BY <1>2, <1>3, <1>4, Went
<1>6. EgressAt(c)' BY <1>1, <1>2, <1>4, <1>5, EgressOn
<1>7. ASSUME ~shared, mem'.store PROVE Half(c)'
  <2>1. Half(c) BY <1>1, <1>7, HalfWay
  <2>2. g.reg = mem.stride BY <1>2, <1>5 DEF Frames
  <2> QED BY <1>1, <1>5, <2>1, <2>2 DEF Half
<1> QED BY <1>1, <1>4, <1>5, <1>6, <1>7, StoreStays, MovingSteps

LEMMA StrideReserveKeeps == ASSUME GatewayInv, NEW c \in Calls, StrideReserve(c) PROVE GatewayInv'
<1> DEFINE f == [call[c] EXCEPT !.reg = 0]
<1>1. /\ call[c] \in Frames /\ call[c].pc = "reserve" /\ call[c].pc \in Instrumenting /\ MemoryTyped(mem)
      /\ UNCHANGED <<posture, stopped, db, gfaults>> /\ mem' = [mem EXCEPT !.stride = call[c].reg + 1]
  BY FrameOf DEF StrideReserve, At, Instrumenting
<1>2. /\ f \in Frames /\ f.late = call[c].late /\ f.sent = call[c].sent /\ f.lateTools = call[c].lateTools
      /\ f.out = call[c].out
  BY <1>1 DEF Frames
<1>3. Goto(c, f, "stride") BY DEF StrideReserve
<1>4. "stride" \in GatewayLabels /\ "stride" \in Instrumenting BY DEF GatewayLabels, Instrumenting
<1> HIDE DEF f
<1>5. PICK g \in Frames :
        /\ call' = [call EXCEPT ![c] = g] /\ call'[c] = g /\ shared' = Noticed(c, g) /\ g.pc = "stride"
        /\ g.sent = f.sent /\ g.late = f.late /\ g.lateTools = f.lateTools /\ g.out = f.out
  BY <1>2, <1>3, <1>4, Went
<1>6. EgressAt(c)' BY <1>1, <1>2, <1>4, <1>5, EgressOn
<1>7. call[c].reg \in Int BY <1>1 DEF Frames
<1>8. /\ MemoryTyped(mem') /\ mem'.stride = call[c].reg + 1 /\ mem'.drift = mem.drift /\ mem'.store = mem.store
      /\ mem'.cov = mem.cov
  BY <1>1, <1>7 DEF MemoryTyped
<1>9. Books' BY <1>1, <1>8, StoreTyped DEF Books
<1>10. ASSUME ~shared, mem'.store PROVE Half(c)'
  <2>1. Half(c) BY <1>1, <1>8, <1>10, HalfWay
  <2>2. mem.stride = db.stride + 0 /\ call[c].reg = mem.stride /\ mem.drift = Replay(db.scores) BY <1>1, <2>1 DEF Half
  <2>3. db.stride \in Int BY StoreTyped
  <2> QED BY <1>1, <1>5, <1>8, <2>2, <2>3 DEF Half
<1>11. db' \in [stride : Int, cov : [Coverage -> Nat], scores : Seq(Scored)] /\ gfaults' \in Nat BY <1>1, StoreTyped
<1> QED BY <1>1, <1>4, <1>5, <1>6, <1>8, <1>9, <1>10, <1>11, MovingSteps

LEMMA StrideSlotKeeps == ASSUME GatewayInv, NEW c \in Calls, StrideSlot(c) PROVE GatewayInv'
<1> DEFINE f == [call[c] EXCEPT !.stride = mem.stride, !.pending = {"instrumented"}]
<1>1. /\ call[c] \in Frames /\ call[c].pc = "stride" /\ call[c].pc \in Instrumenting /\ MemoryTyped(mem)
      /\ UNCHANGED <<posture, stopped, db, mem, gfaults>>
  BY FrameOf DEF StrideSlot, At, Instrumenting
<1>2. /\ f \in Frames /\ f.late = call[c].late /\ f.sent = call[c].sent /\ f.lateTools = call[c].lateTools
      /\ f.out = call[c].out
  BY <1>1 DEF Frames, MemoryTyped, Coverage
<1>3. Goto(c, f, "judge") BY DEF StrideSlot
<1>4. "judge" \in GatewayLabels /\ "judge" \in Instrumenting BY DEF GatewayLabels, Instrumenting
<1> HIDE DEF f
<1>5. PICK g \in Frames :
        /\ call' = [call EXCEPT ![c] = g] /\ call'[c] = g /\ shared' = Noticed(c, g) /\ g.pc = "judge"
        /\ g.sent = f.sent /\ g.late = f.late /\ g.lateTools = f.lateTools /\ g.out = f.out
  BY <1>2, <1>3, <1>4, Went
<1>6. EgressAt(c)' BY <1>1, <1>2, <1>4, <1>5, EgressOn
<1>7. ASSUME ~shared, mem'.store PROVE Half(c)'
  <2>1. Half(c) BY <1>1, <1>7, HalfWay
  <2> QED BY <1>1, <1>5, <2>1 DEF Half
<1> QED BY <1>1, <1>4, <1>5, <1>6, <1>7, StoreStays, MovingSteps

LEMMA ScoreRows ==
  ASSUME NEW s \in Samples
  PROVE  <<<<Dimensions[1], s[1], s[3]>>, <<Dimensions[2], s[2], s[3]>>>> \in Seq(Scored)
BY GatewayAssumption DEF GatewayAssumption, Range, Dimensions, Scored

LEMMA MaybeJudgeKeeps == ASSUME GatewayInv, NEW c \in Calls, MaybeJudge(c) PROVE GatewayInv'
<1>1. /\ call[c] \in Frames /\ call[c].pc = "judge" /\ call[c].pc \in Instrumenting
      /\ UNCHANGED <<posture, stopped, db, mem, gfaults>>
  BY FrameOf DEF MaybeJudge, At, Instrumenting
<1>2. PICK f \in Frames :
        /\ Goto(c, f, "commit") /\ f.late = call[c].late /\ f.sent = call[c].sent /\ f.lateTools = call[c].lateTools
        /\ f.out = call[c].out
  <2>1. CASE Goto(c, call[c], "commit") BY <1>1, <2>1
  <2>2. CASE Goto(c, [call[c] EXCEPT !.pending = @ \cup {"judge_bypassed"}], "commit")
    <3> DEFINE f == [call[c] EXCEPT !.pending = @ \cup {"judge_bypassed"}]
    <3>1. /\ f \in Frames /\ f.late = call[c].late /\ f.sent = call[c].sent /\ f.lateTools = call[c].lateTools
          /\ f.out = call[c].out
      BY <1>1 DEF Frames, Coverage
    <3>2. Goto(c, f, "commit") BY <2>2
    <3> HIDE DEF f
    <3> QED BY <3>1, <3>2
  <2>3. ASSUME NEW s \in Samples,
               Goto(c, [call[c] EXCEPT !.pending = @ \cup {"judged_samples"},
                                       !.scores = <<<<Dimensions[1], s[1], s[3]>>, <<Dimensions[2], s[2], s[3]>>>>], "commit")
        PROVE  \E f \in Frames :
                 /\ Goto(c, f, "commit") /\ f.late = call[c].late /\ f.sent = call[c].sent /\ f.lateTools = call[c].lateTools
                 /\ f.out = call[c].out
    <3> DEFINE rows == <<<<Dimensions[1], s[1], s[3]>>, <<Dimensions[2], s[2], s[3]>>>>
               f == [call[c] EXCEPT !.pending = @ \cup {"judged_samples"}, !.scores = rows]
    <3>1. Goto(c, f, "commit") BY <2>3
    <3>2. rows \in Seq(Scored) BY ScoreRows
    <3> HIDE DEF rows
    <3>3. /\ f \in Frames /\ f.late = call[c].late /\ f.sent = call[c].sent /\ f.lateTools = call[c].lateTools
          /\ f.out = call[c].out
      BY <1>1, <3>2 DEF Frames, Coverage
    <3> HIDE DEF f
    <3> QED BY <3>1, <3>3
  <2> QED BY <2>1, <2>2, <2>3 DEF MaybeJudge
<1>3. "commit" \in GatewayLabels /\ "commit" \in Instrumenting BY DEF GatewayLabels, Instrumenting
<1>4. PICK g \in Frames :
        /\ call' = [call EXCEPT ![c] = g] /\ call'[c] = g /\ shared' = Noticed(c, g) /\ g.pc = "commit"
        /\ g.sent = f.sent /\ g.late = f.late /\ g.lateTools = f.lateTools /\ g.out = f.out
  BY <1>2, <1>3, Went
<1>5. EgressAt(c)' BY <1>1, <1>2, <1>3, <1>4, EgressOn
<1>6. ASSUME ~shared, mem'.store PROVE Half(c)'
  <2>1. Half(c) BY <1>1, <1>6, HalfWay
  <2> QED BY <1>1, <1>4, <2>1 DEF Half
<1> QED BY <1>1, <1>3, <1>4, <1>5, <1>6, StoreStays, MovingSteps

LEMMA ReleaseKeeps == ASSUME GatewayInv, NEW c \in Calls, Release(c) PROVE GatewayInv'
<1> DEFINE f == [call[c] EXCEPT !.reg = mem.stride]
<1>1. /\ call[c] \in Frames /\ call[c].pc = "release" /\ call[c].pc \in Instrumenting /\ MemoryTyped(mem)
      /\ UNCHANGED <<posture, stopped, db, mem, gfaults>>
  BY FrameOf DEF Release, At, Instrumenting
<1>2. /\ f \in Frames /\ f.late = call[c].late /\ f.sent = call[c].sent /\ f.lateTools = call[c].lateTools
      /\ f.out = call[c].out /\ f.reg = mem.stride
  BY <1>1 DEF Frames, MemoryTyped
<1>3. Goto(c, f, "unreserve") BY DEF Release
<1>4. "unreserve" \in GatewayLabels /\ "unreserve" \in Instrumenting BY DEF GatewayLabels, Instrumenting
<1> HIDE DEF f
<1>5. PICK g \in Frames :
        /\ call' = [call EXCEPT ![c] = g] /\ call'[c] = g /\ shared' = Noticed(c, g) /\ g.pc = "unreserve"
        /\ g.sent = f.sent /\ g.late = f.late /\ g.lateTools = f.lateTools /\ g.out = f.out /\ g = [f EXCEPT !.pc = "unreserve"]
  BY <1>2, <1>3, <1>4, Went
<1>6. EgressAt(c)' BY <1>1, <1>2, <1>4, <1>5, EgressOn
<1>7. ASSUME ~shared, mem'.store PROVE Half(c)'
  <2>1. Half(c) BY <1>1, <1>7, HalfWay
  <2>2. g.reg = mem.stride BY <1>2, <1>5 DEF Frames
  <2> QED BY <1>1, <1>5, <2>1, <2>2 DEF Half
<1> QED BY <1>1, <1>4, <1>5, <1>6, <1>7, StoreStays, MovingSteps

LEMMA UnreserveKeeps == ASSUME GatewayInv, NEW c \in Calls, Unreserve(c) PROVE GatewayInv'
<1>1. /\ call[c] \in Frames /\ call[c].pc = "unreserve" /\ call[c].pc \in Instrumenting /\ MemoryTyped(mem)
      /\ UNCHANGED <<posture, stopped>>
  BY FrameOf DEF Unreserve, At, Instrumenting
<1>2. Goto(c, call[c], "done") BY DEF Unreserve
<1>3. "done" \in GatewayLabels /\ "done" \notin Instrumenting BY DEF GatewayLabels, Instrumenting
<1>4. PICK g \in Frames :
        /\ call' = [call EXCEPT ![c] = g] /\ call'[c] = g /\ shared' = Noticed(c, g) /\ g.pc = "done"
        /\ g.sent = call[c].sent /\ g.late = call[c].late /\ g.lateTools = call[c].lateTools /\ g.out = call[c].out
  BY <1>1, <1>2, <1>3, Went
<1>5. EgressAt(c)' BY <1>1, <1>4, EgressOn
<1> DEFINE m == [mem EXCEPT !.stride = call[c].reg - 1]
<1>6. PICK ok \in BOOLEAN : Count({"instrumented"}, m, ok) BY DEF Unreserve
<1>7. call[c].reg \in Int BY <1>1 DEF Frames
<1>8. MemoryTyped(m) /\ m.cov = mem.cov /\ m.store = mem.store /\ m.stride = call[c].reg - 1 /\ m.drift = mem.drift
  BY <1>1, <1>7 DEF MemoryTyped
<1> HIDE DEF m
<1>9. /\ MemoryTyped(mem') /\ mem'.stride = call[c].reg - 1 /\ mem'.drift = mem.drift /\ mem'.store = mem.store
      /\ db' \in [stride : Int, cov : [Coverage -> Nat], scores : Seq(Scored)]
      /\ db'.stride = db.stride /\ db'.scores = db.scores /\ gfaults' \in Nat /\ Books'
  BY <1>6, <1>8, Bookkept DEF Coverage
<1>10. ASSUME ~shared, mem'.store PROVE mem'.stride = db'.stride /\ mem'.drift = Replay(db'.scores)
  <2>1. Half(c) BY <1>1, <1>9, <1>10, HalfWay
  <2>2. mem.stride = db.stride + 1 /\ call[c].reg = mem.stride /\ mem.drift = Replay(db.scores) BY <1>1, <2>1 DEF Half
  <2>3. db.stride \in Int BY StoreTyped
  <2> QED BY <1>9, <2>2, <2>3
<1> QED BY <1>1, <1>3, <1>4, <1>5, <1>9, <1>10, MovingSteps

LEMMA CommitRequestKeeps == ASSUME GatewayInv, NEW c \in Calls, CommitRequest(c) PROVE GatewayInv'
<1>1. /\ call[c] \in Frames /\ call[c].pc = "commit" /\ call[c].pc \in Instrumenting /\ MemoryTyped(mem)
      /\ UNCHANGED <<posture, stopped>>
  BY FrameOf DEF CommitRequest, At, Instrumenting
<1>2. /\ db \in [stride : Int, cov : [Coverage -> Nat], scores : Seq(Scored)] /\ gfaults \in Nat /\ Books
      /\ mem.cov \in [Coverage -> Nat] /\ mem.store \in BOOLEAN /\ mem.stride \in Int
  BY StoreTyped DEF MemoryTyped
<1>3. call[c].pending \in SUBSET Coverage /\ call[c].scores \in Seq(Scored) BY <1>1 DEF Frames
<1>4. CASE /\ db' = [stride |-> db.stride + 1, cov |-> Bump(db.cov, call[c].pending),
                     scores |-> db.scores \o call[c].scores]
           /\ mem' = ApplyCommitted(mem, call[c].pending)
           /\ Goto(c, call[c], "feed")
           /\ UNCHANGED gfaults
  <2>1. "feed" \in GatewayLabels /\ "feed" \in Instrumenting BY DEF GatewayLabels, Instrumenting
  <2>2. PICK g \in Frames :
          /\ call' = [call EXCEPT ![c] = g] /\ call'[c] = g /\ shared' = Noticed(c, g) /\ g.pc = "feed"
          /\ g.sent = call[c].sent /\ g.late = call[c].late /\ g.lateTools = call[c].lateTools /\ g.out = call[c].out
          /\ g = [call[c] EXCEPT !.pc = "feed"]
    BY <1>1, <1>4, <2>1, Went
  <2>3. EgressAt(c)' BY <1>1, <2>1, <2>2, EgressOn
  <2>4. Bump(mem.cov, call[c].pending) \in [Coverage -> Nat] /\ Bump(db.cov, call[c].pending) \in [Coverage -> Nat]
    BY <1>2 DEF Bump
  <2>5. /\ MemoryTyped(mem') /\ mem'.stride = mem.stride /\ mem'.drift = mem.drift /\ mem'.store = mem.store
        /\ mem'.cov = Bump(mem.cov, call[c].pending)
    BY <1>1, <1>4, <2>4 DEF MemoryTyped, ApplyCommitted
  <2>6. db.scores \o call[c].scores \in Seq(Scored) BY <1>2, <1>3, ConcatProperties
  <2>7. /\ db' \in [stride : Int, cov : [Coverage -> Nat], scores : Seq(Scored)]
        /\ db'.stride = db.stride + 1 /\ db'.scores = db.scores \o call[c].scores
        /\ db'.cov = Bump(db.cov, call[c].pending) /\ gfaults' \in Nat
    BY <1>2, <1>4, <2>4, <2>6
  <2>8. Books'
    BY <1>2, <1>4, <2>5, <2>7 DEF Books, Bump
  <2>9. ASSUME ~shared, mem'.store PROVE Half(c)'
    <3>1. Half(c) BY <1>1, <2>5, <2>9, HalfWay
    <3>2. mem.stride = db.stride + 1 /\ mem.drift = Replay(db.scores) BY <1>1, <3>1 DEF Half
    <3>3. g.scores = call[c].scores BY <1>1, <2>2 DEF Frames
    <3>4. db'.scores = db.scores \o g.scores /\ mem'.drift = Replay(db.scores) /\ db.scores \in Seq(Scored)
      BY <1>2, <2>5, <2>7, <3>2, <3>3
    <3>5. mem'.stride = db'.stride + 0 BY <1>2, <2>5, <2>7, <3>2
    <3>6. \E p \in Seq(Scored) : db'.scores = p \o g.scores /\ mem'.drift = Replay(p) BY <3>4
    <3> QED BY <2>2, <3>5, <3>6 DEF Half
  <2> QED BY <1>1, <2>1, <2>2, <2>3, <2>5, <2>7, <2>8, <2>9, MovingSteps
<1>5. CASE /\ gfaults' = gfaults + 1
           /\ mem' = [mem EXCEPT !.cov = Bump(@, {"bypass_entries"}), !.bypass = Cooldown]
           /\ db' \in {db, [db EXCEPT !.cov = Bump(@, {"bypass_entries"})]}
           /\ Goto(c, call[c], "release")
  <2>1. "release" \in GatewayLabels /\ "release" \in Instrumenting BY DEF GatewayLabels, Instrumenting
  <2>2. PICK g \in Frames :
          /\ call' = [call EXCEPT ![c] = g] /\ call'[c] = g /\ shared' = Noticed(c, g) /\ g.pc = "release"
          /\ g.sent = call[c].sent /\ g.late = call[c].late /\ g.lateTools = call[c].lateTools /\ g.out = call[c].out
    BY <1>1, <1>5, <2>1, Went
  <2>3. EgressAt(c)' BY <1>1, <2>1, <2>2, EgressOn
  <2> DEFINE ks == {"bypass_entries"}
  <2>4. Bump(mem.cov, ks) \in [Coverage -> Nat] /\ Bump(db.cov, ks) \in [Coverage -> Nat] BY <1>2 DEF Bump
  <2>5. Cooldown \in Int BY GatewayAssumption DEF GatewayAssumption
  <2>6. mem' = [mem EXCEPT !.cov = Bump(mem.cov, ks), !.bypass = Cooldown] /\ db' \in {db, [db EXCEPT !.cov = Bump(db.cov, ks)]}
    BY <1>5
  <2> HIDE DEF ks
  <2>7. /\ MemoryTyped(mem') /\ mem'.stride = mem.stride /\ mem'.drift = mem.drift /\ mem'.store = mem.store
        /\ mem'.cov = Bump(mem.cov, ks)
    BY <1>1, <2>4, <2>5, <2>6 DEF MemoryTyped
  <2>11. gfaults' = gfaults + 1 BY <1>5
  <2>12. gfaults' \in Nat /\ gfaults' # 0 BY <1>2, <2>11
  <2>13. db' \in {db, [db EXCEPT !.cov = Bump(db.cov, ks)]} BY <2>6
  <2>14. /\ db' \in [stride : Int, cov : [Coverage -> Nat], scores : Seq(Scored)]
         /\ db'.stride = db.stride /\ db'.scores = db.scores /\ db'.cov \in {db.cov, Bump(db.cov, ks)}
    BY <1>2, <2>4, <2>13
  <2>8. /\ db' \in [stride : Int, cov : [Coverage -> Nat], scores : Seq(Scored)]
        /\ db'.stride = db.stride /\ db'.scores = db.scores /\ db'.cov \in {db.cov, Bump(db.cov, ks)}
        /\ gfaults' \in Nat /\ gfaults' # 0
    BY <2>12, <2>14
  <2>9. Books'
    BY <1>2, <2>7, <2>8 DEF Books, Bump
  <2>10. ASSUME ~shared, mem'.store PROVE Half(c)'
    <3>1. Half(c) BY <1>1, <2>7, <2>10, HalfWay
    <3> QED BY <1>1, <2>2, <2>7, <2>8, <3>1 DEF Half
  <2> QED BY <1>1, <2>1, <2>2, <2>3, <2>7, <2>8, <2>9, <2>10, MovingSteps
<1> QED BY <1>4, <1>5 DEF CommitRequest

\* One score out of those not yet fed into those that are.
LEMMA OneFed ==
  ASSUME NEW p \in Seq(Scored), NEW s \in Seq(Scored), s # <<>>
  PROVE  /\ Head(s) \in Scored /\ Tail(s) \in Seq(Scored)
         /\ Append(p, Head(s)) \in Seq(Scored) /\ p \o s = Append(p, Head(s)) \o Tail(s)
<1>1. Head(s) \in Scored /\ Tail(s) \in Seq(Scored) /\ Len(Tail(s)) = Len(s) - 1 /\ Len(s) \in Nat /\ Len(s) > 0
      /\ s[1] = Head(s) /\ \A i \in 1..Len(Tail(s)) : Tail(s)[i] = s[i + 1]
  BY HeadTailProperties, LenProperties, EmptySeq
<1> DEFINE q == Append(p, Head(s))
<1>2. q \in Seq(Scored) /\ Len(q) = Len(p) + 1 /\ Len(p) \in Nat /\ q[Len(p) + 1] = Head(s) /\ \A i \in 1..Len(p) : q[i] = p[i]
  BY <1>1, AppendProperties, LenProperties
<1> HIDE DEF q
<1>8. /\ p \o s \in Seq(Scored) /\ Len(p \o s) = Len(p) + Len(s)
      /\ \A i \in 1..(Len(p) + Len(s)) : (p \o s)[i] = IF i <= Len(p) THEN p[i] ELSE s[i - Len(p)]
  BY ConcatProperties
<1>9. /\ q \o Tail(s) \in Seq(Scored) /\ Len(q \o Tail(s)) = Len(q) + Len(Tail(s))
      /\ \A i \in 1..(Len(q) + Len(Tail(s))) : (q \o Tail(s))[i] = IF i <= Len(q) THEN q[i] ELSE Tail(s)[i - Len(q)]
  BY <1>1, <1>2, ConcatProperties
<1> DEFINE l == p \o s
           r == q \o Tail(s)
<1>3. /\ l \in Seq(Scored) /\ Len(l) = Len(p) + Len(s)
      /\ \A i \in 1..Len(l) : l[i] = IF i <= Len(p) THEN p[i] ELSE s[i - Len(p)]
  BY <1>8
<1>4. /\ r \in Seq(Scored) /\ Len(r) = Len(q) + Len(Tail(s))
      /\ \A i \in 1..Len(r) : r[i] = IF i <= Len(q) THEN q[i] ELSE Tail(s)[i - Len(q)]
  BY <1>9
<1> HIDE DEF l, r
<1>5. Len(l) = Len(r) BY <1>1, <1>2, <1>3, <1>4
<1>6. ASSUME NEW i \in 1..Len(l) PROVE l[i] = r[i]
  <2>0. i \in Nat /\ i >= 1 /\ i <= Len(p) + Len(s) BY <1>1, <1>2, <1>3
  <2>1. CASE i <= Len(p) BY <1>1, <1>2, <1>3, <1>4, <1>5, <2>0, <2>1
  <2>2. CASE i = Len(p) + 1
    <3>1. l[i] = s[1] BY <1>2, <1>3, <2>0, <2>2
    <3>2. r[i] = q[i] BY <1>2, <1>4, <1>5, <2>0, <2>2
    <3> QED BY <1>1, <1>2, <2>2, <3>1, <3>2
  <2>3. CASE i > Len(p) + 1
    <3>1. l[i] = s[i - Len(p)] BY <1>2, <1>3, <2>0, <2>3
    <3>2. r[i] = Tail(s)[i - Len(q)] BY <1>2, <1>4, <1>5, <2>0, <2>3
    <3>3. i - Len(q) \in 1..Len(Tail(s)) BY <1>1, <1>2, <2>0, <2>3
    <3>4. Tail(s)[i - Len(q)] = s[(i - Len(q)) + 1] BY <1>1, <3>3
    <3>5. (i - Len(q)) + 1 = i - Len(p) BY <1>2, <2>0
    <3> QED BY <3>1, <3>2, <3>4, <3>5
  <2> QED BY <1>2, <2>0, <2>1, <2>2, <2>3
<1>7. l = r BY <1>3, <1>4, <1>5, <1>6, SeqEqual
<1> QED BY <1>1, <1>2, <1>7 DEF q, l, r

LEMMA FeedDriftKeeps == ASSUME GatewayInv, NEW c \in Calls, FeedDrift(c) PROVE GatewayInv'
<1>1. /\ call[c] \in Frames /\ call[c].pc = "feed" /\ call[c].pc \in Instrumenting /\ MemoryTyped(mem)
      /\ UNCHANGED <<posture, stopped>>
  BY FrameOf DEF FeedDrift, At, Instrumenting
<1>2. call[c].scores \in Seq(Scored) BY <1>1 DEF Frames
<1>3. /\ db \in [stride : Int, cov : [Coverage -> Nat], scores : Seq(Scored)] /\ gfaults \in Nat /\ Books BY StoreTyped
<1>4. CASE call[c].scores # <<>>
  <2> DEFINE f == [call[c] EXCEPT !.scores = Tail(@)]
             s == Head(call[c].scores)
  <2>1. Tail(call[c].scores) \in Seq(Scored) BY <1>2, <1>4, HeadTailProperties
  <2>2. /\ f \in Frames /\ f.late = call[c].late /\ f.sent = call[c].sent /\ f.lateTools = call[c].lateTools
        /\ f.out = call[c].out /\ f.scores = Tail(call[c].scores)
    BY <1>1, <2>1 DEF Frames
  <2>3. /\ mem' = [mem EXCEPT !.drift = DriftRecord(mem.drift, s[1], s[2], s[3])] /\ Goto(c, f, "feed")
        /\ UNCHANGED <<db, gfaults>>
    BY <1>4 DEF FeedDrift
  <2> HIDE DEF f
  <2>4. "feed" \in GatewayLabels /\ "feed" \in Instrumenting BY DEF GatewayLabels, Instrumenting
  <2>5. PICK g \in Frames :
          /\ call' = [call EXCEPT ![c] = g] /\ call'[c] = g /\ shared' = Noticed(c, g) /\ g.pc = "feed"
          /\ g.sent = f.sent /\ g.late = f.late /\ g.lateTools = f.lateTools /\ g.out = f.out /\ g = [f EXCEPT !.pc = "feed"]
    BY <2>2, <2>3, <2>4, Went
  <2>6. EgressAt(c)' BY <1>1, <2>2, <2>4, <2>5, EgressOn
  <2>7. /\ MemoryTyped(mem') /\ mem'.stride = mem.stride /\ mem'.store = mem.store /\ mem'.cov = mem.cov
        /\ mem'.drift = FedWith(mem.drift, s)
    BY <1>1, <2>3 DEF MemoryTyped, FedWith
  <2> HIDE DEF s
  <2>8. Books' BY <1>3, <2>3, <2>7 DEF Books
  <2>9. ASSUME ~shared, mem'.store PROVE Half(c)'
    <3>1. Half(c) BY <1>1, <2>7, <2>9, HalfWay
    <3>2. PICK p \in Seq(Scored) : db.scores = p \o call[c].scores /\ mem.drift = Replay(p) BY <1>1, <3>1 DEF Half
    <3>3. /\ s \in Scored /\ Append(p, s) \in Seq(Scored) /\ db.scores = Append(p, s) \o Tail(call[c].scores)
      BY <1>2, <1>4, <3>2, OneFed DEF s
    <3>4. mem'.drift = Replay(Append(p, s)) BY <2>7, <3>2, <3>3, ReplayAppend
    <3>5. g.scores = Tail(call[c].scores) BY <2>2, <2>5 DEF Frames
    <3>6. \E q \in Seq(Scored) : db'.scores = q \o g.scores /\ mem'.drift = Replay(q) BY <2>3, <3>3, <3>4, <3>5
    <3>7. mem'.stride = db'.stride + 0 BY <1>1, <2>3, <2>7, <3>1 DEF Half
    <3> QED BY <2>5, <3>6, <3>7 DEF Half
  <2>10. db' \in [stride : Int, cov : [Coverage -> Nat], scores : Seq(Scored)] /\ gfaults' \in Nat BY <1>3, <2>3
  <2> QED BY <1>1, <2>4, <2>5, <2>6, <2>7, <2>8, <2>9, <2>10, MovingSteps
<1>5. CASE call[c].scores = <<>>
  <2>1. Goto(c, call[c], "done") BY <1>5 DEF FeedDrift
  <2>2. "done" \in GatewayLabels /\ "done" \notin Instrumenting BY DEF GatewayLabels, Instrumenting
  <2>3. PICK g \in Frames :
          /\ call' = [call EXCEPT ![c] = g] /\ call'[c] = g /\ shared' = Noticed(c, g) /\ g.pc = "done"
          /\ g.sent = call[c].sent /\ g.late = call[c].late /\ g.lateTools = call[c].lateTools /\ g.out = call[c].out
    BY <1>1, <2>1, <2>2, Went
  <2>4. EgressAt(c)' BY <1>1, <2>3, EgressOn
  <2>5. /\ MemoryTyped(mem') /\ mem'.stride = mem.stride /\ mem'.drift = mem.drift /\ mem'.store = mem.store
        /\ db' \in [stride : Int, cov : [Coverage -> Nat], scores : Seq(Scored)]
        /\ db'.stride = db.stride /\ db'.scores = db.scores /\ gfaults' \in Nat /\ Books'
    <3>1. CASE UNCHANGED <<db, mem, gfaults>> BY <3>1, StoreStays
    <3>2. CASE \E ok \in BOOLEAN : EnterBypass({}, mem, ok)
      BY <3>2, BypassEntered
    <3> QED BY <1>5, <3>1, <3>2 DEF FeedDrift
  <2>6. ASSUME ~shared, mem'.store PROVE mem'.stride = db'.stride /\ mem'.drift = Replay(db'.scores)
    <3>1. Half(c) BY <1>1, <2>5, <2>6, HalfWay
    <3>2. PICK p \in Seq(Scored) : db.scores = p \o call[c].scores /\ mem.drift = Replay(p) BY <1>1, <3>1 DEF Half
    <3>3. p \o <<>> = p BY ConcatEmptySeq
    <3>4. mem.stride = db.stride + 0 BY <1>1, <3>1 DEF Half
    <3> QED BY <1>3, <1>5, <2>5, <3>2, <3>3, <3>4
  <2> QED BY <1>1, <2>2, <2>3, <2>4, <2>5, <2>6, MovingSteps
<1> QED BY <1>4, <1>5

-----------------------------------------------------------------------------
(* The force-gateway: restarts, and the whole *)

LEMMA LostFrames ==
  ASSUME NEW f \in Frames
  PROVE  LET g == Ended(f, "lost")
         IN /\ g \in Frames /\ g.pc = "lost" /\ g.sent = f.sent /\ g.late = f.late
            /\ g.lateTools = f.lateTools /\ g.out = f.out
<1> DEFINE g == Ended(f, "lost")
<1>1. NoFrame \in Frames BY NoFrameFits
<1>2. f.sent \in BOOLEAN /\ f.late \in BOOLEAN /\ f.lateTools \in BOOLEAN /\ f.out \in SUBSET Tools BY DEF Frames
<1>3. "lost" \in GatewayLabels BY DEF GatewayLabels
<1>4. g = Ended(f, "lost") OBVIOUS
<1> HIDE DEF g
<1>5. g \in Frames /\ g.pc = "lost" /\ g.sent = f.sent /\ g.late = f.late /\ g.lateTools = f.lateTools /\ g.out = f.out
  BY <1>1, <1>2, <1>3, <1>4 DEF Ended, Frames
<1> QED BY <1>5 DEF g

LEMMA GatewayRestartKeeps == ASSUME GatewayInv, NEW readable \in BOOLEAN, GatewayRestart(readable) PROVE GatewayInv'
<1>1. /\ call \in [Calls -> Frames] /\ Egress /\ shared \in BOOLEAN /\ stopped \in BOOLEAN /\ gfaults \in Nat
      /\ db \in [stride : Int, cov : [Coverage -> Nat], scores : Seq(Scored)]
      /\ UNCHANGED <<posture, db, stopped, shared>>
  BY DEF GatewayInv, GatewayTypes, GatewayRestart
<1>2. gfaults' = (IF readable THEN gfaults ELSE gfaults + 1) BY DEF GatewayRestart, StoreOutcome
<1>3. gfaults' \in Nat /\ (gfaults' = 0 => readable) BY <1>1, <1>2
<1>4. call' = [c \in Calls |-> IF call[c].pc \in {"idle", "done"} THEN call[c] ELSE Ended(call[c], "lost")]
  BY DEF GatewayRestart
<1>5. ASSUME NEW c \in Calls
      PROVE  call'[c] \in Frames /\ call'[c].pc \notin Instrumenting /\ EgressAt(c)'
  <2>1. call[c] \in Frames /\ EgressAt(c) BY FrameOf
  <2>2. CASE call[c].pc \in {"idle", "done"}
    BY <1>4, <2>2, <1>1, <2>1 DEF EgressAt, Instrumenting
  <2>3. CASE call[c].pc \notin {"idle", "done"}
    BY <1>4, <2>3, <2>1, LostFrames, <1>1 DEF EgressAt, Instrumenting
  <2> QED BY <2>2, <2>3
<1>6. call' \in [Calls -> Frames] BY <1>4, <1>5
<1>7. CASE readable
  BY <1>7, <1>1, <1>5, <1>3, <1>6 DEF GatewayRestart, FreshMemory, MemoryTyped, Books, Mirrored, GatewayInv,
    GatewayTypes, Egress, Alone
<1>8. CASE ~readable
  BY <1>8, <1>3, <1>1, <1>5, <1>6 DEF GatewayRestart, FreshMemory, MemoryTyped, Books, Mirrored, GatewayInv,
    GatewayTypes, Egress, Alone
<1> QED BY <1>7, <1>8

LEMMA GatewayIdles == ASSUME GatewayInv, UNCHANGED gatewayVars PROVE GatewayInv'
BY DEF gatewayVars, GatewayInv, GatewayTypes, MemoryTyped, Egress, EgressAt, Books, Alone, Mirrored, Half

LEMMA StopKeeps == ASSUME GatewayInv, Stop PROVE GatewayInv'
<1>1. UNCHANGED <<posture, db, mem, call, shared, gfaults>> /\ stopped' = TRUE BY DEF Stop
<1>2. GatewayTypes' BY <1>1 DEF GatewayInv, GatewayTypes, MemoryTyped
<1>3. Egress'
  BY <1>1 DEF Egress, GatewayInv, EgressAt
<1>4. Books' /\ Alone' BY <1>1 DEF GatewayInv, Books, Alone
<1>5. Mirrored' BY <1>1 DEF GatewayInv, Mirrored, Half
<1> QED BY <1>2, <1>3, <1>4, <1>5 DEF GatewayInv

LEMMA GatewayKeeps == ASSUME GatewayInv, [GatewayNext]_gatewayVars PROVE GatewayInv'
<1>1. ASSUME NEW c \in Calls, NEW s \in Shapes, Arrive(c, s) PROVE GatewayInv' BY <1>1, ArriveKeeps
<1>2. ASSUME NEW c \in Calls,
             \/ Authorize(c) \/ Route(c) \/ WindowRead(c) \/ WindowWrite(c) \/ Upstream(c)
             \/ MeterPassthrough(c) \/ ToolBlock(c) \/ Instrument(c) \/ StrideRead(c)
             \/ StrideReserve(c) \/ StrideSlot(c) \/ MaybeJudge(c) \/ CommitRequest(c)
             \/ FeedDrift(c) \/ Release(c) \/ Unreserve(c)
      PROVE  GatewayInv'
  BY <1>2, AuthorizeKeeps, RouteKeeps, WindowReadKeeps, WindowWriteKeeps, UpstreamKeeps, MeterPassthroughKeeps,
     ToolBlockKeeps, InstrumentKeeps, StrideReadKeeps, StrideReserveKeeps, StrideSlotKeeps, MaybeJudgeKeeps,
     CommitRequestKeeps, FeedDriftKeeps, ReleaseKeeps, UnreserveKeeps
<1>3. ASSUME NEW readable \in BOOLEAN, GatewayRestart(readable) PROVE GatewayInv' BY <1>3, GatewayRestartKeeps
<1>4. CASE UNCHANGED gatewayVars BY <1>4, GatewayIdles
<1>5. CASE Stop BY <1>5, StopKeeps
<1> QED BY <1>1, <1>2, <1>3, <1>4, <1>5 DEF GatewayNext

LEMMA GatewayInvSound == ASSUME GatewayInv PROVE EgressHeldClosed /\ RestartChangesNothing
<1>1. EgressHeldClosed BY DEF GatewayInv, Egress, EgressAt, EgressHeldClosed
<1>2. ASSUME AtRest, ~shared, mem.store
      PROVE  /\ mem.stride = db.stride /\ mem.drift = Replay(db.scores)
             /\ \A k \in Coverage : mem.cov[k] >= db.cov[k]
             /\ gfaults = 0 => mem.cov = db.cov
  BY <1>2 DEF AtRest, Instrumenting, GatewayInv, Mirrored, Books
<1> QED BY <1>1, <1>2 DEF RestartChangesNothing

\* With any number of requests, whichever way the store fails and however often the process is
\* killed: who was stopped gets nothing through, and a restart takes up what the process held.
THEOREM GatewayAlwaysSound == GatewaySpec => [](EgressHeldClosed /\ RestartChangesNothing)
<1>1. GatewayInit => GatewayInv BY GatewayBegins
<1>2. GatewayInv /\ [GatewayNext]_gatewayVars => GatewayInv' BY GatewayKeeps
<1>3. GatewayInv => EgressHeldClosed /\ RestartChangesNothing BY GatewayInvSound
<1> QED BY <1>1, <1>2, <1>3, PTL DEF GatewaySpec

-----------------------------------------------------------------------------
(* The composition *)

\* Where a part is studied it begins by its own initial condition and moves by its own steps;
\* elsewhere nothing is asked of it.
LEMMA WatcherParted == Spec => [](part = "watcher" => WatcherInv)
<1> DEFINE Inv == part = "watcher" => WatcherInv
<1>1. Init => Inv BY WatcherBegins DEF Init
<1>2. Inv /\ [Next]_Vars => Inv'
  BY WatcherKeeps DEF Next, Vars
<1> QED BY <1>1, <1>2, PTL DEF Spec

LEMMA HaltingParted == Spec => [](part = "halting" => HaltInv)
<1> DEFINE Inv == part = "halting" => HaltInv
<1>1. Init => Inv BY HaltBegins DEF Init
<1>2. Inv /\ [Next]_Vars => Inv'
  BY HaltKeeps DEF Next, Vars
<1> QED BY <1>1, <1>2, PTL DEF Spec

LEMMA ConsoleParted == Spec => [](part = "console" => ConsoleInv)
<1> DEFINE Inv == part = "console" => ConsoleInv
<1>1. Init => Inv BY ConsoleBegins DEF Init
<1>2. Inv /\ [Next]_Vars => Inv'
  BY ConsoleKeeps DEF Next, Vars
<1> QED BY <1>1, <1>2, PTL DEF Spec

LEMMA VerdictsParted == Spec => [](part = "verdicts" => VerdictInv)
<1> DEFINE Inv == part = "verdicts" => VerdictInv
<1>1. Init => Inv BY VerdictBegins DEF Init
<1>2. Inv /\ [Next]_Vars => Inv'
  BY VerdictsKeep DEF Next, Vars
<1> QED BY <1>1, <1>2, PTL DEF Spec

LEMMA ScoreParted == Spec => [](part = "scorecard" => ScoreInv)
<1> DEFINE Inv == part = "scorecard" => ScoreInv
<1>1. Init => Inv BY ScoreBegins DEF Init
<1>2. Inv /\ [Next]_Vars => Inv'
  BY ScoreKeeps DEF Next, Vars
<1> QED BY <1>1, <1>2, PTL DEF Spec

LEMMA GatewayParted == Spec => [](part = "gateway" => GatewayInv)
<1> DEFINE Inv == part = "gateway" => GatewayInv
<1>1. Init => Inv BY GatewayBegins DEF Init
<1>2. Inv /\ [Next]_Vars => Inv'
  BY GatewayKeeps DEF Next, Vars
<1> QED BY <1>1, <1>2, PTL DEF Spec

\* StopsSound in every behaviour of the composition: a kill gets to the gate in time, signals
\* go only where they may, and "all ok" means stopped.
THEOREM ControlStopsSound == Spec => []StopsSound
<1>1. /\ part = "watcher" => WatcherInv
      /\ part = "halting" => HaltInv
      /\ part = "console" => ConsoleInv
      => StopsSound
  BY WatcherInvReaches, HaltInvSound, ConsoleInvTrue DEF StopsSound
<1> QED BY <1>1, WatcherParted, HaltingParted, ConsoleParted, PTL

\* ChecksSound in every behaviour of the composition: each check meters and ledgers what it
\* answers, in either mode, and a scorecard is worth what it says.
THEOREM ControlChecksSound == Spec => []ChecksSound
<1>1. (part = "verdicts" => VerdictInv) /\ (part = "scorecard" => ScoreInv) => ChecksSound
  BY VerdictInvSound, ScoreInvSound DEF ChecksSound
<1> QED BY <1>1, VerdictsParted, ScoreParted, PTL

\* GatewaySound in every behaviour of the composition: what is stopped is not let through, and
\* a restart takes up what the process held.
THEOREM ControlGatewaySound == Spec => []GatewaySound
<1>1. (part = "gateway" => GatewayInv) => GatewaySound BY GatewayInvSound DEF GatewaySound
<1> QED BY <1>1, GatewayParted, PTL
=============================================================================
