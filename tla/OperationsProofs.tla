--------------------------- MODULE OperationsProofs ---------------------------
(***************************************************************************)
(* Proofs about the parts that operate the estate: alerts and the ledger's  *)
(* operator observer, the rotation and the renewal of credentials, and the  *)
(* approver.  Each part has its inductive invariant; the last section puts  *)
(* them together for the composition MCOperations.                          *)
(***************************************************************************)
EXTENDS MCOperations, FiniteSetTheorems, SequenceTheorems, WellFoundedInduction, NaturalsInduction, TLAPS

-----------------------------------------------------------------------------
(* Alerts *)

\* Where a send may be, and what its attempts may have come to.
SendPlaces ==
  [at : {"idle", "none", "topic", "render"}] \cup [at : {"token"}, topic : {"long", "short"}]
    \cup [at : {"start", "join"}, attempt : 1 .. MaxAttempts]
    \cup [at : {"done"}, ok : BOOLEAN, attempts : 0 .. MaxAttempts]
PostStates ==
  [got : BOOLEAN, said : {"nothing", "working", "abandoned", "ok", "busy", "network", "refused"}]

AlertTypes ==
  /\ send \in [Senders -> SendPlaces] /\ posts \in [Senders \X (1 .. MaxAttempts) -> PostStates]
  /\ counters \in [sent : Nat, failed : Nat, withheld : Nat] /\ topicFile \in TopicFiles

\* A 2xx is only ever heard of a server that took the alert.
HeardTaken == \A p \in DOMAIN posts : posts[p].said = "ok" => posts[p].got

AlertInv == AlertTypes /\ HeardTaken /\ AlertsAccounted

LEMMA AlertsBegin == AlertsInit => AlertInv
<1> SUFFICES ASSUME AlertsInit PROVE AlertInv OBVIOUS
<1>1. AlertTypes BY DEF AlertsInit, AlertTypes, AlertIdle, NoPost, NoCounters, SendPlaces, PostStates
<1>2. HeardTaken BY DEF AlertsInit, HeardTaken, NoPost
<1>3. AlertEnded(TRUE) = {} /\ AlertEnded(FALSE) = {} BY DEF AlertsInit, AlertEnded, Where, AlertIdle
<1> QED BY <1>1, <1>2, <1>3, FS_EmptySet DEF AlertInv, AlertsAccounted, AlertsInit, NoCounters

\* A step that ends no send and takes back no delivery keeps the books.
LEMMA NoneEnds ==
  ASSUME AlertsAccounted, NEW s \in Senders, send \in [Senders -> SendPlaces],
         NEW c \in SendPlaces, send' = [send EXCEPT ![s] = c], c.at # "done", ~Where(s, "done"),
         counters'.sent = counters.sent, counters'.failed = counters.failed,
         \A t \in Senders : Got(t) => Got(t)'
  PROVE  AlertsAccounted'
BY DEF Where, AlertEnded, AlertsAccounted

\* A send ends, and is counted by how.
LEMMA OneEnds ==
  ASSUME AlertInv, NEW s \in Senders, ~Where(s, "done"), NEW ok \in BOOLEAN, NEW n \in 0 .. MaxAttempts,
         Move(s, [at |-> "done", ok |-> ok, attempts |-> n]), ok => Got(s),
         counters' = IF ok THEN [counters EXCEPT !.sent = @ + 1] ELSE [counters EXCEPT !.failed = @ + 1],
         \A p \in DOMAIN posts : posts[p].got => posts'[p].got
  PROVE  AlertsAccounted'
<1>0. send \in [Senders -> SendPlaces] /\ counters \in [sent : Nat, failed : Nat, withheld : Nat]
      /\ DOMAIN posts = Senders \X (1 .. MaxAttempts)
  BY DEF AlertInv, AlertTypes
<1>1. /\ AlertEnded(ok)' = AlertEnded(ok) \cup {s} /\ s \notin AlertEnded(ok)
      /\ AlertEnded(~ok)' = AlertEnded(~ok)
  BY <1>0 DEF AlertEnded, Where, Move
<1>2. \A x \in BOOLEAN : IsFiniteSet(AlertEnded(x)) BY AlertsAssumption, FS_Subset DEF AlertEnded, AlertsAssumption
<1>3. Cardinality(AlertEnded(ok)') = Cardinality(AlertEnded(ok)) + 1 BY <1>1, <1>2, FS_AddElement
<1>4. counters'.sent = Cardinality(AlertEnded(TRUE)') /\ counters'.failed = Cardinality(AlertEnded(FALSE)')
  <2>1. CASE ok = TRUE
    BY <2>1, <1>0, <1>3, <1>1 DEF AlertInv, AlertsAccounted
  <2>2. CASE ok = FALSE
    BY <2>2, <1>0, <1>3, <1>1 DEF AlertInv, AlertsAccounted
  <2> QED BY <2>1, <2>2
<1>5. \A t \in Senders : Got(t) => Got(t)' BY <1>0 DEF Got
<1>6. \A t \in AlertEnded(TRUE)' : Got(t)'
  <2>1. AlertEnded(TRUE)' \subseteq AlertEnded(TRUE) \cup (IF ok THEN {s} ELSE {})
    BY <1>1
  <2>2. \A t \in AlertEnded(TRUE) : Got(t) /\ t \in Senders BY DEF AlertInv, AlertsAccounted, AlertEnded
  <2> QED BY <2>1, <2>2, <1>5
<1> QED BY <1>4, <1>6 DEF AlertsAccounted

LEMMA AlertsKeep == AlertInv /\ [AlertsNext]_alertVars => AlertInv'
<1> SUFFICES ASSUME AlertInv, [AlertsNext]_alertVars PROVE AlertInv' OBVIOUS
<1>0. /\ send \in [Senders -> SendPlaces] /\ posts \in [Senders \X (1 .. MaxAttempts) -> PostStates]
      /\ DOMAIN posts = Senders \X (1 .. MaxAttempts) /\ topicFile \in TopicFiles
      /\ counters \in [sent : Nat, failed : Nat, withheld : Nat] /\ MaxAttempts \in Nat \ {0}
  BY AlertsAssumption DEF AlertInv, AlertTypes, AlertsAssumption
<1>t. topicFile' \in TopicFiles
  <2>1. \A s \in Senders : SendStep(s) => Quiet
    BY DEF SendStep, AlertForEvent, ReadTopic, ReadToken, AlertRender, StartAttempt, Joins, GivesUp
  <2>2. \A p \in DOMAIN posts : Accepts(p) \/ Answered(p) => Quiet BY DEF Accepts, Answered
  <2> QED BY <1>0, <2>1, <2>2 DEF AlertsNext, alertVars, FilesChange, Quiet
<1>1. CASE UNCHANGED alertVars
  BY <1>1 DEF alertVars, AlertInv, AlertTypes, HeardTaken, AlertsAccounted, AlertEnded, Got, Where
<1>2. CASE FilesChange
  BY <1>2 DEF FilesChange, AlertInv, AlertTypes, HeardTaken, AlertsAccounted, AlertEnded, Got, Where
<1>3. ASSUME NEW s \in Senders, SendStep(s) PROVE AlertInv'
  <2>1. CASE \/ AlertForEvent(s)
             \/ ReadTopic(s) /\ topicFile \notin {"unset", "broken"}
             \/ ReadToken(s) /\ ~(tokenFile = "broken" \/ (tokenFile = "unset" /\ send[s].topic = "short"))
             \/ AlertRender(s)
    <3>1. PICK c \in SendPlaces : Move(s, c) /\ c.at # "done"
      <4>1. \A e : [at |-> IF e \in DOMAIN EventClass THEN "topic" ELSE "none"] \in SendPlaces BY DEF SendPlaces
      <4>2. CASE AlertForEvent(s) BY <4>1, <4>2 DEF AlertForEvent
      <4>3. topicFile \in {"long", "short"} => [at |-> "token", topic |-> topicFile] \in SendPlaces BY DEF SendPlaces
      <4>4. CASE ReadTopic(s) /\ topicFile \notin {"unset", "broken"}
        BY <4>3, <4>4, <1>0 DEF ReadTopic, AlertInv, AlertTypes, TopicFiles
      <4>5. [at |-> "render"] \in SendPlaces /\ [at |-> "start", attempt |-> 1] \in SendPlaces BY <1>0 DEF SendPlaces
      <4> QED BY <2>1, <4>2, <4>4, <4>5 DEF ReadToken, AlertRender
    <3>2. ~Where(s, "done") BY <2>1 DEF AlertForEvent, ReadTopic, ReadToken, AlertRender, Where
    <3>3. posts' = posts BY <2>1 DEF AlertForEvent, ReadTopic, ReadToken, AlertRender
    <3>4. counters' \in [sent : Nat, failed : Nat, withheld : Nat] /\ counters'.sent = counters.sent
          /\ counters'.failed = counters.failed
      BY <2>1, <1>0 DEF AlertForEvent, ReadTopic, ReadToken, AlertRender, WithheldFields
    <3>5. AlertTypes' BY <1>t, <1>0, <3>1, <3>3, <3>4 DEF AlertTypes, Move
    <3>6. AlertsAccounted' BY <1>0, <3>1, <3>2, <3>3, <3>4, NoneEnds DEF AlertInv, Move, Got
    <3> QED BY <3>3, <3>5, <3>6 DEF AlertInv, HeardTaken
  <2>2. CASE StartAttempt(s)
    <3>1. send[s].attempt \in 1 .. MaxAttempts BY <2>2, <1>0 DEF StartAttempt, Where, SendPlaces
    <3>2. AlertTypes'
      BY <2>2, <1>0, <1>t, <3>1 DEF StartAttempt, AlertTypes, Move, SendPlaces, PostStates
    <3>3. HeardTaken' BY <2>2, <1>0, <3>1 DEF StartAttempt, AlertInv, HeardTaken, PostStates
    <3>4. \A p \in DOMAIN posts : posts'[p].got = posts[p].got BY <2>2, <1>0, <3>1 DEF StartAttempt, PostStates
    <3>5. AlertsAccounted'
      <4> DEFINE c == [at |-> "join", attempt |-> send[s].attempt]
      <4>1. c \in SendPlaces /\ c.at # "done" /\ send' = [send EXCEPT ![s] = c] /\ ~Where(s, "done")
            /\ counters' = counters
        BY <2>2, <3>1 DEF StartAttempt, Move, SendPlaces, Where
      <4>2. \A t \in Senders : Got(t) => Got(t)' BY <1>0, <3>4 DEF Got
      <4> QED BY <4>1, <4>2, <1>0, NoneEnds DEF AlertInv
    <3> QED BY <3>2, <3>3, <3>5 DEF AlertInv
  <2>3. ASSUME NEW n \in 0 .. MaxAttempts, SendFails(s, n), ~Where(s, "done"),
               posts' \in [Senders \X (1 .. MaxAttempts) -> PostStates], HeardTaken',
               \A p \in DOMAIN posts : posts[p].got => posts'[p].got
        PROVE  AlertInv'
    <3>1. AlertTypes' BY <1>t, <1>0, <2>3 DEF SendFails, AlertTypes, Move, SendPlaces
    <3>2. AlertsAccounted'
      BY <2>3, OneEnds DEF SendFails
    <3> QED BY <2>3, <3>1, <3>2 DEF AlertInv
  <2>4. CASE \/ ReadTopic(s) /\ topicFile \in {"unset", "broken"}
             \/ ReadToken(s) /\ (tokenFile = "broken" \/ (tokenFile = "unset" /\ send[s].topic = "short"))
    <3>1. SendFails(s, 0) /\ posts' = posts /\ ~Where(s, "done") BY <2>4 DEF ReadTopic, ReadToken, Where
    <3>2. HeardTaken' BY <3>1 DEF AlertInv, HeardTaken
    <3> QED BY <1>0, <2>3, <3>1, <3>2
  <2>5. ASSUME NEW said, AfterAttempt(s, said), Where(s, "join"),
               posts' \in [Senders \X (1 .. MaxAttempts) -> PostStates], HeardTaken',
               \A p \in DOMAIN posts : posts[p].got => posts'[p].got,
               said = "ok" => posts[<<s, send[s].attempt>>].got
        PROVE  AlertInv'
    <3>1. send[s].attempt \in 1 .. MaxAttempts /\ ~Where(s, "done") BY <2>5, <1>0 DEF Where, SendPlaces
    <3>2. CASE said = "ok"
      <4>1. Got(s) BY <2>5, <3>1, <3>2 DEF Got
      <4>2. /\ counters' = [counters EXCEPT !.sent = @ + 1]
            /\ Move(s, [at |-> "done", ok |-> TRUE, attempts |-> send[s].attempt])
        BY <2>5, <3>2 DEF AfterAttempt
      <4>3. AlertsAccounted'
        <5>1. send[s].attempt \in 0 .. MaxAttempts BY <3>1, <1>0
        <5>2. counters' = IF TRUE THEN [counters EXCEPT !.sent = @ + 1] ELSE [counters EXCEPT !.failed = @ + 1]
          BY <4>2
        <5> QED BY <2>5, <3>1, <4>1, <4>2, <5>1, <5>2, OneEnds
      <4>4. AlertTypes' BY <1>t, <1>0, <2>5, <3>1, <4>2 DEF AlertTypes, Move, SendPlaces
      <4> QED BY <2>5, <4>3, <4>4 DEF AlertInv
    <3>3. CASE said # "ok" /\ said \in Retryable /\ send[s].attempt < MaxAttempts
      <4> DEFINE c == [at |-> "start", attempt |-> send[s].attempt + 1]
      <4>1. c \in SendPlaces /\ c.at # "done" /\ send' = [send EXCEPT ![s] = c] /\ counters' = counters
        BY <2>5, <1>0, <3>1, <3>3 DEF AfterAttempt, Move, SendPlaces
      <4>2. \A t \in Senders : Got(t) => Got(t)' BY <1>0, <2>5 DEF Got
      <4>3. AlertsAccounted' BY <4>1, <4>2, <1>0, <3>1, NoneEnds DEF AlertInv
      <4>4. AlertTypes' BY <1>t, <1>0, <2>5, <4>1 DEF AlertTypes
      <4> QED BY <2>5, <4>3, <4>4 DEF AlertInv
    <3>4. CASE said # "ok" /\ ~(said \in Retryable /\ send[s].attempt < MaxAttempts)
      BY <2>5, <2>3, <3>1, <3>4, <1>0 DEF AfterAttempt
    <3> QED BY <3>2, <3>3, <3>4
  <2>6. CASE Joins(s)
    BY <2>6, <1>0, <2>5 DEF Joins, AlertInv, HeardTaken, Where, SendPlaces
  <2>7. CASE GivesUp(s)
    <3>1. send[s].attempt \in 1 .. MaxAttempts BY <2>7, <1>0 DEF GivesUp, Where, SendPlaces
    <3>2. /\ posts' \in [Senders \X (1 .. MaxAttempts) -> PostStates]
          /\ \A p \in DOMAIN posts : posts[p].got => posts'[p].got
      BY <2>7, <3>1, <1>0 DEF GivesUp, PostStates
    <3>3. HeardTaken' BY <2>7, <3>1, <1>0 DEF GivesUp, AlertInv, HeardTaken, PostStates
    <3> QED BY <2>5, <2>7, <3>2, <3>3 DEF GivesUp
  <2> QED BY <1>3, <2>1, <2>2, <2>4, <2>6, <2>7 DEF SendStep
<1>4. ASSUME NEW p \in DOMAIN posts, Accepts(p) \/ Answered(p) PROVE AlertInv'
  <2>1. send' = send /\ counters' = counters BY <1>4 DEF Accepts, Answered
  <2>2. posts' \in [Senders \X (1 .. MaxAttempts) -> PostStates] 
    <3>1. PICK q \in PostStates : posts' = [posts EXCEPT ![p] = q]
      BY <1>0, <1>4 DEF Accepts, Answered, PostStates
    <3> QED BY <1>0, <3>1
  <2>3. \A q \in DOMAIN posts : posts[q].got => posts'[q].got BY <1>0, <1>4 DEF Accepts, Answered, PostStates
  <2>4. HeardTaken' BY <1>0, <1>4 DEF Accepts, Answered, PostStates, AlertInv, HeardTaken
  <2>5. \A t \in Senders : Got(t) => Got(t)' BY <1>0, <2>3 DEF Got
  <2> QED BY <2>1, <2>2, <2>4, <2>5, <1>0, <1>t DEF AlertInv, AlertTypes, AlertsAccounted, AlertEnded, Where
<1> QED BY <1>1, <1>2, <1>3, <1>4 DEF AlertsNext

\* However attempts, their late answers and changes of the files interleave, with any number
\* of senders and attempts: a send is counted once, and none counts as sent that the server
\* never took (AlertsAccounted).
THEOREM AlertsAlwaysAccounted == AlertsSpec => []AlertsAccounted
<1>1. AlertInv => AlertsAccounted BY DEF AlertInv
<1> QED BY <1>1, AlertsBegin, AlertsKeep, PTL DEF AlertsSpec

-----------------------------------------------------------------------------
(* The operator observer *)

ObserverValues == ObserverModes \cup Files \cup {f.sha : f \in Files} \cup Nat
Facts == {Unseen} \cup {Saw(v) : v \in ObserverValues}
ObserverTypes ==
  /\ health \in [Watched -> [mode : ObserverModes, file : Files, glass : Nat, retired : Nat]]
  /\ known \in [Kinds -> [Watched -> Facts]] /\ ledgered \in [Kinds -> [Watched -> Facts]]
  /\ \A s \in Watched, k \in Counters : known[k][s].seen => known[k][s].value \in Nat

ObserverInv == ObserverTypes /\ MemoryIsLedgered

LEMMA ObserverBegins == ObserverInit => ObserverInv
BY DEF Nothing, Facts, Unseen, Kinds, Counters, ObserverInit, ObserverInv, ObserverTypes, MemoryIsLedgered

LEMMA ReadingTypes ==
  ASSUME ObserverInv, NEW s \in Watched
  PROVE  Reading(s) \in [Kinds -> ObserverValues] /\ \A k \in Counters : Reading(s)[k] \in Nat
BY ObserverAssumption DEF ObserverInv, ObserverTypes, ObserverAssumption, ObserverValues, Reading, Kinds, Counters,
  HealthBlock, SlotWitness

\* One kind's memory and last rows after a value of a service was recorded, if it was due.
Noted(k, s, v) == [known[k] EXCEPT ![s] = Saw(v)]
Rowed(k, s, v) == IF Due(k, s, v) THEN [ledgered[k] EXCEPT ![s] = Saw(v)] ELSE ledgered[k]

\* What a look at one service leaves in memory and in the ledger, kind by kind.
LEMMA ObserveFacts ==
  ASSUME ObserverInv, NEW s \in Watched, NEW upto \in 0 .. Len(Order), NEW failed
  PROVE  \A k \in Kinds :
           /\ \/ /\ k \notin Own
                 /\ Remembered(s, Reading(s), upto, failed)[k] = Noted(k, s, Reading(s)[k])
                 /\ ObserverRows(s, Reading(s), upto)[k] = Rowed(k, s, Reading(s)[k])
              \/ /\ Remembered(s, Reading(s), upto, failed)[k] = known[k]
                 /\ ObserverRows(s, Reading(s), upto)[k] = ledgered[k]
BY DEF Order, Own, Remembered, ObserverRows, Noted, Rowed

\* A fact that is recorded for one kind and service if it is due keeps memory and ledger alike.
LEMMA RecordKeeps ==
  ASSUME ObserverInv, NEW s \in Watched, NEW k \in Kinds, NEW v \in ObserverValues, k \in Counters => v \in Nat,
         NEW m, NEW l, m = Noted(k, s, v), l = Rowed(k, s, v)
  PROVE  /\ m \in [Watched -> Facts] /\ l \in [Watched -> Facts]
         /\ k \in {"mode", "registry", "slots"} => \A t \in Watched : m[t].seen => m[t] = l[t]
         /\ k \in Counters => \A t \in Watched : m[t].seen => m[t].value \in Nat /\ (m[t].value > 0 => m[t] = l[t])
<1>0. m = [known[k] EXCEPT ![s] = Saw(v)] /\ l = IF Due(k, s, v) THEN [ledgered[k] EXCEPT ![s] = Saw(v)] ELSE ledgered[k]
  BY DEF Noted, Rowed
<1>1. known[k] \in [Watched -> Facts] /\ ledgered[k] \in [Watched -> Facts] /\ Saw(v) \in Facts
      /\ Saw(v).seen /\ Saw(v).value = v
  BY DEF ObserverInv, ObserverTypes, Facts, Saw
<1>2. m \in [Watched -> Facts] /\ l \in [Watched -> Facts] BY <1>0, <1>1
<1>3. ASSUME k \in {"mode", "registry", "slots"}, NEW t \in Watched, m[t].seen PROVE m[t] = l[t]
  <2>1. known[k][t].seen => known[k][t] = ledgered[k][t] BY <1>3 DEF ObserverInv, MemoryIsLedgered
  <2>2. Due(k, s, v) <=> known[k][s] # Saw(v) BY <1>3 DEF Due, Counters
  <2> QED BY <1>0, <1>1, <1>3, <2>1, <2>2
<1>4. ASSUME k \in Counters, NEW t \in Watched, m[t].seen PROVE m[t].value \in Nat /\ (m[t].value > 0 => m[t] = l[t])
  <2>1. /\ known[k][t].seen => known[k][t].value \in Nat
        /\ known[k][t].seen /\ known[k][t].value > 0 => known[k][t] = ledgered[k][t]
    BY <1>4 DEF ObserverInv, ObserverTypes, MemoryIsLedgered
  <2>2. Due(k, s, v) <=> IF known[k][s].seen THEN known[k][s].value # v ELSE v > 0 BY <1>4 DEF Due, Counters
  <2>3. known[k][s].seen /\ known[k][s].value = v => known[k][s] = Saw(v)
    <3>1. known[k][s] \in Facts BY <1>1
    <3>2. Unseen.seen = FALSE BY DEF Unseen
    <3>3. \A x : Saw(x).value = x BY DEF Saw
    <3> QED BY <3>1, <3>2, <3>3 DEF Facts
  <2> QED BY <1>0, <1>1, <1>4, <2>1, <2>2, <2>3
<1> QED BY <1>2, <1>3, <1>4

LEMMA ObserverKeeps == ObserverInv /\ [ObserverNext]_observerVars => ObserverInv'
<1> SUFFICES ASSUME ObserverInv, [ObserverNext]_observerVars PROVE ObserverInv' OBVIOUS
<1>0. /\ known \in [Kinds -> [Watched -> Facts]] /\ ledgered \in [Kinds -> [Watched -> Facts]]
      /\ health \in [Watched -> [mode : ObserverModes, file : Files, glass : Nat, retired : Nat]]
      /\ {"mode", "registry", "slots"} \cup Counters \subseteq Kinds
  BY DEF ObserverInv, ObserverTypes, Kinds, Counters
<1>1. ASSUME UNCHANGED <<known, ledgered>>, health' \in [Watched -> [mode : ObserverModes, file : Files, glass : Nat, retired : Nat]]
      PROVE ObserverInv'
  BY <1>1 DEF ObserverInv, ObserverTypes, MemoryIsLedgered
<1>2. CASE UNCHANGED observerVars BY <1>0, <1>1, <1>2 DEF observerVars
<1>3. CASE StartTick \/ EndTick BY <1>0, <1>1, <1>3 DEF StartTick, EndTick
<1>4. ASSUME NEW s \in Watched, NEW n \in 0 .. Len(Order), Observe(s, n) PROVE ObserverInv'
  <2>1. PICK failed : known' = Remembered(s, Reading(s), n, failed) /\ ledgered' = ObserverRows(s, Reading(s), n)
          /\ health' = health
    BY <1>4 DEF Observe
  <2>2. \A k \in Kinds :
          \/ known'[k] = Noted(k, s, Reading(s)[k]) /\ ledgered'[k] = Rowed(k, s, Reading(s)[k])
          \/ known'[k] = known[k] /\ ledgered'[k] = ledgered[k]
    BY <2>1, ObserveFacts
  <2>3. \A k \in Kinds :
          /\ known'[k] \in [Watched -> Facts] /\ ledgered'[k] \in [Watched -> Facts]
          /\ k \in {"mode", "registry", "slots"} => \A t \in Watched : known'[k][t].seen => known'[k][t] = ledgered'[k][t]
          /\ k \in Counters => \A t \in Watched : known'[k][t].seen =>
                              known'[k][t].value \in Nat /\ (known'[k][t].value > 0 => known'[k][t] = ledgered'[k][t])
    <3> TAKE k \in Kinds
    <3>1. CASE known'[k] = known[k] /\ ledgered'[k] = ledgered[k]
      BY <3>1, <1>0 DEF ObserverInv, ObserverTypes, MemoryIsLedgered
    <3>2. Reading(s)[k] \in ObserverValues /\ (k \in Counters => Reading(s)[k] \in Nat) BY ReadingTypes
    <3>3. CASE known'[k] = Noted(k, s, Reading(s)[k]) /\ ledgered'[k] = Rowed(k, s, Reading(s)[k])
      BY <3>2, <3>3, RecordKeeps
    <3> QED BY <3>1, <3>3, <2>2
  <2>4. known' = [k \in Kinds |-> known'[k]] /\ ledgered' = [k \in Kinds |-> ledgered'[k]]
    BY <2>1 DEF Remembered, ObserverRows
  <2>5. known' \in [Kinds -> [Watched -> Facts]] /\ ledgered' \in [Kinds -> [Watched -> Facts]] BY <2>3, <2>4
  <2> QED BY <1>0, <2>1, <2>3, <2>5 DEF ObserverInv, ObserverTypes, MemoryIsLedgered
<1>5. ASSUME NEW s \in Watched, SkipSilent(s) \/ SendAlert(s) PROVE ObserverInv'
  BY <1>0, <1>1, <1>5 DEF SkipSilent, SendAlert
<1>6. ASSUME NEW ok \in BOOLEAN, ObserveSlots(ok) PROVE ObserverInv'
  <2> DEFINE v == Reading(Self)["slots"]
  <2>1. Self \in Watched /\ "slots" \in Kinds /\ "slots" \notin Counters
    BY ObserverAssumption DEF ObserverAssumption, Kinds, Counters
  <2>2. v \in ObserverValues /\ health' = health BY <2>1, <1>6, ReadingTypes DEF ObserveSlots
  <2>3. CASE known' = known /\ ledgered' = ledgered BY <2>2, <2>3, <1>0, <1>1
  <2>4. CASE /\ Due("slots", Self, v)
             /\ known' = [known EXCEPT !["slots"][Self] = Saw(v)]
             /\ ledgered' = [ledgered EXCEPT !["slots"][Self] = Saw(v)]
    <3> DEFINE m == [known["slots"] EXCEPT ![Self] = Saw(v)]
               l == [ledgered["slots"] EXCEPT ![Self] = Saw(v)]
    <3>1. known' = [known EXCEPT !["slots"] = m] /\ ledgered' = [ledgered EXCEPT !["slots"] = l] BY <2>4
    <3>2. m = Noted("slots", Self, v) /\ l = Rowed("slots", Self, v) BY <2>4 DEF Noted, Rowed
    <3>3. m \in [Watched -> Facts] /\ l \in [Watched -> Facts] /\ \A t \in Watched : m[t].seen => m[t] = l[t]
      <4> HIDE DEF m, l, v
      <4> QED BY <2>1, <2>2, <3>2, RecordKeeps
    <3>4. known'["slots"] = m /\ ledgered'["slots"] = l BY <3>1, <1>0, <2>1
    <3>5. \A k \in Kinds \ {"slots"} : known'[k] = known[k] /\ ledgered'[k] = ledgered[k] BY <3>1, <1>0
    <3>6. known' \in [Kinds -> [Watched -> Facts]] /\ ledgered' \in [Kinds -> [Watched -> Facts]]
      BY <3>1, <3>3, <1>0
    <3> HIDE DEF m, l, v
    <3>7. ObserverTypes'
      <4>1. \A k \in Counters : known'[k] = known[k] BY <3>5, <1>0, <2>1
      <4> QED BY <4>1, <1>0, <2>2, <3>6 DEF ObserverInv, ObserverTypes
    <3>8. \A s \in Watched, k \in {"mode", "registry", "slots"} : known'[k][s].seen => known'[k][s] = ledgered'[k][s]
      <4> TAKE s \in Watched, k \in {"mode", "registry", "slots"}
      <4>1. CASE k = "slots" BY <4>1, <3>3, <3>4
      <4>2. CASE k # "slots"
        BY <4>2, <3>5, <1>0 DEF ObserverInv, MemoryIsLedgered
      <4> QED BY <4>1, <4>2
    <3>9. \A k \in Counters : known'[k] = known[k] /\ ledgered'[k] = ledgered[k] BY <3>5, <1>0, <2>1
    <3> QED BY <3>7, <3>8, <3>9 DEF ObserverInv, MemoryIsLedgered
  <2> QED BY <1>6, <2>3, <2>4 DEF ObserveSlots
<1>own. ASSUME NEW ok \in BOOLEAN, ObserveRetired(ok) PROVE ObserverInv'
  <2> DEFINE v == Reading(Self)["retired"]
  <2>1. Self \in Watched /\ "retired" \in Kinds /\ "retired" \in Counters
    BY ObserverAssumption DEF ObserverAssumption, Kinds, Counters
  <2>2. v \in ObserverValues /\ v \in Nat /\ health' = health BY <2>1, <1>own, ReadingTypes DEF ObserveRetired
  <2>3. CASE known' = known /\ ledgered' = ledgered BY <2>2, <2>3, <1>0, <1>1
  <2>4. CASE /\ known' = [known EXCEPT !["retired"][Self] = Saw(v)]
             /\ ledgered' = IF Due("retired", Self, v) THEN [ledgered EXCEPT !["retired"][Self] = Saw(v)]
                            ELSE ledgered
    <3> DEFINE m == [known["retired"] EXCEPT ![Self] = Saw(v)]
               l == IF Due("retired", Self, v) THEN [ledgered["retired"] EXCEPT ![Self] = Saw(v)]
                    ELSE ledgered["retired"]
    <3>1. known' = [known EXCEPT !["retired"] = m] /\ ledgered' = [ledgered EXCEPT !["retired"] = l]
      BY <2>4, <1>0, <2>1
    <3>2. m = Noted("retired", Self, v) /\ l = Rowed("retired", Self, v) BY <2>4 DEF Noted, Rowed
    <3>3. /\ m \in [Watched -> Facts] /\ l \in [Watched -> Facts]
          /\ \A t \in Watched : m[t].seen => m[t].value \in Nat /\ (m[t].value > 0 => m[t] = l[t])
      <4> HIDE DEF m, l, v
      <4> QED BY <2>1, <2>2, <3>2, RecordKeeps
    <3>4. known'["retired"] = m /\ ledgered'["retired"] = l BY <3>1, <1>0, <2>1
    <3>5. \A k \in Kinds \ {"retired"} : known'[k] = known[k] /\ ledgered'[k] = ledgered[k] BY <3>1, <1>0
    <3>6. known' \in [Kinds -> [Watched -> Facts]] /\ ledgered' \in [Kinds -> [Watched -> Facts]]
      BY <3>1, <3>3, <1>0
    <3> HIDE DEF m, l, v
    <3>7. \A s \in Watched, k \in Counters :
            known'[k][s].seen => known'[k][s].value \in Nat /\ (known'[k][s].value > 0 => known'[k][s] = ledgered'[k][s])
      <4> TAKE s \in Watched, k \in Counters
      <4>1. CASE k = "retired" BY <4>1, <3>3, <3>4
      <4>2. CASE k # "retired" BY <4>2, <3>5, <1>0 DEF ObserverInv, ObserverTypes, MemoryIsLedgered
      <4> QED BY <4>1, <4>2
    <3>8. \A k \in {"mode", "registry", "slots"} : known'[k] = known[k] /\ ledgered'[k] = ledgered[k] BY <3>5, <1>0
    <3> QED BY <2>2, <3>6, <3>7, <3>8, <1>0 DEF ObserverInv, ObserverTypes, MemoryIsLedgered
  <2> QED BY <1>own, <2>3, <2>4 DEF ObserveRetired
<1>7. CASE LedgerRestart
  <2>1. \A k \in Kinds, s \in Watched : known'[k][s] = Unseen /\ ~known'[k][s].seen
    BY <1>7 DEF LedgerRestart, Nothing, Unseen
  <2>2. /\ known' \in [Kinds -> [Watched -> Facts]] /\ ledgered' = ledgered
        /\ health' \in [Watched -> [mode : ObserverModes, file : Files, glass : Nat, retired : Nat]]
    BY <1>7, <1>0 DEF LedgerRestart, Nothing, Facts
  <2> QED BY <2>1, <2>2, <1>0 DEF ObserverInv, ObserverTypes, MemoryIsLedgered
<1>8. ASSUME NEW s \in Watched, ObserverChange(s) \/ ServiceRestart(s) \/ ServiceBack(s) PROVE ObserverInv'
  <2>1. UNCHANGED <<known, ledgered>> BY <1>8 DEF ObserverChange, ServiceRestart, ServiceBack
  <2>2. health' \in [Watched -> [mode : ObserverModes, file : Files, glass : Nat, retired : Nat]]
    <3>1. health[s] \in [mode : ObserverModes, file : Files, glass : Nat, retired : Nat] BY <1>0
    <3>2. CASE ObserverChange(s)
      <4> DEFINE Blocks == [mode : ObserverModes, file : Files, glass : Nat, retired : Nat]
      <4>1. ASSUME NEW h \in Blocks, health' = [health EXCEPT ![s] = h] PROVE health' \in [Watched -> Blocks]
        BY <1>0, <4>1
      <4>2. /\ \A m \in ObserverModes : [health[s] EXCEPT !.mode = m] \in Blocks
            /\ \A f \in Files : [health[s] EXCEPT !.file = f] \in Blocks
            /\ [health[s] EXCEPT !.glass = @ + 1] \in Blocks /\ [health[s] EXCEPT !.retired = @ + 1] \in Blocks
        BY <3>1
      <4>3. \/ \E m \in ObserverModes : health' = [health EXCEPT ![s] = [health[s] EXCEPT !.mode = m]]
            \/ \E f \in Files : health' = [health EXCEPT ![s] = [health[s] EXCEPT !.file = f]]
            \/ health' = [health EXCEPT ![s] = [health[s] EXCEPT !.glass = @ + 1]]
            \/ health' = [health EXCEPT ![s] = [health[s] EXCEPT !.retired = @ + 1]]
        BY <3>2 DEF ObserverChange
      <4> HIDE DEF Blocks
      <4>4. health' \in [Watched -> Blocks] BY <4>1, <4>2, <4>3
      <4> QED BY <4>4 DEF Blocks
    <3>3. CASE ServiceRestart(s)
      BY <3>1, <3>3, <1>0 DEF ServiceRestart
    <3>4. CASE ServiceBack(s) BY <3>4, <1>0 DEF ServiceBack
    <3> QED BY <1>8, <3>2, <3>3, <3>4
  <2> QED BY <2>1, <2>2, <1>1
<1> QED BY <1>2, <1>3, <1>4, <1>5, <1>6, <1>own, <1>7, <1>8 DEF ObserverNext, ObserverTick

\* No failed append, restart or skipped service lets the observer's memory and the ledger's
\* last rows part, for any services, files and counts (MemoryIsLedgered).
THEOREM MemoryAlwaysLedgered == ObserverSpec => []MemoryIsLedgered
<1>1. ObserverInv => MemoryIsLedgered BY DEF ObserverInv
<1> QED BY <1>1, ObserverBegins, ObserverKeeps, PTL DEF ObserverSpec

-----------------------------------------------------------------------------
(* The rotation of credentials *)

CredRows ==
  [state : {"none", "active", "revoked", "expired"}, by : {"nobody", "agent", "human"},
   label : {"none", "stamp"}, run : Nat]
RunsPending == {"planned", "minted", "installed", "verified", "old_revoked"}
RotationPcs ==
  {"plan", "sweep", "mint", "stage", "readback", "drop", "rollback_row", "clean", "install", "put", "mark", "verify",
   "states", "restore", "retire", "retired", "finish"}
Attempts ==
  [pc : RotationPcs, old : Creds, new : Creds \cup {None}, scope : RotationScopes, resuming : BOOLEAN,
   todo : SUBSET Creds, problem : BOOLEAN, goal : {"mint", "roll"}, ends : {"rolled_back", "halted"},
   run : Nat, listed : BOOLEAN]

RotationTypes ==
  /\ cred \in [Creds -> CredRows] /\ installed \in Creds
  /\ journal \in [state : RunsPending \cup {"none", "done", "rolled_back", "halted"}, run : Nat, old : Creds \cup {None},
                  new : Creds \cup {None}, snapshot : SUBSET Creds, leaves : BOOLEAN, cleared : BOOLEAN,
                  orphans : SUBSET Creds]
  /\ stage \in [new : Creds \cup {None}, old : Creds \cup {None}]
  /\ rot \in {Idle} \cup Attempts

\* What a credential carries: a run's mark only if that run is on the journal, and the
\* agent's revocation for good.
Marked ==
  \A c \in Creds : /\ cred[c].run <= journal.run
                   /\ cred[c].by = "agent" => cred[c].state = "revoked"
                   /\ cred[c].state = "none" => cred[c] = Unminted /\ c \notin journal.snapshot

\* The consumer's credential, those of the run and those staged: minted, and the agent's
\* to revoke (the first one, or one a run minted).
Ours(c) == cred[c].state # "none" /\ (c = 1 \/ cred[c].run # None)
Known ==
  /\ Ours(installed)
  /\ \A c \in {journal.old, journal.new, stage.new, stage.old} \ {None} : Ours(c)
  /\ rot # Idle => \A c \in {rot.old, rot.new} \ {None} : Ours(c)

\* Where an attempt is, the journal says how far the run has come.
StatesAt(pc) ==
  CASE pc = "plan" -> {"none", "done", "rolled_back", "halted"}
    [] pc \in {"sweep", "mint", "stage", "readback"} -> {"planned"}
    [] pc \in {"install", "put", "mark"} -> {"minted"}
    [] pc \in {"verify", "states"} -> {"installed"}
    [] pc = "restore" -> {"minted", "installed"}
    [] pc \in {"drop", "rollback_row"} -> {"planned", "minted", "installed"}
    [] pc \in {"retire", "retired"} -> {"verified"}
    [] pc = "finish" -> {"old_revoked"}
    [] pc = "clean" -> {"done", "rolled_back"}
InStep ==
  rot # Idle =>
    /\ journal.state \in StatesAt(rot.pc)
    /\ rot.pc = "plan" => rot.run = journal.run + 1 /\ rot.old = installed /\ cred[rot.old].by # "agent" /\ stage.old = None
    /\ rot.pc # "plan" => rot.run = journal.run /\ rot.old = journal.old
    /\ rot.pc \in {"stage", "readback", "drop"} => rot.new # None
    /\ rot.pc \in {"readback", "install", "put", "mark", "verify", "states"} => stage.new = rot.new
    /\ rot.pc \in {"install", "put", "mark", "verify", "states", "restore", "retire", "retired", "finish"} => rot.new = journal.new

\* What a pending run has on disk and at the consumer.
OnDisk ==
  /\ journal.state \in RunsPending \cup {"done", "rolled_back"} => journal.old # None /\ journal.run > 0
  /\ journal.state \in {"planned", "minted", "installed"} => cred[journal.old].by # "agent"
  /\ journal.state \in RunsPending => stage.old \in {None, journal.old}
  /\ journal.state = "planned" => installed = journal.old /\ stage.old = None
  /\ journal.state \in {"minted", "installed", "verified", "old_revoked"} =>
       journal.new # None /\ journal.new # journal.old /\ stage.new = journal.new
  /\ journal.state \in {"minted", "installed"} =>
       installed \in {journal.old, journal.new} /\ (stage.old = None => installed = journal.old)
  /\ journal.state \in {"verified", "old_revoked", "done"} => installed = journal.new /\ cred[installed].by # "agent"

\* On its way back an attempt has put the old credential back before it drops the new one.
WayBack ==
  rot # Idle =>
    /\ rot.pc \in {"put", "mark"} => stage.old # None
    /\ rot.pc = "states" => installed = rot.new
    /\ rot.pc = "drop" /\ rot.ends = "rolled_back" => installed = journal.old
    /\ rot.pc = "rollback_row" => installed = journal.old
    /\ rot.pc \in {"stage", "readback", "drop"} => rot.new # journal.old

\* The run's own live credentials: before the mint none, after it the new one alone; what a
\* lost answer or a crash left is on the list of the sweep.
Strays == {c \in Creds : RotationLive(c) /\ cred[c].label = "stamp" /\ cred[c].run = journal.run}
Swept ==
  /\ journal.state \in {"minted", "installed", "verified", "old_revoked", "done"} => Strays \subseteq {journal.new}
  /\ journal.state = "rolled_back" => Strays = {}
  /\ journal.state = "planned" =>
       \A c \in Creds : cred[c].run = journal.run => c \notin journal.snapshot \cup {journal.old}
  /\ rot # Idle =>
       /\ rot.pc \in {"mint", "rollback_row"} => Strays = {}
       /\ rot.pc = "sweep" /\ rot.listed /\ ~rot.problem => Strays \subseteq rot.todo
       /\ rot.pc \in {"stage", "readback", "drop"} => Strays \subseteq {rot.new}

RotationInv ==
  /\ RotationTypes /\ Marked /\ Known /\ InStep /\ OnDisk /\ WayBack /\ Swept
  /\ FinishedServes /\ UnknownUntouched

LEMMA RotationBegins == RotationInit => RotationInv
<1> SUFFICES ASSUME RotationInit PROVE RotationInv OBVIOUS
<1>0. None \notin Creds /\ 1 \in Creds BY RotationAssumption DEF RotationAssumption
<1>1. \A c \in Creds : cred[c] = IF c = 1 THEN [Unminted EXCEPT !.state = "active"] ELSE Unminted BY DEF RotationInit
<1>2. RotationTypes BY <1>0 DEF RotationInit, RotationTypes, CredRows, Unminted, None
<1>3. Marked BY <1>1 DEF RotationInit, Marked, Unminted, None
<1>4. Known BY <1>0, <1>1 DEF RotationInit, Known, Ours, Unminted, None
<1>5. InStep /\ WayBack BY DEF RotationInit, InStep, WayBack
<1>6. OnDisk BY DEF RotationInit, OnDisk, RunsPending
<1>7. Swept BY DEF RotationInit, Swept
<1>8. FinishedServes /\ UnknownUntouched BY <1>1 DEF RotationInit, FinishedServes, UnknownUntouched, Unminted
<1> QED BY <1>2, <1>3, <1>4, <1>5, <1>6, <1>7, <1>8 DEF RotationInv

\* What the types say of an attempt that runs.
LEMMA AttemptFacts ==
  ASSUME RotationInv
  PROVE  /\ None \notin Creds /\ Creds \subseteq Nat /\ 1 \in Creds
         /\ cred \in [Creds -> CredRows] /\ installed \in Creds
         /\ journal.state \in RunsPending \cup {"none", "done", "rolled_back", "halted"} /\ journal.run \in Nat
         /\ {journal.old, journal.new} \subseteq Creds \cup {None} /\ journal.snapshot \subseteq Creds
         /\ {stage.old, stage.new} \subseteq Creds \cup {None}
         /\ rot # Idle => /\ rot \in Attempts /\ rot.pc \in RotationPcs /\ rot.old \in Creds
                          /\ rot.new \in Creds \cup {None} /\ rot.todo \subseteq Creds /\ rot.run \in Nat
                          /\ rot.problem \in BOOLEAN
BY RotationAssumption DEF RotationInv, RotationTypes, RotationAssumption, Attempts

\* A revocation by the agent of a credential that is its to revoke.
LEMMA RevokeFacts ==
  ASSUME RotationInv, NEW c \in Creds, Ours(c), cred' \in {cred, Revoked(c)}
  PROVE  /\ cred' \in [Creds -> CredRows]
         /\ \A d \in Creds : Ours(d) <=> Ours(d)'
         /\ UnknownUntouched'
         /\ \A d \in Creds : /\ d # c => cred'[d] = cred[d]
                             /\ cred'[d].run = cred[d].run /\ cred'[d].label = cred[d].label
                             /\ RotationLive(d)' => RotationLive(d)
                             /\ cred'[d].by = "agent" => cred'[d].state = "revoked"
                             /\ cred'[d].state = "none" => cred'[d] = Unminted /\ cred[d].state = "none"
<1>1. /\ cred \in [Creds -> CredRows]
      /\ \A d \in Creds : /\ cred[d].by = "agent" => cred[d].state = "revoked"
                          /\ cred[d].state = "none" => cred[d] = Unminted
  BY DEF RotationInv, RotationTypes, Marked
<1>2. CASE cred' = cred BY <1>1, <1>2 DEF Ours, RotationInv, UnknownUntouched, RotationLive
<1>3. CASE cred' = Revoked(c)
  <2>1. \A d \in Creds : cred'[d] = IF d = c THEN [cred[d] EXCEPT !.state = "revoked", !.by = "agent"] ELSE cred[d]
    BY <1>1, <1>3 DEF Revoked
  <2>2. cred' \in [Creds -> CredRows]
    <3>1. PICK row \in CredRows : cred' = [cred EXCEPT ![c] = row]
      <4>1. [cred[c] EXCEPT !.state = "revoked", !.by = "agent"] \in CredRows BY <1>1 DEF CredRows
      <4> QED BY <1>1, <1>3, <4>1 DEF Revoked
    <3> QED BY <1>1, <3>1
  <2>3. cred'[c].state = "revoked" /\ cred'[c].by = "agent" /\ cred'[c].run = cred[c].run /\ cred'[c].label = cred[c].label
    BY <1>1, <2>1 DEF CredRows
  <2>4. \A d \in Creds : Ours(d) <=> Ours(d)' BY <2>1, <2>3 DEF Ours
  <2>5. UnknownUntouched' BY <2>1, <2>3 DEF UnknownUntouched, Ours, RotationInv
  <2> QED BY <1>1, <2>1, <2>2, <2>3, <2>4, <2>5 DEF RotationLive
<1> QED BY <1>2, <1>3

\* A run that halts, whatever it revoked last.
LEMMA HaltKeeps ==
  ASSUME RotationInv, rot # Idle, NEW leaves \in BOOLEAN, RotationHalt(leaves), UNCHANGED stage,
         NEW c \in Creds, Ours(c), cred' \in {cred, Revoked(c)}, installed' \in Creds, Ours(installed')
  PROVE  RotationInv'
<1>0. rot \in Attempts /\ rot.new \in Creds \cup {None} /\ None \notin Creds BY AttemptFacts
<1>1. /\ journal' = [journal EXCEPT !.state = "halted", !.leaves = leaves, !.cleared = FALSE,
                                    !.new = rot.new, !.orphans = @ \cup {}]
      /\ rot' = Idle
  BY DEF RotationHalt, HaltNoting
<1>2. /\ journal'.state = "halted" /\ journal'.new = rot.new /\ journal'.old = journal.old /\ journal'.run = journal.run
      /\ journal'.snapshot = journal.snapshot
  BY <1>1 DEF RotationInv, RotationTypes
<1>3. RotationTypes' BY <1>0, <1>1, RevokeFacts DEF RotationInv, RotationTypes
<1>4. Marked' BY <1>2, RevokeFacts DEF RotationInv, Marked
<1>5. Known'
  BY RevokeFacts, <1>0, AttemptFacts, <1>1, <1>2 DEF RotationInv, Known
<1>6. InStep' /\ WayBack' BY <1>1 DEF InStep, WayBack
<1>7. OnDisk' BY <1>2 DEF OnDisk, RunsPending
<1>8. Swept' BY <1>1, <1>2 DEF Swept
<1>9. FinishedServes' BY <1>2 DEF FinishedServes
<1> QED BY <1>3, <1>4, <1>5, <1>6, <1>7, <1>8, <1>9, RevokeFacts DEF RotationInv

\* The pre-mint snapshot, and the planned row.
LEMMA PlanKeeps == ASSUME RotationInv, RotationPlan PROVE RotationInv'
<1>0. /\ rot # Idle /\ rot.pc = "plan" /\ UNCHANGED <<cred, installed, stage>>
      /\ journal' = [state |-> "planned", run |-> rot.run, old |-> rot.old, new |-> None, snapshot |-> Minted,
                     leaves |-> FALSE, cleared |-> FALSE, orphans |-> {}]
      /\ rot' = [rot EXCEPT !.pc = "mint"] /\ Minted = {c \in Creds : cred[c].state # "none"}
  BY AttemptFacts DEF RotationInv, RotationTypes, Idle, RotationPlan, RotationAt, Go, Minted
<1>i. /\ InStep /\ OnDisk /\ WayBack /\ Swept /\ Known /\ Marked /\ FinishedServes /\ UnknownUntouched /\ RotationTypes
  BY DEF RotationInv
<1>f. /\ rot.run = journal.run + 1 /\ rot.old = installed /\ rot.old \in Creds /\ cred[rot.old].by # "agent"
      /\ Ours(installed) /\ stage.old = None /\ (rot.new # None => Ours(rot.new))
  BY <1>0, <1>i, AttemptFacts DEF InStep, StatesAt, OnDisk, RunsPending, WayBack, Known, Marked
<1>r. /\ rot' \in Attempts /\ rot' # Idle
      /\ rot'.pc = "mint" /\ rot'.old = rot.old /\ rot'.run = rot.run /\ rot'.new = rot.new /\ rot'.ends = rot.ends
  BY <1>0, <1>f, AttemptFacts DEF Attempts, RotationPcs, Idle
<1>1. RotationTypes' BY <1>0, <1>i, <1>f, <1>r, AttemptFacts DEF RotationTypes, RunsPending
<1>2. Marked'
  BY AttemptFacts, <1>0, <1>f, <1>i DEF CredRows, Marked
<1>3. Known' BY <1>0, <1>i, <1>f, <1>r, AttemptFacts DEF Known, Ours
<1>4. InStep' BY <1>0, <1>i, <1>f, <1>r, AttemptFacts DEF InStep, StatesAt
<1>5. OnDisk' BY <1>0, <1>i, <1>f, <1>r, AttemptFacts DEF OnDisk, RunsPending
<1>6. WayBack' BY <1>0, <1>i, <1>f, <1>r, AttemptFacts DEF WayBack
<1>7. Swept'
  <2>1. \A c \in Creds : cred[c].run # rot.run
    BY <1>i, AttemptFacts, <1>f DEF CredRows, Marked
  <2>2. journal'.state = "planned" /\ journal'.run = rot.run BY <1>0
  <2> QED BY <1>0, <1>r, <2>1, <2>2 DEF Swept, Strays, RotationLive
<1>8. FinishedServes' BY <1>0, <1>i, <1>f, <1>r, AttemptFacts DEF FinishedServes, RotationLive
<1>9. UnknownUntouched' BY <1>0, <1>i, <1>f, <1>r, AttemptFacts DEF UnknownUntouched
<1> QED BY <1>1, <1>2, <1>3, <1>4, <1>5, <1>6, <1>7, <1>8, <1>9 DEF RotationInv

\* The process dies.
LEMMA CrashKeeps == ASSUME RotationInv, RotationCrash PROVE RotationInv'
<1>0. UNCHANGED <<cred, installed, journal, stage>> /\ rot' = Idle
  BY AttemptFacts DEF RotationInv, RotationTypes, Idle, RotationCrash
<1>i. /\ InStep /\ OnDisk /\ WayBack /\ Swept /\ Known /\ Marked /\ FinishedServes /\ UnknownUntouched /\ RotationTypes
  BY DEF RotationInv
<1>1. RotationTypes' BY <1>0, <1>i, AttemptFacts DEF RotationTypes, RunsPending
<1>2. Marked' BY <1>0, <1>i, AttemptFacts DEF Marked
<1>3. Known' BY <1>0, <1>i, AttemptFacts DEF Known, Ours
<1>4. InStep' BY <1>0, <1>i, AttemptFacts DEF InStep, StatesAt
<1>5. OnDisk' BY <1>0, <1>i, AttemptFacts DEF OnDisk, RunsPending
<1>6. WayBack' BY <1>0, <1>i, AttemptFacts DEF WayBack
<1>7. Swept' BY <1>0, <1>i, AttemptFacts DEF Swept, Strays, RotationLive
<1>8. FinishedServes' BY <1>0, <1>i, AttemptFacts DEF FinishedServes, RotationLive
<1>9. UnknownUntouched' BY <1>0, <1>i, AttemptFacts DEF UnknownUntouched
<1> QED BY <1>1, <1>2, <1>3, <1>4, <1>5, <1>6, <1>7, <1>8, <1>9 DEF RotationInv

\* A person clears a halt.
LEMMA ClearKeeps == ASSUME RotationInv, ClearHalt PROVE RotationInv'
<1>0. /\ UNCHANGED <<cred, installed, stage, rot>> /\ journal.state = "halted"
      /\ journal' = [journal EXCEPT !.cleared = TRUE] /\ rot = Idle
  BY AttemptFacts DEF RotationInv, RotationTypes, Idle, ClearHalt, Halted, RotationAt, Attempts, RotationPcs
<1>i. /\ InStep /\ OnDisk /\ WayBack /\ Swept /\ Known /\ Marked /\ FinishedServes /\ UnknownUntouched /\ RotationTypes
  BY DEF RotationInv
<1>1. RotationTypes' BY <1>0, <1>i, AttemptFacts DEF RotationTypes, RunsPending
<1>2. Marked' BY <1>0, <1>i, AttemptFacts DEF Marked
<1>3. Known' BY <1>0, <1>i, AttemptFacts DEF Known, Ours
<1>4. InStep' BY <1>0, <1>i, AttemptFacts DEF InStep, StatesAt
<1>5. OnDisk' BY <1>0, <1>i, AttemptFacts DEF OnDisk, RunsPending
<1>6. WayBack' BY <1>0, <1>i, AttemptFacts DEF WayBack
<1>7. Swept' BY <1>0, <1>i, AttemptFacts DEF Swept, Strays, RotationLive
<1>8. FinishedServes' BY <1>0, <1>i, AttemptFacts DEF FinishedServes, RotationLive
<1>9. UnknownUntouched' BY <1>0, <1>i, AttemptFacts DEF UnknownUntouched
<1> QED BY <1>1, <1>2, <1>3, <1>4, <1>5, <1>6, <1>7, <1>8, <1>9 DEF RotationInv

\* The leftovers of a run that died before its cleanup.
LEMMA TidyKeeps == ASSUME RotationInv, Tidy PROVE RotationInv'
<1>0. /\ UNCHANGED <<cred, installed, journal, rot>> /\ journal.state \notin RunsPending /\ rot = Idle
      /\ stage' = [new |-> None, old |-> None]
  BY AttemptFacts DEF RotationInv, RotationTypes, Idle, Tidy, Pending, RotationAt, Transitions, RunsPending, Attempts, RotationPcs
<1>i. /\ InStep /\ OnDisk /\ WayBack /\ Swept /\ Known /\ Marked /\ FinishedServes /\ UnknownUntouched /\ RotationTypes
  BY DEF RotationInv
<1>1. RotationTypes' BY <1>0, <1>i, AttemptFacts DEF RotationTypes, RunsPending
<1>2. Marked' BY <1>0, <1>i, AttemptFacts DEF Marked
<1>3. Known' BY <1>0, <1>i, AttemptFacts DEF Known, Ours
<1>4. InStep' BY <1>0, <1>i, AttemptFacts DEF InStep, StatesAt
<1>5. OnDisk' BY <1>0, <1>i, AttemptFacts DEF OnDisk, RunsPending
<1>6. WayBack' BY <1>0, <1>i, AttemptFacts DEF WayBack
<1>7. Swept' BY <1>0, <1>i, AttemptFacts DEF Swept, Strays, RotationLive
<1>8. FinishedServes' BY <1>0, <1>i, AttemptFacts DEF FinishedServes, RotationLive
<1>9. UnknownUntouched' BY <1>0, <1>i, AttemptFacts DEF UnknownUntouched
<1> QED BY <1>1, <1>2, <1>3, <1>4, <1>5, <1>6, <1>7, <1>8, <1>9 DEF RotationInv

\* A fresh attempt.
LEMMA FreshKeeps == ASSUME RotationInv, NEW scope \in RotationScopes, Fresh(scope) PROVE RotationInv'
<1>0. /\ UNCHANGED <<cred, installed, journal>> /\ journal.state \in {"none", "done", "rolled_back", "halted"}
      /\ rot = Idle /\ stage' = [new |-> None, old |-> None]
      /\ \/ rot' = rot
         \/ /\ cred[installed].state # "revoked"
            /\ rot' = [pc |-> "plan", old |-> installed, new |-> None, scope |-> scope, resuming |-> FALSE,
                       todo |-> {}, problem |-> FALSE, goal |-> "mint", ends |-> "rolled_back",
                       run |-> journal.run + 1, listed |-> FALSE]
  BY AttemptFacts DEF RotationInv, RotationTypes, Idle, Fresh, Pending, RotationAt, Transitions, RunsPending, Attempts, RotationPcs
<1>i. /\ InStep /\ OnDisk /\ WayBack /\ Swept /\ Known /\ Marked /\ FinishedServes /\ UnknownUntouched /\ RotationTypes
  BY DEF RotationInv
<1>r. \/ rot' = Idle
      \/ /\ rot' \in Attempts /\ rot'.pc = "plan" /\ rot'.old = installed /\ rot'.new = None /\ rot'.run = journal.run + 1
         /\ cred[installed].by # "agent"
  <2>1. cred[installed].state # "revoked" => cred[installed].by # "agent" BY AttemptFacts, <1>i DEF Marked
  <2>2. CASE rot' = rot BY <1>0, <2>2
  <2>3. CASE rot' # rot
    <3>1. rot' = [pc |-> "plan", old |-> installed, new |-> None, scope |-> scope, resuming |-> FALSE,
                  todo |-> {}, problem |-> FALSE, goal |-> "mint", ends |-> "rolled_back",
                  run |-> journal.run + 1, listed |-> FALSE]
      BY <1>0, <2>3
    <3>2. rot' \in Attempts BY <3>1, AttemptFacts DEF Attempts, RotationPcs
    <3> QED BY <1>0, <2>1, <2>3, <3>1, <3>2
  <2> QED BY <2>2, <2>3
<1>1. RotationTypes' BY <1>0, <1>i, <1>r DEF RotationTypes
<1>2. Marked' /\ OnDisk' /\ FinishedServes' /\ UnknownUntouched'
  BY <1>0, <1>i DEF Marked, OnDisk, RunsPending, FinishedServes, RotationLive, UnknownUntouched
<1>3. Known' BY <1>0, <1>i, <1>r DEF Known, Ours
<1>4. InStep'
  <2>1. stage'.old = None BY <1>0
  <2> QED BY <1>0, <1>r, <2>1 DEF InStep, StatesAt
<1>5. WayBack' BY <1>0, <1>r DEF WayBack
<1>6. Swept' BY <1>0, <1>i, <1>r DEF Swept, Strays, RotationLive
<1> QED BY <1>1, <1>2, <1>3, <1>4, <1>5, <1>6 DEF RotationInv

\* A run the journal left unfinished is taken up.
LEMMA ResumeKeeps == ASSUME RotationInv, NEW scope \in RotationScopes, Resume(scope) PROVE RotationInv'
<1>0. /\ UNCHANGED <<cred, installed, journal, stage>> /\ journal.state \in RunsPending
      /\ rot' = [pc |-> Handler[journal.state], old |-> journal.old, new |-> journal.new, scope |-> scope,
                 resuming |-> TRUE, todo |-> {}, problem |-> FALSE, goal |-> "mint",
                 ends |-> "rolled_back", run |-> journal.run, listed |-> FALSE]
  BY DEF Resume, Resumable, Transitions, RunsPending
<1>i. /\ InStep /\ OnDisk /\ WayBack /\ Swept /\ Known /\ Marked /\ FinishedServes /\ UnknownUntouched /\ RotationTypes
  BY DEF RotationInv
<1>p. /\ journal.state = "planned" => Handler[journal.state] = "sweep"
      /\ journal.state = "minted" => Handler[journal.state] = "install"
      /\ journal.state = "installed" => Handler[journal.state] = "verify"
      /\ journal.state = "verified" => Handler[journal.state] = "retire"
      /\ journal.state = "old_revoked" => Handler[journal.state] = "finish"
  BY DEF Handler, Transitions
<1>r. /\ rot' \in Attempts /\ rot'.old = journal.old /\ rot'.new = journal.new /\ rot'.run = journal.run
      /\ rot'.pc = Handler[journal.state] /\ rot'.pc \in {"sweep", "install", "verify", "retire", "finish"} /\ ~rot'.listed
  BY <1>0, <1>p, <1>i, AttemptFacts DEF RunsPending, OnDisk, Attempts, RotationPcs
<1>1. RotationTypes' BY <1>0, <1>i, <1>r DEF RotationTypes
<1>2. Marked' /\ OnDisk' /\ FinishedServes' /\ UnknownUntouched'
  BY <1>0, <1>i DEF Marked, OnDisk, RunsPending, FinishedServes, RotationLive, UnknownUntouched
<1>3. Known' BY <1>0, <1>i, <1>r DEF Known, Ours
<1>4. InStep'
  BY <1>i, <1>0, <1>p, <1>r DEF OnDisk, InStep, StatesAt, RunsPending
<1>5. WayBack' BY <1>r DEF WayBack
<1>6. Swept' BY <1>0, <1>i, <1>r DEF Swept, Strays, RotationLive
<1> QED BY <1>1, <1>2, <1>3, <1>4, <1>5, <1>6 DEF RotationInv

\* The list of the sweep.
LEMMA SweepListKeeps == ASSUME RotationInv, SweepList PROVE RotationInv'
<1>0. /\ UNCHANGED <<cred, installed, journal, stage>> /\ rot # Idle /\ rot.pc = "sweep"
      /\ rot' = [rot EXCEPT !.listed = TRUE, !.todo = SweepTodo]
  BY AttemptFacts DEF RotationInv, RotationTypes, Idle, SweepList, RotationAt
<1>i. /\ InStep /\ OnDisk /\ WayBack /\ Swept /\ Known /\ Marked /\ FinishedServes /\ UnknownUntouched /\ RotationTypes
  BY DEF RotationInv
<1>f. /\ SweepTodo = {c \in Creds : cred[c].state # "none" /\ c \notin journal.snapshot \cup {journal.old}} /\ SweepTodo \subseteq Creds
      /\ journal.state = "planned" 
  BY <1>0, <1>i, AttemptFacts DEF InStep, StatesAt, OnDisk, RunsPending, WayBack, Known, Marked, SweepTodo, Minted
<1>r. /\ rot' \in Attempts /\ rot' # Idle
      /\ rot'.pc = "sweep" /\ rot'.old = rot.old /\ rot'.run = rot.run /\ rot'.new = rot.new /\ rot'.todo = SweepTodo
  BY <1>0, <1>f, AttemptFacts DEF Attempts, RotationPcs, Idle
<1>1. RotationTypes' BY <1>0, <1>i, <1>f, <1>r, AttemptFacts DEF RotationTypes, RunsPending
<1>2. Marked' BY <1>0, <1>i, <1>f, <1>r, AttemptFacts DEF Marked
<1>3. Known' BY <1>0, <1>i, <1>f, <1>r, AttemptFacts DEF Known, Ours
<1>4. InStep' BY <1>0, <1>i, <1>f, <1>r, AttemptFacts DEF InStep, StatesAt
<1>5. OnDisk' BY <1>0, <1>i, <1>f, <1>r, AttemptFacts DEF OnDisk, RunsPending
<1>6. WayBack' BY <1>0, <1>i, <1>f, <1>r, AttemptFacts DEF WayBack
<1>7. Swept' BY <1>0, <1>i, <1>f, <1>r, AttemptFacts DEF Swept, Strays, RotationLive
<1>8. FinishedServes' BY <1>0, <1>i, <1>f, <1>r, AttemptFacts DEF FinishedServes, RotationLive
<1>9. UnknownUntouched' BY <1>0, <1>i, <1>f, <1>r, AttemptFacts DEF UnknownUntouched
<1> QED BY <1>1, <1>2, <1>3, <1>4, <1>5, <1>6, <1>7, <1>8, <1>9 DEF RotationInv

\* What is left to mint with: nothing.
LEMMA MintNoneKeeps == ASSUME RotationInv, MintNone PROVE RotationInv'
<1>0. /\ UNCHANGED <<cred, installed, journal, stage>> /\ rot # Idle /\ rot.pc = "mint"
      /\ rot' = [rot EXCEPT !.pc = "sweep", !.goal = "roll", !.listed = FALSE]
  BY AttemptFacts DEF RotationInv, RotationTypes, Idle, MintNone, RotationAt
<1>i. /\ InStep /\ OnDisk /\ WayBack /\ Swept /\ Known /\ Marked /\ FinishedServes /\ UnknownUntouched /\ RotationTypes
  BY DEF RotationInv
<1>r. /\ rot' \in Attempts /\ rot' # Idle
      /\ rot'.pc = "sweep" /\ rot'.old = rot.old /\ rot'.run = rot.run /\ rot'.new = rot.new /\ ~rot'.listed
  BY <1>0, AttemptFacts DEF Attempts, RotationPcs, Idle
<1>1. RotationTypes' BY <1>0, <1>i, <1>r, AttemptFacts DEF RotationTypes, RunsPending
<1>2. Marked' BY <1>0, <1>i, <1>r, AttemptFacts DEF Marked
<1>3. Known' BY <1>0, <1>i, <1>r, AttemptFacts DEF Known, Ours
<1>4. InStep' BY <1>0, <1>i, <1>r, AttemptFacts DEF InStep, StatesAt
<1>5. OnDisk' BY <1>0, <1>i, <1>r, AttemptFacts DEF OnDisk, RunsPending
<1>6. WayBack' BY <1>0, <1>i, <1>r, AttemptFacts DEF WayBack
<1>7. Swept' BY <1>0, <1>i, <1>r, AttemptFacts DEF Swept, Strays, RotationLive
<1>8. FinishedServes' BY <1>0, <1>i, <1>r, AttemptFacts DEF FinishedServes, RotationLive
<1>9. UnknownUntouched' BY <1>0, <1>i, <1>r, AttemptFacts DEF UnknownUntouched
<1> QED BY <1>1, <1>2, <1>3, <1>4, <1>5, <1>6, <1>7, <1>8, <1>9 DEF RotationInv

\* The new value is staged.
LEMMA StageKeeps == ASSUME RotationInv, StageNew PROVE RotationInv'
<1>0. /\ UNCHANGED <<cred, installed, journal>> /\ rot # Idle /\ rot.pc = "stage"
      /\ stage' = [stage EXCEPT !.new = rot.new] /\ rot' = [rot EXCEPT !.pc = "readback"]
  BY AttemptFacts DEF RotationInv, RotationTypes, Idle, StageNew, RotationAt, Go
<1>i. /\ InStep /\ OnDisk /\ WayBack /\ Swept /\ Known /\ Marked /\ FinishedServes /\ UnknownUntouched /\ RotationTypes
  BY DEF RotationInv
<1>f. /\ journal.state = "planned" /\ rot.new # None /\ rot.new \in Creds /\ Ours(rot.new) /\ stage' \in [new : Creds \cup {None}, old : Creds \cup {None}]
      /\ stage'.new = rot.new /\ stage'.old = stage.old
  BY <1>0, <1>i, AttemptFacts DEF InStep, StatesAt, OnDisk, RunsPending, WayBack, Known, Marked, RotationTypes
<1>r. /\ rot' \in Attempts /\ rot' # Idle
      /\ rot'.pc = "readback" /\ rot'.old = rot.old /\ rot'.run = rot.run /\ rot'.new = rot.new /\ rot'.ends = rot.ends
  BY <1>0, <1>f, AttemptFacts DEF Attempts, RotationPcs, Idle
<1>1. RotationTypes' BY <1>0, <1>i, <1>f, <1>r, AttemptFacts DEF RotationTypes, RunsPending
<1>2. Marked' BY <1>0, <1>i, <1>f, <1>r, AttemptFacts DEF Marked
<1>3. Known' BY <1>0, <1>i, <1>f, <1>r, AttemptFacts DEF Known, Ours
<1>4. InStep' BY <1>0, <1>i, <1>f, <1>r, AttemptFacts DEF InStep, StatesAt
<1>5. OnDisk' BY <1>0, <1>i, <1>f, <1>r, AttemptFacts DEF OnDisk, RunsPending
<1>6. WayBack' BY <1>0, <1>i, <1>f, <1>r, AttemptFacts DEF WayBack
<1>7. Swept' BY <1>0, <1>i, <1>f, <1>r, AttemptFacts DEF Swept, Strays, RotationLive
<1>8. FinishedServes' BY <1>0, <1>i, <1>f, <1>r, AttemptFacts DEF FinishedServes, RotationLive
<1>9. UnknownUntouched' BY <1>0, <1>i, <1>f, <1>r, AttemptFacts DEF UnknownUntouched
<1> QED BY <1>1, <1>2, <1>3, <1>4, <1>5, <1>6, <1>7, <1>8, <1>9 DEF RotationInv

\* The revocation an attempt asked for: what it may leave, and what it confirms.
LEMMA RevokeOutcome ==
  ASSUME NEW c, NEW role, NEW r \in Revoke(c, role)
  PROVE  r.cred \in {cred, Revoked(c)} /\ r.err \in BOOLEAN /\ (~r.err => cred[c].state = "revoked" \/ r.cred = Revoked(c))
<1>1. \/ r = [cred |-> cred, err |-> FALSE] /\ cred[c].state = "revoked"
      \/ r = [cred |-> cred, err |-> TRUE]
      \/ r = [cred |-> Revoked(c), err |-> FALSE]
      \/ r = [cred |-> Revoked(c), err |-> TRUE]
  BY DEF Revoke
<1>2. CASE r = [cred |-> cred, err |-> FALSE] /\ cred[c].state = "revoked" BY <1>2
<1>3. CASE r = [cred |-> cred, err |-> TRUE] BY <1>3
<1>4. CASE r = [cred |-> Revoked(c), err |-> FALSE] BY <1>4
<1>5. CASE r = [cred |-> Revoked(c), err |-> TRUE] BY <1>5
<1> QED BY <1>1, <1>2, <1>3, <1>4, <1>5

\* What a transition writes: the new state, and the new credential if the attempt knows it.
LEMMA TransitionFacts ==
  ASSUME RotationInv, rot # Idle, NEW s \in RunsPending \cup {"done", "rolled_back"}, Transition(s)
  PROVE  /\ journal' \in [state : RunsPending \cup {"none", "done", "rolled_back", "halted"}, run : Nat, old : Creds \cup {None},
                          new : Creds \cup {None}, snapshot : SUBSET Creds, leaves : BOOLEAN, cleared : BOOLEAN,
                          orphans : SUBSET Creds]
         /\ journal'.state = s /\ journal'.run = journal.run /\ journal'.old = journal.old
         /\ journal'.snapshot = journal.snapshot
         /\ journal'.new = IF rot.new # None THEN rot.new ELSE journal.new
BY AttemptFacts DEF Transition, RotationInv, RotationTypes

\* An attempt that only goes on to another place: from which it may, and what must hold there.
LEMMA GoKeeps ==
  ASSUME RotationInv, rot # Idle, UNCHANGED <<cred, installed, journal, stage>>, NEW pc \in RotationPcs,
         NEW ends \in {"rolled_back", "halted"}, rot' = [rot EXCEPT !.pc = pc, !.ends = ends],
         \/ rot.pc = "readback" /\ pc = "drop"
         \/ rot.pc = "install" /\ pc = "drop" /\ stage.old = None
         \/ rot.pc = "install" /\ pc = "put" /\ stage.old # None
         \/ rot.pc = "verify" /\ pc = "states" /\ installed = stage.new
         \/ rot.pc \in {"put", "verify", "states"} /\ pc = "restore"
         \/ rot.pc = "states" /\ pc = "drop" /\ ends = "halted"
         \/ rot.pc = "retire" /\ pc = "retired"
  PROVE  RotationInv'
<1>i. /\ InStep /\ OnDisk /\ WayBack /\ Swept /\ Known /\ Marked /\ FinishedServes /\ UnknownUntouched /\ RotationTypes
  BY DEF RotationInv
<1>r. /\ rot' \in Attempts /\ rot' # Idle /\ rot'.pc = pc /\ rot'.ends = ends
      /\ rot'.old = rot.old /\ rot'.new = rot.new /\ rot'.run = rot.run
  BY AttemptFacts DEF Attempts, RotationPcs, Idle
<1>1. RotationTypes' BY <1>i, <1>r DEF RotationTypes
<1>2. Marked' /\ OnDisk' /\ FinishedServes' /\ UnknownUntouched'
  BY <1>i DEF Marked, OnDisk, RunsPending, FinishedServes, RotationLive, UnknownUntouched
<1>3. Known' BY <1>i, <1>r DEF Known, Ours
<1>4. InStep' BY <1>i, <1>r DEF InStep, StatesAt, OnDisk
<1>5. WayBack' BY <1>i, <1>r DEF WayBack, InStep, StatesAt, OnDisk
<1>6. Swept' BY <1>i, <1>r DEF Swept, Strays, RotationLive, InStep, StatesAt
<1> QED BY <1>1, <1>2, <1>3, <1>4, <1>5, <1>6 DEF RotationInv

\* One credential of the sweep.
LEMMA SweepOneKeeps == ASSUME RotationInv, NEW c \in Creds, SweepOne(c) PROVE RotationInv'
<1>0. /\ rot # Idle /\ rot.pc = "sweep" /\ rot.listed /\ c \in rot.todo /\ UNCHANGED <<installed, stage>>
  <2>1. RotationAt("sweep") /\ rot.listed /\ c \in rot.todo /\ UNCHANGED <<installed, stage>> BY DEF SweepOne
  <2> QED BY <2>1 DEF RotationAt, Idle
<1>i. /\ InStep /\ OnDisk /\ WayBack /\ Swept /\ Known /\ Marked /\ FinishedServes /\ UnknownUntouched /\ RotationTypes
  BY DEF RotationInv
<1>p. rot.run = journal.run /\ journal.state = "planned" /\ journal.run > 0 /\ journal.run \in Nat
  BY <1>0, <1>i, AttemptFacts DEF InStep, StatesAt, OnDisk, RunsPending
<1>c. /\ cred' = cred \/ (RotationLive(c) /\ OwnStamp(c) /\ cred' = Revoked(c))
      /\ \/ rot' = [rot EXCEPT !.todo = @ \ {c}] /\ ~RotationLive(c)
         \/ rot' = [rot EXCEPT !.todo = @ \ {c}, !.problem = TRUE]
         \/ \E err \in BOOLEAN : /\ rot' = [rot EXCEPT !.todo = @ \ {c}, !.problem = @ \/ err, !.new = IF err THEN c ELSE @]
                                 /\ RotationLive(c) /\ OwnStamp(c) /\ (~err => cred' = Revoked(c))
      /\ journal' = journal \/ journal' = [journal EXCEPT !.orphans = @ \cup {c}]
  <2>1. CASE ~RotationLive(c) BY <2>1 DEF SweepOne
  <2>2. CASE RotationLive(c) /\ ~OwnStamp(c) BY <2>2 DEF SweepOne
  <2>3. CASE RotationLive(c) /\ OwnStamp(c)
    <3>1. PICK r \in Revoke(c, "orphan") :
            /\ cred' = r.cred
            /\ rot' = [rot EXCEPT !.todo = @ \ {c}, !.problem = @ \/ r.err, !.new = IF r.err THEN c ELSE @]
            /\ journal' = IF r.err THEN [journal EXCEPT !.orphans = @ \cup {c}] ELSE journal
      BY <2>3 DEF SweepOne
    <3>2. r.err \in BOOLEAN /\ r.cred \in {cred, Revoked(c)} /\ (~r.err => r.cred = Revoked(c))
      <4>1. cred[c].state # "revoked" BY <2>3 DEF RotationLive
      <4> QED BY <4>1, RevokeOutcome
    <3>3. \E err \in BOOLEAN : /\ rot' = [rot EXCEPT !.todo = @ \ {c}, !.problem = @ \/ err, !.new = IF err THEN c ELSE @]
                               /\ RotationLive(c) /\ OwnStamp(c) /\ (~err => cred' = Revoked(c))
      BY <2>3, <3>1, <3>2
    <3>4. journal' = journal \/ journal' = [journal EXCEPT !.orphans = @ \cup {c}] BY <3>1
    <3>5. cred' = cred \/ (RotationLive(c) /\ OwnStamp(c) /\ cred' = Revoked(c)) BY <2>3, <3>1, <3>2
    <3> QED BY <3>3, <3>4, <3>5
  <2> QED BY <2>1, <2>2, <2>3
<1>o. RotationLive(c) /\ OwnStamp(c) => Ours(c) /\ c # journal.old /\ cred[c].label = "stamp" /\ cred[c].run = journal.run
  BY <1>p, <1>i DEF RotationLive, OwnStamp, Ours, None, Swept
<1>j. /\ journal' \in [state : RunsPending \cup {"none", "done", "rolled_back", "halted"}, run : Nat, old : Creds \cup {None},
                       new : Creds \cup {None}, snapshot : SUBSET Creds, leaves : BOOLEAN, cleared : BOOLEAN,
                       orphans : SUBSET Creds]
      /\ journal'.state = "planned" /\ journal'.run = journal.run /\ journal'.old = journal.old /\ journal'.new = journal.new
      /\ journal'.snapshot = journal.snapshot
  <2>1. CASE journal' = journal BY <2>1, <1>p, <1>i DEF RotationTypes
  <2>2. CASE journal' = [journal EXCEPT !.orphans = @ \cup {c}] BY <2>2, <1>p, <1>i DEF RotationTypes
  <2> QED BY <1>c, <2>1, <2>2
<1>r. /\ rot' \in Attempts /\ rot' # Idle /\ rot'.pc = "sweep" /\ rot'.old = rot.old /\ rot'.run = rot.run
      /\ rot'.listed /\ rot'.todo = rot.todo \ {c}
      /\ rot'.new = rot.new \/ (RotationLive(c) /\ OwnStamp(c) /\ rot'.new = c)
      /\ ~rot'.problem => ~rot.problem /\ (~RotationLive(c) \/ cred' = Revoked(c))
  <2> DEFINE left == rot.todo \ {c}
  <2>1. rot \in Attempts /\ rot.pc = "sweep" /\ rot.listed /\ left \subseteq Creds /\ rot.problem \in BOOLEAN
    BY <1>0, AttemptFacts
  <2>2. CASE rot' = [rot EXCEPT !.todo = left] /\ ~RotationLive(c)
    BY <2>1, <2>2 DEF Attempts, Idle
  <2>3. CASE rot' = [rot EXCEPT !.todo = left, !.problem = TRUE]
    BY <2>1, <2>3 DEF Attempts, Idle
  <2>4. ASSUME NEW err \in BOOLEAN, RotationLive(c), OwnStamp(c), ~err => cred' = Revoked(c),
               rot' = [rot EXCEPT !.todo = left, !.problem = rot.problem \/ err, !.new = IF err THEN c ELSE rot.new]
        PROVE  /\ rot' \in Attempts /\ rot' # Idle /\ rot'.pc = "sweep" /\ rot'.old = rot.old /\ rot'.run = rot.run
               /\ rot'.listed /\ rot'.todo = left
               /\ rot'.new \in {rot.new, c} /\ (~rot'.problem => ~rot.problem /\ cred' = Revoked(c))
    BY <2>1, <2>4 DEF Attempts, Idle
  <2> QED BY <1>c, <2>1, <2>2, <2>3, <2>4
<1>k. /\ cred' \in [Creds -> CredRows] /\ UnknownUntouched'
      /\ \A d \in Creds : /\ Ours(d) => Ours(d)'
                          /\ d # c => cred'[d] = cred[d]
                          /\ cred'[d].run = cred[d].run /\ cred'[d].label = cred[d].label
                          /\ RotationLive(d)' => RotationLive(d)
                          /\ cred'[d].by = "agent" => cred'[d].state = "revoked"
                          /\ cred'[d].state = "none" => cred'[d] = Unminted /\ d \notin journal.snapshot
      /\ cred'[journal.old].by = cred[journal.old].by
  <2>1. CASE cred' = cred BY <2>1, <1>i DEF RotationTypes, Ours, UnknownUntouched, RotationLive, Marked
  <2>2. CASE RotationLive(c) /\ OwnStamp(c) /\ cred' = Revoked(c)
    <3>1. cred[c].state = "active" /\ cred' = [cred EXCEPT ![c].state = "revoked", ![c].by = "agent"]
      BY <2>2 DEF RotationLive, Revoked
    <3>2. cred'[c].state = "revoked" BY <3>1, AttemptFacts DEF CredRows
    <3>3. journal.old \in Creds BY <1>p, <1>i, AttemptFacts DEF OnDisk, RunsPending
    <3> QED BY <2>2, <3>2, <3>3, <1>o, <1>i, RevokeFacts DEF Marked
  <2> QED BY <1>c, <2>1, <2>2
<1>1. RotationTypes' BY <1>0, <1>i, <1>j, <1>k, <1>r DEF RotationTypes
<1>2. Marked' BY <1>i, <1>j, <1>k DEF Marked
<1>3. Known'
  BY <1>k, <1>0, AttemptFacts, <1>i, <1>r, <1>o, <1>j DEF Known
<1>4. InStep' BY <1>0, <1>i, <1>j, <1>r DEF InStep, StatesAt
<1>5. OnDisk' BY <1>0, <1>i, <1>p, <1>j, <1>k DEF OnDisk, RunsPending
<1>6. WayBack' BY <1>r DEF WayBack
<1>7. Swept'
  <2>1. Strays' \subseteq Strays BY <1>j, <1>k DEF Strays
  <2>2. ~rot'.problem => c \notin Strays'
    BY AttemptFacts, <1>k, <1>r DEF Revoked, CredRows, Strays, RotationLive
  <2>3. ~rot'.problem => Strays' \subseteq rot'.todo BY <1>0, <1>i, <1>r, <2>1, <2>2 DEF Swept
  <2>4. \A d \in Creds : cred'[d].run = journal'.run => d \notin journal'.snapshot \cup {journal'.old}
    BY <1>i, <1>p, <1>j, <1>k DEF Swept
  <2> QED BY <1>j, <1>r, <2>3, <2>4 DEF Swept
<1>8. FinishedServes' BY <1>j DEF FinishedServes
<1> QED BY <1>1, <1>2, <1>3, <1>4, <1>5, <1>6, <1>7, <1>8, <1>k DEF RotationInv

\* The end of the sweep.
LEMMA SweepEndKeeps == ASSUME RotationInv, SweepEnd PROVE RotationInv'
<1>0. rot # Idle /\ rot.pc = "sweep" /\ installed' = installed BY DEF SweepEnd, RotationAt, Idle
<1>i. /\ InStep /\ OnDisk /\ WayBack /\ Swept /\ Known /\ Marked /\ FinishedServes /\ UnknownUntouched /\ RotationTypes
  BY DEF RotationInv
<1>1. CASE RotationHalt(FALSE) /\ UNCHANGED <<cred, stage>>
  BY <1>i, AttemptFacts, <1>0, <1>1, HaltKeeps DEF Known
<1>2. CASE /\ rot.listed /\ rot.todo = {} /\ ~rot.problem /\ UNCHANGED <<cred, journal>>
           /\ stage' = [stage EXCEPT !.new = None]
           /\ rot' = [rot EXCEPT !.pc = IF rot.goal = "mint" THEN "mint" ELSE "rollback_row", !.listed = FALSE]
  <2>p. journal.state = "planned" BY <1>0, <1>i DEF InStep, StatesAt
  <2>r. /\ rot' \in Attempts /\ rot' # Idle /\ rot'.pc \in {"mint", "rollback_row"}
        /\ rot'.old = rot.old /\ rot'.new = rot.new /\ rot'.run = rot.run
    BY <1>0, <1>2, AttemptFacts DEF Attempts, RotationPcs, Idle
  <2>s. stage' \in [new : Creds \cup {None}, old : Creds \cup {None}] /\ stage'.new = None /\ stage'.old = stage.old
    BY <1>2, <1>i DEF RotationTypes
  <2>1. RotationTypes' BY <1>0, <1>2, <1>i, <2>r, <2>s DEF RotationTypes
  <2>2. Marked' /\ FinishedServes' /\ UnknownUntouched'
    BY <1>0, <1>2, <1>i DEF Marked, FinishedServes, RotationLive, UnknownUntouched
  <2>3. Known' BY <1>0, <1>2, <1>i, <2>r, <2>s DEF Known, Ours
  <2>4. InStep' BY <1>0, <1>2, <1>i, <2>p, <2>r DEF InStep, StatesAt
  <2>5. OnDisk' BY <1>0, <1>2, <1>i, <2>p, <2>s DEF OnDisk, RunsPending
  <2>6. WayBack' BY <1>0, <1>2, <1>i, <2>p, <2>r DEF WayBack, OnDisk
  <2>7. Swept' BY <1>0, <1>2, <1>i, <2>p, <2>r DEF Swept, Strays, RotationLive
  <2> QED BY <2>1, <2>2, <2>3, <2>4, <2>5, <2>6, <2>7 DEF RotationInv
<1> QED BY <1>1, <1>2 DEF SweepEnd

\* The mint, whatever of it happens.
LEMMA MintKeeps ==
  ASSUME RotationInv, NEW c \in Creds, NEW label \in {"stamp", "none"}, Mint(c, label)
  PROVE  RotationInv'
<1>0. /\ rot # Idle /\ rot.pc = "mint" /\ cred[c].state = "none" /\ UNCHANGED <<installed, journal, stage>>
  BY DEF Mint, RotationAt, Idle
<1> DEFINE minted == [cred EXCEPT ![c] = [state |-> "active", by |-> "nobody", label |-> label, run |-> rot.run]]
<1>i. /\ InStep /\ OnDisk /\ WayBack /\ Swept /\ Known /\ Marked /\ FinishedServes /\ UnknownUntouched /\ RotationTypes
  BY DEF RotationInv
<1>p. rot.run = journal.run /\ journal.state = "planned" /\ journal.run > 0 /\ journal.run \in Nat /\ journal.old \in Creds
  BY <1>0, <1>i, AttemptFacts DEF InStep, StatesAt, OnDisk, RunsPending
<1>c. /\ cred' = cred \/ cred' = minted
      /\ \/ cred' = minted /\ rot' = [rot EXCEPT !.pc = "stage", !.new = c]
         \/ cred' = minted /\ rot' = [rot EXCEPT !.pc = "drop", !.new = c, !.ends = "halted"]
         \/ rot' = [rot EXCEPT !.pc = "sweep", !.goal = "roll", !.listed = FALSE]
  BY DEF Mint
<1>r. /\ rot' \in Attempts /\ rot' # Idle /\ rot'.old = rot.old /\ rot'.run = rot.run
      /\ \/ cred' = minted /\ rot'.pc = "stage" /\ rot'.new = c
         \/ cred' = minted /\ rot'.pc = "drop" /\ rot'.new = c /\ rot'.ends = "halted"
         \/ rot'.pc = "sweep" /\ ~rot'.listed /\ rot'.new = rot.new
  BY <1>0, <1>c, AttemptFacts DEF Attempts, RotationPcs, Idle
<1>n. /\ minted[c] = [state |-> "active", by |-> "nobody", label |-> label, run |-> journal.run]
      /\ \A d \in Creds : d # c => minted[d] = cred[d]
      /\ minted \in [Creds -> CredRows]
  BY <1>p, AttemptFacts DEF CredRows
<1> HIDE DEF minted
<1>k. /\ cred' \in [Creds -> CredRows] /\ \A d \in Creds : d # c => cred'[d] = cred[d]
      /\ cred'[c] = cred[c] \/ cred'[c] = [state |-> "active", by |-> "nobody", label |-> label, run |-> journal.run]
      /\ \A d \in Creds : Ours(d) => Ours(d)'
  BY <1>c, <1>n, AttemptFacts, <1>0 DEF Ours
<1>o. c # journal.old /\ c # installed /\ c \notin journal.snapshot BY <1>0, <1>i, <1>p DEF Known, Ours, Marked, OnDisk
<1>1. RotationTypes' BY <1>0, <1>i, <1>k, <1>r DEF RotationTypes
<1>2. Marked'
  <2> SUFFICES ASSUME NEW d \in Creds
               PROVE  /\ cred'[d].run <= journal.run /\ (cred'[d].by = "agent" => cred'[d].state = "revoked")
                      /\ cred'[d].state = "none" => cred'[d] = Unminted /\ d \notin journal.snapshot
    BY <1>0 DEF Marked
  <2>1. CASE cred'[d] = cred[d] BY <2>1, <1>i DEF Marked
  <2>2. CASE cred'[d] # cred[d]
    BY <2>2, <1>k, <1>p
  <2> QED BY <2>1, <2>2
<1>3. Known'
  BY <1>0, <1>i, <1>k, AttemptFacts, <1>n, <1>p, <1>r DEF Known, Ours, None
<1>4. InStep' BY <1>0, <1>i, <1>p, <1>r, AttemptFacts DEF InStep, StatesAt
<1>5. OnDisk' BY <1>0, <1>i, <1>p, <1>k, <1>o DEF OnDisk, RunsPending
<1>6. WayBack' BY <1>0, <1>o, <1>r DEF WayBack
<1>7. Swept'
  BY <1>0, <1>i, <1>k, <1>p, <1>o, <1>r DEF Swept, Strays, RotationLive
<1>8. FinishedServes' BY <1>0, <1>p DEF FinishedServes
<1>9. UnknownUntouched'
  BY <1>k, <1>0, <1>i DEF Marked, UnknownUntouched
<1> QED BY <1>1, <1>2, <1>3, <1>4, <1>5, <1>6, <1>7, <1>8, <1>9 DEF RotationInv

\* The new credential is dropped: confirmed dead, or the run halts.
LEMMA DropKeeps == ASSUME RotationInv, Drop PROVE RotationInv'
<1>0. rot # Idle /\ rot.pc = "drop" /\ UNCHANGED <<installed, stage>> BY DEF Drop, RotationAt, Idle
<1>i. /\ InStep /\ OnDisk /\ WayBack /\ Swept /\ Known /\ Marked /\ FinishedServes /\ UnknownUntouched /\ RotationTypes
  BY DEF RotationInv
<1>p. /\ rot.new \in Creds /\ Ours(rot.new) /\ rot.new # journal.old /\ journal.state \in {"planned", "minted", "installed"}
      /\ Strays \subseteq {rot.new} /\ rot.ends \in {"rolled_back", "halted"} /\ journal.old \in Creds
  BY <1>0, <1>i, AttemptFacts DEF InStep, StatesAt, WayBack, Known, Swept, OnDisk, RunsPending, Attempts
<1>1. PICK r \in Revoke(rot.new, "new_failed") :
        /\ cred' = r.cred
        /\ IF r.err \/ rot.ends = "halted" THEN RotationHalt(FALSE) ELSE Go("rollback_row") /\ UNCHANGED journal
  BY DEF Drop
<1>2. r.cred \in {cred, Revoked(rot.new)} /\ (~r.err => cred[rot.new].state = "revoked" \/ r.cred = Revoked(rot.new))
  BY RevokeOutcome
<1>3. CASE RotationHalt(FALSE)
  <2>1. Ours(installed) /\ installed \in Creds BY <1>i, AttemptFacts DEF Known
  <2> QED BY <1>0, <1>p, <1>1, <1>2, <1>3, <2>1, HaltKeeps
<1>4. CASE ~r.err /\ rot.ends # "halted" /\ Go("rollback_row") /\ UNCHANGED journal
  <2>r. /\ rot' \in Attempts /\ rot' # Idle /\ rot'.pc = "rollback_row" /\ rot'.old = rot.old /\ rot'.new = rot.new
        /\ rot'.run = rot.run
    BY <1>0, <1>4, AttemptFacts DEF Go, Attempts, RotationPcs, Idle
  <2>k. /\ cred' \in [Creds -> CredRows] /\ UnknownUntouched'
        /\ \A d \in Creds : /\ Ours(d) <=> Ours(d)'
                            /\ d # rot.new => cred'[d] = cred[d]
                            /\ cred'[d].run = cred[d].run /\ cred'[d].label = cred[d].label
                            /\ RotationLive(d)' => RotationLive(d)
                            /\ cred'[d].by = "agent" => cred'[d].state = "revoked"
                            /\ cred'[d].state = "none" => cred'[d] = Unminted /\ cred[d].state = "none"
    BY <1>p, <1>1, <1>2, RevokeFacts
  <2>d. cred'[rot.new].state # "active"
    BY <1>p, <2>k, AttemptFacts, <1>1, <1>2, <1>4 DEF RotationLive, Revoked, CredRows
  <2>1. RotationTypes' BY <1>0, <1>4, <1>i, <2>k, <2>r DEF RotationTypes
  <2>2. Marked' BY <1>4, <1>i, <2>k DEF Marked
  <2>3. Known'
    BY <1>0, <1>i, <2>k, AttemptFacts, <1>4, <2>r DEF Known
  <2>4. InStep' BY <1>0, <1>4, <1>i, <1>p, <2>r DEF InStep, StatesAt
  <2>5. OnDisk' BY <1>0, <1>4, <1>i, <1>p, <2>k DEF OnDisk, RunsPending
  <2>6. WayBack' BY <1>0, <1>4, <1>i, <1>p, <2>r DEF WayBack
  <2>7. Swept'
    BY <1>4, <2>k, <1>p, <2>d, <1>i, <2>r DEF Strays, RotationLive, Swept
  <2>8. FinishedServes' BY <1>4, <1>p DEF FinishedServes
  <2> QED BY <2>1, <2>2, <2>3, <2>4, <2>5, <2>6, <2>7, <2>8, <2>k DEF RotationInv
<1> QED BY <1>1, <1>3, <1>4

\* The old credential is retired: confirmed dead, or the run halts with both in place.
LEMMA RetireKeeps == ASSUME RotationInv, RetireOld PROVE RotationInv'
<1>0. rot # Idle /\ rot.pc = "retire" /\ UNCHANGED <<installed, stage>> BY DEF RetireOld, RotationAt, Idle
<1>i. /\ InStep /\ OnDisk /\ WayBack /\ Swept /\ Known /\ Marked /\ FinishedServes /\ UnknownUntouched /\ RotationTypes
  BY DEF RotationInv
<1>p. /\ rot.old \in Creds /\ Ours(rot.old) /\ rot.old = journal.old /\ journal.state = "verified" /\ installed = journal.new
      /\ journal.new # journal.old /\ Ours(installed) /\ installed \in Creds /\ rot.ends \in {"rolled_back", "halted"}
  BY <1>0, <1>i, AttemptFacts, RotationAssumption
     DEF InStep, StatesAt, Known, OnDisk, RunsPending, Attempts, RotationAssumption
<1>1. \/ cred' = cred /\ RotationHalt(TRUE)
      \/ cred' = cred /\ Go("retired") /\ UNCHANGED journal
      \/ cred' \in {cred, Revoked(rot.old)} /\ RotationHalt(TRUE)
      \/ cred' \in {cred, Revoked(rot.old)} /\ Go("retired") /\ UNCHANGED journal
  BY RevokeOutcome DEF RetireOld
<1>2. CASE cred' \in {cred, Revoked(rot.old)} /\ RotationHalt(TRUE) BY <1>0, <1>p, <1>2, HaltKeeps
<1>3. CASE cred' \in {cred, Revoked(rot.old)} /\ Go("retired") /\ UNCHANGED journal
  <2>r. /\ rot' \in Attempts /\ rot' # Idle /\ rot'.pc = "retired" /\ rot'.old = rot.old /\ rot'.new = rot.new
        /\ rot'.run = rot.run
    BY <1>0, <1>3, AttemptFacts DEF Go, Attempts, RotationPcs, Idle
  <2>k. /\ cred' \in [Creds -> CredRows] /\ UnknownUntouched'
        /\ \A d \in Creds : /\ Ours(d) <=> Ours(d)'
                            /\ d # rot.old => cred'[d] = cred[d]
                            /\ cred'[d].run = cred[d].run /\ cred'[d].label = cred[d].label
                            /\ RotationLive(d)' => RotationLive(d)
                            /\ cred'[d].by = "agent" => cred'[d].state = "revoked"
                            /\ cred'[d].state = "none" => cred'[d] = Unminted /\ cred[d].state = "none"
    BY <1>p, <1>3, RevokeFacts
  <2>1. RotationTypes' BY <1>0, <1>3, <1>i, <2>k, <2>r DEF RotationTypes
  <2>2. Marked' BY <1>3, <1>i, <2>k DEF Marked
  <2>3. Known'
    BY <1>0, <1>i, <2>k, AttemptFacts, <1>3, <2>r DEF Known
  <2>4. InStep' BY <1>0, <1>3, <1>i, <1>p, <2>r DEF InStep, StatesAt
  <2>5. OnDisk' BY <1>0, <1>3, <1>i, <1>p, <2>k DEF OnDisk, RunsPending
  <2>6. WayBack' BY <2>r DEF WayBack
  <2>7. Swept'
    BY <1>3, <2>k, <1>i, <1>p, <2>r DEF Strays, Swept
  <2>8. FinishedServes' BY <1>3, <1>p DEF FinishedServes
  <2> QED BY <2>1, <2>2, <2>3, <2>4, <2>5, <2>6, <2>7, <2>8, <2>k DEF RotationInv
<1> QED BY <1>1, <1>2, <1>3

\* A step that only takes the journal to its next state, and the attempt with it: from which
\* place it may, to which, and what must hold of the states named.
LEMMA NextStateKeeps ==
  ASSUME RotationInv, rot # Idle, UNCHANGED <<cred, installed, stage>>, NEW s \in RunsPending \cup {"done", "rolled_back"},
         Transition(s), NEW pc \in RotationPcs, Go(pc),
         \/ rot.pc = "readback" /\ s = "minted" /\ pc = "install"
         \/ rot.pc = "rollback_row" /\ s = "rolled_back" /\ pc = "clean"
         \/ rot.pc = "mark" /\ s = "installed" /\ pc = "verify"
         \/ rot.pc = "states" /\ s = "verified" /\ pc = "retire" /\ cred[rot.new].by # "agent"
         \/ rot.pc = "retired" /\ s = "old_revoked" /\ pc = "finish"
         \/ rot.pc = "finish" /\ s = "done" /\ pc = "clean"
  PROVE  RotationInv'
<1>i. /\ InStep /\ OnDisk /\ WayBack /\ Swept /\ Known /\ Marked /\ FinishedServes /\ UnknownUntouched /\ RotationTypes
  BY DEF RotationInv
<1>j. /\ journal'.state = s /\ journal'.run = journal.run /\ journal'.old = journal.old /\ journal'.snapshot = journal.snapshot
      /\ journal'.new = IF rot.new # None THEN rot.new ELSE journal.new
  BY TransitionFacts
<1>r. /\ rot' \in Attempts /\ rot' # Idle /\ rot'.pc = pc /\ rot'.old = rot.old /\ rot'.new = rot.new /\ rot'.run = rot.run
  BY AttemptFacts DEF Go, Attempts, RotationPcs, Idle
<1>p. /\ journal.state \in StatesAt(rot.pc) /\ rot.run = journal.run /\ rot.old = journal.old
      /\ rot.pc # "rollback_row" => rot.new # None /\ journal'.new = rot.new
      /\ rot.pc \in {"readback", "mark", "states"} => stage.new = rot.new
      /\ rot.pc \in {"mark", "states", "retired", "finish"} => rot.new = journal.new
  BY <1>i, <1>j DEF InStep, StatesAt, OnDisk
<1>1. RotationTypes' BY <1>i, <1>r, TransitionFacts DEF RotationTypes
<1>2. Marked' /\ UnknownUntouched' BY <1>i, <1>j DEF Marked, UnknownUntouched
<1>3. Known' BY <1>i, <1>j, <1>r DEF Known, Ours
<1>4. InStep' BY <1>i, <1>j, <1>p, <1>r DEF InStep, StatesAt
<1>5. OnDisk'
  BY <1>i, <1>j, <1>p DEF OnDisk, RunsPending, StatesAt, WayBack
<1>6. WayBack' BY <1>i, <1>p, <1>j, <1>r DEF WayBack, OnDisk, StatesAt
<1>7. Swept' BY <1>i, <1>j, <1>p, <1>r DEF Swept, Strays, RotationLive, StatesAt
<1>8. FinishedServes'
  <2>1. CASE rot.pc = "rollback_row"
    BY <2>1, <1>i, <1>p DEF WayBack, OnDisk, StatesAt, FinishedServes
  <2>2. CASE rot.pc = "finish"
    <3>1. cred[installed].by # "agent" BY <2>2, <1>i, <1>p DEF OnDisk, StatesAt
    <3> QED BY <3>1 DEF FinishedServes
  <2>3. CASE s \notin {"done", "rolled_back"} BY <2>3, <1>j DEF FinishedServes
  <2> QED BY <2>1, <2>2, <2>3
<1> QED BY <1>1, <1>2, <1>3, <1>4, <1>5, <1>6, <1>7, <1>8 DEF RotationInv

\* A halt that revokes nothing, and a plain move.
LEMMA PlainHaltKeeps ==
  ASSUME RotationInv, rot # Idle, NEW leaves \in BOOLEAN, RotationHalt(leaves), UNCHANGED <<cred, installed, stage>>
  PROVE  RotationInv'
BY AttemptFacts, HaltKeeps DEF RotationInv, Known

LEMMA PlainGoKeeps ==
  ASSUME RotationInv, rot # Idle, UNCHANGED <<cred, installed, journal, stage>>, NEW pc \in RotationPcs, Go(pc),
         \/ rot.pc = "readback" /\ pc = "drop"
         \/ rot.pc = "install" /\ pc = "drop" /\ stage.old = None
         \/ rot.pc = "install" /\ pc = "put" /\ stage.old # None
         \/ rot.pc = "verify" /\ pc = "states" /\ installed = stage.new
         \/ rot.pc \in {"put", "verify", "states"} /\ pc = "restore"
         \/ rot.pc = "retire" /\ pc = "retired"
  PROVE  RotationInv'
<1>1. rot \in Attempts /\ rot.ends \in {"rolled_back", "halted"} BY AttemptFacts DEF Attempts
<1>2. rot' = [rot EXCEPT !.pc = pc, !.ends = rot.ends] BY <1>1 DEF Go, Attempts
<1> QED BY <1>1, <1>2, GoKeeps

LEMMA ReadBackKeeps == ASSUME RotationInv, ReadBack PROVE RotationInv'
BY NextStateKeeps, PlainGoKeeps DEF ReadBack, RotationAt, Idle, RotationPcs, RunsPending

LEMMA StateStepsKeep ==
  ASSUME RotationInv, RolledBack \/ MarkInstalled \/ MarkRetired \/ RotationDone PROVE RotationInv'
<1>1. {"clean", "verify", "finish"} \subseteq RotationPcs /\ {"installed", "old_revoked"} \subseteq RunsPending
  BY DEF RotationPcs, RunsPending
<1>2. CASE RolledBack
  BY <1>2, <1>1, NextStateKeeps DEF RolledBack, RotationAt, Idle
<1>3. CASE MarkInstalled
  BY <1>3, <1>1, NextStateKeeps DEF MarkInstalled, RotationAt, Idle
<1>4. CASE MarkRetired
  BY <1>4, <1>1, NextStateKeeps DEF MarkRetired, RotationAt, Idle
<1>5. CASE RotationDone
  BY <1>5, <1>1, NextStateKeeps DEF RotationDone, RotationAt, Idle
<1> QED BY <1>2, <1>3, <1>4, <1>5

LEMMA CleanKeeps == ASSUME RotationInv, Clean PROVE RotationInv'
<1>0. /\ rot # Idle /\ rot.pc = "clean" /\ UNCHANGED <<cred, installed, journal>>
      /\ stage' = [new |-> None, old |-> None] /\ rot' = Idle
  BY DEF Clean, RotationAt, Idle
<1>i. /\ InStep /\ OnDisk /\ WayBack /\ Swept /\ Known /\ Marked /\ FinishedServes /\ UnknownUntouched /\ RotationTypes
  BY DEF RotationInv
<1>p. journal.state \in {"done", "rolled_back"} BY <1>0, <1>i DEF InStep, StatesAt
<1>1. RotationTypes' BY <1>0, <1>i DEF RotationTypes
<1>2. Marked' /\ FinishedServes' /\ UnknownUntouched'
  BY <1>0, <1>i DEF Marked, FinishedServes, RotationLive, UnknownUntouched
<1>3. Known' BY <1>0, <1>i DEF Known, Ours
<1>4. InStep' /\ WayBack' BY <1>0 DEF InStep, WayBack
<1>5. OnDisk' BY <1>0, <1>i, <1>p DEF OnDisk, RunsPending
<1>6. Swept' BY <1>0, <1>i DEF Swept, Strays, RotationLive
<1> QED BY <1>1, <1>2, <1>3, <1>4, <1>5, <1>6 DEF RotationInv

\* The consumer's value is backed up.
LEMMA BackupKeeps == ASSUME RotationInv, Backup PROVE RotationInv'
<1>0. rot # Idle /\ rot.pc = "install" /\ UNCHANGED <<cred, installed, journal>> BY DEF Backup, RotationAt, Idle
<1>i. /\ InStep /\ OnDisk /\ WayBack /\ Swept /\ Known /\ Marked /\ FinishedServes /\ UnknownUntouched /\ RotationTypes
  BY DEF RotationInv
<1>p. journal.state = "minted" /\ stage.new # None BY <1>0, <1>i DEF InStep, StatesAt, OnDisk
<1>1. {"drop", "put"} \subseteq RotationPcs BY DEF RotationPcs
<1>2. CASE stage.old # None /\ Go("put") /\ UNCHANGED stage BY <1>0, <1>1, <1>2, PlainGoKeeps
<1>3. CASE stage.old = None /\ Go("drop") /\ UNCHANGED stage BY <1>0, <1>1, <1>3, PlainGoKeeps
<1>4. CASE stage.old = None /\ stage' = [stage EXCEPT !.old = installed] /\ Go("put")
  <2>p. installed = journal.old /\ stage'.new = stage.new /\ stage'.old = installed /\ installed # None
    BY <1>4, <1>i, <1>p, AttemptFacts DEF OnDisk, RotationTypes
  <2>r. /\ rot' \in Attempts /\ rot' # Idle /\ rot'.pc = "put" /\ rot'.old = rot.old /\ rot'.new = rot.new
        /\ rot'.run = rot.run
    BY <1>0, <1>4, AttemptFacts DEF Go, Attempts, RotationPcs, Idle
  <2>1. RotationTypes' BY <1>0, <1>4, <1>i, <2>r, AttemptFacts DEF RotationTypes
  <2>2. Marked' /\ FinishedServes' /\ UnknownUntouched'
    BY <1>0, <1>i DEF Marked, FinishedServes, RotationLive, UnknownUntouched
  <2>3. Known' BY <1>0, <1>i, <2>p, <2>r DEF Known, Ours
  <2>4. InStep' BY <1>0, <1>i, <1>p, <2>p, <2>r DEF InStep, StatesAt
  <2>5. OnDisk' BY <1>0, <1>i, <1>p, <2>p DEF OnDisk, RunsPending
  <2>6. WayBack' BY <2>p, <2>r DEF WayBack
  <2>7. Swept' BY <1>0, <1>i, <1>p, <2>r DEF Swept, Strays, RotationLive
  <2> QED BY <2>1, <2>2, <2>3, <2>4, <2>5, <2>6, <2>7 DEF RotationInv
<1> QED BY <1>p, <1>2, <1>3, <1>4 DEF Backup

\* The install call, with or without its effect.
LEMMA InstallKeeps == ASSUME RotationInv, Install PROVE RotationInv'
<1>0. rot # Idle /\ rot.pc = "put" /\ UNCHANGED <<cred, journal, stage>> BY DEF Install, RotationAt, Idle
<1>i. /\ InStep /\ OnDisk /\ WayBack /\ Swept /\ Known /\ Marked /\ FinishedServes /\ UnknownUntouched /\ RotationTypes
  BY DEF RotationInv
<1>p. /\ journal.state = "minted" /\ stage.new = journal.new /\ rot.new = journal.new /\ stage.new # None /\ stage.old # None
      /\ stage.new \in Creds /\ Ours(stage.new)
  BY <1>0, <1>i, AttemptFacts DEF InStep, StatesAt, OnDisk, WayBack, Known
<1>1. \/ installed' = stage.new /\ Go("mark")
      \/ installed' \in {installed, stage.new} /\ Go("restore")
  BY DEF Install
<1>2. installed' \in Creds /\ Ours(installed)' /\ installed' \in {journal.old, journal.new}
  BY <1>0, <1>1, <1>p, <1>i, AttemptFacts DEF Known, Ours, OnDisk
<1>r. /\ rot' \in Attempts /\ rot' # Idle /\ rot'.pc \in {"mark", "restore"} /\ rot'.old = rot.old /\ rot'.new = rot.new
      /\ rot'.run = rot.run
  BY <1>0, <1>1, AttemptFacts DEF Go, Attempts, RotationPcs, Idle
<1>3. RotationTypes' BY <1>0, <1>2, <1>i, <1>r DEF RotationTypes
<1>4. Marked' /\ UnknownUntouched' BY <1>0, <1>i DEF Marked, UnknownUntouched
<1>5. FinishedServes' BY <1>0, <1>p DEF FinishedServes
<1>6. Known' BY <1>0, <1>2, <1>i, <1>r DEF Known, Ours
<1>7. InStep' BY <1>0, <1>i, <1>p, <1>r DEF InStep, StatesAt
<1>8. OnDisk' BY <1>0, <1>2, <1>i, <1>p DEF OnDisk, RunsPending
<1>9. WayBack' BY <1>0, <1>p, <1>r DEF WayBack
<1>10. Swept' BY <1>0, <1>i, <1>p, <1>r DEF Swept, Strays, RotationLive
<1> QED BY <1>3, <1>4, <1>5, <1>6, <1>7, <1>8, <1>9, <1>10 DEF RotationInv

\* What the verification and the check of both credentials lead to.
LEMMA VerifiesKeep == ASSUME RotationInv, RotationVerify \/ CheckStates PROVE RotationInv'
<1>1. {"states", "restore", "drop", "retire"} \subseteq RotationPcs /\ "verified" \in RunsPending BY DEF RotationPcs, RunsPending
<1>2. CASE RotationVerify
  <2>0. rot # Idle /\ rot.pc = "verify" /\ UNCHANGED <<cred, installed, stage>> BY <1>2 DEF RotationVerify, RotationAt, Idle
  <2>1. \/ RotationHalt(FALSE)
        \/ installed = stage.new /\ Go("states") /\ UNCHANGED journal
        \/ Go("restore") /\ UNCHANGED journal
    BY <1>2 DEF RotationVerify
  <2> QED BY <1>1, <2>0, <2>1, PlainHaltKeeps, PlainGoKeeps
<1>3. CASE CheckStates
  <2>0. rot # Idle /\ rot.pc = "states" /\ UNCHANGED <<cred, installed, stage>> BY <1>3 DEF CheckStates, RotationAt, Idle
  <2>1. \/ RotationHalt(TRUE)
        \/ Go("restore") /\ UNCHANGED journal
        \/ rot' = [rot EXCEPT !.pc = "drop", !.ends = "halted"] /\ UNCHANGED journal
        \/ cred[rot.new].state = "active" /\ Transition("verified") /\ Go("retire")
    BY <1>3 DEF CheckStates
  <2>2. ASSUME cred[rot.new].state = "active" PROVE cred[rot.new].by # "agent"
    BY <2>0, AttemptFacts, <2>2 DEF RotationInv, InStep, StatesAt, OnDisk, Marked
  <2> QED BY <1>1, <2>0, <2>1, <2>2, PlainHaltKeeps, PlainGoKeeps, GoKeeps, NextStateKeeps
<1> QED BY <1>2, <1>3

\* The way back to the old credential.
LEMMA RestoreKeeps == ASSUME RotationInv, Restore PROVE RotationInv'
<1>0. rot # Idle /\ rot.pc = "restore" /\ UNCHANGED <<cred, stage>> BY DEF Restore, RotationAt, Idle
<1>i. /\ InStep /\ OnDisk /\ WayBack /\ Swept /\ Known /\ Marked /\ FinishedServes /\ UnknownUntouched /\ RotationTypes
  BY DEF RotationInv
<1>p. /\ journal.state \in {"minted", "installed"} /\ rot.new = journal.new /\ journal.new # None /\ journal.new # journal.old
      /\ stage.old \in {None, journal.old} /\ installed \in {journal.old, journal.new}
      /\ Ours(installed) /\ installed \in Creds /\ (stage.old # None => Ours(stage.old) /\ stage.old \in Creds)
  BY <1>0, <1>i, AttemptFacts DEF InStep, StatesAt, OnDisk, WayBack, Known, RunsPending
<1>1. \/ RotationHalt(FALSE) /\ installed' \in {installed} \cup (IF stage.old # None THEN {stage.old} ELSE {})
      \/ RotationHalt(TRUE) /\ UNCHANGED installed
      \/ /\ stage.old # None /\ installed' = stage.old /\ UNCHANGED journal
         /\ rot' = [rot EXCEPT !.pc = "drop", !.ends = "rolled_back"]
  BY DEF Restore, RestoredValue
<1>2. CASE RotationHalt(FALSE) /\ installed' \in {installed} \cup (IF stage.old # None THEN {stage.old} ELSE {})
  BY <1>2, <1>p, <1>0, HaltKeeps
<1>3. CASE RotationHalt(TRUE) /\ UNCHANGED installed BY <1>0, <1>3, PlainHaltKeeps
<1>4. CASE /\ stage.old # None /\ installed' = stage.old /\ UNCHANGED journal
           /\ rot' = [rot EXCEPT !.pc = "drop", !.ends = "rolled_back"]
  <2>r. /\ rot' \in Attempts /\ rot' # Idle /\ rot'.pc = "drop" /\ rot'.old = rot.old /\ rot'.new = rot.new
        /\ rot'.run = rot.run
    BY <1>0, <1>4, AttemptFacts DEF Attempts, RotationPcs, Idle
  <2>p. installed' = journal.old /\ installed' \in Creds /\ Ours(installed)' BY <1>0, <1>4, <1>p DEF Ours
  <2>1. RotationTypes' BY <1>0, <1>4, <1>i, <2>p, <2>r DEF RotationTypes
  <2>2. Marked' /\ UnknownUntouched' BY <1>0, <1>4, <1>i DEF Marked, UnknownUntouched
  <2>3. FinishedServes' BY <1>4, <1>p DEF FinishedServes
  <2>4. Known' BY <1>0, <1>4, <1>i, <2>p, <2>r DEF Known, Ours
  <2>5. InStep' BY <1>0, <1>4, <1>i, <1>p, <2>r DEF InStep, StatesAt
  <2>6. OnDisk' BY <1>0, <1>4, <1>i, <1>p, <2>p DEF OnDisk, RunsPending
  <2>7. WayBack' BY <1>4, <1>p, <2>p, <2>r DEF WayBack
  <2>8. Swept' BY <1>0, <1>4, <1>i, <1>p, <2>r DEF Swept, Strays, RotationLive
  <2> QED BY <2>1, <2>2, <2>3, <2>4, <2>5, <2>6, <2>7, <2>8 DEF RotationInv
<1> QED BY <1>1, <1>2, <1>3, <1>4

\* People and time, at the provider: one row changes, and never to the agent's doing.
LEMMA PeopleKeep ==
  ASSUME RotationInv, NEW c \in Creds, HumanRevoke(c) \/ Expire(c) \/ HumanMint(c) PROVE RotationInv'
<1>0. UNCHANGED <<installed, journal, stage, rot>> BY DEF HumanRevoke, Expire, HumanMint
<1>i. /\ InStep /\ OnDisk /\ WayBack /\ Swept /\ Known /\ Marked /\ FinishedServes /\ UnknownUntouched /\ RotationTypes
  BY DEF RotationInv
<1>1. /\ cred' \in [Creds -> CredRows] /\ \A d \in Creds : d # c => cred'[d] = cred[d]
      /\ cred'[c].by # "agent" /\ cred'[c].run = cred[c].run /\ cred'[c].label = cred[c].label
      /\ cred'[c].state # "none" /\ (cred[c].state = "none" => cred[c].run = None)
      /\ RotationLive(c)' => cred[c].state = "none" /\ cred'[c].label = "none"
  <2>1. CASE HumanRevoke(c)
    <3>1. cred'[c] = [cred[c] EXCEPT !.state = "revoked", !.by = "human"] /\ \A d \in Creds : d # c => cred'[d] = cred[d]
      BY <2>1, AttemptFacts DEF HumanRevoke
    <3>2. cred' = [cred EXCEPT ![c] = [cred[c] EXCEPT !.state = "revoked", !.by = "human"]]
      BY <2>1, AttemptFacts DEF HumanRevoke
    <3>0. cred[c] \in CredRows BY <1>i DEF RotationTypes
    <3>3. cred'[c] \in CredRows BY <3>0, <3>1 DEF CredRows
    <3>4. cred' = [cred EXCEPT ![c] = cred'[c]] BY <3>1, <3>2
    <3> QED BY <2>1, <3>1, <3>3, <3>4, AttemptFacts DEF HumanRevoke, RotationLive, CredRows
  <2>2. CASE Expire(c)
    BY <2>2, AttemptFacts, <1>i DEF Expire, CredRows, RotationLive, Marked
  <2>3. CASE HumanMint(c)
    BY <2>3, AttemptFacts, <1>i DEF HumanMint, CredRows, Unminted, None, Marked
  <2> QED BY <2>1, <2>2, <2>3
<1>2. \A d \in Creds : Ours(d) => Ours(d)' BY <1>1 DEF Ours
<1>3. RotationTypes' BY <1>0, <1>1, <1>i DEF RotationTypes
<1>4. Marked'
  BY <1>0, <1>1, <1>i DEF Marked
<1>5. Known'
  BY <1>i, <1>2, AttemptFacts, <1>0 DEF Known
<1>6. \A d \in Creds : cred[d].by # "agent" => cred'[d].by # "agent" BY <1>1
<1>7. InStep' BY <1>0, <1>6, <1>i, AttemptFacts DEF InStep
<1>8. OnDisk' BY <1>0, <1>6, <1>i, AttemptFacts DEF OnDisk, RunsPending
<1>9. WayBack' BY <1>0, <1>i DEF WayBack
<1>10. Swept'
  BY <1>0, <1>1, <1>i DEF Strays, RotationLive, Swept
<1>11. FinishedServes' BY <1>0, <1>1, <1>i, AttemptFacts DEF FinishedServes, RotationLive
<1>12. UnknownUntouched' BY <1>1, <1>i DEF UnknownUntouched
<1> QED BY <1>3, <1>4, <1>5, <1>7, <1>8, <1>9, <1>10, <1>11, <1>12 DEF RotationInv

LEMMA RotationKeeps == RotationInv /\ [RotationNext]_rotationVars => RotationInv'
<1> SUFFICES ASSUME RotationInv, [RotationNext]_rotationVars PROVE RotationInv' OBVIOUS
<1>1. CASE UNCHANGED rotationVars
  <2>1. UNCHANGED <<cred, installed, journal, stage, rot>> BY <1>1 DEF rotationVars
  <2>2. RotationTypes' BY <2>1 DEF RotationInv, RotationTypes
  <2>3. Marked' /\ UnknownUntouched' /\ FinishedServes'
    BY <2>1 DEF RotationInv, Marked, UnknownUntouched, FinishedServes, RotationLive
  <2>4. Known' /\ InStep' /\ OnDisk' /\ WayBack' BY <2>1 DEF RotationInv, Known, Ours, InStep, OnDisk, WayBack
  <2>5. Swept' BY <2>1 DEF RotationInv, Swept, Strays, RotationLive
  <2> QED BY <2>2, <2>3, <2>4, <2>5 DEF RotationInv
<1>2. CASE RotationStep
  BY <1>2, PlanKeeps, SweepListKeeps, SweepEndKeeps, MintNoneKeeps, StageKeeps, ReadBackKeeps, DropKeeps, StateStepsKeep,
     CleanKeeps, BackupKeeps, InstallKeeps, VerifiesKeep, RestoreKeeps, RetireKeeps, SweepOneKeeps, MintKeeps
     DEF RotationStep
<1> QED BY <1>1, <1>2, FreshKeeps, ResumeKeeps, CrashKeeps, ClearKeeps, TidyKeeps, PeopleKeep DEF RotationNext

\* Whatever crashes, lost answers and resumes a rotation takes, with any number of credentials:
\* a finished one leaves the consumer with a credential the agent has not killed, nothing of its
\* own astray, and never touched what it could not tell for its own.
THEOREM RotationAlwaysSound == RotationSpec => [](FinishedServes /\ NoStrayCredential /\ UnknownUntouched)
<1>1. RotationInv => FinishedServes /\ NoStrayCredential /\ UnknownUntouched
  BY DEF RotationInv, Swept, Strays, NoStrayCredential
<1> QED BY <1>1, RotationBegins, RotationKeeps, PTL DEF RotationSpec

-----------------------------------------------------------------------------
(* Token renewal: the inductive invariant *)

Stray(t) == token[t].minter = "tool" /\ token[t].state = "active" /\ t \notin adopted
StraysIn(S) == \A t \in Tokens : Stray(t) => t \in S
Issued(t) == t \in Tokens /\ token[t].state # "none"

TokenRows ==
  [state : {"none", "active", "revoked", "expired"}, by : {"nobody", "tool", "human"}, grant : {"same", "other"},
   agent : {"own", "other"}, minter : {"nobody", "tool", "misnamed", "human"}]
Intents ==
  [phase : {"minting", "minted", "verified"}, old : Tokens, new : Tokens \cup {Ghost}, known : SUBSET Tokens,
   oldRevoked : BOOLEAN]
RunFields ==
  {"pc", "old", "new", "raw", "known", "current", "todo", "goal", "found", "clean", "keep", "rc", "stale", "force",
   "oldActive", "ok"}
Early == {"list", "mint", "record", "confirm", "swap"}
Sweeping == {"sweep", "orphans", "swept"}
Recovering == {"unstored", "issued"}
Proving == {"swap", "verify", "check", "halted_new", "finish", "undo", "undo_new"}
Dropping == {"drop_new", "dropped"}
Closing == {"close", "closed"}
Goals == {"none", "recover", "refuse", "mint_failed", "abandon", "abandon_answer"}

RowsSound ==
  /\ token \in [Tokens -> TokenRows]
  /\ \A t \in Tokens : token[t].state = "revoked" <=> token[t].by # "nobody"
  /\ \A t \in Tokens : token[t].minter = "tool" => token[t].grant = "same" /\ token[t].agent = "own"

RunTypes ==
  rn.pc # "idle" =>
    /\ DOMAIN rn = RunFields
    /\ rn.pc \in {"decide", "recheck"} \cup Early \cup Sweeping \cup Recovering \cup Proving \cup Dropping \cup Closing
    /\ rn.goal \in Goals /\ rn.stale \in BOOLEAN /\ rn.clean \in BOOLEAN /\ rn.keep \in BOOLEAN
    /\ rn.found \in BOOLEAN
    /\ rn.old \in Tokens \cup {Ghost} /\ rn.new \in Tokens \cup {Ghost}
    /\ rn.known \subseteq Tokens \cup {Ghost} /\ rn.todo \subseteq Tokens

\* The journal names a snapshot of tokens that exist, the old one among them, and a new one outside it;
\* unless it says verified, only a person revokes the old one.
JournalSound ==
  intent.phase # "none" =>
    /\ intent \in Intents /\ intent.old \in intent.known /\ intent.new \notin intent.known
    /\ \A t \in intent.known : Issued(t)
    /\ intent.new # Ghost => Issued(intent.new)
    /\ intent.phase = "minting" => intent.new = Ghost
    /\ intent.phase = "verified" => intent.new # Ghost
    /\ intent.phase # "verified" /\ ~intent.oldRevoked /\ token[intent.old].state = "revoked" =>
         token[intent.old].by = "human"

\* The journal's phase at each step of a run, and what the run shares with it.
RunInStep ==
  /\ rn.pc \in {"decide", "list"} => intent.phase = "none"
  /\ rn.pc \in {"mint", "record"} => intent.phase = "minting"
  /\ rn.pc \in {"confirm"} \cup Proving => intent.phase = "minted"
  /\ rn.pc \in Recovering => intent.phase = "minted" /\ rn.goal = "recover"
  /\ rn.pc \in Sweeping =>
       \/ rn.goal = "recover" /\ intent.phase \in {"minting", "minted"}
       \/ rn.goal = "mint_failed" /\ intent.phase = "minting"
       \/ rn.goal \in {"refuse", "abandon", "abandon_answer"} /\ intent.phase = "minted"
  /\ rn.pc \in Dropping => intent.phase \in {"minting", "minted"} /\ (rn.keep => intent.phase = "minted")
  /\ rn.pc = "recheck" => intent.phase \in {"minted", "verified"}
  /\ rn.pc \in Closing => intent.phase = "verified"
  /\ late => rn.pc = "idle" \/ (rn.pc \in Sweeping /\ rn.goal = "mint_failed")

Shared ==
  /\ rn.pc \notin {"idle", "decide"} => Issued(rn.old)
  /\ rn.pc \notin {"idle", "decide", "list"} => rn.old = intent.old /\ intent.known \subseteq rn.known
  /\ rn.pc \in {"confirm", "recheck"} \cup Recovering \cup Proving \cup Closing => rn.new = intent.new
  /\ rn.pc \in Sweeping /\ rn.goal \in {"abandon", "abandon_answer"} => rn.new = intent.new
  /\ rn.pc \in Dropping /\ intent.phase = "minted" => rn.new = intent.new
  /\ rn.pc \in {"record"} \cup Dropping => rn.new \notin intent.known /\ (rn.new # Ghost => Issued(rn.new))
  /\ rn.pc \in {"recheck", "dropped"} \cup Proving \cup Closing => rn.new \in Tokens
  /\ rn.pc = "orphans" => \A t \in rn.todo : Issued(t) /\ t \notin rn.known /\ t # rn.current /\ token[t].agent = "own"
  /\ rn.pc = "halted_new" => token[rn.old].by = "human"

\* What a run last saw in the store is still there unless somebody edited it.
Looked ==
  /\ rn.pc \in Early \cup Recovering \cup Sweeping /\ ~rn.stale => store.value = rn.current
  /\ rn.pc \in {"recheck", "close"} /\ ~rn.stale => store.value = rn.new
  /\ rn.pc = "unstored" => rn.current # rn.new

\* Where a token nobody adopted yet can be: late, outside the snapshot, or the journal's new one.
Tracked ==
  /\ DOMAIN store = {"value", "rest"} /\ (store.value = Torn \/ Issued(store.value))
  /\ intent.phase = "none" => ~late /\ StraysIn({})
  /\ late => intent.phase = "minting"
  /\ intent.phase # "none" => \A t \in intent.known : ~Stray(t)
  /\ intent.phase \in {"minted", "verified"} /\ intent.new # Ghost => StraysIn({intent.new})
  /\ store.value # Torn /\ Stray(store.value) => intent.phase \in {"minted", "verified"} /\ store.value = intent.new

\* The same for the tokens a run has in hand.
InHand ==
  /\ rn.pc = "mint" => StraysIn({})
  /\ rn.pc \in {"record", "drop_new"} /\ rn.new # Ghost /\ intent.phase = "minting" => StraysIn({rn.new})
  /\ rn.pc = "dropped" => token[rn.new].state = "revoked" /\ (intent.phase = "minting" => StraysIn({}))
  /\ rn.pc \in Recovering \cup Sweeping /\ rn.goal = "recover" =>
       /\ Issued(rn.current) /\ ~Stray(rn.current)
       /\ \A t \in rn.known : Issued(t) /\ ~Stray(t)
  /\ rn.pc = "orphans" /\ rn.goal = "recover" /\ rn.clean => StraysIn(rn.todo)
  /\ rn.pc = "swept" /\ rn.goal = "recover" /\ rn.clean => StraysIn({})

RenewalInv ==
  RowsSound /\ RunTypes /\ JournalSound /\ RunInStep /\ Shared /\ Looked /\ Tracked /\ InHand

\* What a step may do to the authority's rows short of a mint: one token, at most, loses its life.
Fades(t) ==
  /\ RowsSound'
  /\ \A u \in Tokens :
       /\ u # t => token'[u] = token[u]
       /\ token'[u].agent = token[u].agent /\ (token'[u].state = "none" <=> token[u].state = "none")
       /\ token[u].by = "human" => token'[u].by = "human"
       /\ Stray(u)' => Stray(u)

-----------------------------------------------------------------------------
(* Token renewal: what the steps use *)

Less == {ss \in Nat \X Nat : ss[1] < ss[2]}
LEMMA NatMin == ASSUME NEW T, T \subseteq Nat, T # {} PROVE \E m \in T : \A n \in T : m <= n
<1>1. IsWellFoundedOn(Less, Nat)
  BY NatLessThanWellFounded DEF OpToRel, Less
<1>2. PICK x \in T : \A y \in T : ~(<<y, x>> \in Less)
  BY <1>1, WFMin
<1>3. \A y \in T : ~(y < x)
  BY <1>2 DEF Less
<1> QED BY <1>3

\* A mint takes an id that was never issued.
LEMMA FreshId == ASSUME Room PROVE Next0 \in Tokens /\ token[Next0].state = "none"
<1> DEFINE Free == {t \in Tokens : token[t].state = "none"}
<1>1. Free \subseteq Nat /\ Free # {} BY RenewalAssumption DEF Room, RenewalAssumption
<1>2. PICK m \in Free : \A n \in Free : m <= n BY <1>1, NatMin
<1>3. \E t \in Tokens : token[t].state = "none" /\ \A u \in Tokens : token[u].state = "none" => t <= u BY <1>2
<1> QED BY <1>3 DEF Next0

\* No step at the authority: nothing fades.
LEMMA SameRows == ASSUME RowsSound, UNCHANGED <<token, adopted>>, NEW t PROVE Fades(t)
BY DEF Fades, RowsSound, TokenRows, Stray

LEMMA MoreAdopted == ASSUME RowsSound, UNCHANGED token, adopted \subseteq adopted', NEW t PROVE Fades(t)
BY DEF Fades, RowsSound, TokenRows, Stray

\* A row that dies, and nothing else.
LEMMA KillFades ==
  ASSUME RowsSound, NEW t \in Tokens, NEW who \in {"tool", "human"}, token[t].by = "nobody", token[t].state # "none",
         token' = [token EXCEPT ![t].state = "revoked", ![t].by = who], UNCHANGED adopted
  PROVE  Fades(t) /\ token'[t].state = "revoked" /\ token'[t].by = who
BY DEF RowsSound, TokenRows, Fades, Stray

\* revoke: what each answer means.
LEMMA KilledFacts ==
  ASSUME RowsSound, NEW t \in Tokens \cup {Ghost}, t # Ghost => token[t].state # "none",
         NEW r \in RevokeToken(t), token' = r.rows, UNCHANGED adopted
  PROVE  /\ Fades(t) /\ r.answer \in {"ok", "failed", "refused", "missing"}
         /\ r.answer = "missing" => t = Ghost
         /\ r.answer = "refused" => t # Ghost /\ token[t].agent # "own" /\ UNCHANGED token
         /\ r.answer = "ok" => t \in Tokens /\ token'[t].state = "revoked" /\ token[t].agent = "own"
<1>1. CASE r.rows = token
  <2>1. Fades(t) BY <1>1, SameRows
  <2> QED BY <1>1, <2>1 DEF RevokeToken, Killed, RowsSound, TokenRows
<1>2. CASE r.rows # token
  <2>1. /\ t # Ghost /\ token[t].agent = "own" /\ token[t].state # "revoked"
        /\ r.rows = Killed(t) /\ r.answer \in {"ok", "failed"}
    BY <1>2 DEF RevokeToken
  <2>2. t \in Tokens /\ token[t].by = "nobody" BY <2>1 DEF RowsSound, TokenRows
  <2>3. Fades(t) /\ token'[t].state = "revoked" BY <2>1, <2>2, KillFades DEF Killed
  <2> QED BY <2>1, <2>2, <2>3
<1> QED BY <1>1, <1>2

\* A process that ends leaves nothing of the run behind.
LEMMA RunEnds == ASSUME rn' = Asleep PROVE RunTypes' /\ RunInStep' /\ Shared' /\ Looked' /\ InHand'
BY DEF Asleep, RunTypes, RunInStep, Shared, Looked, InHand, Early, Sweeping, Recovering, Proving, Dropping, Closing

\* The journal stays true while tokens fade, if the old one is spared before the proof.
LEMMA JournalStays ==
  ASSUME JournalSound, Tracked, UNCHANGED <<late, store, intent>>, NEW t \in Tokens \cup {Ghost}, Fades(t),
         t # intent.old \/ intent.phase \in {"none", "verified"}
  PROVE  RowsSound' /\ JournalSound' /\ Tracked'
<1>1. /\ RowsSound' /\ \A u \in Tokens : (token'[u].state = "none" <=> token[u].state = "none") /\ (Stray(u)' => Stray(u))
      /\ \A u : Issued(u)' <=> Issued(u)
  BY DEF Fades, Issued
<1>2. JournalSound'
  BY <1>1 DEF JournalSound, Intents, Fades
<1>3. Tracked'
  BY <1>1 DEF JournalSound, Intents, Tracked, Issued, StraysIn
<1> QED BY <1>1, <1>2, <1>3

\* The journal may go once nothing is astray.
LEMMA JournalGoes ==
  ASSUME JournalSound, Tracked, UNCHANGED <<late, store>>, ~late, NEW t \in Tokens \cup {Ghost}, Fades(t),
         intent' = NoIntent, \A u \in Tokens : ~Stray(u)'
  PROVE  RowsSound' /\ JournalSound' /\ Tracked'
BY DEF Fades, Issued, NoIntent, Tracked, JournalSound, StraysIn

LEMMA RunRenewalKeeps == ASSUME RenewalInv, NEW force \in BOOLEAN, RunRenewal(force) PROVE RenewalInv'
<1>i. RowsSound /\ RunTypes /\ JournalSound /\ RunInStep /\ Shared /\ Looked /\ Tracked /\ InHand BY DEF RenewalInv
<1>0. UNCHANGED <<token, late, store, intent, adopted>> /\ ~late /\ store.value # Torn /\ rn.pc = "idle"
  BY DEF RunRenewal, Running
<1>1. Fades(Ghost) BY <1>0, <1>i, SameRows
<1>2. RowsSound' /\ JournalSound' /\ Tracked' BY <1>0, <1>1, <1>i, JournalStays, RenewalAssumption DEF JournalSound, Intents, RenewalAssumption
<1>3. Issued(store.value) BY <1>0, <1>i DEF Tracked
<1>4. CASE intent.phase = "none"
  <2>1. rn'.pc = "decide" /\ DOMAIN rn' = RunFields /\ rn'.goal = "none" /\ rn'.stale = FALSE /\ rn'.clean = TRUE
        /\ rn'.keep = FALSE /\ rn'.found = FALSE /\ rn'.old = Ghost /\ rn'.new = Ghost /\ rn'.known = {} /\ rn'.todo = {}
    BY <1>4 DEF RunRenewal, Awake, Entry, RunFields
  <2>2. RunTypes' /\ RunInStep' /\ Shared' /\ Looked' /\ InHand'
    BY <1>0, <1>4, <1>i, <2>1 DEF RunTypes, RunInStep, Shared, Looked, InHand, Early, Sweeping, Recovering, Proving, Dropping, Closing, Goals, Tracked
  <2> QED BY <1>2, <2>2 DEF RenewalInv
<1>5. CASE intent.phase # "none"
  <2>j. intent \in Intents /\ intent.phase \in {"minting", "minted", "verified"} BY <1>5, <1>i DEF JournalSound, Intents
  <2>1. /\ rn'.pc = Entry /\ DOMAIN rn' = RunFields /\ rn'.goal = "recover" /\ rn'.stale = FALSE /\ rn'.clean = TRUE
        /\ rn'.keep = FALSE /\ rn'.found = FALSE /\ rn'.old = intent.old /\ rn'.known = intent.known /\ rn'.todo = {}
        /\ rn'.new = (IF intent.phase = "minting" THEN Ghost ELSE intent.new) /\ rn'.current = store.value
        /\ ~(intent.phase = "verified" /\ store.value # intent.new)
    BY <1>5 DEF RunRenewal, Awake, RunFields
  <2>2. /\ intent.phase = "minting" => rn'.pc = "sweep"
        /\ intent.phase = "minted" => rn'.pc = (IF store.value = intent.new THEN "recheck" ELSE "unstored")
        /\ intent.phase = "verified" => rn'.pc = "recheck"
    BY <2>1 DEF Entry
  <2>3. RunTypes'
    BY <1>0, <2>1, <2>2, <2>j DEF RunTypes, Early, Sweeping, Recovering, Proving, Dropping, Closing, Goals, Intents
  <2>4. RunInStep'
    BY <1>0, <2>1, <2>2, <2>j DEF RunInStep, Early, Sweeping, Recovering, Proving, Dropping, Closing
  <2>5. Shared'
    BY <1>0, <1>3, <1>i, <2>1, <2>2, <2>j DEF Shared, Early, Sweeping, Recovering, Proving, Dropping, Closing, JournalSound, Issued
  <2>6. Looked'
    BY <1>0, <2>1, <2>2, <2>j DEF Looked, Early, Sweeping, Recovering, Proving, Dropping, Closing
  <2>7. InHand'
    BY <1>0, <1>3, <1>i, <2>1, <2>2, <2>j DEF InHand, Tracked, Early, Sweeping, Recovering, Proving, Dropping, Closing, JournalSound, Issued, Stray
  <2> QED BY <1>2, <2>3, <2>4, <2>5, <2>6, <2>7 DEF RenewalInv
<1> QED BY <1>4, <1>5

LEMMA RevokeUnstoredKeeps == ASSUME RenewalInv, RevokeUnstored PROVE RenewalInv'
<1>i. RowsSound /\ RunTypes /\ JournalSound /\ RunInStep /\ Shared /\ Looked /\ Tracked /\ InHand BY DEF RenewalInv
<1>0. UNCHANGED <<late, store, intent, adopted>> /\ rn.pc = "unstored" BY DEF RevokeUnstored, Running
<1>p. /\ intent.phase = "minted" /\ rn.goal = "recover" /\ rn.new = intent.new /\ rn.old = intent.old
      /\ intent \in Intents /\ rn.new \in Tokens \cup {Ghost} /\ (rn.new # Ghost => Issued(rn.new))
      /\ rn.new \notin intent.known /\ intent.old \in intent.known /\ intent.known \subseteq rn.known
      /\ DOMAIN rn = RunFields /\ ~late
  BY <1>0, <1>i DEF RunInStep, Shared, Recovering, JournalSound, Sweeping, Intents, RunTypes
<1>1. PICK r \in RevokeToken(rn.new) :
        /\ token' = r.rows
        /\ CASE r.answer = "ok" ->
                  rn' = [rn EXCEPT !.pc = "sweep", !.known = @ \cup {rn.new}, !.goal = "recover"]
             [] r.answer = "refused" ->
                  rn' = [rn EXCEPT !.pc = "sweep", !.known = @ \cup {rn.new}, !.goal = "refuse"]
             [] r.answer = "missing" -> rn' = [rn EXCEPT !.pc = "issued", !.goal = "recover"]
             [] r.answer = "failed" -> Exit
  BY DEF RevokeUnstored
<1>2. /\ Fades(rn.new) /\ r.answer \in {"ok", "failed", "refused", "missing"}
      /\ r.answer = "missing" => rn.new = Ghost
      /\ r.answer = "refused" => rn.new # Ghost
      /\ r.answer = "ok" => rn.new \in Tokens /\ token'[rn.new].state = "revoked"
  BY <1>0, <1>1, <1>i, <1>p, KilledFacts DEF Issued
<1>3. RowsSound' /\ JournalSound' /\ Tracked' BY <1>0, <1>2, <1>i, <1>p, JournalStays
<1>4. CASE r.answer = "failed"
  <2>1. rn' = Asleep BY <1>1, <1>4 DEF Exit
  <2> QED BY <1>3, <2>1, RunEnds DEF RenewalInv
<1>5. CASE r.answer # "failed"
  <2>r. /\ DOMAIN rn' = RunFields /\ rn'.old = rn.old /\ rn'.new = rn.new /\ rn'.current = rn.current /\ rn'.todo = rn.todo
        /\ rn'.stale = rn.stale /\ rn'.clean = rn.clean /\ rn'.keep = rn.keep /\ rn'.found = rn.found
        /\ r.answer = "missing" => rn'.pc = "issued" /\ rn'.goal = "recover" /\ rn'.known = rn.known
        /\ r.answer = "ok" => rn'.pc = "sweep" /\ rn'.goal = "recover" /\ rn'.known = rn.known \cup {rn.new}
        /\ r.answer = "refused" => rn'.pc = "sweep" /\ rn'.goal = "refuse" /\ rn'.known = rn.known \cup {rn.new}
    BY <1>1, <1>2, <1>5, <1>p DEF RunFields
  <2>1. RunTypes'
    BY <1>0, <1>2, <1>5, <1>i, <2>r DEF RunTypes, Sweeping, Recovering, Goals
  <2>2. RunInStep'
    BY <1>0, <1>2, <1>5, <1>p, <2>r DEF RunInStep, Early, Sweeping, Recovering, Proving, Dropping, Closing
  <2>3. Shared'
    BY <1>0, <1>2, <1>5, <1>i, <1>p, <2>r DEF Shared, Fades, Issued, Sweeping, Recovering, Proving, Dropping, Closing
  <2>4. Looked'
    BY <1>0, <1>2, <1>5, <1>i, <1>p, <2>r DEF Looked, Early, Sweeping, Recovering
  <2>5. InHand'
    BY <1>0, <1>2, <1>5, <1>i, <1>p, <2>r DEF InHand, Fades, Issued, Stray, Tracked, StraysIn, JournalSound, Sweeping, Recovering
  <2> QED BY <1>3, <2>1, <2>2, <2>3, <2>4, <2>5 DEF RenewalInv
<1> QED BY <1>4, <1>5

LEMMA NeverIssuedKeeps == ASSUME RenewalInv, NeverIssued PROVE RenewalInv'
<1>i. RowsSound /\ RunTypes /\ JournalSound /\ RunInStep /\ Shared /\ Looked /\ Tracked /\ InHand BY DEF RenewalInv
<1>0. UNCHANGED <<token, late, store, intent, adopted>> /\ rn.pc = "issued" BY DEF NeverIssued, Running
<1>1. Fades(Ghost) BY <1>0, <1>i, SameRows
<1>2. RowsSound' /\ JournalSound' /\ Tracked'
  BY <1>0, <1>1, <1>i, JournalStays, RenewalAssumption DEF JournalSound, Intents, RenewalAssumption
<1>3. CASE rn' = Asleep BY <1>2, <1>3, RunEnds DEF RenewalInv
<1>4. CASE rn' = [rn EXCEPT !.pc = "sweep"]
  <2>1. DOMAIN rn = RunFields /\ rn'.pc = "sweep" BY <1>0, <1>4, <1>i DEF RunTypes, RunFields
  <2>r. /\ DOMAIN rn' = RunFields /\ rn'.old = rn.old /\ rn'.new = rn.new /\ rn'.current = rn.current /\ rn'.todo = rn.todo
        /\ rn'.stale = rn.stale /\ rn'.clean = rn.clean /\ rn'.keep = rn.keep /\ rn'.found = rn.found
        /\ rn'.known = rn.known /\ rn'.goal = rn.goal
    BY <1>4, <2>1 DEF RunFields
  <2>2. RunTypes' BY <1>0, <1>i, <2>1, <2>r DEF RunTypes, Sweeping, Goals
  <2>3. RunInStep' /\ Shared'
    BY <1>0, <1>i, <2>1, <2>r DEF RunInStep, Shared, Issued, Early, Sweeping, Recovering, Proving, Dropping, Closing
  <2>4. Looked' /\ InHand'
    BY <1>0, <1>i, <2>1, <2>r DEF Looked, RunInStep, InHand, Issued, Stray, Early, Sweeping, Recovering
  <2> QED BY <1>2, <2>2, <2>3, <2>4 DEF RenewalInv
<1> QED BY <1>3, <1>4 DEF NeverIssued, Exit, Step

LEMMA SweepTokensKeeps == ASSUME RenewalInv, SweepTokens PROVE RenewalInv'
<1>i. RowsSound /\ RunTypes /\ JournalSound /\ RunInStep /\ Shared /\ Looked /\ Tracked /\ InHand BY DEF RenewalInv
<1>0. UNCHANGED <<token, late, store, intent, adopted>> /\ rn.pc = "sweep" BY DEF SweepTokens, Running
<1>1. Fades(Ghost) BY <1>0, <1>i, SameRows
<1>2. RowsSound' /\ JournalSound' /\ Tracked'
  BY <1>0, <1>1, <1>i, JournalStays, RenewalAssumption DEF JournalSound, Intents, RenewalAssumption
<1>3. DOMAIN rn = RunFields BY <1>0, <1>i DEF RunTypes
<1>r. /\ DOMAIN rn' = RunFields /\ rn'.old = rn.old /\ rn'.new = rn.new /\ rn'.current = rn.current
      /\ rn'.stale = rn.stale /\ rn'.keep = rn.keep /\ rn'.known = rn.known /\ rn'.goal = rn.goal
      /\ rn'.found = FALSE /\ rn'.clean \in BOOLEAN
      /\ \/ rn'.pc = "orphans" /\ rn'.todo = Orphans
         \/ rn'.pc = "swept" /\ rn'.todo = rn.todo /\ rn'.clean = FALSE
  BY <1>3 DEF SweepTokens, RunFields
<1>4. /\ Orphans \subseteq Tokens /\ \A t \in Orphans : Issued(t) /\ t \notin rn.known /\ t # rn.current /\ token[t].agent = "own"
  BY DEF Orphans, ListTokens, Issued
<1>5. rn.goal = "recover" => StraysIn(Orphans)
  <2>1. rn.goal = "recover" => ~Stray(rn.old) /\ ~Stray(rn.current) /\ \A t \in rn.known : ~Stray(t)
    BY <1>0, <1>i DEF RunInStep, Shared, InHand, Tracked, Sweeping, JournalSound, Intents
  <2> QED BY <1>i, <2>1 DEF StraysIn, Orphans, ListTokens, Stray, RowsSound
<1>6. RunTypes' BY <1>0, <1>4, <1>i, <1>r DEF RunTypes, Sweeping, Goals
<1>7. RunInStep' /\ Shared'
  BY <1>0, <1>4, <1>i, <1>r DEF RunInStep, Shared, Issued, Early, Sweeping, Recovering, Proving, Dropping, Closing
<1>8. Looked' BY <1>0, <1>i, <1>r DEF Looked, Early, Sweeping, Recovering
<1>9. InHand' BY <1>0, <1>5, <1>i, <1>r DEF InHand, Issued, Stray, StraysIn, Sweeping, Recovering
<1> QED BY <1>2, <1>6, <1>7, <1>8, <1>9 DEF RenewalInv

LEMMA RevokeOrphanKeeps == ASSUME RenewalInv, RevokeOrphan PROVE RenewalInv'
<1>i. RowsSound /\ RunTypes /\ JournalSound /\ RunInStep /\ Shared /\ Looked /\ Tracked /\ InHand BY DEF RenewalInv
<1>0. UNCHANGED <<late, store, intent, adopted>> /\ rn.pc = "orphans" BY DEF RevokeOrphan, Running
<1>p. DOMAIN rn = RunFields /\ rn.todo \subseteq Tokens /\ intent.phase \in {"minting", "minted"}
      /\ \A t \in rn.todo : Issued(t) /\ t \notin rn.known /\ token[t].agent = "own"
      /\ intent.old \in rn.known
  BY <1>0, <1>i DEF RunTypes, RunInStep, Shared, Sweeping, JournalSound
<1>1. CASE rn.todo = {}
  <2>0. rn' = [rn EXCEPT !.pc = "swept"] /\ UNCHANGED token BY <1>1 DEF RevokeOrphan, Step
  <2>r. /\ DOMAIN rn' = RunFields /\ rn'.old = rn.old /\ rn'.new = rn.new /\ rn'.current = rn.current
        /\ rn'.stale = rn.stale /\ rn'.keep = rn.keep /\ rn'.known = rn.known /\ rn'.goal = rn.goal
        /\ rn'.found = rn.found /\ rn'.clean = rn.clean /\ rn'.pc = "swept" /\ rn'.todo = rn.todo
    BY <1>p, <2>0 DEF RunFields
  <2>1. Fades(Ghost) BY <1>0, <1>i, <2>0, SameRows
  <2>2. RowsSound' /\ JournalSound' /\ Tracked'
    BY <1>0, <1>i, <1>p, <2>1, JournalStays, RenewalAssumption DEF JournalSound, Intents, RenewalAssumption
  <2>3. RunTypes' BY <1>0, <1>i, <2>r DEF RunTypes, Sweeping, Goals
  <2>4. RunInStep' /\ Shared'
    BY <1>0, <1>i, <2>0, <2>r DEF RunInStep, Shared, Issued, Early, Sweeping, Recovering, Proving, Dropping, Closing
  <2>5. Looked' BY <1>0, <1>i, <2>r DEF Looked, Early, Sweeping, Recovering
  <2>6. InHand' BY <1>0, <1>1, <1>i, <2>0, <2>r DEF InHand, Issued, Stray, StraysIn, Sweeping, Recovering
  <2> QED BY <2>2, <2>3, <2>4, <2>5, <2>6 DEF RenewalInv
<1>2. CASE rn.todo # {}
  <2> DEFINE t == CHOOSE u \in rn.todo : TRUE
  <2>t. t \in rn.todo /\ t \in Tokens /\ t # Ghost /\ t # intent.old /\ Issued(t)
    BY <1>2, <1>p, RenewalAssumption DEF RenewalAssumption
  <2> HIDE DEF t
  <2>0. PICK r \in RevokeToken(t) :
          /\ token' = r.rows
          /\ rn' = [rn EXCEPT !.todo = @ \ {t}, !.found = @ \/ r.answer = "ok", !.clean = @ /\ r.answer = "ok"]
    BY <1>2 DEF RevokeOrphan, t
  <2>1. Fades(t) /\ r.answer = "ok" => token'[t].state = "revoked" BY <1>0, <1>i, <2>0, <2>t, KilledFacts DEF Issued
  <2>f. Fades(t) BY <1>0, <1>i, <2>0, <2>t, KilledFacts DEF Issued
  <2>r. /\ DOMAIN rn' = RunFields /\ rn'.old = rn.old /\ rn'.new = rn.new /\ rn'.current = rn.current
        /\ rn'.stale = rn.stale /\ rn'.keep = rn.keep /\ rn'.known = rn.known /\ rn'.goal = rn.goal
        /\ rn'.pc = "orphans" /\ rn'.todo = rn.todo \ {t}
        /\ rn'.found \in BOOLEAN /\ rn'.clean \in BOOLEAN
        /\ rn'.clean => rn.clean /\ r.answer = "ok"
    BY <1>0, <1>p, <2>0 DEF RunFields
  <2>2. RowsSound' /\ JournalSound' /\ Tracked' BY <1>0, <1>i, <2>f, <2>t, JournalStays
  <2>3. RunTypes' BY <1>0, <1>i, <2>r DEF RunTypes, Sweeping, Goals
  <2>4. RunInStep' BY <1>0, <1>i, <2>r DEF RunInStep, Early, Sweeping, Recovering, Proving, Dropping, Closing
  <2>5. Shared' BY <1>0, <1>i, <1>p, <2>f, <2>r DEF Shared, Fades, Issued, Sweeping, Recovering, Proving, Dropping, Closing
  <2>6. Looked' BY <1>0, <1>i, <2>r DEF Looked, Early, Sweeping, Recovering
  <2>7. InHand'
    BY <1>0, <1>i, <2>f, <2>r, <2>1 DEF InHand, Fades, Issued, Sweeping, Stray, StraysIn, Recovering
  <2> QED BY <2>2, <2>3, <2>4, <2>5, <2>6, <2>7 DEF RenewalInv
<1> QED BY <1>1, <1>2

LEMMA AfterSweepKeeps == ASSUME RenewalInv, AfterSweep PROVE RenewalInv'
<1>i. RowsSound /\ RunTypes /\ JournalSound /\ RunInStep /\ Shared /\ Looked /\ Tracked /\ InHand BY DEF RenewalInv
<1>0. UNCHANGED <<token, late, store, adopted>> /\ rn.pc = "swept" BY DEF AfterSweep, Running
<1>1. Fades(Ghost) BY <1>0, <1>i, SameRows
<1>p. DOMAIN rn = RunFields /\ rn.clean \in BOOLEAN /\ rn.found \in BOOLEAN
      /\ rn.goal \in {"recover", "mint_failed", "refuse", "abandon", "abandon_answer"}
  BY <1>0, <1>i DEF RunTypes, RunInStep, Sweeping
<1>2. intent' = intent => RowsSound' /\ JournalSound' /\ Tracked'
  BY <1>0, <1>1, <1>i, JournalStays, RenewalAssumption DEF JournalSound, Intents, RenewalAssumption
<1>3. CASE rn.goal = "recover" /\ rn.clean
  <2>0. intent' = NoIntent /\ rn' = [rn EXCEPT !.pc = "decide"] BY <1>3, <1>p DEF AfterSweep, SweptKeeps, Step
  <2>1. ~late /\ \A u \in Tokens : ~Stray(u)' BY <1>0, <1>3, <1>i DEF RunInStep, InHand, StraysIn, Stray
  <2>2. RowsSound' /\ JournalSound' /\ Tracked'
    BY <1>0, <1>1, <1>i, <2>0, <2>1, JournalGoes
  <2>r. /\ DOMAIN rn' = RunFields /\ rn'.old = rn.old /\ rn'.new = rn.new /\ rn'.current = rn.current /\ rn'.todo = rn.todo
        /\ rn'.stale = rn.stale /\ rn'.clean = rn.clean /\ rn'.keep = rn.keep /\ rn'.found = rn.found
        /\ rn'.known = rn.known /\ rn'.goal = rn.goal /\ rn'.pc = "decide"
    BY <1>p, <2>0 DEF RunFields
  <2>3. RunTypes' BY <1>0, <1>i, <2>r DEF RunTypes
  <2>4. RunInStep' /\ Shared' /\ Looked' /\ InHand'
    BY <1>0, <2>0, <2>1, <2>r DEF RunInStep, Shared, Looked, InHand, NoIntent, Early, Sweeping, Recovering, Proving, Dropping, Closing
  <2> QED BY <2>2, <2>3, <2>4 DEF RenewalInv
<1>4. CASE rn.goal \in {"abandon", "abandon_answer"}
  <2>0. intent' = intent /\ rn' = [rn EXCEPT !.pc = "drop_new", !.keep = SweptKeeps(rn.goal)]
    BY <1>4 DEF AfterSweep
  <2>1. SweptKeeps(rn.goal) \in BOOLEAN BY <1>4, <1>p DEF SweptKeeps
  <2>r. /\ DOMAIN rn' = RunFields /\ rn'.old = rn.old /\ rn'.new = rn.new /\ rn'.current = rn.current /\ rn'.todo = rn.todo
        /\ rn'.stale = rn.stale /\ rn'.clean = rn.clean /\ rn'.keep \in BOOLEAN /\ rn'.found = rn.found
        /\ rn'.known = rn.known /\ rn'.goal = rn.goal /\ rn'.pc = "drop_new"
    BY <1>p, <2>0, <2>1 DEF RunFields
  <2>2. intent.phase = "minted" /\ ~late /\ rn.new = intent.new /\ rn.new \notin intent.known /\ (rn.new # Ghost => Issued(rn.new))
    BY <1>0, <1>4, <1>i DEF RunInStep, Shared, JournalSound, Sweeping
  <2>3. RunTypes' BY <1>0, <1>i, <2>r DEF RunTypes, Dropping
  <2>4. RunInStep' /\ Shared'
    BY <1>0, <1>i, <2>0, <2>2, <2>r DEF RunInStep, Shared, Issued, Early, Sweeping, Recovering, Proving, Dropping, Closing
  <2>5. Looked' /\ InHand' BY <2>0, <2>2, <2>r DEF Looked, InHand, Early, Sweeping, Recovering
  <2> QED BY <1>2, <2>0, <2>3, <2>4, <2>5 DEF RenewalInv
<1>5. CASE ~(rn.goal = "recover" /\ rn.clean) /\ rn.goal \notin {"abandon", "abandon_answer"}
  BY <1>5, <1>p, <1>2, RunEnds DEF AfterSweep, SweptKeeps, Exit, RenewalInv
<1> QED BY <1>3, <1>4, <1>5

LEMMA DecideKeeps == ASSUME RenewalInv, DecideRenewal PROVE RenewalInv'
<1>i. RowsSound /\ RunTypes /\ JournalSound /\ RunInStep /\ Shared /\ Looked /\ Tracked /\ InHand BY DEF RenewalInv
<1>0. UNCHANGED <<token, late, store, intent, adopted>> /\ rn.pc = "decide" BY DEF DecideRenewal, Running
<1>1. Fades(Ghost) BY <1>0, <1>i, SameRows
<1>2. RowsSound' /\ JournalSound' /\ Tracked'
  BY <1>0, <1>1, <1>i, JournalStays, RenewalAssumption DEF JournalSound, Intents, RenewalAssumption
<1>3. CASE rn' = Asleep BY <1>2, <1>3, RunEnds DEF RenewalInv
<1>4. CASE /\ store.value # Torn
           /\ rn' = Fresh0([rn EXCEPT !.pc = "list", !.old = store.value, !.raw = store, !.current = store.value])
  <2>1. DOMAIN rn = RunFields /\ Issued(store.value) BY <1>0, <1>4, <1>i DEF RunTypes, Tracked
  <2>r. /\ DOMAIN rn' = RunFields /\ rn'.old = store.value /\ rn'.new = rn.new /\ rn'.current = store.value
        /\ rn'.todo = rn.todo /\ rn'.stale = FALSE /\ rn'.clean = rn.clean /\ rn'.keep = rn.keep /\ rn'.found = rn.found
        /\ rn'.known = rn.known /\ rn'.goal = rn.goal /\ rn'.pc = "list"
    BY <1>4, <2>1 DEF RunFields, Fresh0
  <2>2. RunTypes' BY <1>0, <1>i, <2>1, <2>r DEF RunTypes, Early, Goals, Issued
  <2>3. RunInStep' /\ Shared' /\ Looked' /\ InHand'
    BY <1>0, <1>i, <2>1, <2>r DEF RunInStep, Shared, Looked, InHand, Issued, Early, Sweeping, Recovering, Proving, Dropping, Closing
  <2> QED BY <1>2, <2>2, <2>3 DEF RenewalInv
<1> QED BY <1>3, <1>4 DEF DecideRenewal, Exit

LEMMA WriteIntentKeeps == ASSUME RenewalInv, WriteIntent PROVE RenewalInv'
<1>i. RowsSound /\ RunTypes /\ JournalSound /\ RunInStep /\ Shared /\ Looked /\ Tracked /\ InHand BY DEF RenewalInv
<1>0. UNCHANGED <<token, late, store, adopted>> /\ rn.pc = "list" BY DEF WriteIntent, Running
<1>1. Fades(Ghost) BY <1>0, <1>i, SameRows
<1>2. CASE rn' = Asleep /\ intent' = intent
  BY <1>0, <1>1, <1>2, <1>i, JournalStays, RenewalAssumption, RunEnds DEF JournalSound, Intents,
    RenewalAssumption, RenewalInv
<1> DEFINE listing == ListTokens \cup {rn.old}
<1>3. CASE /\ intent' = [phase |-> "minting", old |-> rn.old, new |-> Ghost, known |-> listing,
                         oldRevoked |-> token[rn.old].state = "revoked"]
           /\ rn' = [rn EXCEPT !.pc = "mint", !.known = listing]
  <2>1. /\ Issued(rn.old) /\ listing \subseteq Tokens /\ \A t \in listing : Issued(t)
        /\ Ghost \notin listing /\ ~late /\ StraysIn({}) /\ DOMAIN rn = RunFields
    BY <1>0, <1>i, RenewalAssumption DEF Shared, ListTokens, Issued, RenewalAssumption, RunInStep, Tracked, RunTypes
  <2>2. intent' \in Intents /\ intent'.old = rn.old /\ intent'.new = Ghost /\ intent'.known = listing /\ intent'.phase = "minting"
        /\ (intent'.oldRevoked <=> token[rn.old].state = "revoked")
    BY <1>3, <2>1 DEF Intents, Issued
  <2>r. /\ DOMAIN rn' = RunFields /\ rn'.old = rn.old /\ rn'.new = rn.new /\ rn'.current = rn.current /\ rn'.todo = rn.todo
        /\ rn'.stale = rn.stale /\ rn'.clean = rn.clean /\ rn'.keep = rn.keep /\ rn'.found = rn.found
        /\ rn'.known = listing /\ rn'.goal = rn.goal /\ rn'.pc = "mint"
    BY <1>3, <2>1 DEF RunFields
  <2> HIDE DEF listing
  <2>3. RowsSound' BY <1>1 DEF Fades
  <2>4. JournalSound'
    BY <1>0, <2>1, <2>2 DEF JournalSound, Issued, listing
  <2>5. Tracked' BY <1>0, <1>i, <2>1, <2>2 DEF Tracked, Issued, Stray, StraysIn
  <2>6. RunTypes' BY <1>0, <1>i, <2>1, <2>r DEF RunTypes, Early, Goals
  <2>7. RunInStep' /\ Shared'
    BY <1>0, <1>i, <2>1, <2>2, <2>r DEF RunInStep, Shared, Issued, Early, Sweeping, Recovering, Proving, Dropping, Closing
  <2>8. Looked' /\ InHand'
    BY <1>0, <1>i, <2>1, <2>2, <2>r DEF Looked, InHand, Stray, StraysIn, Early, Sweeping, Recovering
  <2> QED BY <2>3, <2>4, <2>5, <2>6, <2>7, <2>8 DEF RenewalInv
<1> QED BY <1>2, <1>3 DEF WriteIntent, Exit

\* What a mint does to the authority's rows: one more token, under an id that was free.
Grows(t, minter) ==
  /\ RowsSound'
  /\ t \in Tokens /\ token[t].state = "none" /\ token'[t].state = "active" /\ token'[t].by = "nobody"
  /\ \A u \in Tokens : (u # t => token'[u] = token[u]) /\ (Stray(u)' => Stray(u) \/ (u = t /\ minter = "tool"))

LEMMA MintGrows ==
  ASSUME RowsSound, Room, NEW grant \in {"same", "other"}, NEW agent \in {"own", "other"},
         NEW minter \in {"tool", "misnamed", "human"}, minter = "tool" => grant = "same" /\ agent = "own",
         token' = [token EXCEPT ![Next0] = Row("active", grant, agent, minter)], UNCHANGED adopted
  PROVE  Grows(Next0, minter)
<1>1. Next0 \in Tokens /\ token[Next0].state = "none" BY FreshId
<1> DEFINE t == Next0
<1> HIDE DEF t
<1>2. t \in Tokens /\ token[t].state = "none" BY <1>1 DEF t
<1>3. token' = [token EXCEPT ![t] = Row("active", grant, agent, minter)] BY DEF t
<1>4. /\ Row("active", grant, agent, minter) \in TokenRows /\ Row("active", grant, agent, minter).state = "active"
      /\ Row("active", grant, agent, minter).by = "nobody" /\ Row("active", grant, agent, minter).minter = minter
      /\ Row("active", grant, agent, minter).grant = grant /\ Row("active", grant, agent, minter).agent = agent
  BY DEF Row, TokenRows
<1>5. token'[t] = Row("active", grant, agent, minter) /\ \A u \in Tokens : u # t => token'[u] = token[u]
  BY <1>2, <1>3 DEF RowsSound
<1>6. token' \in [Tokens -> TokenRows] BY <1>2, <1>3, <1>4 DEF RowsSound
<1>7. RowsSound' BY <1>2, <1>4, <1>5, <1>6 DEF RowsSound
<1>8. Grows(t, minter) BY <1>2, <1>4, <1>5, <1>7 DEF Grows, Stray
<1> QED BY <1>8 DEF t

\* A mint by a person at any time, and one of the tool's while the journal says minting, leave the journal true.
LEMMA JournalOutlivesMint ==
  ASSUME JournalSound, Tracked, UNCHANGED <<store, intent>>, NEW t, NEW minter, Grows(t, minter),
         minter = "tool" => intent.phase = "minting", late' => late \/ intent.phase = "minting"
  PROVE  RowsSound' /\ JournalSound' /\ Tracked'
<1>1. /\ RowsSound' /\ \A u \in Tokens : Issued(u) => u # t /\ token'[u] = token[u] /\ Issued(u)' /\ (Stray(u)' => Stray(u))
      /\ \A u \in Tokens : Stray(u)' => Stray(u) \/ minter = "tool"
  BY DEF Grows, Issued
<1>2. JournalSound'
  BY <1>1 DEF JournalSound, Issued
<1>3. Tracked'
  BY <1>1 DEF JournalSound, Intents, Tracked, StraysIn, Issued
<1> QED BY <1>1, <1>2, <1>3

LEMMA MintTokenKeeps == ASSUME RenewalInv, MintToken PROVE RenewalInv'
<1>i. RowsSound /\ RunTypes /\ JournalSound /\ RunInStep /\ Shared /\ Looked /\ Tracked /\ InHand BY DEF RenewalInv
<1>0. UNCHANGED <<store, adopted>> /\ rn.pc = "mint" BY DEF MintToken, Running
<1>p. /\ DOMAIN rn = RunFields /\ intent.phase = "minting" /\ ~late /\ (\A t \in Tokens : ~Stray(t))
      /\ intent.known \subseteq Tokens /\ (\A t \in intent.known : Issued(t)) /\ rn.old = intent.old /\ Issued(rn.old)
      /\ intent.known \subseteq rn.known /\ (~rn.stale => store.value = rn.current)
  BY <1>0, <1>i DEF RunTypes, RunInStep, Shared, InHand, StraysIn, Sweeping, JournalSound, Intents, Early, Looked
<1>1. CASE Room /\ token' = MintedRows("tool") /\ intent' = intent /\ late' = late
           /\ rn' = [rn EXCEPT !.pc = "record", !.new = Next0, !.ok = TRUE]
  <2>1. Grows(Next0, "tool") BY <1>0, <1>1, <1>i, MintGrows DEF MintedRows
  <2>2. RowsSound' /\ JournalSound' /\ Tracked' BY <1>0, <1>1, <1>i, <1>p, <2>1, JournalOutlivesMint
  <2>r. /\ DOMAIN rn' = RunFields /\ rn'.old = rn.old /\ rn'.new = Next0 /\ rn'.current = rn.current /\ rn'.todo = rn.todo
        /\ rn'.stale = rn.stale /\ rn'.clean = rn.clean /\ rn'.keep = rn.keep /\ rn'.found = rn.found
        /\ rn'.known = rn.known /\ rn'.goal = rn.goal /\ rn'.pc = "record"
    BY <1>1, <1>p DEF RunFields
  <2>3. RunTypes' BY <1>0, <1>i, <2>1, <2>r DEF RunTypes, Grows, Early, Goals
  <2>4. RunInStep' /\ Looked'
    BY <1>0, <1>1, <1>p, <2>r DEF RunInStep, Looked, Early, Sweeping, Recovering, Proving, Dropping, Closing
  <2>5. Shared' BY <1>1, <1>p, <2>1, <2>r DEF Shared, Grows, Issued, Sweeping, Recovering, Proving, Dropping, Closing
  <2>6. InHand' BY <1>p, <2>1, <2>r DEF InHand, Grows, StraysIn, Stray, Sweeping, Recovering
  <2> QED BY <2>2, <2>3, <2>4, <2>5, <2>6 DEF RenewalInv
<1>2. CASE UNCHANGED <<token, late>> /\ intent' = NoIntent /\ rn' = Asleep
  BY <1>0, <1>2, <1>i, SameRows, <1>p, JournalGoes, RunEnds DEF Stray, RenewalInv
<1>3. CASE /\ token' \in {token, MintedRows("tool")} /\ Room /\ intent' = intent
           /\ rn' = [rn EXCEPT !.pc = "sweep", !.goal = "mint_failed"]
  <2>1. token' = token => RowsSound' /\ JournalSound' /\ Tracked' /\ \A u \in Tokens : Issued(u) => Issued(u)'
    BY <1>0, <1>i, SameRows, <1>3, <1>p DEF Fades, JournalSound, Issued, Tracked, StraysIn, Stray
  <2>2. token' # token => RowsSound' /\ JournalSound' /\ Tracked' /\ \A u \in Tokens : Issued(u) => Issued(u)'
    BY <1>0, <1>3, <1>i, MintGrows, <1>p, JournalOutlivesMint DEF MintedRows, Grows, Issued
  <2>r. /\ DOMAIN rn' = RunFields /\ rn'.old = rn.old /\ rn'.new = rn.new /\ rn'.current = rn.current /\ rn'.todo = rn.todo
        /\ rn'.stale = rn.stale /\ rn'.clean = rn.clean /\ rn'.keep = rn.keep /\ rn'.found = rn.found
        /\ rn'.known = rn.known /\ rn'.goal = "mint_failed" /\ rn'.pc = "sweep"
    BY <1>3, <1>p DEF RunFields
  <2>3. RowsSound' /\ JournalSound' /\ Tracked' /\ Issued(rn.old)'
    BY <1>p, <2>1, <2>2, <2>r DEF Issued, RowsSound, JournalSound
  <2>4. RunTypes' BY <1>0, <1>i, <2>r DEF RunTypes, Sweeping, Goals
  <2>5. RunInStep' /\ Looked'
    BY <1>0, <1>3, <1>p, <2>r DEF RunInStep, Looked, Early, Sweeping, Recovering, Proving, Dropping, Closing
  <2>6. Shared' BY <1>3, <1>p, <2>3, <2>r DEF Shared, Sweeping, Recovering, Proving, Dropping, Closing
  <2>7. InHand' BY <2>r DEF InHand, Sweeping, Recovering
  <2> QED BY <2>3, <2>4, <2>5, <2>6, <2>7 DEF RenewalInv
<1>4. CASE /\ Room /\ intent' = intent /\ late' = late
           /\ \E m \in {"tool", "misnamed"}, n \in Tokens \cup {Ghost}, ok \in BOOLEAN :
                /\ token' = MintedRows(m) /\ rn' = [rn EXCEPT !.pc = "record", !.new = n, !.ok = ok]
                /\ n = Ghost \/ (m = "misnamed" /\ Issued(n) /\ n \notin rn.known)
  <2>0. PICK m \in {"tool", "misnamed"}, n \in Tokens \cup {Ghost}, ok \in BOOLEAN :
          /\ token' = MintedRows(m) /\ rn' = [rn EXCEPT !.pc = "record", !.new = n, !.ok = ok]
          /\ n = Ghost \/ (m = "misnamed" /\ Issued(n) /\ n \notin rn.known)
    BY <1>4
  <2>1. Grows(Next0, m) BY <1>0, <1>4, <1>i, <2>0, MintGrows DEF MintedRows
  <2>2. RowsSound' /\ JournalSound' /\ Tracked' BY <1>0, <1>4, <1>i, <1>p, <2>1, JournalOutlivesMint
  <2>r. /\ DOMAIN rn' = RunFields /\ rn'.old = rn.old /\ rn'.new = n /\ rn'.current = rn.current /\ rn'.todo = rn.todo
        /\ rn'.stale = rn.stale /\ rn'.clean = rn.clean /\ rn'.keep = rn.keep /\ rn'.found = rn.found
        /\ rn'.known = rn.known /\ rn'.goal = rn.goal /\ rn'.pc = "record"
    BY <1>p, <2>0 DEF RunFields
  <2>3. RunTypes' BY <1>0, <1>i, <2>r DEF RunTypes, Early, Goals
  <2>4. RunInStep' /\ Looked'
    BY <1>0, <1>4, <1>p, <2>r DEF RunInStep, Looked, Early, Sweeping, Recovering, Proving, Dropping, Closing
  <2>5. Shared'
    BY <1>p, <2>0, <2>1, <2>r, RenewalAssumption, <1>4 DEF RenewalAssumption, Grows, Issued, Shared, Sweeping,
      Recovering, Proving, Dropping, Closing
  <2>6. InHand' BY <1>p, <2>0, <2>1, <2>r DEF InHand, Grows, StraysIn, Stray, Sweeping, Recovering
  <2> QED BY <2>2, <2>3, <2>4, <2>5, <2>6 DEF RenewalInv
<1>5. \/ Room /\ token' = MintedRows("tool") /\ UNCHANGED <<intent, late>>
         /\ rn' = [rn EXCEPT !.pc = "record", !.new = Ghost, !.ok = TRUE]
      \/ /\ Room /\ token' = MintedRows("misnamed") /\ UNCHANGED <<intent, late>>
         /\ \E n \in {t \in Tokens \ rn.known : token[t].state = "active"} :
              rn' = [rn EXCEPT !.pc = "record", !.new = n, !.ok = FALSE]
      => /\ Room /\ intent' = intent /\ late' = late
         /\ \E m \in {"tool", "misnamed"}, n \in Tokens \cup {Ghost}, ok \in BOOLEAN :
              /\ token' = MintedRows(m) /\ rn' = [rn EXCEPT !.pc = "record", !.new = n, !.ok = ok]
              /\ n = Ghost \/ (m = "misnamed" /\ Issued(n) /\ n \notin rn.known)
  BY DEF Issued
<1> QED BY <1>1, <1>2, <1>3, <1>4, <1>5 DEF MintToken, Exit

LEMMA PersistLateKeeps == ASSUME RenewalInv, PersistLate PROVE RenewalInv'
<1>i. RowsSound /\ RunTypes /\ JournalSound /\ RunInStep /\ Shared /\ Looked /\ Tracked /\ InHand BY DEF RenewalInv
<1>0. UNCHANGED <<store, intent, rn, adopted>> /\ late /\ ~late' BY DEF PersistLate
<1>1. intent.phase = "minting" /\ (rn.pc = "idle" \/ (rn.pc \in Sweeping /\ rn.goal = "mint_failed"))
  BY <1>0, <1>i DEF RunInStep, Tracked
<1>2. token' = token \/ Grows(Next0, "tool")
  BY <1>0, <1>i, MintGrows DEF PersistLate, MintedRows
<1>3. /\ RowsSound' /\ JournalSound' /\ Tracked'
      /\ \A u \in Tokens : Issued(u) => Issued(u)' /\ token'[u].agent = token[u].agent /\ token'[u].by = token[u].by
  <2>1. CASE token' = token
    BY <1>0, <1>i, <2>1, SameRows, <1>1 DEF Fades, JournalSound, Issued, Tracked, StraysIn, Stray
  <2>2. CASE Grows(Next0, "tool")
    BY <2>2, <1>0, <1>1, <1>i, JournalOutlivesMint DEF Grows, Issued
  <2> QED BY <1>2, <2>1, <2>2
<1>4. RunTypes' BY <1>0, <1>i DEF RunTypes
<1>5. RunInStep' /\ Looked' BY <1>0, <1>1, <1>i DEF RunInStep, Looked
<1>6. Shared' BY <1>0, <1>1, <1>3, <1>i DEF Shared, Issued, Sweeping, Recovering, Proving, Dropping, Closing
<1>7. InHand' BY <1>0, <1>1 DEF InHand, Sweeping, Recovering
<1> QED BY <1>3, <1>4, <1>5, <1>6, <1>7 DEF RenewalInv

LEMMA MintByHandKeeps ==
  ASSUME RenewalInv, NEW g \in {"same", "other"}, NEW a \in {"own", "other"}, MintByHand(g, a) PROVE RenewalInv'
<1>i. RowsSound /\ RunTypes /\ JournalSound /\ RunInStep /\ Shared /\ Looked /\ Tracked /\ InHand BY DEF RenewalInv
<1>0. UNCHANGED <<late, store, intent, rn, adopted>> BY DEF MintByHand
<1>1. Grows(Next0, "human") BY <1>0, <1>i, MintGrows DEF MintByHand
<1>2. RowsSound' /\ JournalSound' /\ Tracked' BY <1>0, <1>1, <1>i, JournalOutlivesMint
<1>3. /\ \A u \in Tokens : Issued(u) => token'[u] = token[u]
      /\ \A u \in Tokens : Stray(u)' => Stray(u)
      /\ \A u \in Tokens : token'[u].state # "none"  \/ token[u].state = "none"
  BY <1>1 DEF Grows, Issued
<1>4. RunTypes' BY <1>0, <1>i DEF RunTypes
<1>5. RunInStep' /\ Looked' BY <1>0, <1>i DEF RunInStep, Looked
<1>6. Shared' BY <1>0, <1>3, <1>i DEF Shared, Issued, Sweeping, Recovering, Proving, Dropping, Closing, RunTypes
<1>7. InHand' BY <1>0, <1>3, <1>i DEF InHand, StraysIn, Issued, Shared, Dropping, RunTypes, Sweeping, Recovering, Stray
<1> QED BY <1>2, <1>4, <1>5, <1>6, <1>7 DEF RenewalInv

LEMMA RecordMintedKeeps == ASSUME RenewalInv, RecordMinted PROVE RenewalInv'
<1>i. RowsSound /\ RunTypes /\ JournalSound /\ RunInStep /\ Shared /\ Looked /\ Tracked /\ InHand BY DEF RenewalInv
<1>0. UNCHANGED <<token, late, store, adopted>> /\ rn.pc = "record" BY DEF RecordMinted, Running
<1>1. Fades(Ghost) BY <1>0, <1>i, SameRows
<1>p. /\ DOMAIN rn = RunFields /\ intent.phase = "minting" /\ ~late /\ intent \in Intents /\ intent.old \in intent.known
      /\ rn.new \in Tokens \cup {Ghost} /\ rn.new \notin intent.known /\ (rn.new # Ghost => Issued(rn.new) /\ StraysIn({rn.new}))
      /\ rn.old = intent.old /\ Issued(rn.old) /\ intent.known \subseteq rn.known /\ (~rn.stale => store.value = rn.current)
  BY <1>0, <1>i DEF RunTypes, RunInStep, Shared, InHand, Sweeping, JournalSound, Early, Looked
<1>2. CASE intent' = intent /\ rn' = [rn EXCEPT !.pc = "drop_new", !.keep = FALSE]
  <2>1. RowsSound' /\ JournalSound' /\ Tracked'
    BY <1>0, <1>1, <1>2, <1>i, JournalStays, RenewalAssumption DEF JournalSound, Intents, RenewalAssumption
  <2>r. /\ DOMAIN rn' = RunFields /\ rn'.old = rn.old /\ rn'.new = rn.new /\ rn'.current = rn.current /\ rn'.todo = rn.todo
        /\ rn'.stale = rn.stale /\ rn'.clean = rn.clean /\ rn'.keep = FALSE /\ rn'.found = rn.found
        /\ rn'.known = rn.known /\ rn'.goal = rn.goal /\ rn'.pc = "drop_new"
    BY <1>2, <1>p DEF RunFields
  <2>2. RunTypes' BY <1>0, <1>i, <2>r DEF RunTypes, Dropping
  <2>3. RunInStep' /\ Looked'
    BY <1>0, <1>2, <1>p, <2>r DEF RunInStep, Looked, Early, Sweeping, Recovering, Proving, Dropping, Closing
  <2>4. Shared' /\ InHand'
    BY <1>0, <1>2, <1>p, <2>r DEF Shared, InHand, StraysIn, Stray, Issued, Sweeping, Recovering, Proving, Dropping, Closing
  <2> QED BY <2>1, <2>2, <2>3, <2>4 DEF RenewalInv
<1>3. CASE /\ intent' = [intent EXCEPT !.phase = "minted", !.new = rn.new]
           /\ rn' = (IF rn.ok THEN [rn EXCEPT !.pc = "confirm"]
                     ELSE [rn EXCEPT !.pc = "sweep", !.goal = "abandon_answer", !.known = @ \cup {rn.new}])
  <2>1. /\ intent'.phase = "minted" /\ intent'.new = rn.new /\ intent'.old = intent.old /\ intent'.known = intent.known
        /\ intent'.oldRevoked = intent.oldRevoked
    BY <1>3, <1>p DEF Intents
  <2>2. intent' \in Intents BY <1>3, <1>p DEF Intents
  <2>r. /\ DOMAIN rn' = RunFields /\ rn'.old = rn.old /\ rn'.new = rn.new /\ rn'.current = rn.current /\ rn'.todo = rn.todo
        /\ rn'.stale = rn.stale /\ rn'.clean = rn.clean /\ rn'.keep = rn.keep /\ rn'.found = rn.found
        /\ \/ rn'.pc = "confirm" /\ rn'.goal = rn.goal /\ rn'.known = rn.known
           \/ rn'.pc = "sweep" /\ rn'.goal = "abandon_answer" /\ rn'.known = rn.known \cup {rn.new}
    BY <1>3, <1>p DEF RunFields
  <2>3. JournalSound' /\ RowsSound' BY <1>0, <1>1, <1>i, <1>p, <2>1, <2>2 DEF JournalSound, Issued, Fades
  <2>4. Tracked' BY <1>0, <1>i, <1>p, <2>1 DEF Tracked, Issued, Stray, StraysIn
  <2>5. RunTypes'
    BY <1>0, <1>i, <2>r, <1>p DEF RunTypes, Early, Goals, Sweeping
  <2>6. RunInStep' /\ Looked'
    BY <1>0, <1>p, <2>1, <2>r DEF RunInStep, Looked, Early, Sweeping, Recovering, Proving, Dropping, Closing
  <2>7. Shared' /\ InHand'
    BY <1>0, <1>p, <2>1, <2>r DEF Shared, InHand, StraysIn, Stray, Issued, Sweeping, Recovering, Proving, Dropping, Closing
  <2> QED BY <2>3, <2>4, <2>5, <2>6, <2>7 DEF RenewalInv
<1> QED BY <1>2, <1>3 DEF RecordMinted, Step

LEMMA ConfirmMintKeeps == ASSUME RenewalInv, ConfirmMint PROVE RenewalInv'
<1>i. RowsSound /\ RunTypes /\ JournalSound /\ RunInStep /\ Shared /\ Looked /\ Tracked /\ InHand BY DEF RenewalInv
<1>0. UNCHANGED <<token, late, store, adopted>> /\ rn.pc = "confirm" BY DEF ConfirmMint, Running
<1>1. Fades(Ghost) BY <1>0, <1>i, SameRows
<1>p. /\ DOMAIN rn = RunFields /\ intent.phase = "minted" /\ ~late /\ intent \in Intents /\ intent.old \in intent.known
      /\ rn.new = intent.new /\ rn.new \in Tokens \cup {Ghost} /\ rn.new \notin intent.known /\ (rn.new # Ghost => Issued(rn.new))
      /\ rn.old = intent.old /\ Issued(rn.old) /\ intent.known \subseteq rn.known /\ (~rn.stale => store.value = rn.current)
  BY <1>0, <1>i DEF RunTypes, RunInStep, Shared, Sweeping, JournalSound, Early, Looked
<1>2. CASE rn.new = Ghost /\ intent' = [intent EXCEPT !.phase = "minting", !.new = Ghost]
           /\ rn' = [rn EXCEPT !.pc = "sweep", !.goal = "mint_failed", !.new = Ghost]
  <2>1. /\ intent'.phase = "minting" /\ intent'.new = Ghost /\ intent'.old = intent.old /\ intent'.known = intent.known
        /\ intent'.oldRevoked = intent.oldRevoked
    BY <1>2, <1>p DEF Intents
  <2>2. intent' \in Intents BY <1>2, <1>p DEF Intents
  <2>r. /\ DOMAIN rn' = RunFields /\ rn'.old = rn.old /\ rn'.new = rn.new /\ rn'.current = rn.current /\ rn'.todo = rn.todo
        /\ rn'.stale = rn.stale /\ rn'.clean = rn.clean /\ rn'.keep = rn.keep /\ rn'.found = rn.found
        /\ rn'.pc = "sweep" /\ rn'.goal = "mint_failed" /\ rn'.known = rn.known
    BY <1>2, <1>p DEF RunFields
  <2>3. JournalSound' /\ RowsSound' BY <1>0, <1>1, <1>2, <1>i, <1>p, <2>1, <2>2 DEF JournalSound, Issued, Fades
  <2>4. Tracked'
    BY <1>i, RenewalAssumption, <1>0, <1>2, <1>p, <2>1 DEF Tracked, Issued, RenewalAssumption, Stray, StraysIn
  <2>5. RunTypes' BY <1>0, <1>i, <2>r DEF RunTypes, Sweeping, Goals
  <2>6. RunInStep' /\ Looked'
    BY <1>0, <1>p, <2>1, <2>r DEF RunInStep, Looked, Early, Sweeping, Recovering, Proving, Dropping, Closing
  <2>7. Shared' /\ InHand'
    BY <1>0, <1>p, <2>1, <2>r DEF Shared, InHand, Issued, Sweeping, Recovering, Proving, Dropping, Closing
  <2> QED BY <2>3, <2>4, <2>5, <2>6, <2>7 DEF RenewalInv
<1>3. CASE /\ intent' = intent
           /\ \/ rn' = [rn EXCEPT !.pc = "drop_new", !.keep = FALSE]
              \/ rn' = [rn EXCEPT !.pc = "sweep", !.goal = "abandon"]
              \/ rn.new \in Tokens /\ rn' = [rn EXCEPT !.pc = "swap"]
  <2>1. RowsSound' /\ JournalSound' /\ Tracked'
    BY <1>0, <1>1, <1>3, <1>i, JournalStays, RenewalAssumption DEF JournalSound, Intents, RenewalAssumption
  <2>r. /\ DOMAIN rn' = RunFields /\ rn'.old = rn.old /\ rn'.new = rn.new /\ rn'.current = rn.current /\ rn'.todo = rn.todo
        /\ rn'.stale = rn.stale /\ rn'.clean = rn.clean /\ rn'.found = rn.found /\ rn'.known = rn.known
        /\ \/ rn'.pc = "drop_new" /\ rn'.keep = FALSE /\ rn'.goal = rn.goal
           \/ rn'.pc = "sweep" /\ rn'.keep = rn.keep /\ rn'.goal = "abandon"
           \/ rn.new \in Tokens /\ rn'.pc = "swap" /\ rn'.keep = rn.keep /\ rn'.goal = rn.goal
    BY <1>3, <1>p DEF RunFields
  <2>2. RunTypes' BY <1>0, <1>i, <2>r DEF RunTypes, Dropping, Sweeping, Early, Goals
  <2>3. RunInStep' /\ Looked'
    BY <1>0, <1>3, <1>p, <2>r DEF RunInStep, Looked, Early, Sweeping, Recovering, Proving, Dropping, Closing
  <2>4. Shared' BY <1>0, <1>3, <1>p, <2>r DEF Shared, Issued, Sweeping, Recovering, Proving, Dropping, Closing
  <2>5. InHand' BY <1>3, <1>p, <2>r DEF InHand, Sweeping, Recovering
  <2> QED BY <2>1, <2>2, <2>3, <2>4, <2>5 DEF RenewalInv
<1>4. PICK s \in TokenState(rn.new) :
        CASE s = "missing" ->
                 /\ intent' = [intent EXCEPT !.phase = "minting", !.new = Ghost]
                 /\ rn' = [rn EXCEPT !.pc = "sweep", !.goal = "mint_failed", !.new = Ghost]
            [] s = "unreadable" -> rn' = [rn EXCEPT !.pc = "drop_new", !.keep = FALSE] /\ intent' = intent
            [] s = "active" /\ SameGrant(rn.new) -> rn' = [rn EXCEPT !.pc = "swap"] /\ intent' = intent
            [] OTHER -> rn' = [rn EXCEPT !.pc = "sweep", !.goal = "abandon"] /\ intent' = intent
  BY DEF ConfirmMint, Step
<1>5. (s = "missing" => rn.new = Ghost) /\ (s = "active" => rn.new \in Tokens)
  BY <1>i, <1>p DEF TokenState, RowsSound, TokenRows
<1> QED BY <1>2, <1>3, <1>4, <1>5

LEMMA SwapStoreKeeps == ASSUME RenewalInv, SwapStore PROVE RenewalInv'
<1>i. RowsSound /\ RunTypes /\ JournalSound /\ RunInStep /\ Shared /\ Looked /\ Tracked /\ InHand BY DEF RenewalInv
<1>0. UNCHANGED <<token, late, intent, adopted>> /\ rn.pc = "swap" BY DEF SwapStore, Running
<1>1. Fades(Ghost) BY <1>0, <1>i, SameRows
<1>p. /\ DOMAIN rn = RunFields /\ intent.phase = "minted" /\ ~late /\ intent \in Intents /\ intent.old \in intent.known
      /\ rn.new = intent.new /\ rn.new \in Tokens /\ rn.new \notin intent.known /\ Issued(rn.new) /\ rn.new # Ghost
      /\ rn.old = intent.old /\ Issued(rn.old) /\ intent.known \subseteq rn.known
  BY <1>0, <1>i, RenewalAssumption DEF RunTypes, RunInStep, Shared, Sweeping, Proving, JournalSound, Early, RenewalAssumption
<1>2. store' = store \/ store' = [store EXCEPT !.value = rn.new] BY DEF SwapStore
<1>3. /\ RowsSound' /\ JournalSound' BY <1>0, <1>1, <1>i DEF Fades, JournalSound, Issued
<1>4. store'.value \in {store.value, rn.new} /\ DOMAIN store' = {"value", "rest"} BY <1>2, <1>i DEF Tracked
<1>5. Tracked' BY <1>0, <1>4, <1>i, <1>p DEF Tracked, Issued, Stray, StraysIn
<1>6. CASE rn' = [rn EXCEPT !.pc = "drop_new", !.keep = FALSE]
  <2>r. /\ DOMAIN rn' = RunFields /\ rn'.old = rn.old /\ rn'.new = rn.new /\ rn'.current = rn.current /\ rn'.todo = rn.todo
        /\ rn'.stale = rn.stale /\ rn'.clean = rn.clean /\ rn'.keep = FALSE /\ rn'.found = rn.found
        /\ rn'.known = rn.known /\ rn'.goal = rn.goal /\ rn'.pc = "drop_new"
    BY <1>6, <1>p DEF RunFields
  <2>2. RunTypes' BY <1>0, <1>i, <2>r DEF RunTypes, Dropping
  <2>3. RunInStep' /\ Looked'
    BY <1>0, <1>p, <2>r DEF RunInStep, Looked, Early, Sweeping, Recovering, Proving, Dropping, Closing
  <2>4. Shared' /\ InHand'
    BY <1>0, <1>p, <2>r DEF Shared, InHand, Issued, Sweeping, Recovering, Proving, Dropping, Closing
  <2> QED BY <1>3, <1>5, <2>2, <2>3, <2>4 DEF RenewalInv
<1>7. CASE rn' = Fresh0([rn EXCEPT !.pc = "verify"])
  <2>r. /\ DOMAIN rn' = RunFields /\ rn'.old = rn.old /\ rn'.new = rn.new /\ rn'.current = rn.current /\ rn'.todo = rn.todo
        /\ rn'.stale = FALSE /\ rn'.clean = rn.clean /\ rn'.keep = rn.keep /\ rn'.found = rn.found
        /\ rn'.known = rn.known /\ rn'.goal = rn.goal /\ rn'.pc = "verify"
    BY <1>7, <1>p DEF RunFields, Fresh0
  <2>2. RunTypes' BY <1>0, <1>i, <2>r DEF RunTypes, Proving
  <2>3. RunInStep' /\ Looked'
    BY <1>0, <1>p, <2>r DEF RunInStep, Looked, Early, Sweeping, Recovering, Proving, Dropping, Closing
  <2>4. Shared' /\ InHand'
    BY <1>0, <1>p, <2>r DEF Shared, InHand, Issued, Sweeping, Recovering, Proving, Dropping, Closing
  <2> QED BY <1>3, <1>5, <2>2, <2>3, <2>4 DEF RenewalInv
<1> QED BY <1>6, <1>7 DEF SwapStore

LEMMA DropNewKeeps == ASSUME RenewalInv, DropNew PROVE RenewalInv'
<1>i. RowsSound /\ RunTypes /\ JournalSound /\ RunInStep /\ Shared /\ Looked /\ Tracked /\ InHand BY DEF RenewalInv
<1>0. UNCHANGED <<late, store, intent, adopted>> /\ rn.pc = "drop_new" BY DEF DropNew, Running
<1>p. /\ DOMAIN rn = RunFields /\ intent.phase \in {"minting", "minted"} /\ ~late /\ intent \in Intents /\ intent.old \in intent.known
      /\ (intent.phase = "minted" => rn.new = intent.new) /\ (rn.keep => intent.phase = "minted")
      /\ rn.new \in Tokens \cup {Ghost} /\ rn.new \notin intent.known /\ (rn.new # Ghost => Issued(rn.new))
      /\ rn.old = intent.old /\ Issued(rn.old) /\ intent.known \subseteq rn.known
      /\ (rn.new # Ghost /\ intent.phase = "minting" => StraysIn({rn.new}))
  BY <1>0, <1>i DEF RunTypes, RunInStep, Shared, Sweeping, Dropping, JournalSound, InHand
<1>1. CASE rn' = Asleep /\ token' = token
  BY <1>0, <1>1, <1>i, SameRows, JournalStays, RenewalAssumption, RunEnds DEF JournalSound, Intents,
    RenewalAssumption, RenewalInv
<1>2. CASE \E r \in RevokeToken(rn.new) :
             /\ token' = r.rows
             /\ rn' = (IF r.answer = "ok" THEN Fresh0([rn EXCEPT !.pc = "dropped"]) ELSE Asleep)
  <2>0. PICK r \in RevokeToken(rn.new) :
          /\ token' = r.rows /\ rn' = (IF r.answer = "ok" THEN Fresh0([rn EXCEPT !.pc = "dropped"]) ELSE Asleep)
    BY <1>2
  <2>1. /\ Fades(rn.new) /\ (r.answer = "ok" => rn.new \in Tokens /\ token'[rn.new].state = "revoked")
    BY <1>0, <1>i, <1>p, <2>0, KilledFacts DEF Issued
  <2>2. RowsSound' /\ JournalSound' /\ Tracked' BY <1>0, <1>i, <1>p, <2>1, JournalStays
  <2>3. CASE r.answer # "ok" BY <2>0, <2>2, <2>3, RunEnds DEF RenewalInv
  <2>4. CASE r.answer = "ok"
    <3>n. rn.new \in Tokens /\ rn.new # Ghost BY <2>1, <2>4, RenewalAssumption DEF RenewalAssumption
    <3>r. /\ DOMAIN rn' = RunFields /\ rn'.old = rn.old /\ rn'.new = rn.new /\ rn'.current = rn.current /\ rn'.todo = rn.todo
          /\ rn'.stale = FALSE /\ rn'.clean = rn.clean /\ rn'.keep = rn.keep /\ rn'.found = rn.found
          /\ rn'.known = rn.known /\ rn'.goal = rn.goal /\ rn'.pc = "dropped"
      BY <1>p, <2>0, <2>4 DEF RunFields, Fresh0
    <3>1. RunTypes' BY <1>0, <1>i, <3>r DEF RunTypes, Dropping
    <3>2. RunInStep' /\ Looked'
      BY <1>0, <1>p, <3>r DEF RunInStep, Looked, Early, Sweeping, Recovering, Proving, Dropping, Closing
    <3>3. Shared'
      BY <1>0, <1>p, <2>1, <3>n, <3>r DEF Shared, Fades, Issued, Sweeping, Recovering, Proving, Dropping, Closing
    <3>4. InHand'
      BY <1>0, <1>p, <2>1, <2>4, <3>n, <3>r DEF InHand, Fades, Stray, StraysIn, Sweeping, Recovering
    <3> QED BY <2>2, <3>1, <3>2, <3>3, <3>4 DEF RenewalInv
  <2> QED BY <2>3, <2>4
<1> QED BY <1>1, <1>2 DEF DropNew, Exit

LEMMA AbandonEndsKeeps == ASSUME RenewalInv, AbandonEnds PROVE RenewalInv'
<1>i. RowsSound /\ RunTypes /\ JournalSound /\ RunInStep /\ Shared /\ Looked /\ Tracked /\ InHand BY DEF RenewalInv
<1>0. UNCHANGED <<token, late, store, adopted>> /\ rn.pc = "dropped" /\ rn' = Asleep BY DEF AbandonEnds, Running, Exit
<1>1. Fades(Ghost) BY <1>0, <1>i, SameRows
<1>p. /\ intent.phase \in {"minting", "minted"} /\ ~late /\ intent \in Intents /\ rn.keep \in BOOLEAN
      /\ (intent.phase = "minted" => rn.new = intent.new) /\ (rn.keep => intent.phase = "minted")
      /\ rn.new \in Tokens /\ rn.new # Ghost /\ token[rn.new].state = "revoked"
      /\ (intent.phase = "minting" => StraysIn({}))
  BY <1>0, <1>i, RenewalAssumption DEF RunTypes, RunInStep, Shared, Sweeping, Dropping, JournalSound, InHand, RenewalAssumption
<1>s. \A u \in Tokens : ~Stray(u) BY <1>i, <1>p DEF Tracked, StraysIn, Stray
<1>2. CASE intent' = intent
  BY <1>0, <1>1, <1>2, <1>i, JournalStays, RenewalAssumption, RunEnds DEF JournalSound, Intents,
    RenewalAssumption, RenewalInv
<1>3. CASE intent' = NoIntent
  <2>1. \A u \in Tokens : ~Stray(u)' BY <1>0, <1>s DEF Stray
  <2>2. RowsSound' /\ JournalSound' /\ Tracked' BY <1>0, <1>1, <1>3, <1>i, <1>p, <2>1, JournalGoes
  <2> QED BY <1>0, <2>2, RunEnds DEF RenewalInv
<1>4. CASE intent' = [intent EXCEPT !.phase = "minting", !.new = Ghost]
  <2>1. /\ intent'.phase = "minting" /\ intent'.new = Ghost /\ intent'.old = intent.old /\ intent'.known = intent.known
        /\ intent'.oldRevoked = intent.oldRevoked
    BY <1>4, <1>p DEF Intents
  <2>2. intent' \in Intents BY <1>4, <1>p DEF Intents
  <2>3. Ghost \notin intent.known BY <1>p, RenewalAssumption DEF Intents, RenewalAssumption
  <2>4. JournalSound' /\ RowsSound' BY <1>0, <1>1, <1>i, <1>p, <2>1, <2>2, <2>3 DEF JournalSound, Issued, Fades
  <2>5. Tracked' BY <1>0, <1>i, <1>p, <1>s, <2>1 DEF Tracked, Issued, Stray, StraysIn, JournalSound, Intents
  <2> QED BY <1>0, <2>4, <2>5, RunEnds DEF RenewalInv
<1> QED BY <1>2, <1>3, <1>4 DEF AbandonEnds

\* Steps of the proof that only move the run on.
LEMMA ProofMovesOn ==
  ASSUME RenewalInv, UNCHANGED <<token, late, store, intent, adopted>>, rn.pc \in {"recheck"} \cup Proving,
         DOMAIN rn' = RunFields, rn'.old = rn.old, rn'.new = rn.new, rn'.current = rn.current, rn'.todo = rn.todo,
         rn'.clean = rn.clean, rn'.keep = rn.keep, rn'.found = rn.found, rn'.known = rn.known, rn'.goal = rn.goal,
         rn'.stale \in BOOLEAN, rn'.pc \in Proving \cup {"close"}, rn'.pc # "swap",
         rn'.pc \in Proving => intent.phase = "minted",
         rn'.pc = "close" => intent.phase = "verified" /\ (~rn'.stale => store.value = rn.new),
         rn'.pc = "halted_new" => token[rn.old].by = "human"
  PROVE  RenewalInv'
<1>i. RowsSound /\ RunTypes /\ JournalSound /\ RunInStep /\ Shared /\ Looked /\ Tracked /\ InHand BY DEF RenewalInv
<1>1. Fades(Ghost) BY <1>i, SameRows
<1>2. RowsSound' /\ JournalSound' /\ Tracked'
  BY <1>1, <1>i, JournalStays, RenewalAssumption DEF JournalSound, Intents, RenewalAssumption
<1>3. RunTypes' BY <1>i DEF RunTypes, Proving, Closing
<1>4. RunInStep' /\ Looked' BY <1>i DEF RunInStep, Looked, Early, Sweeping, Recovering, Proving, Dropping, Closing
<1>5. Shared' BY <1>i DEF Shared, Issued, Sweeping, Recovering, Proving, Dropping, Closing
<1>6. InHand' BY <1>i DEF InHand, Sweeping, Recovering, Proving
<1> QED BY <1>2, <1>3, <1>4, <1>5, <1>6 DEF RenewalInv

LEMMA RunVerifyKeeps == ASSUME RenewalInv, RunVerify PROVE RenewalInv'
<1>i. RowsSound /\ RunTypes /\ JournalSound /\ RunInStep /\ Shared /\ Looked /\ Tracked /\ InHand BY DEF RenewalInv
<1>0. UNCHANGED <<token, late, store, intent, adopted>> /\ rn.pc = "verify" /\ \E c \in {0, 1} : rn' = [rn EXCEPT !.pc = "check", !.rc = c]
  BY DEF RunVerify, Running
<1>1. DOMAIN rn = RunFields /\ intent.phase = "minted" /\ rn.stale \in BOOLEAN BY <1>0, <1>i DEF RunTypes, RunInStep, Proving
<1>2. /\ DOMAIN rn' = RunFields /\ rn'.old = rn.old /\ rn'.new = rn.new /\ rn'.current = rn.current /\ rn'.todo = rn.todo
      /\ rn'.stale = rn.stale /\ rn'.clean = rn.clean /\ rn'.keep = rn.keep /\ rn'.found = rn.found
      /\ rn'.known = rn.known /\ rn'.goal = rn.goal /\ rn'.pc = "check"
  BY <1>0, <1>1 DEF RunFields
<1> QED BY <1>0, <1>1, <1>2, ProofMovesOn DEF Proving

\* check_tokens ends the run, undoes the renewal under which a person revoked the old token, or goes on.
LEMMA CheckKeeps ==
  ASSUME RenewalInv, rn.pc \in {"check", "recheck"}, UNCHANGED <<token, late, store, intent, adopted>>,
         NEW go \in {"finish", "undo", "verify", "close"}, CheckTokens(go),
         go # "close" => intent.phase = "minted", go = "close" => intent.phase = "verified" /\ rn.pc = "recheck"
  PROVE  RenewalInv'
<1>i. RowsSound /\ RunTypes /\ JournalSound /\ RunInStep /\ Shared /\ Looked /\ Tracked /\ InHand BY DEF RenewalInv
<1>p. /\ DOMAIN rn = RunFields /\ rn.stale \in BOOLEAN /\ rn.old = intent.old /\ rn.old \in Tokens
      /\ intent.phase \in {"minted", "verified"}
      /\ (rn.pc = "recheck" /\ ~rn.stale => store.value = rn.new)
  BY <1>i DEF RunTypes, Shared, Issued, RunInStep, Looked, Proving
<1>1. PICK n \in TokenState(rn.new), o \in TokenState(rn.old) :
        CASE n \in {"revoked", "expired"} -> rn' = Asleep
         [] o = "revoked" /\ n \notin {"revoked", "expired"} /\ ~intent.oldRevoked /\ intent.phase # "verified" ->
              rn' = [rn EXCEPT !.pc = "halted_new"]
         [] n = "active" /\ o # "unreadable"
            /\ ~(o = "revoked" /\ ~intent.oldRevoked /\ intent.phase # "verified") ->
              rn' = [rn EXCEPT !.pc = go, !.oldActive = o = "active"]
         [] OTHER -> rn' = Asleep
  BY DEF CheckTokens, Exit, Step
<1>2. CASE rn' = Asleep
  BY <1>i, SameRows, JournalStays, RenewalAssumption, <1>2, RunEnds DEF JournalSound, Intents,
    RenewalAssumption, RenewalInv
<1>3. CASE rn' = [rn EXCEPT !.pc = "halted_new"] /\ o = "revoked" /\ ~intent.oldRevoked /\ intent.phase # "verified"
  BY <1>3, <1>p, <1>i, ProofMovesOn DEF TokenState, JournalSound, RunFields, Proving
<1>4. CASE rn' = [rn EXCEPT !.pc = go, !.oldActive = o = "active"]
  BY <1>4, <1>p, ProofMovesOn DEF RunFields, Proving
<1> QED BY <1>1, <1>2, <1>3, <1>4

LEMMA ChecksKeep == ASSUME RenewalInv, CheckAfterVerify \/ CheckRecovered PROVE RenewalInv'
<1>1. CASE CheckAfterVerify
  BY <1>1, CheckKeeps DEF CheckAfterVerify, Running, RenewalInv, RunInStep, Proving
<1>2. CASE CheckRecovered
  <2>1. rn.pc = "recheck" /\ intent.phase \in {"minted", "verified"} BY <1>2 DEF CheckRecovered, Running, RenewalInv, RunInStep
  <2>2. CheckTokens(IF intent.phase = "verified" THEN "close" ELSE "verify") BY <1>2 DEF CheckRecovered
  <2>3. CASE intent.phase = "verified"
    <3>1. CheckTokens("close") BY <2>2, <2>3
    <3> QED BY <1>2, <2>1, <2>3, <3>1, CheckKeeps DEF CheckRecovered
  <2>4. CASE intent.phase = "minted"
    <3>1. CheckTokens("verify") BY <2>2, <2>4
    <3> QED BY <1>2, <2>1, <2>4, <3>1, CheckKeeps DEF CheckRecovered
  <2> QED BY <2>1, <2>3, <2>4
<1> QED BY <1>1, <1>2

LEMMA RevokedDuringKeeps == ASSUME RenewalInv, RevokedDuringRenewal PROVE RenewalInv'
<1>i. RowsSound /\ RunTypes /\ JournalSound /\ RunInStep /\ Shared /\ Looked /\ Tracked /\ InHand BY DEF RenewalInv
<1>0. UNCHANGED <<late, store, adopted>> /\ rn.pc = "halted_new" /\ rn' = Asleep BY DEF RevokedDuringRenewal, Running, Exit
<1>p. /\ intent.phase = "minted" /\ ~late /\ intent \in Intents /\ intent.old \in intent.known
      /\ rn.new = intent.new /\ rn.new \in Tokens /\ rn.new \notin intent.known /\ Issued(rn.new) /\ rn.new # Ghost
      /\ rn.old = intent.old /\ Issued(rn.old) /\ intent.known \subseteq rn.known
      /\ StraysIn({rn.new})
  BY <1>0, <1>i, RenewalAssumption DEF RunInStep, Shared, Sweeping, Proving, JournalSound, RenewalAssumption, Tracked
<1>1. PICK r \in RevokeToken(rn.new) : token' = r.rows /\ intent' = (IF r.answer = "ok" THEN NoIntent ELSE intent)
  BY DEF RevokedDuringRenewal
<1>2. Fades(rn.new) /\ (r.answer = "ok" => token'[rn.new].state = "revoked")
  BY <1>0, <1>1, <1>i, <1>p, KilledFacts DEF Issued
<1>3. CASE r.answer # "ok"
  <2>1. RowsSound' /\ JournalSound' /\ Tracked' BY <1>0, <1>1, <1>2, <1>3, <1>i, <1>p, JournalStays
  <2> QED BY <1>0, <2>1, RunEnds DEF RenewalInv
<1>4. CASE r.answer = "ok"
  <2>1. \A u \in Tokens : ~Stray(u)' BY <1>2, <1>4, <1>p DEF Fades, StraysIn, Stray
  <2>2. RowsSound' /\ JournalSound' /\ Tracked' BY <1>0, <1>1, <1>2, <1>4, <1>i, <1>p, <2>1, JournalGoes
  <2> QED BY <1>0, <2>2, RunEnds DEF RenewalInv
<1> QED BY <1>3, <1>4

LEMMA FinishKeeps == ASSUME RenewalInv, Finish PROVE RenewalInv'
<1>i. RowsSound /\ RunTypes /\ JournalSound /\ RunInStep /\ Shared /\ Looked /\ Tracked /\ InHand BY DEF RenewalInv
<1>0. UNCHANGED <<token, late, store, adopted>> /\ rn.pc = "finish" BY DEF Finish, Running
<1>1. Fades(Ghost) BY <1>0, <1>i, SameRows
<1>p. /\ DOMAIN rn = RunFields /\ intent.phase = "minted" /\ ~late /\ intent \in Intents /\ intent.old \in intent.known
      /\ rn.new = intent.new /\ rn.new \in Tokens /\ rn.new \notin intent.known /\ Issued(rn.new) /\ rn.new # Ghost
      /\ rn.old = intent.old /\ Issued(rn.old) /\ intent.known \subseteq rn.known
  BY <1>0, <1>i, RenewalAssumption DEF RunTypes, RunInStep, Shared, Sweeping, Proving, JournalSound, RenewalAssumption
<1>2. CASE rn' = Asleep /\ intent' = intent
  BY <1>0, <1>1, <1>2, <1>i, JournalStays, RenewalAssumption, RunEnds DEF JournalSound, Intents,
    RenewalAssumption, RenewalInv
<1>3. CASE store.value = rn.new /\ intent' = [intent EXCEPT !.phase = "verified"] /\ rn' = Fresh0([rn EXCEPT !.pc = "close"])
  <2>1. /\ intent'.phase = "verified" /\ intent'.new = rn.new /\ intent'.old = intent.old /\ intent'.known = intent.known
    BY <1>3, <1>p DEF Intents
  <2>2. intent' \in Intents BY <1>3, <1>p DEF Intents
  <2>r. /\ DOMAIN rn' = RunFields /\ rn'.old = rn.old /\ rn'.new = rn.new /\ rn'.current = rn.current /\ rn'.todo = rn.todo
        /\ rn'.stale = FALSE /\ rn'.clean = rn.clean /\ rn'.keep = rn.keep /\ rn'.found = rn.found
        /\ rn'.known = rn.known /\ rn'.goal = rn.goal /\ rn'.pc = "close"
    BY <1>3, <1>p DEF RunFields, Fresh0
  <2>3. JournalSound' /\ RowsSound' BY <1>0, <1>1, <1>i, <1>p, <2>1, <2>2 DEF JournalSound, Issued, Fades
  <2>4. Tracked' BY <1>0, <1>i, <1>p, <2>1 DEF Tracked, Issued, Stray, StraysIn
  <2>5. RunTypes' BY <1>0, <1>i, <2>r DEF RunTypes, Closing
  <2>6. RunInStep' /\ Looked'
    BY <1>0, <1>3, <1>p, <2>1, <2>r DEF RunInStep, Looked, Early, Sweeping, Recovering, Proving, Dropping, Closing
  <2>7. Shared' /\ InHand'
    BY <1>0, <1>p, <2>1, <2>r DEF Shared, InHand, Issued, Sweeping, Recovering, Proving, Dropping, Closing
  <2> QED BY <2>3, <2>4, <2>5, <2>6, <2>7 DEF RenewalInv
<1> QED BY <1>2, <1>3 DEF Finish, Exit

LEMMA CloseKeeps == ASSUME RenewalInv, CloseRenewal PROVE RenewalInv'
<1>i. RowsSound /\ RunTypes /\ JournalSound /\ RunInStep /\ Shared /\ Looked /\ Tracked /\ InHand BY DEF RenewalInv
<1>0. UNCHANGED <<late, store, intent, adopted>> /\ rn.pc = "close" BY DEF CloseRenewal, Running
<1>p. /\ DOMAIN rn = RunFields /\ intent.phase = "verified" /\ ~late /\ rn.new = intent.new /\ rn.new \in Tokens
      /\ rn.old = intent.old /\ Issued(rn.old) /\ intent.known \subseteq rn.known
  BY <1>0, <1>i DEF RunTypes, RunInStep, Shared, Sweeping, Closing
<1>1. PICK r \in RevokeToken(rn.old) : token' = r.rows /\ rn' = (IF r.answer = "ok" THEN [rn EXCEPT !.pc = "closed"] ELSE Asleep)
  BY DEF CloseRenewal, Step, Exit
<1>2. Fades(rn.old) BY <1>0, <1>1, <1>i, <1>p, KilledFacts DEF Issued
<1>3. RowsSound' /\ JournalSound' /\ Tracked' BY <1>0, <1>2, <1>i, <1>p, JournalStays DEF Issued
<1>4. CASE rn' = Asleep BY <1>3, <1>4, RunEnds DEF RenewalInv
<1>5. CASE rn' = [rn EXCEPT !.pc = "closed"]
  <2>r. /\ DOMAIN rn' = RunFields /\ rn'.old = rn.old /\ rn'.new = rn.new /\ rn'.current = rn.current /\ rn'.todo = rn.todo
        /\ rn'.stale = rn.stale /\ rn'.clean = rn.clean /\ rn'.keep = rn.keep /\ rn'.found = rn.found
        /\ rn'.known = rn.known /\ rn'.goal = rn.goal /\ rn'.pc = "closed"
    BY <1>5, <1>p DEF RunFields
  <2>1. RunTypes' BY <1>0, <1>i, <2>r DEF RunTypes, Closing
  <2>2. RunInStep' /\ Looked'
    BY <1>0, <1>p, <2>r DEF RunInStep, Looked, Early, Sweeping, Recovering, Proving, Dropping, Closing
  <2>3. Shared' /\ InHand'
    BY <1>0, <1>2, <1>p, <2>r DEF Shared, InHand, Fades, Issued, Sweeping, Recovering, Proving, Dropping, Closing
  <2> QED BY <1>3, <2>1, <2>2, <2>3 DEF RenewalInv
<1> QED BY <1>1, <1>4, <1>5

LEMMA ClearJournalKeeps == ASSUME RenewalInv, ClearJournal PROVE RenewalInv'
<1>i. RowsSound /\ RunTypes /\ JournalSound /\ RunInStep /\ Shared /\ Looked /\ Tracked /\ InHand BY DEF RenewalInv
<1>0. /\ UNCHANGED <<token, late, store>> /\ rn.pc = "closed" /\ rn' = Asleep /\ intent' = NoIntent
      /\ adopted' = adopted \cup {rn.new}
  BY DEF ClearJournal, Running, Exit
<1>1. Fades(Ghost) BY <1>0, <1>i, MoreAdopted
<1>2. ~late /\ \A u \in Tokens : ~Stray(u)'
  BY <1>0, <1>i DEF RunInStep, Shared, JournalSound, Tracked, StraysIn, Stray, Closing, Sweeping
<1>3. RowsSound' /\ JournalSound' /\ Tracked' BY <1>0, <1>1, <1>2, <1>i, JournalGoes
<1> QED BY <1>0, <1>3, RunEnds DEF RenewalInv

LEMMA UndoKeeps == ASSUME RenewalInv, Undo PROVE RenewalInv'
<1>i. RowsSound /\ RunTypes /\ JournalSound /\ RunInStep /\ Shared /\ Looked /\ Tracked /\ InHand BY DEF RenewalInv
<1>0. UNCHANGED <<token, late, intent, adopted>> /\ rn.pc = "undo" BY DEF Undo, Running
<1>1. Fades(Ghost) BY <1>0, <1>i, SameRows
<1>p. /\ DOMAIN rn = RunFields /\ intent.phase = "minted" /\ ~late /\ intent \in Intents /\ intent.old \in intent.known
      /\ rn.new = intent.new /\ rn.new \in Tokens /\ rn.new \notin intent.known /\ Issued(rn.new) /\ rn.new # Ghost
      /\ rn.old = intent.old /\ Issued(rn.old) /\ intent.known \subseteq rn.known
      /\ ~Stray(rn.old)
  BY <1>0, <1>i, RenewalAssumption DEF RunTypes, RunInStep, Shared, Sweeping, Proving, JournalSound, RenewalAssumption, Tracked
<1>2. \/ rn' = Asleep /\ store' = store
      \/ /\ store' = store \/ store' = [store EXCEPT !.value = rn.old]
         /\ \E ok \in BOOLEAN, stale \in BOOLEAN : rn' = [rn EXCEPT !.pc = "undo_new", !.ok = ok, !.stale = stale]
  <2>1. rn.stale \in BOOLEAN BY <1>0, <1>i DEF RunTypes
  <2>2. \A ok : Fresh0([rn EXCEPT !.pc = "undo_new", !.ok = ok]) = [rn EXCEPT !.pc = "undo_new", !.ok = ok, !.stale = FALSE]
    BY <1>p DEF Fresh0, RunFields
  <2>3. [rn EXCEPT !.pc = "undo_new", !.ok = FALSE] = [rn EXCEPT !.pc = "undo_new", !.ok = FALSE, !.stale = rn.stale]
    BY <1>p DEF RunFields
  <2> QED BY <2>1, <2>2, <2>3 DEF Undo, Exit
<1>3. CASE rn' = Asleep /\ store' = store
  BY <1>0, <1>1, <1>3, <1>i, JournalStays, RenewalAssumption, RunEnds DEF JournalSound, Intents,
    RenewalAssumption, RenewalInv
<1>4. CASE /\ store' = store \/ store' = [store EXCEPT !.value = rn.old]
           /\ \E ok \in BOOLEAN, stale \in BOOLEAN : rn' = [rn EXCEPT !.pc = "undo_new", !.ok = ok, !.stale = stale]
  <2>1. store'.value \in {store.value, rn.old} /\ DOMAIN store' = {"value", "rest"} BY <1>4, <1>i DEF Tracked
  <2>2. RowsSound' /\ JournalSound' BY <1>0, <1>1, <1>i DEF Fades, JournalSound, Issued
  <2>3. Tracked' BY <1>0, <1>i, <1>p, <2>1 DEF Tracked, Issued, Stray, StraysIn
  <2>r. /\ DOMAIN rn' = RunFields /\ rn'.old = rn.old /\ rn'.new = rn.new /\ rn'.current = rn.current /\ rn'.todo = rn.todo
        /\ rn'.stale \in BOOLEAN /\ rn'.clean = rn.clean /\ rn'.keep = rn.keep /\ rn'.found = rn.found
        /\ rn'.known = rn.known /\ rn'.goal = rn.goal /\ rn'.pc = "undo_new"
    BY <1>4, <1>p DEF RunFields
  <2>4. RunTypes' BY <1>0, <1>i, <2>r DEF RunTypes, Proving
  <2>5. RunInStep' /\ Looked'
    BY <1>0, <1>p, <2>r DEF RunInStep, Looked, Early, Sweeping, Recovering, Proving, Dropping, Closing
  <2>6. Shared' /\ InHand'
    BY <1>0, <1>p, <2>r DEF Shared, InHand, Issued, Sweeping, Recovering, Proving, Dropping, Closing
  <2> QED BY <2>2, <2>3, <2>4, <2>5, <2>6 DEF RenewalInv
<1> QED BY <1>2, <1>3, <1>4

LEMMA UndoNewKeeps == ASSUME RenewalInv, UndoNew PROVE RenewalInv'
<1>i. RowsSound /\ RunTypes /\ JournalSound /\ RunInStep /\ Shared /\ Looked /\ Tracked /\ InHand BY DEF RenewalInv
<1>0. UNCHANGED <<late, store, adopted>> /\ rn.pc = "undo_new" BY DEF UndoNew, Running
<1>p. /\ intent.phase = "minted" /\ ~late /\ intent \in Intents /\ intent.old \in intent.known
      /\ rn.new = intent.new /\ rn.new \in Tokens /\ rn.new \notin intent.known /\ Issued(rn.new) /\ rn.new # Ghost
      /\ rn.old = intent.old /\ Issued(rn.old) /\ intent.known \subseteq rn.known
      /\ StraysIn({rn.new})
  BY <1>0, <1>i, RenewalAssumption DEF RunInStep, Shared, Sweeping, Proving, JournalSound, RenewalAssumption, Tracked
<1>1. CASE rn' = Asleep /\ UNCHANGED <<token, intent>>
  BY <1>0, <1>1, <1>i, SameRows, JournalStays, RenewalAssumption, RunEnds DEF JournalSound, Intents,
    RenewalAssumption, RenewalInv
<1>2. CASE \E r \in RevokeToken(rn.new) :
             token' = r.rows /\ rn' = Asleep /\ (intent' = intent \/ (r.answer = "ok" /\ intent' = NoIntent))
  <2>0. PICK r \in RevokeToken(rn.new) :
          token' = r.rows /\ rn' = Asleep /\ (intent' = intent \/ (r.answer = "ok" /\ intent' = NoIntent))
    BY <1>2
  <2>1. Fades(rn.new) /\ (r.answer = "ok" => token'[rn.new].state = "revoked")
    BY <1>0, <1>i, <1>p, <2>0, KilledFacts DEF Issued
  <2>2. CASE intent' = intent
    <3>1. RowsSound' /\ JournalSound' /\ Tracked' BY <1>0, <1>i, <1>p, <2>1, <2>2, JournalStays
    <3> QED BY <2>0, <3>1, RunEnds DEF RenewalInv
  <2>3. CASE r.answer = "ok" /\ intent' = NoIntent
    <3>1. \A u \in Tokens : ~Stray(u)' BY <1>p, <2>1, <2>3 DEF Fades, StraysIn, Stray
    <3>2. RowsSound' /\ JournalSound' /\ Tracked' BY <1>0, <1>i, <1>p, <2>1, <2>3, <3>1, JournalGoes
    <3> QED BY <2>0, <3>2, RunEnds DEF RenewalInv
  <2> QED BY <2>0, <2>2, <2>3
<1> QED BY <1>1, <1>2 DEF UndoNew, Exit

LEMMA RenewalCrashKeeps == ASSUME RenewalInv, RenewalCrash PROVE RenewalInv'
BY SameRows, JournalStays, RenewalAssumption, RunEnds DEF RenewalInv, RenewalCrash, Exit, JournalSound,
  Intents, RenewalAssumption

\* A person revokes a token, or time expires one.
LEMMA LossKeeps == ASSUME RenewalInv, NEW t \in Tokens, RevokeByHand(t) \/ ExpireToken(t) PROVE RenewalInv'
<1>i. RowsSound /\ RunTypes /\ JournalSound /\ RunInStep /\ Shared /\ Looked /\ Tracked /\ InHand BY DEF RenewalInv
<1>0. UNCHANGED <<late, store, intent, rn, adopted>> /\ token[t].state = "active" BY DEF RevokeByHand, ExpireToken
<1>p. token[t] \in TokenRows /\ token[t].by = "nobody" BY <1>0, <1>i DEF RowsSound, TokenRows
<1>1. /\ Fades(t) /\ (token'[t].state = "revoked" => token'[t].by = "human")
      /\ (token'[t].by = "tool" => token[t].by = "tool")
  <2>1. CASE RevokeByHand(t)
    BY <2>1, <1>0, <1>i, <1>p, KillFades DEF RevokeByHand
  <2>2. CASE ExpireToken(t)
    <3>1. token' = [token EXCEPT ![t].state = "expired"] BY <2>2 DEF ExpireToken
    <3>2. /\ token'[t] = [token[t] EXCEPT !.state = "expired"] /\ token'[t] \in TokenRows
          /\ \A u \in Tokens : u # t => token'[u] = token[u]
          /\ token' \in [Tokens -> TokenRows]
      BY <1>i, <1>p, <3>1 DEF RowsSound, TokenRows
    <3>3. /\ token'[t].state = "expired" /\ token'[t].by = "nobody" /\ token'[t].agent = token[t].agent
          /\ token'[t].grant = token[t].grant /\ token'[t].minter = token[t].minter
      BY <1>p, <3>2 DEF TokenRows
    <3>r. /\ \A u \in Tokens : token'[u].state = "revoked" <=> token'[u].by # "nobody"
          /\ \A u \in Tokens : token'[u].minter = "tool" => token'[u].grant = "same" /\ token'[u].agent = "own"
      <4> SUFFICES ASSUME NEW u \in Tokens
                   PROVE  /\ token'[u].state = "revoked" <=> token'[u].by # "nobody"
                          /\ token'[u].minter = "tool" => token'[u].grant = "same" /\ token'[u].agent = "own"
        OBVIOUS
      <4>1. CASE u = t BY <1>i, <3>3, <4>1 DEF RowsSound
      <4>2. CASE u # t BY <1>i, <3>2, <4>2 DEF RowsSound
      <4> QED BY <4>1, <4>2
    <3>4. RowsSound' BY <3>2, <3>r DEF RowsSound
    <3> QED BY <1>0, <1>p, <3>2, <3>3, <3>4 DEF Fades, Stray
  <2> QED BY <2>1, <2>2
<1>2. RowsSound' BY <1>1 DEF Fades
<1>3. /\ \A u : Issued(u)' <=> Issued(u)
      /\ \A u \in Tokens : (Stray(u)' => Stray(u)) /\ token'[u].agent = token[u].agent /\ (token[u].by = "human" => token'[u].by = "human")
      /\ \A u \in Tokens : token'[u].state = "revoked" => token'[u] = token[u] \/ token'[u].by = "human"
  BY <1>1 DEF Fades, Issued
<1>4. JournalSound'
  BY <1>0, <1>i, <1>3 DEF JournalSound, Intents
<1>5. Tracked'
  BY <1>i, <1>0, <1>3 DEF JournalSound, Intents, Tracked, StraysIn, Issued
<1>6. RunTypes' /\ RunInStep' /\ Looked' BY <1>0, <1>i DEF RunTypes, RunInStep, Looked
<1>7. Shared'
  BY <1>i, <1>0, <1>3 DEF Shared, Issued, RunTypes
<1>8. InHand'
  BY <1>0, <1>i, <1>1, <1>3 DEF InHand, Shared, Fades, StraysIn, Issued
<1> QED BY <1>2, <1>4, <1>5, <1>6, <1>7, <1>8 DEF RenewalInv

LEMMA EditStoreKeeps == ASSUME RenewalInv, NEW v, EditStore(v) PROVE RenewalInv'
<1>i. RowsSound /\ RunTypes /\ JournalSound /\ RunInStep /\ Shared /\ Looked /\ Tracked /\ InHand BY DEF RenewalInv
<1>0. /\ UNCHANGED <<token, late, intent>> /\ adopted' = adopted \cup {v} /\ (v = Torn \/ Issued(v))
      /\ store'.value = v /\ DOMAIN store' = {"value", "rest"}
      /\ rn' = (IF rn.pc = "idle" THEN rn ELSE [rn EXCEPT !.stale = TRUE])
  BY DEF EditStore, Issued, Running
<1>1. Fades(Ghost) BY <1>0, <1>i, MoreAdopted
<1>2. RowsSound' /\ JournalSound' BY <1>0, <1>1, <1>i DEF Fades, JournalSound, Issued
<1>3. \A u \in Tokens : (Stray(u)' => Stray(u)) /\ (u = v => ~Stray(u)') BY <1>0 DEF Stray
<1>4. Tracked'
  BY <1>i, <1>0, <1>3 DEF JournalSound, Intents, Tracked, StraysIn, Issued
<1>5. CASE rn.pc = "idle"
  <2>1. RunTypes' /\ RunInStep' /\ Shared' /\ Looked' /\ InHand'
    BY <1>0, <1>5 DEF RunTypes, RunInStep, Shared, Looked, InHand, Early, Sweeping, Recovering, Proving, Dropping, Closing
  <2> QED BY <1>2, <1>4, <2>1 DEF RenewalInv
<1>6. CASE rn.pc # "idle"
  BY <1>0, <1>6, <1>i, <1>3, <1>2, <1>4 DEF RunTypes, RunFields, RunInStep, Looked, Shared, Issued, InHand,
    StraysIn, RenewalInv
<1> QED BY <1>5, <1>6

-----------------------------------------------------------------------------
(* Token renewal: the invariant holds, and what follows from it *)

LEMMA RenewalStarts == ASSUME RenewalInit PROVE RenewalInv
<1>1. /\ 1 \in Tokens /\ rn.pc = "idle" /\ intent.phase = "none" /\ ~late /\ store = [value |-> 1, rest |-> 0]
      /\ adopted = {1}
  BY RenewalAssumption DEF RenewalInit, RenewalAssumption, Asleep, NoIntent
<1>2. /\ NoRow \in TokenRows /\ Row("active", "same", "own", "human") \in TokenRows
      /\ NoRow.minter = "nobody" /\ NoRow.state = "none" /\ NoRow.by = "nobody"
      /\ Row("active", "same", "own", "human").minter = "human" /\ Row("active", "same", "own", "human").state = "active"
      /\ Row("active", "same", "own", "human").by = "nobody"
  BY DEF NoRow, Row, TokenRows
<1>3. token = [t \in Tokens |-> IF t = 1 THEN Row("active", "same", "own", "human") ELSE NoRow] BY DEF RenewalInit
<1>4. RowsSound /\ (\A t \in Tokens : ~Stray(t)) /\ Issued(1) BY <1>1, <1>2, <1>3 DEF RowsSound, Stray, Issued
<1>5. Tracked BY <1>1, <1>4 DEF Tracked, StraysIn
<1>6. RunTypes /\ JournalSound /\ RunInStep /\ Shared /\ Looked /\ InHand
  BY <1>1 DEF RunTypes, JournalSound, RunInStep, Shared, Looked, InHand, Early, Sweeping, Recovering, Proving, Dropping, Closing
<1> QED BY <1>4, <1>5, <1>6 DEF RenewalInv

LEMMA RenewalRests == ASSUME RenewalInv, UNCHANGED renewalVars PROVE RenewalInv'
BY DEF renewalVars, RenewalInv, RowsSound, RunTypes, JournalSound, RunInStep, Shared, Looked, Tracked, InHand, Stray, StraysIn, Issued

LEMMA RenewalKeeps == ASSUME RenewalInv, [RenewalNext]_renewalVars PROVE RenewalInv'
<1>1. ASSUME RenewalStep PROVE RenewalInv'
  BY <1>1, RevokeUnstoredKeeps, NeverIssuedKeeps, SweepTokensKeeps, RevokeOrphanKeeps, AfterSweepKeeps, DecideKeeps,
     WriteIntentKeeps, MintTokenKeeps, RecordMintedKeeps, ConfirmMintKeeps, SwapStoreKeeps, DropNewKeeps,
     AbandonEndsKeeps, RunVerifyKeeps, ChecksKeep, RevokedDuringKeeps, FinishKeeps, CloseKeeps, ClearJournalKeeps,
     UndoKeeps, UndoNewKeeps DEF RenewalStep
<1>2. ASSUME RenewalNext, ~RenewalStep PROVE RenewalInv'
  BY <1>2, PersistLateKeeps, RenewalCrashKeeps, RunRenewalKeeps, LossKeeps, MintByHandKeeps, EditStoreKeeps DEF RenewalNext
<1> QED BY <1>1, <1>2, RenewalRests

LEMMA RenewalSafe == ASSUME RenewalInv PROVE NoOrphanToken
BY DEF RenewalInv, Tracked, NoOrphanToken, NoneLeft, Running, StraysIn, Stray

\* What a step of the renewal may do to rows: no token of the snapshot but the old one, and not the stored one
\* unless the store was edited behind the run's back or a person revoked the old token.
SparedStep ==
  \A t \in Tokens : token[t].by # "tool" /\ token'[t].by = "tool" =>
    /\ intent.phase # "none" /\ t \in intent.known => t = intent.old
    /\ t = store.value => rn.stale \/ token[rn.old].by = "human"

\* Only a revoke makes a row the tool's, and only the row it names.
LEMMA RevokeSpares ==
  ASSUME RowsSound, NEW t \in Tokens \cup {Ghost}, NEW r \in RevokeToken(t), token' = r.rows,
         t # Ghost => token[t].state # "none", UNCHANGED adopted,
         intent.phase # "none" /\ t \in intent.known => t = intent.old,
         t = store.value => rn.stale \/ token[rn.old].by = "human"
  PROVE  SparedStep
<1>1. Fades(t) BY KilledFacts
<1> QED BY <1>1 DEF SparedStep, Fades

LEMMA RenewalSpares == ASSUME RenewalInv, [RenewalNext]_renewalVars PROVE SparedStep
<1>i. RowsSound /\ RunTypes /\ JournalSound /\ RunInStep /\ Shared /\ Looked /\ Tracked /\ InHand BY DEF RenewalInv
<1>1. CASE UNCHANGED token BY <1>1 DEF SparedStep
<1>2. ASSUME RevokeUnstored PROVE SparedStep
  BY <1>2, <1>i, RevokeSpares DEF RevokeUnstored, Running, RunInStep, Shared, Recovering, JournalSound,
    RunTypes, Looked, Issued
<1>3. ASSUME RevokeOrphan, rn.todo # {} PROVE SparedStep
  <2> DEFINE t == CHOOSE u \in rn.todo : TRUE
  <2>1. rn.pc = "orphans" /\ t \in rn.todo BY <1>3 DEF RevokeOrphan, Running
  <2>2. \E r \in RevokeToken(t) : token' = r.rows BY <1>3 DEF RevokeOrphan
  <2> HIDE DEF t
  <2>3. t \in Tokens /\ Issued(t) /\ t \notin intent.known /\ (rn.stale \/ t # store.value)
    BY <1>i, <2>1 DEF Shared, Sweeping, RunTypes, Looked
  <2> QED BY <1>3, <1>i, <2>2, <2>3, RevokeSpares DEF RevokeOrphan, Issued
<1>4. ASSUME DropNew PROVE SparedStep
  <2>1. rn.pc = "drop_new" BY <1>4 DEF DropNew, Running
  <2>2. rn.new \in Tokens \cup {Ghost} /\ (rn.new # Ghost => Issued(rn.new)) /\ rn.new \notin intent.known
    BY <1>i, <2>1 DEF Shared, Dropping, RunTypes
  <2>3. CASE MayDrop(rn.new)
    <3>1. rn.new # store.value BY <2>3 DEF MayDrop
    <3> QED BY <1>4, <1>i, <2>2, <2>3, <3>1, RevokeSpares DEF DropNew, Issued
  <2>4. CASE ~MayDrop(rn.new) BY <1>4, <2>4, <1>1 DEF DropNew
  <2> QED BY <2>3, <2>4
<1>5. ASSUME UndoNew PROVE SparedStep
  <2>1. rn.pc = "undo_new" BY <1>5 DEF UndoNew, Running
  <2>2. rn.new \in Tokens /\ Issued(rn.new) /\ rn.new \notin intent.known
    BY <1>i, <2>1, RenewalAssumption DEF Shared, Proving, RunTypes, RunInStep, JournalSound, RenewalAssumption
  <2>3. CASE MayDrop(rn.new)
    <3>1. rn.new # store.value BY <2>3 DEF MayDrop
    <3> QED BY <1>5, <1>i, <2>2, <2>3, <3>1, RevokeSpares DEF UndoNew, Issued
  <2>4. CASE ~MayDrop(rn.new) BY <1>5, <2>4, <1>1 DEF UndoNew
  <2> QED BY <2>3, <2>4
<1>6. ASSUME RevokedDuringRenewal PROVE SparedStep
  BY <1>6, <1>i, RenewalAssumption, RevokeSpares DEF RevokedDuringRenewal, Running, Shared, Proving, RunTypes,
    RunInStep, JournalSound, RenewalAssumption, Issued
<1>7. ASSUME CloseRenewal PROVE SparedStep
  BY <1>7, <1>i, RevokeSpares DEF CloseRenewal, Running, Shared, Closing, RunTypes, RunInStep, JournalSound,
    Looked, Issued
<1>8. ASSUME MintToken PROVE SparedStep
  BY <1>8, <1>i, MintGrows DEF MintToken, MintedRows, SparedStep, Grows
<1>9. ASSUME PersistLate PROVE SparedStep
  BY <1>9, <1>i, MintGrows DEF PersistLate, MintedRows, SparedStep, Grows
<1>10. ASSUME NEW g \in {"same", "other"}, NEW a \in {"own", "other"}, MintByHand(g, a) PROVE SparedStep
  <2>1. Grows(Next0, "human") BY <1>10, <1>i, MintGrows DEF MintByHand
  <2> QED BY <2>1 DEF SparedStep, Grows
<1>11. ASSUME NEW t \in Tokens, RevokeByHand(t) \/ ExpireToken(t) PROVE SparedStep
  BY <1>i, <1>11 DEF RowsSound, RevokeByHand, ExpireToken, TokenRows, SparedStep
<1>12. ASSUME RenewalStep PROVE SparedStep
  <2>1. CASE \/ NeverIssued \/ SweepTokens \/ AfterSweep \/ DecideRenewal \/ WriteIntent \/ RecordMinted \/ ConfirmMint
             \/ SwapStore \/ AbandonEnds \/ RunVerify \/ CheckAfterVerify \/ CheckRecovered \/ Finish \/ ClearJournal
             \/ Undo \/ (RevokeOrphan /\ rn.todo = {})
    BY <1>1, <2>1 DEF NeverIssued, SweepTokens, AfterSweep, DecideRenewal, WriteIntent, RecordMinted, ConfirmMint,
         SwapStore, AbandonEnds, RunVerify, CheckAfterVerify, CheckRecovered, Finish, ClearJournal, Undo, RevokeOrphan
  <2> QED BY <1>2, <1>3, <1>4, <1>5, <1>6, <1>7, <1>8, <1>12, <2>1 DEF RenewalStep
<1>13. ASSUME RenewalCrash \/ (\E f \in BOOLEAN : RunRenewal(f)) \/ (\E v \in Tokens \cup {Torn} : EditStore(v)) PROVE SparedStep
  BY <1>1, <1>13 DEF RenewalCrash, RunRenewal, EditStore
<1>14. ASSUME UNCHANGED renewalVars PROVE SparedStep BY <1>1, <1>14 DEF renewalVars
<1> QED BY <1>9, <1>10, <1>11, <1>12, <1>13, <1>14 DEF RenewalNext

\* After any crashes, lost or id-less answers, late rows and edits, with any number of tokens: once
\* no run and no journal is left, no token a mint of the tool created is alive unadopted.
THEOREM NoTokenAstray == RenewalSpec => []NoOrphanToken
<1>1. RenewalInit => RenewalInv BY RenewalStarts
<1>2. RenewalInv /\ [RenewalNext]_renewalVars => RenewalInv' BY RenewalKeeps
<1>3. RenewalInv => NoOrphanToken BY RenewalSafe
<1> QED BY <1>1, <1>2, <1>3, PTL DEF RenewalSpec

-----------------------------------------------------------------------------
(* The approver: its inductive invariant *)

Statuses == {"requires_action", "end_turn", "running"}
Entries ==
  [type : Statuses \cup {"ask", "confirmation", "custom", "custom_result"}, id : Asks \cup {NoAsk},
   ids : SUBSET (Asks \cup {"custom", "absent"}), ahead : BOOLEAN]
Sessions ==
  [status : {"running", "idle"}, archived : BOOLEAN, log : Seq(Entries), open : SUBSET Asks, fresh : SUBSET Asks,
   used : Nat, interrupting : BOOLEAN]

\* The last word on the session's status among its first n events is the j-th.
Latest(j, n) == j \in 1..n /\ api.log[j].type \in Statuses /\ \A i \in (j + 1)..n : api.log[i].type \notin Statuses

\* An ask is asked once; what the log says is confirmed is no longer open; and an idle that names
\* what it waits for names all that is open.
SessionSound ==
  /\ api \in Sessions /\ api.open \cap api.fresh = {} /\ (api.archived => api.open = {})
  /\ \A j \in 1..Len(api.log) :
       /\ api.log[j].type \in {"ask", "confirmation"} => api.log[j].id \in Asks \ api.fresh
       /\ api.log[j].type = "confirmation" => api.log[j].id \notin api.open
       /\ Latest(j, Len(api.log)) /\ api.log[j].type = "requires_action" /\ api.log[j].ids # {"absent"} =>
            api.open \subseteq api.log[j].ids

\* Asks that were asked and block the session no more, or whose confirmation was refused for good.
Over(S) == S \subseteq Asks \ api.fresh /\ S \cap api.open \subseteq refused

\* What the poller holds of the session is what the events it has seen say.
HeldFields ==
  {"seen", "cursor", "asks", "answered", "stale", "customs", "stop", "ids", "listed", "idleSeq", "maybe", "updated", "read"}
Held(s) ==
  /\ DOMAIN s = HeldFields /\ s.seen \in 0..Len(api.log) /\ s.cursor \in 0..s.seen
  /\ s.asks \subseteq Asks \ api.fresh /\ Over(s.answered) /\ Over(s.stale)
  /\ s.stop = "requires_action" /\ s.listed =>
       \E j \in 1..s.seen : /\ Latest(j, s.seen) /\ api.log[j].type = "requires_action"
                            /\ api.log[j].ids = s.ids /\ s.ids # {"absent"}

\* A tick's plan is of asks that were asked, and allows nothing once the stop was there before it
\* began; of a batch that is split, the singles sent so far that got a final answer are over.
TickSound ==
  /\ DOMAIN tick = {"pc", "snap", "plan", "outcome", "late"} /\ tick.late \in BOOLEAN /\ (tick.late => blocked)
  /\ tick.pc \in {"rest", "read", "check", "send", "split", "usage", "cursor"}
  /\ tick.snap.used \in Nat
  /\ tick.pc # "split" => DOMAIN tick.outcome = {}
  /\ tick.pc = "check" => Eligible(st) # {}
  /\ tick.pc \in {"send", "split"} =>
       /\ DOMAIN tick.plan \subseteq Asks \ api.fresh /\ DOMAIN tick.plan # {}
       /\ \A a \in DOMAIN tick.plan : tick.plan[a] = "allow" => ~tick.late
  /\ tick.pc = "split" =>
       /\ DOMAIN tick.outcome \subseteq DOMAIN tick.plan /\ DOMAIN tick.outcome # DOMAIN tick.plan
       /\ \A a \in DOMAIN tick.outcome : tick.outcome[a] # "retry" => Over({a})

WireSound ==
  \A w \in wire : /\ DOMAIN w.batch \subseteq Asks \ api.fresh
                  /\ \A a \in DOMAIN w.batch : w.batch[a] = "allow" => ~w.late

\* Where the governor's total, the cursor's file and its memory stand.
UsageSound ==
  /\ usage \in [governor : Nat, memory : Nat, disk : Nat]
  /\ usage.disk <= usage.governor /\ usage.memory <= usage.governor
  /\ tick.pc = "cursor" => tick.snap.used <= usage.governor
  /\ ~aleft.failed =>
       /\ usage.memory = usage.disk
       /\ usage.governor = IF tick.pc = "cursor" THEN tick.snap.used ELSE usage.disk

LeftSound ==
  /\ DOMAIN aleft = {"shapes", "turns", "faults", "failed"} /\ aleft.failed \in BOOLEAN
  /\ aleft.shapes \subseteq [asked : SUBSET Asks, custom : BOOLEAN, named : BOOLEAN, ahead : BOOLEAN]

ApproverInv ==
  SessionSound /\ Held(st) /\ TickSound /\ WireSound /\ UsageSound /\ LeftSound /\ blocked \in BOOLEAN /\ AllowsHeedStop

-----------------------------------------------------------------------------
(* The approver: the session and its log *)

\* A set of asks put in a row, each as one event.
LEMMA EventsInARow ==
  ASSUME NEW as \in SUBSET Asks, NEW T, NEW g, T = {g[a] : a \in as}, T \subseteq Entries,
         \A a, b \in as : g[a] = g[b] => a = b
  PROVE  SetToSeq(T) \in Seq(T) /\ SetToSeq(T) \in Seq(Entries)
<1>1. IsFiniteSet(as) BY FS_Subset, ApproverAssumption DEF ApproverAssumption
<1>2. IsFiniteSet(T)
  <2> DEFINE f == [a \in as |-> g[a]]
  <2>1. f \in Bijection(as, T) BY DEF Bijection, Injection, Surjection, IsInjective
  <2> QED BY <1>1, <2>1, FS_Bijection DEF ExistsBijection
<1> DEFINE n == Cardinality(T)
<1>3. n \in Nat /\ \E f \in [1..n -> T] : IsInjective(f)
  BY <1>2, FS_CardinalityType DEF ExistsBijection, Bijection, Injection
<1>4. SetToSeq(T) \in [1..n -> T] BY <1>3 DEF SetToSeq
<1> HIDE DEF n
<1>5. SetToSeq(T) \in Seq(T) BY <1>3, <1>4, SeqDef
<1> QED BY <1>5, SeqMonotonic

\* A step that only adds to the log, and to what is open only what was never asked before.
Moves ==
  /\ api'.fresh \subseteq api.fresh /\ api'.open \cap (Asks \ api.fresh) \subseteq api.open
  /\ Len(api.log) \in Nat /\ Len(api'.log) \in Nat /\ Len(api.log) <= Len(api'.log)
  /\ \A j \in 1..Len(api.log) : api'.log[j] = api.log[j]

LEMMA LogGrows ==
  ASSUME SessionSound, api' \in Sessions, api'.open \cap api'.fresh = {}, api'.archived => api'.open = {},
         api'.fresh \subseteq api.fresh, api'.open \cap (Asks \ api.fresh) \subseteq api.open,
         Len(api.log) <= Len(api'.log), \A j \in 1..Len(api.log) : api'.log[j] = api.log[j],
         \A j \in (Len(api.log) + 1)..Len(api'.log) :
           /\ api'.log[j].type \in {"ask", "confirmation"} => api'.log[j].id \in Asks \ api'.fresh
           /\ api'.log[j].type = "confirmation" => api'.log[j].id \notin api'.open,
         \/ /\ api'.open \subseteq api.open
            /\ \A j \in (Len(api.log) + 1)..Len(api'.log) : api'.log[j].type \notin Statuses
         \/ /\ Len(api.log) < Len(api'.log) /\ api'.log[Len(api'.log)].type \in Statuses
            /\ api'.log[Len(api'.log)].type = "requires_action" /\ api'.log[Len(api'.log)].ids # {"absent"} =>
                 api'.open \subseteq api'.log[Len(api'.log)].ids
  PROVE  SessionSound' /\ Moves
<1> DEFINE n == Len(api.log)
           m == Len(api'.log)
<1>0. n \in Nat /\ m \in Nat BY DEF SessionSound, Sessions
<1>1. Moves BY <1>0 DEF Moves
<1>2. ASSUME NEW j \in 1..m
      PROVE  /\ api'.log[j].type \in {"ask", "confirmation"} => api'.log[j].id \in Asks \ api'.fresh
             /\ api'.log[j].type = "confirmation" => api'.log[j].id \notin api'.open
  <2>1. CASE j \in 1..n
    BY <2>1 DEF SessionSound
  <2>2. CASE j \in (n + 1)..m BY <2>2
  <2> QED BY <1>0, <2>1, <2>2
<1>3. ASSUME NEW j \in 1..m, api'.log[j].type \in Statuses, \A i \in (j + 1)..m : api'.log[i].type \notin Statuses,
             api'.log[j].type = "requires_action", api'.log[j].ids # {"absent"}
      PROVE  api'.open \subseteq api'.log[j].ids
  <2>1. api'.log[j].type \in Statuses /\ \A i \in (j + 1)..m : api'.log[i].type \notin Statuses
    BY <1>3
  <2>2. CASE /\ api'.open \subseteq api.open
             /\ \A i \in (n + 1)..m : api'.log[i].type \notin Statuses
    <3>1. j \in 1..n BY <1>0, <2>1, <2>2
    <3>2. Latest(j, n) BY <1>0, <2>1, <3>1 DEF Latest
    <3>3. api'.log[j] = api.log[j] BY <3>1
    <3> QED BY <1>3, <2>2, <3>1, <3>2, <3>3 DEF SessionSound
  <2>3. CASE /\ n < m /\ api'.log[m].type \in Statuses
             /\ api'.log[m].type = "requires_action" /\ api'.log[m].ids # {"absent"} => api'.open \subseteq api'.log[m].ids
    <3>1. j = m BY <1>0, <2>1, <2>3
    <3> QED BY <1>3, <2>3, <3>1
  <2> QED BY <2>2, <2>3
<1>4. m = Len(api.log)' OBVIOUS
<1> HIDE DEF n, m
<1>5. SessionSound' BY <1>2, <1>3, <1>4 DEF SessionSound, Latest
<1> QED BY <1>1, <1>5

LEMMA SessionStays == ASSUME SessionSound, UNCHANGED api PROVE SessionSound' /\ Moves
<1>1. SessionSound' BY DEF SessionSound, Latest
<1> QED BY <1>1 DEF Moves, SessionSound, Sessions

LEMMA AddedLast ==
  ASSUME NEW l \in Seq(Entries), NEW r \in Entries
  PROVE  /\ l \o <<r>> \in Seq(Entries) /\ Len(l \o <<r>>) = Len(l) + 1 /\ Len(l) \in Nat
         /\ \A j \in 1..Len(l) : (l \o <<r>>)[j] = l[j]
         /\ (l \o <<r>>)[Len(l) + 1] = r
         /\ Append(l, r) = l \o <<r>>
BY LenProperties, ConcatProperties, AppendIsConcat

LEMMA ConfirmMoves ==
  ASSUME SessionSound, NEW as \in SUBSET api.open, ~api.archived, api' = Confirmed(as)
  PROVE  SessionSound' /\ Moves /\ as \cap api'.open = {} /\ as \subseteq Asks \ api'.fresh
<1> DEFINE g == [a \in as |-> Event("confirmation", a, {}, FALSE)]
           T == {g[a] : a \in as}
           r == Event("running", NoAsk, {}, FALSE)
           left == api.open \ as
           n == Len(api.log)
<1>0. api \in Sessions /\ api.open \subseteq Asks \ api.fresh /\ api.log \in Seq(Entries) BY DEF SessionSound, Sessions
<1>1. as \in SUBSET Asks BY <1>0
<1>2. r \in Entries /\ r.type = "running" BY DEF Entries, Event, Statuses
<1>3. ASSUME NEW a \in as PROVE g[a] \in Entries /\ g[a].type = "confirmation" /\ g[a].id = a
  BY <1>1 DEF Entries, Event, Statuses
<1>4. \A a, b \in as : g[a] = g[b] => a = b BY <1>3
<1>5. T = {Event("confirmation", a, {}, FALSE) : a \in as} OBVIOUS
<1>6. T \subseteq Entries /\ \A x \in T : x.type = "confirmation" /\ x.id \in as
  <2> HIDE DEF g
  <2> QED BY <1>3
<1> DEFINE e == SetToSeq(T)
           l == api.log \o e
<1>7. e \in Seq(T) /\ e \in Seq(Entries)
  <2> HIDE DEF g
  <2>1. T = {g[a] : a \in as} OBVIOUS
  <2> HIDE DEF T
  <2> QED BY <1>1, <1>4, <1>6, <2>1, EventsInARow
<1>8. /\ api'.open = left /\ api'.fresh = api.fresh /\ api'.archived = api.archived
      /\ api'.log = IF left = {} THEN l \o <<r>> ELSE l
      /\ api'.status \in {api.status, "running"} /\ api'.used = api.used /\ api'.interrupting = api.interrupting
      /\ api' = [api EXCEPT !.open = api'.open, !.log = api'.log, !.status = api'.status]
  <2> HIDE DEF T, r
  <2>1. api' = [api EXCEPT !.open = left, !.log = IF left = {} THEN l \o <<r>> ELSE l,
                           !.status = IF left = {} THEN "running" ELSE @]
    BY <1>5 DEF Confirmed, r
  <2> HIDE DEF l, left
  <2> QED BY <1>0, <2>1 DEF Sessions
<1> HIDE DEF g, T, e, r, left
<1>9. n \in Nat /\ Len(e) \in Nat BY <1>0, <1>7, LenProperties
<1>10. /\ l \in Seq(Entries) /\ Len(l) = n + Len(e) /\ \A j \in 1..n : l[j] = api.log[j]
       /\ \A j \in (n + 1)..Len(l) : l[j] \in T
  BY <1>7, ElementOfSeq, <1>0, <1>9, ConcatProperties
<1> HIDE DEF l, n
<1>11. /\ l \o <<r>> \in Seq(Entries) /\ Len(l \o <<r>>) = Len(l) + 1
       /\ \A j \in 1..Len(l) : (l \o <<r>>)[j] = l[j]
       /\ (l \o <<r>>)[Len(l) + 1] = r
  BY <1>2, <1>10, AddedLast
<1>12. /\ api'.log \in Seq(Entries) /\ n <= Len(api'.log) /\ \A j \in 1..n : api'.log[j] = api.log[j]
       /\ \A j \in (n + 1)..Len(api'.log) : api'.log[j] \in T \/ (api'.log[j] = r /\ left = {})
       /\ left = {} => api'.log[Len(api'.log)] = r /\ n < Len(api'.log)
       /\ left # {} => \A j \in (n + 1)..Len(api'.log) : api'.log[j] \in T
  <2>1. CASE left # {}
    <3>1. api'.log = l BY <1>8, <2>1
    <3> QED BY <1>9, <1>10, <2>1, <3>1
  <2>2. CASE left = {}
    <3>1. api'.log = l \o <<r>> BY <1>8, <2>2
    <3> DEFINE k == l \o <<r>>
    <3> HIDE DEF k
    <3>2. api'.log = k BY <3>1 DEF k
    <3>3. k \in Seq(Entries) /\ Len(k) = Len(l) + 1 /\ (\A j \in 1..Len(l) : k[j] = l[j]) /\ k[Len(l) + 1] = r
      BY <1>11 DEF k
    <3> QED BY <1>9, <1>10, <2>2, <3>2, <3>3
  <2> QED BY <2>1, <2>2
<1>13. api' \in Sessions BY <1>0, <1>8, <1>12 DEF Sessions, left
<1>14. \A j \in (n + 1)..Len(api'.log) :
         /\ api'.log[j].type \in {"ask", "confirmation"} => api'.log[j].id \in Asks \ api'.fresh
         /\ api'.log[j].type = "confirmation" => api'.log[j].id \notin api'.open
  BY <1>0, <1>2, <1>6, <1>8, <1>12 DEF left
<1>15. left # {} => \A j \in (n + 1)..Len(api'.log) : api'.log[j].type \notin Statuses
  BY <1>6, <1>12 DEF Statuses
<1>16. left = {} => api'.log[Len(api'.log)].type = "running" BY <1>2, <1>12
<1>17. /\ api'.open \cap api'.fresh = {} /\ (api'.archived => api'.open = {}) /\ api'.fresh \subseteq api.fresh
       /\ api'.open \cap (Asks \ api.fresh) \subseteq api.open /\ api'.open \subseteq api.open
  BY <1>0, <1>8 DEF left
<1>18. SessionSound' /\ Moves
  BY <1>12, <1>13, <1>14, <1>15, <1>16, <1>17, LogGrows DEF Statuses, n
<1>19. as \cap api'.open = {} /\ as \subseteq Asks \ api'.fresh BY <1>0, <1>8 DEF left
<1> QED BY <1>18, <1>19

\* A step that adds one event which neither asks nor confirms, with nothing left open.
LEMMA OneWord ==
  ASSUME SessionSound, NEW r \in Entries, r.type \in {"running", "end_turn", "custom_result"},
         api' = [api EXCEPT !.open = {}, !.log = api.log \o <<r>>, !.status = api'.status,
                            !.interrupting = api'.interrupting],
         api'.status \in {"running", "idle"}, api'.interrupting \in BOOLEAN
  PROVE  SessionSound' /\ Moves
<1> DEFINE l == api.log \o <<r>>
           n == Len(api.log)
<1>0. api \in Sessions /\ api.log \in Seq(Entries) BY DEF SessionSound, Sessions
<1>1. /\ l \in Seq(Entries) /\ Len(l) = n + 1 /\ n \in Nat
      /\ \A j \in 1..n : l[j] = api.log[j]
      /\ l[n + 1] = r
  BY <1>0, AddedLast
<1> HIDE DEF l, n
<1>2. /\ api' \in Sessions /\ api'.log = l /\ api'.open = {} /\ api'.fresh = api.fresh
  BY <1>0, <1>1 DEF Sessions, l
<1>3. /\ Len(api'.log) = n + 1 /\ \A j \in 1..n : api'.log[j] = api.log[j]
      /\ \A j \in (n + 1)..Len(api'.log) : api'.log[j] = r
      /\ api'.log[Len(api'.log)] = r
  BY <1>1, <1>2
<1>4. n < Len(api'.log) /\ n <= Len(api'.log) BY <1>1, <1>3
<1>5. \A j \in (n + 1)..Len(api'.log) : api'.log[j].type \notin {"ask", "confirmation"} BY <1>3
<1>6. \/ \A j \in (n + 1)..Len(api'.log) : api'.log[j].type \notin Statuses
      \/ api'.log[Len(api'.log)].type \in Statuses /\ api'.log[Len(api'.log)].type # "requires_action"
  BY <1>3 DEF Statuses
<1>7. api'.open \cap api'.fresh = {} /\ api'.fresh \subseteq api.fresh /\ api'.open \subseteq api.open BY <1>2
<1> QED BY <1>2, <1>3, <1>4, <1>5, <1>6, <1>7, LogGrows DEF n

LEMMA AgentTurns ==
  ASSUME SessionSound, LeftSound, NEW t \in aleft.shapes, AgentTurn(t)
  PROVE  SessionSound' /\ Moves
<1> DEFINE g == [a \in t.asked |-> Event("ask", a, {}, t.ahead)]
           T == {g[a] : a \in t.asked}
           e == SetToSeq(T)
           x == Event("custom", NoAsk, {}, FALSE)
           c == IF t.custom THEN <<x>> ELSE <<>>
           stop == IF t.asked # {} \/ t.custom THEN "requires_action" ELSE "end_turn"
           names == IF t.named THEN t.asked \cup (IF t.custom THEN {"custom"} ELSE {}) ELSE {"absent"}
           i == Event(stop, NoAsk, names, FALSE)
           l == api.log \o (e \o c) \o <<i>>
           n == Len(api.log)
<1>0. api \in Sessions /\ api.log \in Seq(Entries) /\ api.open \cap api.fresh = {} BY DEF SessionSound, Sessions
<1>1. /\ t.asked \in SUBSET Asks /\ t.custom \in BOOLEAN /\ t.named \in BOOLEAN /\ t.ahead \in BOOLEAN
      /\ t.asked \subseteq api.fresh /\ ~api.archived
  BY DEF LeftSound, AgentTurn
<1>2. x \in Entries /\ x.type = "custom" /\ i \in Entries /\ i.type \in {"requires_action", "end_turn"}
      /\ (i.ids # {"absent"} => t.asked \subseteq i.ids)
  <2>1. stop \in {"requires_action", "end_turn"} /\ names \in SUBSET (Asks \cup {"custom", "absent"})
    BY <1>1
  <2>2. names # {"absent"} => t.asked \subseteq names OBVIOUS
  <2>3. x \in Entries /\ x.type = "custom" BY DEF Entries, Event, Statuses
  <2> HIDE DEF stop, names
  <2>4. i \in Entries /\ i.type = stop /\ i.ids = names BY <2>1 DEF Entries, Event, Statuses
  <2> QED BY <2>1, <2>2, <2>3, <2>4
<1>3. ASSUME NEW a \in t.asked PROVE g[a] \in Entries /\ g[a].type = "ask" /\ g[a].id = a
  BY <1>1 DEF Entries, Event, Statuses
<1>4. \A a, b \in t.asked : g[a] = g[b] => a = b BY <1>3
<1>5. T = {Event("ask", a, {}, t.ahead) : a \in t.asked} OBVIOUS
<1>6. T \subseteq Entries /\ \A y \in T : y.type = "ask" /\ y.id \in t.asked
  <2> HIDE DEF g
  <2> QED BY <1>3
<1>7. e \in Seq(T) /\ e \in Seq(Entries)
  <2> HIDE DEF g
  <2>1. T = {g[a] : a \in t.asked} OBVIOUS
  <2> HIDE DEF T
  <2> QED BY <1>1, <1>4, <1>6, <2>1, EventsInARow
<1> HIDE DEF stop, names, i, x
<1>8. /\ api' = [api EXCEPT !.log = l, !.status = "idle", !.open = t.asked, !.fresh = api.fresh \ t.asked,
                            !.used = api.used + 1]
  <2> HIDE DEF T
  <2>1. SetToSeq({Event("ask", a, {}, t.ahead) : a \in t.asked}) = e BY <1>5
  <2> HIDE DEF e
  <2> QED BY <2>1 DEF AgentTurn, stop, names, i, x
<1>9. c \in Seq(Entries) /\ \A j \in 1..Len(c) : c[j] = x
  <2>1. CASE t.custom
    <3>1. c = <<x>> BY <2>1
    <3> HIDE DEF c
    <3> QED BY <1>2, <3>1
  <2>2. CASE ~t.custom
    <3>1. c = <<>> BY <2>2
    <3> HIDE DEF c
    <3> QED BY <3>1
  <2> QED BY <2>1, <2>2
<1> HIDE DEF g, T, e, c
<1> DEFINE d == e \o c
           k == api.log \o d
<1>10. d \in Seq(Entries) /\ \A j \in 1..Len(d) : d[j] \in T \/ d[j] = x
  BY <1>7, ElementOfSeq, <1>9, LenProperties, ConcatProperties
<1> HIDE DEF d
<1>11. k \in Seq(Entries) /\ n \in Nat /\ n <= Len(k) /\ Len(k) \in Nat
       /\ (\A j \in 1..n : k[j] = api.log[j]) /\ \A j \in (n + 1)..Len(k) : k[j] \in T \/ k[j] = x
  BY <1>0, <1>10, LenProperties, ConcatProperties
<1>12. l = k \o <<i>> BY DEF l, k, d
<1> HIDE DEF l, k, n
<1>13. /\ l \in Seq(Entries) /\ Len(l) = Len(k) + 1 /\ l[Len(k) + 1] = i
       /\ \A j \in 1..Len(k) : l[j] = k[j]
  BY <1>2, <1>11, <1>12, AddedLast
<1>14. /\ api' \in Sessions /\ api'.log = l /\ api'.open = t.asked /\ api'.fresh = api.fresh \ t.asked
       /\ api'.archived = api.archived
  <2>1. api.used + 1 \in Nat BY <1>0 DEF Sessions
  <2> QED BY <1>0, <1>1, <1>8, <1>13, <2>1 DEF Sessions
<1>15. /\ n < Len(api'.log) /\ n <= Len(api'.log) /\ \A j \in 1..n : api'.log[j] = api.log[j]
       /\ \A j \in (n + 1)..Len(api'.log) : api'.log[j] \in T \/ api'.log[j] \in {x, i}
       /\ api'.log[Len(api'.log)] = i
  BY <1>11, <1>13, <1>14
<1>16. \A j \in (n + 1)..Len(api'.log) :
         /\ api'.log[j].type \in {"ask", "confirmation"} => api'.log[j].id \in Asks \ api'.fresh
         /\ api'.log[j].type # "confirmation"
  BY <1>1, <1>2, <1>6, <1>14, <1>15
<1>17. api'.log[Len(api'.log)].type \in Statuses
       /\ (api'.log[Len(api'.log)].ids # {"absent"} => api'.open \subseteq api'.log[Len(api'.log)].ids)
  BY <1>2, <1>14, <1>15 DEF Statuses
<1>18. /\ api'.open \cap api'.fresh = {} /\ (api'.archived => api'.open = {}) /\ api'.fresh \subseteq api.fresh
       /\ api'.open \cap (Asks \ api.fresh) \subseteq api.open
  BY <1>1, <1>14
<1> QED BY <1>14, <1>15, <1>16, <1>17, <1>18, LogGrows DEF n

-----------------------------------------------------------------------------
(* The approver: reading the log *)

\* One more event taken in.
LEMMA ReadOne ==
  ASSUME SessionSound, NEW s, Held(s), NEW i \in 1..Len(api.log), s.seen = i - 1
  PROVE  Held(ReadEvent(s, i, api.log[i])) /\ ReadEvent(s, i, api.log[i]).seen = i
<1> DEFINE e == api.log[i]
           r == ReadEvent(s, i, e)
           t == [s EXCEPT !.seen = i, !.cursor = CursorAfter(@, i, e)]
<1>0. /\ Len(api.log) \in Nat /\ e \in Entries /\ DOMAIN s = HeldFields
      /\ s.cursor \in 0..(i - 1) /\ s.asks \subseteq Asks \ api.fresh /\ Over(s.answered) /\ Over(s.stale)
  <2>1. api.log \in Seq(Entries) BY DEF SessionSound, Sessions
  <2> QED BY <2>1, ElementOfSeq, LenProperties DEF Held
<1>1. /\ e.type \in {"ask", "confirmation"} => e.id \in Asks \ api.fresh
      /\ e.type = "confirmation" => e.id \notin api.open
  BY DEF SessionSound
<1>2. /\ DOMAIN t = HeldFields /\ t.seen = i /\ t.cursor \in 0..i /\ t.asks = s.asks /\ t.answered = s.answered
      /\ t.stale = s.stale /\ t.stop = s.stop /\ t.listed = s.listed /\ t.ids = s.ids
  BY <1>0 DEF HeldFields, CursorAfter
<1>3. e.type \notin Statuses /\ s.stop = "requires_action" /\ s.listed =>
        \E j \in 1..i : Latest(j, i) /\ api.log[j].type = "requires_action" /\ api.log[j].ids = s.ids /\ s.ids # {"absent"}
  BY DEF Held, Latest
<1> HIDE DEF t
<1> USE DEF HeldFields
<1>4. CASE e.type = "ask" /\ e.id \notin s.answered \cup s.stale
  <2>1. r = [t EXCEPT !.asks = @ \cup {e.id}] BY <1>4 DEF ReadEvent, t
  <2>2. /\ DOMAIN r = HeldFields /\ r.seen = i /\ r.cursor = t.cursor /\ r.asks = s.asks \cup {e.id}
        /\ r.answered = s.answered /\ r.stale = s.stale /\ r.stop = s.stop /\ r.listed = s.listed /\ r.ids = s.ids
    BY <1>2, <2>1
  <2>3. e.type \notin Statuses BY <1>4 DEF Statuses
  <2> HIDE DEF e, r
  <2>4. Held(r) BY <1>0, <1>1, <1>2, <1>3, <1>4, <2>2, <2>3 DEF Held
  <2> QED BY <2>2, <2>4 DEF r, e
<1>5. CASE e.type = "confirmation"
  <2>1. r = [t EXCEPT !.answered = @ \cup {e.id}, !.asks = @ \ {e.id}, !.maybe = r.maybe]
    <3>1. r = [t EXCEPT !.answered = @ \cup {e.id}, !.asks = @ \ {e.id}, !.maybe = [a \in DOMAIN @ \ {e.id} |-> @[a]]]
      BY <1>5 DEF ReadEvent, t
    <3> HIDE DEF r
    <3> QED BY <1>2, <3>1
  <2> HIDE DEF e, r
  <2>2. /\ DOMAIN r = HeldFields /\ r.seen = i /\ r.cursor = t.cursor /\ r.asks = s.asks \ {e.id}
        /\ r.answered = s.answered \cup {e.id} /\ r.stale = s.stale /\ r.stop = s.stop /\ r.listed = s.listed
        /\ r.ids = s.ids
    BY <1>2, <2>1
  <2>3. e.type \notin Statuses BY <1>5 DEF Statuses
  <2>4. Held(r) BY <1>0, <1>1, <1>2, <1>3, <1>5, <2>2, <2>3 DEF Held, Over
  <2> QED BY <2>2, <2>4 DEF r, e
<1>6. CASE e.type \in {"custom", "custom_result"} \/ (e.type = "ask" /\ e.id \in s.answered \cup s.stale)
  <2>1. r = t \/ r = [t EXCEPT !.customs = i] \/ r = [t EXCEPT !.customs = 0] BY <1>6 DEF ReadEvent, t
  <2> HIDE DEF e, r
  <2>2. /\ DOMAIN r = HeldFields /\ r.seen = i /\ r.cursor = t.cursor /\ r.asks = s.asks
        /\ r.answered = s.answered /\ r.stale = s.stale /\ r.stop = s.stop /\ r.listed = s.listed /\ r.ids = s.ids
    BY <1>2, <2>1
  <2>3. e.type \notin Statuses BY <1>6 DEF Statuses
  <2>4. Held(r) BY <1>0, <1>2, <1>3, <2>2, <2>3 DEF Held
  <2> QED BY <2>2, <2>4 DEF r, e
<1>7. CASE e.type \in Statuses
  <2>1. \/ /\ e.type \in {"requires_action", "end_turn"}
           /\ r = [t EXCEPT !.stop = e.type, !.listed = e.ids # {"absent"},
                            !.ids = IF e.ids # {"absent"} THEN e.ids ELSE {}, !.idleSeq = i]
        \/ e.type = "running" /\ r = [t EXCEPT !.stop = "none", !.listed = FALSE, !.ids = {}]
    BY <1>7 DEF ReadEvent, t, Statuses
  <2>2. Latest(i, i) BY <1>0, <1>7 DEF Latest
  <2> HIDE DEF e, r
  <2>3. /\ DOMAIN r = HeldFields /\ r.seen = i /\ r.cursor = t.cursor /\ r.asks = s.asks
        /\ r.answered = s.answered /\ r.stale = s.stale
        /\ r.stop = "requires_action" => /\ e.type = "requires_action" /\ (r.listed <=> e.ids # {"absent"})
                                         /\ (r.listed => r.ids = e.ids)
    BY <1>2, <2>1
  <2>4. r.stop = "requires_action" /\ r.listed =>
          /\ Latest(i, i) /\ api.log[i].type = "requires_action" /\ api.log[i].ids = r.ids /\ r.ids # {"absent"}
    BY <2>2, <2>3 DEF e
  <2>5. i \in 1..i /\ i \in 0..Len(api.log) BY <1>0
  <2>6. Held(r) BY <1>0, <1>2, <2>3, <2>4, <2>5 DEF Held
  <2> QED BY <2>3, <2>6 DEF r, e
<1>8. e.type \in Statuses \cup {"ask", "confirmation", "custom", "custom_result"}
  <2> HIDE DEF e
  <2> QED BY <1>0 DEF Entries
<1> HIDE DEF e, r
<1> QED BY <1>4, <1>5, <1>6, <1>7, <1>8

\* What the i-th event of a read makes of the state the read so far has come to.
ReadStep(s, r, i) == IF i > s.seen /\ i >= s.cursor THEN ReadEvent(r, i, api.log[i]) ELSE r
ReadsTo(s, f, n) == f = [i \in 0..n |-> IF i = 0 THEN s ELSE ReadStep(s, f[i - 1], i)]

\* A read of any length exists.
LEMMA ReadExists == ASSUME NEW s, NEW n \in Nat PROVE \E f : ReadsTo(s, f, n)
<1> DEFINE Bad == {k \in Nat : ~\E f : ReadsTo(s, f, k)}
<1> SUFFICES ASSUME Bad # {} PROVE FALSE OBVIOUS
<1>1. PICK m \in Bad : \A k \in Bad : m <= k BY NatMin
<1>2. m \in Nat /\ ~\E f : ReadsTo(s, f, m) OBVIOUS
<1>3. CASE m = 0
  <2> DEFINE f == [i \in 0..0 |-> s]
  <2>1. f = [i \in 0..0 |-> IF i = 0 THEN s ELSE ReadStep(s, f[i - 1], i)] OBVIOUS
  <2> QED BY <1>2, <1>3, <2>1 DEF ReadsTo
<1>4. CASE m # 0
  <2>1. m - 1 \in Nat /\ m - 1 \notin Bad BY <1>1, <1>2, <1>4
  <2>2. PICK f : ReadsTo(s, f, m - 1) BY <2>1
  <2> DEFINE g == [i \in 0..m |-> IF i = m THEN ReadStep(s, f[m - 1], m) ELSE f[i]]
             h == [i \in 0..m |-> IF i = 0 THEN s ELSE ReadStep(s, g[i - 1], i)]
  <2>3. ASSUME NEW i \in 0..m PROVE g[i] = h[i]
    <3>1. CASE i = m
      <4>1. g[m - 1] = f[m - 1] BY <1>2, <1>4
      <4>2. g[m] = ReadStep(s, f[m - 1], m) BY <1>2
      <4> HIDE DEF g
      <4> QED BY <1>2, <1>4, <3>1, <4>1, <4>2
    <3>2. CASE i # m
      <4>1. i \in 0..(m - 1) BY <1>2, <3>2
      <4>2. f[i] = IF i = 0 THEN s ELSE ReadStep(s, f[i - 1], i)
        BY <2>2, <4>1 DEF ReadsTo
      <4>3. g[i] = f[i] /\ (i # 0 => g[i - 1] = f[i - 1]) BY <1>2, <3>2, <4>1
      <4> HIDE DEF g
      <4> QED BY <4>2, <4>3
    <3> QED BY <3>1, <3>2
  <2>4. g = h
    <3>1. g = [i \in 0..m |-> g[i]] /\ h = [i \in 0..m |-> h[i]] OBVIOUS
    <3> HIDE DEF g, h
    <3> QED BY <2>3, <3>1
  <2>5. ReadsTo(s, g, m)
    <3> HIDE DEF g
    <3> QED BY <2>4 DEF ReadsTo
  <2> HIDE DEF g
  <2> QED BY <1>2, <2>5
<1> QED BY <1>3, <1>4

LEMMA ReadIsReading == ASSUME NEW s, NEW n \in Nat PROVE \E f : ReadsTo(s, f, n) /\ ReadEvents(s, n) = f[n]
<1> DEFINE h == CHOOSE f : f = [i \in 0..n |-> IF i = 0 THEN s
                                               ELSE IF i > s.seen /\ i >= s.cursor THEN ReadEvent(f[i - 1], i, api.log[i])
                                                    ELSE f[i - 1]]
<1>1. ReadEvents(s, n) = h[n] BY Zenon DEF ReadEvents
<1>2. \E f : f = [i \in 0..n |-> IF i = 0 THEN s
                                 ELSE IF i > s.seen /\ i >= s.cursor THEN ReadEvent(f[i - 1], i, api.log[i]) ELSE f[i - 1]]
  BY ReadExists, Zenon DEF ReadsTo, ReadStep
<1>3. h = [i \in 0..n |-> IF i = 0 THEN s
                          ELSE IF i > s.seen /\ i >= s.cursor THEN ReadEvent(h[i - 1], i, api.log[i]) ELSE h[i - 1]]
  BY <1>2, Zenon
<1> HIDE DEF h
<1>4. ReadsTo(s, h, n) BY <1>3, Zenon DEF ReadsTo, ReadStep
<1> QED BY <1>1, <1>4

\* Taken in up to the n-th event, the state is what the log says up to there.
LEMMA ReadHeld ==
  ASSUME SessionSound, NEW s, Held(s), NEW n \in s.seen..Len(api.log)
  PROVE  Held(ReadEvents(s, n)) /\ ReadEvents(s, n).seen = n
<1>0. s.seen \in Nat /\ Len(api.log) \in Nat /\ n \in Nat /\ s.cursor \in 0..s.seen /\ s.seen <= n
  BY LenProperties DEF SessionSound, Sessions, Held
<1>1. PICK f : ReadsTo(s, f, n) /\ ReadEvents(s, n) = f[n] BY <1>0, ReadIsReading
<1> DEFINE Good(i) == Held(f[i]) /\ f[i].seen = IF i > s.seen THEN i ELSE s.seen
           Bad == {i \in 0..n : ~Good(i)}
<1>2. Bad = {}
  <2> SUFFICES ASSUME Bad # {} PROVE FALSE OBVIOUS
  <2>1. Bad \subseteq Nat BY <1>0
  <2>2. PICK m \in Bad : \A k \in Bad : m <= k BY <2>1, NatMin
  <2>3. m \in 0..n /\ ~Good(m) OBVIOUS
  <2>4. f[m] = IF m = 0 THEN s ELSE ReadStep(s, f[m - 1], m) BY <1>1, <2>3 DEF ReadsTo
  <2>5. CASE m = 0 BY <1>0, <2>3, <2>4, <2>5
  <2>6. CASE m # 0
    <3>1. m - 1 \in 0..n /\ m - 1 \notin Bad BY <1>0, <2>2, <2>3, <2>6
    <3>2. Good(m - 1) BY <3>1
    <3>3. CASE m > s.seen
      BY <1>0, <2>3, <2>6, <3>2, <3>3, <2>4, ReadOne DEF ReadStep
    <3>4. CASE ~(m > s.seen)
      <4>1. f[m] = f[m - 1] BY <2>4, <2>6, <3>4 DEF ReadStep
      <4> QED BY <1>0, <2>3, <2>6, <3>2, <3>4, <4>1
    <3> QED BY <3>3, <3>4
  <2> QED BY <2>5, <2>6
<1>3. n \in 0..n /\ Good(n) BY <1>0, <1>2
<1> QED BY <1>0, <1>1, <1>3

-----------------------------------------------------------------------------
(* The approver: what each kind of step leaves alone *)

LEMMA HeldStays == ASSUME SessionSound, Moves, refused \subseteq refused', Held(st), st' = st PROVE Held(st)'
<1>1. Len(api.log) \in Nat /\ Len(api'.log) \in Nat /\ Len(api.log) <= Len(api'.log)
      /\ \A j \in 1..Len(api.log) : api'.log[j] = api.log[j]
  BY DEF Moves
<1>2. Over(st.answered)' /\ Over(st.stale)' /\ st.asks \subseteq Asks \ api'.fresh BY DEF Moves, Held, Over
<1>3. st.seen \in 0..Len(api.log) /\ st.cursor \in 0..st.seen /\ DOMAIN st = HeldFields BY DEF Held
<1>4. ASSUME st.stop = "requires_action", st.listed
      PROVE  \E j \in 1..st.seen : /\ Latest(j, st.seen)' /\ api'.log[j].type = "requires_action"
                                   /\ api'.log[j].ids = st.ids /\ st.ids # {"absent"}
  <2>1. PICK j \in 1..st.seen : /\ Latest(j, st.seen) /\ api.log[j].type = "requires_action"
                                /\ api.log[j].ids = st.ids /\ st.ids # {"absent"}
    BY <1>4 DEF Held
  <2>2. \A i \in 1..st.seen : api'.log[i] = api.log[i] BY <1>1, <1>3
  <2>3. Latest(j, st.seen)' BY <1>3, <2>1, <2>2 DEF Latest
  <2> QED BY <2>1, <2>2, <2>3
<1>5. st'.seen \in 0..Len(api'.log) BY <1>1, <1>3
<1> QED BY <1>2, <1>3, <1>4, <1>5 DEF Held

LEMMA WireStays == ASSUME Moves, WireSound, wire' \subseteq wire PROVE WireSound'
BY DEF Moves, WireSound

LEMMA TickStays ==
  ASSUME Moves, refused \subseteq refused', TickSound, UNCHANGED <<tick, st>>, blocked => blocked', blocked' \in BOOLEAN
  PROVE  TickSound'
BY DEF Moves, TickSound, Over, Eligible

LEMMA UsageStays ==
  ASSUME UsageSound, usage' = usage, tick'.pc = "cursor" => tick.pc = "cursor" /\ tick'.snap = tick.snap,
         ~aleft'.failed => ~aleft.failed /\ (tick.pc = "cursor" => tick'.pc = "cursor")
  PROVE  UsageSound'
BY DEF UsageSound

LEMMA LeftStays == ASSUME LeftSound, aleft' = aleft PROVE LeftSound' BY DEF LeftSound

LEMMA FaultFacts == ASSUME LeftSound, Fault PROVE LeftSound' /\ aleft'.failed
BY DEF LeftSound, Fault

\* A step outside the poller: it moves the session, may add allows that heed the stop, and takes
\* from the wire.
LEMMA OutsideKeeps ==
  ASSUME ApproverInv, SessionSound', Moves, UNCHANGED <<st, tick, usage, refused>>, wire' \subseteq wire,
         blocked => blocked', blocked' \in BOOLEAN, LeftSound', ~aleft'.failed => ~aleft.failed, AllowsHeedStop'
  PROVE  ApproverInv'
BY HeldStays, TickStays, WireStays, UsageStays DEF ApproverInv

-----------------------------------------------------------------------------
(* The approver: the session service, people and the halt handler *)

LEMMA ServiceKeeps == ASSUME ApproverInv, Service PROVE ApproverInv'
<1>0. SessionSound /\ WireSound /\ LeftSound /\ AllowsHeedStop /\ blocked \in BOOLEAN BY DEF ApproverInv
<1>l. api \in Sessions /\ api.log \in Seq(Entries) BY <1>0 DEF SessionSound, Sessions
<1>1. ASSUME NEW t \in aleft.shapes, AgentTurn(t) PROVE ApproverInv'
  BY <1>0, <1>1, AgentTurns, OutsideKeeps DEF AgentTurn, LeftSound, AllowsHeedStop
<1>2. ASSUME NEW a \in Asks, HumanAnswers(a) PROVE ApproverInv'
  BY <1>2, <1>0, ConfirmMoves, LeftStays, OutsideKeeps DEF HumanAnswers, AllowsHeedStop
<1>3. ASSUME NEW void \in BOOLEAN, HumanContinues(void) PROVE ApproverInv'
  <2> DEFINE r == Event(IF void THEN "running" ELSE "custom_result", NoAsk, {}, FALSE)
  <2>1. r \in Entries /\ r.type \in {"running", "end_turn", "custom_result"}
    BY DEF Event, Entries, Statuses
  <2>2. api' = [api EXCEPT !.open = {}, !.status = "running", !.log = @ \o <<r>>] BY <1>3 DEF HumanContinues
  <2> HIDE DEF r
  <2>3. /\ api' = [api EXCEPT !.open = {}, !.log = api.log \o <<r>>, !.status = api'.status, !.interrupting = api'.interrupting]
        /\ api'.status \in {"running", "idle"} /\ api'.interrupting \in BOOLEAN
    <3> DEFINE l == api.log \o <<r>>
    <3>1. api' = [api EXCEPT !.open = {}, !.status = "running", !.log = l] BY <2>2
    <3> HIDE DEF l
    <3>2. /\ api' = [api EXCEPT !.open = {}, !.log = l, !.status = api'.status, !.interrupting = api'.interrupting]
          /\ api'.status \in {"running", "idle"} /\ api'.interrupting \in BOOLEAN
      BY <1>l, <3>1 DEF Sessions
    <3> QED BY <3>2 DEF l
  <2>4. SessionSound' /\ Moves BY <1>0, <2>1, <2>3, OneWord
  <2>5. UNCHANGED <<wire, blocked, applied, st, tick, usage, refused, aleft>> BY <1>3 DEF HumanContinues
  <2>6. LeftSound' /\ AllowsHeedStop' BY <1>0, <2>5, LeftStays DEF AllowsHeedStop
  <2> QED BY <1>0, <2>4, <2>5, <2>6, OutsideKeeps
<1>4. ASSUME Interrupted PROVE ApproverInv'
  <2> DEFINE r == Event("end_turn", NoAsk, {}, FALSE)
  <2>1. r \in Entries /\ r.type \in {"running", "end_turn", "custom_result"} BY DEF Event, Entries, Statuses
  <2>2. api' = [api EXCEPT !.interrupting = FALSE, !.open = {}, !.status = "idle", !.log = Append(@, r)]
    BY <1>4 DEF Interrupted
  <2> HIDE DEF r
  <2>3. /\ api' = [api EXCEPT !.open = {}, !.log = api.log \o <<r>>, !.status = api'.status, !.interrupting = api'.interrupting]
        /\ api'.status \in {"running", "idle"} /\ api'.interrupting \in BOOLEAN
    <3> DEFINE l == api.log \o <<r>>
    <3>1. Append(api.log, r) = l BY <1>l, <2>1, AddedLast
    <3> HIDE DEF l
    <3>2. api' = [api EXCEPT !.interrupting = FALSE, !.open = {}, !.status = "idle", !.log = l] BY <2>2, <3>1
    <3>3. /\ api' = [api EXCEPT !.open = {}, !.log = l, !.status = api'.status, !.interrupting = api'.interrupting]
          /\ api'.status \in {"running", "idle"} /\ api'.interrupting \in BOOLEAN
      BY <1>l, <3>2 DEF Sessions
    <3> QED BY <3>3 DEF l
  <2>4. SessionSound' /\ Moves BY <1>0, <2>1, <2>3, OneWord
  <2>5. UNCHANGED <<wire, blocked, applied, st, tick, usage, refused, aleft>> BY <1>4 DEF Interrupted
  <2>6. LeftSound' /\ AllowsHeedStop' BY <1>0, <2>5, LeftStays DEF AllowsHeedStop
  <2> QED BY <1>0, <2>4, <2>5, <2>6, OutsideKeeps
<1>5. ASSUME Block PROVE ApproverInv'
  BY <1>5, <1>0, SessionStays, LeftStays, OutsideKeeps DEF Block, AllowsHeedStop
<1>6. ASSUME NEW w \in wire, Lands(w) PROVE ApproverInv'
  <2>1. wire' \subseteq wire /\ UNCHANGED <<blocked, st, tick, usage, refused, aleft>> BY <1>6 DEF Lands
  <2>2. SessionSound' /\ Moves /\ AllowsHeedStop'
    <3>1. CASE Takes(w.batch)
      BY <3>1, <1>6, <1>0, ConfirmMoves DEF Takes, Lands, WireSound, AllowsHeedStop, TakenFrom
    <3>2. CASE ~Takes(w.batch)
      <4>1. UNCHANGED <<api, applied>> BY <1>6, <3>2 DEF Lands
      <4> QED BY <1>0, <4>1, SessionStays DEF AllowsHeedStop
    <3> QED BY <3>1, <3>2
  <2>3. LeftSound' BY <1>0, <2>1, LeftStays
  <2> QED BY <1>0, <2>1, <2>2, <2>3, OutsideKeeps
<1> QED BY <1>1, <1>2, <1>3, <1>4, <1>5, <1>6 DEF Service

LEMMA HaltKeepsApprover == ASSUME ApproverInv, Halt PROVE ApproverInv'
<1>0. SessionSound /\ LeftSound /\ AllowsHeedStop /\ blocked \in BOOLEAN BY DEF ApproverInv
<1>l. /\ api \in Sessions /\ api.log \in Seq(Entries) /\ Len(api.log) \in Nat /\ api.open \cap api.fresh = {}
      /\ \A j \in (Len(api.log) + 1)..Len(api.log) : FALSE
  BY <1>0, LenProperties DEF SessionSound, Sessions
<1>1. ASSUME NEW ok \in BOOLEAN, HaltInterrupt(ok) PROVE ApproverInv'
  <2>1. UNCHANGED <<wire, blocked, applied, st, tick, usage, refused>> /\ (aleft' = aleft \/ Fault)
        /\ (api' = api \/ (~api.archived /\ api' = [api EXCEPT !.interrupting = TRUE]))
    BY <1>1 DEF HaltInterrupt
  <2>2. LeftSound' /\ (~aleft'.failed => ~aleft.failed) BY <1>0, <2>1, LeftStays, FaultFacts
  <2>3. SessionSound' /\ Moves
    <3>1. CASE api' = [api EXCEPT !.interrupting = TRUE]
      <4>1. /\ api' \in Sessions /\ api'.log = api.log /\ api'.open = api.open /\ api'.fresh = api.fresh
            /\ api'.archived = api.archived
        BY <1>l, <3>1 DEF Sessions
      <4>2. api'.archived => api'.open = {} BY <1>0, <4>1 DEF SessionSound
      <4> QED BY <1>0, <1>l, <4>1, <4>2, LogGrows
    <3> QED BY <1>0, <2>1, <3>1, SessionStays
  <2>4. AllowsHeedStop' BY <1>0, <2>1 DEF AllowsHeedStop
  <2> QED BY <1>0, <2>1, <2>2, <2>3, <2>4, OutsideKeeps
<1>2. ASSUME NEW ok \in BOOLEAN, HaltArchive(ok) PROVE ApproverInv'
  <2>1. UNCHANGED <<wire, blocked, applied, st, tick, usage, refused, aleft>>
        /\ (api' = api \/ api' = [api EXCEPT !.archived = TRUE, !.open = {}])
    BY <1>2 DEF HaltArchive
  <2>2. SessionSound' /\ Moves
    <3>1. CASE api' = [api EXCEPT !.archived = TRUE, !.open = {}]
      <4>1. api' \in Sessions /\ api'.log = api.log /\ api'.open = {} /\ api'.fresh = api.fresh
        BY <1>l, <3>1 DEF Sessions
      <4> QED BY <1>0, <1>l, <4>1, LogGrows
    <3> QED BY <1>0, <2>1, <3>1, SessionStays
  <2>3. LeftSound' /\ AllowsHeedStop' BY <1>0, <2>1, LeftStays DEF AllowsHeedStop
  <2> QED BY <1>0, <2>1, <2>2, <2>3, OutsideKeeps
<1> QED BY <1>1, <1>2 DEF Halt

-----------------------------------------------------------------------------
(* The approver: the poller's steps *)

Outcomes == {"sent", "conflict", "rejected", "retry"}

\* What a send leaves behind, whatever it comes to; a final answer to one ask is the end of it.
LEMMA SendMoves ==
  ASSUME ApproverInv, NEW batch, NEW outcome \in Outcomes, DOMAIN batch \subseteq Asks \ api.fresh,
         \A a \in DOMAIN batch : batch[a] = "allow" => ~tick.late, Send(batch, outcome)
  PROVE  /\ SessionSound' /\ Moves /\ WireSound' /\ AllowsHeedStop' /\ LeftSound' /\ refused \subseteq refused'
         /\ ~aleft'.failed => ~aleft.failed
         /\ outcome # "retry" /\ Cardinality(DOMAIN batch) = 1 => Over(DOMAIN batch)'
         /\ outcome = "sent" => Over(DOMAIN batch)'
<1>0. SessionSound /\ WireSound /\ LeftSound /\ AllowsHeedStop BY DEF ApproverInv
<1> DEFINE taken == api' = Confirmed(DOMAIN batch) /\ applied' = applied \cup TakenFrom(batch, tick.late)
<1>1. ASSUME Takes(batch), taken
      PROVE  SessionSound' /\ Moves /\ AllowsHeedStop' /\ DOMAIN batch \cap api'.open = {} /\ DOMAIN batch \subseteq Asks \ api'.fresh
  BY <1>1, <1>0, ConfirmMoves DEF Takes, AllowsHeedStop, TakenFrom
<1>2. ASSUME UNCHANGED <<api, applied>> PROVE SessionSound' /\ Moves /\ AllowsHeedStop' /\ DOMAIN batch \subseteq Asks \ api'.fresh
  BY <1>0, <1>2, SessionStays DEF AllowsHeedStop
<1>3. CASE outcome = "sent"
  BY <1>3, <1>0, <1>1, WireStays, LeftStays DEF Send, Over
<1>4. CASE outcome = "conflict"
  <2>1. ~Takes(batch) /\ UNCHANGED <<api, wire, applied, refused, aleft>> BY <1>4 DEF Send
  <2>2. Cardinality(DOMAIN batch) = 1 => DOMAIN batch \cap api.open = {}
    <3>1. IsFiniteSet(DOMAIN batch) BY FS_Subset, ApproverAssumption DEF ApproverAssumption
    <3>2. CASE api.archived BY <1>0, <3>2 DEF SessionSound
    <3>3. CASE ~api.archived /\ Cardinality(DOMAIN batch) = 1
      BY <3>1, <3>3, FS_Singleton, <2>1 DEF Takes
    <3> QED BY <3>2, <3>3
  <2> QED BY <1>0, <1>2, <1>4, <2>1, <2>2, WireStays, LeftStays DEF Over
<1>5. CASE outcome = "rejected"
  BY <1>5, <1>0, <1>2, WireStays, FaultFacts DEF Send, Over
<1>6. CASE outcome = "retry"
  <2>1. Fault /\ refused' = refused BY <1>6 DEF Send
  <2>2. \/ UNCHANGED <<api, wire, applied>>
        \/ Takes(batch) /\ taken /\ UNCHANGED wire
        \/ wire' = wire \cup {[batch |-> batch, late |-> tick.late]} /\ UNCHANGED <<api, applied>>
    BY <1>6 DEF Send
  <2>3. SessionSound' /\ Moves /\ AllowsHeedStop' /\ DOMAIN batch \subseteq Asks \ api'.fresh BY <1>1, <1>2, <2>2
  <2>4. WireSound'
    <3>1. ASSUME NEW w \in wire' PROVE /\ DOMAIN w.batch \subseteq Asks \ api'.fresh
                                       /\ \A a \in DOMAIN w.batch : w.batch[a] = "allow" => ~w.late
      BY <1>0, <2>3, <2>2, <3>1 DEF WireSound, Moves
    <3> QED BY <3>1 DEF WireSound
  <2> QED BY <1>0, <1>6, <2>1, <2>3, <2>4, FaultFacts
<1> QED BY <1>3, <1>4, <1>5, <1>6 DEF Outcomes

\* The outcomes are booked: what is taken off the asks for good is over.
LEMMA BookedHeld ==
  ASSUME SessionSound, Held(st), Moves, refused \subseteq refused', NEW o, DOMAIN o \subseteq Asks \ api'.fresh,
         \A a \in DOMAIN o : o[a] # "retry" => Over({a})', st' = Booked(o)
  PROVE  Held(st)'
<1> DEFINE with(os) == {a \in DOMAIN o : o[a] \in os}
           duplicate == with({"conflict"}) \cap DOMAIN st.maybe
           done == with({"sent"}) \cup duplicate
           dead == with({"rejected", "conflict"}) \ duplicate
           unknown == with({"retry"})
           m == [a \in (DOMAIN st.maybe \ (done \cup dead)) \cup unknown |-> IF a \in unknown THEN tick.plan[a] ELSE st.maybe[a]]
<1>1. DOMAIN st = HeldFields BY DEF Held
<1>2. st' = [st EXCEPT !.asks = @ \ (done \cup dead), !.answered = @ \cup done, !.stale = @ \cup dead, !.maybe = m]
  <2>1. st' = [st EXCEPT !.asks = @ \ (done \cup dead), !.answered = @ \cup done, !.stale = @ \cup dead,
                 !.maybe = [a \in (DOMAIN @ \ (done \cup dead)) \cup unknown |-> IF a \in unknown THEN tick.plan[a] ELSE @[a]]]
    BY DEF Booked
  <2>2. "maybe" \in DOMAIN st BY <1>1 DEF HeldFields
  <2> HIDE DEF done, dead, unknown
  <2> QED BY <2>1, <2>2
<1>3. /\ done \subseteq Asks \ api'.fresh /\ done \cap api'.open \subseteq refused'
      /\ dead \subseteq Asks \ api'.fresh /\ dead \cap api'.open \subseteq refused'
  <2>1. \A a \in done \cup dead : a \in DOMAIN o /\ o[a] # "retry" OBVIOUS
  <2>2. \A a \in DOMAIN o : o[a] # "retry" => a \in Asks \ api'.fresh /\ (a \in api'.open => a \in refused') BY DEF Over
  <2> HIDE DEF done, dead
  <2> QED BY <2>1, <2>2
<1> HIDE DEF done, dead, unknown, m
<1>4. /\ DOMAIN st' = HeldFields /\ st'.seen = st.seen /\ st'.cursor = st.cursor /\ st'.asks \subseteq st.asks
      /\ st'.answered = st.answered \cup done /\ st'.stale = st.stale \cup dead /\ st'.stop = st.stop
      /\ st'.listed = st.listed /\ st'.ids = st.ids
  BY <1>1, <1>2 DEF HeldFields
<1>5. Len(api.log) \in Nat /\ Len(api'.log) \in Nat /\ Len(api.log) <= Len(api'.log)
      /\ \A j \in 1..Len(api.log) : api'.log[j] = api.log[j]
  BY DEF Moves
<1>6. Over(st.answered)' /\ Over(st.stale)' /\ st'.asks \subseteq Asks \ api'.fresh
  BY <1>3, <1>4 DEF Held, Moves, Over
<1>7. st.seen \in 0..Len(api.log) /\ st.cursor \in 0..st.seen BY DEF Held
<1>8. ASSUME st.stop = "requires_action", st.listed
      PROVE  \E j \in 1..st.seen : /\ Latest(j, st.seen)' /\ api'.log[j].type = "requires_action"
                                   /\ api'.log[j].ids = st.ids /\ st.ids # {"absent"}
  <2>1. PICK j \in 1..st.seen : /\ Latest(j, st.seen) /\ api.log[j].type = "requires_action"
                                /\ api.log[j].ids = st.ids /\ st.ids # {"absent"}
    BY <1>8 DEF Held
  <2>2. \A i \in 1..st.seen : api'.log[i] = api.log[i] BY <1>5, <1>7
  <2>3. j \in 1..st.seen /\ api'.log[j].type \in Statuses /\ \A i \in (j + 1)..st.seen : api'.log[i].type \notin Statuses
    BY <1>7, <2>1, <2>2 DEF Latest
  <2> QED BY <2>1, <2>2, <2>3, <1>4 DEF Latest
<1>9. st'.seen \in 0..Len(api'.log) BY <1>4, <1>5, <1>7
<1> QED BY <1>4, <1>6, <1>7, <1>8, <1>9 DEF Held

LEMMA BatchKeeps == ASSUME ApproverInv, NEW outcome \in Outcomes, SendBatch(outcome) PROVE ApproverInv'
<1>0. /\ SessionSound /\ Held(st) /\ TickSound /\ UsageSound /\ blocked \in BOOLEAN
      /\ tick.pc = "send" /\ UNCHANGED <<blocked, usage, halt>> /\ Send(tick.plan, outcome)
  BY DEF ApproverInv, SendBatch
<1>1. PICK plan : plan = tick.plan OBVIOUS
<1>2. /\ DOMAIN plan \subseteq Asks \ api.fresh /\ DOMAIN plan # {} /\ \A a \in DOMAIN plan : plan[a] = "allow" => ~tick.late
      /\ DOMAIN tick.outcome = {} /\ DOMAIN tick = {"pc", "snap", "plan", "outcome", "late"} /\ tick.late \in BOOLEAN
      /\ (tick.late => blocked) /\ tick.snap.used \in Nat
  BY <1>0, <1>1 DEF TickSound
<1>3. /\ SessionSound' /\ Moves /\ WireSound' /\ AllowsHeedStop' /\ LeftSound' /\ refused \subseteq refused'
      /\ ~aleft'.failed => ~aleft.failed
      /\ outcome # "retry" /\ Cardinality(DOMAIN plan) = 1 => Over(DOMAIN plan)'
      /\ outcome = "sent" => Over(DOMAIN plan)'
  BY <1>0, <1>1, <1>2, SendMoves
<1>4. Cardinality(DOMAIN plan) \in Nat \ {0}
  <2>1. IsFiniteSet(DOMAIN plan) BY <1>2, FS_Subset, ApproverAssumption DEF ApproverAssumption
  <2> QED BY <1>2, <2>1, FS_EmptySet, FS_CardinalityType
<1>5. CASE outcome \in {"conflict", "rejected"} /\ Cardinality(DOMAIN plan) > 1
  BY <1>1, <1>5, <1>0, <1>3, HeldStays, <1>2, UsageStays DEF SendBatch, Moves, TickSound, ApproverInv
<1>6. CASE ~(outcome \in {"conflict", "rejected"} /\ Cardinality(DOMAIN plan) > 1)
  <2>1. PICK o : o = [a \in DOMAIN plan |-> outcome] OBVIOUS
  <2>2. tick' = [tick EXCEPT !.pc = "usage", !.plan = <<>>] /\ st' = Booked(o) BY <1>1, <1>6, <2>1 DEF SendBatch
  <2>3. outcome # "retry" => DOMAIN plan \subseteq Asks \ api'.fresh /\ DOMAIN plan \cap api'.open \subseteq refused'
    BY <1>3, <1>4, <1>6 DEF Over, Outcomes
  <2>4. \A a \in DOMAIN o : o[a] # "retry" => Over({a})' BY <2>1, <2>3 DEF Over
  <2>5. DOMAIN o \subseteq Asks \ api'.fresh BY <1>2, <1>3, <2>1 DEF Moves
  <2>6. Held(st)' BY <1>0, <1>3, <2>2, <2>4, <2>5, BookedHeld
  <2>7. /\ DOMAIN tick' = DOMAIN tick /\ tick'.pc = "usage" /\ tick'.outcome = tick.outcome
        /\ tick'.late = tick.late /\ tick'.snap = tick.snap
    BY <1>2, <2>2
  <2>8. TickSound' BY <1>0, <1>2, <2>7 DEF TickSound
  <2>9. UsageSound' BY <1>0, <1>3, <2>7, UsageStays
  <2> QED BY <1>0, <1>3, <2>6, <2>8, <2>9 DEF ApproverInv
<1> QED BY <1>5, <1>6

LEMMA SingleKeeps == ASSUME ApproverInv, NEW a \in Asks, NEW outcome \in Outcomes, SendSingle(a, outcome) PROVE ApproverInv'
<1>0. /\ SessionSound /\ Held(st) /\ TickSound /\ UsageSound /\ blocked \in BOOLEAN
      /\ tick.pc = "split" /\ UNCHANGED <<blocked, usage, halt>> /\ Send([x \in {a} |-> tick.plan[a]], outcome)
      /\ a = CHOOSE x \in DOMAIN tick.plan \ DOMAIN tick.outcome : TRUE
  BY DEF ApproverInv, SendSingle
<1>1. PICK plan : plan = tick.plan OBVIOUS
<1>2. /\ DOMAIN plan \subseteq Asks \ api.fresh /\ DOMAIN plan # {} /\ (\A x \in DOMAIN plan : plan[x] = "allow" => ~tick.late)
      /\ DOMAIN tick = {"pc", "snap", "plan", "outcome", "late"} /\ tick.late \in BOOLEAN
      /\ (tick.late => blocked) /\ tick.snap.used \in Nat
      /\ DOMAIN tick.outcome \subseteq DOMAIN plan /\ DOMAIN tick.outcome # DOMAIN plan
      /\ \A x \in DOMAIN tick.outcome : tick.outcome[x] # "retry" => Over({x})
  BY <1>0, <1>1 DEF TickSound
<1>3. a \in DOMAIN plan BY <1>0, <1>1, <1>2
<1>4. PICK b : b = [x \in {a} |-> plan[a]] OBVIOUS
<1>5. /\ SessionSound' /\ Moves /\ WireSound' /\ AllowsHeedStop' /\ LeftSound' /\ refused \subseteq refused'
      /\ ~aleft'.failed => ~aleft.failed
      /\ outcome # "retry" => Over({a})'
  <2>1. DOMAIN b = {a} /\ b[a] = plan[a] BY <1>4
  <2>2. Cardinality(DOMAIN b) = 1 BY <2>1, FS_Singleton
  <2>3. Send(b, outcome) BY <1>0, <1>1, <1>4
  <2>4. DOMAIN b \subseteq Asks \ api.fresh /\ \A x \in DOMAIN b : b[x] = "allow" => ~tick.late BY <1>2, <1>3, <2>1
  <2>5. /\ SessionSound' /\ Moves /\ WireSound' /\ AllowsHeedStop' /\ LeftSound' /\ refused \subseteq refused'
        /\ ~aleft'.failed => ~aleft.failed
        /\ outcome # "retry" /\ Cardinality(DOMAIN b) = 1 => Over(DOMAIN b)'
    BY <2>3, <2>4, SendMoves
  <2> QED BY <2>1, <2>2, <2>5 DEF Over
<1>6. PICK all : all = [x \in DOMAIN tick.outcome \cup {a} |-> IF x = a THEN outcome ELSE tick.outcome[x]] OBVIOUS
<1>7. \A x \in DOMAIN all : all[x] # "retry" => Over({x})'
  <2>1. ASSUME NEW x \in DOMAIN all, all[x] # "retry" PROVE Over({x})'
    <3>1. CASE x = a BY <1>5, <1>6, <2>1, <3>1 DEF Over
    <3>2. CASE x # a
      <4>1. Over({x}) BY <1>2, <1>6, <2>1, <3>2
      <4> QED BY <1>5, <4>1 DEF Over, Moves
    <3> QED BY <3>1, <3>2
  <2> QED BY <2>1
<1>8. DOMAIN plan \subseteq Asks \ api'.fresh /\ DOMAIN all \subseteq DOMAIN plan BY <1>2, <1>3, <1>5, <1>6 DEF Moves
<1>9. CASE DOMAIN all # DOMAIN plan
  <2>1. tick' = [tick EXCEPT !.outcome = all] /\ st' = st BY <1>1, <1>6, <1>9 DEF SendSingle
  <2>2. Held(st)' BY <1>0, <1>5, <2>1, HeldStays
  <2>3. /\ DOMAIN tick' = DOMAIN tick /\ tick'.pc = "split" /\ tick'.plan = plan /\ tick'.outcome = all
        /\ tick'.late = tick.late /\ tick'.snap = tick.snap
    BY <1>0, <1>1, <1>2, <2>1
  <2>4. TickSound' BY <1>0, <1>2, <1>7, <1>8, <1>9, <2>3 DEF TickSound, Over
  <2>5. UsageSound' BY <1>0, <1>5, <2>3, UsageStays
  <2> QED BY <1>0, <1>5, <2>2, <2>4, <2>5 DEF ApproverInv
<1>10. CASE DOMAIN all = DOMAIN plan
  <2>1. tick' = [tick EXCEPT !.pc = "usage", !.plan = <<>>, !.outcome = <<>>] /\ st' = Booked(all)
    BY <1>1, <1>6, <1>10 DEF SendSingle
  <2>2. Held(st)' BY <1>0, <1>5, <1>7, <1>8, <2>1, BookedHeld
  <2>3. /\ DOMAIN tick' = DOMAIN tick /\ tick'.pc = "usage" /\ DOMAIN tick'.outcome = {}
        /\ tick'.late = tick.late /\ tick'.snap = tick.snap
    BY <1>2, <2>1
  <2>4. TickSound' BY <1>0, <1>2, <2>3 DEF TickSound
  <2>5. UsageSound' BY <1>0, <1>5, <2>3, UsageStays
  <2> QED BY <1>0, <1>5, <2>2, <2>4, <2>5 DEF ApproverInv
<1> QED BY <1>9, <1>10

\* Dropping what a later idle does not name drops nothing that is open.
LEMMA DroppedHeld ==
  ASSUME SessionSound, NEW s, Held(s), s.asks = {} \/ s.seen = Len(api.log)
  PROVE  Held(DropSuperseded(s))
<1> DEFINE over == {a \in s.asks : a \notin s.ids /\ PlaceOf(a) < s.idleSeq}
           m == [a \in DOMAIN s.maybe \ over |-> s.maybe[a]]
           c == IF "custom" \notin s.ids /\ s.customs < s.idleSeq THEN 0 ELSE s.customs
           d == DropSuperseded(s)
<1>1. CASE ~(s.stop = "requires_action" /\ s.listed)
  <2>1. d = s BY <1>1 DEF DropSuperseded
  <2> QED BY <2>1
<1>2. CASE s.stop = "requires_action" /\ s.listed
  <2>0. DOMAIN s = HeldFields BY DEF Held
  <2>1. d = [s EXCEPT !.asks = @ \ over, !.stale = @ \cup over, !.maybe = m, !.customs = c]
    <3>1. d = [s EXCEPT !.asks = @ \ over, !.stale = @ \cup over, !.maybe = [a \in DOMAIN @ \ over |-> @[a]],
                        !.customs = IF "custom" \notin s.ids /\ @ < s.idleSeq THEN 0 ELSE @]
      BY <1>2 DEF DropSuperseded
    <3>2. "maybe" \in DOMAIN s /\ "customs" \in DOMAIN s BY <2>0 DEF HeldFields
    <3> HIDE DEF d, over
    <3> QED BY <3>1, <3>2
  <2>2. over \subseteq s.asks /\ over \cap api.open = {}
    <3>1. CASE s.asks = {} BY <3>1
    <3>2. CASE s.seen = Len(api.log)
      <4>1. PICK j \in 1..s.seen : /\ Latest(j, s.seen) /\ api.log[j].type = "requires_action"
                                   /\ api.log[j].ids = s.ids /\ s.ids # {"absent"}
        BY <1>2 DEF Held
      <4>2. api.open \subseteq s.ids BY <3>2, <4>1 DEF SessionSound
      <4> QED BY <4>2
    <3> QED BY <3>1, <3>2
  <2> HIDE DEF over, m, c, d
  <2>3. /\ DOMAIN d = HeldFields /\ d.seen = s.seen /\ d.cursor = s.cursor /\ d.asks = s.asks \ over
        /\ d.answered = s.answered /\ d.stale = s.stale \cup over /\ d.stop = s.stop /\ d.listed = s.listed /\ d.ids = s.ids
    BY <2>0, <2>1 DEF HeldFields
  <2>4. Held(d) BY <2>2, <2>3 DEF Held, Over
  <2> QED BY <2>4 DEF d
<1> QED BY <1>1, <1>2

LEMMA ReadKeeps == ASSUME ApproverInv, ApproveSession PROVE ApproverInv'
<1>0. SessionSound /\ Held(st) /\ TickSound /\ WireSound /\ UsageSound /\ LeftSound /\ blocked \in BOOLEAN /\ AllowsHeedStop
  BY DEF ApproverInv
<1>1. tick.pc = "read" /\ UNCHANGED <<api, wire, blocked, applied, usage, halt, refused>> BY DEF ApproveSession
<1>2. PICK skip \in BOOLEAN, k \in 0..Len(api.log) :
        /\ skip => UpToDate /\ k = 0
        /\ ~skip => k >= st.seen
        /\ LET ok == skip \/ k = Len(api.log)
               s == IF skip THEN st
                    ELSE LET r == ReadEvents(st, k)
                         IN IF ok THEN [r EXCEPT !.updated = tick.snap.updated, !.read = TRUE] ELSE r
               d == IF ok THEN DropSuperseded(s) ELSE s
           IN /\ st' = d
              /\ IF ok THEN UNCHANGED aleft ELSE Fault
              /\ tick' = [tick EXCEPT !.pc = IF ok /\ Eligible(d) # {} THEN "check" ELSE "usage"]
  BY DEF ApproveSession
<1> DEFINE ok == skip \/ k = Len(api.log)
           r == ReadEvents(st, k)
<1>3. PICK s : s = IF skip THEN st ELSE IF ok THEN [r EXCEPT !.updated = tick.snap.updated, !.read = TRUE] ELSE r OBVIOUS
<1>4. PICK d : d = IF ok THEN DropSuperseded(s) ELSE s OBVIOUS
<1>5. /\ st' = d /\ (aleft' = aleft \/ Fault)
      /\ tick' = [tick EXCEPT !.pc = IF ok /\ Eligible(d) # {} THEN "check" ELSE "usage"]
  BY <1>2, <1>3, <1>4
<1>6. Held(s) /\ (ok => s.asks = {} \/ s.seen = Len(api.log))
  <2>1. CASE skip
    <3>1. s = st /\ st.asks = {} BY <1>2, <1>3, <2>1 DEF UpToDate
    <3> QED BY <1>0, <3>1
  <2>2. CASE ~skip
    <3>1. Len(api.log) \in Nat /\ st.seen \in Nat
      BY <1>0, LenProperties DEF SessionSound, Sessions, Held
    <3>2. k \in st.seen..Len(api.log) BY <1>2, <2>2, <3>1
    <3>3. Held(r) /\ r.seen = k BY <1>0, <3>2, ReadHeld
    <3> HIDE DEF r
    <3>4. CASE ok
      BY <1>3, <2>2, <3>4, <3>3 DEF Held, HeldFields
    <3>5. CASE ~ok BY <1>3, <2>2, <3>3, <3>5
    <3> QED BY <3>4, <3>5
  <2> QED BY <2>1, <2>2
<1>7. Held(d) BY <1>0, <1>4, <1>6, DroppedHeld
<1> HIDE DEF ok, r
<1>8. SessionSound' BY <1>0, <1>1, SessionStays
<1>9. Held(st)' BY <1>1, <1>5, <1>7 DEF Held, Over, Latest
<1>10. LeftSound' /\ (~aleft'.failed => ~aleft.failed) BY <1>0, <1>5, LeftStays, FaultFacts
<1>11. /\ DOMAIN tick' = DOMAIN tick /\ tick'.pc \in {"check", "usage"} /\ tick'.outcome = tick.outcome
       /\ tick'.late = tick.late /\ tick'.snap = tick.snap
       /\ tick'.pc = "check" => Eligible(d) # {}
  BY <1>0, <1>5 DEF TickSound
<1>12. Eligible(st)' = Eligible(d) BY <1>5 DEF Eligible
<1>13. TickSound' BY <1>0, <1>1, <1>11, <1>12 DEF TickSound
<1>14. UsageSound' BY <1>0, <1>1, <1>10, <1>11, UsageStays
<1>15. WireSound' /\ AllowsHeedStop' BY <1>0, <1>1 DEF WireSound, AllowsHeedStop
<1> QED BY <1>0, <1>1, <1>8, <1>9, <1>10, <1>13, <1>14, <1>15 DEF ApproverInv

\* A step of the poller that leaves the session and what it holds of it alone.
LEMMA PollerKeeps ==
  ASSUME ApproverInv, UNCHANGED <<api, wire, blocked, applied, refused>>, st' = st, TickSound', UsageSound', LeftSound'
  PROVE  ApproverInv'
BY SessionStays, HeldStays DEF ApproverInv, WireSound, AllowsHeedStop

LEMMA VerdictsPlanned == ASSUME ApproverInv, Check PROVE ApproverInv'
BY UsageStays, LeftStays, PollerKeeps DEF ApproverInv, Check, TickSound, Eligible, Verdicts, Held

\* A tick at rest, or one that begins.
LEMMA Resting ==
  ASSUME blocked' \in BOOLEAN, NEW u \in Nat, NEW b \in BOOLEAN, b => blocked', NEW p \in {"read", "usage"},
         tick' = NoTick \/ tick' = [NoTick EXCEPT !.pc = p, !.snap = [updated |-> Len(api.log), used |-> u], !.late = b]
  PROVE  TickSound' /\ tick'.pc # "cursor"
<1>1. DOMAIN <<>> = {} OBVIOUS
<1>2. /\ DOMAIN tick' = {"pc", "snap", "plan", "outcome", "late"} /\ tick'.pc \in {"rest", "read", "usage"}
      /\ DOMAIN tick'.outcome = {} /\ tick'.snap.used \in Nat /\ tick'.late \in BOOLEAN /\ (tick'.late => blocked')
  <2>1. CASE tick' = NoTick BY <1>1, <2>1 DEF NoTick
  <2>2. CASE tick' = [NoTick EXCEPT !.pc = p, !.snap = [updated |-> Len(api.log), used |-> u], !.late = b]
    BY <1>1, <2>2 DEF NoTick
  <2> QED BY <2>1, <2>2
<1> QED BY <1>2 DEF TickSound

LEMMA NoStateHeld == ASSUME SessionSound PROVE \A s : s = NoState => Held(s)
BY LenProperties DEF SessionSound, Sessions, Held, NoState, HeldFields, Over

LEMMA ListKeeps == ASSUME ApproverInv, NEW ok \in BOOLEAN, TickList(ok) PROVE ApproverInv'
<1>0. SessionSound /\ Held(st) /\ TickSound /\ WireSound /\ UsageSound /\ LeftSound /\ blocked \in BOOLEAN /\ AllowsHeedStop
  BY DEF ApproverInv
<1>1. /\ tick.pc = "rest" /\ UNCHANGED <<api, wire, blocked, applied, usage, halt, refused>>
      /\ (aleft' = aleft \/ Fault) /\ st' \in {st, NoState}
  BY DEF TickList
<1>2. api.used \in Nat BY <1>0 DEF SessionSound, Sessions
<1>3. \E p \in {"read", "usage"} :
        tick' = NoTick \/ tick' = [NoTick EXCEPT !.pc = p, !.snap = [updated |-> Len(api.log), used |-> api.used], !.late = blocked]
  BY DEF TickList
<1>4. TickSound' /\ tick'.pc # "cursor"
  BY <1>0, <1>2, <1>1, <1>3, Resting
<1>5. LeftSound' /\ (~aleft'.failed => ~aleft.failed) BY <1>0, <1>1, LeftStays, FaultFacts
<1>6. UsageSound' BY <1>0, <1>1, <1>4, <1>5, UsageStays
<1>7. SessionSound' BY <1>0, <1>1, SessionStays
<1>8. Held(st)'
  <2>1. Held(NoState) BY <1>0, NoStateHeld
  <2> QED BY <1>0, <1>1, <2>1 DEF Held, Over, Latest
<1>9. WireSound' /\ AllowsHeedStop' BY <1>0, <1>1 DEF WireSound, AllowsHeedStop
<1> QED BY <1>0, <1>1, <1>4, <1>5, <1>6, <1>7, <1>8, <1>9 DEF ApproverInv

LEMMA PostKeeps == ASSUME ApproverInv, NEW recorded \in BOOLEAN, NEW answered \in BOOLEAN, PostUsage(recorded, answered) PROVE ApproverInv'
<1>0. TickSound /\ UsageSound /\ LeftSound /\ blocked \in BOOLEAN BY DEF ApproverInv
<1>1. tick.pc = "usage" /\ UNCHANGED <<api, wire, blocked, applied, st, halt, refused>> BY DEF PostUsage
<1>2. /\ DOMAIN tick = {"pc", "snap", "plan", "outcome", "late"} /\ tick.snap.used \in Nat /\ DOMAIN tick.outcome = {}
      /\ tick.late \in BOOLEAN /\ (tick.late => blocked)
  BY <1>0, <1>1 DEF TickSound
<1>3. /\ usage \in [governor : Nat, memory : Nat, disk : Nat] /\ usage.disk <= usage.governor /\ usage.memory <= usage.governor
      /\ ~aleft.failed => usage.memory = usage.disk /\ usage.governor = usage.disk
  BY <1>0, <1>1 DEF UsageSound
<1>4. CASE Delta = 0 /\ recorded /\ answered /\ tick' = NoTick /\ UNCHANGED <<usage, aleft>>
  BY <1>0, <1>1, <1>4, Resting, UsageStays, LeftStays, PollerKeeps DEF NoTick
<1>5. CASE /\ Delta > 0 /\ (answered => recorded)
           /\ IF recorded /\ answered THEN UNCHANGED aleft ELSE Fault
           /\ usage' = IF recorded THEN [usage EXCEPT !.governor = @ + Delta] ELSE usage
           /\ tick' = IF answered THEN [tick EXCEPT !.pc = "cursor"] ELSE NoTick
  <2>1. Delta = tick.snap.used - usage.memory /\ Delta \in Nat BY <1>2, <1>3, <1>5 DEF Delta
  <2>2. /\ usage' \in [governor : Nat, memory : Nat, disk : Nat] /\ usage'.disk = usage.disk /\ usage'.memory = usage.memory
        /\ recorded => usage'.governor = usage.governor + Delta
        /\ ~recorded => usage'.governor = usage.governor
    BY <1>3, <1>5, <2>1
  <2>3. LeftSound' /\ (~(recorded /\ answered) => aleft'.failed) /\ (recorded /\ answered => aleft' = aleft)
    BY <1>0, <1>5, LeftStays, FaultFacts
  <2>4. CASE answered
    <3>1. recorded /\ tick' = [tick EXCEPT !.pc = "cursor"] BY <1>5, <2>4
    <3>2. /\ DOMAIN tick' = DOMAIN tick /\ tick'.pc = "cursor" /\ tick'.outcome = tick.outcome
          /\ tick'.late = tick.late /\ tick'.snap = tick.snap
      BY <1>2, <3>1
    <3>3. TickSound' BY <1>1, <1>2, <3>2 DEF TickSound
    <3>4. UsageSound' BY <1>2, <1>3, <2>1, <2>2, <2>3, <2>4, <3>1, <3>2 DEF UsageSound
    <3> QED BY <1>1, <2>3, <3>3, <3>4, PollerKeeps
  <2>5. CASE ~answered
    <3>1. tick' = NoTick /\ aleft'.failed BY <1>5, <2>3, <2>5
    <3>2. PICK u \in Nat, b \in BOOLEAN, p \in {"read", "usage"} : ~b BY DEF NoTick
    <3>3. TickSound' /\ tick'.pc # "cursor" BY <1>0, <1>1, <3>1, <3>2, Resting
    <3>4. UsageSound' BY <1>3, <2>1, <2>2, <3>1, <3>3 DEF UsageSound
    <3> QED BY <1>1, <2>3, <3>3, <3>4, PollerKeeps
  <2> QED BY <2>4, <2>5
<1> QED BY <1>4, <1>5 DEF PostUsage

LEMMA CursorKeeps == ASSUME ApproverInv, NEW ok \in BOOLEAN, SetCursor(ok) PROVE ApproverInv'
<1>0. TickSound /\ UsageSound /\ LeftSound /\ blocked \in BOOLEAN BY DEF ApproverInv
<1>1. /\ tick.pc = "cursor" /\ UNCHANGED <<api, wire, blocked, applied, st, halt, refused>> /\ tick' = NoTick
      /\ usage' = IF ok THEN [usage EXCEPT !.disk = tick.snap.used, !.memory = tick.snap.used] ELSE usage
      /\ IF ok THEN UNCHANGED aleft ELSE Fault
  BY DEF SetCursor
<1>2. PICK u \in Nat, b \in BOOLEAN, p \in {"read", "usage"} : ~b BY DEF NoTick
<1>3. TickSound' /\ tick'.pc # "cursor" BY <1>0, <1>1, <1>2, Resting
<1>4. LeftSound' /\ (~ok => aleft'.failed) /\ (ok => aleft' = aleft) BY <1>0, <1>1, LeftStays, FaultFacts
<1>5. tick.snap.used \in Nat BY <1>0 DEF TickSound
<1>6. UsageSound'
  <2>1. CASE ok
    BY <1>0, <1>1, <1>5, <2>1, <1>3, <1>4 DEF UsageSound
  <2>2. CASE ~ok BY <1>0, <1>1, <1>3, <1>4, <2>2 DEF UsageSound
  <2> QED BY <2>1, <2>2
<1> QED BY <1>1, <1>3, <1>4, <1>6, PollerKeeps

LEMMA RestartKeeps == ASSUME ApproverInv, ApproverRestart PROVE ApproverInv'
<1>0. SessionSound /\ WireSound /\ UsageSound /\ LeftSound /\ blocked \in BOOLEAN /\ AllowsHeedStop BY DEF ApproverInv
<1>1. /\ Fault /\ st' = NoState /\ tick' = NoTick /\ usage' = [usage EXCEPT !.memory = usage.disk]
      /\ UNCHANGED <<api, wire, blocked, applied, refused>>
  BY DEF ApproverRestart
<1>2. PICK u \in Nat, b \in BOOLEAN, p \in {"read", "usage"} : ~b BY DEF NoTick
<1>3. TickSound' /\ tick'.pc # "cursor" BY <1>0, <1>1, <1>2, Resting
<1>4. LeftSound' /\ aleft'.failed BY <1>0, <1>1, FaultFacts
<1>5. UsageSound' BY <1>0, <1>1, <1>3, <1>4 DEF UsageSound
<1>6. SessionSound' BY <1>0, <1>1, SessionStays
<1>7. Held(st)'
  <2>1. Held(NoState) BY <1>0, NoStateHeld
  <2> QED BY <1>1, <2>1 DEF Held, Over, Latest
<1>8. WireSound' /\ AllowsHeedStop' BY <1>0, <1>1 DEF WireSound, AllowsHeedStop
<1> QED BY <1>0, <1>1, <1>3, <1>4, <1>5, <1>6, <1>7, <1>8 DEF ApproverInv

-----------------------------------------------------------------------------
(* The approver: what its invariant gives *)

LEMMA ApproverBegins == ASSUME ApproverInit PROVE ApproverInv
<1>1. /\ api = [status |-> "running", archived |-> FALSE, log |-> <<>>, open |-> {}, fresh |-> Asks, used |-> 0,
                interrupting |-> FALSE]
      /\ wire = {} /\ blocked = FALSE /\ applied = {} /\ st = NoState /\ tick = NoTick
      /\ usage = [governor |-> 0, memory |-> 0, disk |-> 0]
  BY DEF ApproverInit
<1>2. SessionSound
  BY <1>1 DEF SessionSound, Sessions
<1>3. Held(st) BY <1>1, <1>2, NoStateHeld
<1>4. TickSound BY <1>1 DEF TickSound, NoTick
<1>5. WireSound /\ AllowsHeedStop BY <1>1 DEF WireSound, AllowsHeedStop
<1>6. PICK s \in ApproverScenes : aleft = [shapes |-> s.shapes, turns |-> s.turns, faults |-> s.faults, failed |-> FALSE]
  BY DEF ApproverInit
<1>7. LeftSound BY <1>6, ApproverAssumption DEF LeftSound, ApproverAssumption
<1>8. UsageSound BY <1>1 DEF UsageSound, NoTick
<1> QED BY <1>1, <1>2, <1>3, <1>4, <1>5, <1>7, <1>8 DEF ApproverInv

LEMMA ApproverKeeps == ASSUME ApproverInv, [ApproverNext]_approverVars PROVE ApproverInv'
<1>1. ASSUME Tick PROVE ApproverInv'
  <2>1. ASSUME NEW o \in {"sent", "conflict", "rejected", "retry"}, SendBatch(o) \/ \E a \in Asks : SendSingle(a, o)
        PROVE  ApproverInv'
    BY <2>1, BatchKeeps, SingleKeeps DEF Outcomes
  <2> QED BY <1>1, <2>1, ListKeeps, ReadKeeps, VerdictsPlanned, PostKeeps, CursorKeeps DEF Tick
<1>2. ASSUME UNCHANGED approverVars PROVE ApproverInv'
  BY <1>2, SessionStays, TickStays, UsageStays, LeftStays, PollerKeeps DEF approverVars, ApproverInv
<1> QED BY <1>1, <1>2, ServiceKeeps, HaltKeepsApprover, RestartKeeps DEF ApproverNext

LEMMA ApproverInvSound == ASSUME ApproverInv PROVE AllowsHeedStop /\ NoAskStranded /\ UsageNeverLost
BY DEF ApproverInv, Held, Over, NoAskStranded, UsageSound, UsageNeverLost

\* Whatever order events, ticks, restarts, lost and late answers come in, with any number of asks
\* and turns: an allow heeds the stop, no ask is stranded, no usage is lost.
THEOREM ApproverAlwaysSound == ApproverSpec => [](AllowsHeedStop /\ NoAskStranded /\ UsageNeverLost)
<1>1. ApproverInit => ApproverInv BY ApproverBegins
<1>2. ApproverInv /\ [ApproverNext]_approverVars => ApproverInv' BY ApproverKeeps
<1>3. ApproverInv => AllowsHeedStop /\ NoAskStranded /\ UsageNeverLost BY ApproverInvSound
<1> QED BY <1>1, <1>2, <1>3, PTL DEF ApproverSpec

-----------------------------------------------------------------------------
(* The parts in MCOperations: the one that moves keeps its invariant *)

LEMMA AlertsParted == Spec => [](part = "alerts" => AlertInv)
<1> DEFINE Inv == part = "alerts" => AlertInv
<1>1. Init => Inv BY AlertsBegin DEF Init
<1>2. Inv /\ [Next]_Vars => Inv'
  BY AlertsKeep DEF Next, Vars
<1> QED BY <1>1, <1>2, PTL DEF Spec

LEMMA ObserverParted == Spec => [](part = "observer" => ObserverInv)
<1> DEFINE Inv == part = "observer" => ObserverInv
<1>1. Init => Inv BY ObserverBegins DEF Init
<1>2. Inv /\ [Next]_Vars => Inv'
  BY ObserverKeeps DEF Next, Vars
<1> QED BY <1>1, <1>2, PTL DEF Spec

LEMMA RotationParted == Spec => [](part = "rotation" => RotationInv)
<1> DEFINE Inv == part = "rotation" => RotationInv
<1>1. Init => Inv BY RotationBegins DEF Init
<1>2. Inv /\ [Next]_Vars => Inv'
  BY RotationKeeps DEF Next, Vars
<1> QED BY <1>1, <1>2, PTL DEF Spec

LEMMA RenewalParted == Spec => [](part = "renewal" => RenewalInv)
<1> DEFINE Inv == part = "renewal" => RenewalInv
<1>1. Init => Inv BY RenewalStarts DEF Init
<1>2. Inv /\ [Next]_Vars => Inv'
  BY RenewalKeeps DEF Next, Vars
<1> QED BY <1>1, <1>2, PTL DEF Spec

LEMMA ApproverParted == Spec => [](part = "approver" => ApproverInv)
<1> DEFINE Inv == part = "approver" => ApproverInv
<1>1. Init => Inv BY ApproverBegins DEF Init
<1>2. Inv /\ [Next]_Vars => Inv'
  BY ApproverKeeps DEF Next, Vars
<1> QED BY <1>1, <1>2, PTL DEF Spec

\* ApproverSound in every behaviour of the composition: allows heed the stop, no ask that blocks
\* the session is given up, and no usage is dropped.
THEOREM ApproverSoundAlways == Spec => []ApproverSound
<1>1. (part = "approver" => ApproverInv) => ApproverSound BY ApproverInvSound DEF ApproverSound
<1> QED BY <1>1, ApproverParted, PTL

\* NoticesAccounted in every behaviour of the composition: each alert is counted once, as what
\* became of it, and the observer remembers nothing the ledger does not hold.
THEOREM OperationsAlwaysAccounted == Spec => []NoticesAccounted
<1>1. (part = "alerts" => AlertInv) /\ (part = "observer" => ObserverInv) => NoticesAccounted
  BY DEF AlertInv, ObserverInv, NoticesAccounted
<1> QED BY <1>1, AlertsParted, ObserverParted, PTL

\* CredentialsSound in every behaviour of the composition: a rotation or a renewal that ends
\* leaves a credential that serves, none astray, and none touched that was not its own.
THEOREM CredentialsAlwaysSound == Spec => []CredentialsSound
<1>1. RotationInv => FinishedServes /\ NoStrayCredential /\ UnknownUntouched
  BY DEF RotationInv, Swept, Strays, NoStrayCredential
<1>2. (part = "rotation" => RotationInv) /\ (part = "renewal" => RenewalInv) => CredentialsSound
  BY <1>1, RenewalSafe DEF CredentialsSound
<1> QED BY <1>2, RotationParted, RenewalParted, PTL

\* TokensSpared in every behaviour of the composition: whatever a renewal revokes, it is no token
\* of the snapshot but the one it replaces, and not the one in the store.
THEOREM TokensAlwaysSpared == Spec => TokensSpared
<1>1. (part = "renewal" => RenewalInv) /\ [Next]_Vars => [SparedStep]_renewalVars
  BY RenewalSpares DEF Next, Vars
<1> DEFINE Stored == \A t \in Tokens :
                       (t = store.value /\ token[t].by # "tool" /\ token'[t].by = "tool") =>
                         rn.stale \/ token[rn.old].by = "human"
           Snapshot == \A t \in Tokens :
                         (intent.phase # "none" /\ t \in intent.known /\ token[t].by # "tool" /\ token'[t].by = "tool") =>
                           t = intent.old
<1>2. (part = "renewal" => RenewalInv) /\ [Next]_Vars => [Stored]_renewalVars /\ [Snapshot]_renewalVars
  BY <1>1 DEF SparedStep
<1> QED BY <1>2, RenewalParted, PTL DEF Spec, TokensSpared, StoredTokenSpared, SnapshotSpared
=============================================================================
