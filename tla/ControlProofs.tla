----------------------------- MODULE ControlProofs -----------------------------
(***************************************************************************)
(* What holds of the federation broker, the stage controller, the lifecycle *)
(* manager's sweep and provisioning and operator authentication whatever    *)
(* their constants: the conjunctions EstateSound, StepsSound and            *)
(* OperatorsSound of the composed specification.                            *)
(* The parts share nothing, so each is proved of its own specification, and *)
(* a behaviour of the composition is a behaviour of each of them.           *)
(***************************************************************************)
EXTENDS MCControl, FiniteSetTheorems, TLAPS

-----------------------------------------------------------------------------
(* Federation: the two locks, the check they protect, what a crossing saw *)

Contracts == Offers \cup StoredContracts
SaveRecords ==
  {Unsaved, Saved} \cup [pc : {"put", "begun", "checked"}, at : Brokers, id : Ids, body : Offers]
CrossRecords ==
  {NotAsked} \cup
  [pc : {"asked", "found", "decided", "answered", "lost", "crossing", "blocked"}, at : Brokers,
   req : Crossings, found : SUBSET Contracts, verdict : {"none", "ALLOW", "BLOCK"},
   ledgered : BOOLEAN, seen : SUBSET Contracts]

FederationTyped ==
  /\ contract \in [Ids -> Contracts]
  /\ fileLock \in Writers \cup {"none"} /\ mutex \in [Brokers -> Writers \cup {"none"}]
  /\ save \in [Writers -> SaveRecords] /\ cross \in [BrokerCallers -> CrossRecords]

\* A writer between its check and its commit holds both locks, and only such a writer does.
Writes(w) == save[w].pc \in {"begun", "checked"}
LocksAgree ==
  /\ \A w \in Writers : Writes(w) => mutex[save[w].at] = w /\ fileLock = w
  /\ \A b \in Brokers : mutex[b] # "none" => Writes(mutex[b]) /\ save[mutex[b]].at = b

\* What the check found stays so until the commit.
CheckStands ==
  \A w \in Writers : save[w].pc = "checked" /\ save[w].body.active =>
    Active(normalize_org(save[w].body.org)) \ {save[w].id} = {}

SaveInv == LocksAgree /\ CheckStands

\* A crossing saw every contract in force since it was sent, the one it found among them,
\* and an ALLOW rests on one it found.
Backs(ask, k) == SignatureAccepted(ask, k) /\ ~OutsideContract(ask, k)
CrossingSound(table, x) ==
  /\ Resolved(table, x.req.org) \subseteq x.seen /\ x.found \subseteq x.seen
  /\ x.verdict = "ALLOW" => \E k \in x.found : Backs(x.req, k)
  /\ x.pc \in {"asked", "found"} => x.verdict # "ALLOW"
  /\ x.pc = "crossing" => x.verdict = "ALLOW"
CrossInv == \A c \in BrokerCallers : cross[c].pc # "idle" => CrossingSound(contract, cross[c])

FederationInv == FederationTyped /\ SaveInv /\ CrossInv

-----------------------------------------------------------------------------
(* The state keeps its shape: one step per action of the broker. *)
LEMMA FederationShape ==
  ASSUME FederationTyped, [FederationNext]_federationVars
  PROVE  FederationTyped'
<1> USE DEF FederationTyped
<1>0. CASE UNCHANGED federationVars
  BY <1>0 DEF federationVars
<1>1. ASSUME NEW b \in Brokers, StartBroker(b) PROVE FederationTyped'
  BY <1>1 DEF StartBroker
<1>2. ASSUME NEW b \in Brokers, BrokerDies(b) PROVE FederationTyped'
  <2>1. Saved \in SaveRecords BY DEF SaveRecords
  <2>2. save' \in [Writers -> SaveRecords] BY <1>2, <2>1 DEF BrokerDies
  <2>3. ASSUME NEW c \in BrokerCallers, cross[c].pc \in {"asked", "found", "decided"}
        PROVE  [cross[c] EXCEPT !.pc = "lost"] \in CrossRecords
    BY <2>3 DEF NotAsked, CrossRecords
  <2>4. cross' \in [BrokerCallers -> CrossRecords] BY <1>2, <2>3 DEF BrokerDies
  <2> QED BY <1>2, <2>2, <2>4 DEF BrokerDies
<1>3. ASSUME NEW w \in Writers, NEW b \in Brokers, NEW i \in Ids, NEW o \in Offers, PutContract(w, b, i, o)
      PROVE  FederationTyped'
  BY <1>3 DEF SaveRecords, PutContract
<1>4. ASSUME NEW w \in Writers, SaveBegin(w) PROVE FederationTyped'
  BY <1>4 DEF SaveBegin, Unsaved, Saved, SaveRecords, TakesFileLock
<1>5. ASSUME NEW w \in Writers, SaveCheck(w) PROVE FederationTyped'
  BY <1>5 DEF SaveCheck, Unsaved, Saved, SaveRecords, Releases
<1>6. ASSUME NEW w \in Writers, SaveCommit(w) PROVE FederationTyped'
  <2>1. save[w] \in [pc : {"put", "begun", "checked"}, at : Brokers, id : Ids, body : Offers]
    BY <1>6 DEF SaveCommit, SaveRecords, Unsaved, Saved
  <2> DEFINE stored == [contract EXCEPT ![save[w].id] = save[w].body]
  <2>2. stored \in [Ids -> Contracts] BY <2>1 DEF Contracts
  <2>3. Saved \in SaveRecords BY DEF SaveRecords
  <2>4. BrokerWitnessed(stored) \in [BrokerCallers -> CrossRecords]
    <3> HIDE DEF stored
    <3> SUFFICES ASSUME NEW c \in BrokerCallers, cross[c].pc # "idle"
                 PROVE  [cross[c] EXCEPT !.seen = @ \cup Resolved(stored, cross[c].req.org)] \in CrossRecords
      BY DEF BrokerWitnessed
    <3>1. cross[c] \in CrossRecords /\ cross[c] # NotAsked BY DEF NotAsked
    <3>2. Resolved(stored, cross[c].req.org) \subseteq Contracts BY <2>2 DEF Resolved, ActiveIn
    <3> QED BY <3>1, <3>2 DEF CrossRecords
  <2>5. contract' \in [Ids -> Contracts] /\ cross' \in [BrokerCallers -> CrossRecords]
    <3> HIDE DEF FederationTyped
    <3>1. \/ contract' = contract /\ cross' = cross
          \/ contract' = stored /\ cross' = BrokerWitnessed(stored)
      BY <1>6 DEF SaveCommit
    <3> QED BY <3>1, <2>2, <2>4 DEF FederationTyped
  <2>6. save' \in [Writers -> SaveRecords] BY <1>6, <2>3 DEF SaveCommit
  <2> QED BY <1>6, <2>5, <2>6 DEF SaveCommit, Releases
<1>7. ASSUME NEW c \in BrokerCallers, NEW b \in Brokers, NEW r \in Crossings, Ask(c, b, r)
      PROVE  FederationTyped'
  <2>1. for_org(r.org) \subseteq Contracts BY DEF for_org, Resolved, ActiveIn
  <2> DEFINE x == [pc |-> "asked", at |-> b, req |-> r, found |-> {}, verdict |-> "none",
                   ledgered |-> FALSE, seen |-> for_org(r.org)]
  <2>2. x \in CrossRecords BY <2>1 DEF CrossRecords
  <2>3. cross' = [cross EXCEPT ![c] = x] BY <1>7 DEF Ask
  <2> HIDE DEF x
  <2> QED BY <1>7, <2>2, <2>3 DEF Ask
<1>8. ASSUME NEW c \in BrokerCallers, Lookup(c) PROVE FederationTyped'
  <2> DEFINE f == IF ManifestAccepted(cross[c].req) THEN for_org(cross[c].req.org) ELSE {}
  <2>1. f \subseteq Contracts BY DEF for_org, Resolved, ActiveIn
  <2>2. cross' = [cross EXCEPT ![c] = [cross[c] EXCEPT !.pc = "found", !.found = f]] BY <1>8 DEF Lookup
  <2> HIDE DEF f
  <2>3. cross[c] \in CrossRecords /\ cross[c] # NotAsked BY <1>8 DEF NotAsked, Lookup
  <2>4. [cross[c] EXCEPT !.pc = "found", !.found = f] \in CrossRecords BY <2>1, <2>3 DEF CrossRecords
  <2>5. cross' \in [BrokerCallers -> CrossRecords]
    <3> HIDE DEF FederationTyped
    <3>1. cross \in [BrokerCallers -> CrossRecords] BY DEF FederationTyped
    <3> QED BY <2>2, <2>4, <3>1
  <2>6. UNCHANGED <<contract, fileLock, mutex, save>> BY <1>8 DEF Lookup
  <2> QED BY <2>5, <2>6
<1>9. ASSUME NEW c \in BrokerCallers, Decide(c) PROVE FederationTyped'
  <2>1. cross[c] \in CrossRecords /\ cross[c] # NotAsked BY <1>9 DEF NotAsked, Decide
  <2>2. PICK v \in {"ALLOW", "BLOCK"} :
          cross' = [cross EXCEPT ![c] = [cross[c] EXCEPT !.pc = "decided", !.verdict = v]]
    BY <1>9 DEF Decide
  <2>3. [cross[c] EXCEPT !.pc = "decided", !.verdict = v] \in CrossRecords BY <2>1 DEF CrossRecords
  <2> QED BY <1>9, <2>2, <2>3 DEF Decide
<1>10. ASSUME NEW c \in BrokerCallers, Answer(c) PROVE FederationTyped'
  BY <1>10 DEF NotAsked, Answer, CrossRecords
<1>11. ASSUME NEW c \in BrokerCallers, SdkCross(c) PROVE FederationTyped'
  BY <1>11 DEF NotAsked, SdkCross, CrossRecords
<1> QED
  BY <1>0, <1>1, <1>2, <1>3, <1>4, <1>5, <1>6, <1>7, <1>8, <1>9, <1>10, <1>11 DEF FederationNext

\* A step that leaves a writer's save alone, the locks as they stand for it and the
\* table as it was leaves what is known of the writer.
LEMMA SavesKept ==
  ASSUME SaveInv, UNCHANGED <<contract, fileLock, mutex, save>>
  PROVE  SaveInv'
BY DEF SaveInv, LocksAgree, CheckStands, Writes, Active, ActiveIn

\* A writer's records name its broker, its id and its body.
LEMMA SaveParts ==
  ASSUME FederationTyped, NEW w \in Writers, save[w].pc \in {"put", "begun", "checked"}
  PROVE  save[w] \in [pc : {"put", "begun", "checked"}, at : Brokers, id : Ids, body : Offers]
BY DEF FederationTyped, SaveRecords, Unsaved, Saved

\* The locks and the check outlive every step: who is between check and commit is
\* alone, so the table it checked is the table it writes to (ContractStore.save).
LEMMA SavesSound ==
  ASSUME FederationTyped, SaveInv, [FederationNext]_federationVars
  PROVE  SaveInv'
<1> USE FederationConstants
<1>0. CASE UNCHANGED federationVars
  BY <1>0, SavesKept DEF federationVars
<1>1. ASSUME NEW b \in Brokers, StartBroker(b) PROVE SaveInv'
  BY <1>1, SavesKept DEF StartBroker
<1>2. ASSUME NEW b \in Brokers, BrokerDies(b) PROVE SaveInv'
  <2>1. mutex \in [Brokers -> Writers \cup {"none"}] /\ save \in [Writers -> SaveRecords]
    BY DEF FederationTyped
  <2>2. /\ mutex' = [mutex EXCEPT ![b] = "none"]
        /\ contract' = contract
        /\ fileLock' = IF fileLock = mutex[b] THEN "none" ELSE fileLock
        /\ save' = [w \in Writers |-> IF save[w].pc \notin {"idle", "over"} /\ save[w].at = b
                                      THEN Saved ELSE save[w]]
    BY <1>2 DEF BrokerDies
  <2>3. ASSUME NEW w \in Writers, Writes(w)'
        PROVE  save'[w] = save[w] /\ Writes(w) /\ save[w].at # b
    BY <2>2, <2>3 DEF Writes, Saved
  <2>4. ASSUME NEW w \in Writers, Writes(w)' PROVE mutex'[save'[w].at] = w /\ fileLock' = w
    BY <2>3, <2>4, SaveParts, <2>1, <2>2 DEF SaveInv, LocksAgree, Writes
  <2>5. ASSUME NEW d \in Brokers, mutex'[d] # "none"
        PROVE  Writes(mutex[d])' /\ save'[mutex'[d]].at = d
    BY <2>1, <2>2, <2>5 DEF SaveInv, LocksAgree, Writes
  <2>6. LocksAgree' BY <2>4, <2>5 DEF LocksAgree, Writes
  <2>7. CheckStands' BY <2>2, <2>3 DEF SaveInv, CheckStands, Writes, Active, ActiveIn
  <2> QED BY <2>6, <2>7 DEF SaveInv
<1>3. ASSUME NEW w \in Writers, NEW b \in Brokers, NEW i \in Ids, NEW o \in Offers, PutContract(w, b, i, o)
      PROVE  SaveInv'
  BY <1>3 DEF PutContract, FederationTyped, SaveInv, LocksAgree, Writes, CheckStands, Active, ActiveIn
<1>4. ASSUME NEW w \in Writers, SaveBegin(w) PROVE SaveInv'
  BY <1>4, SaveParts DEF SaveBegin, TakesFileLock, FederationTyped, SaveInv, LocksAgree, Writes, CheckStands
<1>5. ASSUME NEW w \in Writers, Writes(w), Releases(w), save' = [save EXCEPT ![w] = Saved] PROVE SaveInv'
  \* The two ends of a save: afterwards nobody holds either lock.
  <2>1. \A v \in Writers : Writes(v) => v = w
    BY <1>5 DEF SaveInv, LocksAgree
  <2>2. \A v \in Writers : ~Writes(v)' BY <1>5, <2>1 DEF Writes, Saved, FederationTyped
  <2>3. \A d \in Brokers : mutex'[d] = "none"
    BY <1>5, SaveParts, <2>1 DEF Writes, FederationTyped, SaveInv, LocksAgree, Releases
  <2> QED BY <2>2, <2>3 DEF SaveInv, LocksAgree, CheckStands, Writes
<1>6. ASSUME NEW w \in Writers, SaveCheck(w) PROVE SaveInv'
  <2>1. CASE save[w].body.active /\ Active(normalize_org(save[w].body.org)) \ {save[w].id} # {}
    BY <1>6, <2>1, <1>5 DEF SaveCheck, Writes
  <2>2. CASE ~(save[w].body.active /\ Active(normalize_org(save[w].body.org)) \ {save[w].id} # {})
    BY <1>6, <2>2, SaveParts DEF SaveCheck, FederationTyped, Writes, SaveInv, LocksAgree, CheckStands, Active,
      ActiveIn
  <2> QED BY <2>1, <2>2
<1>7. ASSUME NEW w \in Writers, SaveCommit(w) PROVE SaveInv'
  BY <1>5, <1>7 DEF SaveCommit, Writes
<1>8. ASSUME NEW c \in BrokerCallers,
             \/ \E b \in Brokers, r \in Crossings : Ask(c, b, r)
             \/ Lookup(c) \/ Decide(c) \/ Answer(c) \/ SdkCross(c)
      PROVE  SaveInv'
  BY <1>8, SavesKept DEF Ask, Lookup, Decide, Answer, SdkCross
<1> QED
  BY <1>0, <1>1, <1>2, <1>3, <1>4, <1>6, <1>7, <1>8 DEF FederationNext

\* A crossing under way has every part of its record.
LEMMA CrossParts ==
  ASSUME FederationTyped, NEW c \in BrokerCallers, cross[c].pc # "idle"
  PROVE  cross[c] \in
           [pc : {"asked", "found", "decided", "answered", "lost", "crossing", "blocked"}, at : Brokers,
            req : Crossings, found : SUBSET Contracts, verdict : {"none", "ALLOW", "BLOCK"},
            ledgered : BOOLEAN, seen : SUBSET Contracts]
BY DEF FederationTyped, CrossRecords, NotAsked

\* With the table as it was, a crossing that is not moved stays sound, and one that
\* moves need only be sound afterwards.
LEMMA OneCrossingMoves ==
  ASSUME FederationTyped, CrossInv, contract' = contract, NEW c \in BrokerCallers, NEW x,
         cross' = [cross EXCEPT ![c] = x], CrossingSound(contract, x)
  PROVE  CrossInv'
<1>1. ASSUME NEW d \in BrokerCallers, cross'[d].pc # "idle" PROVE CrossingSound(contract', cross'[d])
  <2>1. CASE d = c BY <2>1 DEF FederationTyped
  <2>2. CASE d # c
    <3>1. cross'[d] = cross[d] BY <2>2 DEF FederationTyped
    <3> QED BY <3>1, <1>1 DEF CrossInv
  <2> QED BY <2>1, <2>2
<1> QED BY <1>1 DEF CrossInv

\* Whatever is written, looked up or lost, each crossing keeps having seen what was in
\* force since it was sent, and its ALLOW a contract that backs it (CrossingEngine).
LEMMA CrossingsSound ==
  ASSUME FederationTyped, CrossInv, [FederationNext]_federationVars
  PROVE  CrossInv'
<1>0. ASSUME UNCHANGED <<contract, cross>> PROVE CrossInv'
  BY <1>0 DEF CrossInv
<1>1. ASSUME NEW b \in Brokers, BrokerDies(b) PROVE CrossInv'
  <2>1. /\ contract' = contract
        /\ cross' = [c \in BrokerCallers |-> IF cross[c].pc \in {"asked", "found", "decided"} /\ cross[c].at = b
                                             THEN [cross[c] EXCEPT !.pc = "lost"] ELSE cross[c]]
    BY <1>1 DEF BrokerDies
  <2>2. ASSUME NEW c \in BrokerCallers, cross'[c].pc # "idle" PROVE CrossingSound(contract', cross'[c])
    <3>1. CASE cross[c].pc \in {"asked", "found", "decided"} /\ cross[c].at = b
      BY <2>1, <3>1, CrossParts DEF CrossInv, CrossingSound
    <3>2. CASE ~(cross[c].pc \in {"asked", "found", "decided"} /\ cross[c].at = b)
      BY <2>1, <2>2, <3>2 DEF CrossInv
    <3> QED BY <3>1, <3>2
  <2> QED BY <2>1, <2>2 DEF CrossInv
<1>2. ASSUME NEW w \in Writers, SaveCommit(w) PROVE CrossInv'
  <2>1. CASE UNCHANGED <<contract, cross>> BY <2>1, <1>0
  <2>2. CASE contract' = [contract EXCEPT ![save[w].id] = save[w].body] /\ cross' = BrokerWitnessed(contract')
    <3>1. ASSUME NEW c \in BrokerCallers, cross'[c].pc # "idle" PROVE CrossingSound(contract', cross'[c])
      <4>1. cross[c].pc # "idle" BY <2>2, <3>1 DEF BrokerWitnessed
      <4> DEFINE more == Resolved(contract', cross[c].req.org)
      <4>2. cross'[c] = [cross[c] EXCEPT !.seen = @ \cup more] BY <2>2, <4>1 DEF BrokerWitnessed
      <4> HIDE DEF more
      <4>4. /\ cross'[c].pc = cross[c].pc /\ cross'[c].req = cross[c].req
            /\ cross'[c].seen = cross[c].seen \cup more
            /\ cross'[c].found = cross[c].found /\ cross'[c].verdict = cross[c].verdict
        BY <4>1, <4>2, CrossParts
      <4>5. CrossingSound(contract, cross[c]) BY <4>1 DEF CrossInv
      <4>6. Resolved(contract', cross'[c].req.org) = more BY <4>4 DEF more
      <4> QED BY <4>4, <4>5, <4>6 DEF CrossingSound
    <3> QED BY <3>1 DEF CrossInv
  <2> QED BY <1>2, <2>1, <2>2 DEF SaveCommit
<1>3. ASSUME NEW c \in BrokerCallers, NEW b \in Brokers, NEW r \in Crossings, Ask(c, b, r) PROVE CrossInv'
  <2> DEFINE x == [pc |-> "asked", at |-> b, req |-> r, found |-> {}, verdict |-> "none",
                   ledgered |-> FALSE, seen |-> for_org(r.org)]
  <2>1. CrossingSound(contract, x) BY DEF CrossingSound, for_org
  <2>2. cross' = [cross EXCEPT ![c] = x] /\ contract' = contract BY <1>3 DEF Ask
  <2> HIDE DEF x
  <2> QED BY <2>1, <2>2, OneCrossingMoves
<1>4. ASSUME NEW c \in BrokerCallers, Lookup(c) PROVE CrossInv'
  <2> DEFINE f == IF ManifestAccepted(cross[c].req) THEN for_org(cross[c].req.org) ELSE {}
             x == [cross[c] EXCEPT !.pc = "found", !.found = f]
  <2>1. cross' = [cross EXCEPT ![c] = x] /\ contract' = contract BY <1>4 DEF Lookup
  <2>2. cross[c].pc = "asked" /\ CrossingSound(contract, cross[c]) BY <1>4 DEF Lookup, CrossInv
  <2>3. f \subseteq Resolved(contract, cross[c].req.org) BY DEF for_org
  <2> HIDE DEF f
  <2>4. /\ x.pc = "found" /\ x.req = cross[c].req /\ x.seen = cross[c].seen /\ x.found = f
        /\ x.verdict = cross[c].verdict
    BY <2>2, CrossParts
  <2> HIDE DEF x
  <2>5. CrossingSound(contract, x) BY <2>2, <2>3, <2>4 DEF CrossingSound
  <2> QED BY <2>1, <2>5, OneCrossingMoves
<1>5. ASSUME NEW c \in BrokerCallers, Decide(c) PROVE CrossInv'
  <2>1. PICK v \in {"ALLOW", "BLOCK"} :
          /\ cross' = [cross EXCEPT ![c] = [cross[c] EXCEPT !.pc = "decided", !.verdict = v]]
          /\ v = "ALLOW" => \E k \in cross[c].found : Backs(cross[c].req, k)
    BY <1>5 DEF Decide, Backs
  <2> DEFINE x == [cross[c] EXCEPT !.pc = "decided", !.verdict = v]
  <2>2. cross[c].pc = "found" /\ CrossingSound(contract, cross[c]) /\ contract' = contract
    BY <1>5 DEF Decide, CrossInv
  <2>3. /\ x.pc = "decided" /\ x.req = cross[c].req /\ x.seen = cross[c].seen
        /\ x.found = cross[c].found /\ x.verdict = v
    BY <2>2, CrossParts
  <2>4. cross' = [cross EXCEPT ![c] = x] BY <2>1
  <2> HIDE DEF x
  <2>5. CrossingSound(contract, x) BY <2>1, <2>2, <2>3 DEF CrossingSound
  <2> QED BY <2>2, <2>4, <2>5, OneCrossingMoves
<1>6. ASSUME NEW c \in BrokerCallers, Answer(c) PROVE CrossInv'
  <2>1. PICK pc \in {"answered", "lost"}, l \in BOOLEAN :
          cross' = [cross EXCEPT ![c] = [cross[c] EXCEPT !.pc = pc, !.ledgered = l]]
    BY <1>6 DEF Answer, FederationTyped
  <2> DEFINE x == [cross[c] EXCEPT !.pc = pc, !.ledgered = l]
  <2>2. cross[c].pc = "decided" /\ CrossingSound(contract, cross[c]) /\ contract' = contract
    BY <1>6 DEF Answer, CrossInv
  <2>3. /\ x.pc = pc /\ x.req = cross[c].req /\ x.seen = cross[c].seen
        /\ x.found = cross[c].found /\ x.verdict = cross[c].verdict
    BY <2>2, CrossParts
  <2>4. cross' = [cross EXCEPT ![c] = x] BY <2>1
  <2> HIDE DEF x
  <2>5. CrossingSound(contract, x) BY <2>2, <2>3 DEF CrossingSound
  <2> QED BY <2>2, <2>4, <2>5, OneCrossingMoves
<1>7. ASSUME NEW c \in BrokerCallers, SdkCross(c) PROVE CrossInv'
  <2>1. PICK pc \in {"crossing", "blocked"} :
          /\ cross' = [cross EXCEPT ![c] = [cross[c] EXCEPT !.pc = pc]]
          /\ pc = "crossing" => cross[c].verdict = "ALLOW"
    BY <1>7 DEF SdkCross, Returns
  <2> DEFINE x == [cross[c] EXCEPT !.pc = pc]
  <2>2. cross[c].pc \in {"answered", "lost"} /\ CrossingSound(contract, cross[c]) /\ contract' = contract
    BY <1>7 DEF SdkCross, CrossInv
  <2>3. /\ x.pc = pc /\ x.req = cross[c].req /\ x.seen = cross[c].seen
        /\ x.found = cross[c].found /\ x.verdict = cross[c].verdict
    BY <2>2, CrossParts
  <2>4. cross' = [cross EXCEPT ![c] = x] BY <2>1
  <2> HIDE DEF x
  <2>5. CrossingSound(contract, x) BY <2>1, <2>2, <2>3 DEF CrossingSound
  <2> QED BY <2>2, <2>4, <2>5, OneCrossingMoves
<1>8. ASSUME \/ UNCHANGED federationVars
             \/ \E b \in Brokers : StartBroker(b)
             \/ \E w \in Writers : \/ \E b \in Brokers, i \in Ids, o \in Offers : PutContract(w, b, i, o)
                                   \/ SaveBegin(w) \/ SaveCheck(w)
      PROVE  CrossInv'
  BY <1>0, <1>8 DEF federationVars, StartBroker, PutContract, SaveBegin, SaveCheck
<1> QED
  BY <1>1, <1>2, <1>3, <1>4, <1>5, <1>6, <1>7, <1>8 DEF FederationNext

\* The invariant holds of every behaviour of the broker.
THEOREM FederationAlwaysSound == FederationSpec => []FederationInv
<1>1. FederationInit => FederationInv
  <2> SUFFICES ASSUME FederationInit PROVE FederationInv OBVIOUS
  <2>1. contract \in [Ids -> Contracts]
    BY FederationConstants DEF FederationInit, Contracts
  <2>2. FederationTyped
    BY <2>1 DEF FederationInit, FederationTyped, SaveRecords, CrossRecords
  <2>3. SaveInv
    BY DEF FederationInit, SaveInv, LocksAgree, CheckStands, Writes, Unsaved
  <2>4. CrossInv BY DEF FederationInit, CrossInv, NotAsked
  <2> QED BY <2>2, <2>3, <2>4 DEF FederationInv
<1>2. FederationInv /\ [FederationNext]_federationVars => FederationInv'
  BY FederationShape, SavesSound, CrossingsSound DEF FederationInv
<1> QED BY <1>1, <1>2, PTL DEF FederationSpec

\* A caller that crosses or was told ALLOW was inside a contract in force during its
\* call (CrossingBacked, over _decide_inbound, _decide_outbound and the SDK's cross).
THEOREM CrossingsAlwaysBacked == FederationSpec => []CrossingBacked
<1>1. FederationInv => CrossingBacked
  BY DEF CrossingBacked, FederationInv, CrossInv, CrossingSound, Backs, SignatureAccepted, OutsideContract
<1> QED BY <1>1, FederationAlwaysSound, PTL

\* Duplicate active contracts of an org only go away (DuplicatesOnlyShrink, the check and
\* the upsert of ContractStore.save under BEGIN IMMEDIATE).
THEOREM DuplicatesAlwaysShrink == FederationSpec => DuplicatesOnlyShrink
<1> DEFINE Shrinks(org) == Cardinality(Active(org)') > 1 => Active(org)' \subseteq Active(org)
<1>1. ASSUME FederationInv, FederationNext, NEW org, contract' # contract PROVE Shrinks(org)
  <2>1. PICK w \in Writers : SaveCommit(w)
    BY <1>1 DEF FederationNext, StartBroker, BrokerDies, PutContract, SaveBegin, SaveCheck, Ask,
                Lookup, Decide, Answer, SdkCross
  <2> DEFINE i == save[w].id
             body == save[w].body
  <2>2. i \in Ids /\ contract \in [Ids -> Contracts] /\ contract' = [contract EXCEPT ![i] = body]
    BY <2>1, <1>1, SaveParts DEF SaveCommit, FederationInv, FederationTyped
  <2>3. body.active => ActiveIn(contract, normalize_org(body.org)) \ {i} = {}
    BY <1>1, <2>1 DEF SaveCommit, FederationInv, SaveInv, CheckStands, Active
  <2>4. Active(org)' = ActiveIn(contract', org) /\ Active(org) = ActiveIn(contract, org) BY DEF Active
  <2> HIDE DEF i, body
  <2>5. CASE body.active /\ org = normalize_org(body.org)
    <3>1. ActiveIn(contract', org) \subseteq {i} BY <2>2, <2>3, <2>5 DEF ActiveIn
    <3>2. ActiveIn(contract', org) = {} \/ ActiveIn(contract', org) = {i} BY <3>1
    <3>3. Cardinality({}) = 0 /\ Cardinality({i}) = 1 BY FS_EmptySet, FS_Singleton
    <3> QED BY <2>4, <3>2, <3>3
  <2>6. CASE ~(body.active /\ org = normalize_org(body.org))
    BY <2>2, <2>6, <2>4 DEF ActiveIn
  <2> QED BY <2>5, <2>6
<1>2. FederationInv /\ [FederationNext]_federationVars =>
        [\A org \in {NormalForm[n] : n \in DOMAIN NormalForm} :
           Cardinality(Active(org)') > 1 => Active(org)' \subseteq Active(org)]_contract
  BY <1>1 DEF federationVars
<1> QED BY <1>2, FederationAlwaysSound, PTL DEF FederationSpec, DuplicatesOnlyShrink

-----------------------------------------------------------------------------
(* Sweep: what arms a kill, and the file a report is written to *)

AgentRecords ==
  [status : {"active", "killed", "retired"}, owner : Owners, created : Nat, attested : Nat, edited : Nat]
SweepRecords ==
  [pc : {"idle", "refused", "skipped", "failed", "swept"}]
  \cup [pc : {"list", "orphans", "failed"}, arm : BOOLEAN, names : Rosters, file : Rosters,
        listing : [Swept -> AgentRecords] \cup {[a \in {} |-> "none"]}, todo : SUBSET Swept]
  \cup [pc : {"write", "replace"}, file : Sweeps]

SweepTyped ==
  /\ now \in Nat /\ agent \in [Swept -> AgentRecords] /\ roster \in Rosters
  /\ sw \in [Sweeps -> SweepRecords] /\ inode \in [Sweeps -> Sweeps \cup {SweepTorn}]
  /\ tmp \in Sweeps \cup {NoFile} /\ last \in Sweeps \cup {NoFile} /\ overlap \in BOOLEAN

\* An armed sweep is no tick and goes by the configured file; its orphans are unowned there.
ArmedByFile(s) ==
  sw[s].arm => s \notin Ticks /\ sw[s].names = sw[s].file /\ sw[s].file \notin {SweepMissing, Malformed}
OrphansUnowned(s) == \A a \in sw[s].todo : sw[s].listing[a].owner \notin sw[s].names
KillInv ==
  \A s \in Sweeps : /\ sw[s].pc \in {"list", "orphans"} => ArmedByFile(s)
                    /\ sw[s].pc = "orphans" => OrphansUnowned(s)

\* While reports are written one at a time: the temporary file is not the last report, the
\* writer has it open, and the last report is whole.
Opened(s) == sw[s].pc \in {"write", "replace", "swept", "failed"}
ReportInv ==
  ~overlap =>
    /\ last # NoFile => Opened(last) /\ inode[last] # SweepTorn
    /\ tmp # NoFile => Opened(tmp) /\ tmp # last
    /\ \A s \in Sweeps : Writing(s) =>
         /\ tmp = sw[s].file /\ (inode[tmp] = SweepTorn <=> sw[s].pc = "write")
         /\ \A q \in Sweeps : Writing(q) => q = s

SweepInv == SweepTyped /\ KillInv /\ ReportInv

\* A sweep that lists or goes through its orphans has its request and its listing.
LEMMA ListParts ==
  ASSUME SweepTyped, NEW s \in Sweeps, sw[s].pc \in {"list", "orphans"}
  PROVE  sw[s] \in [pc : {"list", "orphans", "failed"}, arm : BOOLEAN, names : Rosters, file : Rosters,
                    listing : [Swept -> AgentRecords] \cup {[a \in {} |-> "none"]}, todo : SUBSET Swept]
BY DEF SweepTyped, SweepRecords

\* A sweep that writes its report has a file.
LEMMA WriteParts ==
  ASSUME SweepTyped, NEW s \in Sweeps, sw[s].pc \in {"write", "replace"}
  PROVE  sw[s] \in [pc : {"write", "replace"}, file : Sweeps]
BY DEF SweepTyped, SweepRecords

\* Ending a sweep: refused or skipped before it begins, failed under way.
LEMMA EndParts ==
  ASSUME SweepTyped, NEW s \in Sweeps, NEW pc \in {"refused", "skipped", "failed"},
         sw[s].pc = "idle" \/ (sw[s].pc \in {"list", "orphans"} /\ pc = "failed")
  PROVE  [sw[s] EXCEPT !.pc = pc] \in SweepRecords /\ [sw[s] EXCEPT !.pc = pc].pc = pc
<1>1. sw[s] \in SweepRecords BY DEF SweepTyped
<1>2. CASE sw[s].pc = "idle"
  BY <1>1, <1>2 DEF SweepRecords
<1>3. CASE sw[s].pc \in {"list", "orphans"} /\ pc = "failed"
  BY <1>3, ListParts DEF SweepRecords
<1> QED BY <1>2, <1>3

\* The state keeps its shape: one step per action of the sweep and of the estate.
LEMMA SweepShape ==
  ASSUME SweepTyped, [SweepNext]_sweepVars
  PROVE  SweepTyped'
<1> USE SweepConstants DEF SweepTyped, filesKept, worldKept
<1>0. CASE UNCHANGED sweepVars
  BY <1>0 DEF sweepVars
<1>1. CASE SweepTimePasses
  BY <1>1 DEF SweepTimePasses
<1>2. ASSUME NEW a \in Swept, EditAgent(a) PROVE SweepTyped'
  <2>1. PICK s \in {"active", "killed", "retired"}, o \in Owners :
          agent' = [agent EXCEPT ![a] = [@ EXCEPT !.status = s, !.owner = o, !.edited = now]]
    BY <1>2 DEF EditAgent
  <2>2. [agent[a] EXCEPT !.status = s, !.owner = o, !.edited = now] \in AgentRecords BY DEF AgentRecords
  <2> QED BY <1>2, <2>1, <2>2 DEF EditAgent
<1>3. ASSUME NEW a \in Swept, AttestAgent(a) PROVE SweepTyped'
  BY <1>3 DEF AttestAgent, AgentRecords
<1>4. CASE EditRoster
  BY <1>4 DEF EditRoster
<1>5. ASSUME NEW s \in Sweeps, NEW ask \in [arm : BOOLEAN, body : Rosters, scopes : Scopes], Begins(s, ask)
      PROVE  sw' \in [Sweeps -> SweepRecords]
  <2> DEFINE x == [pc |-> "list", arm |-> ask.arm, names |-> RosterText(ask), file |-> roster,
                   listing |-> [a \in {} |-> "none"], todo |-> {}]
  <2>1. RosterText(ask) \in Rosters BY DEF RosterText
  <2>2. x \in SweepRecords BY <2>1 DEF SweepRecords
  <2>3. sw' = [sw EXCEPT ![s] = x] BY <1>5 DEF Begins
  <2> HIDE DEF x
  <2> QED BY <2>2, <2>3
<1>6. ASSUME NEW s \in Sweeps, NEW pc \in {"refused", "skipped", "failed"}, ToPc(s, pc),
             sw[s].pc = "idle" \/ (sw[s].pc \in {"list", "orphans"} /\ pc = "failed")
      PROVE  sw' \in [Sweeps -> SweepRecords]
  BY <1>6, EndParts DEF ToPc
<1>7. ASSUME NEW s \in Sweeps, NEW ask \in [arm : BOOLEAN, body : Rosters, scopes : Scopes], ServeSweep(s, ask)
      PROVE  SweepTyped'
  BY <1>5, <1>6, <1>7 DEF ServeSweep, InPc
<1>8. ASSUME NEW s \in Sweeps, TickSweep(s) PROVE SweepTyped'
  <2>1. CASE Begins(s, TickRequest)
    <3> DEFINE x == [pc |-> "list", arm |-> FALSE, names |-> roster, file |-> roster,
                     listing |-> [a \in {} |-> "none"], todo |-> {}]
    <3>1. x \in SweepRecords BY DEF SweepRecords
    <3>2. sw' = [sw EXCEPT ![s] = x] BY <2>1 DEF Begins, TickRequest, RosterText
    <3> HIDE DEF x
    <3> QED BY <1>8, <3>1, <3>2 DEF TickSweep
  <2> QED BY <1>6, <1>8, <2>1 DEF TickSweep, InPc
<1>9. ASSUME NEW s \in Sweeps, List(s) PROVE SweepTyped'
  <2>1. CASE ToPc(s, "failed") BY <1>6, <1>9, <2>1 DEF List, InPc
  <2>2. CASE sw' = [sw EXCEPT ![s].pc = "orphans", ![s].listing = agent,
                              ![s].todo = {a \in Swept : Orphan(a, sw[s].names)}]
    <3> DEFINE t == {a \in Swept : Orphan(a, sw[s].names)}
               x == [sw[s] EXCEPT !.pc = "orphans", !.listing = agent, !.todo = t]
    <3>1. sw' = [sw EXCEPT ![s] = x] BY <2>2
    <3>2. t \subseteq Swept OBVIOUS
    <3> HIDE DEF t
    <3>3. x \in SweepRecords BY <1>9, <3>2, ListParts DEF List, InPc, SweepRecords
    <3> HIDE DEF x
    <3> QED BY <1>9, <3>1, <3>3 DEF List
  <2> QED BY <1>9, <2>1, <2>2 DEF List
<1>10. ASSUME NEW s \in Sweeps, NEW a \in Swept, OrphanStep(s, a) PROVE SweepTyped'
  <2>1. CASE ToPc(s, "failed") /\ UNCHANGED agent BY <1>6, <1>10, <2>1 DEF OrphanStep, InPc
  <2>2. CASE /\ sw' = [sw EXCEPT ![s].todo = @ \ {a}]
             /\ \/ agent' = [agent EXCEPT ![a].status = "killed", ![a].edited = now]
                \/ agent' = agent
    <3>1. [sw[s] EXCEPT !.todo = @ \ {a}] \in SweepRecords
      BY <1>10, ListParts DEF OrphanStep, InPc, SweepRecords
    <3>2. sw' \in [Sweeps -> SweepRecords] BY <2>2, <3>1
    <3>3. [agent[a] EXCEPT !.status = "killed", !.edited = now] \in AgentRecords BY DEF AgentRecords
    <3>4. agent' \in [Swept -> AgentRecords] BY <2>2, <3>3
    <3> QED BY <1>10, <3>2, <3>4 DEF OrphanStep
  <2> QED BY <1>10, <2>1, <2>2 DEF OrphanStep
<1>11. ASSUME NEW s \in Sweeps, OpenReport(s) PROVE SweepTyped'
  BY <1>11 DEF OpenReport, ReportPath, SweepRecords
<1>12. ASSUME NEW s \in Sweeps, WriteReport(s) PROVE SweepTyped'
  BY <1>12, WriteParts DEF WriteReport, InPc, SweepRecords, ToPc
<1>13. ASSUME NEW s \in Sweeps, ReplaceReport(s) PROVE SweepTyped'
  BY <1>13 DEF SweepRecords, ReplaceReport
<1>14. CASE ServiceDies
  BY <1>14 DEF SweepRecords, ServiceDies
<1> QED
  BY <1>0, <1>1, <1>2, <1>3, <1>4, <1>7, <1>8, <1>9, <1>10, <1>11, <1>12, <1>13, <1>14 DEF SweepNext

\* A sweep that is not moved keeps what it knows; one that moves must know it afterwards.
LEMMA OneSweepMoves ==
  ASSUME SweepTyped, KillInv, NEW s \in Sweeps, NEW x, sw' = [sw EXCEPT ![s] = x],
         x.pc \in {"list", "orphans"} /\ x.arm =>
           s \notin Ticks /\ x.names = x.file /\ x.file \notin {SweepMissing, Malformed},
         x.pc = "orphans" => \A a \in x.todo : x.listing[a].owner \notin x.names
  PROVE  KillInv'
BY DEF SweepTyped, KillInv, ArmedByFile, OrphansUnowned

\* Only a request that brings no roster and holds sweep_kill begins an armed sweep, and a
\* listing names as orphans those the roster does not own (run_sweep's one arming point).
LEMMA KillsSound ==
  ASSUME SweepTyped, KillInv, [SweepNext]_sweepVars
  PROVE  KillInv'
<1>0. ASSUME sw' = sw PROVE KillInv'
  BY <1>0 DEF KillInv, ArmedByFile, OrphansUnowned
<1>1. CASE UNCHANGED sweepVars \/ SweepTimePasses \/ EditRoster \/ \E a \in Swept : EditAgent(a) \/ AttestAgent(a)
  BY <1>0, <1>1 DEF sweepVars, SweepTimePasses, EditRoster, EditAgent, AttestAgent
<1>2. ASSUME NEW s \in Sweeps, NEW pc \in {"refused", "skipped", "failed"}, ToPc(s, pc),
             sw[s].pc = "idle" \/ (sw[s].pc \in {"list", "orphans"} /\ pc = "failed")
      PROVE  KillInv'
  BY <1>2, EndParts, OneSweepMoves DEF ToPc
<1>3. ASSUME NEW s \in Sweeps, NEW ask \in [arm : BOOLEAN, body : Rosters, scopes : Scopes], ServeSweep(s, ask)
      PROVE  KillInv'
  <2>1. CASE Begins(s, ask) /\ s \notin Ticks /\ ~RefusedRequest(ask) /\ ~Unavailable(ask) /\ RosterText(ask) # Malformed
    <3> DEFINE x == [pc |-> "list", arm |-> ask.arm, names |-> RosterText(ask), file |-> roster,
                     listing |-> [a \in {} |-> "none"], todo |-> {}]
    <3>1. sw' = [sw EXCEPT ![s] = x] BY <2>1 DEF Begins
    <3>2. ask.arm => RosterText(ask) = roster BY <2>1 DEF RefusedRequest, RosterText
    <3>3. ask.arm => roster \notin {SweepMissing, Malformed} BY <2>1, <3>2 DEF Unavailable
    <3>4. /\ x.pc = "list" /\ x.arm = ask.arm /\ x.names = RosterText(ask) /\ x.file = roster
      OBVIOUS
    <3> HIDE DEF x
    <3> QED BY <2>1, <3>1, <3>2, <3>3, <3>4, OneSweepMoves
  <2> QED BY <1>2, <1>3, <2>1 DEF ServeSweep, InPc
<1>4. ASSUME NEW s \in Sweeps, TickSweep(s) PROVE KillInv'
  <2>1. CASE Begins(s, TickRequest)
    <3> DEFINE x == [pc |-> "list", arm |-> FALSE, names |-> roster, file |-> roster,
                     listing |-> [a \in {} |-> "none"], todo |-> {}]
    <3>1. sw' = [sw EXCEPT ![s] = x] BY <2>1 DEF Begins, TickRequest, RosterText
    <3>2. x.pc = "list" /\ x.arm = FALSE OBVIOUS
    <3> HIDE DEF x
    <3> QED BY <3>1, <3>2, OneSweepMoves
  <2> QED BY <1>2, <1>4, <2>1 DEF TickSweep, InPc
<1>5. ASSUME NEW s \in Sweeps, List(s) PROVE KillInv'
  <2>1. CASE ToPc(s, "failed") BY <1>2, <1>5, <2>1 DEF List, InPc
  <2>2. CASE sw' = [sw EXCEPT ![s].pc = "orphans", ![s].listing = agent,
                              ![s].todo = {a \in Swept : Orphan(a, sw[s].names)}]
    <3> DEFINE t == {a \in Swept : Orphan(a, sw[s].names)}
               x == [sw[s] EXCEPT !.pc = "orphans", !.listing = agent, !.todo = t]
    <3>1. sw' = [sw EXCEPT ![s] = x] BY <2>2
    <3>2. \A a \in t : agent[a].owner \notin sw[s].names BY DEF Orphan
    <3> HIDE DEF t
    <3>3. sw[s].pc = "list" BY <1>5 DEF List, InPc
    <3>4. /\ x.pc = "orphans" /\ x.arm = sw[s].arm /\ x.names = sw[s].names /\ x.file = sw[s].file
          /\ x.listing = agent /\ x.todo = t
      BY <3>3, ListParts
    <3>5. ArmedByFile(s) BY <3>3 DEF KillInv
    <3> HIDE DEF x
    <3> QED BY <3>1, <3>2, <3>4, <3>5, OneSweepMoves DEF ArmedByFile
  <2> QED BY <1>5, <2>1, <2>2 DEF List
<1>6. ASSUME NEW s \in Sweeps, NEW a \in Swept, OrphanStep(s, a) PROVE KillInv'
  <2>1. CASE ToPc(s, "failed") BY <1>2, <1>6, <2>1 DEF OrphanStep, InPc
  <2>2. CASE sw' = [sw EXCEPT ![s].todo = @ \ {a}]
    <3> DEFINE x == [sw[s] EXCEPT !.todo = @ \ {a}]
    <3>1. sw' = [sw EXCEPT ![s] = x] BY <2>2
    <3>2. sw[s].pc = "orphans" BY <1>6 DEF OrphanStep, InPc
    <3>3. /\ x.pc = "orphans" /\ x.arm = sw[s].arm /\ x.names = sw[s].names /\ x.file = sw[s].file
          /\ x.listing = sw[s].listing /\ x.todo \subseteq sw[s].todo
      BY <3>2, ListParts
    <3>4. ArmedByFile(s) /\ OrphansUnowned(s) BY <3>2 DEF KillInv
    <3> HIDE DEF x
    <3> QED BY <3>1, <3>3, <3>4, OneSweepMoves DEF ArmedByFile, OrphansUnowned
  <2> QED BY <1>6, <2>1, <2>2 DEF OrphanStep
<1>7. ASSUME NEW s \in Sweeps, OpenReport(s) PROVE KillInv'
  <2>1. PICK file : sw' = [sw EXCEPT ![s] = [pc |-> "write", file |-> file]] BY <1>7 DEF OpenReport
  <2> QED BY <2>1, OneSweepMoves
<1>8. ASSUME NEW s \in Sweeps, WriteReport(s) PROVE KillInv'
  BY <1>8, WriteParts, OneSweepMoves DEF WriteReport, InPc, ToPc
<1>9. ASSUME NEW s \in Sweeps, ReplaceReport(s) PROVE KillInv'
  BY <1>9, OneSweepMoves DEF ReplaceReport
<1>10. CASE ServiceDies
  BY <1>10 DEF ServiceDies, KillInv, ArmedByFile, OrphansUnowned
<1> QED
  BY <1>1, <1>3, <1>4, <1>5, <1>6, <1>7, <1>8, <1>9, <1>10 DEF SweepNext

\* A step that touches no file, opens no report and lets none go by is harmless to all.
LEMMA ReportsKept ==
  ASSUME SweepTyped, ReportInv, filesKept,
         \A s \in Sweeps : (Opened(s) => Opened(s)') /\ (Writing(s)' => sw'[s] = sw[s])
  PROVE  ReportInv'
BY SweepConstants DEF SweepTyped, ReportInv, filesKept, Opened, Writing

\* The temporary file is never the last report, and whoever is alone in writing has it
\* (_persist: written beside, then put in its place).
LEMMA ReportsSound ==
  ASSUME SweepTyped, ReportInv, [SweepNext]_sweepVars
  PROVE  ReportInv'
<1> USE SweepConstants
<1>0. ASSUME sw' = sw, filesKept PROVE ReportInv'
  BY <1>0, ReportsKept DEF Opened, Writing
<1>1. CASE UNCHANGED sweepVars \/ SweepTimePasses \/ EditRoster \/ \E a \in Swept : EditAgent(a) \/ AttestAgent(a)
  BY <1>0, <1>1 DEF sweepVars, filesKept, SweepTimePasses, EditRoster, EditAgent, AttestAgent
<1>2. ASSUME NEW s \in Sweeps, NEW x, sw' = [sw EXCEPT ![s] = x], filesKept, ~Opened(s),
             x.pc \notin {"write", "replace"}
      PROVE  ReportInv'
  BY <1>2, ReportsKept DEF SweepTyped, Opened, Writing
<1>3. ASSUME NEW s \in Sweeps, NEW ask \in [arm : BOOLEAN, body : Rosters, scopes : Scopes], ServeSweep(s, ask)
      PROVE  ReportInv'
  BY <1>3, <1>2, EndParts DEF ServeSweep, InPc, Opened, Begins, ToPc
<1>4. ASSUME NEW s \in Sweeps, TickSweep(s) PROVE ReportInv'
  BY <1>4, <1>2, EndParts DEF TickSweep, InPc, Opened, Begins, ToPc
<1>5. ASSUME NEW s \in Sweeps, sw[s].pc \in {"list", "orphans"}, filesKept, ToPc(s, "failed")
      PROVE  ReportInv'
  BY <1>2, <1>5, EndParts DEF ToPc, Opened
<1>6. ASSUME NEW s \in Sweeps, List(s) PROVE ReportInv'
  <2>1. sw[s].pc = "list" /\ filesKept BY <1>6 DEF List, InPc
  <2>2. CASE sw' = [sw EXCEPT ![s].pc = "orphans", ![s].listing = agent,
                              ![s].todo = {a \in Swept : Orphan(a, sw[s].names)}]
    <3> DEFINE t == {a \in Swept : Orphan(a, sw[s].names)}
               x == [sw[s] EXCEPT !.pc = "orphans", !.listing = agent, !.todo = t]
    <3>1. sw' = [sw EXCEPT ![s] = x] BY <2>2
    <3> HIDE DEF t
    <3>2. x.pc = "orphans" BY <2>1, ListParts
    <3> HIDE DEF x
    <3> QED BY <1>2, <2>1, <3>1, <3>2 DEF Opened
  <2> QED BY <1>5, <1>6, <2>1, <2>2 DEF List
<1>7. ASSUME NEW s \in Sweeps, NEW a \in Swept, OrphanStep(s, a) PROVE ReportInv'
  <2>1. sw[s].pc = "orphans" /\ filesKept BY <1>7 DEF OrphanStep, InPc
  <2>2. CASE sw' = [sw EXCEPT ![s].todo = @ \ {a}]
    BY <2>1, ListParts, <1>2, <2>2 DEF Opened
  <2> QED BY <1>5, <1>7, <2>1, <2>2 DEF OrphanStep
<1>8. ASSUME NEW s \in Sweeps, OpenReport(s) PROVE ReportInv'
  <2>0. PICK file \in Sweeps : file = IF tmp = NoFile THEN s ELSE tmp BY DEF SweepTyped
  <2>1. /\ inode' = [inode EXCEPT ![file] = SweepTorn] /\ tmp' = file /\ last' = last
        /\ sw' = [sw EXCEPT ![s] = [pc |-> "write", file |-> file]]
        /\ overlap' = (overlap \/ \E q \in Sweeps \ {s} : Writing(q))
        /\ sw[s].pc = "orphans"
    BY <1>8, <2>0 DEF OpenReport, ReportPath, InPc
  <2> SUFFICES ASSUME ~overlap' PROVE ReportInv' BY DEF ReportInv
  <2>3. ~overlap /\ \A q \in Sweeps \ {s} : ~Writing(q) BY <2>1
  <2>4. last # s /\ tmp # s BY <2>1, <2>3 DEF ReportInv, Opened
  <2>5. last # file BY <2>0, <2>3, <2>4 DEF ReportInv
  <2>6. /\ sw'[s].pc = "write" /\ sw'[s].file = file /\ \A q \in Sweeps \ {s} : sw'[q] = sw[q]
        /\ inode'[file] = SweepTorn /\ \A q \in Sweeps \ {file} : inode'[q] = inode[q]
    BY <2>0, <2>1 DEF SweepTyped
  <2>7. \A q \in Sweeps : Writing(q)' => q = s BY <2>3, <2>6 DEF Writing
  <2>8. last # NoFile => Opened(last)' /\ inode'[last] # SweepTorn
    BY <2>1, <2>3, <2>4, <2>5, <2>6 DEF SweepTyped, ReportInv, Opened
  <2>9. Opened(file)' BY <2>0, <2>3, <2>6 DEF ReportInv, Opened
  <2> QED BY <2>0, <2>1, <2>5, <2>6, <2>7, <2>8, <2>9 DEF ReportInv, Opened
<1>9. ASSUME NEW s \in Sweeps, WriteReport(s) PROVE ReportInv'
  BY <1>9, WriteParts DEF WriteReport, InPc, ToPc, ReportInv, Writing, SweepTyped, Opened
<1>10. ASSUME NEW s \in Sweeps, ReplaceReport(s) PROVE ReportInv'
  BY <1>10, WriteParts DEF ReplaceReport, InPc, ReportInv, Writing, SweepTyped, Opened
<1>11. CASE ServiceDies
  BY <1>11, ReportsKept DEF ServiceDies, Opened, Writing
<1> QED
  BY <1>1, <1>3, <1>4, <1>6, <1>7, <1>8, <1>9, <1>10, <1>11 DEF SweepNext

\* The invariant holds of every behaviour of the sweep.
THEOREM SweepAlwaysSound == SweepSpec => []SweepInv
<1>1. SweepInit => SweepInv
  <2> SUFFICES ASSUME SweepInit PROVE SweepInv OBVIOUS
  <2> USE SweepConstants
  <2>1. (CHOOSE o \in Owners : TRUE) \in Owners OBVIOUS
  <2>2. agent \in [Swept -> AgentRecords] BY <2>1 DEF SweepInit, AgentRecords
  <2>3. sw \in [Sweeps -> SweepRecords] BY DEF SweepInit, Unswept, SweepRecords
  <2>4. SweepTyped BY <2>2, <2>3 DEF SweepInit, SweepTyped
  <2>5. \A s \in Sweeps : sw[s].pc = "idle" BY DEF SweepInit, Unswept
  <2>6. KillInv BY <2>5 DEF KillInv
  <2>7. ReportInv BY <2>5 DEF SweepInit, ReportInv, Writing
  <2> QED BY <2>4, <2>6, <2>7 DEF SweepInv
<1>2. SweepInv /\ [SweepNext]_sweepVars => SweepInv'
  BY SweepShape, KillsSound, ReportsSound DEF SweepInv
<1> QED BY <1>1, <1>2, PTL DEF SweepSpec

\* The last report on disk is whole unless two sweeps wrote theirs at once
\* (LastReportWhole, over _persist).
THEOREM LastReportAlwaysWhole == SweepSpec => []LastReportWhole
<1>1. SweepInv => LastReportWhole BY DEF SweepInv, ReportInv, LastReportWhole
<1> QED BY <1>1, SweepAlwaysSound, PTL

\* A sweep kills only whom the configured roster left without an owner in its listing,
\* never on a tick or by a roster a request brought along (KillsOrphansOnly, run_sweep).
THEOREM SweepsKillOrphansOnly == SweepSpec => KillsOrphansOnly
<1>1. ASSUME SweepInv, SweepNext, NEW k \in kills' \ kills
      PROVE  /\ k.by \notin Ticks /\ sw[k.by].file \notin {SweepMissing, Malformed}
             /\ sw[k.by].listing[k.about].owner \notin sw[k.by].file
  <2>1. PICK s \in Sweeps, a \in Swept : OrphanStep(s, a)
    BY <1>1 DEF SweepNext, SweepTimePasses, EditRoster, EditAgent, AttestAgent, ServeSweep, TickSweep,
                List, OpenReport, WriteReport, ReplaceReport, ServiceDies
  <2>2. sw[s].arm /\ kills' = kills \cup {[by |-> s, about |-> a]} BY <1>1, <2>1 DEF OrphanStep
  <2>3. k.by = s /\ k.about = a BY <1>1, <2>2
  <2>4. sw[s].pc = "orphans" /\ a \in sw[s].todo BY <2>1 DEF OrphanStep, InPc
  <2>5. ArmedByFile(s) /\ OrphansUnowned(s) BY <1>1, <2>4 DEF SweepInv, KillInv
  <2> QED BY <2>2, <2>3, <2>4, <2>5 DEF ArmedByFile, OrphansUnowned
<1>2. SweepInv /\ [SweepNext]_sweepVars =>
        [\A k \in kills' \ kills :
           /\ k.by \notin Ticks /\ sw[k.by].file \notin {SweepMissing, Malformed}
           /\ sw[k.by].listing[k.about].owner \notin sw[k.by].file]_kills
  BY <1>1 DEF sweepVars
<1> QED BY <1>2, SweepAlwaysSound, PTL DEF SweepSpec, KillsOrphansOnly

\* A sweep reports each active agent whose attestation has lapsed when it lists it,
\* whatever was edited since (StaleReported, the re-attestation check of run_sweep).
THEOREM SweepsReportStale == SweepSpec => StaleReported
<1> DEFINE Stale(a) ==
      /\ agent[a].status = "active" /\ now - agent[a].created > Reattest
      /\ (agent[a].attested = 0 \/ now - agent[a].attested > Reattest)
<1>1. ASSUME SweepInv, SweepNext, NEW s \in Sweeps, NEW a \in Swept,
             InPc(s, "list"), sw'[s].pc = "orphans", Stale(a)
      PROVE  [by |-> s, about |-> a] \in found'
  <2>1. SweepTyped /\ sw[s].pc = "list" BY <1>1 DEF SweepInv, InPc
  <2>2. ReattestationDue(a)
    <3>1. now \in Nat /\ agent[a].attested \in Nat /\ agent[a].created \in Nat
      BY <2>1 DEF SweepTyped, AgentRecords
    <3> HIDE DEF Stale
    <3>2. Since(a) < now - Reattest BY <1>1, <3>1, SweepConstants DEF Stale, Since
    <3> QED BY <1>1, <3>2 DEF ReattestationDue, Stale
  <2>3. sw'[s] # sw[s] BY <1>1, <2>1
  <2>4. ASSUME NEW q \in Sweeps, NEW x, sw' = [sw EXCEPT ![q] = x] PROVE q = s
    BY <2>1, <2>3, <2>4 DEF SweepTyped
  <2>5. List(s)
    <3>1. ASSUME NEW q \in Sweeps, NEW ask \in [arm : BOOLEAN, body : Rosters, scopes : Scopes], ServeSweep(q, ask)
          PROVE  FALSE
      <4>1. sw[q].pc = "idle" /\ q = s BY <2>4, <3>1 DEF ServeSweep, InPc, ToPc, Begins
      <4> QED BY <2>1, <4>1
    <3>2. ASSUME NEW q \in Sweeps, TickSweep(q) PROVE FALSE
      <4>1. sw[q].pc = "idle" /\ q = s BY <2>4, <3>2 DEF TickSweep, InPc, ToPc, Begins
      <4> QED BY <2>1, <4>1
    <3>3. ASSUME NEW q \in Sweeps, List(q) PROVE List(s)
      <4>1. q = s BY <2>4, <3>3 DEF List, ToPc
      <4> QED BY <3>3, <4>1
    <3>4. ASSUME NEW q \in Sweeps, OpenReport(q) \/ WriteReport(q) \/ ReplaceReport(q) PROVE FALSE
      BY <2>4, <3>4, <2>1 DEF OpenReport, WriteReport, ReplaceReport, ToPc, InPc
    <3>5. ASSUME NEW q \in Sweeps, NEW o \in Swept, OrphanStep(q, o) PROVE FALSE
      <4>1. q = s BY <2>4, <3>5 DEF OrphanStep, ToPc
      <4> QED BY <2>1, <3>5, <4>1 DEF OrphanStep, InPc
    <3>6. ~ServiceDies BY <1>1, <2>1 DEF ServiceDies
    <3> QED
      BY <1>1, <2>3, <3>1, <3>2, <3>3, <3>4, <3>5, <3>6
      DEF SweepNext, SweepTimePasses, EditRoster, EditAgent, AttestAgent
  <2>6. ~ToPc(s, "failed")
    BY <2>1, EndParts, <1>1 DEF ToPc, SweepTyped
  <2> QED BY <2>2, <2>5, <2>6 DEF List
<1>2. SweepInv /\ [SweepNext]_sweepVars =>
        [\A s \in Sweeps, a \in Swept :
           /\ InPc(s, "list") /\ sw'[s].pc = "orphans" /\ agent[a].status = "active"
           /\ now - agent[a].created > Reattest /\ (agent[a].attested = 0 \/ now - agent[a].attested > Reattest)
           => [by |-> s, about |-> a] \in found']_sw
  BY <1>1 DEF sweepVars
<1> QED BY <1>2, SweepAlwaysSound, PTL DEF SweepSpec, StaleReported

-----------------------------------------------------------------------------
(* Provisioning: what a run did by the step it is at *)

RunRecords ==
  {NotRun} \cup
  [pc : {"register", "refused", "existing", "patch", "cap", "limits", "put", "mint", "ok", "failed"},
   m : ProvisionManifests, begun : {"none", "active", "retired"}, did : SUBSET {"cap", "limits"}]
TokenRecords == [by : Runs, live : BOOLEAN]

ProvisionTyped ==
  /\ run \in [Runs -> RunRecords] /\ tokens \subseteq TokenRecords
  /\ record \in [status : {"none", "active", "retired"},
                owner : {"nobody", "ann"} \cup {m.owner : m \in ProvisionManifests}]

\* A run is past the cap, and past its own declared limits, only with them accepted; it
\* holds a token only at its end.
RunEarned(r) ==
  /\ run[r].pc \in {"limits", "put", "mint", "ok"} => "cap" \in run[r].did
  /\ run[r].pc \in {"mint", "ok"} /\ run[r].m.limits # "none" => "limits" \in run[r].did
  /\ \A t \in tokens : t.by = r => /\ run[r].pc \in {"ok", "failed"} /\ "cap" \in run[r].did
                                   /\ run[r].m.limits # "none" => "limits" \in run[r].did

\* A run that begins on a retired agent never gets past the record, which stays retired.
RetiredStops(r) ==
  run[r].begun = "retired" =>
    /\ record.status = "retired" /\ run[r].did = {}
    /\ run[r].pc \in {"register", "refused", "existing", "patch", "failed"}

ProvisionInv ==
  ProvisionTyped /\ \A r \in Runs :
    /\ run[r].pc = "idle" => \A t \in tokens : t.by # r
    /\ run[r].pc # "idle" => RunEarned(r) /\ RetiredStops(r)

RunSteps == {"register", "refused", "existing", "patch", "cap", "limits", "put", "mint", "ok", "failed"}

\* A run under way has its manifest, what it began on and what it did.
LEMMA RunParts ==
  ASSUME ProvisionTyped, NEW r \in Runs, run[r].pc # "idle"
  PROVE  run[r] \in [pc : RunSteps, m : ProvisionManifests, begun : {"none", "active", "retired"},
                     did : SUBSET {"cap", "limits"}]
BY DEF ProvisionTyped, RunRecords, NotRun, RunSteps

\* A run that goes on to another step stays the same run.
LEMMA RunGoes ==
  ASSUME ProvisionTyped, NEW r \in Runs, run[r].pc # "idle", NEW pc \in RunSteps, OnTo(r, pc)
  PROVE  /\ run' \in [Runs -> RunRecords] /\ \A q \in Runs \ {r} : run'[q] = run[q]
         /\ run'[r].pc = pc /\ run'[r].m = run[r].m /\ run'[r].begun = run[r].begun
         /\ run'[r].did = run[r].did
<1> DEFINE x == [run[r] EXCEPT !.pc = pc]
<1>1. run' = [run EXCEPT ![r] = x] BY DEF OnTo
<1>2. /\ x \in RunRecords /\ x.pc = pc /\ x.m = run[r].m /\ x.begun = run[r].begun /\ x.did = run[r].did
  BY RunParts DEF RunRecords, RunSteps
<1> HIDE DEF x
<1> QED BY <1>1, <1>2 DEF ProvisionTyped

\* Nor does a run change that has one more call accepted.
LEMMA RunDoes ==
  ASSUME ProvisionTyped, NEW r \in Runs, run[r].pc # "idle", NEW pc \in RunSteps,
         NEW what \in {"cap", "limits"}, run' = [run EXCEPT ![r].pc = pc, ![r].did = @ \cup {what}]
  PROVE  /\ run' \in [Runs -> RunRecords] /\ \A q \in Runs \ {r} : run'[q] = run[q]
         /\ run'[r].pc = pc /\ run'[r].m = run[r].m /\ run'[r].begun = run[r].begun
         /\ run'[r].did = run[r].did \cup {what}
<1> DEFINE x == [run[r] EXCEPT !.pc = pc, !.did = @ \cup {what}]
<1>1. run' = [run EXCEPT ![r] = x] OBVIOUS
<1>2. /\ x \in RunRecords /\ x.pc = pc /\ x.m = run[r].m /\ x.begun = run[r].begun
      /\ x.did = run[r].did \cup {what}
  BY RunParts DEF RunRecords, RunSteps
<1> HIDE DEF x
<1> QED BY <1>1, <1>2 DEF ProvisionTyped

\* The runs that do not move keep what they earned, and a retired record keeps them out.
LEMMA OneRunMoves ==
  ASSUME ProvisionInv, ProvisionTyped', NEW r \in Runs, \A q \in Runs \ {r} : run'[q] = run[q],
         \A t \in tokens' : t.by = r \/ \E u \in tokens : u.by = t.by,
         record.status = "retired" => record'.status = "retired",
         run'[r].pc # "idle", RunEarned(r)', RetiredStops(r)'
  PROVE  ProvisionInv'
<1>1. ASSUME NEW q \in Runs \ {r}
      PROVE  /\ run'[q].pc = "idle" => \A t \in tokens' : t.by # q
             /\ run'[q].pc # "idle" => RunEarned(q)' /\ RetiredStops(q)'
  BY DEF ProvisionInv, RunEarned, RetiredStops
<1> QED BY <1>1 DEF ProvisionInv

\* A retired record is final, and each step of a run but its mint earns what the next
\* relies on (provision, steps 1 to 5, and the registry's refusal to edit a retired record).
LEMMA ProvisionKeeps ==
  ASSUME ProvisionInv, [ProvisionNext]_provisionVars
  PROVE  ProvisionInv'
<1> USE DEF RunSteps
<1>0. CASE UNCHANGED provisionVars
  BY <1>0 DEF provisionVars, ProvisionInv, ProvisionTyped, RunEarned, RetiredStops
<1>typed. ProvisionTyped BY DEF ProvisionInv
<1>earned. ASSUME NEW r \in Runs, run[r].pc # "idle" PROVE RunEarned(r) /\ RetiredStops(r)
  BY <1>earned DEF ProvisionInv
<1>1. ASSUME NEW r \in Runs, NEW m \in ProvisionManifests, Provision(r, m) PROVE ProvisionInv'
  <2> DEFINE x == [pc |-> IF m.valid THEN "register" ELSE "refused", m |-> m, begun |-> record.status, did |-> {}]
  <2>1. run' = [run EXCEPT ![r] = x] /\ UNCHANGED <<record, tokens>> /\ run[r].pc = "idle"
    BY <1>1 DEF Provision, AtStep
  <2>2. /\ x \in RunRecords /\ x.pc \in {"register", "refused"} /\ x.begun = record.status /\ x.did = {}
    BY <1>typed DEF ProvisionTyped, RunRecords
  <2> HIDE DEF x
  <2>3. run'[r] = x /\ (\A q \in Runs \ {r} : run'[q] = run[q]) /\ ProvisionTyped'
    BY <1>typed, <2>1, <2>2 DEF ProvisionTyped
  <2>4. \A t \in tokens : t.by # r BY <2>1 DEF ProvisionInv
  <2>5. RunEarned(r)' /\ RetiredStops(r)' BY <2>1, <2>2, <2>3, <2>4 DEF RunEarned, RetiredStops
  <2> QED BY <2>1, <2>2, <2>3, <2>5, OneRunMoves
<1>2. ASSUME NEW r \in Runs, ProvisionRegister(r) PROVE ProvisionInv'
  <2>1. run[r].pc = "register" /\ tokens' = tokens BY <1>2 DEF ProvisionRegister, AtStep
  <2>2. PICK pc \in {"cap", "existing", "failed"} :
          OnTo(r, pc) /\ (pc = "cap" => record.status = "none")
    BY <1>2 DEF ProvisionRegister
  <2>3. record' = record \/ (record.status = "none" /\ record' = Registered(run[r].m))
    BY <1>2 DEF ProvisionRegister
  <2>4. ProvisionTyped' /\ (record.status = "retired" => record'.status = "retired")
        /\ (record.status # "none" => record' = record)
    BY <1>typed, <2>1, RunParts, <2>2, <2>3, RunGoes DEF Registered, ProvisionTyped
  <2>5. /\ \A q \in Runs \ {r} : run'[q] = run[q]
        /\ run'[r].pc = pc /\ run'[r].m = run[r].m /\ run'[r].begun = run[r].begun /\ run'[r].did = run[r].did
    BY <1>typed, <2>1, <2>2, RunGoes
  <2>6. RunEarned(r)' /\ RetiredStops(r)'
    BY <1>earned, <2>1, <2>2, <2>4, <2>5 DEF RunEarned, RetiredStops
  <2> QED BY <2>1, <2>4, <2>5, <2>6, OneRunMoves
<1>3. ASSUME NEW r \in Runs, ReadExisting(r) PROVE ProvisionInv'
  BY <1>3, <1>typed, RunGoes, <1>earned, OneRunMoves DEF ReadExisting, AtStep, StopsRetired, ProvisionTyped,
    RunEarned, RetiredStops
<1>4. ASSUME NEW r \in Runs, Patch(r) PROVE ProvisionInv'
  <2>1. run[r].pc = "patch" /\ tokens' = tokens BY <1>4 DEF Patch, AtStep
  <2>2. PICK pc \in {"cap", "failed"} : OnTo(r, pc) /\ (pc = "cap" => record.status # "retired")
    BY <1>4 DEF Patch, Frozen
  <2>3. record' = record \/ (record.status # "retired" /\ record' = [record EXCEPT !.owner = run[r].m.owner])
    BY <1>4 DEF Patch, Frozen
  <2>4. ProvisionTyped' /\ (record.status = "retired" => record'.status = "retired")
    <3>1. [record EXCEPT !.owner = run[r].m.owner] \in [status : {"none", "active", "retired"},
             owner : {"nobody", "ann"} \cup {m.owner : m \in ProvisionManifests}]
      BY <1>typed, <2>1, RunParts DEF ProvisionTyped
    <3>2. run' \in [Runs -> RunRecords] BY <1>typed, <2>1, <2>2, RunGoes
    <3> QED BY <1>typed, <2>1, <2>3, <3>1, <3>2 DEF ProvisionTyped
  <2>5. /\ \A q \in Runs \ {r} : run'[q] = run[q]
        /\ run'[r].pc = pc /\ run'[r].m = run[r].m /\ run'[r].begun = run[r].begun /\ run'[r].did = run[r].did
    BY <1>typed, <2>1, <2>2, RunGoes
  <2>6. RunEarned(r)' /\ RetiredStops(r)'
    BY <1>earned, <2>1, <2>2, <2>4, <2>5 DEF RunEarned, RetiredStops
  <2> QED BY <2>1, <2>4, <2>5, <2>6, OneRunMoves
<1>5. ASSUME NEW r \in Runs, NEW pc \in RunSteps, OnTo(r, pc), UNCHANGED <<record, tokens>>,
             run[r].pc \in {"cap", "limits", "put", "mint"},
             pc \in {"failed", "put"} \/ (pc = "mint" /\ run[r].m.limits = "none"),
             pc # "failed" => "cap" \in run[r].did
      PROVE  ProvisionInv'
  BY <1>typed, <1>5, RunGoes, <1>earned, OneRunMoves DEF ProvisionTyped, RunEarned, RetiredStops
<1>6. ASSUME NEW r \in Runs, NEW pc \in {"limits", "mint"}, NEW what \in {"cap", "limits"},
             run' = [run EXCEPT ![r].pc = pc, ![r].did = @ \cup {what}], UNCHANGED <<record, tokens>>,
             \/ run[r].pc = "cap" /\ pc = "limits" /\ what = "cap"
             \/ run[r].pc = "put" /\ pc = "mint" /\ what = "limits"
      PROVE  ProvisionInv'
  <2>1. /\ \A q \in Runs \ {r} : run'[q] = run[q]
        /\ run'[r].pc = pc /\ run'[r].m = run[r].m /\ run'[r].begun = run[r].begun
        /\ run'[r].did = run[r].did \cup {what} /\ run' \in [Runs -> RunRecords]
    BY <1>typed, <1>6, RunDoes
  <2>2. ProvisionTyped' BY <1>typed, <1>6, <2>1 DEF ProvisionTyped
  <2>3. RunEarned(r)' /\ RetiredStops(r)'
    BY <1>earned, <1>6, <2>1 DEF RunEarned, RetiredStops
  <2> QED BY <1>6, <2>1, <2>2, <2>3, OneRunMoves
<1>7. ASSUME NEW r \in Runs, Cap(r) PROVE ProvisionInv'
  BY <1>5, <1>6, <1>7 DEF Cap, AtStep
<1>8. ASSUME NEW r \in Runs, ReadLimits(r) PROVE ProvisionInv'
  BY <1>8, <1>earned, <1>5 DEF ReadLimits, AtStep, RunEarned
<1>9. ASSUME NEW r \in Runs, DeclaredLimits(r) PROVE ProvisionInv'
  BY <1>9, <1>earned, <1>5 DEF DeclaredLimits, AtStep, RunEarned
<1>10. ASSUME NEW r \in Runs, PutLimits(r) PROVE ProvisionInv'
  BY <1>5, <1>6, <1>10 DEF PutLimits, AfterLostPut, AtStep
<1>11. ASSUME NEW r \in Runs, ProvisionMint(r) PROVE ProvisionInv'
  <2>1. run[r].pc = "mint" /\ record' = record BY <1>11 DEF ProvisionMint, AtStep
  <2>2. PICK pc \in {"ok", "failed"} : OnTo(r, pc) BY <1>11 DEF ProvisionMint
  <2>3. tokens' = tokens \/ tokens' = tokens \cup {[by |-> r, live |-> TRUE]} BY <1>11 DEF ProvisionMint
  <2>4. /\ \A q \in Runs \ {r} : run'[q] = run[q]
        /\ run'[r].pc = pc /\ run'[r].m = run[r].m /\ run'[r].begun = run[r].begun /\ run'[r].did = run[r].did
        /\ run' \in [Runs -> RunRecords]
    BY <1>typed, <2>1, <2>2, RunGoes
  <2> DEFINE minted == [by |-> r, live |-> TRUE]
  <2>5. tokens' \subseteq TokenRecords
    <3>1. minted \in TokenRecords BY DEF TokenRecords
    <3>2. tokens' = tokens \/ tokens' = tokens \cup {minted} BY <2>3
    <3> HIDE DEF minted
    <3> QED BY <1>typed, <3>1, <3>2 DEF ProvisionTyped
  <2>6. ProvisionTyped' BY <1>typed, <2>1, <2>4, <2>5 DEF ProvisionTyped
  <2>7. RunEarned(r)' /\ RetiredStops(r)'
    BY <1>earned, <2>1, <2>4 DEF RunEarned, RetiredStops
  <2>8. \A t \in tokens' : t.by = r \/ \E u \in tokens : u.by = t.by BY <2>3
  <2> QED BY <2>1, <2>4, <2>6, <2>7, <2>8, OneRunMoves
<1>12. ASSUME UNCHANGED run, record.status = "retired" => record'.status = "retired", ProvisionTyped',
              \A t \in tokens' : \E u \in tokens : u.by = t.by
       PROVE  ProvisionInv'
  BY <1>12 DEF ProvisionInv, RunEarned, RetiredStops
<1>13. CASE RevokeAll
  <2>1. UNCHANGED <<run, record>> /\ tokens' = {[t EXCEPT !.live = FALSE] : t \in tokens} BY <1>13 DEF RevokeAll
  <2>2. \A t \in tokens : [t EXCEPT !.live = FALSE] \in TokenRecords /\ [t EXCEPT !.live = FALSE].by = t.by
    BY <1>typed DEF ProvisionTyped, TokenRecords
  <2>3. \A t \in tokens' : t \in TokenRecords /\ \E u \in tokens : u.by = t.by BY <2>1, <2>2
  <2>4. ProvisionTyped' BY <1>typed, <2>1, <2>3 DEF ProvisionTyped
  <2> QED BY <1>12, <2>1, <2>3, <2>4
<1>14. CASE ProvisionRetire
  BY <1>14, <1>typed, <1>12 DEF ProvisionRetire, ProvisionTyped
<1> QED
  BY <1>0, <1>1, <1>2, <1>3, <1>4, <1>7, <1>8, <1>9, <1>10, <1>11, <1>13, <1>14 DEF ProvisionNext

\* What a run was given is what it went by (ProvisionSafe, over provision's five steps).
LEMMA ProvisionInvSafe == ProvisionInv => ProvisionSafe
<1> SUFFICES ASSUME ProvisionInv PROVE ProvisionSafe OBVIOUS
<1>1. ASSUME NEW r \in Runs, run[r].pc # "idle" PROVE RunEarned(r) /\ RetiredStops(r)
  BY <1>1 DEF ProvisionInv
<1>2. RetiredLeftAlone BY <1>1 DEF RetiredLeftAlone, RunEarned, RetiredStops
<1>3. ASSUME NEW t \in tokens
      PROVE  "cap" \in run[t.by].did /\ (run[t.by].m.limits # "none" => "limits" \in run[t.by].did)
  BY <1>1 DEF ProvisionInv, ProvisionTyped, TokenRecords, RunEarned
<1> QED BY <1>2, <1>3 DEF ProvisionSafe, MintedUnderLimits

\* The runs of a provisioning begin unearned.
LEMMA ProvisionBegins == ProvisionInit => ProvisionInv
BY DEF ProvisionInit, ProvisionTyped, RunRecords, NotRun, NoRecord, ProvisionInv

-----------------------------------------------------------------------------
(* Stages: the records tell of every stage that was left half way *)

RowKinds ==
  {"stage_start", "step_done", "stage_done", "abort", "rollback_step", "rolled_back", "rollback_failed",
   "rollback_ack"}

ControlRecords ==
  {Resting} \cup [at : {"check", "abort", "rolled", "failed"}, stage : Stage]
  \cup [at : {"arm", "row", "back", "backrow"}, stage : Stage, step : Nat]

StagesTyped ==
  /\ word \in [Stage -> RowKinds \cup {"none"}] /\ clean \subseteq Stage /\ place \in [Stage -> {"off", "part", "on"}]
  /\ stageLock \in LiveRuns \cup {Free} /\ ctl \in [LiveRuns -> ControlRecords]
  /\ sleft \in [fault : Int, row : 0..1, ack : Int, run : Int]

\* A stage half way is unresolved in the records, and a clean one is on the estate.
RecordsTell ==
  \A s \in Stage : (place[s] = "part" => Unresolved(s)) /\ (s \in clean => place[s] = "on")

\* A run that arms or rolls back has left a row that says so.  One that could not record its
\* start has touched nothing yet, and its next row is not lost.
Told(s) == Unresolved(s) /\ s \notin clean
RunTold(r) ==
  /\ ctl[r].at \in {"arm", "row", "back", "backrow", "rolled", "failed"} => Told(Here(r))
  /\ ctl[r].at = "abort" => Told(Here(r)) \/ (sleft["row"] = 0 /\ place[Here(r)] # "part")
  /\ ctl[r].at = "arm" => (ctl[r].step = Steps(Here(r)) => place[Here(r)] = "on")
  /\ ctl[r].at = "row" => (ctl[r].step + 1 = Steps(Here(r)) => place[Here(r)] = "on")
  /\ ctl[r].at = "rolled" => place[Here(r)] = "off"

StageInv ==
  /\ StagesTyped /\ RecordsTell
  /\ \A r \in LiveRuns : ctl[r].at # "rest" => stageLock = r /\ RunTold(r)

\* Where a run stands names its stage, and its step while it arms or rolls back.
LEMMA ControlParts ==
  ASSUME StagesTyped, NEW r \in LiveRuns
  PROVE  /\ ctl[r] \in ControlRecords
         /\ ctl[r].at # "rest" => Here(r) \in Stage
         /\ ctl[r].at \in {"arm", "row", "back", "backrow"} =>
              ctl[r] \in [at : {"arm", "row", "back", "backrow"}, stage : Stage, step : Nat]
BY DEF StagesTyped, ControlRecords, Resting, Here

\* The budget of a kind of fault only goes down, and one row may be lost.
LEMMA SpendsOne ==
  ASSUME StagesTyped, NEW kind \in {"fault", "row", "ack", "run"}, SpendStage(kind)
  PROVE  /\ sleft' \in [fault : Int, row : 0..1, ack : Int, run : Int]
         /\ sleft'["row"] = IF kind = "row" THEN 0 ELSE sleft["row"]
         /\ kind = "row" => sleft["row"] = 1
BY DEF StagesTyped, SpendStage

\* A row that is written is the last word on its stage; one that is lost is the only one.
LEMMA RowWritten ==
  ASSUME StagesTyped, NEW s \in Stage, NEW kind \in RowKinds, StageWritten(kind, s)
  PROVE  /\ word' \in [Stage -> RowKinds \cup {"none"}] /\ clean' \subseteq Stage
         /\ word'[s] = kind /\ \A t \in Stage \ {s} : word'[t] = word[t] /\ (t \in clean' <=> t \in clean)
         /\ s \in clean' => kind = "stage_done" \/ (s \in clean /\ kind \in {"step_done", "rollback_step", "rollback_ack"})
<1>1. word' = [word EXCEPT ![s] = kind] BY DEF StageWritten
<1>2. word' \in [Stage -> RowKinds \cup {"none"}] /\ word'[s] = kind /\ \A t \in Stage \ {s} : word'[t] = word[t]
  BY <1>1 DEF StagesTyped
<1>3. CASE kind = "stage_done" BY <1>2, <1>3 DEF StagesTyped, StageWritten, StageClean
<1>4. CASE kind \in {"stage_start", "abort", "rolled_back", "rollback_failed"}
  <2>1. clean' = clean \ {s} BY <1>4 DEF StageWritten, StageClean, StageDirty
  <2> QED BY <1>2, <2>1 DEF StagesTyped
<1>5. CASE kind \in {"step_done", "rollback_step", "rollback_ack"}
  <2>1. clean' = clean BY <1>5 DEF StageWritten, StageClean, StageDirty
  <2> QED BY <1>2, <1>5, <2>1 DEF StagesTyped
<1> QED BY <1>3, <1>4, <1>5 DEF RowKinds

\* A row that is lost leaves the records as they were, and is the only one to be lost.
LEMMA RowRecorded ==
  ASSUME StagesTyped, NEW s \in Stage, NEW kind \in RowKinds, NEW ok \in BOOLEAN, Record(kind, s, ok)
  PROVE  /\ word' \in [Stage -> RowKinds \cup {"none"}] /\ clean' \subseteq Stage
         /\ sleft' \in [fault : Int, row : 0..1, ack : Int, run : Int]
         /\ \A t \in Stage \ {s} : word'[t] = word[t] /\ (t \in clean' <=> t \in clean)
         /\ ok => /\ word'[s] = kind /\ sleft' = sleft
                  /\ s \in clean' => kind = "stage_done" \/ (s \in clean /\ kind \in {"step_done", "rollback_step", "rollback_ack"})
         /\ ~ok => UNCHANGED <<word, clean>> /\ sleft["row"] = 1 /\ sleft'["row"] = 0
BY RowWritten, SpendsOne DEF Record, StagesTyped

\* One run moves, on one stage, and it holds the lock or the lock is free: the others rest.
LEMMA OneRunOneStage ==
  ASSUME StageInv, StagesTyped', NEW r \in LiveRuns, NEW s \in Stage, stageLock \in {r, Free},
         \A q \in LiveRuns \ {r} : ctl'[q] = ctl[q],
         \A t \in Stage \ {s} : word'[t] = word[t] /\ place'[t] = place[t] /\ (t \in clean' => t \in clean),
         place'[s] = "part" => Unresolved(s)', s \in clean' => place'[s] = "on",
         ctl'[r].at # "rest" => stageLock' = r /\ RunTold(r)'
  PROVE  StageInv'
BY StagesConstants DEF StageInv, RecordsTell, Unresolved

\* The records tell of every stage left half way: each run writes that it starts before it
\* touches the estate, and one that could not say so says at once that it aborts (run_stage,
\* _abort_and_rollback).
LEMMA StagesKeep ==
  ASSUME StageInv, [StagesNext]_stagesVars
  PROVE  StageInv'
<1> USE DEF StageAt, StageGoto
<1>typed. StagesTyped BY DEF StageInv
<1>budget. sleft \in [fault : Int, row : 0..1, ack : Int, run : Int] BY <1>typed DEF StagesTyped
<1>0. CASE UNCHANGED stagesVars
  BY <1>0 DEF stagesVars, StageInv, StagesTyped, RecordsTell, Unresolved, RunTold, Told, Here
<1>held. ASSUME NEW r \in LiveRuns, ctl[r].at # "rest"
         PROVE  /\ stageLock = r /\ RunTold(r) /\ Here(r) \in Stage
                /\ (place[Here(r)] = "part" => Unresolved(Here(r))) /\ (Here(r) \in clean => place[Here(r)] = "on")
  BY <1>held, <1>typed, ControlParts DEF StageInv, RecordsTell
<1>unresolved. \A s \in Stage, kind \in RowKinds :
                 word'[s] = kind /\ kind \notin {"stage_done", "rolled_back", "rollback_ack"} => Unresolved(s)'
  BY DEF Unresolved, RowKinds
\* A run that gives the lock back.
<1>rests. ASSUME NEW r \in LiveRuns, ctl' = [ctl EXCEPT ![r] = Resting]
          PROVE  /\ ctl' \in [LiveRuns -> ControlRecords] /\ ctl'[r].at = "rest"
                 /\ \A q \in LiveRuns \ {r} : ctl'[q] = ctl[q]
  BY <1>rests, <1>typed DEF StagesTyped, ControlRecords, Resting
<1>moves. ASSUME NEW r \in LiveRuns, NEW x \in ControlRecords, ctl' = [ctl EXCEPT ![r] = x]
          PROVE  /\ ctl' \in [LiveRuns -> ControlRecords] /\ ctl'[r] = x
                 /\ \A q \in LiveRuns \ {r} : ctl'[q] = ctl[q]
  BY <1>moves, <1>typed DEF StagesTyped
<1>abort. \A s \in Stage : [at |-> "abort", stage |-> s] \in ControlRecords BY DEF ControlRecords
<1>1. ASSUME NEW s \in Stage, AckRollback(s) PROVE StageInv'
  <2>1. /\ place[s] = "part" /\ place' = [place EXCEPT ![s] = "off"]
        /\ UNCHANGED <<stageLock, ctl>> /\ SpendStage("ack") /\ StageWritten("rollback_ack", s)
    BY <1>1 DEF AckRollback
  <2>2. \A r \in LiveRuns : ctl[r].at \in {"rest", "check"} \/ Here(r) # s BY <1>1 DEF AckRollback, Here
  <2>3. s \notin clean BY <2>1 DEF StageInv, RecordsTell
  <2>4. "rollback_ack" \in RowKinds BY DEF RowKinds
  <2>5. /\ word' \in [Stage -> RowKinds \cup {"none"}] /\ clean' \subseteq Stage /\ s \notin clean'
        /\ \A t \in Stage \ {s} : word'[t] = word[t] /\ (t \in clean' <=> t \in clean)
    BY <1>typed, <2>1, <2>3, <2>4, RowWritten
  <2>6. sleft' \in [fault : Int, row : 0..1, ack : Int, run : Int] BY <1>typed, <2>1, SpendsOne
  <2>7. /\ place' \in [Stage -> {"off", "part", "on"}] /\ place'[s] = "off"
        /\ \A t \in Stage \ {s} : place'[t] = place[t]
    BY <1>typed, <2>1 DEF StagesTyped
  <2>8. StagesTyped' BY <1>typed, <2>1, <2>5, <2>6, <2>7 DEF StagesTyped
  <2>9. RecordsTell' BY <2>5, <2>7 DEF StageInv, RecordsTell, Unresolved
  <2>10. sleft'["row"] = sleft["row"] BY <1>typed, <2>1, SpendsOne
  <2>11. ASSUME NEW r \in LiveRuns, ctl'[r].at # "rest" PROVE stageLock' = r /\ RunTold(r)'
    <3>1. ctl[r].at # "rest" /\ ctl'[r] = ctl[r] /\ Here(r)' = Here(r) BY <2>1, <2>11 DEF Here
    <3>2. stageLock = r /\ RunTold(r) /\ Here(r) \in Stage BY <3>1, <1>held
    <3>3. CASE ctl[r].at = "check" BY <2>1, <3>1, <3>2, <3>3 DEF RunTold
    <3>4. CASE Here(r) # s
      <4>1. /\ word'[Here(r)] = word[Here(r)] /\ place'[Here(r)] = place[Here(r)]
            /\ Here(r) \in clean' <=> Here(r) \in clean
        BY <2>5, <2>7, <3>2, <3>4
      <4> QED BY <2>1, <2>10, <3>1, <3>2, <4>1 DEF RunTold, Told, Unresolved
    <3> QED BY <2>2, <3>1, <3>3, <3>4
  <2> QED BY <2>8, <2>9, <2>11 DEF StageInv
<1>2. ASSUME NEW r \in LiveRuns, TakesLock(r) PROVE StageInv'
  <2>1. PICK s \in Stage : ctl' = [ctl EXCEPT ![r] = [at |-> "check", stage |-> s]]
    BY <1>2 DEF TakesLock
  <2>2. [at |-> "check", stage |-> s] \in ControlRecords BY DEF ControlRecords
  <2>3. /\ stageLock = Free /\ stageLock' = r /\ UNCHANGED <<word, clean, place>> /\ SpendStage("run")
    BY <1>2 DEF TakesLock
  <2>4. ctl' \in [LiveRuns -> ControlRecords] /\ ctl'[r].at = "check" /\ \A q \in LiveRuns \ {r} : ctl'[q] = ctl[q]
    BY <1>moves, <2>1, <2>2
  <2>5. StagesTyped' BY <1>typed, <2>3, <2>4, SpendsOne DEF StagesTyped
  <2>6. RunTold(r)' BY <2>4 DEF RunTold
  <2>7. (place'[s] = "part" => Unresolved(s)') /\ (s \in clean' => place'[s] = "on")
    BY <2>3 DEF StageInv, RecordsTell, Unresolved
  <2> QED BY <2>3, <2>4, <2>5, <2>6, <2>7, OneRunOneStage
<1>3. ASSUME NEW r \in LiveRuns, ChecksRecords(r) PROVE StageInv'
  <2> DEFINE s == Here(r)
  <2>1. ctl[r].at = "check" /\ place' = place BY <1>3 DEF ChecksRecords
  <2>2. PICK st \in Stage : st = Here(r) BY <1>held, <2>1
  <2>3. CASE ctl' = [ctl EXCEPT ![r] = Resting] /\ stageLock' = Free /\ UNCHANGED <<word, clean, sleft>>
    <3>1. StagesTyped' BY <1>typed, <1>rests, <2>1, <2>3 DEF StagesTyped
    <3>2. (place'[st] = "part" => Unresolved(st)') /\ (st \in clean' => place'[st] = "on")
      BY <2>1, <2>3 DEF StageInv, RecordsTell, Unresolved
    <3> QED BY <1>held, <1>rests, <2>1, <2>3, <3>1, <3>2, OneRunOneStage
  <2>4. ASSUME NEW ok \in BOOLEAN, Record("stage_start", Here(r), ok), ~Unresolved(Here(r)), stageLock' = stageLock,
               ctl' = [ctl EXCEPT ![r] = IF ok THEN [at |-> "arm", stage |-> Here(r), step |-> 0]
                                         ELSE [at |-> "abort", stage |-> Here(r)]]
        PROVE  StageInv'
    <3> DEFINE x == IF ok THEN [at |-> "arm", stage |-> Here(r), step |-> 0] ELSE [at |-> "abort", stage |-> Here(r)]
    <3>1. x \in ControlRecords BY <2>2 DEF ControlRecords
    <3>2. x.stage = st /\ (ok => x.at = "arm" /\ x.step = 0) /\ (~ok => x.at = "abort") BY <2>2
    <3> HIDE DEF x
    <3>3. ctl' = [ctl EXCEPT ![r] = x] BY <2>4 DEF x
    <3>4. "stage_start" \in RowKinds BY DEF RowKinds
    <3>5. ctl' \in [LiveRuns -> ControlRecords] /\ ctl'[r] = x /\ \A q \in LiveRuns \ {r} : ctl'[q] = ctl[q]
      BY <1>moves, <3>1, <3>3
    <3>6. /\ word' \in [Stage -> RowKinds \cup {"none"}] /\ clean' \subseteq Stage
          /\ sleft' \in [fault : Int, row : 0..1, ack : Int, run : Int]
          /\ \A t \in Stage \ {st} : word'[t] = word[t] /\ (t \in clean' <=> t \in clean)
          /\ ok => word'[st] = "stage_start" /\ st \notin clean'
          /\ ~ok => UNCHANGED <<word, clean>> /\ sleft'["row"] = 0
      BY <1>typed, <2>2, <2>4, <3>4, RowRecorded
    <3>7. StagesTyped' BY <1>typed, <2>1, <2>4, <3>5, <3>6 DEF StagesTyped
    <3>8. place[st] # "part" BY <1>held, <2>1, <2>2, <2>4
    <3>9. ok => Told(st)' BY <1>unresolved, <3>4, <3>6 DEF Told
    <3>10. Steps(st) # 0 BY DEF Steps, Stage
    <3>11. RunTold(r)' BY <2>1, <3>2, <3>5, <3>6, <3>8, <3>9, <3>10 DEF RunTold, Here
    <3>12. (place'[st] = "part" => Unresolved(st)') /\ (st \in clean' => place'[st] = "on")
      BY <1>held, <2>1, <2>2, <3>6, <3>8
    <3> QED BY <1>held, <2>1, <2>4, <3>5, <3>6, <3>7, <3>11, <3>12, OneRunOneStage
  <2> QED BY <1>3, <2>3, <2>4 DEF ChecksRecords, Preconditions
\* A step of a run that leaves the records alone: it may move its stage on the estate.
<1>4. ASSUME NEW r \in LiveRuns, ctl[r].at # "rest", NEW x \in ControlRecords, ctl' = [ctl EXCEPT ![r] = x],
             NEW p \in {"off", "part", "on"}, place' = [place EXCEPT ![Here(r)] = p] \/ (place' = place /\ p = place[Here(r)]),
             sleft' \in [fault : Int, row : 0..1, ack : Int, run : Int], sleft'["row"] = sleft["row"],
             UNCHANGED <<word, clean, stageLock>>,
             p = "part" => Unresolved(Here(r)), Here(r) \in clean => p = "on",
             x.at # "rest" /\ x.stage = Here(r),
             ~(x.at \in {"abort", "check"}) => Told(Here(r)),
             x.at = "abort" => Told(Here(r)) \/ (sleft["row"] = 0 /\ p # "part"),
             x.at = "arm" => (x.step = Steps(Here(r)) => p = "on"),
             x.at = "row" => (x.step + 1 = Steps(Here(r)) => p = "on"),
             x.at = "rolled" => p = "off"
      PROVE  StageInv'
  <2>1. PICK st \in Stage : st = Here(r) BY <1>held, <1>4
  <2>2. ctl' \in [LiveRuns -> ControlRecords] /\ ctl'[r] = x /\ \A q \in LiveRuns \ {r} : ctl'[q] = ctl[q]
    BY <1>moves, <1>4
  <2>3. place' \in [Stage -> {"off", "part", "on"}] /\ place'[st] = p /\ \A t \in Stage \ {st} : place'[t] = place[t]
    BY <1>typed, <1>4, <2>1 DEF StagesTyped
  <2>4. StagesTyped' BY <1>typed, <1>4, <2>2, <2>3 DEF StagesTyped
  <2>5. Told(st)' <=> Told(st) BY <1>4 DEF Told, Unresolved
  <2>6. RunTold(r)' BY <1>4, <2>1, <2>2, <2>3, <2>5 DEF RunTold, Here
  <2>7. (place'[st] = "part" => Unresolved(st)') /\ (st \in clean' => place'[st] = "on")
    BY <1>4, <2>1, <2>3 DEF Unresolved
  <2> QED BY <1>held, <1>4, <2>2, <2>3, <2>4, <2>6, <2>7, OneRunOneStage
\* A step of a run that writes a row about its stage, or loses it, and goes on.
<1>5. ASSUME NEW r \in LiveRuns, ctl[r].at # "rest", NEW x \in ControlRecords, ctl' = [ctl EXCEPT ![r] = x],
             NEW kind \in RowKinds, NEW ok \in BOOLEAN, Record(kind, Here(r), ok), UNCHANGED place,
             ok /\ kind = "stage_done" => place[Here(r)] = "on",
             ok /\ place[Here(r)] = "part" => kind \notin {"stage_done", "rolled_back", "rollback_ack"},
             x.at = "rest" \/ x.stage = Here(r),
             x.at = "rest" => stageLock' = Free, x.at # "rest" => stageLock' = stageLock,
             \/ x.at = "rest"
             \/ /\ x.at \in {"arm", "row", "back", "backrow", "abort"}
                /\ ~ok => Told(Here(r))
                /\ ok => (Told(Here(r)) /\ kind \in {"step_done", "rollback_step"}) \/ kind = "abort",
             x.at = "arm" => (x.step = Steps(Here(r)) => place[Here(r)] = "on"), x.at # "row"
      PROVE  StageInv'
  <2>1. PICK st \in Stage : st = Here(r) BY <1>held, <1>5
  <2>2. ctl' \in [LiveRuns -> ControlRecords] /\ ctl'[r] = x /\ \A q \in LiveRuns \ {r} : ctl'[q] = ctl[q]
    BY <1>moves, <1>5
  <2>3. /\ word' \in [Stage -> RowKinds \cup {"none"}] /\ clean' \subseteq Stage
        /\ sleft' \in [fault : Int, row : 0..1, ack : Int, run : Int]
        /\ \A t \in Stage \ {st} : word'[t] = word[t] /\ (t \in clean' <=> t \in clean)
        /\ ok => /\ word'[st] = kind /\ sleft' = sleft
                 /\ st \in clean' => kind = "stage_done" \/ (st \in clean /\ kind \in {"step_done", "rollback_step", "rollback_ack"})
        /\ ~ok => UNCHANGED <<word, clean>> /\ sleft["row"] = 1 /\ sleft'["row"] = 0
    BY <1>typed, <1>5, <2>1, RowRecorded
  <2>4. stageLock' \in LiveRuns \cup {Free} BY <1>typed, <1>5 DEF StagesTyped
  <2>5. StagesTyped' BY <1>typed, <1>5, <2>2, <2>3, <2>4 DEF StagesTyped
  <2>6. (place'[st] = "part" => Unresolved(st)') /\ (st \in clean' => place'[st] = "on")
    <3>1. CASE ok BY <1>held, <1>5, <1>unresolved, <2>1, <2>3, <3>1
    <3>2. CASE ~ok BY <1>held, <1>5, <2>1, <2>3, <3>2 DEF Unresolved
    <3> QED BY <3>1, <3>2
  <2>7. x.at # "rest" => Told(st)'
    <3>1. CASE ok BY <1>5, <1>unresolved, <2>1, <2>3, <3>1 DEF Told
    <3>2. CASE ~ok BY <1>5, <2>1, <2>3, <3>2 DEF Told, Unresolved
    <3> QED BY <3>1, <3>2
  <2>8. x.at # "rest" => RunTold(r)' BY <1>5, <2>1, <2>2, <2>7 DEF RunTold, Here
  <2> QED BY <1>held, <1>5, <2>2, <2>3, <2>5, <2>6, <2>8, OneRunOneStage
<1>6. ASSUME NEW r \in LiveRuns, ArmStep(r) PROVE StageInv'
  <2>1. /\ ctl[r].at = "arm" /\ ctl[r].step < Steps(Here(r)) /\ Told(Here(r)) /\ UNCHANGED <<word, clean, stageLock>>
        /\ ctl[r] \in [at : {"arm", "row", "back", "backrow"}, stage : Stage, step : Nat]
    BY <1>6, <1>held, <1>typed, ControlParts DEF ArmStep, RunTold
  <2> DEFINE p == IF ctl[r].step + 1 = Steps(Here(r)) THEN "on" ELSE "part"
             x == [ctl[r] EXCEPT !.at = "row"]
  <2>2. CASE place' = [place EXCEPT ![Here(r)] = p] /\ ctl' = [ctl EXCEPT ![r] = x] /\ UNCHANGED sleft
    <3>1. x \in ControlRecords /\ x.at = "row" /\ x.stage = Here(r) /\ x.step = ctl[r].step
      BY <2>1 DEF ControlRecords, Here
    <3>2. p \in {"off", "part", "on"} /\ (x.step + 1 = Steps(Here(r)) => p = "on") BY <3>1
    <3> HIDE DEF p, x
    <3> QED BY <1>4, <1>budget, <2>1, <2>2, <3>1, <3>2 DEF Told
  <2>3. ASSUME SpendStage("fault"), ctl' = [ctl EXCEPT ![r] = [at |-> "abort", stage |-> Here(r)]],
               place' \in {place, [place EXCEPT ![Here(r)] = "part"]}
        PROVE  StageInv'
    <3>1. Here(r) \in Stage /\ place[Here(r)] \in {"off", "part", "on"} BY <1>held, <1>typed, <2>1 DEF StagesTyped
    <3>2. sleft' \in [fault : Int, row : 0..1, ack : Int, run : Int] /\ sleft'["row"] = sleft["row"]
      BY <1>typed, <2>3, SpendsOne
    <3>3. PICK v \in {place[Here(r)], "part"} :
            place' = [place EXCEPT ![Here(r)] = v] \/ (place' = place /\ v = place[Here(r)])
      BY <2>3
    <3> DEFINE y == [at |-> "abort", stage |-> Here(r)]
    <3>4. y \in ControlRecords /\ y.at = "abort" /\ y.stage = Here(r) BY <1>abort, <3>1
    <3>5. ctl' = [ctl EXCEPT ![r] = y] BY <2>3
    <3> HIDE DEF y
    <3> QED BY <1>4, <2>1, <3>1, <3>2, <3>3, <3>4, <3>5 DEF Told
  <2> QED BY <1>6, <2>2, <2>3 DEF ArmStep
\* A run that has told and goes on to its rollback without a row.
<1>7. ASSUME NEW r \in LiveRuns, ctl[r].at \in {"arm", "row"}, SpendStage("fault"),
             ctl' = [ctl EXCEPT ![r] = [at |-> "abort", stage |-> Here(r)]],
             UNCHANGED <<word, clean, place, stageLock>>
      PROVE  StageInv'
  <2>1. Here(r) \in Stage /\ place[Here(r)] \in {"off", "part", "on"} /\ Told(Here(r))
    BY <1>held, <1>typed, <1>7 DEF StagesTyped, RunTold
  <2>2. sleft' \in [fault : Int, row : 0..1, ack : Int, run : Int] /\ sleft'["row"] = sleft["row"]
    BY <1>typed, <1>7, SpendsOne
  <2> DEFINE y == [at |-> "abort", stage |-> Here(r)]
  <2>3. y \in ControlRecords /\ y.at = "abort" /\ y.stage = Here(r) BY <1>abort, <2>1
  <2>4. ctl' = [ctl EXCEPT ![r] = y] BY <1>7
  <2> HIDE DEF y
  <2> QED BY <1>4, <1>7, <2>1, <2>2, <2>3, <2>4 DEF Told
<1>8. ASSUME NEW r \in LiveRuns, StageInterrupted(r) PROVE StageInv'
  BY <1>7, <1>8 DEF StageInterrupted
<1>9. ASSUME NEW r \in LiveRuns, NEW kind \in {"step_done", "stage_done"}, Record(kind, Here(r), FALSE),
             ctl[r].at \in {"arm", "row"}, ctl' = [ctl EXCEPT ![r] = [at |-> "abort", stage |-> Here(r)]],
             UNCHANGED <<place, stageLock>>
      PROVE  StageInv'
  <2>1. Here(r) \in Stage /\ Told(Here(r)) /\ kind \in RowKinds BY <1>held, <1>9 DEF RunTold, RowKinds
  <2> DEFINE y == [at |-> "abort", stage |-> Here(r)]
  <2>2. y \in ControlRecords /\ y.at = "abort" /\ y.stage = Here(r) BY <1>abort, <2>1
  <2>3. ctl' = [ctl EXCEPT ![r] = y] BY <1>9
  <2> HIDE DEF y
  <2> QED BY <1>5, <1>9, <2>1, <2>2, <2>3
<1>10. ASSUME NEW r \in LiveRuns, StepRow(r) PROVE StageInv'
  <2>1. ctl[r].at = "row" /\ UNCHANGED <<place, stageLock>> BY <1>10 DEF StepRow
  <2>2. CASE Record("step_done", Here(r), TRUE) /\ ctl' = [ctl EXCEPT ![r] = [ctl[r] EXCEPT !.at = "arm", !.step = @ + 1]]
    <3> DEFINE x == [ctl[r] EXCEPT !.at = "arm", !.step = @ + 1]
    <3>1. x \in ControlRecords /\ x.at = "arm" /\ x.stage = Here(r) /\ x.step = ctl[r].step + 1
      <4>1. ctl[r] \in [at : {"arm", "row", "back", "backrow"}, stage : Stage, step : Nat]
        BY <1>typed, <2>1, ControlParts
      <4>2. ctl[r].step + 1 \in Nat BY <4>1
      <4> QED BY <4>1, <4>2 DEF ControlRecords, Here
    <3>2. Told(Here(r)) /\ (x.step = Steps(Here(r)) => place[Here(r)] = "on")
      BY <1>held, <2>1, <3>1 DEF RunTold
    <3>3. "step_done" \in RowKinds BY DEF RowKinds
    <3>4. ctl' = [ctl EXCEPT ![r] = x] BY <2>2
    <3> HIDE DEF x
    <3> QED BY <1>5, <2>1, <2>2, <3>1, <3>2, <3>3, <3>4
  <2> QED BY <1>9, <1>10, <2>1, <2>2 DEF StepRow
<1>11. ASSUME NEW r \in LiveRuns, StageDone(r) PROVE StageInv'
  <2>1. ctl[r].at = "arm" /\ ctl[r].step = Steps(Here(r)) /\ place' = place BY <1>11 DEF StageDone
  <2>2. CASE Record("stage_done", Here(r), TRUE) /\ ctl' = [ctl EXCEPT ![r] = Resting] /\ stageLock' = Free
    <3>1. place[Here(r)] = "on" BY <1>held, <2>1 DEF RunTold
    <3>2. Resting \in ControlRecords /\ Resting.at = "rest" BY DEF ControlRecords, Resting
    <3>3. "stage_done" \in RowKinds BY DEF RowKinds
    <3> QED BY <1>5, <2>1, <2>2, <3>1, <3>2, <3>3
  <2> QED BY <1>9, <1>11, <2>1, <2>2 DEF StageDone
<1>12. ASSUME NEW r \in LiveRuns, Abort(r) PROVE StageInv'
  <2>1. ctl[r].at = "abort" /\ UNCHANGED <<place, stageLock>> BY <1>12 DEF Abort
  <2>2. PICK ok \in BOOLEAN : Record("abort", Here(r), ok) BY <1>12 DEF Abort
  <2> DEFINE x == [at |-> "back", stage |-> Here(r), step |-> 0]
  <2>3. x \in ControlRecords /\ x.at = "back" /\ x.stage = Here(r) BY <1>held, <2>1 DEF ControlRecords
  <2>4. ctl' = [ctl EXCEPT ![r] = x] BY <1>12 DEF Abort
  <2> HIDE DEF x
  <2>5. ~ok => Told(Here(r))
    <3>1. Here(r) \in Stage /\ "abort" \in RowKinds BY <1>held, <2>1 DEF RowKinds
    <3>2. ~ok => sleft["row"] = 1 BY <1>typed, <2>2, <3>1, RowRecorded
    <3> QED BY <1>held, <2>1, <3>2 DEF RunTold
  <2>6. "abort" \in RowKinds BY DEF RowKinds
  <2> QED BY <1>5, <2>1, <2>2, <2>3, <2>4, <2>5, <2>6
<1>13. ASSUME NEW r \in LiveRuns, ctl[r].at = "back", SpendStage("fault"), UNCHANGED <<word, clean, stageLock>>,
              ctl' = [ctl EXCEPT ![r] = [at |-> "failed", stage |-> Here(r)]],
              place' = place \/ place' = [place EXCEPT ![Here(r)] = "part"]
       PROVE  StageInv'
  <2>1. Here(r) \in Stage /\ place[Here(r)] \in {"off", "part", "on"} /\ Told(Here(r))
    BY <1>held, <1>typed, <1>13 DEF StagesTyped, RunTold
  <2>2. sleft' \in [fault : Int, row : 0..1, ack : Int, run : Int] /\ sleft'["row"] = sleft["row"]
    BY <1>typed, <1>13, SpendsOne
  <2>3. PICK v \in {place[Here(r)], "part"} :
          place' = [place EXCEPT ![Here(r)] = v] \/ (place' = place /\ v = place[Here(r)])
    BY <1>13
  <2> DEFINE y == [at |-> "failed", stage |-> Here(r)]
  <2>4. y \in ControlRecords /\ y.at = "failed" /\ y.stage = Here(r) BY <2>1 DEF ControlRecords
  <2>5. ctl' = [ctl EXCEPT ![r] = y] BY <1>13
  <2> HIDE DEF y
  <2> QED BY <1>4, <1>13, <2>1, <2>2, <2>3, <2>4, <2>5 DEF Told
<1>14. ASSUME NEW r \in LiveRuns, RollbackStep(r) PROVE StageInv'
  <2>1. ctl[r].at = "back" /\ Told(Here(r)) /\ UNCHANGED <<word, clean, stageLock>>
        /\ place' = [place EXCEPT ![Here(r)] = "part"]
    BY <1>14, <1>held DEF RollbackStep, RunTold
  <2>2. CASE ctl' = [ctl EXCEPT ![r] = [ctl[r] EXCEPT !.at = "backrow"]] /\ UNCHANGED sleft
    <3> DEFINE x == [ctl[r] EXCEPT !.at = "backrow"]
    <3>1. x \in ControlRecords /\ x.at = "backrow" /\ x.stage = Here(r)
      BY <1>typed, <2>1, ControlParts DEF ControlRecords, Here
    <3>2. ctl' = [ctl EXCEPT ![r] = x] BY <2>2
    <3> HIDE DEF x
    <3> QED BY <1>4, <1>budget, <2>1, <2>2, <3>1, <3>2 DEF Told
  <2> QED BY <1>13, <1>14, <2>1, <2>2 DEF RollbackStep
<1>15. ASSUME NEW r \in LiveRuns, RollbackRow(r) PROVE StageInv'
  <2>1. ctl[r].at = "backrow" /\ UNCHANGED <<place, stageLock>> BY <1>15 DEF RollbackRow
  <2>2. PICK ok \in BOOLEAN : Record("rollback_step", Here(r), ok) BY <1>15 DEF RollbackRow
  <2> DEFINE x == [ctl[r] EXCEPT !.at = "back", !.step = @ + 1]
  <2>3. x \in ControlRecords /\ x.at = "back" /\ x.stage = Here(r)
    <3>1. ctl[r] \in [at : {"arm", "row", "back", "backrow"}, stage : Stage, step : Nat]
      BY <1>typed, <2>1, ControlParts
    <3>2. ctl[r].step + 1 \in Nat BY <3>1
    <3> QED BY <3>1, <3>2 DEF ControlRecords, Here
  <2>4. ctl' = [ctl EXCEPT ![r] = x] BY <1>15 DEF RollbackRow
  <2> HIDE DEF x
  <2>5. Told(Here(r)) /\ "rollback_step" \in RowKinds BY <1>held, <2>1 DEF RunTold, RowKinds
  <2> QED BY <1>5, <2>1, <2>2, <2>3, <2>4, <2>5
<1>16. ASSUME NEW r \in LiveRuns, VerifyRollback(r) PROVE StageInv'
  <2>1. ctl[r].at = "back" /\ Told(Here(r)) /\ Here(r) \in Stage /\ UNCHANGED <<word, clean, stageLock>>
    BY <1>16, <1>held DEF VerifyRollback, RunTold
  <2>2. CASE /\ place' = [place EXCEPT ![Here(r)] = "off"] /\ UNCHANGED sleft
             /\ ctl' = [ctl EXCEPT ![r] = [at |-> "rolled", stage |-> Here(r)]]
    <3> DEFINE x == [at |-> "rolled", stage |-> Here(r)]
    <3>1. x \in ControlRecords /\ x.at = "rolled" /\ x.stage = Here(r) BY <2>1 DEF ControlRecords
    <3>2. ctl' = [ctl EXCEPT ![r] = x] BY <2>2
    <3> HIDE DEF x
    <3> QED BY <1>4, <1>budget, <2>1, <2>2, <3>1, <3>2 DEF Told
  <2> QED BY <1>13, <1>16, <2>1, <2>2 DEF VerifyRollback
<1>17. ASSUME NEW r \in LiveRuns, LastRow(r) PROVE StageInv'
  <2>1. ctl[r].at \in {"rolled", "failed"} /\ ctl' = [ctl EXCEPT ![r] = Resting] /\ stageLock' = Free /\ place' = place
    BY <1>17 DEF LastRow
  <2>2. PICK ok \in BOOLEAN, kind \in {"rolled_back", "rollback_failed"} :
          Record(kind, Here(r), ok) /\ (kind = "rolled_back" => ctl[r].at = "rolled")
    BY <1>17 DEF LastRow
  <2>3. Resting \in ControlRecords /\ Resting.at = "rest" BY DEF ControlRecords, Resting
  <2>4. kind \in RowKinds BY <2>2 DEF RowKinds
  <2>5. kind = "rolled_back" => place[Here(r)] = "off" BY <1>held, <2>2 DEF RunTold
  <2> QED BY <1>5, <2>1, <2>2, <2>3, <2>4, <2>5
<1>18. ASSUME NEW r \in LiveRuns, ControllerDies(r) PROVE StageInv'
  <2>1. /\ ctl[r].at # "rest" /\ ctl' = [ctl EXCEPT ![r] = Resting] /\ stageLock' = Free
        /\ UNCHANGED <<word, clean, place>> /\ SpendStage("fault")
    BY <1>18 DEF ControllerDies
  <2>2. StagesTyped' BY <1>typed, <1>rests, <2>1, SpendsOne DEF StagesTyped
  <2>3. PICK st \in Stage : st = Here(r) BY <1>held, <2>1
  <2>4. (place'[st] = "part" => Unresolved(st)') /\ (st \in clean' => place'[st] = "on")
    BY <1>held, <2>1, <2>3 DEF Unresolved
  <2> QED BY <1>held, <1>rests, <2>1, <2>2, <2>4, OneRunOneStage
<1> QED
  BY <1>0, <1>1, <1>2, <1>3, <1>6, <1>8, <1>10, <1>11, <1>12, <1>14, <1>15, <1>16, <1>17, <1>18
  DEF StagesNext

\* The invariant holds of every behaviour of the controller.
THEOREM StagesAlwaysTold == StagesSpec => []StageInv
<1>1. StagesInit => StageInv
  BY StagesConstants DEF StagesInit, StagesTyped, ControlRecords, RecordsTell, Resting, StageInv
<1>2. StageInv /\ [StagesNext]_stagesVars => StageInv' BY StagesKeep
<1> QED BY <1>1, <1>2, PTL DEF StagesSpec

\* No stage begins to arm on one left half way, nor the third before the second is in place
\* (StartsFromSettled, the preconditions of run_stage): for any runs, failures and kills, with
\* one row of the records lost.
THEOREM StagesStartSettled == StagesSpec => StartsFromSettled
<1>1. ASSUME StageInv, StagesNext, NEW r \in LiveRuns, StageAt(r, "check"), ctl'[r].at = "arm"
      PROVE  place[Here(r)] # "part" /\ \A s \in NeedsClean(Here(r)) : place[s] = "on"
  <2>1. ctl[r].at = "check" /\ ctl'[r] # ctl[r] BY <1>1 DEF StageAt
  <2>2. StagesTyped /\ RecordsTell /\ Here(r) \in Stage BY <1>1, <2>1, ControlParts DEF StageInv
  <2>3. ASSUME NEW q \in LiveRuns, NEW x, ctl' = [ctl EXCEPT ![q] = x] PROVE q = r
    BY <2>1, <2>2, <2>3 DEF StagesTyped
  <2>4. ASSUME NEW q \in LiveRuns,
               \/ TakesLock(q) \/ ArmStep(q) \/ StepRow(q) \/ StageDone(q) \/ StageInterrupted(q) \/ Abort(q)
               \/ RollbackStep(q) \/ RollbackRow(q) \/ VerifyRollback(q) \/ LastRow(q)
        PROVE  FALSE
    <3>1. q = r
      BY <2>3, <2>4 DEF TakesLock, ArmStep, StepRow, StageDone, StageInterrupted, Abort, RollbackStep,
                        RollbackRow, VerifyRollback, LastRow, StageGoto
    <3> QED
      BY <2>1, <2>4, <3>1 DEF TakesLock, ArmStep, StepRow, StageDone, StageInterrupted, Abort, RollbackStep,
                              RollbackRow, VerifyRollback, LastRow, StageAt
  <2>5. ~ControllerDies(r) BY <1>1, <2>2 DEF ControllerDies, StageGoto, StagesTyped, Resting
  <2>6. ASSUME NEW q \in LiveRuns, ChecksRecords(q) \/ ControllerDies(q) PROVE q = r
    BY <2>3, <2>6 DEF ChecksRecords, ControllerDies, StageGoto
  <2>7. ChecksRecords(r)
    BY <2>1, <1>1, <2>4, <2>5, <2>6 DEF AckRollback, StagesNext
  <2>8. \E sha \in Builds \cup {NoSha} : Preconditions(Here(r), sha)
    <3>1. ctl' # [ctl EXCEPT ![r] = Resting] BY <1>1, <2>2 DEF StagesTyped, Resting
    <3> QED BY <2>7, <3>1 DEF ChecksRecords, StageGoto
  <2>9. ~Unresolved(Here(r)) /\ NeedsClean(Here(r)) \subseteq clean BY <2>8 DEF Preconditions
  <2>10. clean \subseteq Stage BY <2>2 DEF StagesTyped
  <2> QED BY <2>2, <2>9, <2>10 DEF RecordsTell
<1>2. StageInv /\ [StagesNext]_stagesVars =>
        [\A r \in LiveRuns :
           StageAt(r, "check") /\ ctl'[r].at = "arm"
           => /\ place[Here(r)] # "part"
              /\ \A s \in NeedsClean(Here(r)) : place[s] = "on"]_stagesVars
  BY <1>1
<1> QED BY <1>2, StagesAlwaysTold, PTL DEF StagesSpec, StartsFromSettled

-----------------------------------------------------------------------------
(* Operator authentication (Operators) *)

KeysOf == UNION {AllKeys(d) : d \in Documents}

\* No process forgets a retired key: there are no more keys than its memory holds.
RetiredFit == IsFiniteSet(KeysOf) /\ Cardinality(KeysOf) <= MaxRetired

\* In the files, a service's event type is granted to the service's own row.
OwnPrefixes ==
  \A d \in Documents : \A i \in DOMAIN d.rows, s \in Services :
    ServiceOf[s].type \in d.rows[i].prefixes => d.rows[i].id = ServiceOf[s].id

\* What a process remembers: of the file that rules it, of what that file dropped, and, while
\* that file stays in place, nothing against its keys.
RemembersAs(m, n, lost) ==
  /\ m.gen \in Int /\ m.high \in Int
  /\ m.keys \subseteq KeysOf /\ m.highKeys \subseteq KeysOf /\ DOMAIN m.retired \subseteq KeysOf
  /\ DOMAIN n = {"generation", "keys", "sole", "steady"}
  /\ n.generation = m.high /\ n.keys = m.highKeys
  /\ m.high < 0 => m.highKeys = {}
  /\ lost \subseteq DOMAIN m.retired
  /\ n.steady => m.gen = m.high /\ n.keys \cap DOMAIN m.retired = {}
Memories ==
  /\ operatorDisk \in Documents \cup {Missing}
  /\ DOMAIN memory = Procs /\ DOMAIN newest = Procs /\ DOMAIN gone = Procs
  /\ \A p \in Procs : RemembersAs(memory[p], newest[p], gone[p])

Tallied(t) == t.counted = t.written + t.dropped + t.flight
TallyOk == [refused : Nat, counted : Nat, window : Nat, dropped : Nat, written : Nat, flight : Nat]
Tallies == tally \in [Services -> TallyOk] /\ \A s \in Services : Tallied(tally[s])

\* A request that goes on names who was authenticated for it at its own service.
Attributes ==
  /\ DOMAIN req = Services
  /\ \A s \in Services : req[s].pc = "append" /\ req[s].id # NoHeader => <<s, req[s].id>> \in proved
  /\ AttributionGenuine

OperatorsInv == Memories /\ Tallies /\ Attributes

-----------------------------------------------------------------------------
(* Operators: the files and what is read of them *)

LEMMA ReadableDocument ==
  ASSUME operatorDisk \in Documents \cup {Missing}, NEW enforce \in BOOLEAN, operatorDisk \in Readable[enforce]
  PROVE  operatorDisk \in Documents /\ operatorDisk.generation \in Nat /\ ValidateRows(operatorDisk.rows)
BY OperatorsAssumption DEF Readable, Parses, ParseFormat1, ParseFormat2, OperatorsAssumption

\* What a load adds to the retired keys, before those the file lists are taken off.
Removed(m, d) ==
  (IF m.gen >= 0 /\ d.generation > m.gen THEN m.keys \ AllKeys(d) ELSE {})
    \cup (IF m.high >= 0 /\ d.generation > m.high THEN m.highKeys \ AllKeys(d) ELSE {})
RetiredAfter(m, d) ==
  (DOMAIN m.retired \cup Removed(m, d)) \ (IF d.generation > m.high THEN AllKeys(d) ELSE {})

\* With room for every key, a load forgets none.
LEMMA Learns ==
  ASSUME RetiredFit, NEW d \in Documents, NEW m,
         m.keys \subseteq KeysOf, m.highKeys \subseteq KeysOf, DOMAIN m.retired \subseteq KeysOf
  PROVE  /\ RetiredMemory(m, d).gen = d.generation
         /\ RetiredMemory(m, d).keys = AllKeys(d)
         /\ RetiredMemory(m, d).high = (IF d.generation > m.high THEN d.generation ELSE m.high)
         /\ RetiredMemory(m, d).highKeys = (IF d.generation > m.high THEN AllKeys(d) ELSE m.highKeys)
         /\ DOMAIN RetiredMemory(m, d).retired = RetiredAfter(m, d)
<1> DEFINE present == AllKeys(d)
           removed == (IF m.gen >= 0 /\ d.generation > m.gen THEN m.keys \ present ELSE {})
                      \cup (IF m.high >= 0 /\ d.generation > m.high THEN m.highKeys \ present ELSE {})
           newHigh == d.generation > m.high
           table == [k \in DOMAIN m.retired \cup removed |->
                       MaxOf(IF k \in removed THEN d.generation ELSE 0,
                             IF k \in DOMAIN m.retired THEN m.retired[k] ELSE 0)]
           kept == CHOOSE S \in Kept(table) : TRUE
           stay == IF newHigh THEN kept \ present ELSE kept
           n == RetiredMemory(m, d)
<1>1. n = [gen |-> d.generation, keys |-> present,
           high |-> IF newHigh THEN d.generation ELSE m.high,
           highKeys |-> IF newHigh THEN present ELSE m.highKeys,
           retired |-> [k \in stay |-> table[k]]]
  BY DEF RetiredMemory
<1>2. removed = Removed(m, d) BY DEF Removed
<1>3. DOMAIN table = DOMAIN m.retired \cup Removed(m, d) BY <1>2
<1>4. DOMAIN table \subseteq KeysOf BY <1>3 DEF Removed
<1> HIDE DEF table, n
<1>5. Cardinality(DOMAIN table) <= MaxRetired
  BY <1>4, FS_Subset, FS_CardinalityType, OperatorsAssumption DEF RetiredFit, OperatorsAssumption
<1>6. Kept(table) = {DOMAIN table} BY <1>5 DEF Kept
<1>7. kept = DOMAIN table BY <1>6
<1>8. DOMAIN n.retired = stay BY <1>1
<1>9. stay = RetiredAfter(m, d) BY <1>3, <1>7 DEF RetiredAfter
<1>10. /\ n.gen = d.generation /\ n.keys = AllKeys(d)
       /\ n.high = (IF d.generation > m.high THEN d.generation ELSE m.high)
       /\ n.highKeys = (IF d.generation > m.high THEN AllKeys(d) ELSE m.highKeys)
  BY <1>1
<1> QED BY <1>8, <1>9, <1>10 DEF n

\* The rows a credential proves at a process, and the one it is taken for.
Hits(p, c) ==
  OperatorVerify(c, operatorDisk, Refused(RetiredMemory(memory[p], operatorDisk), operatorDisk), operatorClock)
ProvedRow(p, c) == operatorDisk.rows[CHOOSE i \in Hits(p, c) : TRUE]

LEMMA AuthenticateTells ==
  ASSUME NEW p, NEW c, NEW action,
         \/ Authenticate(p, c, action).id # NoHeader
         \/ Authenticate(p, c, action).scopes # {}
  PROVE  /\ armed[p] # "off" /\ operatorDisk \in Readable[armed[p] = "enforce"] /\ Hits(p, c) # {}
         /\ Authenticate(p, c, action).id = ProvedRow(p, c).id
         /\ Authenticate(p, c, action).scopes = ProvedRow(p, c).scopes
         /\ Authenticate(p, c, action).names = ProvedRow(p, c).names
         /\ Authenticate(p, c, action).prefixes = ProvedRow(p, c).prefixes
         /\ NoHeader \notin {c.op, c.key}
<1> DEFINE a == Authenticate(p, c, action)
           r == ProvedRow(p, c)
           hit == Hits(p, c)
           read == operatorDisk \in Readable[armed[p] = "enforce"]
           given == NoHeader \notin {c.op, c.key}
<1>1. a = CASE armed[p] = "off" -> Nobody("off")
            [] armed[p] # "off" /\ ~given -> Nobody("no_credential")
            [] armed[p] # "off" /\ given /\ ~read -> Nobody("registry_unavailable")
            [] OTHER -> CASE hit = {} -> Nobody("bad_credential")
                          [] hit # {} /\ ~HasScope(r.scopes, action) -> Nobody("scope")
                          [] OTHER -> [id |-> r.id, scopes |-> r.scopes, names |-> r.names,
                                       prefixes |-> r.prefixes, failure |-> "none"]
  BY DEF Authenticate, Hits, ProvedRow
<1>2. \A why : Nobody(why).id = NoHeader /\ Nobody(why).scopes = {} BY DEF Nobody
<1>3. a.id # NoHeader \/ a.scopes # {} OBVIOUS
<1> HIDE DEF a, r, hit, read, given
<1>4. \A why : a # Nobody(why) BY <1>2, <1>3
<1>5. armed[p] # "off" /\ given /\ read BY <1>1, <1>4
<1>6. hit # {} /\ HasScope(r.scopes, action) BY <1>1, <1>4, <1>5
<1>7. a = [id |-> r.id, scopes |-> r.scopes, names |-> r.names, prefixes |-> r.prefixes, failure |-> "none"]
  BY <1>1, <1>5, <1>6
<1>8. a.id = r.id /\ a.scopes = r.scopes /\ a.names = r.names /\ a.prefixes = r.prefixes BY <1>7
<1> QED BY <1>5, <1>6, <1>8 DEF a, r, hit, read, given

LEMMA AuthenticateFinds ==
  ASSUME NEW p, NEW c, NEW action, armed[p] # "off", NoHeader \notin {c.op, c.key},
         operatorDisk \in Readable[armed[p] = "enforce"], Hits(p, c) # {}
  PROVE  Authenticate(p, c, action).failure \in {"none", "scope"}
<1> DEFINE a == Authenticate(p, c, action)
           r == ProvedRow(p, c)
           hit == Hits(p, c)
           read == operatorDisk \in Readable[armed[p] = "enforce"]
           given == NoHeader \notin {c.op, c.key}
<1>1. a = CASE armed[p] = "off" -> Nobody("off")
            [] armed[p] # "off" /\ ~given -> Nobody("no_credential")
            [] armed[p] # "off" /\ given /\ ~read -> Nobody("registry_unavailable")
            [] OTHER -> CASE hit = {} -> Nobody("bad_credential")
                          [] hit # {} /\ ~HasScope(r.scopes, action) -> Nobody("scope")
                          [] OTHER -> [id |-> r.id, scopes |-> r.scopes, names |-> r.names,
                                       prefixes |-> r.prefixes, failure |-> "none"]
  BY DEF Authenticate, Hits, ProvedRow
<1>2. Nobody("scope").failure = "scope" BY DEF Nobody
<1>3. armed[p] # "off" /\ given /\ read /\ hit # {} OBVIOUS
<1> HIDE DEF a, r, hit, read, given
<1>4. a = (IF ~HasScope(r.scopes, action) THEN Nobody("scope")
           ELSE [id |-> r.id, scopes |-> r.scopes, names |-> r.names, prefixes |-> r.prefixes, failure |-> "none"])
  BY <1>1, <1>3
<1>5. a.failure \in {"none", "scope"} BY <1>2, <1>4
<1> QED BY <1>5 DEF a

LEMMA HitTells ==
  ASSUME NEW p, NEW c, Hits(p, c) # {}
  PROVE  \E i \in DOMAIN operatorDisk.rows :
           /\ ProvedRow(p, c) = operatorDisk.rows[i]
           /\ operatorDisk.rows[i].id = c.op /\ operatorDisk.rows[i].status = "active"
           /\ c.key \in AllKeys(operatorDisk)
           /\ c.key \notin Refused(RetiredMemory(memory[p], operatorDisk), operatorDisk)
<1> DEFINE i == CHOOSE i \in Hits(p, c) : TRUE
           refused == Refused(RetiredMemory(memory[p], operatorDisk), operatorDisk)
<1>1. i \in Hits(p, c) OBVIOUS
<1>2. ProvedRow(p, c) = operatorDisk.rows[i] BY DEF ProvedRow
<1> HIDE DEF i, refused
<1>3. /\ i \in DOMAIN operatorDisk.rows /\ operatorDisk.rows[i].id = c.op /\ operatorDisk.rows[i].status = "active"
      /\ KeyMatches(c.key, operatorDisk.rows[i], refused, operatorClock)
  BY <1>1 DEF Hits, OperatorVerify, refused
<1>4. c.key \notin refused /\ c.key \in OperatorKeys(operatorDisk.rows[i]) BY <1>3 DEF KeyMatches, OperatorKeys
<1>5. c.key \in AllKeys(operatorDisk) BY <1>3, <1>4 DEF AllKeys
<1> QED BY <1>2, <1>3, <1>4, <1>5 DEF refused


-----------------------------------------------------------------------------
(* Operators: what the invariant says of the newest file *)

LEMMA RulesWhile == ASSUME RetiredFit, Memories PROVE NewestFileRules
<1> SUFFICES ASSUME NEW p \in Procs, NEW c \in Callers, Authenticated(Authenticate(p, c, "kill"))
      PROVE  /\ c.key \notin gone[p] \ (IF operatorDisk.generation > newest[p].generation THEN AllKeys(operatorDisk) ELSE {})
             /\ operatorDisk.generation < newest[p].generation => c.key \in newest[p].keys
  BY DEF NewestFileRules
<1> DEFINE m == memory[p]
           d == operatorDisk
<1>1. operatorDisk \in Readable[armed[p] = "enforce"] /\ Hits(p, c) # {} BY AuthenticateTells DEF Authenticated
<1>2. d \in Documents /\ d.generation \in Nat
  BY <1>1, ReadableDocument DEF Memories
<1>3. RemembersAs(m, newest[p], gone[p]) BY DEF Memories
<1>4. c.key \in AllKeys(d) /\ c.key \notin Refused(RetiredMemory(m, d), d) BY <1>1, HitTells
<1>5. /\ RetiredMemory(m, d).high = (IF d.generation > m.high THEN d.generation ELSE m.high)
      /\ RetiredMemory(m, d).highKeys = (IF d.generation > m.high THEN AllKeys(d) ELSE m.highKeys)
      /\ DOMAIN RetiredMemory(m, d).retired = RetiredAfter(m, d)
  BY <1>2, <1>3, Learns DEF RemembersAs
<1> HIDE DEF m, d
<1>6. CASE d.generation > m.high
  BY <1>3, <1>6, <1>2, <1>4 DEF RemembersAs, d
<1>7. CASE ~(d.generation > m.high)
  <2>1. ~(d.generation > newest[p].generation) BY <1>3, <1>7 DEF RemembersAs
  <2>2. DOMAIN m.retired \subseteq DOMAIN RetiredMemory(m, d).retired BY <1>5, <1>7 DEF RetiredAfter
  <2>3. c.key \notin gone[p] BY <1>3, <1>4, <2>2 DEF RemembersAs, Refused
  <2>4. ASSUME d.generation < newest[p].generation PROVE c.key \in newest[p].keys
    BY <1>3, <1>5, <1>7, <2>4, <1>4 DEF RemembersAs, Refused
  <2> QED BY <2>3, <2>4 DEF d
<1> QED BY <1>6, <1>7

LEMMA WorksWhile == ASSUME RetiredFit, Memories PROVE NewestFileWorks
<1> SUFFICES ASSUME NEW p \in Procs, operatorDisk.generation > newest[p].generation \/ (IsNewest(p) /\ newest[p].steady),
                    NEW c \in Callers, armed[p] = "enforce", operatorDisk \in Readable[TRUE], Listing(c)
      PROVE  Authenticate(p, c, "kill").failure \in {"none", "scope"}
  BY DEF NewestFileWorks, Honours
<1> DEFINE m == memory[p]
           d == operatorDisk
           refused == Refused(RetiredMemory(m, d), d)
<1>1. d \in Documents /\ d.generation \in Nat BY ReadableDocument DEF Memories
<1>2. RemembersAs(m, newest[p], gone[p]) BY DEF Memories
<1>3. /\ RetiredMemory(m, d).high = (IF d.generation > m.high THEN d.generation ELSE m.high)
      /\ DOMAIN RetiredMemory(m, d).retired = RetiredAfter(m, d)
  BY <1>1, <1>2, Learns DEF RemembersAs
<1>4. PICK i \in DOMAIN d.rows :
        /\ d.rows[i].id = c.op /\ d.rows[i].status = "active" /\ KeyMatches(c.key, d.rows[i], {}, operatorClock)
  BY DEF Listing
<1>5. c.key \in OperatorKeys(d.rows[i]) /\ c.key \in {d.rows[i].key, d.rows[i].next.key}
  BY <1>4 DEF KeyMatches, OperatorKeys
<1>6. NoHeader \notin {c.op, c.key} BY <1>1, <1>4, <1>5, OperatorsAssumption DEF OperatorsAssumption
<1>7. refused = {}
  <2>1. CASE d.generation > m.high
    BY <2>1, <1>1, <1>3 DEF RetiredAfter, Refused
  <2>2. CASE ~(d.generation > m.high)
    BY <1>2, <2>2, <1>1, <1>3 DEF IsNewest, RemembersAs, Removed, RetiredAfter, Refused
  <2> QED BY <2>1, <2>2
<1>8. i \in Hits(p, c) BY <1>4, <1>7 DEF Hits, OperatorVerify, KeyMatches
<1>9. (armed[p] = "enforce") = TRUE OBVIOUS
<1>10. operatorDisk \in Readable[armed[p] = "enforce"] BY <1>9, Zenon
<1> QED BY <1>6, <1>8, <1>10, AuthenticateFinds

\* ListsBind holds of any file that loads: it rests on what the parser refuses.
LEMMA OneName ==
  ASSUME NEW rows, ValidateRows(rows), NEW i \in DOMAIN rows, NEW j \in DOMAIN rows, NEW n,
         rows[i].id = n \/ n \in rows[i].names, rows[j].id = n \/ n \in rows[j].names
  PROVE  rows[i].id = rows[j].id
<1>1. CASE i = j BY <1>1
<1>2. CASE i # j
  BY <1>2 DEF ValidateRows
<1> QED BY <1>1, <1>2

\* Who is authenticated, and as what.
LEMMA AuthenticatedAs ==
  ASSUME Memories, NEW p \in Procs, NEW c, NEW action,
         \/ Authenticate(p, c, action).id # NoHeader
         \/ Authenticate(p, c, action).scopes # {}
  PROVE  \E i \in DOMAIN operatorDisk.rows :
           /\ ValidateRows(operatorDisk.rows)
           /\ operatorDisk.rows[i] = ProvedRow(p, c) /\ operatorDisk.rows[i].status = "active"
           /\ Authenticate(p, c, action).id = c.op /\ operatorDisk.rows[i].id = c.op
           /\ Authenticate(p, c, action).scopes = operatorDisk.rows[i].scopes
           /\ Authenticate(p, c, action).names = operatorDisk.rows[i].names
           /\ Authenticate(p, c, action).prefixes = operatorDisk.rows[i].prefixes
<1> DEFINE a == Authenticate(p, c, action)
<1>1. /\ operatorDisk \in Readable[armed[p] = "enforce"] /\ Hits(p, c) # {}
      /\ a.id = ProvedRow(p, c).id /\ a.scopes = ProvedRow(p, c).scopes
      /\ a.names = ProvedRow(p, c).names /\ a.prefixes = ProvedRow(p, c).prefixes
  BY AuthenticateTells
<1>2. ValidateRows(operatorDisk.rows)
  BY <1>1, ReadableDocument DEF Memories
<1>3. PICK i \in DOMAIN operatorDisk.rows :
        /\ ProvedRow(p, c) = operatorDisk.rows[i]
        /\ operatorDisk.rows[i].id = c.op /\ operatorDisk.rows[i].status = "active"
  BY <1>1, HitTells
<1> HIDE DEF a
<1>4. a.id = c.op /\ a.scopes = operatorDisk.rows[i].scopes /\ a.names = operatorDisk.rows[i].names
      /\ a.prefixes = operatorDisk.rows[i].prefixes
  BY <1>1, <1>3
<1> QED BY <1>2, <1>3, <1>4 DEF a

LEMMA ListsAlwaysBind == ASSUME Memories PROVE ListsBind
<1> SUFFICES ASSUME NEW p \in Procs, armed[p] = "enforce", NEW m \in Manifests
      PROVE LET killer == [c \in Callers |-> Authenticate(p, c, "kill")]
                minter == [c \in Callers |-> Authenticate(p, c, "mint")]
                revoker == [c \in Callers |-> Authenticate(p, c, "revoke")]
                bypass == [c \in Callers |-> HasScope(killer[c].scopes, "bypass_operator_list")]
                killers == {c \in Callers : MayKill(killer[c], m)}
            IN \A c \in Callers :
                /\ (IsList(m) /\ Cardinality(m.names) = 1 /\ c \in killers /\ ~bypass[c]) =>
                      \A d \in killers : ~bypass[d] => d.op = c.op
                /\ (/\ VerifierScopes(killer[c].scopes)
                    /\ \/ c \in killers \/ MayRevoke(revoker[c], m)
                       \/ \E g \in {c.op} \cup killer[c].names : MayMint(minter[c], m, g))
                   => IsList(m) /\ Listed(killer[c], m.names)
                /\ m.kind = "unreadable" => c \notin killers \/ bypass[c]
  BY DEF ListsBind
<1> DEFINE Killer(c) == Authenticate(p, c, "kill")
           Minter(c) == Authenticate(p, c, "mint")
           Revoker(c) == Authenticate(p, c, "revoke")
           Bypasses(c) == HasScope(Killer(c).scopes, "bypass_operator_list")
           Passes(c) == MayKill(Killer(c), m)
<1> HIDE DEF Killer, Minter, Revoker, Bypasses, Passes
<1>1. ASSUME NEW c, Passes(c), ~Bypasses(c)
      PROVE  /\ CheckAuthorized(Killer(c), m.names) /\ m.kind # "unreadable"
             /\ ListBoundId(Killer(c).id) => IsList(m) /\ m.names # {}
  BY <1>1 DEF Passes, Bypasses, MayKill, CheckRecordAuthorized, CheckExplicitlyListed, Authenticated, IsList
<1>2. ASSUME NEW c \in Callers, NEW d \in Callers, IsList(m), Cardinality(m.names) = 1, Passes(c), Passes(d), ~Bypasses(c), ~Bypasses(d)
      PROVE  d.op = c.op
  <2>1. PICK n : m.names = {n}
    <3>1. IsFiniteSet(m.names) BY OperatorsAssumption DEF OperatorsAssumption
    <3> QED BY <1>2, <3>1, FS_Singleton
  <2>2. /\ Authenticated(Killer(c)) /\ (Killer(c).id = n \/ n \in Killer(c).names)
        /\ Authenticated(Killer(d)) /\ (Killer(d).id = n \/ n \in Killer(d).names)
    BY <1>1, <1>2, <2>1 DEF CheckAuthorized, Listed
  <2>3. PICK i \in DOMAIN operatorDisk.rows :
          /\ ValidateRows(operatorDisk.rows) /\ operatorDisk.rows[i].id = c.op
          /\ Killer(c).id = c.op /\ Killer(c).names = operatorDisk.rows[i].names
    BY <2>2, AuthenticatedAs DEF Killer, Authenticated
  <2>4. PICK j \in DOMAIN operatorDisk.rows :
          /\ operatorDisk.rows[j].id = d.op
          /\ Killer(d).id = d.op /\ Killer(d).names = operatorDisk.rows[j].names
    BY <2>2, AuthenticatedAs DEF Killer, Authenticated
  <2> QED BY <2>2, <2>3, <2>4, OneName
<1>3. ASSUME NEW c \in Callers, VerifierScopes(Killer(c).scopes),
             \/ Passes(c) \/ MayRevoke(Revoker(c), m)
             \/ \E g \in {c.op} \cup Killer(c).names : MayMint(Minter(c), m, g)
      PROVE  IsList(m) /\ Listed(Killer(c), m.names)
  <2>1. Killer(c).scopes # {} BY <1>3 DEF VerifierScopes
  <2>2. PICK i \in DOMAIN operatorDisk.rows :
          /\ ValidateRows(operatorDisk.rows) /\ operatorDisk.rows[i] = ProvedRow(p, c)
          /\ operatorDisk.rows[i].status = "active" /\ operatorDisk.rows[i].id = c.op
          /\ Killer(c).id = c.op /\ Killer(c).scopes = operatorDisk.rows[i].scopes
          /\ Killer(c).names = operatorDisk.rows[i].names
    BY <2>1, AuthenticatedAs DEF Killer
  <2>3. ~VerifierUnbound(operatorDisk.rows[i]) /\ ~VerifierBypass(operatorDisk.rows[i]) BY <2>2 DEF ValidateRows
  <2>4. ListBoundId(c.op) /\ "bypass_operator_list" \notin operatorDisk.rows[i].scopes
    BY <1>3, <2>2, <2>3 DEF VerifierUnbound, VerifierBypass
  <2>5. ~HasScope(operatorDisk.rows[i].scopes, "bypass_operator_list") BY <2>4 DEF HasScope, EXPLICIT_ONLY
  <2>6. CASE Passes(c)
    <3>1. ~Bypasses(c) BY <2>2, <2>5 DEF Bypasses
    <3> QED BY <1>1, <2>2, <2>4, <2>6, <3>1 DEF CheckAuthorized
  <2>7. ASSUME NEW a, Authenticated(a), CheckListBoundReach(a, m), a.id = c.op, a.names = Killer(c).names,
               a.scopes = operatorDisk.rows[i].scopes
        PROVE  IsList(m) /\ Listed(Killer(c), m.names)
    BY <2>4, <2>5, <2>7, <2>2 DEF CheckListBoundReach, CheckExplicitlyListed, CheckAuthorized, Listed
  <2>8. CASE MayRevoke(Revoker(c), m)
    BY <2>8, AuthenticatedAs, <2>2, <2>7 DEF MayRevoke, Revoker, Authenticated
  <2>9. CASE \E g \in {c.op} \cup Killer(c).names : MayMint(Minter(c), m, g)
    BY <2>9, AuthenticatedAs, <2>2, <2>7 DEF MayMint, Minter, Authenticated
  <2> QED BY <1>3, <2>6, <2>8, <2>9
<1>4. ASSUME NEW c, m.kind = "unreadable", Passes(c) PROVE Bypasses(c) BY <1>1, <1>4
<1> QED BY <1>2, <1>3, <1>4 DEF Killer, Minter, Revoker, Bypasses, Passes


-----------------------------------------------------------------------------
(* Operators: the steps *)

LEMMA OperatorsBegin == OperatorsInit => OperatorsInv
<1> SUFFICES ASSUME OperatorsInit PROVE OperatorsInv OBVIOUS
<1>1. Memories
  <2> SUFFICES ASSUME NEW p \in Procs PROVE RemembersAs(memory[p], newest[p], gone[p])
    BY DEF Memories, OperatorsInit
  <2>1. memory[p] = NoMemory /\ newest[p] = Unloaded /\ gone[p] = {} BY DEF OperatorsInit
  <2> QED BY <2>1 DEF RemembersAs, NoMemory, Unloaded
<1>2. NoTally \in TallyOk /\ Tallied(NoTally) BY DEF NoTally, TallyOk, Tallied
<1>3. Tallies BY <1>2 DEF Tallies, OperatorsInit
<1>4. Attributes BY DEF Attributes, AttributionGenuine, OperatorsInit, NoReq
<1> QED BY <1>1, <1>3, <1>4 DEF OperatorsInv

\* A load teaches the process that reads; it is the same for every way of reading.
LEMMA LoadKeeps ==
  ASSUME RetiredFit, Memories, NEW p \in Procs, NEW enforce \in BOOLEAN, operatorDisk \in Readable[enforce], Load(p),
         UNCHANGED operatorDisk
  PROVE  Memories'
<1> DEFINE d == operatorDisk
           m == memory[p]
           n == newest[p]
           higher == d.generation > n.generation
           after == RetiredMemory(m, d)
<1>1. d \in Documents /\ d.generation \in Nat BY ReadableDocument DEF Memories
<1>2. /\ DOMAIN memory = Procs /\ DOMAIN newest = Procs /\ DOMAIN gone = Procs
      /\ operatorDisk \in Documents \cup {Missing} /\ \A q \in Procs : RemembersAs(memory[q], newest[q], gone[q])
  BY DEF Memories
<1>3. memory' = [memory EXCEPT ![p] = after] BY DEF Load
<1>4. CASE higher
  <2>1. /\ newest' = [newest EXCEPT ![p] = [generation |-> d.generation, keys |-> AllKeys(d), sole |-> TRUE, steady |-> TRUE]]
        /\ gone' = [gone EXCEPT ![p] = (gone[p] \cup n.keys) \ AllKeys(d)]
    BY <1>4 DEF Load
  <2>2. /\ after.gen = d.generation /\ after.keys = AllKeys(d)
        /\ after.high = (IF d.generation > m.high THEN d.generation ELSE m.high)
        /\ after.highKeys = (IF d.generation > m.high THEN AllKeys(d) ELSE m.highKeys)
        /\ DOMAIN after.retired = RetiredAfter(m, d)
    BY <1>1, <1>2, Learns DEF RemembersAs
  <2>3. RemembersAs(m, n, gone[p]) BY <1>2
  <2>4. /\ newest'[p].generation = d.generation /\ newest'[p].keys = AllKeys(d)
        /\ DOMAIN newest'[p] = {"generation", "keys", "sole", "steady"}
        /\ gone'[p] = (gone[p] \cup n.keys) \ AllKeys(d) /\ memory'[p] = after
    BY <1>2, <1>3, <2>1
  <2>5. AllKeys(d) \subseteq KeysOf BY <1>1 DEF KeysOf
  <2>6. d.generation > m.high BY <1>4, <2>3 DEF RemembersAs
  <2> HIDE DEF d, m, n, after
  <2>7. RetiredAfter(m, d) \subseteq KeysOf BY <2>3 DEF RetiredAfter, Removed, RemembersAs
  <2>8. (gone[p] \cup n.keys) \ AllKeys(d) \subseteq RetiredAfter(m, d)
    BY <2>3, <2>6 DEF RetiredAfter, Removed, RemembersAs
  <2>9. AllKeys(d) \cap RetiredAfter(m, d) = {} BY <2>6 DEF RetiredAfter
  <2>10. RemembersAs(memory'[p], newest'[p], gone'[p])
    BY <1>1, <2>2, <2>3, <2>4, <2>5, <2>6, <2>7, <2>8, <2>9 DEF RemembersAs
  <2>11. \A q \in Procs \ {p} : memory'[q] = memory[q] /\ newest'[q] = newest[q] /\ gone'[q] = gone[q]
    BY <1>2, <1>3, <2>1
  <2>12. DOMAIN memory' = Procs /\ DOMAIN newest' = Procs /\ DOMAIN gone' = Procs BY <1>2, <1>3, <2>1
  <2>13. \A q \in Procs : RemembersAs(memory'[q], newest'[q], gone'[q]) BY <1>2, <2>10, <2>11
  <2> QED BY <1>2, <2>12, <2>13 DEF Memories, RemembersAs
<1>5. CASE ~higher
  <2>1. /\ newest' = [newest EXCEPT
               ![p].sole = @ /\ (d.generation = n.generation => AllKeys(d) = n.keys),
               ![p].steady = @ /\ d.generation = n.generation /\ AllKeys(d) = n.keys]
        /\ gone' = gone
    BY <1>5 DEF Load
  <2>2. /\ after.gen = d.generation /\ after.keys = AllKeys(d)
        /\ after.high = (IF d.generation > m.high THEN d.generation ELSE m.high)
        /\ after.highKeys = (IF d.generation > m.high THEN AllKeys(d) ELSE m.highKeys)
        /\ DOMAIN after.retired = RetiredAfter(m, d)
    BY <1>1, <1>2, Learns DEF RemembersAs
  <2>3. RemembersAs(m, n, gone[p]) BY <1>2
  <2>15. DOMAIN n = {"generation", "keys", "sole", "steady"} BY <2>3 DEF RemembersAs
  <2>16. newest'[p] = [n EXCEPT !.sole = n.sole /\ (d.generation = n.generation => AllKeys(d) = n.keys),
                                !.steady = n.steady /\ d.generation = n.generation /\ AllKeys(d) = n.keys]
    BY <1>2, <2>1, Zenon
  <2> HIDE DEF d, n, after
  <2>17. /\ newest'[p].generation = n.generation /\ newest'[p].keys = n.keys
         /\ DOMAIN newest'[p] = {"generation", "keys", "sole", "steady"}
         /\ newest'[p].steady => n.steady /\ d.generation = n.generation /\ AllKeys(d) = n.keys
    BY <2>15, <2>16
  <2> USE DEF d, n, after
  <2>4. /\ newest'[p].generation = n.generation /\ newest'[p].keys = n.keys
        /\ DOMAIN newest'[p] = {"generation", "keys", "sole", "steady"}
        /\ newest'[p].steady => n.steady /\ d.generation = n.generation /\ AllKeys(d) = n.keys
        /\ memory'[p] = after
    BY <1>2, <1>3, <2>17
  <2>5. AllKeys(d) \subseteq KeysOf BY <1>1 DEF KeysOf
  <2>6. ~(d.generation > m.high) BY <1>5, <2>3 DEF RemembersAs
  <2> HIDE DEF d, m, n, after
  <2>7. RetiredAfter(m, d) \subseteq KeysOf /\ DOMAIN m.retired \subseteq RetiredAfter(m, d)
    BY <2>3, <2>6 DEF RetiredAfter, Removed, RemembersAs
  <2>9. n.steady /\ d.generation = n.generation /\ AllKeys(d) = n.keys => AllKeys(d) \cap RetiredAfter(m, d) = {}
    BY <1>1, <2>3, <2>6 DEF RetiredAfter, Removed, RemembersAs
  <2>14. after.gen \in Int /\ after.high = m.high /\ after.highKeys = m.highKeys BY <1>1, <2>2, <2>6
  <2>10. RemembersAs(memory'[p], newest'[p], gone'[p])
    BY <2>1, <2>2, <2>3, <2>4, <2>5, <2>7, <2>9, <2>14 DEF RemembersAs
  <2>11. \A q \in Procs \ {p} : memory'[q] = memory[q] /\ newest'[q] = newest[q] /\ gone'[q] = gone[q]
    BY <1>2, <1>3, <2>1
  <2>12. DOMAIN memory' = Procs /\ DOMAIN newest' = Procs /\ DOMAIN gone' = Procs BY <1>2, <1>3, <2>1
  <2>13. \A q \in Procs : RemembersAs(memory'[q], newest'[q], gone'[q]) BY <1>2, <2>10, <2>11
  <2> QED BY <1>2, <2>12, <2>13 DEF Memories, RemembersAs
<1> QED BY <1>4, <1>5

LEMMA LoadsKeep ==
  ASSUME RetiredFit, Memories, NEW p \in Procs, NEW c, Loads(p, c), Load(p), UNCHANGED operatorDisk
  PROVE  Memories'
BY LoadKeeps DEF Loads

LEMMA MemoriesStay == ASSUME Memories, UNCHANGED <<operatorDisk, memory, newest, gone>> PROVE Memories'
  BY DEF Memories, RemembersAs

LEMMA AttributesStay == ASSUME Attributes, UNCHANGED <<req, trail, proved>> PROVE Attributes'
  BY DEF Attributes, AttributionGenuine

\* Each refusal goes into one of the three counts.
LEMMA Admits ==
  ASSUME NEW t \in TallyOk, Tallied(t), NEW enforce \in BOOLEAN
  PROVE  Admitted(t, enforce) \in TallyOk /\ Tallied(Admitted(t, enforce))
<1> DEFINE n == [t EXCEPT !.refused = @ + 1]
           written == [n EXCEPT !.counted = @ + 1, !.window = @ + 1, !.flight = @ + 1]
           capped == [n EXCEPT !.counted = @ + 1, !.dropped = @ + 1]
           slotless == [n EXCEPT !.counted = @ + 1, !.window = @ + 1, !.dropped = @ + 1]
<1>1. n \in TallyOk /\ Tallied(n) BY DEF TallyOk, Tallied
<1> HIDE DEF n
<1>6. /\ n.counted \in Nat /\ n.window \in Nat /\ n.flight \in Nat /\ n.dropped \in Nat /\ n.written \in Nat
      /\ n.counted = n.written + n.dropped + n.flight
  BY <1>1 DEF TallyOk, Tallied
<1>2. written \in TallyOk /\ Tallied(written)
  <2>3. /\ n.counted + 1 \in Nat /\ n.window + 1 \in Nat /\ n.flight + 1 \in Nat /\ n.dropped + 1 \in Nat BY <1>6
  <2>1. written \in TallyOk BY <1>1, <2>3 DEF TallyOk
  <2>2. /\ written.counted = n.counted + 1 /\ written.flight = n.flight + 1
        /\ written.dropped = n.dropped /\ written.written = n.written
    BY <1>1 DEF TallyOk
  <2> HIDE DEF written
  <2> QED BY <1>6, <2>1, <2>2 DEF Tallied
<1>3. capped \in TallyOk /\ Tallied(capped)
  <2>3. /\ n.counted + 1 \in Nat /\ n.window + 1 \in Nat /\ n.flight + 1 \in Nat /\ n.dropped + 1 \in Nat BY <1>6
  <2>1. capped \in TallyOk BY <1>1, <2>3 DEF TallyOk
  <2>2. /\ capped.counted = n.counted + 1 /\ capped.flight = n.flight
        /\ capped.dropped = n.dropped + 1 /\ capped.written = n.written
    BY <1>1 DEF TallyOk
  <2> HIDE DEF capped
  <2> QED BY <1>6, <2>1, <2>2 DEF Tallied
<1>4. slotless \in TallyOk /\ Tallied(slotless)
  <2>3. /\ n.counted + 1 \in Nat /\ n.window + 1 \in Nat /\ n.flight + 1 \in Nat /\ n.dropped + 1 \in Nat BY <1>6
  <2>1. slotless \in TallyOk BY <1>1, <2>3 DEF TallyOk
  <2>2. /\ slotless.counted = n.counted + 1 /\ slotless.flight = n.flight
        /\ slotless.dropped = n.dropped + 1 /\ slotless.written = n.written
    BY <1>1 DEF TallyOk
  <2> HIDE DEF slotless
  <2> QED BY <1>6, <2>1, <2>2 DEF Tallied
<1>5. Admitted(t, enforce) \in {n, written, capped, slotless}
  <2>1. Admitted(t, enforce) =
          CASE ~enforce -> n
            [] enforce /\ t.window >= RecordWindow -> capped
            [] enforce /\ t.window < RecordWindow /\ t.flight >= RecordSlots -> slotless
            [] OTHER -> written
    BY DEF Admitted, n
  <2> HIDE DEF written, capped, slotless
  <2> QED BY <2>1
<1> HIDE DEF written, capped, slotless
<1> QED BY <1>1, <1>2, <1>3, <1>4, <1>5

LEMMA TallyMoves ==
  ASSUME Tallies, NEW s \in Services, NEW t \in TallyOk, Tallied(t), tally' = [tally EXCEPT ![s] = t]
  PROVE  Tallies'
BY DEF Tallies, Tallied

LEMMA GuardKeeps ==
  ASSUME RetiredFit, OperatorsInv, NEW s \in Services, NEW c, Guard(s, c)
  PROVE  OperatorsInv'
<1> DEFINE a == Authenticate(s, c, "kill")
           refuse == armed[s] = "enforce" /\ ~Authenticated(a)
<1>1. /\ IF Loads(s, c) THEN Load(s) ELSE UNCHANGED <<memory, newest, gone>>
      /\ tally' = (IF refuse THEN [tally EXCEPT ![s] = Admitted(tally[s], TRUE)] ELSE tally)
      /\ req' = (IF refuse THEN req ELSE [req EXCEPT ![s] = [pc |-> "append", id |-> a.id]])
      /\ proved' = (IF Authenticated(a) THEN proved \cup {<<s, a.id>>} ELSE proved)
      /\ UNCHANGED <<operatorDisk, trail>>
  BY DEF Guard
<1>2. s \in Procs BY OperatorsAssumption DEF OperatorsAssumption
<1>3. Memories' BY <1>1, <1>2, LoadsKeep, MemoriesStay DEF OperatorsInv
<1> HIDE DEF a
<1>4. Tallies'
  BY Admits, <1>1, TallyMoves DEF OperatorsInv, Tallies, Tallied
<1>5. Attributes'
  <2>1. proved \subseteq proved' BY <1>1
  <2>2. AttributionGenuine' BY <1>1, <2>1 DEF OperatorsInv, Attributes, AttributionGenuine
  <2>3. DOMAIN req' = Services BY <1>1 DEF OperatorsInv, Attributes
  <2>4. ASSUME NEW z \in Services, req'[z].pc = "append", req'[z].id # NoHeader PROVE <<z, req'[z].id>> \in proved'
    <3>1. CASE req'[z] = req[z] BY <2>1, <2>4, <3>1 DEF OperatorsInv, Attributes
    <3>2. CASE req'[z] # req[z]
      BY <1>1, <3>2, <2>4 DEF OperatorsInv, Attributes, Authenticated
    <3> QED BY <3>1, <3>2
  <2> QED BY <2>2, <2>3, <2>4 DEF Attributes
<1> QED BY <1>3, <1>4, <1>5 DEF OperatorsInv

LEMMA GuardMalformedKeeps == ASSUME OperatorsInv, NEW s \in Services, GuardMalformed(s) PROVE OperatorsInv'
<1>1. /\ tally' = [tally EXCEPT ![s] = Admitted(tally[s], armed[s] = "enforce")]
      /\ UNCHANGED <<operatorDisk, memory, newest, gone, req, trail, proved>>
  BY DEF GuardMalformed
<1>2. tally[s] \in TallyOk /\ Tallied(tally[s]) BY DEF OperatorsInv, Tallies
<1>3. (armed[s] = "enforce") \in BOOLEAN OBVIOUS
<1> DEFINE t == Admitted(tally[s], armed[s] = "enforce")
<1>4. t \in TallyOk /\ Tallied(t) BY <1>2, <1>3, Admits
<1> HIDE DEF t
<1>5. Tallies' BY <1>1, <1>4, TallyMoves DEF OperatorsInv, t
<1> QED BY <1>1, <1>5, MemoriesStay, AttributesStay DEF OperatorsInv

LEMMA RecordEndsKeeps == ASSUME OperatorsInv, NEW s \in Services, NEW ok \in BOOLEAN, RecordEnds(s, ok) PROVE OperatorsInv'
<1>1. UNCHANGED <<operatorDisk, memory, newest, gone, req, trail, proved>> /\ tally[s].flight > 0 BY DEF RecordEnds
<1>2. tally[s] \in TallyOk /\ Tallied(tally[s]) /\ tally \in [Services -> TallyOk] BY DEF OperatorsInv, Tallies
<1> DEFINE t == [tally[s] EXCEPT !.flight = tally[s].flight - 1,
                                 !.written = IF ok THEN tally[s].written + 1 ELSE tally[s].written,
                                 !.dropped = IF ok THEN tally[s].dropped ELSE tally[s].dropped + 1]
<1>3. t \in TallyOk /\ Tallied(t)
  <2>1. /\ tally[s].counted \in Nat /\ tally[s].flight \in Nat /\ tally[s].dropped \in Nat /\ tally[s].written \in Nat
        /\ tally[s].counted = tally[s].written + tally[s].dropped + tally[s].flight
    BY <1>2 DEF TallyOk, Tallied
  <2>4. tally[s].flight - 1 \in Nat BY <1>1, <2>1
  <2>5. (IF ok THEN tally[s].written + 1 ELSE tally[s].written) \in Nat BY <2>1
  <2>6. (IF ok THEN tally[s].dropped ELSE tally[s].dropped + 1) \in Nat BY <2>1
  <2>2. t \in TallyOk BY <1>2, <2>4, <2>5, <2>6 DEF TallyOk
  <2>3. /\ t.counted = tally[s].counted /\ t.flight = tally[s].flight - 1
        /\ t.written = (IF ok THEN tally[s].written + 1 ELSE tally[s].written)
        /\ t.dropped = (IF ok THEN tally[s].dropped ELSE tally[s].dropped + 1)
    BY <1>2 DEF TallyOk
  <2> HIDE DEF t
  <2>7. CASE ok BY <2>1, <2>2, <2>3, <2>7 DEF Tallied
  <2>8. CASE ~ok BY <2>1, <2>2, <2>3, <2>8 DEF Tallied
  <2> QED BY <2>7, <2>8
<1>4. tally' = [tally EXCEPT ![s] = t] BY <1>2 DEF RecordEnds, TallyOk
<1> HIDE DEF t
<1>5. Tallies' BY <1>3, <1>4, TallyMoves DEF OperatorsInv
<1> QED BY <1>1, <1>5, MemoriesStay, AttributesStay DEF OperatorsInv

\* A POST to the ledger writes a row for its caller's reach, or none.
LEMMA PostKeepsMemories ==
  ASSUME RetiredFit, Memories, NEW c, NEW type, NEW id, OperatorPost(c, type, id), UNCHANGED operatorDisk
  PROVE  Memories'
BY OperatorsAssumption, LoadsKeep, MemoriesStay DEF OperatorPost, OperatorsAssumption

LEMMA PostWrites ==
  ASSUME NEW c, NEW type, NEW id, OperatorPost(c, type, id)
  PROVE  \/ trail' = trail
         \/ /\ trail' = trail \cup {<<type, id>>} /\ id # NoHeader
            /\ Authenticated(Authenticate("ledger", c, "ledger_attribute"))
            /\ type \in Authenticate("ledger", c, "ledger_attribute").prefixes
<1> DEFINE a == Authenticate("ledger", c, "ledger_attribute")
<1>1. trail' = AdmitLedgerEvent(a, type, id) BY DEF OperatorPost
<1> HIDE DEF a
<1>2. CASE armed["ledger"] = "off" \/ id = NoHeader BY <1>1, <1>2 DEF AdmitLedgerEvent
<1>3. CASE ~(armed["ledger"] = "off" \/ id = NoHeader) BY <1>1, <1>3 DEF AdmitLedgerEvent, a
<1> QED BY <1>2, <1>3

LEMMA ServiceAppendKeeps ==
  ASSUME RetiredFit, OperatorsInv, NEW s \in Services, ServiceAppend(s)
  PROVE  OperatorsInv'
<1> DEFINE c == [op |-> ServiceOf[s].id, key |-> ServiceOf[s].key]
           id == IF armed[s] = "off" THEN NoHeader ELSE req[s].id
<1>1. /\ req[s].pc = "append" /\ OperatorPost(c, ServiceOf[s].type, id) /\ req' = [req EXCEPT ![s] = NoReq]
      /\ UNCHANGED <<operatorDisk, tally, proved>>
  BY DEF ServiceAppend
<1> HIDE DEF c
<1>2. Memories' BY <1>1, PostKeepsMemories DEF OperatorsInv
<1>3. Tallies' BY <1>1 DEF OperatorsInv, Tallies, Tallied
<1>4. trail' = trail \/ (trail' = trail \cup {<<ServiceOf[s].type, id>>} /\ id # NoHeader)
  BY <1>1, PostWrites
<1>5. AttributionGenuine'
  <2> SUFFICES ASSUME NEW e \in trail' PROVE \E z \in Services : ServiceOf[z].type = e[1] /\ <<z, e[2]>> \in proved'
    BY DEF AttributionGenuine
  <2>1. CASE e \in trail BY <1>1, <2>1 DEF OperatorsInv, Attributes, AttributionGenuine
  <2>2. CASE e \notin trail
    <3>1. e = <<ServiceOf[s].type, id>> /\ id # NoHeader BY <1>4, <2>2
    <3>2. id = req[s].id BY <3>1
    <3>3. <<s, id>> \in proved BY <1>1, <3>1, <3>2 DEF OperatorsInv, Attributes
    <3> HIDE DEF id
    <3> QED BY <1>1, <3>1, <3>3
  <2> QED BY <2>1, <2>2
<1>6. Attributes' BY <1>1, <1>5 DEF OperatorsInv, Attributes, NoReq
<1> QED BY <1>2, <1>3, <1>6 DEF OperatorsInv

LEMMA PostClaimKeeps ==
  ASSUME RetiredFit, OwnPrefixes, OperatorsInv, NEW c, NEW s \in Services, NEW id, PostClaim(c, s, id)
  PROVE  OperatorsInv'
<1>1. /\ c.op # ServiceOf[s].id /\ OperatorPost(c, ServiceOf[s].type, id)
      /\ UNCHANGED <<operatorDisk, req, tally, proved>>
  BY DEF PostClaim
<1>2. Memories' BY <1>1, PostKeepsMemories DEF OperatorsInv
<1>3. Tallies' BY <1>1 DEF OperatorsInv, Tallies, Tallied
<1>4. trail' = trail
  <2> DEFINE a == Authenticate("ledger", c, "ledger_attribute")
  <2> SUFFICES ASSUME Authenticated(a), ServiceOf[s].type \in a.prefixes PROVE FALSE BY <1>1, PostWrites
  <2>1. "ledger" \in Procs BY OperatorsAssumption DEF OperatorsAssumption
  <2>2. PICK i \in DOMAIN operatorDisk.rows :
          operatorDisk.rows[i].id = c.op /\ a.prefixes = operatorDisk.rows[i].prefixes
    BY <2>1, AuthenticatedAs DEF OperatorsInv, Authenticated
  <2>3. operatorDisk \in Documents
    BY AuthenticateTells, ReadableDocument DEF Authenticated, OperatorsInv, Memories
  <2> HIDE DEF a
  <2> QED BY <1>1, <2>2, <2>3 DEF OwnPrefixes
<1>5. Attributes' BY <1>1, <1>4, AttributesStay DEF OperatorsInv
<1> QED BY <1>2, <1>3, <1>5 DEF OperatorsInv

LEMMA VerifyHashKeeps ==
  ASSUME RetiredFit, OperatorsInv, NEW p \in Procs, NEW op, VerifyHash(p, op)
  PROVE  OperatorsInv'
BY LoadKeeps, MemoriesStay, AttributesStay DEF VerifyHash, OperatorsInv, Tallies, Tallied

LEMMA ProcRestartKeeps ==
  ASSUME OperatorsInv, NEW p \in Procs, NEW started, ProcRestart(p, started)
  PROVE  OperatorsInv'
<1>1. /\ memory' = [memory EXCEPT ![p] = NoMemory] /\ newest' = [newest EXCEPT ![p] = Unloaded]
      /\ gone' = [gone EXCEPT ![p] = {}]
      /\ req' = [s \in Services |-> IF s = p THEN NoReq ELSE req[s]]
      /\ tally' = [s \in Services |-> IF s = p THEN NoTally ELSE tally[s]]
      /\ UNCHANGED <<operatorDisk, trail, proved>>
  BY DEF ProcRestart
<1>2. Memories'
  <2>1. RemembersAs(NoMemory, Unloaded, {}) BY DEF RemembersAs, NoMemory, Unloaded
  <2>2. \A q \in Procs : RemembersAs(memory'[q], newest'[q], gone'[q])
    <3> SUFFICES ASSUME NEW q \in Procs PROVE RemembersAs(memory'[q], newest'[q], gone'[q]) OBVIOUS
    <3>1. CASE q = p
      BY <1>1, <3>1, <2>1 DEF OperatorsInv, Memories
    <3>2. CASE q # p
      BY <1>1, <3>2 DEF OperatorsInv, Memories
    <3> QED BY <3>1, <3>2
  <2>3. DOMAIN memory' = Procs /\ DOMAIN newest' = Procs /\ DOMAIN gone' = Procs BY <1>1 DEF OperatorsInv, Memories
  <2> QED BY <1>1, <2>2, <2>3 DEF OperatorsInv, Memories, RemembersAs
<1>3. Tallies'
  BY <1>1 DEF NoTally, TallyOk, Tallied, OperatorsInv, Tallies
<1>4. Attributes' BY <1>1 DEF OperatorsInv, Attributes, AttributionGenuine, NoReq
<1> QED BY <1>2, <1>3, <1>4 DEF OperatorsInv

LEMMA FilesKeep == ASSUME OperatorsInv, NEW d \in Documents \cup {Missing}, PutFile(d) PROVE OperatorsInv'
BY AttributesStay DEF PutFile, OperatorsInv, Memories, RemembersAs, Tallies, Tallied

LEMMA TimeKeeps == ASSUME OperatorsInv, TimePasses PROVE OperatorsInv'
BY MemoriesStay, AttributesStay DEF TimePasses, OperatorsInv, Tallies, Tallied, TallyOk

LEMMA OperatorsKeep ==
  ASSUME RetiredFit, OwnPrefixes, OperatorsInv, [OperatorsNext]_operatorVars
  PROVE  OperatorsInv'
<1>1. ASSUME NEW d \in Documents \cup {Missing}, PutFile(d) PROVE OperatorsInv' BY <1>1, FilesKeep
<1>2. CASE TimePasses BY <1>2, TimeKeeps
<1>3. ASSUME NEW s \in Services, GuardMalformed(s) \/ ServiceAppend(s) \/ \E c \in Callers : Guard(s, c) PROVE OperatorsInv'
  BY <1>3, GuardMalformedKeeps, ServiceAppendKeeps, GuardKeeps
<1>4. ASSUME NEW s \in Services, NEW ok \in BOOLEAN, RecordEnds(s, ok) PROVE OperatorsInv' BY <1>4, RecordEndsKeeps
<1>5. ASSUME NEW s \in Services, NEW c \in Callers, NEW id, PostClaim(c, s, id) PROVE OperatorsInv' BY <1>5, PostClaimKeeps
<1>6. ASSUME NEW p \in Procs, NEW op, VerifyHash(p, op) PROVE OperatorsInv' BY <1>6, VerifyHashKeeps
<1>7. ASSUME NEW p \in Procs, NEW started, ProcRestart(p, started) PROVE OperatorsInv' BY <1>7, ProcRestartKeeps
<1>8. CASE UNCHANGED operatorVars
  BY <1>8, MemoriesStay, AttributesStay DEF operatorVars, OperatorsInv, Tallies, Tallied
<1> QED BY <1>1, <1>2, <1>3, <1>4, <1>5, <1>6, <1>7, <1>8 DEF OperatorsNext

LEMMA OperatorsInvSound ==
  ASSUME RetiredFit, OperatorsInv
  PROVE  NewestFileRules /\ NewestFileWorks /\ ListsBind /\ AttributionGenuine /\ RefusalsAccounted
BY RulesWhile, WorksWhile, ListsAlwaysBind DEF OperatorsInv, Attributes, Tallies, Tallied, RefusalsAccounted

\* Whatever files are put in place, in whatever order, under requests, restarts and changes of
\* mode: the newest file rules and works, lists bind, rows are attributed to those who proved who
\* they were, and no refusal is lost.
THEOREM OperatorsAlwaysSound ==
  ASSUME RetiredFit, OwnPrefixes
  PROVE  OperatorsSpec =>
           [](NewestFileRules /\ NewestFileWorks /\ ListsBind /\ AttributionGenuine /\ RefusalsAccounted)
<1>1. OperatorsInit => OperatorsInv BY OperatorsBegin
<1>2. OperatorsInv /\ [OperatorsNext]_operatorVars => OperatorsInv' BY OperatorsKeep
<1>3. OperatorsInv => NewestFileRules /\ NewestFileWorks /\ ListsBind /\ AttributionGenuine /\ RefusalsAccounted
  BY OperatorsInvSound
<1> QED BY <1>1, <1>2, <1>3, PTL DEF OperatorsSpec

-----------------------------------------------------------------------------
(* The composition: each part is a behaviour of its own specification *)

\* MCControl moves a part by its own next-state relation or not at all.
LEMMA ControlParted == Spec => FederationSpec /\ SweepSpec /\ StagesSpec
<1>1. Init => FederationInit /\ SweepInit /\ StagesInit BY DEF Init
<1>2. [Next]_Vars => [FederationNext]_federationVars /\ [SweepNext]_sweepVars /\ [StagesNext]_stagesVars
  BY DEF Next, Vars
<1> QED BY <1>1, <1>2, PTL DEF Spec, FederationSpec, SweepSpec, StagesSpec

\* Provisioning begins by its own initial condition where it is the part studied.
LEMMA ProvisionParted == Spec => [](part = "provision" => ProvisionSafe)
<1> DEFINE Inv == part = "provision" => ProvisionInv
<1>1. Init => Inv BY ProvisionBegins DEF Init
<1>2. Inv /\ [Next]_Vars => Inv'
  BY ProvisionKeeps DEF Next, Vars
<1>3. Inv => (part = "provision" => ProvisionSafe) BY ProvisionInvSafe
<1> QED BY <1>1, <1>2, <1>3, PTL DEF Spec

\* A run that begins on a retired agent leaves it alone, and none mints outside its own cap
\* and limits: for any runs, manifests, governors and lost answers (ProvisionSafe, provision).
THEOREM ProvisionAlwaysSafe == ProvisionSpec => []ProvisionSafe
<1>1. ProvisionInv /\ [ProvisionNext]_provisionVars => ProvisionInv' BY ProvisionKeeps
<1> QED BY <1>1, ProvisionBegins, ProvisionInvSafe, PTL DEF ProvisionSpec

\* EstateSound in every behaviour of the composition: crossings rest on a contract that
\* backs them, a report is whole, an agent is provisioned under its own limits.
THEOREM EstateAlwaysSound == Spec => []EstateSound
<1>1. CrossingBacked /\ LastReportWhole /\ (part = "provision" => ProvisionSafe) => EstateSound
  BY DEF EstateSound
<1> QED BY <1>1, ControlParted, ProvisionParted, CrossingsAlwaysBacked, LastReportAlwaysWhole, PTL

\* StepsSound in every behaviour of the composition: kills of orphans only, stale agents
\* reported, duplicate contracts only fewer, stages from settled runs.
THEOREM StepsAlwaysSound == Spec => StepsSound
<1> QED
  BY ControlParted, SweepsKillOrphansOnly, SweepsReportStale, DuplicatesAlwaysShrink, StagesStartSettled, PTL
  DEF StepsSound

\* Operator authentication begins by its own initial condition where it is the part studied.
LEMMA OperatorsParted ==
  ASSUME RetiredFit, OwnPrefixes
  PROVE  Spec => [](part = "operators" => OperatorsInv)
<1> DEFINE Inv == part = "operators" => OperatorsInv
<1>1. Init => Inv BY OperatorsBegin DEF Init
<1>2. Inv /\ [Next]_Vars => Inv'
  BY OperatorsKeep DEF Next, Vars
<1> QED BY <1>1, <1>2, PTL DEF Spec

\* OperatorsSound in every behaviour of the composition: the newest good file rules every
\* process and works in it, a row's lists bind, and rows and refusals are accounted for; where
\* no process ever has to forget a retired key and each service's event type is its own.
THEOREM ControlOperatorsSound ==
  ASSUME RetiredFit, OwnPrefixes
  PROVE  Spec => []OperatorsSound
<1>1. (part = "operators" => OperatorsInv) => OperatorsSound BY OperatorsInvSound DEF OperatorsSound
<1> QED BY <1>1, OperatorsParted, PTL
=============================================================================
