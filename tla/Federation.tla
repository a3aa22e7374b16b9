------------------------------ MODULE Federation ------------------------------
(***************************************************************************)
(* The federation broker: contracts in one SQLite file, written by the       *)
(* threads of several broker processes, and crossings decided against the    *)
(* contract in force while those writes go on.  Callers ask over HTTP with   *)
(* the SDK, which proceeds only on an ALLOW it received.                     *)
(***************************************************************************)
EXTENDS Integers, FiniteSets

CONSTANTS
  Ids,            \* contract ids, ordered as text (numbers here)
  Brokers,        \* broker processes on the same database
  Writers,        \* requests that write a contract
  BrokerCallers,  \* SDK calls
  Offers,         \* contracts a writer may put: org, scopes, classes, key, active
  Crossings,      \* crossing requests a caller may send
  StoredRows,     \* databases an earlier release may have left
  Home,           \* the home org's name
  NormalForm,     \* spelling |-> the name it is compared by; "" for a blank name
  Inside,         \* pairs of normal forms, the first a substring of the second
  FederationFaults

VARIABLES
  contract,       \* the table: id |-> contract, or NoContract
  indexed,        \* the one-active-per-org index exists
  fileLock,       \* the writer whose write transaction is open, or "none"
  mutex,          \* per broker: the writer that holds its connection, or "none"
  up,             \* brokers that run
  save,           \* per writer: where its save stands
  cross,          \* per caller: where its crossing stands
  fleft

federationVars == <<contract, indexed, fileLock, mutex, up, save, cross, fleft>>

NoContract == [active |-> FALSE]
normalize_org(name) == NormalForm[name]
ActiveIn(table, org) == {i \in Ids : table[i].active /\ normalize_org(table[i].org) = org}
Active(org) == ActiveIn(contract, org)
Duplicated == \E i \in Ids : contract[i].active /\ Cardinality(Active(normalize_org(contract[i].org))) > 1

\* The contract a lookup resolves to: of the active rows of that org, the lowest id.
Resolved(table, name) ==
  LET org == normalize_org(name)
  IN IF org = "" THEN {}
     ELSE {table[i] : i \in {j \in ActiveIn(table, org) : \A k \in ActiveIn(table, org) : j <= k}}
for_org(name) == Resolved(contract, name)

Unsaved == [pc |-> "idle"]
Saved == [pc |-> "over"]    \* bound: a writer saves once
NotAsked == [pc |-> "idle"]

\* A stored table gives each id one row; a free lock is not a writer's.
StoredContracts == UNION {{rows[i] : i \in Ids} : rows \in StoredRows}
ASSUME FederationConstants ==
  "none" \notin Writers /\ \A rows \in StoredRows : rows \in [Ids -> StoredContracts]

FederationInit ==
  /\ contract \in StoredRows /\ indexed = FALSE
  /\ fileLock = "none" /\ mutex = [b \in Brokers |-> "none"]
  /\ up = {} /\ save = [w \in Writers |-> Unsaved] /\ cross = [c \in BrokerCallers |-> NotAsked]
  /\ fleft = FederationFaults

\* A crossing under way remembers which contracts were in force for its org since it was sent.
BrokerWitnessed(table) ==
  [c \in BrokerCallers |-> IF cross[c].pc = "idle" THEN cross[c]
                           ELSE [cross[c] EXCEPT !.seen = @ \cup Resolved(table, cross[c].req.org)]]

-----------------------------------------------------------------------------
(* A broker starts: the migration makes the index unless rows contradict it *)

StartBroker(b) ==
  /\ b \notin up /\ fileLock = "none"
  /\ up' = up \cup {b} /\ indexed' = (indexed \/ ~Duplicated)
  /\ UNCHANGED <<contract, fileLock, mutex, save, cross, fleft>>

\* A process dies: its open transaction rolls back, its callers get no answer.
BrokerDies(b) ==
  /\ b \in up /\ fleft > 0 /\ fleft' = fleft - 1 /\ up' = up \ {b}
  /\ mutex' = [mutex EXCEPT ![b] = "none"]
  /\ fileLock' = IF fileLock = mutex[b] THEN "none" ELSE fileLock
  /\ save' = [w \in Writers |-> IF save[w].pc \notin {"idle", "over"} /\ save[w].at = b THEN Saved ELSE save[w]]
  /\ cross' = [c \in BrokerCallers |-> IF cross[c].pc \in {"asked", "found", "decided"} /\ cross[c].at = b
                                       THEN [cross[c] EXCEPT !.pc = "lost"] ELSE cross[c]]
  /\ UNCHANGED <<contract, indexed>>

-----------------------------------------------------------------------------
(* PUT /contracts/{id}: BEGIN IMMEDIATE, check, upsert, commit *)

\* Only one exact Ed25519 public key, or none, is stored; a body naming another id is refused.
Registrable(offer) == offer.key \in {"none", "k1", "k2"} /\ offer.scopes # {} /\ offer.classes # {}

PutContract(w, b, i, offer) ==
  /\ b \in up /\ save[w].pc = "idle" /\ Registrable(offer)
  /\ save' = [save EXCEPT ![w] = [pc |-> "put", at |-> b, id |-> i, body |-> offer]]
  /\ UNCHANGED <<contract, indexed, fileLock, mutex, up, cross, fleft>>

TakesFileLock(w) == fileLock = "none" /\ fileLock' = w

SaveBegin(w) ==
  /\ save[w].pc = "put" /\ mutex[save[w].at] = "none"
  /\ mutex' = [mutex EXCEPT ![save[w].at] = w] /\ TakesFileLock(w)
  /\ save' = [save EXCEPT ![w].pc = "begun"]
  /\ UNCHANGED <<contract, indexed, up, cross, fleft>>

Releases(w) ==
  /\ mutex' = [mutex EXCEPT ![save[w].at] = "none"]
  /\ fileLock' = IF fileLock = w THEN "none" ELSE fileLock

\* The check of the one-active rule: a conflict rolls back and answers 409.
SaveCheck(w) ==
  /\ save[w].pc = "begun"
  /\ IF save[w].body.active /\ Active(normalize_org(save[w].body.org)) \ {save[w].id} # {}
     THEN save' = [save EXCEPT ![w] = Saved] /\ Releases(w)
     ELSE save' = [save EXCEPT ![w].pc = "checked"] /\ UNCHANGED <<fileLock, mutex>>
  /\ UNCHANGED <<contract, indexed, up, cross, fleft>>

\* An upsert on the id.  The index, where it exists, refuses a second active row.
SaveCommit(w) ==
  /\ save[w].pc = "checked" /\ fileLock \in {w, "none"}
  /\ LET body == save[w].body
         stored == [contract EXCEPT ![save[w].id] = body]
     IN IF indexed /\ body.active /\ Active(normalize_org(body.org)) \ {save[w].id} # {}
        THEN UNCHANGED <<contract, cross>>
        ELSE contract' = stored /\ cross' = BrokerWitnessed(stored)
  /\ save' = [save EXCEPT ![w] = Saved] /\ Releases(w)
  /\ UNCHANGED <<indexed, up, fleft>>

-----------------------------------------------------------------------------
(* POST /crossing *)

Ask(c, b, req) ==
  /\ b \in up /\ cross[c].pc = "idle"
  /\ cross' = [cross EXCEPT ![c] = [pc |-> "asked", at |-> b, req |-> req, found |-> {}, verdict |-> "none",
                                    ledgered |-> FALSE, seen |-> for_org(req.org)]]
  /\ UNCHANGED <<contract, indexed, fileLock, mutex, up, save, fleft>>

\* The lenient peer rule of both directions.
ListsOrg(peers, name) ==
  normalize_org(name) # "" /\ \E p \in peers : <<normalize_org(name), normalize_org(p)>> \in Inside

\* The manifest, before any contract is looked at.
ManifestAccepted(req) ==
  /\ req.valid /\ req.federates
  /\ ListsOrg(req.peers, IF req.direction = "inbound" THEN Home ELSE req.org)

\* One locked read of the table, or none when the manifest already blocks.
Lookup(c) ==
  /\ cross[c].pc = "asked" /\ mutex[cross[c].at] = "none"
  /\ cross' = [cross EXCEPT ![c].pc = "found",
                            ![c].found = IF ManifestAccepted(cross[c].req) THEN for_org(cross[c].req.org) ELSE {}]
  /\ UNCHANGED <<contract, indexed, fileLock, mutex, up, save, fleft>>

\* Faulty variant: a request without a signature skips the signature step.
SignatureAcceptedLenient(req, k) == req.direction = "outbound" \/ req.signed \in {"none", k.key}

\* Inbound needs a usable key and this manifest's signature by it; outbound skips the step.
SignatureAccepted(req, k) == req.direction = "outbound" \/ (k.key \in {"k1", "k2"} /\ req.signed = k.key)

OutsideContract(req, k) == req.scope \notin k.scopes \/ req.class \notin k.classes

Decide(c) ==
  /\ cross[c].pc = "found"
  /\ LET allowed == \E k \in cross[c].found : SignatureAccepted(cross[c].req, k) /\ ~OutsideContract(cross[c].req, k)
     IN cross' = [cross EXCEPT ![c].pc = "decided", ![c].verdict = IF allowed THEN "ALLOW" ELSE "BLOCK"]
  /\ UNCHANGED <<contract, indexed, fileLock, mutex, up, save, fleft>>

\* The audit row; the verdict stands when it is lost.  Then the answer, or none.
Answer(c) ==
  /\ cross[c].pc = "decided"
  /\ \/ cross' = [cross EXCEPT ![c].pc = "answered", ![c].ledgered = TRUE] /\ UNCHANGED fleft
     \/ /\ fleft > 0 /\ fleft' = fleft - 1
        /\ \E pc \in {"answered", "lost"}, l \in BOOLEAN :
             cross' = [cross EXCEPT ![c].pc = pc, ![c].ledgered = l]
  /\ UNCHANGED <<contract, indexed, fileLock, mutex, up, save>>

-----------------------------------------------------------------------------
(* The SDK: only a 200 whose verdict is ALLOW returns, everything else raises *)

Returns(c) == cross[c].pc = "answered" /\ cross[c].verdict = "ALLOW"

SdkCross(c) ==
  /\ cross[c].pc \in {"answered", "lost"}
  /\ cross' = [cross EXCEPT ![c].pc = IF Returns(c) THEN "crossing" ELSE "blocked"]
  /\ UNCHANGED <<contract, indexed, fileLock, mutex, up, save, fleft>>

FederationNext ==
  \/ \E b \in Brokers : StartBroker(b) \/ BrokerDies(b)
  \/ \E w \in Writers : \/ \E b \in Brokers, i \in Ids, o \in Offers : PutContract(w, b, i, o)
                        \/ SaveBegin(w) \/ SaveCheck(w) \/ SaveCommit(w)
  \/ \E c \in BrokerCallers : \/ \E b \in Brokers, r \in Crossings : Ask(c, b, r)
                              \/ Lookup(c) \/ Decide(c) \/ Answer(c) \/ SdkCross(c)

FederationSpec == FederationInit /\ [][FederationNext]_federationVars

-----------------------------------------------------------------------------
(* A caller that crosses, or that was told ALLOW, was inside the contract in
   force for that org at some moment of its own call, inbound under that
   contract's key, whatever was replaced, deactivated or re-keyed meanwhile
   (_decide_inbound, _decide_outbound and cross). *)
CrossingBacked ==
  \A c \in BrokerCallers : cross[c].pc = "crossing" \/ (cross[c].pc # "idle" /\ cross[c].verdict = "ALLOW") =>
    LET req == cross[c].req IN
    \E k \in cross[c].seen :
      /\ req.scope \in k.scopes /\ req.class \in k.classes
      /\ req.direction = "inbound" => k.key # "none" /\ req.signed = k.key

(* No save gives an org an active contract beside another: two processes, a
   database with no index and a contract moved to another org included.
   Duplicates an earlier release left may only go away (ContractStore.save). *)
DuplicatesOnlyShrink ==
  [][\A org \in {NormalForm[n] : n \in DOMAIN NormalForm} :
       Cardinality(Active(org)') > 1 => Active(org)' \subseteq Active(org)]_contract
=============================================================================
