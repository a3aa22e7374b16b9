------------------------------ MODULE Operators ------------------------------
(***************************************************************************)
(* Operator authentication (field_core.operator_auth) and its refusal       *)
(* records (operator_health).  Every process reads the operators file on    *)
(* each guarded call; the file is replaced under it, by rotations, edits    *)
(* and restored backups.  A key stands for its hash.                        *)
(***************************************************************************)
EXTENDS Integers, Sequences, FiniteSets, SequencesExt

CONSTANTS
  Documents,        \* operators files that may be put in place, malformed ones too
  Callers,          \* credentials a request can carry: [op, key], NoHeader allowed
  Manifests,        \* what a manifest_ref leads to: [kind, names], kind list, no_ref or unreadable
  Procs,            \* processes that verify operators; "ledger" is one of them
  ServiceOf,        \* a service's own row: its operator id, key and event type
  MaxTime,
  Scenes,           \* the modes to start with, and how many file changes, requests
                    \* and restarts may follow: [armed, left]
  MaxRetired, RecordWindow, RecordSlots

VARIABLES
  operatorDisk,     \* the operators file
  operatorClock,
  armed,            \* mode of each process
  memory,           \* retired-hash memory of each process
  newest, gone,     \* the file a process should go by, and keys it saw removed
  glass,            \* break-glass counters of each process
  req,              \* a request being served, per service
  tally,            \* refusal records of each service
  trail,            \* attributed ledger rows: <<type, authenticated id>>
  proved,           \* <<service, id>>: who authenticated where
  left              \* what is left of the budget

operatorVars == <<operatorDisk, operatorClock, armed, memory, newest, gone, glass, req, tally,
                  trail, proved, left>>

NoHeader == "none"
Missing == [format |-> 0, generation |-> 0, rows |-> <<>>]
Never == MaxTime + 1                      \* no expiry
NoNext == [key |-> "no-slot", from |-> 0, to |-> 0]
BREAKGLASS_ID == "don-breakglass"
EXPLICIT_ONLY == {"mint_for_others", "ledger_attribute", "bypass_operator_list", "sweep_kill"}
KnownActions == {"kill", "revive", "drill", "attest", "rotate", "hold", "mint", "decommission",
            "revoke", "register", "caps"} \cup EXPLICIT_ONLY
SEALED_SCOPES == {"kill", "revive", "bypass_operator_list"}
Services == DOMAIN ServiceOf

OperatorsAssumption ==
  /\ "ledger" \in Procs /\ Services \subseteq Procs \ {"ledger"}
  /\ MaxTime \in Nat /\ \A sc \in Scenes : sc.left \in [puts : Nat, requests : Nat, restarts : Nat]
  /\ MaxRetired \in Nat /\ RecordWindow \in Nat /\ RecordSlots \in Nat
  /\ \A m \in Manifests : IsFiniteSet(m.names)
  /\ \A d \in Documents : /\ d.generation \in Nat
                          /\ \A i \in DOMAIN d.rows :
                               NoHeader \notin {d.rows[i].id, d.rows[i].key, d.rows[i].next.key}
ASSUME OperatorsAssumption

-----------------------------------------------------------------------------
(* The operators file: a closed schema, nothing partly honoured *)

OperatorKeys(r) == {r.key} \cup (IF r.next = NoNext THEN {} ELSE {r.next.key})

\* svc-verifier-<estate>: bound to the agents that name it.
ListBoundId(id) == id \in {"svc-verifier-gb10", "svc-verifier-fly"}

VerifierScopes(scopes) ==
  /\ "*" \notin scopes
  /\ {"kill", "revive", "revoke"} \subseteq scopes
  /\ {"mint", "mint_for_others"} \cap scopes # {}

VerifierUnbound(r) ==
  r.status = "active" /\ VerifierScopes(r.scopes) /\ ~ListBoundId(r.id)

VerifierBypass(r) ==
  r.status = "active" /\ ListBoundId(r.id) /\ "bypass_operator_list" \in r.scopes

\* Faulty variant: an alias may be claimed twice.
ValidateRowsAliasFree(rows) ==
  \A i, j \in DOMAIN rows :
    /\ i # j => rows[i].id # rows[j].id
    /\ ~VerifierUnbound(rows[i]) /\ ~VerifierBypass(rows[i])

\* No two rows can stand for one name, and no verifier escapes its list.
ValidateRows(rows) ==
  /\ \A i, j \in DOMAIN rows : i # j =>
       /\ rows[i].id # rows[j].id
       /\ rows[i].names \cap rows[j].names = {}
  /\ \A i \in DOMAIN rows :
       /\ ~VerifierUnbound(rows[i]) /\ ~VerifierBypass(rows[i])
       /\ "*" \notin rows[i].names
       /\ BREAKGLASS_ID \in rows[i].names => rows[i].id = BREAKGLASS_ID
       /\ \A j \in DOMAIN rows : rows[j].id \notin rows[i].names

\* Lists every row carries, in either format.
CommonListsOk(r) == "assert_operator" \notin r.scopes /\ \A p \in r.prefixes : p # "operator."

NextKeyOk(r) ==
  r.next # NoNext => r.next.from < r.next.to /\ r.status # "revoked" /\ r.rotation # "sealed"

\* The break-glass row: key only, no expiry, narrow scopes.
SealedOk(r) ==
  /\ r.id = BREAKGLASS_ID => r.rotation = "sealed"
  /\ r.rotation = "sealed" => r.scopes \subseteq SEALED_SCOPES /\ r.notAfter = Never /\ r.auth = {"key"}
  /\ r.rotation # "sealed" => r.notAfter # Never

RowOk2(r) ==
  /\ r.status \in {"active", "revoked"} /\ r.rotation \in {"auto", "sealed", "remote"}
  /\ CommonListsOk(r) /\ r.scopes \subseteq KnownActions \cup {"*"}
  /\ NextKeyOk(r) /\ SealedOk(r)

HashesDistinct(rows) ==
  /\ \A i, j \in DOMAIN rows : i # j => OperatorKeys(rows[i]) \cap OperatorKeys(rows[j]) = {}
  /\ \A i \in DOMAIN rows : rows[i].key # rows[i].next.key

ParseFormat2(d) ==
  /\ d.generation >= 1
  /\ \A i \in DOMAIN d.rows : RowOk2(d.rows[i])
  /\ HashesDistinct(d.rows)
  /\ Cardinality({i \in DOMAIN d.rows : d.rows[i].rotation = "sealed"}) <= 1
  /\ ValidateRows(d.rows)

ParseFormat1(d) ==
  /\ \A i \in DOMAIN d.rows : d.rows[i].status \in {"active", "revoked"} /\ CommonListsOk(d.rows[i])
  /\ ValidateRows(d.rows)

\* Fields only format 2 defines make another file unavailable: read leniently they would be lost.
NoFormat2Fields(d) ==
  /\ d.generation = 0
  /\ \A i \in DOMAIN d.rows :
       d.rows[i].rotation = "none" /\ d.rows[i].next = NoNext /\ d.rows[i].notAfter = Never

Parses(d, enforce) ==
  /\ \/ d.format = 2 /\ ParseFormat2(d)
     \/ d.format = 1 /\ NoFormat2Fields(d) /\ ParseFormat1(d)
  /\ enforce => \E i \in DOMAIN d.rows : d.rows[i].status = "active"

\* The files that load, by whether the mode is ENFORCE.
Readable == [enforce \in BOOLEAN |-> {d \in Documents : Parses(d, enforce)}]

AllKeys(d) == UNION {OperatorKeys(d.rows[i]) : i \in DOMAIN d.rows}

-----------------------------------------------------------------------------
(* The retired-hash memory of a process *)

NoMemory == [gen |-> -1, keys |-> {}, high |-> -1, highKeys |-> {}, retired |-> [k \in {} |-> 0]]

\* The oldest retirements are forgotten past the cap; equal ones by the order of the table.
Kept(retired) ==
  IF Cardinality(DOMAIN retired) <= MaxRetired THEN {DOMAIN retired}
  ELSE {S \in SUBSET DOMAIN retired :
          /\ Cardinality(S) = MaxRetired
          /\ \A k \in S, o \in DOMAIN retired \ S : retired[o] <= retired[k]}

MaxOf(a, b) == IF a > b THEN a ELSE b

\* Faulty variant: a key that a new generation lists again stays retired.
RetiredMemoryKeeps(m, d) ==
  LET present == AllKeys(d)
      newHigh == d.generation > m.high
      removed == IF newHigh THEN (m.keys \cup m.highKeys) \ present ELSE {}
  IN [gen |-> d.generation, keys |-> present,
      high |-> IF newHigh THEN d.generation ELSE m.high,
      highKeys |-> IF newHigh THEN present ELSE m.highKeys,
      retired |-> [k \in DOMAIN m.retired \cup removed |-> d.generation]]

\* A load teaches the memory what went away between it and the last load, or the highest one.
RetiredMemory(m, d) ==
  LET present == AllKeys(d)
      removed == (IF m.gen >= 0 /\ d.generation > m.gen THEN m.keys \ present ELSE {})
                 \cup (IF m.high >= 0 /\ d.generation > m.high THEN m.highKeys \ present ELSE {})
      newHigh == d.generation > m.high
      table == [k \in DOMAIN m.retired \cup removed |->
                  MaxOf(IF k \in removed THEN d.generation ELSE 0,
                        IF k \in DOMAIN m.retired THEN m.retired[k] ELSE 0)]
      kept == CHOOSE S \in Kept(table) : TRUE
      stay == IF newHigh THEN kept \ present ELSE kept
  IN [gen |-> d.generation, keys |-> present,
      high |-> IF newHigh THEN d.generation ELSE m.high,
      highKeys |-> IF newHigh THEN present ELSE m.highKeys,
      retired |-> [k \in stay |-> table[k]]]

\* Faulty variant: a file below the highest generation brings its own keys back.
RefusedAboveOnly(m, d) == AllKeys(d) \cap DOMAIN m.retired

\* Keys of the file that this process will not match (m: the memory after the load).
Refused(m, d) ==
  (AllKeys(d) \cap DOMAIN m.retired)
    \cup (IF d.generation < m.high THEN AllKeys(d) \ m.highKeys ELSE {})

-----------------------------------------------------------------------------
(* authenticate *)

KeyMatches(key, r, refused, now) ==
  /\ key \notin refused /\ "key" \in r.auth
  /\ \/ key = r.key /\ now < r.notAfter
     \/ r.next # NoNext /\ key = r.next.key /\ r.next.from <= now /\ now < r.next.to

\* The row a credential proves, if any: id, key and status must all agree.
OperatorVerify(c, d, refused, now) ==
  {i \in DOMAIN d.rows :
     /\ d.rows[i].id = c.op /\ d.rows[i].status = "active"
     /\ KeyMatches(c.key, d.rows[i], refused, now)}

HasScope(scopes, action) == action \in scopes \/ ("*" \in scopes /\ action \notin EXPLICIT_ONLY)

IsBreakglass(op, rows) ==
  op = BREAKGLASS_ID \/ \E i \in DOMAIN rows : rows[i].rotation = "sealed" /\ rows[i].id = op

Nobody(why) == [id |-> NoHeader, scopes |-> {}, names |-> {}, prefixes |-> {}, failure |-> why]

\* What authenticate says at process p: a row, or the failure (ENFORCE turns it into a refusal).
Authenticate(p, c, action) ==
  LET enforce == armed[p] = "enforce"
      m == RetiredMemory(memory[p], operatorDisk)
      hit == OperatorVerify(c, operatorDisk, Refused(m, operatorDisk), operatorClock)
      row == operatorDisk.rows[CHOOSE i \in hit : TRUE]
  IN CASE armed[p] = "off" -> Nobody("off")
       [] armed[p] # "off" /\ NoHeader \in {c.op, c.key} -> Nobody("no_credential")
       [] armed[p] # "off" /\ NoHeader \notin {c.op, c.key} /\ operatorDisk \notin Readable[enforce] ->
            Nobody("registry_unavailable")
       [] OTHER -> CASE hit = {} -> Nobody("bad_credential")
                     [] hit # {} /\ ~HasScope(row.scopes, action) -> Nobody("scope")
                     [] OTHER -> [id |-> row.id, scopes |-> row.scopes, names |-> row.names,
                                  prefixes |-> row.prefixes, failure |-> "none"]

Authenticated(a) == a.id # NoHeader

\* Did the call read the file?  Then its memory and the ghosts move.
Loads(p, c) == armed[p] # "off" /\ NoHeader \notin {c.op, c.key} /\ operatorDisk \in Readable[armed[p] = "enforce"]

\* The first file at the highest generation rules; a key it dropped is gone until a higher one lists it.
Load(p) ==
  /\ memory' = [memory EXCEPT ![p] = RetiredMemory(@, operatorDisk)]
  /\ IF operatorDisk.generation > newest[p].generation
     THEN /\ newest' = [newest EXCEPT ![p] = [generation |-> operatorDisk.generation, keys |-> AllKeys(operatorDisk),
                                                sole |-> TRUE, steady |-> TRUE]]
          /\ gone' = [gone EXCEPT ![p] = (@ \cup newest[p].keys) \ AllKeys(operatorDisk)]
     ELSE /\ newest' = [newest EXCEPT
               ![p].sole = @ /\
                  (operatorDisk.generation = newest[p].generation => AllKeys(operatorDisk) = newest[p].keys),
               ![p].steady = @ /\ operatorDisk.generation = newest[p].generation /\
                  AllKeys(operatorDisk) = newest[p].keys]
          /\ UNCHANGED gone

NoteBreakglass(p, c, a) ==
  LET claimed == IsBreakglass(c.op, IF Loads(p, c) THEN operatorDisk.rows ELSE <<>>)
  IN glass' = [glass EXCEPT ![p] =
       IF ~claimed \/ armed[p] = "off" THEN @
       ELSE [auth |-> @.auth + IF a.failure \in {"none", "scope"} THEN 1 ELSE 0,
             attempt |-> @.attempt + IF a.failure # "none" THEN 1 ELSE 0]]

-----------------------------------------------------------------------------
(* What an authenticated identity may reach *)

\* A manifest that could be read has a list, perhaps an empty one.
IsList(m) == m.kind = "list"

Listed(a, names) == a.id \in names \/ a.names \cap names # {}

CheckAuthorized(a, names) == Authenticated(a) /\ (names = {} \/ Listed(a, names))

CheckExplicitlyListed(a, m) == IsList(m) /\ m.names # {} /\ CheckAuthorized(a, m.names)

\* kill, revive, drill and status changes: the manifest's authorized_operators.
CheckRecordAuthorized(a, m) ==
  \/ Authenticated(a) /\ HasScope(a.scopes, "bypass_operator_list")
  \/ /\ ~(Authenticated(a) /\ HasScope(a.scopes, "bypass_operator_list"))
     /\ IF Authenticated(a) /\ ListBoundId(a.id) THEN CheckExplicitlyListed(a, m)
        ELSE m.kind # "unreadable" /\ CheckAuthorized(a, m.names)

CheckListBoundReach(a, m) ==
  (ListBoundId(a.id) /\ ~HasScope(a.scopes, "bypass_operator_list")) => CheckExplicitlyListed(a, m)

\* A mint names itself, holds mint_for_others, or uses its own alias on an agent that names it.
CheckGrantedBy(a, grantor, m) ==
  \/ grantor = a.id \/ HasScope(a.scopes, "mint_for_others")
  \/ grantor \in a.names /\ CheckExplicitlyListed(a, m)

\* Under ENFORCE: may the caller that was authenticated for it do it to this agent?
MayKill(a, m) == Authenticated(a) /\ CheckRecordAuthorized(a, m)
MayMint(a, m, grantor) ==
  Authenticated(a) /\ CheckGrantedBy(a, grantor, m) /\ CheckListBoundReach(a, m)
MayRevoke(a, m) == Authenticated(a) /\ CheckListBoundReach(a, m)

-----------------------------------------------------------------------------
(* Requests at the services, and what reaches the ledger *)

NoReq == [pc |-> "idle", id |-> NoHeader]
NoTally == [refused |-> 0, counted |-> 0, window |-> 0, dropped |-> 0, written |-> 0, flight |-> 0]

\* One more of a kind, while the budget lasts.
Spend(kind) == left[kind] > 0 /\ left' = [left EXCEPT ![kind] = @ - 1]

Unloaded == [generation |-> -1, keys |-> {}, sole |-> TRUE, steady |-> TRUE]

OperatorsInit ==
  /\ operatorDisk \in Documents \cup {Missing}
  /\ operatorClock = 0 /\ \E sc \in Scenes : armed = sc.armed /\ left = sc.left
  /\ memory = [p \in Procs |-> NoMemory]
  /\ newest = [p \in Procs |-> Unloaded]
  /\ gone = [p \in Procs |-> {}]
  /\ glass = [p \in Procs |-> [auth |-> 0, attempt |-> 0]]
  /\ req = [s \in Services |-> NoReq] /\ tally = [s \in Services |-> NoTally]
  /\ trail = {} /\ proved = {}

\* The file is replaced: a rotation, an edit, a restored backup, or a bad write.
PutFile(d) ==
  /\ Spend("puts") /\ d # operatorDisk
  /\ operatorDisk' = d
  /\ UNCHANGED <<operatorClock, armed, memory, newest, gone, glass, req, tally, trail, proved>>

TimePasses ==
  /\ operatorClock < MaxTime /\ operatorClock' = operatorClock + 1
  /\ tally' = [s \in Services |-> [tally[s] EXCEPT !.window = 0]]
  /\ UNCHANGED <<operatorDisk, armed, memory, newest, gone, glass, req, trail, proved, left>>

\* Count one refusal; its record is written unless a cap drops it (ENFORCE only).
Admitted(t, enforce) ==
  LET n == [t EXCEPT !.refused = @ + 1]
  IN CASE ~enforce -> n
       [] enforce /\ t.window >= RecordWindow -> [n EXCEPT !.counted = @ + 1, !.dropped = @ + 1]
       [] enforce /\ t.window < RecordWindow /\ t.flight >= RecordSlots ->
            [n EXCEPT !.counted = @ + 1, !.window = @ + 1, !.dropped = @ + 1]
       [] OTHER -> [n EXCEPT !.counted = @ + 1, !.window = @ + 1, !.flight = @ + 1]

\* guard("kill") at a service: authenticate, bind, and note what it refuses.
Guard(s, c) ==
  /\ Spend("requests")
  /\ req[s].pc = "idle" /\ armed[s] # "off"
  /\ LET a == Authenticate(s, c, "kill")
         refuse == armed[s] = "enforce" /\ ~Authenticated(a)
     IN /\ IF Loads(s, c) THEN Load(s) ELSE UNCHANGED <<memory, newest, gone>>
        /\ NoteBreakglass(s, c, a)
        /\ tally' = IF refuse THEN [tally EXCEPT ![s] = Admitted(@, TRUE)] ELSE tally
        /\ req' = IF refuse THEN req ELSE [req EXCEPT ![s] = [pc |-> "append", id |-> a.id]]
        /\ proved' = IF Authenticated(a) THEN proved \cup {<<s, a.id>>} ELSE proved
  /\ UNCHANGED <<operatorDisk, operatorClock, armed, trail>>

\* Malformed headers are a 400 in every armed mode, before anything is looked up.
GuardMalformed(s) ==
  /\ Spend("requests")
  /\ req[s].pc = "idle" /\ armed[s] # "off"
  /\ tally' = [tally EXCEPT ![s] = Admitted(@, armed[s] = "enforce")]
  /\ UNCHANGED <<operatorDisk, operatorClock, armed, memory, newest, gone, glass, req, trail, proved>>

\* The record's append ends, well or badly; its slot is free again.
RecordEnds(s, ok) ==
  /\ tally[s].flight > 0
  /\ tally' = [tally EXCEPT ![s].flight = @ - 1,
                            ![s].written = IF ok THEN @ + 1 ELSE @,
                            ![s].dropped = IF ok THEN @ ELSE @ + 1]
  /\ UNCHANGED <<operatorDisk, operatorClock, armed, memory, newest, gone, glass, req, trail, proved, left>>

\* Faulty variant: any identity that may attribute may do so on any event type.
AdmitLedgerEventAnyType(caller, type, id) ==
  IF armed["ledger"] = "off" \/ id = NoHeader THEN trail
  ELSE IF Authenticated(caller) THEN trail \cup {<<type, id>>} ELSE trail

\* admit_ledger_event: reserved fields survive only where the caller's prefixes reach.
AdmitLedgerEvent(caller, type, id) ==
  IF armed["ledger"] = "off" \/ id = NoHeader THEN trail
  ELSE IF Authenticated(caller) /\ type \in caller.prefixes THEN trail \cup {<<type, id>>}
  ELSE trail

\* A POST to /events with these credentials and these operator fields.
OperatorPost(c, type, id) ==
  LET a == Authenticate("ledger", c, "ledger_attribute")
  IN /\ trail' = AdmitLedgerEvent(a, type, id)
     /\ IF Loads("ledger", c) /\ id # NoHeader
        THEN Load("ledger") /\ NoteBreakglass("ledger", c, a)
        ELSE UNCHANGED <<memory, newest, gone, glass>>

\* The service's own append: its fields say who was authenticated, under its own key.
ServiceAppend(s) ==
  /\ req[s].pc = "append"
  /\ OperatorPost([op |-> ServiceOf[s].id, key |-> ServiceOf[s].key], ServiceOf[s].type,
                  IF armed[s] = "off" THEN NoHeader ELSE req[s].id)
  /\ req' = [req EXCEPT ![s] = NoReq]
  /\ UNCHANGED <<operatorDisk, operatorClock, armed, tally, proved, left>>

\* Anyone posts to the ledger with operator fields of their own making; a service does not.
PostClaim(c, s, id) ==
  /\ Spend("requests")
  /\ c.op # ServiceOf[s].id
  /\ OperatorPost(c, ServiceOf[s].type, id)
  /\ UNCHANGED <<operatorDisk, operatorClock, armed, req, tally, proved>>

\* verify-hash and rotation-state load the file like a request; break-glass is never answered.
VerifyHash(p, op) ==
  /\ armed[p] # "off" /\ operatorDisk \in Readable[armed[p] = "enforce"]
  /\ IF op = BREAKGLASS_ID
     THEN /\ Spend("requests")
          /\ glass' = [glass EXCEPT ![p].attempt = @ + 1]
          /\ UNCHANGED <<memory, newest, gone>>
     ELSE Load(p) /\ UNCHANGED <<glass, left>>
  /\ UNCHANGED <<operatorDisk, operatorClock, armed, req, tally, trail, proved>>

\* A restart empties the memory and the counters, and may change the mode.
ProcRestart(p, mode) ==
  /\ Spend("restarts")
  /\ armed' = [armed EXCEPT ![p] = mode]
  /\ memory' = [memory EXCEPT ![p] = NoMemory]
  /\ newest' = [newest EXCEPT ![p] = Unloaded]
  /\ gone' = [gone EXCEPT ![p] = {}]
  /\ glass' = [glass EXCEPT ![p] = [auth |-> 0, attempt |-> 0]]
  /\ req' = [s \in Services |-> IF s = p THEN NoReq ELSE req[s]]
  /\ tally' = [s \in Services |-> IF s = p THEN NoTally ELSE tally[s]]
  /\ UNCHANGED <<operatorDisk, operatorClock, trail, proved>>

OperatorsNext ==
  \/ \E d \in Documents \cup {Missing} : PutFile(d)
  \/ TimePasses
  \/ \E s \in Services :
       \/ GuardMalformed(s) \/ ServiceAppend(s)
       \/ \E c \in Callers : Guard(s, c)
       \/ \E ok \in BOOLEAN : RecordEnds(s, ok)
       \/ \E c \in Callers, id \in {c2.op : c2 \in Callers} : PostClaim(c, s, id)
  \/ \E p \in Procs :
       \/ \E op \in {BREAKGLASS_ID, "don"} : VerifyHash(p, op)
       \/ \E mode \in {"off", "log-only", "enforce"} : ProcRestart(p, mode)

OperatorsSpec == OperatorsInit /\ [][OperatorsNext]_operatorVars

-----------------------------------------------------------------------------
(* Whatever files are put in place and loaded in whatever order, a process  *)
(* accepts no key that the highest generation it has loaded had dropped,    *)
(* and none that a file it knows to be outdated brings along: not after a   *)
(* restored backup, nor after a second file of the same generation.         *)
NewestFileRules ==
  \A p \in Procs, c \in Callers :
    Authenticated(Authenticate(p, c, "kill")) =>
      /\ c.key \notin gone[p] \ (IF operatorDisk.generation > newest[p].generation THEN AllKeys(operatorDisk) ELSE {})
      /\ operatorDisk.generation < newest[p].generation => c.key \in newest[p].keys

(* The credential is listed for its row and inside its window.             *)
Listing(c) ==
  \E i \in DOMAIN operatorDisk.rows :
    /\ operatorDisk.rows[i].id = c.op /\ operatorDisk.rows[i].status = "active"
    /\ KeyMatches(c.key, operatorDisk.rows[i], {}, operatorClock)

Honours(p) ==
  \A c \in Callers : (armed[p] = "enforce" /\ operatorDisk \in Readable[TRUE] /\ Listing(c)) =>
    Authenticate(p, c, "kill").failure \in {"none", "scope"}

IsNewest(p) == operatorDisk.generation = newest[p].generation /\ AllKeys(operatorDisk) = newest[p].keys

(* And the memory locks nobody out: each key that a file of a new highest   *)
(* generation lists proves its row, a re-issued one too, when the file is   *)
(* first read and as long as it stays in place.                             *)
NewestFileWorks ==
  \A p \in Procs :
    (operatorDisk.generation > newest[p].generation \/ (IsNewest(p) /\ newest[p].steady)) => Honours(p)

(* "a re-read of that generation must not refuse it as a retired key"       *)
(* (_apply_retired_memory): also when older files were in place in between. *)
(* The code does not keep this; no run asks for it (README, Divergences).   *)
RereadHonoured == \A p \in Procs : (IsNewest(p) /\ newest[p].sole) => Honours(p)

(* Under ENFORCE a manifest's list decides: two different operators never   *)
(* pass for one listed name, a machine verifier passes only where it is     *)
(* named, for kills, mints and revocations alike, and a manifest that       *)
(* cannot be read lets only the bypass scope through.                       *)
ListsBind ==
  \A p \in Procs : armed[p] = "enforce" =>
    LET killer == [c \in Callers |-> Authenticate(p, c, "kill")]
        minter == [c \in Callers |-> Authenticate(p, c, "mint")]
        revoker == [c \in Callers |-> Authenticate(p, c, "revoke")]
        bypass == [c \in Callers |-> HasScope(killer[c].scopes, "bypass_operator_list")]
    IN \A m \in Manifests :
      LET killers == {c \in Callers : MayKill(killer[c], m)}
      IN \A c \in Callers :
        /\ (IsList(m) /\ Cardinality(m.names) = 1 /\ c \in killers /\ ~bypass[c]) =>
              \A d \in killers : ~bypass[d] => d.op = c.op
        /\ (/\ VerifierScopes(killer[c].scopes)
            /\ \/ c \in killers \/ MayRevoke(revoker[c], m)
               \/ \E g \in {c.op} \cup killer[c].names : MayMint(minter[c], m, g))
           => IsList(m) /\ Listed(killer[c], m.names)
        /\ m.kind = "unreadable" => c \notin killers \/ bypass[c]

(* A ledger row that names an authenticated operator was written for one    *)
(* who had authenticated at the service the row's type belongs to, however  *)
(* files, modes and restarts fall between the request and the append.       *)
AttributionGenuine ==
  \A e \in trail : \E s \in Services : ServiceOf[s].type = e[1] /\ <<s, e[2]>> \in proved

(* Each refusal under ENFORCE has a record, or is counted as dropped, or    *)
(* is being written: none is lost at the window's cap, for want of a slot,  *)
(* or when its append fails.  ("refused_count must never exceed written +   *)
(* dropped", note_refused.)                                                 *)
RefusalsAccounted ==
  \A s \in Services : tally[s].counted = tally[s].written + tally[s].dropped + tally[s].flight
=============================================================================
