------------------------------- MODULE Regwatch -------------------------------
(***************************************************************************)
(* services/compliance-crosswalk: regwatch and the stale-flag store.        *)
(* A check reads the cited pages outside the store's lock, then compares    *)
(* them with the stored hashes, flags and persists in one transaction; the  *)
(* command line (a process of its own) checks files, marks, clears and      *)
(* writes evidence packs against the same JSON file.                        *)
(***************************************************************************)
EXTENDS Naturals, Sequences, FiniteSets

CONSTANTS
  Frameworks, Urls,
  Tiers,                                 \* framework -> sequence of disjoint sets of its urls
  Texts,                                 \* normalised texts a page may show
  Shortened,                             \* texts that lack a cited identifier
  NoReadings,                            \* pages that name no cited identifier (a challenge page)
  CorpusServed, Typed,                   \* operations inside `crosswalk serve`, and command lines
  MaxRuns, MaxPageEdits, RegwatchFaults  \* bounds

ASSUME RegwatchAssumption ==
  /\ MaxRuns \in Nat /\ MaxPageEdits \in Nat /\ RegwatchFaults \in Nat
  /\ "free" \notin CorpusServed \cup Typed
  /\ \A f \in Frameworks: Tiers[f] \in Seq(SUBSET Urls) /\ Tiers[f] # <<>>

VARIABLES
  page,              \* what each url shows
  disk,              \* crosswalk_stale_flags.json
  storeLock,         \* who holds <flags file>.lock
  checkLock,         \* _CHECK_LOCK of the serving process
  op,                \* operation -> its locals
  accepted,          \* url -> texts that became the reading by baseline or named review
  corpusPacks,       \* the readings evidence packs were issued over
  budget             \* what is left of the bounds

regwatchVars == <<page, disk, storeLock, checkLock, op, accepted, corpusPacks, budget>>

Ops == CorpusServed \cup Typed
UrlsOf(f) == UNION {Tiers[f][k]: k \in DOMAIN Tiers[f]}
CorpusNothing == "none"
NoFlag == 0            \* a flag is the time of its first detection
CorpusIdle == [at |-> "idle"]
EmptyStore == [active |-> [f \in Frameworks |-> NoFlag], history |-> <<>>, src |-> [u \in Urls |-> CorpusNothing]]

RegwatchInit ==
  /\ page \in [Urls -> Texts \ Shortened] /\ disk = EmptyStore
  /\ storeLock = "free" /\ checkLock = "free"
  /\ op = [p \in Ops |-> CorpusIdle]
  /\ accepted = [u \in Urls |-> <<>>] /\ corpusPacks = {}
  /\ budget = [runs |-> MaxRuns, edits |-> MaxPageEdits, faults |-> RegwatchFaults]

Use(what) == budget[what] > 0 /\ budget' = [budget EXCEPT ![what] = @ - 1]
CorpusBecome(p, r) == op' = [op EXCEPT ![p] = r]

EditPage(u) ==
  /\ Use("edits")
  /\ \E t \in (Texts \cup NoReadings) \ {page[u]}: page' = [page EXCEPT ![u] = t]
  /\ UNCHANGED <<disk, storeLock, checkLock, op, accepted, corpusPacks>>

-----------------------------------------------------------------------------
(* An operation begins by loading the file: StaleStore(). *)

Begin(p, r) ==
  /\ op[p] = CorpusIdle /\ Use("runs") /\ CorpusBecome(p, [r EXCEPT !.mem = disk])
  /\ UNCHANGED <<page, disk, storeLock, checkLock, accepted, corpusPacks>>

Op(kind, at) == [at |-> at, kind |-> kind, mem |-> EmptyStore, obs |-> <<>>, f |-> CorpusNothing,
                 tier |-> [f \in Frameworks |-> 1]]

BeginCheck(p) == Begin(p, Op("check", "flight"))
BeginFile(p) ==
  /\ p \in Typed
  /\ \E f \in Frameworks, u \in Urls, t \in Texts:    \* a page saved some time ago
       u \in UrlsOf(f) /\ Begin(p, [Op("file", "lock") EXCEPT !.f = f, !.obs = [x \in {u} |-> t]])
BeginMark(p) == p \in Typed /\ \E f \in Frameworks: Begin(p, [Op("mark", "lock") EXCEPT !.f = f])
BeginClear(p) == p \in Typed /\ \E f \in Frameworks: Begin(p, [Op("clear", "lock") EXCEPT !.f = f])
BeginPack(p) == Begin(p, Op("pack", "pack"))

\* Single flight: among the threads of one process only.
Fly(p) ==
  /\ op[p].at = "flight"
  /\ p \in CorpusServed => checkLock = "free"
  /\ checkLock' = IF p \in CorpusServed THEN p ELSE checkLock
  /\ CorpusBecome(p, [op[p] EXCEPT !.at = "fetch"])
  /\ UNCHANGED <<page, disk, storeLock, accepted, corpusPacks, budget>>

Tier(p, f) == Tiers[f][op[p].tier[f]]
LastTier(p, f) == op[p].tier[f] = Len(Tiers[f])
CorpusAnswered(p, f) == \E u \in Tier(p, f): u \in DOMAIN op[p].obs /\ op[p].obs[u] # CorpusNothing

\* A page that names none of its identifiers is no reading: unreachable.
Observation(u) == IF page[u] \in NoReadings THEN CorpusNothing ELSE page[u]

Fetch(p) ==
  /\ op[p].at = "fetch"
  /\ \E f \in Frameworks: \E u \in Tier(p, f) \ DOMAIN op[p].obs:
       LET see(t) == CorpusBecome(p, [op[p] EXCEPT !.obs = [x \in DOMAIN @ \cup {u} |-> IF x = u THEN t ELSE @[x]]])
       IN  \/ see(Observation(u)) /\ UNCHANGED budget
           \/ see(CorpusNothing) /\ Use("faults")
  /\ UNCHANGED <<page, disk, storeLock, checkLock, accepted, corpusPacks>>

\* A tier is the reading once one of its urls answered; the last one anyway.
Read(p, f) == Tier(p, f) \subseteq DOMAIN op[p].obs /\ (CorpusAnswered(p, f) \/ LastTier(p, f))
FallBack(p) ==
  /\ op[p].at = "fetch"
  /\ \E f \in Frameworks:
       /\ Tier(p, f) \subseteq DOMAIN op[p].obs /\ ~CorpusAnswered(p, f) /\ ~LastTier(p, f)
       /\ CorpusBecome(p, [op[p] EXCEPT !.tier[f] = @ + 1])
  /\ UNCHANGED <<page, disk, storeLock, checkLock, accepted, corpusPacks, budget>>
Fetched(p) ==
  /\ op[p].at = "fetch" /\ \A f \in Frameworks: Read(p, f)
  /\ CorpusBecome(p, [op[p] EXCEPT !.at = "lock"])
  /\ UNCHANGED <<page, disk, storeLock, checkLock, accepted, corpusPacks, budget>>

-----------------------------------------------------------------------------
(* transaction(): lock, re-load, modify, persist. *)

\* Faulty variant: the file is not read again under the lock.
ReloadedNot(mem) == mem
Reloaded(mem) == disk

TakeStoreLock(p) ==
  /\ op[p].at = "lock" /\ storeLock = "free" /\ storeLock' = p
  /\ CorpusBecome(p, [op[p] EXCEPT !.at = "commit", !.mem = Reloaded(@)])
  /\ UNCHANGED <<page, disk, checkLock, accepted, corpusPacks, budget>>

\* The end of an operation, with its locks.
End(p) ==
  /\ CorpusBecome(p, CorpusIdle)
  /\ storeLock' = IF storeLock = p THEN "free" ELSE storeLock
  /\ checkLock' = IF checkLock = p THEN "free" ELSE checkLock

\* StoreLockTimeout, or an error while the temporary file is written.
LockTimeout(p) ==
  /\ op[p].at = "lock" /\ storeLock # "free" /\ End(p)
  /\ UNCHANGED <<page, disk, accepted, corpusPacks, budget>>
PersistFails(p) ==
  /\ op[p].at = "commit" /\ Use("faults") /\ End(p)
  /\ UNCHANGED <<page, disk, accepted, corpusPacks>>

\* apply_mark keeps the time of the first detection.
Marked(store, fs) ==
  [store EXCEPT !.active = [f \in Frameworks |->
     IF f \in fs /\ @[f] = NoFlag THEN 1 + MaxRuns - budget.runs ELSE @[f]]]

\* Faulty variant: a reading that lacks an identifier is only flagged when its hash changed.
DiffersByHash(store, u, t) == store.src[u] \notin {CorpusNothing, t}
\* _compare: another hash than the stored one, or an identifier is missing.
Differs(store, u, t) == store.src[u] \notin {CorpusNothing, t} \/ t \in Shortened

Readings(q) == {u \in DOMAIN q.obs: q.obs[u] # CorpusNothing}
Compared(q) ==
  LET store == [q.mem EXCEPT !.src = [u \in Urls |-> IF u \in Readings(q) THEN q.obs[u] ELSE @[u]]]
  IN  Marked(store, {f \in Frameworks: \E u \in Readings(q) \cap UrlsOf(f): Differs(q.mem, u, q.obs[u])})

Baselines(q) == {u \in Readings(q): q.mem.src[u] = CorpusNothing /\ q.obs[u] \notin Shortened}
Accept(us, store) == accepted' = [u \in Urls |-> IF u \in us THEN Append(accepted[u], store.src[u]) ELSE accepted[u]]

Persist(p, store) == disk' = store /\ End(p) /\ UNCHANGED <<page, corpusPacks, budget>>

CommitReading(p) ==
  /\ op[p].at = "commit" /\ op[p].kind \in {"check", "file"}
  /\ Persist(p, Compared(op[p])) /\ Accept(Baselines(op[p]), Compared(op[p]))
CommitMark(p) ==
  /\ op[p].at = "commit" /\ op[p].kind = "mark"
  /\ Persist(p, Marked(op[p].mem, {op[p].f})) /\ UNCHANGED accepted
\* A named human's clear; KeyError without a flag, and nothing is written.
CommitClear(p) ==
  /\ op[p].at = "commit" /\ op[p].kind = "clear"
  /\ LET m == op[p].mem  f == op[p].f
     IN  IF m.active[f] = NoFlag THEN End(p) /\ UNCHANGED <<page, disk, accepted, corpusPacks, budget>>
         ELSE /\ Persist(p, [m EXCEPT !.active[f] = NoFlag, !.history = Append(@, [f |-> f, flag |-> m.active[f]])])
              /\ Accept({u \in UrlsOf(f): m.src[u] # CorpusNothing}, m)

\* generate_pack over the store as it was loaded: refused while a flag stands.
WritePack(p) ==
  /\ op[p].at = "pack" /\ CorpusBecome(p, CorpusIdle)
  /\ corpusPacks' = IF \A f \in Frameworks: op[p].mem.active[f] = NoFlag
                     THEN corpusPacks \cup {op[p].mem.src} ELSE corpusPacks
  /\ UNCHANGED <<page, disk, storeLock, checkLock, accepted, budget>>

\* The process dies: the operating system drops its file lock.
CorpusKilled(ps) ==
  /\ \E p \in ps: op[p] # CorpusIdle
  /\ Use("faults")
  /\ op' = [p \in Ops |-> IF p \in ps THEN CorpusIdle ELSE op[p]]
  /\ storeLock' = IF storeLock \in ps THEN "free" ELSE storeLock
  /\ checkLock' = IF checkLock \in ps THEN "free" ELSE checkLock
  /\ UNCHANGED <<page, disk, accepted, corpusPacks>>
ServeDies == CorpusKilled(CorpusServed)
CommandDies(p) == p \in Typed /\ CorpusKilled({p})

RegwatchNext ==
  \/ \E u \in Urls: EditPage(u)
  \/ \E p \in Ops: \/ BeginCheck(p) \/ BeginFile(p) \/ BeginMark(p) \/ BeginClear(p) \/ BeginPack(p)
                   \/ Fly(p) \/ Fetch(p) \/ FallBack(p) \/ Fetched(p) \/ TakeStoreLock(p)
                   \/ LockTimeout(p) \/ PersistFails(p) \/ CommitReading(p) \/ CommitMark(p)
                   \/ CommitClear(p) \/ WritePack(p) \/ CommandDies(p)
  \/ ServeDies
RegwatchSpec == RegwatchInit /\ [][RegwatchNext]_regwatchVars

-----------------------------------------------------------------------------
Covered(u, t) == t = CorpusNothing \/ \E k \in DOMAIN accepted[u]: accepted[u][k] = t

\* No change slips in unseen: while a framework carries no flag, every text
\* stored for its pages is the one its baseline or the last named review took,
\* and it carries every cited identifier or was reviewed; and a pack is only
\* ever written over such texts (regwatch.py run_check, check_file, _compare,
\* staleness.py transaction, evidence_pack.py generate_pack).
CorpusReviewed ==
  /\ \A f \in Frameworks: disk.active[f] = NoFlag =>
       \A u \in UrlsOf(f): disk.src[u] # CorpusNothing =>
         accepted[u] # <<>> /\ accepted[u][Len(accepted[u])] = disk.src[u]
  /\ \A s \in corpusPacks, u \in Urls: Covered(u, s[u])

\* A flag goes only with a named review in the history, keeps the time of its
\* first detection, and no review already recorded is lost to another writer
\* (staleness.py module docstring: "Neither order loses it").
ReviewsKept ==
  [][/\ Len(disk'.history) >= Len(disk.history) /\ SubSeq(disk'.history, 1, Len(disk.history)) = disk.history
     /\ \A f \in Frameworks: disk.active[f] # NoFlag /\ disk'.active[f] # disk.active[f] =>
          /\ disk'.active[f] = NoFlag
          /\ \E k \in Len(disk.history) + 1..Len(disk'.history): disk'.history[k].f = f]_regwatchVars
=============================================================================
