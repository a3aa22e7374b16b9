------------------------------ MODULE BoardPack -------------------------------
(***************************************************************************)
(* services/attestation-reporter: PackEngine.build asks the estate's        *)
(* services for one figure after another, over a window resolved before the *)
(* first question, while events go on being appended and archived.  The     *)
(* ledger's integrity and its earliest live event are asked after every     *)
(* count of the governance sections.  An upstream that gave no answer is    *)
(* not asked again in that build.  Who signs and publishes a pack follows   *)
(* below.                                                                   *)
(***************************************************************************)
EXTENDS Naturals, Sequences, FiniteSets

CONSTANTS
  PackRequests,                               \* [period, since, until]: what a caller may ask for
  Quarter,                                    \* the one quarter a period can name, [since, until]
  Written,                                    \* the events the estate writes, [kind, agent]
  PackMaxEvents, PackMaxArchives, PackFaults, \* bounds
  PackMaxBoth                                 \* bound of the events and the faults together

ASSUME PackAssumption ==
  PackRequests \subseteq [period : BOOLEAN, since : Nat, until : Nat] /\ Quarter \in [since : Nat, until : Nat]

VARIABLES
  events,            \* the ledger, [kind, agent]; event i was written at instant i
  packArchived,      \* how many of the oldest are no longer live
  pack,              \* the build in progress or its result
  waits,             \* upstream -> timeouts this build waited out
  packFaults

packVars == <<events, packArchived, pack, waits, packFaults>>

Open == 0                                \* a bound that is not there
PackVerdicts == {"allow", "block", "shadow"}
EventKinds == PackVerdicts \cup {"due"}      \* lifecycle.reattestation_due
Upstreams == {"delegation", "ledger"}    \* registry and governor: as delegation
PackIdle == [at |-> 0]

PackInit ==
  /\ events = <<>> /\ packArchived = 0
  /\ pack = PackIdle /\ waits = [u \in Upstreams |-> 0] /\ packFaults = 0

-----------------------------------------------------------------------------
(* The estate goes on. *)

PackAppend1(e) ==
  /\ Len(events) < PackMaxEvents /\ Len(events) + packFaults < PackMaxBoth
  /\ events' = Append(events, e)
  /\ UNCHANGED <<packArchived, pack, waits, packFaults>>
PackArchive ==
  /\ packArchived < PackMaxArchives /\ packArchived + 1 < Len(events)   \* the open segment stays
  /\ packArchived' = packArchived + 1
  /\ UNCHANGED <<events, pack, waits, packFaults>>

-----------------------------------------------------------------------------
(* window.py. *)

\* A start without an end is closed at the generation instant.
PackResolved(req, now) ==
  IF req.period THEN Quarter
  ELSE [since |-> req.since, until |-> IF req.since # Open /\ req.until = Open THEN now ELSE req.until]
\* A period and a bound exclude each other; a start lies not after its end.
Invalid(req, now) ==
  \/ req.period /\ (req.since # Open \/ req.until # Open)
  \/ ~req.period /\ (IF req.until = Open THEN now ELSE req.until) < req.since
Within(i, w) == (w.since = Open \/ w.since <= i) /\ (w.until = Open \/ i <= w.until)

-----------------------------------------------------------------------------
(* The build: its questions in order. *)

\* Faulty variant: the integrity section is asked in the order it is printed, first.
PlanPrinted == <<"verify", "health", "allow", "block", "shadow", "tokens", "revoked", "due", "gate">>
Plan == <<"allow", "block", "shadow", "tokens", "revoked", "due", "verify", "health", "gate">>
UpstreamOf(row) == IF row \in {"tokens", "revoked"} THEN "delegation" ELSE "ledger"

Rows == {Plan[k]: k \in DOMAIN Plan}
PackUnavailable == [status |-> "unavailable"]
Figure(v) == [status |-> "ok", value |-> v]

Build(req) ==
  /\ pack.at = 0
  /\ ~Invalid(req, Len(events))            \* 422, nothing asked
  /\ pack' = [at |-> 1, req |-> req, window |-> PackResolved(req, Len(events)), asked |-> Len(events), down |-> {},
              rows |-> [r \in Rows |-> PackUnavailable], note |-> "none"]
  /\ waits' = [u \in Upstreams |-> 0]
  /\ UNCHANGED <<events, packArchived, packFaults>>

\* What /events answers now: the live events of the kind inside the window,
\* and what is left of them without the canaries (CANARY_AGENTS, by exact id).
Matching(kind, w) == {i \in packArchived + 1..Len(events): events[i].kind = kind /\ Within(i, w)}
Counted(ids) == {i \in ids: events[i].agent # "canary"}
\* A kind's count and, for the sweeps' findings, how many agents they are about.
PackAnswer(row) ==
  CASE row \in EventKinds ->
         LET ids == Counted(Matching(row, pack.window))
         IN  [count |-> Cardinality(ids), distinct |-> Cardinality({events[i].agent: i \in ids})]
    [] row = "verify" -> "INTACT"
    [] row = "health" -> packArchived
    [] OTHER -> 0        \* tokens, canaries: figures no property is about

\* The window starts before the earliest live event, and events were archived.
EarliestLive(w, gone) == IF gone > 0 /\ ~(w.since # Open /\ gone < w.since) THEN "earliest" ELSE "none"

Now == Plan[pack.at]
PackNoted(row, v) == IF row = "health" THEN EarliestLive(pack.window, v) ELSE pack.note
\* An integrity that has no result asks no /health.
Next1(row, ok) == pack.at + (IF row = "verify" /\ ~ok THEN 2 ELSE 1)

Asking == pack.at \in DOMAIN Plan /\ UNCHANGED <<events, packArchived>>
PackAnswered ==
  /\ Asking /\ UpstreamOf(Now) \notin pack.down
  /\ LET v == PackAnswer(Now)
     IN  pack' = [pack EXCEPT !.at = @ + 1, !.rows[Now] = Figure(v), !.note = PackNoted(Now, v)]
  /\ UNCHANGED <<waits, packFaults>>
\* No figure: the row says unavailable; the note that /health could not give says so.
NoFigure(down) ==
  pack' = [pack EXCEPT !.at = Next1(Now, FALSE), !.down = down,
                       !.note = IF Now = "health" THEN "unreadable" ELSE @]
PackMayFail == packFaults < PackFaults /\ Len(events) + packFaults < PackMaxBoth
\* An HTTP status, a busy ledger, or a 200 that holds no list of records.
Unusable ==
  /\ Asking /\ UpstreamOf(Now) \notin pack.down /\ PackMayFail
  /\ NoFigure(pack.down) /\ packFaults' = packFaults + 1 /\ UNCHANGED waits
\* Faulty variant: the upstream is asked again for the next figure.
DownAgain(u) == pack.down
Down(u) == pack.down \cup {u}
PackNoAnswer ==
  /\ Asking /\ UpstreamOf(Now) \notin pack.down /\ PackMayFail
  /\ NoFigure(Down(UpstreamOf(Now))) /\ packFaults' = packFaults + 1
  /\ waits' = [waits EXCEPT ![UpstreamOf(Now)] = @ + 1]
PackSkipped ==
  /\ Asking /\ UpstreamOf(Now) \in pack.down
  /\ NoFigure(pack.down) /\ UNCHANGED <<waits, packFaults>>
PackRead == pack.at > Len(Plan) /\ pack' = PackIdle /\ UNCHANGED <<events, packArchived, waits, packFaults>>

PackNext ==
  \/ \E e \in Written: PackAppend1(e)
  \/ PackArchive
  \/ \E req \in PackRequests: Build(req)
  \/ PackAnswered \/ Unusable \/ PackNoAnswer \/ PackSkipped \/ PackRead
PackSpec == PackInit /\ [][PackNext]_packVars

-----------------------------------------------------------------------------
(* The conformance rate, from the verdict rows once all of them have a figure. *)

Ok(row) == pack.rows[row].status = "ok"
ValueOf(row) == pack.rows[row].value.count
Total(kinds) == (IF "allow" \in kinds THEN ValueOf("allow") ELSE 0) + (IF "block" \in kinds THEN ValueOf("block") ELSE 0)
                + (IF "shadow" \in kinds THEN ValueOf("shadow") ELSE 0)
Rate ==
  IF \A v \in PackVerdicts: Ok(v)
  THEN Figure([allows |-> ValueOf("allow"), total |-> Total(PackVerdicts)]) ELSE PackUnavailable

Whole == pack.at > Len(Plan) /\ Ok("verify") /\ pack.note = "none"
\* Every event of the kind the window names, archived or not, up to the n-th.
Evidence(kind, n) == {i \in 1..n: events[i].kind = kind /\ events[i].agent # "canary" /\ Within(i, pack.window)}

\* A pack that says INTACT and notes nothing has counted, in each figure it
\* prints, every governed event of the window that was in the ledger when the
\* build began, and no event twice; a window that was given a start alone is
\* closed, so its figure is what the printed query gives ever after (engine.py
\* _build, _integrity, _earliest_live_note; window.py resolve_window).
HonestCounts ==
  Whole => \A kind \in EventKinds: Ok(kind) =>
    LET n == ValueOf(kind)
    IN  /\ Cardinality(Evidence(kind, pack.asked)) <= n /\ n <= Cardinality(Evidence(kind, Len(events)))
        /\ pack.req.since # Open /\ pack.req.until = Open => n = Cardinality(Evidence(kind, Len(events)))
        /\ pack.rows[kind].value.distinct <= n
\* A rate of 100 % means no violation of the window, enforced or log-only, was
\* in the ledger when the build began (engine.py _build, "shadow verdicts count").
RateHonest ==
  Whole /\ Rate.status = "ok" =>
    /\ Rate.value.allows <= Rate.value.total
    /\ Rate.value.allows = Rate.value.total => Evidence("block", pack.asked) \cup Evidence("shadow", pack.asked) = {}
\* A dropped upstream costs a build one timeout, not one per figure (build).
OneTimeout == \A u \in Upstreams: waits[u] <= 1

PackSound == HonestCounts /\ RateHonest /\ OneTimeout

-----------------------------------------------------------------------------
(***************************************************************************)
(* services/attestation-reporter: who signs a pack and what a reader of its *)
(* file can rely on.  `attest render` builds, signs with the CLI's key when *)
(* one is given, and writes board-pack.json and board-pack.html through two *)
(* temporary files; the served app signs with the estate key it loaded at   *)
(* its start.  A signed file may be edited before `attest verify` reads it. *)
(***************************************************************************)

CONSTANTS
  Renders,                        \* runs of `attest render` into one --out
  Keys,                           \* Ed25519 keys
  EstateKeys,                     \* what FIELD_ATTEST_SIGN_KEY may name: keys, "bad", "unset"
  Signers,                        \* FIELD_ATTEST_SIGNER and --signer, "" when unset or blank
  MaxPacks, FileFaults, MaxEdits  \* bounds

ASSUME FileAssumption == MaxPacks \in Nat /\ FileFaults \in Nat /\ MaxEdits \in Nat

VARIABLES
  packs,             \* packs built so far
  served,            \* ServedSigning: the served app's state, decided at its start
  file,              \* "json", "html" -> what lies there
  fileTmp,           \* the two temporary names beside them
  fileRun,           \* render -> where it is
  issued,            \* [pack, key] that sign_pack returned
  torn,              \* renders overlapped, or one was killed half way
  fileFaults, edits

fileVars == <<packs, served, file, fileTmp, fileRun, issued, torn, fileFaults, edits>>

FileNone == [pack |-> 0]
Sides == {"json", "html"}
FileNoKey == "none"
Draft(n) == [pack |-> n, signed |-> FALSE, signer |-> "", via |-> "none", key |-> FileNoKey, added |-> FALSE, sig |-> {}]
Done == [pc |-> "done"]

-----------------------------------------------------------------------------
(* sign_pack and verify_pack. *)

\* canonical_manifest_bytes of everything but the signature.
SignedBytes(p) ==
  [pack |-> p.pack, signed |-> p.signed, signer |-> p.signer,
   via |-> p.via, key |-> p.key, added |-> p.added]
SignPack(p, signer, key, via) ==
  LET view == [p EXCEPT !.signed = TRUE, !.signer = signer, !.via = via, !.key = key]
  IN  [view EXCEPT !.sig = {[bytes |-> SignedBytes(view), key |-> key]}]

\* parse_pack_json and verify_pack over the raw file: it says signed, names a
\* signer, its fingerprint is the supplied key's and the signature holds.
Verifies(p, key) ==
  /\ p # FileNone /\ p.signed /\ p.signer # ""
  /\ p.key = key /\ p.sig = {[bytes |-> SignedBytes(p), key |-> key]}

-----------------------------------------------------------------------------
(* The served app. *)

\* served_signing_from_env: off, error (unsigned drafts) or on.
ServedSigning(signer, key) ==
  CASE signer = "" /\ key = "unset" -> [status |-> "off"]
    [] signer = "" \/ key \notin Keys -> [status |-> "error"]
    [] OTHER -> [status |-> "on", signer |-> signer, key |-> key]
StartApp ==
  /\ edits < MaxEdits /\ edits' = edits + 1
  /\ \E signer \in Signers, key \in EstateKeys: served' = ServedSigning(signer, key)
  /\ UNCHANGED <<packs, file, fileTmp, fileRun, issued, torn, fileFaults>>
\* GET /pack, saved by its reader where a rendered pack would lie.
Serve ==
  /\ packs < MaxPacks /\ packs' = packs + 1 /\ \A r \in Renders: fileRun[r] = Done
  /\ LET p == IF served.status = "on" THEN SignPack(Draft(packs'), served.signer, served.key, "estate-key")
              ELSE Draft(packs')
     IN  /\ file' = [s \in Sides |-> p]
         /\ issued' = IF p.signed THEN issued \cup {[pack |-> p, key |-> p.key]} ELSE issued
  /\ UNCHANGED <<served, fileTmp, fileRun, torn, fileFaults, edits>>

-----------------------------------------------------------------------------
(* attest render: _write_pair. *)

FileGoes(r, pc) == fileRun' = [fileRun EXCEPT ![r].pc = pc]
RestSame == UNCHANGED <<packs, served, issued, fileFaults, edits>>

\* Refusals (window, blank signer, unusable key) come before any question or file.
Render(r) ==
  /\ fileRun[r] = Done /\ packs < MaxPacks /\ packs' = packs + 1
  /\ \E signer \in Signers, key \in Keys:
       LET p == IF signer # "" THEN SignPack(Draft(packs'), signer, key, "cli") ELSE Draft(packs')
       IN  /\ fileRun' = [fileRun EXCEPT ![r] = [pc |-> "tmp_json", pack |-> p, prev |-> FileNone]]
           /\ issued' = IF p.signed THEN issued \cup {[pack |-> p, key |-> key]} ELSE issued
  /\ torn' = (torn \/ \E other \in Renders: fileRun[other] # Done)
  /\ UNCHANGED <<served, file, fileTmp, fileFaults, edits>>
WriteTmp(r, side, pc, next) ==
  /\ fileRun[r].pc = pc
  /\ fileTmp' = [fileTmp EXCEPT ![side] = fileRun[r].pack] /\ FileGoes(r, next)
  /\ UNCHANGED <<file, torn>> /\ RestSame
\* The bytes that are there, to be put back; then the first rename.
ReplaceFirst(r) ==
  /\ fileRun[r].pc = "replace_json" /\ fileTmp["json"] # FileNone
  /\ fileRun' = [fileRun EXCEPT ![r] = [@ EXCEPT !.pc = "replace_html", !.prev = file["json"]]]
  /\ file' = [file EXCEPT !["json"] = fileTmp["json"]] /\ fileTmp' = [fileTmp EXCEPT !["json"] = FileNone]
  /\ UNCHANGED torn /\ RestSame
ReplaceSecond(r) ==
  /\ fileRun[r].pc = "replace_html" /\ fileTmp["html"] # FileNone
  /\ file' = [file EXCEPT !["html"] = fileTmp["html"]] /\ fileTmp' = [fileTmp EXCEPT !["html"] = FileNone]
  /\ FileGoes(r, "clean") /\ UNCHANGED torn /\ RestSame
FileClean(r) ==
  /\ fileRun[r].pc = "clean"
  /\ fileTmp' = [s \in Sides |-> FileNone] /\ fileRun' = [fileRun EXCEPT ![r] = Done]
  /\ UNCHANGED <<file, torn>> /\ RestSame

\* Faulty variant: a failed second rename leaves the new first file.
PutBackNot(r) == file["json"]
\* The second rename failed: the first file is what it was, or gone again.
PutBack(r) == fileRun[r].prev
\* An OSError: at the renames also because another run took the temporary name.
RenderFails(r) ==
  /\ fileRun[r] # Done /\ fileRun[r].pc # "clean"
  /\ \/ fileFaults < FileFaults /\ fileFaults' = fileFaults + 1
     \/ fileRun[r].pc \in {"replace_json", "replace_html"} /\ UNCHANGED fileFaults
        /\ fileTmp[IF fileRun[r].pc = "replace_json" THEN "json" ELSE "html"] = FileNone
  /\ file' = IF fileRun[r].pc = "replace_html" THEN [file EXCEPT !["json"] = PutBack(r)] ELSE file
  /\ FileGoes(r, "clean")
  /\ UNCHANGED <<packs, served, fileTmp, issued, torn, edits>>
\* The put-back is a write or an unlink itself: it fails too, and the first
\* file stays the new one, or what write_bytes has truncated.
PutBackFails(r) ==
  /\ fileRun[r].pc = "replace_html" /\ fileFaults < FileFaults /\ fileFaults' = fileFaults + 1
  /\ \/ UNCHANGED file
     \/ fileRun[r].prev # FileNone /\ file' = [file EXCEPT !["json"] = FileNone]
  /\ FileGoes(r, "clean") /\ torn' = TRUE
  /\ UNCHANGED <<packs, served, fileTmp, issued, edits>>
FileKilled(r) ==
  /\ fileFaults < FileFaults /\ fileFaults' = fileFaults + 1
  /\ fileRun[r] # Done /\ fileRun' = [fileRun EXCEPT ![r] = Done] /\ torn' = TRUE
  /\ UNCHANGED <<packs, served, file, fileTmp, issued, edits>>

RenderStep(r) ==
  \/ Render(r) \/ WriteTmp(r, "json", "tmp_json", "tmp_html") \/ WriteTmp(r, "html", "tmp_html", "replace_json")
  \/ ReplaceFirst(r) \/ ReplaceSecond(r) \/ FileClean(r) \/ RenderFails(r) \/ PutBackFails(r)
  \/ FileKilled(r)

\* Someone edits the file: a figure, the names in it, or a key of their own.
Edit ==
  /\ edits < MaxEdits /\ edits' = edits + 1 /\ file["json"] # FileNone
  /\ \E p \in {[file["json"] EXCEPT !.pack = MaxPacks + 1], [file["json"] EXCEPT !.added = TRUE],
               [file["json"] EXCEPT !.via = "cli"], [file["json"] EXCEPT !.signed = ~@]}
              \cup {[file["json"] EXCEPT !.signer = s]: s \in Signers} \cup {[file["json"] EXCEPT !.key = k]: k \in Keys}:
       file' = [file EXCEPT !["json"] = p]
  /\ torn' = TRUE /\ UNCHANGED <<packs, served, fileTmp, fileRun, issued, fileFaults>>

FileInit ==
  /\ packs = 0 /\ served \in {ServedSigning(s, k): s \in Signers, k \in EstateKeys}
  /\ file = [s \in Sides |-> FileNone] /\ fileTmp = file /\ fileRun = [r \in Renders |-> Done]
  /\ issued = {} /\ torn = FALSE /\ fileFaults = 0 /\ edits = 0
FileNext == StartApp \/ Serve \/ Edit \/ \E r \in Renders: RenderStep(r)
FileSpec == FileInit /\ [][FileNext]_fileVars

-----------------------------------------------------------------------------
\* A board-pack.json that `attest verify` accepts under a key is, field for
\* field and provenance included, a pack that was signed with that key under
\* that signer, by the render or by the served app it names (signing.py).
VerifiedIsIssued ==
  \A k \in Keys: Verifies(file["json"], k) => [pack |-> file["json"], key |-> k] \in issued
\* The two files of a pack belong together whenever no render is at work,
\* whichever step of the writing failed, unless two renders overlapped, one was
\* killed or its put-back failed too (_write_pair: "Write both files or neither").
PairBelongs == ~torn /\ (\A r \in Renders: fileRun[r] = Done) => file["json"] = file["html"]
PackFileSound == VerifiedIsIssued /\ PairBelongs
===============================================================================
