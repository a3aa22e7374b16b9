-------------------------------- MODULE Bundle --------------------------------
(***************************************************************************)
(* The evidence a ledger hands to somebody else: the export bundle that    *)
(* `ledger export` writes and `ledger verify-export` re-checks offline,    *)
(* and the archived segment that `ledger verify` checks beside its         *)
(* sidecar.  Copies go bad on the way: lines are lost, reordered, altered. *)
(***************************************************************************)
EXTENDS Integers, Sequences, SequencesExt, FiniteSets

CONSTANTS
  Agents,          \* agents the events are about
  MaxEvents,       \* events the chain may hold (bound)
  Times,           \* timestamps an event may carry
  MaxDamage        \* places at which a copy is damaged (bound)

VARIABLES
  chain,           \* the whole chain, archived events included
  segments,        \* each segment's [start, prev], as the journal has it
  archived,        \* leading segments that left the live directory
  export,          \* the `ledger export` run: which files it has written
  bundle,          \* what those files hold
  copy,            \* an archived segment with its sidecar, as its reader holds it
  damage           \* damage left

bundleVars == <<chain, segments, archived, export, bundle, copy, damage>>

BundleNone == -1
NoHash == <<"none">>
BundleGenesis == <<>>
BundleNoKey == "no key"
Key == "key"
NoAgent == "<none>"
BundleNothing == [at |-> "nothing"]
BundleFiles == <<"events", "chain_proof", "summary", "signature">>

Digest(e) == <<e.prev, e.id, e.agent, e.ts, e.closes>>
Sealed(body) == [body EXCEPT !.hash = Digest(body)]
HashAfter(s) == IF s = <<>> THEN BundleGenesis ELSE s[Len(s)].hash
NewEvent(agent, ts, closes) ==
  Sealed([id |-> Len(chain), agent |-> agent, ts |-> ts, closes |-> closes,
          prev |-> HashAfter(chain), hash |-> NoHash])

Start == segments[archived + 1].start           \* earliest_live_index
Live == SubSeq(chain, Start + 1, Len(chain))

\* verify_chain: every link and every hash, from the hash the first event must follow.
VerifyChain(s, genesis) ==
  \A i \in DOMAIN s: /\ s[i].prev = (IF i = 1 THEN genesis ELSE s[i - 1].hash)
                     /\ s[i].hash = Digest(s[i])

Verification ==
  [ok |-> VerifyChain(Live, segments[archived + 1].prev), length |-> Len(chain),
   segmented |-> Len(segments) > 1, verified |-> Len(Live), archived |-> archived]

BundleInit ==
  /\ chain = <<>> /\ segments = <<[start |-> 0, prev |-> BundleGenesis]>> /\ archived = 0
  /\ export = BundleNothing /\ bundle = BundleNothing /\ copy = BundleNothing /\ damage = MaxDamage

\* A copy is taken from one read of the ledger and never looks at it again, so
\* the ledger moves only until then.
Uncopied == export = BundleNothing /\ copy = BundleNothing
LedgerStep == Uncopied /\ UNCHANGED <<export, bundle, copy, damage>>

BundleRecord ==
  /\ Len(chain) < MaxEvents
  /\ \E a \in Agents, t \in Times: chain' = Append(chain, NewEvent(a, t, <<>>))
  /\ UNCHANGED <<segments, archived>> /\ LedgerStep

\* The rotation event is the first of the new segment: it closes the one before.
Rotate ==
  /\ Len(chain) < MaxEvents /\ Len(chain) > segments[Len(segments)].start
  /\ LET closes == <<Len(segments), Len(chain) - 1, HashAfter(chain)>>
     IN  chain' = Append(chain, NewEvent(NoAgent, CHOOSE t \in Times: TRUE, closes))
  /\ segments' = Append(segments, [start |-> Len(chain), prev |-> HashAfter(chain)])
  /\ UNCHANGED archived /\ LedgerStep

\* Retention verifies the live chain before it archives a segment.
BundleArchive ==
  /\ archived + 1 < Len(segments) /\ Verification.ok
  /\ archived' = archived + 1
  /\ UNCHANGED <<chain, segments>> /\ LedgerStep

\* The live file itself is edited: an event's agent changes, its hash stays.
LedgerAltered ==
  /\ Uncopied /\ damage > 0 /\ damage' = damage - 1
  /\ \E i \in Start + 1 .. Len(chain), a \in Agents:
       /\ chain[i].agent # a
       /\ chain' = [chain EXCEPT ![i].agent = a]
  /\ UNCHANGED <<segments, archived, export, bundle, copy>>

-----------------------------------------------------------------------------
(* Writing a bundle. *)

NoFilter == [agent_id |-> NoAgent, since |-> 0]
Filters == {NoFilter} \cup [agent_id: Agents \cup {NoAgent}, since: {0} \cup Times]

Matches(f, e) ==
  /\ f.agent_id # NoAgent => e.agent = f.agent_id
  /\ f.since # 0 => e.ts >= f.since

Selected(f) ==
  SelectSeq([k \in DOMAIN Live |-> Start + k - 1], LAMBDA i: Matches(f, chain[i + 1]))

Spine(first, events, from) ==
  [k \in 1 .. Len(events) - (first - from) |->
     LET e == events[first - from + k]
     IN  [index |-> first + k - 1, id |-> e.id, prev |-> e.prev, hash |-> e.hash]]

Tally(lines) == [a \in Agents \cup {NoAgent} |-> Cardinality({j \in DOMAIN lines: lines[j].agent = a})]
Span(lines) == IF lines = <<>> THEN <<>> ELSE <<lines[1].ts, lines[Len(lines)].ts>>

\* The files written for the events at `indices` of a chain whose live part,
\* from global index `from`, is `events`.
BundleWritten(events, from, indices, f, v, key) ==
  LET empty == indices = <<>>
      first == IF empty THEN BundleNone ELSE indices[1]
      lines == [j \in DOMAIN indices |-> events[indices[j] - from + 1]]
      ends == [first |-> first, last |-> IF empty THEN BundleNone ELSE indices[Len(indices)],
               head |-> IF events = <<>> THEN BundleNone ELSE from + Len(events) - 1,
               hash |-> HashAfter(events)]
      summary == [ends |-> ends, count |-> Len(lines), indices |-> indices, tally |-> Tally(lines),
                  span |-> Span(lines), verification |-> v, signed |-> key # BundleNoKey]
      proof == [ends |-> ends, verification |-> v, filters |-> f,
                prev |-> IF empty THEN NoHash ELSE events[first - from + 1].prev,
                spine |-> IF empty THEN <<>> ELSE Spine(first, events, from)]
  IN  [at |-> "written", lines |-> lines, summary |-> summary, proof |-> proof,
       signature |-> [signed |-> key # BundleNoKey, key |-> key, over |-> <<summary, proof>>]]

\* One snapshot of the live chain serves the selection, the spine and the verification.
ExportReads ==
  /\ Uncopied
  /\ \E f \in Filters, key \in {BundleNoKey, Key}:
       LET b == BundleWritten(Live, Start, Selected(f), f, Verification, key)
       IN  /\ bundle' = b
           /\ export' = [at |-> "writing", files |-> 0, key |-> key, source |-> b, live |-> Live]
  /\ UNCHANGED <<chain, segments, archived, copy, damage>>

ExportWrites ==
  /\ export.at = "writing"
  /\ export' = [export EXCEPT !.files = @ + 1, !.at = IF export.files + 1 = Len(BundleFiles) THEN "done" ELSE @]
  /\ UNCHANGED <<chain, segments, archived, bundle, copy, damage>>

\* Killed while writing: the directory stays as it is, and is never reused.
ExportKilled ==
  /\ export.at = "writing"
  /\ export' = [export EXCEPT !.at = "killed"]
  /\ UNCHANGED <<chain, segments, archived, bundle, copy, damage>>

-----------------------------------------------------------------------------
(* Verifying it: _verify's steps, in its order. *)

Present(files) == files = Len(BundleFiles)

SignatureHolds(b, key) ==
  /\ b.signature.signed => b.signature.key # BundleNoKey
  /\ key # BundleNoKey => /\ b.signature.signed /\ b.signature.key = key
                          /\ b.signature.over = <<b.summary, b.proof>>
  /\ b.summary.signed = b.signature.signed

ExporterVerified(b) ==
  b.proof.verification.ok /\ b.summary.verification = b.proof.verification

HeaderAgrees(b) ==
  LET p == b.proof  s == b.summary
  IN  /\ s.ends = p.ends
      /\ p.verification.length = p.ends.head + 1
      /\ p.ends.head = BundleNone => p.ends.hash = BundleGenesis
      /\ Len(s.indices) = s.count
      /\ \A k \in 2 .. Len(s.indices): s.indices[k] > s.indices[k - 1]
      /\ IF s.indices # <<>>
         THEN /\ s.indices[1] = p.ends.first /\ s.indices[Len(s.indices)] = p.ends.last
              /\ p.ends.head # BundleNone
         ELSE p.ends.first = BundleNone /\ p.ends.last = BundleNone /\ p.spine = <<>> /\ p.prev = NoHash

Unfiltered(b) == b.proof.filters = NoFilter
\* Faulty variant: the live part is taken for the archived one.
ArchivedPrefixLive(v) == IF v.segmented THEN v.verified ELSE 0
ArchivedPrefix(v) == IF v.segmented THEN v.length - v.verified ELSE 0

PrefixAgrees(b) ==
  LET v == b.proof.verification
  IN  v.segmented =>
        /\ v.verified >= 0 /\ v.verified <= v.length
        /\ ArchivedPrefix(v) > 0 <=> v.archived > 0
        /\ b.summary.indices # <<>> => b.summary.indices[1] >= ArchivedPrefix(v)

SpineHolds(b) ==
  LET p == b.proof  spine == b.proof.spine
  IN  p.ends.first # BundleNone =>
        /\ p.ends.first = 0 => p.prev = BundleGenesis
        /\ Len(spine) = p.ends.head - p.ends.first + 1
        /\ \A k \in DOMAIN spine: /\ spine[k].index = p.ends.first + k - 1
                                  /\ spine[k].prev = (IF k = 1 THEN p.prev ELSE spine[k - 1].hash)
        /\ spine # <<>> => spine[Len(spine)].hash = p.ends.hash

\* The first live event after an archived prefix closed the last archived segment.
ClosesPrefix(e, v) == e.closes = <<v.archived, ArchivedPrefix(v) - 1, e.prev>>

EventHolds(b, j) ==
  LET e == b.lines[j]  p == b.proof  index == b.summary.indices[j]  v == p.verification
      k == index - p.ends.first + 1
  IN  /\ Unfiltered(b) => index = ArchivedPrefix(v) + j - 1
      /\ k \in DOMAIN p.spine
      /\ e.id = p.spine[k].id
      /\ e.hash = Digest(e)
      /\ e.hash = p.spine[k].hash /\ e.prev = p.spine[k].prev
      /\ Matches(p.filters, e)
      /\ Unfiltered(b) /\ ArchivedPrefix(v) > 0 /\ index = ArchivedPrefix(v) => ClosesPrefix(e, v)

\* Faulty variant: the walk over the listed indices is all there is.
TailExportedAnyway(b) == TRUE
TailExported(b) ==
  Unfiltered(b) => Len(b.summary.indices) >= b.proof.ends.head + 1 - ArchivedPrefix(b.proof.verification)

EventsHold(b) ==
  /\ Len(b.lines) = Len(b.summary.indices)
  /\ \A j \in DOMAIN b.lines: EventHolds(b, j)
  /\ TailExported(b)

CountsHold(b) == b.summary.tally = Tally(b.lines) /\ b.summary.span = Span(b.lines)

VerifyBundle(b, files, key) ==
  /\ Present(files) /\ SignatureHolds(b, key) /\ ExporterVerified(b)
  /\ HeaderAgrees(b) /\ PrefixAgrees(b) /\ SpineHolds(b) /\ EventsHold(b) /\ CountsHold(b)

-----------------------------------------------------------------------------
(* Archived segments: a file and a sidecar, signed anchor included. *)

Sidecar(n) ==
  LET next == segments[n + 1]
  IN  [n |-> n, start |-> segments[n].start, end |-> next.start - 1, prev |-> segments[n].prev,
       head |-> next.prev, sha |-> SubSeq(chain, segments[n].start + 1, next.start),
       anchor |-> [head |-> next.prev, length |-> next.start, segment |-> n]]

CopyTaken ==
  /\ Uncopied
  /\ \E n \in 1 .. archived:
       copy' = [at |-> "held", n |-> n, lines |-> Sidecar(n).sha, side |-> Sidecar(n),
                source |-> Sidecar(n)]
  /\ UNCHANGED <<chain, segments, archived, export, bundle, damage>>

VerifySegmentFile(c, key) ==
  LET side == c.side
  IN  /\ side.n = 1 => side.start = 0 /\ side.prev = BundleGenesis
      /\ VerifyChain(c.lines, side.prev)
      /\ Len(c.lines) = side.end - side.start + 1
      /\ HashAfter(c.lines) = side.head
      /\ c.lines = side.sha
      /\ key # BundleNoKey => side.anchor = [head |-> side.head, length |-> side.end + 1, segment |-> side.n]

\* A file and its sidecar are one pair: both may be damaged together, the
\* signed anchor only as a whole.
CopyDamages(c) ==
  {[c EXCEPT !.lines = RemoveAt(c.lines, j)]: j \in DOMAIN c.lines}
  \cup {[c EXCEPT !.lines[j].agent = a]: j \in DOMAIN c.lines, a \in Agents}
  \cup {LET kept == SubSeq(c.lines, 2, Len(c.lines))
        IN  [c EXCEPT !.lines = kept, !.side.start = @ + 1, !.side.sha = kept,
                      !.side.prev = c.lines[1].hash]: j \in {1} \cap DOMAIN c.lines}
  \cup {LET kept == SubSeq(c.lines, 1, Len(c.lines) - 1)
        IN  [c EXCEPT !.lines = kept, !.side.end = @ - 1, !.side.sha = kept,
                      !.side.head = HashAfter(kept)]: j \in {1} \cap DOMAIN c.lines}

CopyDamaged ==
  /\ copy # BundleNothing /\ damage > 0 /\ damage' = damage - 1
  /\ copy' \in CopyDamages(copy)
  /\ UNCHANGED <<chain, segments, archived, export, bundle>>

-----------------------------------------------------------------------------
(* Damage to a finished bundle: one file changed in one place, or a tool   *)
(* that rewrites the bundle consistently for fewer events.                 *)

LineDamages(b) ==
  {[b EXCEPT !.lines = RemoveAt(b.lines, j)]: j \in DOMAIN b.lines}
  \cup {[b EXCEPT !.lines[j] = b.lines[j + 1], !.lines[j + 1] = b.lines[j]]: j \in 1 .. Len(b.lines) - 1}
  \cup {[b EXCEPT !.lines[j].agent = a]: j \in DOMAIN b.lines, a \in Agents}
  \cup {[b EXCEPT !.lines[j] = Sealed([b.lines[j] EXCEPT !.agent = a])]: j \in DOMAIN b.lines, a \in Agents}

ProofDamages(b) ==
  {[b EXCEPT !.proof.filters = f]: f \in Filters}
  \cup {[b EXCEPT !.proof.spine = RemoveAt(@, k)]: k \in DOMAIN b.proof.spine}
  \cup {[b EXCEPT !.summary.signed = FALSE, !.signature = [@ EXCEPT !.signed = FALSE, !.key = BundleNoKey]]}

\* Without one of the events, or without the newest one, which the copied
\* verification may or may not still count.
Rewrites(b, live) ==
  LET v == b.proof.verification
      from == v.length - Len(live)
      Again(events, indices, w) ==
        [BundleWritten(events, from, indices, b.proof.filters, w, b.signature.key)
           EXCEPT !.signature.over = b.signature.over]
  IN  {Again(live, RemoveAt(b.summary.indices, j), v): j \in DOMAIN b.summary.indices}
      \cup {Again(Front(live), SelectSeq(b.summary.indices, LAMBDA i: i < from + Len(live) - 1),
                  [v EXCEPT !.length = @ - less, !.verified = @ - less])
              : less \in {k \in {0, 1}: live # <<>>}}

BundleDamaged ==
  /\ export.at = "done" /\ damage > 0 /\ damage' = damage - 1
  /\ bundle' \in LineDamages(bundle) \cup ProofDamages(bundle)
                 \cup Rewrites(export.source, export.live)
  /\ UNCHANGED <<chain, segments, archived, export, copy>>

BundleNext ==
  \/ BundleRecord \/ Rotate \/ BundleArchive \/ LedgerAltered
  \/ ExportReads \/ ExportWrites \/ ExportKilled \/ BundleDamaged
  \/ CopyTaken \/ CopyDamaged
BundleSpec == BundleInit /\ [][BundleNext]_bundleVars
-----------------------------------------------------------------------------
\* A bundle nobody touched verifies exactly when the chain it came from did,
\* whatever was filtered, archived or empty, and under its signer's key when
\* it was signed; so does an archived segment beside its sidecar (write_bundle
\* against _verify, verify_segment_file).
FreshVerifies ==
  /\ export # BundleNothing /\ export.at = "done" /\ bundle = export.source =>
       \A key \in {BundleNoKey, Key}:
         VerifyBundle(bundle, export.files, key) <=> /\ bundle.proof.verification.ok
                                                     /\ key \in {BundleNoKey, export.key}
  /\ copy # BundleNothing =>
       (copy.side = copy.source /\ copy.lines = copy.source.sha => VerifySegmentFile(copy, Key))

\* What verifies is whole: under the signer's key the bundle holds exactly
\* what was exported; with no key but no filter recorded, and the
\* verification as the ledger gave it, every live event and no other; an
\* archived segment checked with the key is the one archived, or, after the
\* first, its end (bundle.py docstring "What verify_bundle proves").
VerifiedIsWhole ==
  /\ export # BundleNothing =>
       /\ VerifyBundle(bundle, export.files, Key) =>
            /\ bundle.summary = export.source.summary /\ bundle.proof = export.source.proof
            /\ bundle.lines = export.source.lines
       /\ VerifyBundle(bundle, export.files, BundleNoKey) /\ Unfiltered(bundle)
            /\ bundle.proof.verification = export.source.proof.verification =>
            bundle.lines = export.live
  /\ copy # BundleNothing =>
       (VerifySegmentFile(copy, Key) => /\ IsSuffix(copy.lines, copy.source.sha)
                                        /\ copy.n = 1 => copy.lines = copy.source.sha)
=============================================================================
