-------------------------------- MODULE Witness --------------------------------
(***************************************************************************)
(* Cross-estate witnessing.  The witness process runs beside the ledger     *)
(* "here": each tick reads the other estate's head and appends a signed     *)
(* anchor of it here, then, when it holds that estate's secret, posts       *)
(* its own head there.  verify-witness later checks a chain against         *)
(* the anchors the other estate holds; `ledger anchor` and `verify          *)
(* --anchors` do the same with a local file of anchors.                     *)
(***************************************************************************)
EXTENDS Integers, Sequences, FiniteSets

CONSTANTS
  AnchorKeys,       \* Ed25519 keys an estate may sign anchors with
  AnchorRuns,       \* overlapping runs of `ledger anchor`
  MaxLength,        \* events a chain may hold (bound)
  WitnessBudgets    \* how many restores, archivals, key changes, ticks, checks and anchors: records

VARIABLES
  witnessChain,     \* estate -> its events; an event's hash is its index and its epoch
  witnessArchived,  \* estate -> leading events whose segments left the live directory
  epoch,            \* estate -> how often it was restored from a copy
  keyFile,          \* FIELD_LEDGER_ANCHOR_KEY: a key, or NoKey
  secretFile,       \* FIELD_WITNESS_FLY_SECRET_FILE names a readable secret
  witnessTick,      \* the witness process
  witnessCheck,     \* a verify-witness run
  witnessFile,      \* the local anchors file
  witnessRun,       \* the `ledger anchor` runs
  wleft

witnessVars ==
  <<witnessChain, witnessArchived, epoch, keyFile, secretFile,
    witnessTick, witnessCheck, witnessFile, witnessRun, wleft>>

Estates == {"here", "there"}
Other(e) == IF e = "here" THEN "there" ELSE "here"
NoKey == "no key"
NoAnchor == [estate |-> "none"]
Genesis == -1

\* The chain below is fixed by the hash: two histories agree at an index exactly
\* when the event there was written in the same epoch.
HashAt(e, length) == IF length = 0 THEN Genesis ELSE witnessChain[e][length].epoch
HeadOf(e) == [length |-> Len(witnessChain[e]), hash |-> HashAt(e, Len(witnessChain[e]))]
WitnessEvent(e, a) == [epoch |-> epoch[e], anchor |-> a]

WitnessIdle == [at |-> "idle"]
Unchecked == [at |-> "none"]

WitnessInit ==
  /\ witnessChain = [e \in Estates |-> <<>>] /\ witnessArchived = [e \in Estates |-> 0]
  /\ epoch = [e \in Estates |-> 0]
  /\ keyFile \in AnchorKeys /\ secretFile \in BOOLEAN
  /\ witnessTick = WitnessIdle /\ witnessCheck = Unchecked
  /\ witnessFile = <<>> /\ witnessRun = [r \in AnchorRuns |-> WitnessIdle]
  /\ wleft \in WitnessBudgets

SpendWitness(kind) == wleft[kind] > 0 /\ wleft' = [wleft EXCEPT ![kind] = @ - 1]
Appended(e, a) ==
  /\ Len(witnessChain[e]) < MaxLength
  /\ witnessChain' = [witnessChain EXCEPT ![e] = Append(@, WitnessEvent(e, a))]

-----------------------------------------------------------------------------
(* The estates around the witness *)

Served(e) ==
  /\ Appended(e, NoAnchor)
  /\ UNCHANGED <<witnessArchived, epoch, keyFile, secretFile, witnessTick, witnessCheck, witnessFile, witnessRun, wleft>>

\* The ledger volume is put back from an older copy: the tail is lost, and what
\* is appended next is a different history at the same indices.
Restored(e) ==
  /\ SpendWitness("restore")
  /\ \E n \in witnessArchived[e] .. Len(witnessChain[e]) - 1 :
       witnessChain' = [witnessChain EXCEPT ![e] = SubSeq(@, 1, n)]
  /\ epoch' = [epoch EXCEPT ![e] = @ + 1]
  /\ UNCHANGED <<witnessArchived, keyFile, secretFile, witnessTick, witnessCheck, witnessFile, witnessRun>>

\* Retention: a closed segment leaves; the open one never does.
Archived(e) ==
  /\ SpendWitness("archive")
  /\ \E n \in witnessArchived[e] + 1 .. Len(witnessChain[e]) - 1 : witnessArchived' = [witnessArchived EXCEPT ![e] = n]
  /\ UNCHANGED <<witnessChain, epoch, keyFile, secretFile, witnessTick, witnessCheck, witnessFile, witnessRun>>

KeyFileChanges ==
  /\ SpendWitness("key")
  /\ keyFile' \in (AnchorKeys \cup {NoKey}) \ {keyFile}
  /\ UNCHANGED <<witnessChain, witnessArchived, epoch, secretFile, witnessTick, witnessCheck, witnessFile, witnessRun>>

-----------------------------------------------------------------------------
(* One tick *)

AnchorOf(estate, head, key) ==
  [estate |-> estate, length |-> head.length, hash |-> head.hash, key |-> key]

\* The key is loaded before the other estate is contacted: no key, no call.
\* Direction 1 reads the open /health; a failed read appends nothing.
TickStarts ==
  /\ witnessTick = WitnessIdle /\ keyFile # NoKey /\ SpendWitness("tick")
  /\ witnessTick' \in {[at |-> "append", anchor |-> AnchorOf("there", HeadOf("there"), keyFile)],
                       [at |-> "local", key |-> keyFile]}
  /\ UNCHANGED <<witnessChain, witnessArchived, epoch, keyFile, secretFile, witnessCheck, witnessFile, witnessRun>>

\* POST /events of this estate's ledger: 201, refused, or an answer that is lost.
Direction1 ==
  /\ witnessTick.at = "append" /\ witnessTick' = [at |-> "local", key |-> witnessTick.anchor.key]
  /\ \/ Appended("here", witnessTick.anchor)
     \/ UNCHANGED witnessChain
  /\ UNCHANGED <<witnessArchived, epoch, keyFile, secretFile, witnessCheck, witnessFile, witnessRun, wleft>>

\* Direction 2: only with the other estate's secret, with the key of this tick.
Direction2 ==
  /\ witnessTick.at = "local"
  /\ witnessTick' = IF secretFile
                    THEN [at |-> "post", anchor |-> AnchorOf("here", HeadOf("here"), witnessTick.key)]
                    ELSE WitnessIdle
  /\ UNCHANGED <<witnessChain, witnessArchived, epoch, keyFile, secretFile, witnessCheck, witnessFile, witnessRun, wleft>>

Post ==
  /\ witnessTick.at = "post" /\ witnessTick' = WitnessIdle
  /\ \/ Appended("there", witnessTick.anchor)
     \/ UNCHANGED witnessChain
  /\ UNCHANGED <<witnessArchived, epoch, keyFile, secretFile, witnessCheck, witnessFile, witnessRun, wleft>>

\* The loop outlives a raising tick, and the container outlives the process.
TickRaises ==
  /\ witnessTick # WitnessIdle /\ witnessTick' = WitnessIdle
  /\ UNCHANGED <<witnessChain, witnessArchived, epoch, keyFile, secretFile, witnessCheck, witnessFile, witnessRun, wleft>>

-----------------------------------------------------------------------------
(* verify-witness *)

\* GET /events of the other ledger: its live segments, in append order.
Witnessed(e) ==
  LET events == SubSeq(witnessChain[Other(e)], witnessArchived[Other(e)] + 1, Len(witnessChain[Other(e)]))
      mine(ev) == ev.anchor # NoAnchor /\ ev.anchor.estate = e
  IN {events[i].anchor : i \in {j \in 1 .. Len(events) : mine(events[j])}}

\* Anchors first, the chain after: a head witnessed meanwhile is not among them.
FetchAnchors(e) ==
  /\ witnessCheck.at # "walk" /\ witnessCheck.at # "compare" /\ SpendWitness("check")
  /\ \E pub \in AnchorKeys \cup {NoKey} :
       witnessCheck' = [at |-> "walk", estate |-> e, anchors |-> Witnessed(e), pub |-> pub]
  /\ UNCHANGED <<witnessChain, witnessArchived, epoch, keyFile, secretFile, witnessTick, witnessFile, witnessRun>>

WalkChain ==
  /\ witnessCheck.at = "walk"
  /\ witnessCheck' = [at |-> "compare", estate |-> witnessCheck.estate, anchors |-> witnessCheck.anchors,
                      pub |-> witnessCheck.pub, verified |-> Len(witnessChain[witnessCheck.estate])]
  /\ UNCHANGED <<witnessChain, witnessArchived, epoch, keyFile, secretFile, witnessTick, witnessFile, witnessRun, wleft>>

\* Faulty variant: only lengths are compared.
AnchorHoldsByLength(a, e, length, pub) ==
  IF a.length > length THEN "future" ELSE IF a.length <= witnessArchived[e] THEN "archived" ELSE "holds"

\* What one anchor says of a chain known up to `length`.
AnchorHolds(a, e, length, pub) ==
  IF pub # NoKey /\ a.key # pub THEN "signature"
  ELSE IF a.length = 0 THEN IF a.hash = Genesis THEN "holds" ELSE "rewritten"
  ELSE IF a.length > length THEN "future"
  ELSE IF a.length <= witnessArchived[e] THEN "archived"
  ELSE IF HashAt(e, a.length) # a.hash THEN "rewritten" ELSE "holds"

Verdict(anchors, e, length, pub) ==
  LET said == {AnchorHolds(a, e, length, pub) : a \in anchors}
  IN IF said \ {"holds"} # {} THEN said \ {"holds"}
     ELSE IF \A a \in anchors : a.length = 0 THEN {"nothing"} ELSE {"ok"}

\* Faulty variant: the events are read after the walk, not before it.
CompareAnchorsLate ==
  /\ witnessCheck.at = "compare"
  /\ LET e == witnessCheck.estate
     IN witnessCheck' = [at |-> "done", estate |-> e,
                         verdict |-> Verdict(Witnessed(e), e, witnessCheck.verified, witnessCheck.pub)]
  /\ UNCHANGED <<witnessChain, witnessArchived, epoch, keyFile, secretFile, witnessTick, witnessFile, witnessRun, wleft>>

CompareAnchors ==
  /\ witnessCheck.at = "compare"
  /\ LET known == IF witnessCheck.verified < Len(witnessChain[witnessCheck.estate])
                  THEN witnessCheck.verified ELSE Len(witnessChain[witnessCheck.estate])
     IN witnessCheck' = [at |-> "done", estate |-> witnessCheck.estate,
                         verdict |-> Verdict(witnessCheck.anchors, witnessCheck.estate, known, witnessCheck.pub)]
  /\ UNCHANGED <<witnessChain, witnessArchived, epoch, keyFile, secretFile, witnessTick, witnessFile, witnessRun, wleft>>

-----------------------------------------------------------------------------
(* The local anchors file *)

\* One consistent (length, head) pair, then the line: two runs may cross.
AnchorReads(r) ==
  /\ witnessRun[r] = WitnessIdle /\ SpendWitness("anchor")
  /\ \E k \in AnchorKeys \cup {NoKey} :
       witnessRun' = [witnessRun EXCEPT ![r] = [at |-> "write", anchor |-> AnchorOf("here", HeadOf("here"), k)]]
  /\ UNCHANGED <<witnessChain, witnessArchived, epoch, keyFile, secretFile, witnessTick, witnessCheck, witnessFile>>

AnchorWrites(r) ==
  /\ witnessRun[r].at = "write" /\ witnessRun' = [witnessRun EXCEPT ![r] = WitnessIdle]
  /\ witnessFile' = Append(witnessFile, witnessRun[r].anchor)
  /\ UNCHANGED <<witnessChain, witnessArchived, epoch, keyFile, secretFile, witnessTick, witnessCheck, wleft>>

\* The file off-box may lack its newest lines, which --min-anchors is for.
FileVerdict(lines, pub, floor) ==
  LET anchors == {lines[i] : i \in 1 .. Len(lines)}
      ordered == \A i, j \in 1 .. Len(lines) : i < j => lines[i].length <= lines[j].length
      agree == \A a, b \in anchors : a.length = b.length => a.hash = b.hash
      said == {AnchorHolds(a, "here", Len(witnessChain["here"]), pub) : a \in anchors} \ {"holds"}
  IN CASE lines = <<>> -> {"nothing"}
       [] ~ordered -> {"order"}
       [] ~agree -> {"rewritten"}
       [] said # {} -> said
       [] floor > Cardinality({a.length : a \in anchors}) -> {"short"}
       [] OTHER -> {"ok"}

-----------------------------------------------------------------------------
WitnessNext ==
  \/ \E e \in Estates : Served(e) \/ Restored(e) \/ Archived(e) \/ FetchAnchors(e)
  \/ KeyFileChanges
  \/ TickStarts \/ Direction1 \/ Direction2 \/ Post \/ TickRaises
  \/ WalkChain \/ CompareAnchors
  \/ \E r \in AnchorRuns : AnchorReads(r) \/ AnchorWrites(r)

WitnessSpec == WitnessInit /\ [][WitnessNext]_witnessVars

-----------------------------------------------------------------------------
(* Properties *)

\* A chain that was never put back from a copy is never called rewritten or
\* short, however ticks, appends, retention and the check itself interleave:
\* the check takes the anchors before the chain, and an anchor is a head that
\* was read.  The same holds of the local anchors file.
NoFalseAlarm ==
  /\ witnessCheck.at = "done" /\ epoch[witnessCheck.estate] = 0 => witnessCheck.verdict \cap {"future", "rewritten"} = {}
  /\ epoch["here"] = 0 => FileVerdict(witnessFile, NoKey, 0) \cap {"future", "rewritten"} = {}

\* Some anchor the other estate still serves does not hold.
Fails(e) == \E a \in Witnessed(e) : AnchorHolds(a, e, Len(witnessChain[e]), NoKey) # "holds"
FileFails == FileVerdict(witnessFile, NoKey, 0) \notin {{"ok"}, {"nothing"}}

\* A tail that was witnessed or anchored and then lost stays visible: the chain
\* growing past the old length again, new anchors and retention never turn the
\* failure back into a pass while the witnesses themselves are kept.
LossNeverHeals ==
  [][/\ \A e \in Estates :
          Fails(e) /\ witnessArchived'[Other(e)] = witnessArchived[Other(e)] /\ epoch'[Other(e)] = epoch[Other(e)]
          => Fails(e)'
     /\ FileFails => FileFails']_witnessVars
=============================================================================
