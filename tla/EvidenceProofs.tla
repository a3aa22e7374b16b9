----------------------------- MODULE EvidenceProofs ----------------------------
(***************************************************************************)
(* What keeps and shows evidence is true of what happened.  The witness    *)
(* check raises no alarm about a chain that was never put back, and a loss *)
(* that was witnessed stays visible (Witness); a ledger command's exit     *)
(* code and verdict are true of what it did and found (LedgerCli); a post- *)
(* mortem, a board pack and its files say what they left out and add up    *)
(* (Replay, BoardPack); only reviewed text is in the corpus (Regwatch);    *)
(* who signed an event is checked against the right key (Sealing).         *)
(* The parts share nothing: each is proved of its own specification, and   *)
(* the last section states the properties of the composition, MCEvidence.  *)
(***************************************************************************)
EXTENDS MCEvidence, FiniteSetTheorems, WellFoundedInduction, TLAPS

-----------------------------------------------------------------------------
(* Witness: an anchor of an estate that was never put back is a head its chain has had. *)

AnchorRecord == [estate : Estates, length : Nat, hash : Int, key : AnchorKeys \cup {NoKey}]
WitnessRecord == [epoch : Nat, anchor : {NoAnchor} \cup AnchorRecord]
WitnessTypes ==
  /\ witnessChain \in [Estates -> Seq(WitnessRecord)]
  /\ epoch \in [Estates -> Nat] /\ witnessArchived \in [Estates -> Nat]
  /\ keyFile \in AnchorKeys \cup {NoKey}

\* Nothing of an estate was written in a later epoch than its first.
Untouched == \A e \in Estates : epoch[e] = 0 => \A i \in 1..Len(witnessChain[e]) : witnessChain[e][i].epoch = 0

\* A head the estate has had.
Headed(a) ==
  \A e \in Estates : a.estate = e /\ epoch[e] = 0 =>
    a.length <= Len(witnessChain[e]) /\ a.hash = IF a.length = 0 THEN Genesis ELSE 0
Held(a) == a \in AnchorRecord /\ Headed(a)

ChainsHeld ==
  \A e \in Estates : \A i \in 1..Len(witnessChain[e]) :
    witnessChain[e][i].anchor # NoAnchor => Held(witnessChain[e][i].anchor)
TickHeld ==
  /\ witnessTick.at \in {"append", "post"} => Held(witnessTick.anchor)
  /\ witnessTick.at = "local" => witnessTick.key \in AnchorKeys \cup {NoKey}
CheckHeld ==
  LET c == witnessCheck
  IN /\ c.at \in {"walk", "compare", "done"} => c.estate \in Estates
     /\ c.at \in {"walk", "compare"} => \A a \in c.anchors : a.estate = c.estate /\ Held(a)
     /\ c.at = "compare" /\ epoch[c.estate] = 0 =>
          /\ c.verified \in Nat /\ c.verified <= Len(witnessChain[c.estate])
          /\ \A a \in c.anchors : a.length <= c.verified
     /\ c.at = "done" /\ epoch[c.estate] = 0 => c.verdict \cap {"future", "rewritten"} = {}
FileHeld ==
  /\ witnessFile \in Seq(AnchorRecord)
  /\ \A i \in 1..Len(witnessFile) : witnessFile[i].estate = "here" /\ Headed(witnessFile[i])
  /\ \A r \in AnchorRuns : witnessRun[r].at = "write" =>
       Held(witnessRun[r].anchor) /\ witnessRun[r].anchor.estate = "here"
WitnessInv ==
  WitnessTypes /\ Untouched /\ ChainsHeld /\ TickHeld /\ CheckHeld /\ FileHeld
  /\ DOMAIN witnessRun = AnchorRuns

\* What a step does to the chains: nothing, one event more, or a copy put back.
Onward == \A e \in Estates : epoch'[e] = 0 => epoch[e] = 0 /\ Len(witnessChain[e]) <= Len(witnessChain'[e])
Sealable(a) == a = NoAnchor \/ Held(a)
Grows == \E e \in Estates : \E a : Sealable(a) /\ Appended(e, a) /\ UNCHANGED epoch
TailLost ==
  \E e \in Estates :
    /\ \E n \in 0 .. Len(witnessChain[e]) - 1 : witnessChain' = [witnessChain EXCEPT ![e] = SubSeq(@, 1, n)]
    /\ epoch' = [epoch EXCEPT ![e] = @ + 1]
ChainEffect == UNCHANGED <<witnessChain, epoch>> \/ Grows \/ TailLost

LEMMA ChainTypes ==
  ASSUME WitnessTypes, NEW e \in Estates
  PROVE  /\ witnessChain[e] \in Seq(WitnessRecord) /\ Len(witnessChain[e]) \in Nat /\ epoch[e] \in Nat
         /\ \A i \in 1..Len(witnessChain[e]) :
              /\ witnessChain[e][i].epoch \in Nat
              /\ witnessChain[e][i].anchor # NoAnchor => witnessChain[e][i].anchor \in AnchorRecord
<1>1. witnessChain[e] \in Seq(WitnessRecord) /\ epoch[e] \in Nat BY DEF WitnessTypes
<1>2. \A i \in 1..Len(witnessChain[e]) : witnessChain[e][i] \in WitnessRecord BY <1>1
<1> QED BY <1>1, <1>2 DEF WitnessRecord

\* An anchor that is a head is one of a chain that has only grown since.
LEMMA HeadedStays ==
  ASSUME WitnessTypes, WitnessTypes', Onward, NEW a \in AnchorRecord, Headed(a)
  PROVE  \A e \in Estates : a.estate = e /\ epoch'[e] = 0 =>
           a.length <= Len(witnessChain'[e]) /\ a.hash = IF a.length = 0 THEN Genesis ELSE 0
<1>1. SUFFICES ASSUME NEW e \in Estates, a.estate = e, epoch'[e] = 0
               PROVE  a.length <= Len(witnessChain'[e]) /\ a.hash = IF a.length = 0 THEN Genesis ELSE 0
  OBVIOUS
<1>2. /\ a.length <= Len(witnessChain[e]) /\ a.hash = IF a.length = 0 THEN Genesis ELSE 0
      /\ Len(witnessChain[e]) <= Len(witnessChain'[e])
  BY <1>1 DEF Headed, Onward
<1>3. a.length \in Nat /\ Len(witnessChain[e]) \in Nat BY ChainTypes DEF AnchorRecord
<1>4. Len(witnessChain'[e]) \in Nat
  BY DEF WitnessTypes
<1> QED BY <1>2, <1>3, <1>4

\* A head that is read is one.
LEMMA HeadHeld ==
  ASSUME WitnessTypes, Untouched, NEW e \in Estates, NEW k \in AnchorKeys \cup {NoKey}
  PROVE  AnchorOf(e, HeadOf(e), k) \in AnchorRecord /\ Headed(AnchorOf(e, HeadOf(e), k))
<1> DEFINE l == Len(witnessChain[e])
           h == HashAt(e, l)
<1>1. l \in Nat BY ChainTypes
<1>2. l # 0 => l \in 1..Len(witnessChain[e]) /\ witnessChain[e][l].epoch \in Nat BY <1>1, ChainTypes
<1>3. h \in Int BY <1>2 DEF HashAt, Genesis
<1>4. epoch[e] = 0 => h = IF l = 0 THEN Genesis ELSE 0 BY <1>2 DEF HashAt, Untouched
<1>5. AnchorOf(e, HeadOf(e), k) = [estate |-> e, length |-> l, hash |-> h, key |-> k]
  BY DEF AnchorOf, HeadOf
<1> HIDE DEF l, h
<1>6. AnchorOf(e, HeadOf(e), k) \in AnchorRecord BY <1>1, <1>3, <1>5 DEF AnchorRecord
<1>7. l <= Len(witnessChain[e]) BY <1>1 DEF l
<1> QED BY <1>4, <1>5, <1>6, <1>7 DEF Headed

\* The chains after a step.
LEMMA ChainsStep ==
  ASSUME WitnessInv, ChainEffect, witnessArchived' \in [Estates -> Nat], keyFile' \in AnchorKeys \cup {NoKey}
  PROVE  WitnessTypes' /\ Onward /\ Untouched' /\ ChainsHeld'
<1>t. WitnessTypes /\ Untouched /\ ChainsHeld BY DEF WitnessInv
<1>c. witnessChain \in [Estates -> Seq(WitnessRecord)] /\ epoch \in [Estates -> Nat] BY <1>t DEF WitnessTypes
<1>1. ASSUME witnessChain' \in [Estates -> Seq(WitnessRecord)], epoch' \in [Estates -> Nat], Onward,
             \A e \in Estates : \A i \in 1..Len(witnessChain'[e]) :
               \/ /\ i \in 1..Len(witnessChain[e]) /\ witnessChain'[e][i] = witnessChain[e][i]
               \/ \E a : Sealable(a) /\ witnessChain'[e][i] = WitnessEvent(e, a)
      PROVE  WitnessTypes' /\ Onward /\ Untouched' /\ ChainsHeld'
  <2>1. WitnessTypes' BY <1>1 DEF WitnessTypes
  <2>2. Untouched'
    <3> SUFFICES ASSUME NEW e \in Estates, epoch'[e] = 0, NEW i \in 1..Len(witnessChain'[e])
                 PROVE  witnessChain'[e][i].epoch = 0
      BY DEF Untouched
    <3>1. epoch[e] = 0 BY <1>1 DEF Onward
    <3>2. CASE i \in 1..Len(witnessChain[e]) /\ witnessChain'[e][i] = witnessChain[e][i]
      BY <1>t, <3>1, <3>2 DEF Untouched
    <3>3. CASE \E a : Sealable(a) /\ witnessChain'[e][i] = WitnessEvent(e, a)
      BY <3>1, <3>3 DEF WitnessEvent
    <3> QED BY <1>1, <3>2, <3>3
  <2>3. ChainsHeld'
    <3> SUFFICES ASSUME NEW e \in Estates, NEW i \in 1..Len(witnessChain'[e]), witnessChain'[e][i].anchor # NoAnchor
                 PROVE  Held(witnessChain[e][i].anchor)'
      BY DEF ChainsHeld
    <3>1. Held(witnessChain'[e][i].anchor)
      <4>1. CASE i \in 1..Len(witnessChain[e]) /\ witnessChain'[e][i] = witnessChain[e][i]
        BY <4>1, <1>t DEF ChainsHeld
      <4>2. ASSUME NEW a, Sealable(a), witnessChain'[e][i] = WitnessEvent(e, a) PROVE Held(witnessChain'[e][i].anchor)
        BY <4>2 DEF Sealable, WitnessEvent
      <4> QED BY <1>1, <4>1, <4>2
    <3>2. PICK a \in AnchorRecord : a = witnessChain'[e][i].anchor /\ Headed(a) BY <3>1 DEF Held
    <3>3. \A f \in Estates : a.estate = f /\ epoch'[f] = 0 =>
            a.length <= Len(witnessChain'[f]) /\ a.hash = IF a.length = 0 THEN Genesis ELSE 0
      BY <1>1, <1>t, <2>1, <3>2, HeadedStays
    <3> QED BY <3>2, <3>3 DEF Held, Headed
  <2> QED BY <1>1, <2>1, <2>2, <2>3
<1>2. CASE UNCHANGED <<witnessChain, epoch>>
  BY <1>t, ChainTypes, <1>2, <1>1, <1>c DEF Onward
<1>3. CASE Grows
  <2>e. PICK e \in Estates : \E a : Sealable(a) /\ Appended(e, a) /\ UNCHANGED epoch BY <1>3 DEF Grows
  <2>1. PICK a : Sealable(a) /\ Appended(e, a) /\ UNCHANGED epoch BY <2>e
  <2> DEFINE v == WitnessEvent(e, a)
  <2>2. witnessChain' = [witnessChain EXCEPT ![e] = Append(witnessChain[e], v)] BY <2>1 DEF Appended
  <2>3. v \in WitnessRecord
    BY <1>c, <2>1 DEF Sealable, Held, WitnessEvent, WitnessRecord
  <2>4. v = WitnessEvent(e, a) OBVIOUS
  <2> HIDE DEF v
  <2>5. witnessChain[e] \in Seq(WitnessRecord) BY <1>c
  <2>6. /\ Append(witnessChain[e], v) \in Seq(WitnessRecord) /\ Len(witnessChain[e]) \in Nat
        /\ Len(Append(witnessChain[e], v)) = Len(witnessChain[e]) + 1
        /\ \A i \in 1..Len(witnessChain[e]) : Append(witnessChain[e], v)[i] = witnessChain[e][i]
        /\ Append(witnessChain[e], v)[Len(witnessChain[e]) + 1] = v
    BY <2>3, <2>5
  <2>7. witnessChain' \in [Estates -> Seq(WitnessRecord)] BY <1>c, <2>2, <2>6
  <2>8. witnessChain'[e] = Append(witnessChain[e], v) /\ \A f \in Estates : f # e => witnessChain'[f] = witnessChain[f]
    BY <1>c, <2>2
  <2>9. Onward
    BY <1>t, ChainTypes, <2>1, <2>6, <2>8 DEF Onward
  <2>10. \A f \in Estates : \A i \in 1..Len(witnessChain'[f]) :
           \/ /\ i \in 1..Len(witnessChain[f]) /\ witnessChain'[f][i] = witnessChain[f][i]
           \/ \E b : Sealable(b) /\ witnessChain'[f][i] = WitnessEvent(f, b)
    <3> SUFFICES ASSUME NEW f \in Estates, NEW i \in 1..Len(witnessChain'[f])
                 PROVE  \/ /\ i \in 1..Len(witnessChain[f]) /\ witnessChain'[f][i] = witnessChain[f][i]
                        \/ \E b : Sealable(b) /\ witnessChain'[f][i] = WitnessEvent(f, b)
      OBVIOUS
    <3>1. CASE f # e BY <3>1, <2>8
    <3>2. CASE f = e
      BY <3>2, <2>6, <2>8, <2>1, <2>4
    <3> QED BY <3>1, <3>2
  <2>11. epoch' \in [Estates -> Nat] BY <1>c, <2>1
  <2> QED BY <1>1, <2>7, <2>9, <2>10, <2>11
<1>4. CASE TailLost
  <2>e. PICK e \in Estates :
          /\ \E n \in 0 .. Len(witnessChain[e]) - 1 : witnessChain' = [witnessChain EXCEPT ![e] = SubSeq(witnessChain[e], 1, n)]
          /\ epoch' = [epoch EXCEPT ![e] = epoch[e] + 1]
    BY <1>4 DEF TailLost
  <2>1. PICK n \in 0 .. Len(witnessChain[e]) - 1 :
          /\ witnessChain' = [witnessChain EXCEPT ![e] = SubSeq(witnessChain[e], 1, n)]
          /\ epoch' = [epoch EXCEPT ![e] = epoch[e] + 1]
    BY <2>e
  <2>2. witnessChain[e] \in Seq(WitnessRecord) /\ Len(witnessChain[e]) \in Nat /\ n \in Nat /\ epoch[e] \in Nat
    BY <1>c
  <2> DEFINE s == SubSeq(witnessChain[e], 1, n)
  <2>3. /\ s \in Seq(WitnessRecord) /\ Len(s) = n
        /\ \A i \in 1..n : s[i] = witnessChain[e][i] /\ i \in 1..Len(witnessChain[e])
    <3>1. n <= Len(witnessChain[e]) BY <2>2
    <3>2. \A i \in 1..n : i \in 1..Len(witnessChain[e]) /\ witnessChain[e][i] \in WitnessRecord BY <2>2, <3>1
    <3>3. s = [i \in 1..n |-> witnessChain[e][i]] BY <2>2, <3>1
    <3> HIDE DEF s
    <3>4. s \in Seq(WitnessRecord) /\ Len(s) = n BY <2>2, <3>2, <3>3
    <3>5. \A i \in 1..n : s[i] = witnessChain[e][i] BY <3>3
    <3> QED BY <3>2, <3>4, <3>5
  <2>4. witnessChain' = [witnessChain EXCEPT ![e] = s] BY <2>1
  <2> HIDE DEF s
  <2>5. witnessChain' \in [Estates -> Seq(WitnessRecord)] BY <1>c, <2>3, <2>4
  <2>6. epoch' \in [Estates -> Nat] /\ epoch'[e] # 0 /\ \A f \in Estates : f # e => epoch'[f] = epoch[f]
    BY <1>c, <2>1, <2>2
  <2>7. witnessChain'[e] = s /\ \A f \in Estates : f # e => witnessChain'[f] = witnessChain[f]
    BY <1>c, <2>4
  <2>8. Onward
    BY <1>t, ChainTypes, <2>6, <2>7 DEF Onward
  <2>9. \A f \in Estates : \A i \in 1..Len(witnessChain'[f]) :
          i \in 1..Len(witnessChain[f]) /\ witnessChain'[f][i] = witnessChain[f][i]
    BY <2>3, <2>7
  <2> QED BY <1>1, <2>5, <2>6, <2>8, <2>9
<1> QED BY <1>2, <1>3, <1>4 DEF ChainEffect

LEMMA HeldStays ==
  ASSUME WitnessTypes, WitnessTypes', Onward, NEW a, Held(a)
  PROVE  Held(a)'
BY HeadedStays DEF Held, Headed

\* What a head that is held says of a chain read no earlier than it.
LEMMA SaysWell ==
  ASSUME WitnessTypes, Untouched, NEW e \in Estates, epoch[e] = 0, NEW a, Held(a), a.estate = e,
         NEW l \in Nat, a.length <= l, l <= Len(witnessChain[e]), NEW pub
  PROVE  AnchorHolds(a, e, l, pub) \notin {"future", "rewritten"}
BY ChainTypes DEF Held, Headed, AnchorRecord, HashAt, Untouched, AnchorHolds

\* The anchors an estate serves are heads of the other.
LEMMA WitnessedHeld ==
  ASSUME WitnessTypes, ChainsHeld, NEW e \in Estates
  PROVE  \A a \in Witnessed(e) : a.estate = e /\ Held(a)
<1> DEFINE o == Other(e)
           s == witnessChain[o]
           m == witnessArchived[o]
           L == Len(s)
           t == SubSeq(s, m + 1, L)
<1>1. o \in Estates BY DEF Other, Estates
<1>2. s \in Seq(WitnessRecord) /\ L \in Nat /\ m \in Nat BY <1>1, ChainTypes DEF WitnessTypes
<1>3. Witnessed(e) = {t[i].anchor : i \in {j \in 1..Len(t) : t[j].anchor # NoAnchor /\ t[j].anchor.estate = e}}
  BY DEF Witnessed
<1>4. \A i \in 1..L : s[i].anchor # NoAnchor => Held(s[i].anchor) BY <1>1 DEF ChainsHeld
<1> HIDE DEF o, s, m, L
<1>5. \A i \in 1..Len(t) : i + m \in 1..L /\ t[i] = s[i + m]
  <2>1. t = [i \in 1..(L - m) |-> s[i + m]] BY <1>2
  <2> HIDE DEF t
  <2>2. CASE m <= L
    BY <1>2, <2>2, <2>1
  <2>3. CASE ~(m <= L)
    <3>1. 1..(L - m) = {} BY <1>2, <2>3
    <3>2. t = <<>> BY <2>1, <3>1
    <3> QED BY <3>2
  <2> QED BY <2>2, <2>3
<1> HIDE DEF t
<1> QED BY <1>3, <1>4, <1>5

-----------------------------------------------------------------------------
(* What a step leaves alone keeps what is known of it. *)

LEMMA TickKept ==
  ASSUME WitnessTypes, WitnessTypes', Onward, TickHeld, UNCHANGED witnessTick
  PROVE  TickHeld'
<1>1. ASSUME witnessTick'.at \in {"append", "post"} PROVE Held(witnessTick.anchor)'
  BY <1>1, HeldStays DEF TickHeld, Held, Headed
<1> QED BY <1>1 DEF TickHeld

LEMMA CheckKept ==
  ASSUME WitnessTypes, WitnessTypes', Onward, CheckHeld, UNCHANGED witnessCheck
  PROVE  CheckHeld'
<1>1. \A a : Held(a) => Held(a)' BY HeldStays
<1>2. \A e \in Estates : Len(witnessChain[e]) \in Nat BY ChainTypes
<1>3. \A e \in Estates : Len(witnessChain'[e]) \in Nat BY DEF WitnessTypes
<1> DEFINE c == witnessCheck
<1>4. (c.at \in {"walk", "compare", "done"} => c.estate \in Estates)'
  BY DEF CheckHeld
<1>5. (c.at \in {"walk", "compare"} => \A a \in c.anchors : a.estate = c.estate /\ Held(a))'
  BY <1>1 DEF CheckHeld
<1>6. ASSUME c'.at = "compare", epoch'[c'.estate] = 0
      PROVE  /\ c'.verified \in Nat /\ c'.verified <= Len(witnessChain'[c'.estate])
             /\ \A a \in c'.anchors : a.length <= c'.verified
  BY <1>6, <1>2, <1>3 DEF CheckHeld, Onward
<1>7. ASSUME c'.at = "done", epoch'[c'.estate] = 0 PROVE c'.verdict \cap {"future", "rewritten"} = {}
  BY <1>7 DEF CheckHeld, Onward
<1> QED BY <1>4, <1>5, <1>6, <1>7 DEF CheckHeld

LEMMA FileKept ==
  ASSUME WitnessTypes, WitnessTypes', Onward, FileHeld, UNCHANGED <<witnessFile, witnessRun>>
  PROVE  FileHeld'
<1>1. \A a : Held(a) => Held(a)' BY HeldStays
<1>2. \A i \in 1..Len(witnessFile) : Held(witnessFile[i]) BY DEF FileHeld, Held
<1>3. witnessFile' \in Seq(AnchorRecord) BY DEF FileHeld
<1>4. ASSUME NEW i \in 1..Len(witnessFile') PROVE (witnessFile[i].estate = "here" /\ Headed(witnessFile[i]))'
  BY <1>1, <1>2 DEF FileHeld, Held, Headed
<1>5. ASSUME NEW r \in AnchorRuns, witnessRun'[r].at = "write"
      PROVE (Held(witnessRun[r].anchor) /\ witnessRun[r].anchor.estate = "here")'
  BY <1>5, <1>1 DEF FileHeld, Held, Headed
<1> QED BY <1>3, <1>4, <1>5 DEF FileHeld

-----------------------------------------------------------------------------
(* Every step *)

LEMMA WitnessInitHeld ==
  ASSUME WitnessInit
  PROVE  WitnessInv
BY DEF WitnessInit, WitnessTypes, Untouched, ChainsHeld, TickHeld, CheckHeld, WitnessIdle, Unchecked,
  FileHeld, WitnessInv

\* What a step does to the chains, the keys and the archive marks.
LEMMA WitnessEffect ==
  ASSUME WitnessInv, WitnessNext
  PROVE  ChainEffect /\ witnessArchived' \in [Estates -> Nat] /\ keyFile' \in AnchorKeys \cup {NoKey}
<1>t. WitnessTypes BY DEF WitnessInv
<1>k. witnessArchived \in [Estates -> Nat] /\ keyFile \in AnchorKeys \cup {NoKey} BY <1>t DEF WitnessTypes
<1>h. "here" \in Estates /\ "there" \in Estates BY DEF Estates
<1>1. ASSUME NEW e \in Estates, Served(e) PROVE ChainEffect /\ UNCHANGED <<witnessArchived, keyFile>>
  BY <1>1 DEF Served, ChainEffect, Grows, Sealable
<1>2. ASSUME NEW e \in Estates, Restored(e) PROVE ChainEffect /\ UNCHANGED <<witnessArchived, keyFile>>
  <2>1. PICK n \in witnessArchived[e] .. Len(witnessChain[e]) - 1 :
          witnessChain' = [witnessChain EXCEPT ![e] = SubSeq(@, 1, n)]
    BY <1>2 DEF Restored
  <2>2. witnessArchived[e] \in Nat /\ Len(witnessChain[e]) \in Nat BY <1>t, <1>k, ChainTypes
  <2>3. n \in 0 .. Len(witnessChain[e]) - 1 BY <2>2
  <2>4. TailLost BY <1>2, <2>1, <2>3 DEF Restored, TailLost
  <2> QED BY <1>2, <2>4 DEF Restored, ChainEffect
<1>3. ASSUME NEW e \in Estates, Archived(e) PROVE ChainEffect /\ witnessArchived' \in [Estates -> Nat] /\ UNCHANGED keyFile
  <2>1. PICK n \in witnessArchived[e] + 1 .. Len(witnessChain[e]) - 1 : witnessArchived' = [witnessArchived EXCEPT ![e] = n]
    BY <1>3 DEF Archived
  <2>2. witnessArchived[e] \in Nat /\ Len(witnessChain[e]) \in Nat BY <1>t, <1>k, ChainTypes
  <2>3. n \in Nat BY <2>2
  <2> QED BY <1>3, <1>k, <2>1, <2>3 DEF Archived, ChainEffect
<1>4. ASSUME Direction1 PROVE ChainEffect /\ UNCHANGED <<witnessArchived, keyFile>>
  BY <1>4, <1>h DEF Direction1, WitnessInv, TickHeld, ChainEffect, Grows, Sealable
<1>5. ASSUME Post PROVE ChainEffect /\ UNCHANGED <<witnessArchived, keyFile>>
  BY <1>5, <1>h DEF Post, WitnessInv, TickHeld, ChainEffect, Grows, Sealable
<1>6. KeyFileChanges => UNCHANGED <<witnessChain, epoch, witnessArchived>> /\ keyFile' \in AnchorKeys \cup {NoKey}
  BY DEF KeyFileChanges
<1>7. \A e \in Estates : FetchAnchors(e) => UNCHANGED <<witnessChain, epoch, witnessArchived, keyFile>>
  BY DEF FetchAnchors
<1>8. TickStarts \/ Direction2 \/ TickRaises \/ WalkChain \/ CompareAnchors
        => UNCHANGED <<witnessChain, epoch, witnessArchived, keyFile>>
  BY DEF TickStarts, Direction2, TickRaises, WalkChain, CompareAnchors
<1>9. \A r \in AnchorRuns : AnchorReads(r) \/ AnchorWrites(r) => UNCHANGED <<witnessChain, epoch, witnessArchived, keyFile>>
  BY DEF AnchorReads, AnchorWrites
<1> QED BY <1>1, <1>2, <1>3, <1>4, <1>5, <1>6, <1>7, <1>8, <1>9, <1>k DEF WitnessNext, ChainEffect

\* What the tick carries.
LEMMA TickStep ==
  ASSUME WitnessInv, WitnessNext, WitnessTypes', Onward
  PROVE  TickHeld'
<1>t. WitnessTypes /\ Untouched /\ TickHeld BY DEF WitnessInv
<1>k. keyFile \in AnchorKeys \cup {NoKey} BY <1>t DEF WitnessTypes
<1>h. "here" \in Estates /\ "there" \in Estates BY DEF Estates
<1>1. ASSUME TickStarts PROVE TickHeld'
  BY <1>t, <1>k, <1>h, HeadHeld, HeldStays, <1>1 DEF Held, TickStarts, TickHeld, Headed
<1>2. ASSUME Direction1 PROVE TickHeld'
  BY <1>2, <1>t DEF Direction1, TickHeld, Held, AnchorRecord
<1>3. ASSUME Direction2 PROVE TickHeld'
  BY <1>3, <1>t, <1>h, HeadHeld, HeldStays DEF Direction2, TickHeld, Held, Headed, WitnessIdle
<1>4. ASSUME Post \/ TickRaises PROVE TickHeld'
  BY <1>4 DEF Post, TickRaises, TickHeld, WitnessIdle
<1>5. CASE UNCHANGED witnessTick BY <1>5, <1>t, TickKept
<1>6. TickStarts \/ Direction1 \/ Direction2 \/ Post \/ TickRaises \/ UNCHANGED witnessTick
  BY DEF WitnessNext, Served, Restored, Archived, FetchAnchors, KeyFileChanges, WalkChain, CompareAnchors,
         AnchorReads, AnchorWrites
<1> QED BY <1>1, <1>2, <1>3, <1>4, <1>5, <1>6

\* What the check has read, and what it says.
LEMMA CheckStep ==
  ASSUME WitnessInv, WitnessNext, WitnessTypes', Onward
  PROVE  CheckHeld'
<1>t. WitnessTypes /\ Untouched /\ ChainsHeld /\ CheckHeld BY DEF WitnessInv
<1>s. \A a : Held(a) => Held(a)' BY <1>t, HeldStays
<1>1. ASSUME NEW e \in Estates, FetchAnchors(e) PROVE CheckHeld'
  BY <1>1, <1>t, <1>s, WitnessedHeld DEF FetchAnchors, CheckHeld
<1>2. ASSUME WalkChain PROVE CheckHeld'
  BY <1>2, <1>t, ChainTypes, <1>s DEF WalkChain, CheckHeld, Held, Headed
<1>3. ASSUME CompareAnchors PROVE CheckHeld'
  <2>1. PICK e, S, pub, v : e = witnessCheck.estate /\ S = witnessCheck.anchors /\ pub = witnessCheck.pub
                            /\ v = witnessCheck.verified
    OBVIOUS
  <2>2. PICK l : l = IF v < Len(witnessChain[e]) THEN v ELSE Len(witnessChain[e]) OBVIOUS
  <2>3. witnessCheck' = [at |-> "done", estate |-> e, verdict |-> Verdict(S, e, l, pub)] /\ UNCHANGED epoch
    BY <1>3, <2>1, <2>2 DEF CompareAnchors
  <2>4. e \in Estates /\ \A a \in S : a.estate = e /\ Held(a) BY <1>3, <1>t, <2>1 DEF CompareAnchors, CheckHeld
  <2>5. ASSUME epoch[e] = 0 PROVE Verdict(S, e, l, pub) \cap {"future", "rewritten"} = {}
    <3>1. v \in Nat /\ v <= Len(witnessChain[e]) /\ \A a \in S : a.length <= v
      BY <1>3, <1>t, <2>1, <2>5 DEF CompareAnchors, CheckHeld
    <3>2. Len(witnessChain[e]) \in Nat BY <1>t, <2>4, ChainTypes
    <3>3. l = v BY <2>2, <3>1, <3>2
    <3>4. \A a \in S : AnchorHolds(a, e, l, pub) \notin {"future", "rewritten"}
      BY <1>t, <2>4, <2>5, <3>1, <3>3, SaysWell
    <3> QED BY <3>4 DEF Verdict
  <2> QED BY <2>3, <2>4, <2>5 DEF CheckHeld
<1>4. CASE UNCHANGED witnessCheck BY <1>4, <1>t, CheckKept
<1>5. (\E e \in Estates : FetchAnchors(e)) \/ WalkChain \/ CompareAnchors \/ UNCHANGED witnessCheck
  BY DEF WitnessNext, Served, Restored, Archived, KeyFileChanges, TickStarts, Direction1, Direction2, Post, TickRaises,
         AnchorReads, AnchorWrites
<1> QED BY <1>1, <1>2, <1>3, <1>4, <1>5

\* The local file and the runs that write it.
LEMMA FileStep ==
  ASSUME WitnessInv, WitnessNext, WitnessTypes', Onward
  PROVE  FileHeld' /\ DOMAIN witnessRun' = AnchorRuns
<1>t. WitnessTypes /\ Untouched /\ FileHeld /\ DOMAIN witnessRun = AnchorRuns BY DEF WitnessInv
<1>s. \A a : Held(a) => Held(a)' BY <1>t, HeldStays
<1>h. "here" \in Estates BY DEF Estates
<1>f. witnessFile \in Seq(AnchorRecord) /\ \A i \in 1..Len(witnessFile) : witnessFile[i].estate = "here" /\ Held(witnessFile[i])
  BY <1>t DEF FileHeld, Held
<1>1. ASSUME NEW r \in AnchorRuns, AnchorReads(r) PROVE FileHeld' /\ DOMAIN witnessRun' = AnchorRuns
  <2>1. PICK k \in AnchorKeys \cup {NoKey} :
          witnessRun' = [witnessRun EXCEPT ![r] = [at |-> "write", anchor |-> AnchorOf("here", HeadOf("here"), k)]]
    BY <1>1 DEF AnchorReads
  <2>2. PICK a : a = AnchorOf("here", HeadOf("here"), k) OBVIOUS
  <2>3. Held(a) /\ a.estate = "here" BY <1>t, <1>h, <2>2, HeadHeld DEF Held, AnchorOf
  <2>4. witnessRun' = [witnessRun EXCEPT ![r] = [at |-> "write", anchor |-> a]] BY <2>1, <2>2
  <2>5. ASSUME NEW q \in AnchorRuns, witnessRun'[q].at = "write"
        PROVE (Held(witnessRun[q].anchor) /\ witnessRun[q].anchor.estate = "here")'
    BY <1>t, <2>4, <2>5, <1>s, <2>3 DEF FileHeld, Held, Headed
  <2>6. ASSUME NEW i \in 1..Len(witnessFile') PROVE (witnessFile[i].estate = "here" /\ Headed(witnessFile[i]))'
    BY <1>1, <1>f, <1>s DEF AnchorReads, Held, Headed
  <2>7. witnessFile' \in Seq(AnchorRecord) BY <1>1, <1>f DEF AnchorReads
  <2>8. DOMAIN witnessRun' = AnchorRuns BY <1>t, <2>4
  <2> QED BY <2>5, <2>6, <2>7, <2>8 DEF FileHeld
<1>2. ASSUME NEW r \in AnchorRuns, AnchorWrites(r) PROVE FileHeld' /\ DOMAIN witnessRun' = AnchorRuns
  <2>1. PICK a : a = witnessRun[r].anchor OBVIOUS
  <2>2. Held(a) /\ a.estate = "here" /\ a \in AnchorRecord BY <1>2, <1>t, <2>1 DEF AnchorWrites, FileHeld, Held
  <2>3. witnessFile' = Append(witnessFile, a) /\ witnessRun' = [witnessRun EXCEPT ![r] = WitnessIdle]
    BY <1>2, <2>1 DEF AnchorWrites
  <2>4. /\ Append(witnessFile, a) \in Seq(AnchorRecord) /\ Len(witnessFile) \in Nat
        /\ Len(Append(witnessFile, a)) = Len(witnessFile) + 1
        /\ \A i \in 1..Len(witnessFile) : Append(witnessFile, a)[i] = witnessFile[i]
        /\ Append(witnessFile, a)[Len(witnessFile) + 1] = a
    BY <1>f, <2>2
  <2>5. ASSUME NEW q \in AnchorRuns, witnessRun'[q].at = "write"
        PROVE (Held(witnessRun[q].anchor) /\ witnessRun[q].anchor.estate = "here")'
    BY <1>t, <2>3, <2>5, <1>s DEF WitnessIdle, FileHeld, Held, Headed
  <2>6. ASSUME NEW i \in 1..Len(witnessFile') PROVE (witnessFile[i].estate = "here" /\ Headed(witnessFile[i]))'
    <3>1. PICK b : b = witnessFile'[i] OBVIOUS
    <3>2. i \in 1..Len(witnessFile) \/ i = Len(witnessFile) + 1 BY <2>3, <2>4
    <3>3. Held(b) /\ b.estate = "here"
      BY <1>f, <2>3, <2>4, <3>1, <2>2, <3>2
    <3>4. Held(b)' BY <1>s, <3>3
    <3> QED BY <3>1, <3>3, <3>4 DEF Held, Headed
  <2>7. witnessFile' \in Seq(AnchorRecord) BY <2>3, <2>4
  <2>8. DOMAIN witnessRun' = AnchorRuns BY <1>t, <2>3
  <2> QED BY <2>5, <2>6, <2>7, <2>8 DEF FileHeld
<1>3. CASE UNCHANGED <<witnessFile, witnessRun>> BY <1>3, <1>t, FileKept
<1>4. (\E r \in AnchorRuns : AnchorReads(r) \/ AnchorWrites(r)) \/ UNCHANGED <<witnessFile, witnessRun>>
  BY DEF WitnessNext, Served, Restored, Archived, FetchAnchors, KeyFileChanges, TickStarts, Direction1, Direction2, Post,
         TickRaises, WalkChain, CompareAnchors
<1> QED BY <1>1, <1>2, <1>3, <1>4

LEMMA WitnessStep ==
  ASSUME WitnessInv, WitnessNext
  PROVE  WitnessInv'
BY WitnessEffect, ChainsStep, TickStep, CheckStep, FileStep DEF WitnessInv

\* No alarm of a chain that was never put back.
LEMMA NoAlarm ==
  ASSUME WitnessInv
  PROVE  NoFalseAlarm
<1>t. WitnessTypes /\ Untouched /\ CheckHeld /\ FileHeld BY DEF WitnessInv
<1>1. witnessCheck.at = "done" /\ epoch[witnessCheck.estate] = 0 => witnessCheck.verdict \cap {"future", "rewritten"} = {}
  BY <1>t DEF CheckHeld
<1>2. ASSUME epoch["here"] = 0 PROVE FileVerdict(witnessFile, NoKey, 0) \cap {"future", "rewritten"} = {}
  <2> DEFINE lines == witnessFile
             anchors == {lines[i] : i \in 1 .. Len(lines)}
             ordered == \A i, j \in 1 .. Len(lines) : i < j => lines[i].length <= lines[j].length
             agree == \A a, b \in anchors : a.length = b.length => a.hash = b.hash
             said == {AnchorHolds(a, "here", Len(witnessChain["here"]), NoKey) : a \in anchors} \ {"holds"}
             short == 0 > Cardinality({a.length : a \in anchors})
  <2>0. "here" \in Estates BY DEF Estates
  <2>1. \A a \in anchors : Held(a) /\ a.estate = "here" BY <1>t DEF FileHeld, Held
  <2>2. \A a \in anchors : a.length <= Len(witnessChain["here"]) /\ a.hash = IF a.length = 0 THEN Genesis ELSE 0
    BY <1>2, <2>0, <2>1 DEF Held, Headed
  <2>3. agree BY <2>2
  <2>4. Len(witnessChain["here"]) \in Nat BY <1>t, <2>0, ChainTypes
  <2>5. ASSUME NEW a \in anchors PROVE AnchorHolds(a, "here", Len(witnessChain["here"]), NoKey) \notin {"future", "rewritten"}
    <3>1. Held(a) /\ a.estate = "here" /\ a.length <= Len(witnessChain["here"]) BY <2>1, <2>2
    <3>2. Len(witnessChain["here"]) <= Len(witnessChain["here"]) BY <2>4
    <3> HIDE DEF anchors
    <3> QED BY <1>t, <1>2, <2>0, <2>4, <3>1, <3>2, SaysWell
  <2>6. said \cap {"future", "rewritten"} = {} BY <2>5
  <2>7. FileVerdict(witnessFile, NoKey, 0) =
          CASE lines = <<>> -> {"nothing"} [] ~ordered -> {"order"} [] ~agree -> {"rewritten"} [] said # {} -> said
            [] short -> {"short"} [] OTHER -> {"ok"}
    BY DEF FileVerdict
  <2> HIDE DEF lines, anchors, ordered, agree, said, short
  <2> QED BY <2>3, <2>6, <2>7
<1> QED BY <1>1, <1>2 DEF NoFalseAlarm

-----------------------------------------------------------------------------
(* LedgerCli: what a command says is what it did, of files that only go forward. *)

AtStates == {"none", "open", "intent", "renamed", "closed", "archived", "moved"}
FileBytes == {"whole", "spaced", "forged", "cut", "broken"}
CliPcs == {"run", "intent", "renamed", "plan", "commit", "move", "event", "answer", "read", "stat", "whole", "done"}
CliOuts == {"none", "done", "busy", "refused", "hold", "corrupt", "held_busy"}
CliModes == {"none", "sidecar", "closed", "pending-move", "pending-rotation", "single"}
CliRun ==
  [pc : CliPcs, order : Orders, out : CliOuts, exit : 0..4, lost : BOOLEAN, did : SUBSET Segs, done : SUBSET Segs,
   unread : SUBSET Segs, side : BOOLEAN, unnamed : BOOLEAN, seg : 0..MaxSegs, stood : BOOLEAN, mode : CliModes,
   read : FileBytes \cup {"none", "gone"}]
CliTypes ==
  /\ at \in [Segs -> AtStates] /\ bytes \in [Segs -> FileBytes]
  /\ digest \in [Segs -> FileBytes \cup {"none"}] /\ sidecars \in SUBSET Segs
  /\ cmd \in [Cmds -> {CliIdle} \cup CliRun]

DigestFits ==
  \A n \in Segs :
    /\ bytes[n] = "whole" => digest[n] \in {"none", "whole"}
    /\ ArchivedEntry(n) => digest[n] # "none"

\* The segment that is written is one; those before it are closed, those after it never were.
OpenAt(t) ==
  /\ at[t] \in {"open", "intent", "renamed"}
  /\ \A n \in Segs : (n < t => ClosedEntry(n)) /\ (n > t => at[n] = "none")
LockFits ==
  /\ \E t \in Segs : OpenAt(t)
  /\ \A c \in Cmds : cmd[c].pc \in {"intent", "renamed"} =>
       lock = c /\ cmd[c].seg \in Segs /\ cmd[c].seg + 1 \in Segs /\ at[cmd[c].seg] = cmd[c].pc
  /\ lock = CliNobody => \A n \in Segs : at[n] \notin {"intent", "renamed"}

\* What is true of a command, whatever the others do meanwhile.
PcFits(r) ==
  /\ r.pc \in {"intent", "renamed"} => r.order.verb = "rotate"
  /\ r.pc \in {"plan", "commit", "move", "event"} => r.order.verb = "apply"
  /\ r.pc \in {"read", "stat", "whole"} => r.order.verb = "verify"
  /\ r.pc = "answer" => /\ r.order.verb # "verify"
                        /\ r.out \in {"done", "busy", "refused"} \/ (r.order.verb = "place" /\ r.out = "held_busy")
                             \/ (r.order.verb = "apply" /\ r.out \in {"hold", "corrupt"})
RotateFits(r) == r.order.verb = "rotate" =>
  /\ r.pc \in {"run", "intent", "renamed"} => r.did = {}
  /\ r.pc = "answer" => (r.out = "done" => r.did # {}) /\ (r.out = "done" \/ r.did \subseteq r.unread)
  /\ r.pc = "done" => /\ r.exit = 0 => r.did # {} /\ (r.order.anchors => r.did \subseteq offbox)
                      /\ r.exit \in {2, 4} => r.did \subseteq r.unread \/ r.lost
ApplyFits(r) == r.order.verb = "apply" =>
  /\ r.pc = "run" => r.did = {} /\ r.done = {}
  /\ r.pc \in {"run", "plan", "commit", "move"} => r.unread = {}
  /\ r.pc = "commit" => r.seg \in Segs /\ digest[r.seg] # "none"
  /\ r.pc = "move" => r.seg \in Segs /\ ArchivedEntry(r.seg)
  /\ r.pc = "event" => r.out \in {"done", "hold", "refused", "corrupt", "busy"} /\ (r.unread = {} \/ r.out = "busy")
  /\ r.pc = "answer" => /\ (r.did \cup r.done) \ r.unread \subseteq named \/ (r.unnamed /\ r.out # "done")
                        /\ r.unread = {} \/ r.out = "busy"
  /\ r.pc = "done" => /\ (r.did \cup r.done) \ r.unread \subseteq named \/ r.unnamed
                      /\ r.exit = 0 => r.did \cup r.done \subseteq named
VerifyFits(r) == r.order.verb = "verify" =>
  LET n == r.order.seg
      d == r.order.dir
  IN /\ r.stood => (d = "live" /\ at[n] \in {"renamed", "closed", "archived", "moved"}) \/ (d = "archive" /\ at[n] = "moved")
     /\ r.pc = "read" => /\ r.mode = "sidecar" => d = "archive"
                         /\ r.mode = "pending-move" => ArchivedEntry(n)
     /\ r.pc = "stat" => /\ d = "live" /\ r.mode # "sidecar" /\ (r.stood => r.mode # "none")
                         /\ r.mode = "pending-move" => ArchivedEntry(n)
     /\ r.pc = "whole" /\ r.stood => at[n] = "moved" /\ (d = "archive" => n \notin sidecars)
     /\ r.pc = "done" =>
          /\ r.exit = 0 /\ r.mode # "single" => r.read \in {"whole", "spaced"}
          /\ r.exit = 0 /\ r.mode \in {"sidecar", "pending-move"} => r.read = digest[n] /\ ArchivedEntry(n)
          /\ r.exit = 1 /\ r.stood => bytes[n] # "whole" \/ r.read = "gone" \/ SidecarLost(r.order)
Fits(r) == PcFits(r) /\ RotateFits(r) /\ ApplyFits(r) /\ VerifyFits(r)
CmdsFit == \A c \in Cmds : \A r \in {cmd[c]} \ {CliIdle} : Fits(r)

CliInv == CliTypes /\ DigestFits /\ LockFits /\ CmdsFit

\* What a step never undoes ...
CliOnward ==
  /\ \A n \in Segs :
       /\ ArchivedEntry(n) => ArchivedEntry(n)' /\ digest'[n] = digest[n]
       /\ at[n] = "moved" => at'[n] = "moved" /\ (n \notin sidecars => n \notin sidecars')
       /\ at[n] \in {"renamed", "closed", "archived", "moved"} => at'[n] \in {"renamed", "closed", "archived", "moved"}
       /\ digest[n] # "none" => digest'[n] # "none"
       /\ bytes[n] # "whole" => bytes'[n] # "whole"
  /\ named \subseteq named' /\ offbox \subseteq offbox'
\* ... what it makes of the files ...
FilesGo ==
  /\ at' \in [Segs -> AtStates] /\ bytes' \in [Segs -> FileBytes]
  /\ digest' \in [Segs -> FileBytes \cup {"none"}] /\ sidecars' \in SUBSET Segs
  /\ DigestFits' /\ CliOnward
\* ... and what anything but a rotation leaves alone.
QuietAt ==
  /\ lock' = lock
  /\ \A n \in Segs : /\ at[n] \in {"none", "open", "intent", "renamed"} => at'[n] = at[n]
                     /\ ClosedEntry(n) => ClosedEntry(n)'

LEMMA FitsKept ==
  ASSUME CliTypes, CliOnward, NEW r \in CliRun, Fits(r)
  PROVE  Fits(r)'
<1>0. r.order \in Orders BY DEF CliRun
<1>1. PcFits(r)'
  <2>1. PcFits(r) BY DEF Fits
  <2> QED BY <2>1, Zenon DEF PcFits
<1>2. RotateFits(r)' BY DEF Fits, RotateFits, CliOnward
<1>3. ApplyFits(r)' BY DEF Fits, ApplyFits, CliOnward
<1>4. VerifyFits(r)'
  BY <1>0, CliAssumption DEF VerifyFits, Segs, CliOnward, Fits, SidecarLost
<1> QED BY <1>1, <1>2, <1>3, <1>4 DEF Fits

LEMMA Running ==
  ASSUME CliInv, NEW c \in Cmds, cmd[c].pc # "idle"
  PROVE  \E r \in CliRun : r = cmd[c] /\ Fits(r)
<1>1. cmd[c] # CliIdle BY DEF CliIdle
<1> QED BY <1>1 DEF CliInv, CliTypes, CmdsFit

LEMMA Acted ==
  ASSUME CliInv, NEW c \in Cmds, NEW r \in CliRun, cmd' = [cmd EXCEPT ![c] = r], CliOnward, Fits(r)'
  PROVE  cmd' \in [Cmds -> {CliIdle} \cup CliRun] /\ CmdsFit'
<1>1. cmd \in [Cmds -> {CliIdle} \cup CliRun] /\ CmdsFit BY DEF CliInv, CliTypes
<1>2. cmd'[c] = r /\ \A d \in Cmds : d # c => cmd'[d] = cmd[d] BY <1>1
<1>3. ASSUME NEW d \in Cmds, NEW q \in {cmd'[d]} \ {CliIdle} PROVE Fits(q)'
  <2>1. CASE d = c
    <3>1. q = r BY <1>2, <2>1
    <3> QED BY <3>1
  <2>2. CASE d # c
    BY <1>1, <1>2, <2>2, FitsKept DEF CmdsFit, CliInv
  <2> QED BY <2>1, <2>2
<1> QED BY <1>1, <1>3 DEF CmdsFit

LEMMA QuietLock ==
  ASSUME CliTypes, LockFits, FilesGo, QuietAt, cmd' \in [Cmds -> {CliIdle} \cup CliRun],
         \A c \in Cmds : cmd'[c].pc \in {"intent", "renamed"} => cmd'[c] = cmd[c]
  PROVE  LockFits'
<1>1. PICK t \in Segs : OpenAt(t) BY DEF LockFits
<1>2. OpenAt(t)' BY <1>1 DEF OpenAt, QuietAt, ClosedEntry
<1>3. ASSUME NEW c \in Cmds, cmd'[c].pc \in {"intent", "renamed"}
      PROVE lock' = c /\ cmd'[c].seg \in Segs /\ cmd'[c].seg + 1 \in Segs /\ at'[cmd'[c].seg] = cmd'[c].pc
  BY <1>3 DEF LockFits, QuietAt
<1>4. lock' = CliNobody => \A n \in Segs : at'[n] \notin {"intent", "renamed"}
  BY DEF LockFits, QuietAt, CliTypes, AtStates, ClosedEntry
<1> QED BY <1>2, <1>3, <1>4 DEF LockFits

LEMMA FilesStay ==
  ASSUME CliTypes, DigestFits, UNCHANGED <<files, lock>>, named \subseteq named', offbox \subseteq offbox'
  PROVE  FilesGo /\ QuietAt
BY DEF files, DigestFits, ArchivedEntry, CliOnward, FilesGo, QuietAt, CliTypes, ClosedEntry

\* A segment is archived, or its file moved.
LEMMA SegmentGoes ==
  ASSUME CliTypes, DigestFits, NEW n \in Segs, NEW s \in {"archived", "moved"}, at' = [at EXCEPT ![n] = s],
         UNCHANGED <<bytes, digest, sidecars, named, offbox, lock>>,
         IF s = "archived" THEN at[n] = "closed" /\ digest[n] # "none" ELSE ArchivedEntry(n)
  PROVE  FilesGo /\ QuietAt
BY DEF CliTypes, AtStates, DigestFits, ArchivedEntry, CliOnward, QuietAt, ClosedEntry, FilesGo

\* A step of one command that leaves the rotations alone.
LEMMA CliKeeps ==
  ASSUME CliInv, NEW c \in Cmds, NEW r \in CliRun, cmd' = [cmd EXCEPT ![c] = r], FilesGo, QuietAt,
         r.pc \notin {"intent", "renamed"}, Fits(r)'
  PROVE  CliInv'
BY Acted, QuietLock DEF FilesGo, CliTypes, CliInv

\* A step of one command that changes no file.
LEMMA CliLooks ==
  ASSUME CliInv, NEW c \in Cmds, NEW r \in CliRun, cmd' = [cmd EXCEPT ![c] = r], UNCHANGED <<files, lock>>,
         named \subseteq named', offbox \subseteq offbox', r.pc \notin {"intent", "renamed"}, Fits(r)
  PROVE  CliInv'
BY FilesStay, FitsKept, CliKeeps DEF CliInv, FilesGo

LEMMA CliInitHeld ==
  ASSUME CliInit
  PROVE  CliInv
<1>0. Closed + 1 \in Segs BY CliAssumption DEF Segs
<1>1. CliTypes BY DEF CliInit, CliTypes, AtStates, FileBytes
<1>2. DigestFits BY DEF CliInit, DigestFits, ArchivedEntry
<1>3. LockFits
  BY <1>0, CliAssumption DEF CliInit, OpenAt, ClosedEntry, Segs, LockFits, CliIdle
<1>4. CmdsFit BY DEF CliInit, CmdsFit
<1> QED BY <1>1, <1>2, <1>3, <1>4 DEF CliInv

LEMMA BeginKeeps ==
  ASSUME CliInv, NEW c \in Cmds, NEW order \in Orders, CliBegin(c, order)
  PROVE  CliInv'
<1> DEFINE r == [pc |-> "run", order |-> order, out |-> "none", exit |-> 0, lost |-> FALSE,
                 did |-> {}, unread |-> {}, done |-> {}, side |-> FALSE, unnamed |-> FALSE,
                 seg |-> 0, stood |-> Stands(order), mode |-> "none", read |-> "none"]
<1>1. cmd' = [cmd EXCEPT ![c] = r] /\ UNCHANGED <<files, lock, named, offbox>> BY DEF CliBegin, CliGoes
<1>2. Stands(order) \in BOOLEAN BY DEF Stands
<1>3. r \in CliRun BY <1>2, CliAssumption DEF CliRun, CliPcs, CliOuts, CliModes
<1>4. r.pc = "run" /\ r.order = order /\ r.did = {} /\ r.done = {} /\ r.unread = {} /\ r.stood = Stands(order) OBVIOUS
<1> HIDE DEF r
<1>5. PcFits(r) /\ RotateFits(r) /\ ApplyFits(r) BY <1>4 DEF PcFits, RotateFits, ApplyFits
<1>6. VerifyFits(r) BY <1>4 DEF VerifyFits, Stands, CliAt, InLiveDir
<1>7. Fits(r) BY <1>5, <1>6 DEF Fits
<1> QED BY <1>1, <1>3, <1>4, <1>7, CliLooks

\* What a command is told before its first byte, or by the marker.
LEMMA ToldKeeps ==
  ASSUME CliInv, NEW c \in Cmds, NEW x \in CliOuts, cmd[c].pc = "run", cmd' = [cmd EXCEPT ![c] = Result(c, x)],
         UNCHANGED <<files, lock, named, offbox>>, cmd[c].order.verb \in {"rotate", "place", "release", "apply"},
         \/ x \in {"busy", "refused"}
         \/ cmd[c].order.verb \in {"place", "release"} /\ x = "done"
         \/ cmd[c].order.verb = "place" /\ x = "held_busy"
         \/ cmd[c].order.verb = "apply" /\ x = "hold"
  PROVE  CliInv'
<1>1. PICK q \in CliRun : q = cmd[c] /\ Fits(q) BY Running
<1> DEFINE r == [q EXCEPT !.pc = "answer", !.out = x]
<1>2. cmd' = [cmd EXCEPT ![c] = r] BY <1>1 DEF Result
<1>3. /\ r \in CliRun /\ r.pc = "answer" /\ r.order = q.order /\ r.out = x /\ r.did = q.did /\ r.done = q.done
     /\ r.unread = q.unread
  BY <1>1 DEF CliRun, CliPcs
<1> HIDE DEF r
<1>4. q.pc = "run" /\ q.order.verb \in {"rotate", "place", "release", "apply"} BY <1>1
<1>5. PcFits(r) BY <1>1, <1>3, <1>4 DEF PcFits
<1>6. RotateFits(r) BY <1>1, <1>3, <1>4 DEF Fits, RotateFits
<1>7. ApplyFits(r) BY <1>1, <1>3, <1>4 DEF Fits, ApplyFits
<1>8. VerifyFits(r) BY <1>3, <1>4 DEF VerifyFits
<1>9. Fits(r) BY <1>5, <1>6, <1>7, <1>8 DEF Fits
<1> QED BY <1>2, <1>3, <1>9, CliLooks

LEMMA HoldsKeep ==
  ASSUME CliInv, NEW c \in Cmds, Busy(c) \/ CliRefused(c) \/ PlaceHold(c) \/ ReleaseHold(c)
  PROVE  CliInv'
<1>0. UNCHANGED <<files, lock, named, offbox>> /\ cmd[c].pc = "run"
  BY DEF Busy, CliRefused, PlaceHold, ReleaseHold, CliAsks
<1>1. PICK q \in CliRun : q = cmd[c] /\ Fits(q) BY <1>0, Running
<1>2. q.order.verb \in {"rotate", "place", "release", "apply", "verify"} BY CliAssumption DEF CliRun
<1>3. CASE Busy(c) BY <1>0, <1>1, <1>2, <1>3, ToldKeeps DEF Busy, CliGoes, CliOuts
<1>4. CASE CliRefused(c) BY <1>0, <1>1, <1>2, <1>4, ToldKeeps DEF CliRefused, CliGoes, CliOuts
<1>5. CASE PlaceHold(c)
  BY <1>5, <1>0, ToldKeeps DEF PlaceHold, CliGoes, CliAsks, CliOuts
<1>6. CASE ReleaseHold(c)
  BY <1>6, <1>0, ToldKeeps DEF ReleaseHold, CliGoes, CliAsks, CliOuts
<1> QED BY <1>3, <1>4, <1>5, <1>6

-----------------------------------------------------------------------------
(* rotate *)

LEMMA RotateIntentKeeps ==
  ASSUME CliInv, NEW c \in Cmds, RotateIntent(c)
  PROVE  CliInv'
<1>t. CliTypes /\ DigestFits /\ LockFits BY DEF CliInv
<1>n. MaxSegs \in Nat /\ CliNobody \notin Cmds BY CliAssumption DEF CliNobody
<1>1. PICK q \in CliRun : q = cmd[c] /\ Fits(q) /\ q.pc = "run" /\ q.order.verb = "rotate"
  BY Running DEF RotateIntent, CliAsks
<1>2. PICK t \in Segs : OpenAt(t) BY <1>t DEF LockFits
<1>3. CliOpen = t
  <2>1. \A n \in Segs : at[n] \in {"open", "intent", "renamed"} => n = t
    BY <1>n, <1>2 DEF Segs, OpenAt, ClosedEntry
  <2>2. at[t] \in {"open", "intent", "renamed"} BY <1>2 DEF OpenAt
  <2> QED BY <2>1, <2>2 DEF CliOpen
<1>4. t < MaxSegs /\ lock = CliNobody /\ lock' = c /\ at' = [at EXCEPT ![t] = "intent"]
      /\ UNCHANGED <<bytes, digest, sidecars, named, offbox>>
  BY <1>3 DEF RotateIntent, Enter
<1>5. t + 1 \in Segs BY <1>4, <1>n DEF Segs
<1> DEFINE r == [q EXCEPT !.pc = "intent", !.seg = t]
<1>6. cmd' = [cmd EXCEPT ![c] = r] BY <1>1, <1>3 DEF RotateIntent, CliGoes
<1>s. t \in 0..MaxSegs BY <1>n DEF Segs
<1>7. r \in CliRun /\ r.pc = "intent" /\ r.order = q.order /\ r.seg = t /\ r.did = q.did BY <1>s DEF CliRun, CliPcs
<1> HIDE DEF r
<1>8. at'[t] = "intent" /\ \A n \in Segs : n # t => at'[n] = at[n] BY <1>t, <1>4 DEF CliTypes
<1>9. at[t] \in {"open", "intent", "renamed"} /\ at[t] = "open" BY <1>2, <1>4, <1>t DEF OpenAt, LockFits
<1>10. FilesGo
  BY <1>t, <1>4, <1>8, <1>9 DEF CliTypes, AtStates, DigestFits, ArchivedEntry, CliOnward, FilesGo
<1>11. Fits(r)'
  BY <1>1, <1>7, <1>t, <1>10, FitsKept DEF Fits, PcFits, RotateFits, ApplyFits, VerifyFits, FilesGo
<1>12. cmd' \in [Cmds -> {CliIdle} \cup CliRun] /\ CmdsFit' BY <1>6, <1>7, <1>10, <1>11, Acted DEF FilesGo
<1>13. LockFits'
  <2>1. OpenAt(t)' BY <1>2, <1>8 DEF OpenAt, ClosedEntry
  <2>2. cmd'[c] = r /\ \A d \in Cmds : d # c => cmd'[d] = cmd[d] BY <1>t, <1>6 DEF CliTypes
  <2>3. ASSUME NEW d \in Cmds, cmd'[d].pc \in {"intent", "renamed"}
        PROVE lock' = d /\ cmd'[d].seg \in Segs /\ cmd'[d].seg + 1 \in Segs /\ at'[cmd'[d].seg] = cmd'[d].pc
    <3>1. CASE d = c BY <3>1, <1>4, <1>5, <1>7, <1>8, <2>2
    <3>2. CASE d # c BY <3>2, <2>2, <2>3, <1>4, <1>t, <1>n DEF LockFits
    <3> QED BY <3>1, <3>2
  <2>4. lock' # CliNobody BY <1>4, <1>n
  <2> QED BY <2>1, <2>3, <2>4 DEF LockFits
<1> QED BY <1>10, <1>12, <1>13 DEF CliInv, CliTypes, FilesGo

LEMMA RotateRenameKeeps ==
  ASSUME CliInv, NEW c \in Cmds, RotateRename(c)
  PROVE  CliInv'
<1>t. CliTypes /\ DigestFits /\ LockFits BY DEF CliInv
<1>n. MaxSegs \in Nat /\ CliNobody \notin Cmds BY CliAssumption DEF CliNobody
<1>0. cmd[c].pc = "intent" BY DEF RotateRename
<1>1. PICK q \in CliRun : q = cmd[c] /\ Fits(q) /\ q.pc = "intent" BY <1>0, Running
<1>2. PICK t \in Segs : t = q.seg /\ lock = c /\ t + 1 \in Segs /\ at[t] = "intent" BY <1>0, <1>1, <1>t DEF LockFits
<1>3. q.order.verb = "rotate" /\ q.did = {} BY <1>1 DEF Fits, PcFits, RotateFits
<1>4. PICK s \in {"renamed", "open"} :
        /\ at' = [at EXCEPT ![t] = s]
        /\ s = "renamed" => lock' = lock /\ cmd' = [cmd EXCEPT ![c] = [q EXCEPT !.pc = "renamed"]]
        /\ s = "open" => lock' = CliNobody /\ cmd' = [cmd EXCEPT ![c] = [q EXCEPT !.pc = "answer", !.out = "busy"]]
  BY <1>1, <1>2 DEF RotateRename, CliGoes, Result
<1>5. UNCHANGED <<bytes, digest, sidecars, named, offbox>> BY DEF RotateRename
<1> DEFINE r == IF s = "renamed" THEN [q EXCEPT !.pc = "renamed"] ELSE [q EXCEPT !.pc = "answer", !.out = "busy"]
<1>6. cmd' = [cmd EXCEPT ![c] = r] BY <1>4
<1>7. /\ r \in CliRun /\ r.pc = (IF s = "renamed" THEN "renamed" ELSE "answer") /\ r.order = q.order /\ r.seg = t
      /\ r.did = q.did /\ (s = "open" => r.out = "busy")
  BY <1>2 DEF CliRun, CliPcs, CliOuts
<1> HIDE DEF r
<1>8. at'[t] = s /\ \A n \in Segs : n # t => at'[n] = at[n] BY <1>t, <1>4 DEF CliTypes
<1>10. FilesGo
  BY <1>t, <1>4, <1>5, <1>8, <1>2 DEF CliTypes, AtStates, DigestFits, ArchivedEntry, CliOnward, FilesGo
<1>11. Fits(r)'
  BY <1>3, <1>7, <1>t, <1>10, FitsKept DEF PcFits, RotateFits, ApplyFits, VerifyFits, Fits, FilesGo
<1>12. cmd' \in [Cmds -> {CliIdle} \cup CliRun] /\ CmdsFit' BY <1>6, <1>7, <1>10, <1>11, Acted DEF FilesGo
<1>13. LockFits'
  <2>0. PICK u \in Segs : OpenAt(u) BY <1>t DEF LockFits
  <2>e. u = t
    <3>1. u \in Nat /\ t \in Nat BY <1>n DEF Segs
    <3> QED BY <1>2, <2>0, <3>1 DEF OpenAt, ClosedEntry
  <2>1. OpenAt(t)' BY <2>0, <2>e, <1>8 DEF OpenAt, ClosedEntry
  <2>2. cmd'[c] = r /\ \A d \in Cmds : d # c => cmd'[d] = cmd[d] BY <1>t, <1>6 DEF CliTypes
  <2>3. ASSUME NEW d \in Cmds, cmd'[d].pc \in {"intent", "renamed"}
        PROVE lock' = d /\ cmd'[d].seg \in Segs /\ cmd'[d].seg + 1 \in Segs /\ at'[cmd'[d].seg] = cmd'[d].pc
    BY <1>2, <1>4, <1>7, <1>8, <2>2, <2>3, <1>t DEF LockFits
  <2>4. lock' = CliNobody => \A n \in Segs : at'[n] \notin {"intent", "renamed"}
    BY <1>2, <1>4, <1>n, <2>0, <2>e, <1>8 DEF Segs, OpenAt, ClosedEntry
  <2> QED BY <2>1, <2>3, <2>4 DEF LockFits
<1> QED BY <1>10, <1>12, <1>13 DEF CliInv, CliTypes, FilesGo

LEMMA RotateCommitKeeps ==
  ASSUME CliInv, NEW c \in Cmds, RotateCommit(c)
  PROVE  CliInv'
<1>t. CliTypes /\ DigestFits /\ LockFits BY DEF CliInv
<1>n. MaxSegs \in Nat /\ CliNobody \notin Cmds BY CliAssumption DEF CliNobody
<1>0. cmd[c].pc = "renamed" BY DEF RotateCommit
<1>1. PICK q \in CliRun : q = cmd[c] /\ Fits(q) /\ q.pc = "renamed" BY <1>0, Running
<1>2. PICK t \in Segs : t = q.seg /\ lock = c /\ t + 1 \in Segs /\ at[t] = "renamed" BY <1>0, <1>1, <1>t DEF LockFits
<1>3. q.order.verb = "rotate" /\ q.did = {} BY <1>1 DEF Fits, PcFits, RotateFits
<1>4. /\ at' = [at EXCEPT ![t] = "closed", ![t + 1] = "open"] /\ lock' = CliNobody
      /\ UNCHANGED <<bytes, digest, sidecars, named, offbox>>
  BY <1>1, <1>2 DEF RotateCommit
<1>p. \A n \in Segs : n \in Nat /\ t \in Nat /\ t + 1 # t /\ (n > t + 1 => n > t) /\ (n < t + 1 => n < t \/ n = t)
  BY <1>n DEF Segs
<1>7. PICK r \in CliRun :
        /\ cmd' = [cmd EXCEPT ![c] = r] /\ r.pc = "answer" /\ r.order = q.order /\ r.did = {t}
        /\ r.out = "done" \/ (r.out = "busy" /\ r.unread = {t})
  <2>1. CASE CliGoes(c, [Result(c, "done") EXCEPT !.did = {cmd[c].seg}])
    <3>1. PICK r : r = [q EXCEPT !.pc = "answer", !.out = "done", !.did = {t}] OBVIOUS
    <3>2. cmd' = [cmd EXCEPT ![c] = r] BY <1>1, <1>2, <2>1, <3>1 DEF CliGoes, Result
    <3>3. r \in CliRun /\ r.pc = "answer" /\ r.order = q.order /\ r.did = {t} /\ r.out = "done"
      BY <1>2, <3>1 DEF CliRun, CliPcs, CliOuts
    <3> QED BY <3>2, <3>3
  <2>2. CASE CliGoes(c, [Result(c, "busy") EXCEPT !.did = {cmd[c].seg}, !.unread = {cmd[c].seg}])
    <3>1. PICK r : r = [q EXCEPT !.pc = "answer", !.out = "busy", !.did = {t}, !.unread = {t}] OBVIOUS
    <3>2. cmd' = [cmd EXCEPT ![c] = r] BY <1>1, <1>2, <2>2, <3>1 DEF CliGoes, Result
    <3>3. r \in CliRun /\ r.pc = "answer" /\ r.order = q.order /\ r.did = {t} /\ r.out = "busy" /\ r.unread = {t}
      BY <1>2, <3>1 DEF CliRun, CliPcs, CliOuts
    <3> QED BY <3>2, <3>3
  <2> QED BY <2>1, <2>2 DEF RotateCommit
<1>u. PICK u \in Segs : OpenAt(u) BY <1>t DEF LockFits
<1>e. u = t BY <1>p, <1>2, <1>u DEF OpenAt, ClosedEntry
<1>o. at[t + 1] = "none" BY <1>2, <1>e, <1>p, <1>u DEF OpenAt
<1>8. at'[t] = "closed" /\ at'[t + 1] = "open" /\ \A n \in Segs : n # t /\ n # t + 1 => at'[n] = at[n]
  BY <1>t, <1>4, <1>2, <1>p DEF CliTypes
<1>10. FilesGo
  BY <1>t, <1>4, <1>8, <1>2, <1>o DEF CliTypes, AtStates, DigestFits, ArchivedEntry, CliOnward, FilesGo
<1>11. Fits(r)'
  BY <1>3, <1>7, <1>t, <1>10, FitsKept DEF PcFits, RotateFits, ApplyFits, VerifyFits, Fits, FilesGo
<1>12. cmd' \in [Cmds -> {CliIdle} \cup CliRun] /\ CmdsFit' BY <1>7, <1>10, <1>11, Acted DEF FilesGo
<1>13. LockFits'
  <2>1. OpenAt(t + 1)' BY <1>e, <1>u, <1>2, <1>8, <1>p DEF OpenAt, ClosedEntry
  <2>2. cmd'[c] = r /\ \A d \in Cmds : d # c => cmd'[d] = cmd[d] BY <1>t, <1>7 DEF CliTypes
  <2>3. \A d \in Cmds : cmd'[d].pc \notin {"intent", "renamed"} BY <2>2, <1>2, <1>7, <1>t DEF LockFits
  <2>4. \A n \in Segs : at'[n] \notin {"intent", "renamed"}
    BY <1>p, <1>u, <1>e, <1>8 DEF OpenAt, ClosedEntry
  <2> QED BY <1>2, <2>1, <2>3, <2>4 DEF LockFits
<1> QED BY <1>10, <1>12, <1>13 DEF CliInv, CliTypes, FilesGo

Less == {ss \in Nat \X Nat : ss[1] < ss[2]}
LEMMA LeastOf == ASSUME NEW S, S \subseteq Nat, S # {} PROVE \E m \in S : \A k \in S : m <= k
<1>1. IsWellFoundedOn(Less, Nat) BY NatLessThanWellFounded DEF OpToRel, Less
<1>2. PICK x \in S : \A y \in S : ~(<<y, x>> \in Less) BY <1>1, WFMin
<1>3. \A y \in S : ~(y < x) BY <1>2 DEF Less
<1> QED BY <1>3

-----------------------------------------------------------------------------
(* retention apply *)

\* A run that stops early, or goes to its next step, with the files as they are.
LEMMA ApplyStays ==
  ASSUME CliInv, NEW c \in Cmds, NEW q \in CliRun, q = cmd[c], Fits(q), q.order.verb = "apply",
         NEW r \in CliRun, cmd' = [cmd EXCEPT ![c] = r], UNCHANGED <<named, offbox>>, FilesGo, QuietAt,
         r.order = q.order, r.unread = q.unread, q.pc \in {"run", "plan", "commit", "move"}, r.pc \in {"plan", "event"},
         r.pc = "event" => r.out \in {"done", "hold", "refused", "corrupt"}
  PROVE  CliInv'
<1>0. r.unread = {} BY DEF Fits, ApplyFits
<1>1. PcFits(r) /\ RotateFits(r) /\ ApplyFits(r) /\ VerifyFits(r) BY <1>0 DEF PcFits, RotateFits, ApplyFits, VerifyFits
<1>2. Fits(r)' BY <1>1, FitsKept DEF CliInv, FilesGo, Fits
<1> QED BY <1>2, CliKeeps

LEMMA ApplyStartKeeps ==
  ASSUME CliInv, NEW c \in Cmds, ApplyStart(c)
  PROVE  CliInv'
<1>0. cmd[c].pc = "run" /\ cmd[c].order.verb = "apply" /\ UNCHANGED <<files, lock, named, offbox>>
  BY DEF ApplyStart, CliAsks
<1>1. PICK q \in CliRun : q = cmd[c] /\ Fits(q) BY <1>0, Running
<1>2. CASE hold
  BY <1>2, <1>0, ToldKeeps DEF ApplyStart, CliGoes, CliOuts
<1>3. CASE ~hold
  <2>1. PICK r : r = [q EXCEPT !.pc = "plan"] OBVIOUS
  <2>2. cmd' = [cmd EXCEPT ![c] = r] BY <1>1, <1>3, <2>1 DEF ApplyStart, CliGoes
  <2>3. r \in CliRun /\ r.pc = "plan" /\ r.order = q.order /\ r.unread = q.unread BY <2>1 DEF CliRun, CliPcs
  <2>4. FilesGo /\ QuietAt BY <1>0, FilesStay DEF CliInv
  <2> QED BY <1>0, <1>1, <2>2, <2>3, <2>4, ApplyStays
<1> QED BY <1>2, <1>3

\* A run that is stopped.
LEMMA StopKeeps ==
  ASSUME CliInv, NEW c \in Cmds, cmd[c].pc \in {"plan", "commit"}, NEW x \in {"done", "hold", "refused", "corrupt"},
         CliStop(c, x), UNCHANGED <<named, offbox>>, FilesGo, QuietAt
  PROVE  CliInv'
<1>1. PICK q \in CliRun : q = cmd[c] /\ Fits(q) BY Running
<1>2. q.order.verb = "apply" BY <1>1 DEF Fits, PcFits
<1>3. PICK r : r = [q EXCEPT !.pc = "event", !.out = x] OBVIOUS
<1>4. cmd' = [cmd EXCEPT ![c] = r] BY <1>1, <1>3 DEF CliStop, CliGoes
<1>5. r \in CliRun /\ r.pc = "event" /\ r.order = q.order /\ r.unread = q.unread /\ r.out = x BY <1>3 DEF CliRun, CliPcs, CliOuts
<1> QED BY <1>1, <1>2, <1>4, <1>5, ApplyStays

LEMMA ApplyCompleteKeeps ==
  ASSUME CliInv, NEW c \in Cmds, ApplyComplete(c)
  PROVE  CliInv'
<1>t. CliTypes /\ DigestFits BY DEF CliInv
<1>0. cmd[c].pc = "plan" /\ UNCHANGED <<bytes, digest, sidecars, named, offbox, lock>> BY DEF ApplyComplete
<1>1. PICK q \in CliRun : q = cmd[c] /\ Fits(q) BY <1>0, Running
<1>2. q.order.verb = "apply" BY <1>0, <1>1 DEF Fits, PcFits
<1>3. PICK n \in Segs : at[n] = "archived" /\ (\/ CliStop(c, "corrupt") /\ UNCHANGED at
                                               \/ at' = Moves(n) /\ CliGoes(c, [cmd[c] EXCEPT !.done = @ \union {n}]))
  BY DEF ApplyComplete
<1>4. CASE CliStop(c, "corrupt") /\ UNCHANGED at
  <2>1. FilesGo /\ QuietAt BY <1>t, <1>0, <1>4, FilesStay DEF files
  <2> QED BY <1>0, <1>4, <2>1, StopKeeps
<1>5. CASE at' = Moves(n) /\ CliGoes(c, [cmd[c] EXCEPT !.done = @ \union {n}])
  <2>1. FilesGo /\ QuietAt BY <1>t, <1>0, <1>3, <1>5, SegmentGoes DEF Moves, ArchivedEntry
  <2>2. PICK r : r = [q EXCEPT !.done = q.done \cup {n}] OBVIOUS
  <2>3. cmd' = [cmd EXCEPT ![c] = r] BY <1>1, <1>5, <2>2 DEF CliGoes
  <2>4. r \in CliRun /\ r.pc = "plan" /\ r.order = q.order /\ r.unread = q.unread BY <1>0, <1>1, <2>2 DEF CliRun
  <2> QED BY <1>0, <1>1, <1>2, <2>1, <2>3, <2>4, ApplyStays
<1> QED BY <1>3, <1>4, <1>5

LEMMA ApplyPlanKeeps ==
  ASSUME CliInv, NEW c \in Cmds, ApplyPlan(c)
  PROVE  CliInv'
<1>t. CliTypes /\ DigestFits BY DEF CliInv
<1>n. MaxSegs \in Nat BY CliAssumption
<1>0. cmd[c].pc = "plan" /\ UNCHANGED <<at, bytes, named, offbox, lock>> BY DEF ApplyPlan
<1>1. PICK q \in CliRun : q = cmd[c] /\ Fits(q) BY <1>0, Running
<1>2. q.order.verb = "apply" BY <1>0, <1>1 DEF Fits, PcFits
<1>3. CASE UNCHANGED <<digest, sidecars>> /\ \E x \in {"done", "corrupt", "hold", "refused"} : CliStop(c, x)
  <2>1. FilesGo /\ QuietAt BY <1>t, <1>0, <1>3, FilesStay DEF files
  <2> QED BY <1>0, <1>3, <2>1, StopKeeps
<1> DEFINE n == Oldest(CliDue)
<1>4. CASE /\ CliDue # {} /\ (n \in sidecars => digest[n] = bytes[n])
           /\ sidecars' = sidecars \union {n} /\ digest' = [digest EXCEPT ![n] = bytes[n]]
           /\ CliGoes(c, [cmd[c] EXCEPT !.pc = "commit", !.seg = n, !.side = n \notin sidecars])
  <2>1. n \in CliDue
    <3>1. \E m \in CliDue : \A k \in CliDue : m <= k
      <4>1. CliDue \subseteq Nat BY <1>n DEF CliDue, Segs
      <4> QED BY <1>4, <4>1, LeastOf
    <3> QED BY <3>1 DEF Oldest
  <2>2. PICK m \in Segs : m = n /\ at[m] = "closed" BY <2>1 DEF CliDue
  <2>3. /\ (m \in sidecars => digest[m] = bytes[m]) /\ sidecars' = sidecars \union {m}
        /\ digest' = [digest EXCEPT ![m] = bytes[m]]
        /\ cmd' = [cmd EXCEPT ![c] = [q EXCEPT !.pc = "commit", !.seg = m, !.side = m \notin sidecars]]
    BY <1>1, <1>4, <2>2 DEF CliGoes
  <2> HIDE DEF n
  <2>4. bytes[m] \in FileBytes /\ bytes[m] # "none" /\ digest'[m] = bytes[m] /\ \A k \in Segs : k # m => digest'[k] = digest[k]
    BY <1>t, <2>3 DEF CliTypes, FileBytes
  <2>5. DigestFits' BY <1>t, <1>0, <2>4 DEF DigestFits, ArchivedEntry
  <2>6. CliOnward BY <1>t, <1>0, <2>2, <2>3, <2>4 DEF CliOnward, ArchivedEntry
  <2>7. FilesGo BY <1>t, <1>0, <2>3, <2>4, <2>5, <2>6 DEF FilesGo, CliTypes
  <2>8. QuietAt BY <1>0 DEF QuietAt, ClosedEntry
  <2>s. m \in 0..MaxSegs BY <1>n DEF Segs
  <2>9. PICK r : r = [q EXCEPT !.pc = "commit", !.seg = m, !.side = m \notin sidecars] OBVIOUS
  <2>10. r \in CliRun /\ r.pc = "commit" /\ r.order = q.order /\ r.seg = m /\ r.unread = q.unread
    BY <2>s, <2>9 DEF CliRun, CliPcs
  <2>u. q.unread = {} BY <1>0, <1>1, <1>2 DEF Fits, ApplyFits
  <2>11. PcFits(r) /\ RotateFits(r) /\ VerifyFits(r) BY <1>2, <2>10 DEF PcFits, RotateFits, VerifyFits
  <2>12. ApplyFits(r)' BY <1>2, <2>4, <2>10, <2>u DEF ApplyFits
  <2>13. Fits(r)'
    BY <2>11, <1>2, <2>10, <2>12 DEF PcFits, RotateFits, VerifyFits, Fits
  <2> QED BY <2>3, <2>7, <2>8, <2>9, <2>10, <2>13, CliKeeps
<1>5. \/ UNCHANGED <<digest, sidecars>> /\ \E x \in {"done", "corrupt", "hold", "refused"} : CliStop(c, x)
      \/ /\ CliDue # {} /\ (n \in sidecars => digest[n] = bytes[n])
         /\ sidecars' = sidecars \union {n} /\ digest' = [digest EXCEPT ![n] = bytes[n]]
         /\ CliGoes(c, [cmd[c] EXCEPT !.pc = "commit", !.seg = n, !.side = n \notin sidecars])
  BY DEF ApplyPlan, Archivable
<1> QED BY <1>3, <1>4, <1>5

LEMMA ApplyCommitKeeps ==
  ASSUME CliInv, NEW c \in Cmds, ApplyCommit(c)
  PROVE  CliInv'
<1>t. CliTypes /\ DigestFits BY DEF CliInv
<1>0. cmd[c].pc = "commit" /\ UNCHANGED <<bytes, digest, named, offbox, lock>> BY DEF ApplyCommit
<1>1. PICK q \in CliRun : q = cmd[c] /\ Fits(q) BY <1>0, Running
<1>2. q.order.verb = "apply" BY <1>0, <1>1 DEF Fits, PcFits
<1>3. PICK n \in Segs : n = q.seg /\ digest[n] # "none" BY <1>0, <1>1, <1>2 DEF Fits, ApplyFits
<1>4. CASE /\ CliStop(c, "hold") /\ UNCHANGED at
           /\ sidecars' = IF q.side /\ ~ArchivedEntry(n) THEN sidecars \ {n} ELSE sidecars
  BY <1>4, <1>t, <1>0, StopKeeps DEF DigestFits, ArchivedEntry, CliOnward, FilesGo, QuietAt, CliTypes,
    ClosedEntry
<1>5. CASE CliGoes(c, [cmd[c] EXCEPT !.pc = "plan"]) /\ UNCHANGED <<at, sidecars>>
  BY <1>t, <1>0, <1>5, FilesStay, <1>1, <1>2, ApplyStays DEF files, CliGoes, CliRun, CliPcs
<1>u. q.unread = {} BY <1>0, <1>1, <1>2 DEF Fits, ApplyFits
<1> DEFINE Moved == CliGoes(c, [cmd[c] EXCEPT !.pc = "move", !.did = @ \union {n}])
           Unread == CliGoes(c, [cmd[c] EXCEPT !.pc = "event", !.out = "busy", !.did = @ \union {n}, !.unread = {n}])
<1>6. CASE at[n] = "closed" /\ at' = [at EXCEPT ![n] = "archived"] /\ UNCHANGED sidecars /\ (Moved \/ Unread)
  <2>1. FilesGo /\ QuietAt BY <1>t, <1>0, <1>3, <1>6, SegmentGoes
  <2>2. at'[n] = "archived" BY <1>t, <1>6 DEF CliTypes
  <2>3. PICK r \in CliRun :
          /\ cmd' = [cmd EXCEPT ![c] = r] /\ r.order = q.order /\ r.seg = n
          /\ (r.pc = "move" /\ r.unread = {}) \/ (r.pc = "event" /\ r.out = "busy")
    <3>1. CASE Moved
      <4>1. PICK r : r = [q EXCEPT !.pc = "move", !.did = q.did \cup {n}] OBVIOUS
      <4>2. cmd' = [cmd EXCEPT ![c] = r] BY <1>1, <3>1, <4>1 DEF CliGoes
      <4>3. r \in CliRun /\ r.pc = "move" /\ r.order = q.order /\ r.seg = n /\ r.unread = {}
        BY <1>3, <1>u, <4>1 DEF CliRun, CliPcs
      <4> QED BY <4>2, <4>3
    <3>2. CASE Unread
      <4>1. PICK r : r = [q EXCEPT !.pc = "event", !.out = "busy", !.did = q.did \cup {n}, !.unread = {n}] OBVIOUS
      <4>2. cmd' = [cmd EXCEPT ![c] = r] BY <1>1, <3>2, <4>1 DEF CliGoes
      <4>3. r \in CliRun /\ r.pc = "event" /\ r.order = q.order /\ r.seg = n /\ r.out = "busy"
        BY <1>3, <4>1 DEF CliRun, CliPcs, CliOuts
      <4> QED BY <4>2, <4>3
    <3> QED BY <1>6, <3>1, <3>2
  <2>6. ApplyFits(r)' BY <1>2, <2>2, <2>3 DEF ApplyFits, ArchivedEntry
  <2>7. PcFits(r) BY <1>2, <2>3 DEF PcFits
  <2>8. Fits(r)'
    BY <2>7, <1>2, <2>3, <2>6 DEF PcFits, RotateFits, VerifyFits, Fits
  <2> QED BY <2>1, <2>3, <2>8, CliKeeps
<1>7. \/ /\ CliStop(c, "hold") /\ UNCHANGED at
         /\ sidecars' = IF q.side /\ ~ArchivedEntry(n) THEN sidecars \ {n} ELSE sidecars
      \/ CliGoes(c, [cmd[c] EXCEPT !.pc = "plan"]) /\ UNCHANGED <<at, sidecars>>
      \/ at[n] = "closed" /\ at' = [at EXCEPT ![n] = "archived"] /\ UNCHANGED sidecars /\ (Moved \/ Unread)
  BY <1>1, <1>3 DEF ApplyCommit, CliDue
<1> QED BY <1>4, <1>5, <1>6, <1>7

LEMMA ApplyMoveKeeps ==
  ASSUME CliInv, NEW c \in Cmds, ApplyMove(c)
  PROVE  CliInv'
<1>t. CliTypes /\ DigestFits BY DEF CliInv
<1>0. cmd[c].pc = "move" /\ UNCHANGED <<bytes, digest, sidecars, named, offbox, lock>> BY DEF ApplyMove
<1>1. PICK q \in CliRun : q = cmd[c] /\ Fits(q) BY <1>0, Running
<1>2. q.order.verb = "apply" BY <1>0, <1>1 DEF Fits, PcFits
<1>3. PICK n \in Segs : n = q.seg /\ ArchivedEntry(n) BY <1>0, <1>1, <1>2 DEF Fits, ApplyFits
<1>4. FilesGo /\ QuietAt
  BY <1>t, <1>0, <1>3, SegmentGoes, FilesStay, <1>1 DEF Moves, files, ApplyMove
<1>5. PICK r : r = [q EXCEPT !.pc = "plan"] OBVIOUS
<1>6. cmd' = [cmd EXCEPT ![c] = r] BY <1>1, <1>5 DEF ApplyMove, CliGoes
<1>7. r \in CliRun /\ r.pc = "plan" /\ r.order = q.order /\ r.unread = q.unread BY <1>5 DEF CliRun, CliPcs
<1> QED BY <1>0, <1>1, <1>2, <1>4, <1>6, <1>7, ApplyStays

LEMMA ApplyEventKeeps ==
  ASSUME CliInv, NEW c \in Cmds, ApplyEvent(c)
  PROVE  CliInv'
<1>t. CliTypes /\ DigestFits BY DEF CliInv
<1>0. cmd[c].pc = "event" /\ UNCHANGED <<files, lock, offbox>> BY DEF ApplyEvent
<1>1. PICK q \in CliRun : q = cmd[c] /\ Fits(q) BY <1>0, Running
<1>2. q.order.verb = "apply" /\ q.out \in {"done", "hold", "refused", "corrupt", "busy"} /\ (q.unread = {} \/ q.out = "busy")
  BY <1>0, <1>1 DEF Fits, PcFits, ApplyFits
<1>3. PICK r \in CliRun :
        /\ cmd' = [cmd EXCEPT ![c] = r] /\ r.pc = "answer" /\ r.order = q.order
        /\ r.out \in {"done", "busy", "refused", "hold", "corrupt"} /\ named \subseteq named'
        /\ (r.did \cup r.done) \ r.unread \subseteq named' \/ (r.unnamed /\ r.out # "done")
        /\ r.unread = {} \/ r.out = "busy"
  <2>1. CASE named' = named \union Owed(c) /\ CliGoes(c, Result(c, cmd[c].out))
    <3>1. PICK r : r = [q EXCEPT !.pc = "answer", !.out = q.out] OBVIOUS
    <3>2. cmd' = [cmd EXCEPT ![c] = r] /\ named' = named \cup ((q.did \cup q.done) \ q.unread)
      BY <1>1, <2>1, <3>1 DEF CliGoes, Result, Owed
    <3>3. /\ r \in CliRun /\ r.pc = "answer" /\ r.order = q.order /\ r.out = q.out /\ r.did = q.did /\ r.done = q.done
          /\ r.unread = q.unread
      BY <3>1 DEF CliRun, CliPcs
    <3> QED BY <1>2, <3>2, <3>3
  <2>2. CASE /\ UNCHANGED named
             /\ CliGoes(c, [Result(c, IF cmd[c].out = "done" THEN "busy" ELSE cmd[c].out) EXCEPT !.unnamed = TRUE])
    <3>1. PICK x \in {"busy", "hold", "refused", "corrupt"} :
            x = (IF q.out = "done" THEN "busy" ELSE q.out) /\ (q.unread = {} \/ x = "busy") BY <1>2
    <3>2. PICK r : r = [q EXCEPT !.pc = "answer", !.out = x, !.unnamed = TRUE] OBVIOUS
    <3>3. cmd' = [cmd EXCEPT ![c] = r] BY <1>1, <2>2, <3>1, <3>2 DEF CliGoes, Result
    <3>4. r \in CliRun /\ r.pc = "answer" /\ r.order = q.order /\ r.out = x /\ r.unnamed /\ r.unread = q.unread
      BY <3>2 DEF CliRun, CliPcs, CliOuts
    <3> QED BY <2>2, <3>1, <3>3, <3>4
  <2> QED BY <2>1, <2>2 DEF ApplyEvent
<1>4. FilesGo /\ QuietAt BY <1>t, <1>0, <1>3, FilesStay
<1>5. PcFits(r) BY <1>2, <1>3 DEF PcFits
<1>6. Fits(r)'
  BY <1>5, <1>2, <1>3 DEF PcFits, RotateFits, VerifyFits, ApplyFits, Fits
<1> QED BY <1>3, <1>4, <1>6, CliKeeps

-----------------------------------------------------------------------------
(* The exit code *)

\* Exit 0 is said of what was done, and of nothing else.
LEMMA Exits ==
  ASSUME NEW v \in {"rotate", "place", "release", "apply"}, NEW x, NEW s,
         x \in {"done", "busy", "refused"} \/ (v = "place" /\ x = "held_busy") \/ (v = "apply" /\ x \in {"hold", "corrupt"})
  PROVE  ExitOf(v, x, s) \in 0..4 /\ (ExitOf(v, x, s) = 0 <=> x = "done")
<1>1. /\ CliRoute("done") = [status |-> 200, busy |-> FALSE] /\ CliRoute("hold") = [status |-> 423, busy |-> FALSE]
      /\ CliRoute("busy") = [status |-> 503, busy |-> TRUE] /\ CliRoute("held_busy") = [status |-> 503, busy |-> FALSE]
      /\ CliRoute("corrupt") = [status |-> 500, busy |-> FALSE] /\ CliRoute("refused") = [status |-> 409, busy |-> FALSE]
  <2>1. CliRoute("done") = [status |-> 200, busy |-> FALSE] BY DEF CliRoute
  <2>2. CliRoute("hold") = [status |-> 423, busy |-> FALSE] BY DEF CliRoute
  <2>3. CliRoute("busy") = [status |-> 503, busy |-> TRUE]
    BY DEF CliRoute
  <2>4. CliRoute("held_busy") = [status |-> 503, busy |-> FALSE]
    BY DEF CliRoute
  <2>5. CliRoute("corrupt") = [status |-> 500, busy |-> FALSE] BY DEF CliRoute
  <2>6. CliRoute("refused") = [status |-> 409, busy |-> FALSE] BY DEF CliRoute
  <2> QED BY <2>1, <2>2, <2>3, <2>4, <2>5, <2>6
<1>2. /\ ServedExit(CliRoute("done")) = 0 /\ ServedExit(CliRoute("hold")) = 4 /\ ServedExit(CliRoute("busy")) = 4
      /\ ServedExit(CliRoute("held_busy")) = 2 /\ ServedExit(CliRoute("corrupt")) = 1 /\ ServedExit(CliRoute("refused")) = 2
  BY <1>1 DEF ServedExit
<1>3. x \in {"done", "busy", "refused", "held_busy", "hold", "corrupt"} OBVIOUS
<1>4. ServedExit(CliRoute(x)) \in 0..4 /\ (ServedExit(CliRoute(x)) = 0 <=> x = "done")
  BY <1>2, <1>3
<1>5. CASE v = "rotate"
  BY <1>5, <1>4 DEF ExitOf, RotateExit
<1>6. CASE v = "place"
  BY <1>6, <1>4 DEF ExitOf, PlaceExit
<1>7. CASE v = "release"
  BY <1>7, <1>4 DEF ExitOf, ReleaseExit
<1>8. CASE v = "apply"
  BY <1>8, <1>4 DEF ExitOf, ApplyExit
<1> QED BY <1>5, <1>6, <1>7, <1>8

LEMMA AnswerKeeps ==
  ASSUME CliInv, NEW c \in Cmds, CliAnswer(c) \/ LoseAnswer(c)
  PROVE  CliInv'
<1>t. CliTypes /\ DigestFits BY DEF CliInv
<1>0. cmd[c].pc = "answer" /\ UNCHANGED <<files, lock, named>> BY DEF CliAnswer, LoseAnswer
<1>1. PICK q \in CliRun : q = cmd[c] /\ Fits(q) BY <1>0, Running
<1>2. /\ q.pc = "answer" /\ q.order.verb \in {"rotate", "place", "release", "apply"}
      /\ q.out \in {"done", "busy", "refused"} \/ (q.order.verb = "place" /\ q.out = "held_busy")
                                               \/ (q.order.verb = "apply" /\ q.out \in {"hold", "corrupt"})
  BY CliAssumption, <1>0, <1>1 DEF CliRun, Fits, PcFits
<1>x. PICK x \in 0..4 : x = ExitOf(q.order.verb, q.out, q.order.served) /\ (x = 0 <=> q.out = "done") BY <1>2, Exits
<1>3. PICK r \in CliRun :
        /\ cmd' = [cmd EXCEPT ![c] = r] /\ offbox \subseteq offbox'
        /\ r.pc = "done" /\ r.order = q.order /\ r.did = q.did /\ r.done = q.done /\ r.unread = q.unread
        /\ r.unnamed = q.unnamed
        /\ \/ r.exit = 2 /\ r.lost
           \/ r.exit = x /\ (q.out = "done" /\ q.order.verb = "rotate" => ~q.order.anchors)
           \/ r.exit \in {0, 1} /\ q.out = "done" /\ q.order.verb = "rotate" /\ (r.exit = 0 => q.did \subseteq offbox')
  <2>1. CASE LoseAnswer(c)
    <3>1. PICK r : r = [q EXCEPT !.pc = "done", !.exit = 2, !.lost = TRUE] OBVIOUS
    <3>2. cmd' = [cmd EXCEPT ![c] = r] /\ UNCHANGED offbox BY <1>1, <2>1, <3>1 DEF LoseAnswer, Leaves, CliGoes
    <3>e. PICK e \in 0..4 : e = 2 OBVIOUS
    <3>3. PICK l \in BOOLEAN : l = TRUE OBVIOUS
    <3>4. r = [q EXCEPT !.pc = "done", !.exit = e, !.lost = l] BY <3>1, <3>e, <3>3
    <3>5. /\ r \in CliRun /\ r.pc = "done" /\ r.order = q.order /\ r.did = q.did /\ r.done = q.done
          /\ r.unread = q.unread /\ r.unnamed = q.unnamed /\ r.exit = e /\ r.lost = l
      BY <3>4 DEF CliRun, CliPcs
    <3> QED BY <3>2, <3>e, <3>3, <3>5
  <2>2. CASE CliAnswer(c)
    <3>1. PICK e \in 0..4 :
            /\ cmd' = [cmd EXCEPT ![c] = [q EXCEPT !.pc = "done", !.exit = e]] /\ offbox \subseteq offbox'
            /\ \/ e = x /\ (q.out = "done" /\ q.order.verb = "rotate" => ~q.order.anchors)
               \/ e \in {0, 1} /\ q.out = "done" /\ q.order.verb = "rotate" /\ (e = 0 => q.did \subseteq offbox')
      <4>1. CASE q.out = "done" /\ q.order.verb = "rotate" /\ q.order.anchors
        BY <1>1, <2>2, <4>1 DEF CliAnswer, AnchorLine, Leaves, CliGoes
      <4>2. CASE ~(q.out = "done" /\ q.order.verb = "rotate" /\ q.order.anchors)
        BY <1>1, <1>x, <2>2, <4>2 DEF CliAnswer, Leaves, CliGoes
      <4> QED BY <4>1, <4>2
    <3>2. PICK r : r = [q EXCEPT !.pc = "done", !.exit = e] OBVIOUS
    <3>3. /\ r \in CliRun /\ r.pc = "done" /\ r.order = q.order /\ r.did = q.did /\ r.done = q.done
          /\ r.unread = q.unread /\ r.unnamed = q.unnamed /\ r.exit = e
      BY <3>2 DEF CliRun, CliPcs
    <3> QED BY <3>1, <3>2, <3>3
  <2> QED BY <2>1, <2>2
<1>4. FilesGo /\ QuietAt BY <1>t, <1>0, <1>3, FilesStay
<1>5. PcFits(r) /\ VerifyFits(r)' BY <1>2, <1>3 DEF PcFits, VerifyFits
<1>6. RotateFits(r)'
  BY <1>1, <1>2, <1>3, <1>x DEF Fits, RotateFits
<1>7. ApplyFits(r)'
  BY <1>1, <1>2, <1>0, <1>3, <1>x DEF Fits, ApplyFits
<1>8. PcFits(r)' BY <1>5, Zenon DEF PcFits
<1>9. Fits(r)' BY <1>5, <1>6, <1>7, <1>8 DEF Fits
<1> QED BY <1>3, <1>4, <1>9, CliKeeps

-----------------------------------------------------------------------------
(* verify --path *)

LEMMA VerifyStays ==
  ASSUME CliInv, NEW c \in Cmds, NEW r \in CliRun, cmd' = [cmd EXCEPT ![c] = r], UNCHANGED <<files, lock, named, offbox>>,
         r.order.verb = "verify", r.pc \in {"read", "stat", "whole", "done"}, VerifyFits(r)
  PROVE  CliInv'
BY CliLooks DEF PcFits, RotateFits, ApplyFits, Fits

Chosen(r, p, m) == [r EXCEPT !.pc = p, !.mode = m]
LEMMA ChooseModeKeeps ==
  ASSUME CliInv, NEW c \in Cmds, ChooseMode(c)
  PROVE  CliInv'
<1>0. cmd[c].pc = "run" /\ cmd[c].order.verb = "verify" /\ UNCHANGED <<files, lock, named, offbox>>
  BY DEF ChooseMode, CliVerifies, Look, marker
<1>1. PICK q \in CliRun : q = cmd[c] /\ Fits(q) BY <1>0, Running
<1>2. PICK n \in Segs : n = q.order.seg BY <1>0, <1>1, CliAssumption DEF CliRun, Segs
<1>d. PICK d : d = q.order.dir OBVIOUS
<1>3. q.stood => (d = "live" /\ at[n] \in {"renamed", "closed", "archived", "moved"}) \/ (d = "archive" /\ at[n] = "moved")
  BY <1>0, <1>1, <1>2, <1>d DEF Fits, VerifyFits
<1>4. PICK p \in {"read", "stat", "whole"}, m \in CliModes :
        /\ cmd' = [cmd EXCEPT ![c] = Chosen(q, p, m)]
        /\ \/ d = "archive" /\ p = "read" /\ m = "sidecar"
           \/ d = "archive" /\ p = "whole" /\ n \notin sidecars
           \/ d = "live" /\ p = "read" /\ m = "closed"
           \/ /\ d = "live" /\ p = "stat" /\ ~(ClosedEntry(n) /\ ~ArchivedEntry(n))
              /\ m = IF ArchivedEntry(n) THEN "pending-move" ELSE IF PendingEntry(n) THEN "pending-rotation" ELSE "none"
  <2>1. CASE d = "archive" /\ n \in sidecars
    BY <1>1, <1>2, <1>d, <2>1 DEF Chosen, ChooseMode, Path, Look, CliGoes, CliModes
  <2>2. CASE d = "archive" /\ n \notin sidecars
    <3>1. cmd' = [cmd EXCEPT ![c] = [q EXCEPT !.pc = "whole"]]
      BY <1>1, <1>2, <1>d, <2>2 DEF ChooseMode, Path, Look, CliGoes
    <3>2. [q EXCEPT !.pc = "whole"] = Chosen(q, "whole", q.mode) /\ q.mode \in CliModes BY DEF CliRun, Chosen
    <3> QED BY <2>2, <3>1, <3>2
  <2>3. CASE d = "live" /\ ClosedEntry(n) /\ ~ArchivedEntry(n)
    BY <1>1, <1>2, <1>d, <2>3 DEF Chosen, ChooseMode, Path, Look, CliGoes, CliModes
  <2>4. CASE d = "live" /\ ~(ClosedEntry(n) /\ ~ArchivedEntry(n))
    BY <1>1, <1>2, <1>d, <2>4 DEF CliModes, Chosen, ChooseMode, Path, Look, CliGoes
  <2>5. d \in {"archive", "live"} BY <1>1, <1>d DEF ChooseMode, Path
  <2> QED BY <2>1, <2>2, <2>3, <2>4, <2>5
<1>5. PICK r : r = Chosen(q, p, m) OBVIOUS
<1>6. r \in CliRun /\ r.pc = p /\ r.mode = m /\ r.order = q.order /\ r.stood = q.stood BY <1>5 DEF CliRun, CliPcs, Chosen
<1>7. VerifyFits(r)
  BY <1>2, <1>d, <1>3, <1>4, <1>6 DEF VerifyFits, ClosedEntry, ArchivedEntry, PendingEntry
<1> QED BY <1>0, <1>1, <1>4, <1>5, <1>6, <1>7, VerifyStays

LEMMA StatFileKeeps ==
  ASSUME CliInv, NEW c \in Cmds, StatFile(c)
  PROVE  CliInv'
<1>0. cmd[c].pc = "stat" /\ cmd[c].order.verb = "verify" /\ UNCHANGED <<files, lock, named, offbox>>
  BY DEF StatFile, CliVerifies, Look, marker
<1>1. PICK q \in CliRun : q = cmd[c] /\ Fits(q) BY <1>0, Running
<1>2. PICK n \in Segs : n = q.order.seg BY <1>0, <1>1, CliAssumption DEF CliRun, Segs
<1>3. /\ q.order.dir = "live" /\ q.mode # "sidecar" /\ (q.stood => q.mode # "none")
      /\ q.stood => at[n] \in {"renamed", "closed", "archived", "moved"}
      /\ q.mode = "pending-move" => ArchivedEntry(n)
  BY <1>0, <1>1, <1>2 DEF Fits, VerifyFits
<1>4. PICK p \in {"read", "whole"} : p = IF CliAt("live", n) # "gone" /\ q.mode # "none" THEN "read" ELSE "whole" OBVIOUS
<1>5. PICK r : r = [q EXCEPT !.pc = p] OBVIOUS
<1>6. cmd' = [cmd EXCEPT ![c] = r] BY <1>1, <1>2, <1>4, <1>5 DEF StatFile, Look, CliGoes, Path
<1>7. r \in CliRun /\ r.pc = p /\ r.mode = q.mode /\ r.order = q.order /\ r.stood = q.stood BY <1>5 DEF CliRun, CliPcs
<1>8. bytes[n] # "gone" BY DEF CliInv, CliTypes, FileBytes
<1>9. VerifyFits(r)
  BY <1>2, <1>3, <1>4, <1>7, <1>8 DEF VerifyFits, CliAt, InLiveDir
<1> QED BY <1>0, <1>1, <1>6, <1>7, <1>9, VerifyStays

LEMMA ReadSegmentKeeps ==
  ASSUME CliInv, NEW c \in Cmds, ReadSegment(c)
  PROVE  CliInv'
<1>0. cmd[c].pc = "read" /\ cmd[c].order.verb = "verify" /\ UNCHANGED <<files, lock, named, offbox>>
  BY DEF ReadSegment, CliVerifies, Look, marker
<1>1. PICK q \in CliRun : q = cmd[c] /\ Fits(q) BY <1>0, Running
<1>2. PICK n \in Segs : n = q.order.seg BY <1>0, <1>1, CliAssumption DEF CliRun, Segs
<1>d. PICK d : d = q.order.dir OBVIOUS
<1>3. /\ q.stood => (d = "live" /\ at[n] \in {"renamed", "closed", "archived", "moved"}) \/ (d = "archive" /\ at[n] = "moved")
      /\ q.mode = "sidecar" => d = "archive"
      /\ q.mode = "pending-move" => ArchivedEntry(n)
  BY <1>0, <1>1, <1>2, <1>d DEF Fits, VerifyFits
<1>4. /\ bytes[n] \in FileBytes /\ (bytes[n] = "whole" => digest[n] \in {"none", "whole"})
      /\ ArchivedEntry(n) => digest[n] # "none"
  BY DEF CliInv, CliTypes, DigestFits
<1>5. PICK b \in FileBytes \cup {"gone"} : b = CliAt(d, n) BY <1>4 DEF CliAt
<1>6. b # "gone" => b = bytes[n] /\ (d = "archive" => at[n] = "moved") BY <1>5 DEF CliAt, InLiveDir
<1>7. PICK e \in 0..4 : e = IF SegmentHolds(q.mode, b, digest[n]) THEN 0 ELSE 1 OBVIOUS
<1>8. PICK r : r = [q EXCEPT !.pc = "done", !.exit = e, !.read = b] OBVIOUS
<1>9. cmd' = [cmd EXCEPT ![c] = r] BY <1>1, <1>2, <1>d, <1>5, <1>7, <1>8 DEF ReadSegment, Look, CliGoes, Path, Leaves
<1>10. /\ r \in CliRun /\ r.pc = "done" /\ r.mode = q.mode /\ r.order = q.order /\ r.stood = q.stood
       /\ r.exit = e /\ r.read = b
  BY <1>8 DEF CliRun, CliPcs
<1>11. SegmentHolds(q.mode, b, digest[n]) =>
         /\ b \in {"whole", "spaced"}
         /\ q.mode \in {"sidecar", "pending-move"} => b = digest[n] /\ ArchivedEntry(n)
  BY <1>3, <1>6 DEF SegmentHolds, HeadOk, ArchivedEntry
<1>12. ~SegmentHolds(q.mode, b, digest[n]) => b = "gone" \/ bytes[n] # "whole"
  BY <1>6, <1>3, <1>4 DEF ArchivedEntry, SegmentHolds, ChainOk, CountOk, HeadOk
<1>13. VerifyFits(r)
  BY <1>2, <1>d, <1>3, <1>7, <1>10, <1>11, <1>12 DEF VerifyFits
<1> QED BY <1>0, <1>1, <1>9, <1>10, <1>13, VerifyStays

LEMMA ReadWholeKeeps ==
  ASSUME CliInv, NEW c \in Cmds, ReadWhole(c)
  PROVE  CliInv'
<1>0. cmd[c].pc = "whole" /\ cmd[c].order.verb = "verify" /\ UNCHANGED <<files, lock, named, offbox>>
  BY DEF ReadWhole, CliVerifies, Look, marker
<1>1. PICK q \in CliRun : q = cmd[c] /\ Fits(q) BY <1>0, Running
<1>2. PICK n \in Segs : n = q.order.seg BY <1>0, <1>1, CliAssumption DEF CliRun, Segs
<1>d. PICK d : d = q.order.dir OBVIOUS
<1>3. /\ q.stood => (d = "live" /\ at[n] \in {"renamed", "closed", "archived", "moved"}) \/ (d = "archive" /\ at[n] = "moved")
      /\ q.stood => at[n] = "moved" /\ (d = "archive" => n \notin sidecars)
  BY <1>0, <1>1, <1>2, <1>d DEF Fits, VerifyFits
<1>5. PICK b \in FileBytes \cup {"gone"} : b = CliAt(d, n) BY DEF CliAt, CliInv, CliTypes
<1>7. PICK e \in 0..4 : e = IF b = "gone" THEN 2 ELSE IF ChainOk(b) /\ n = 1 THEN 0 ELSE 1 OBVIOUS
<1>8. PICK r : r = [q EXCEPT !.pc = "done", !.exit = e, !.read = b, !.mode = "single"] OBVIOUS
<1>9. cmd' = [cmd EXCEPT ![c] = r] BY <1>1, <1>2, <1>d, <1>5, <1>7, <1>8 DEF ReadWhole, Look, CliGoes, Path, Leaves
<1>10. /\ r \in CliRun /\ r.pc = "done" /\ r.mode = "single" /\ r.order = q.order /\ r.stood = q.stood
       /\ r.exit = e /\ r.read = b
  BY <1>8 DEF CliRun, CliPcs, CliModes
<1>11. q.stood /\ e = 1 => d = "archive" /\ at[n] = "moved" /\ n \notin sidecars
  BY <1>3, <1>5, <1>7 DEF CliAt, InLiveDir
<1>13. VerifyFits(r)
  BY <1>2, <1>d, <1>3, <1>10, <1>11 DEF VerifyFits, SidecarLost
<1> QED BY <1>0, <1>1, <1>9, <1>10, <1>13, VerifyStays

\* Somebody's hand on a file.
LEMMA EditKeeps ==
  ASSUME CliInv, NEW n \in Segs, NEW b \in {"spaced", "forged", "cut", "broken"}, CliEdit(n, b)
  PROVE  CliInv'
<1>t. CliTypes /\ DigestFits /\ LockFits /\ CmdsFit BY DEF CliInv
<1>1. bytes[n] = "whole" /\ bytes' = [bytes EXCEPT ![n] = b] /\ UNCHANGED <<at, digest, sidecars, named, offbox, lock, cmd>>
  BY DEF CliEdit
<1>2. bytes'[n] = b /\ \A k \in Segs : k # n => bytes'[k] = bytes[k] BY <1>t, <1>1 DEF CliTypes
<1>3. FilesGo
  BY <1>t, <1>1, <1>2 DEF DigestFits, ArchivedEntry, CliOnward, FilesGo, CliTypes, FileBytes
<1>4. QuietAt BY <1>1 DEF QuietAt, ClosedEntry
<1>5. CmdsFit'
  BY <1>t, <1>1, <1>3, FitsKept DEF CmdsFit, CliTypes, FilesGo
<1>6. CliTypes' BY <1>t, <1>1, <1>3 DEF CliTypes, FilesGo
<1>7. cmd' \in [Cmds -> {CliIdle} \cup CliRun] /\ cmd' = cmd BY <1>t, <1>1 DEF CliTypes
<1>8. LockFits' BY <1>t, <1>3, <1>4, <1>7, QuietLock
<1> QED BY <1>3, <1>5, <1>6, <1>8 DEF CliInv, FilesGo

LEMMA CliStep ==
  ASSUME CliInv, CliNext
  PROVE  CliInv'
<1>1. ASSUME NEW c \in Cmds, NEW order \in Orders, CliBegin(c, order) PROVE CliInv' BY <1>1, BeginKeeps
<1>2. ASSUME NEW c \in Cmds,
             \/ Busy(c) \/ CliRefused(c) \/ PlaceHold(c) \/ ReleaseHold(c)
             \/ RotateIntent(c) \/ RotateRename(c) \/ RotateCommit(c)
      PROVE  CliInv'
  BY <1>2, HoldsKeep, RotateIntentKeeps, RotateRenameKeeps, RotateCommitKeeps
<1>3. ASSUME NEW c \in Cmds,
             \/ ApplyStart(c) \/ ApplyComplete(c) \/ ApplyPlan(c) \/ ApplyCommit(c) \/ ApplyMove(c) \/ ApplyEvent(c)
      PROVE  CliInv'
  BY <1>3, ApplyStartKeeps, ApplyCompleteKeeps, ApplyPlanKeeps, ApplyCommitKeeps, ApplyMoveKeeps, ApplyEventKeeps
<1>4. ASSUME NEW c \in Cmds,
             \/ CliAnswer(c) \/ LoseAnswer(c) \/ ChooseMode(c) \/ StatFile(c) \/ ReadSegment(c) \/ ReadWhole(c)
      PROVE  CliInv'
  BY <1>4, AnswerKeeps, ChooseModeKeeps, StatFileKeeps, ReadSegmentKeeps, ReadWholeKeeps
<1>5. ASSUME NEW n \in Segs, NEW b \in {"spaced", "forged", "cut", "broken"}, CliEdit(n, b) PROVE CliInv'
  BY <1>5, EditKeeps
<1> QED BY <1>1, <1>2, <1>3, <1>4, <1>5 DEF CliNext

LEMMA CliTruth ==
  ASSUME CliInv
  PROVE  CliTruthful
<1>1. RotateExitTrue BY Running DEF RotateExitTrue, CliEnded, Fits, RotateFits
<1>2. ApplyExitTrue BY Running DEF ApplyExitTrue, CliEnded, Owed, Fits, ApplyFits
<1>3. FileVerdictTrue BY Running DEF FileVerdictTrue, CliEnded, Fits, VerifyFits
<1> QED BY <1>1, <1>2, <1>3 DEF CliTruthful

-----------------------------------------------------------------------------
(* Every behaviour *)

LEMMA WitnessKeeps == WitnessInv /\ [WitnessNext]_witnessVars => WitnessInv'
<1>1. ASSUME WitnessInv, UNCHANGED witnessVars PROVE WitnessInv'
  BY <1>1, ChainsStep, TickKept, CheckKept, FileKept DEF WitnessInv, witnessVars, WitnessTypes, Untouched,
    ChainEffect
<1> QED BY <1>1, WitnessStep

LEMMA CliKeptOn == CliInv /\ [CliNext]_cliVars => CliInv'
<1>1. ASSUME CliInv, UNCHANGED cliVars PROVE CliInv'
  <2>0. CliTypes /\ DigestFits /\ LockFits /\ CmdsFit BY <1>1 DEF CliInv
  <2>1. UNCHANGED <<files, lock, named, offbox, cmd>> BY <1>1 DEF cliVars, files
  <2>2. FilesGo /\ QuietAt BY <2>0, <2>1, FilesStay
  <2>3. CmdsFit'
    BY <2>0, <2>1, <2>2, FitsKept DEF CmdsFit, CliTypes, FilesGo
  <2>4. cmd' \in [Cmds -> {CliIdle} \cup CliRun] /\ cmd' = cmd BY <2>0, <2>1 DEF CliTypes
  <2>5. LockFits' BY <2>0, <2>2, <2>4, QuietLock
  <2> QED BY <2>2, <2>3, <2>4, <2>5 DEF CliInv, CliTypes, FilesGo
<1> QED BY <1>1, CliStep

\* A chain that was never put back is never called rewritten or short, and neither is its
\* local file: for any keys, chains, runs and order of ticks, posts and checks
\* (witness_cli.py, verify_against_witness).
THEOREM NeverFalseAlarm == WitnessSpec => []NoFalseAlarm
<1>1. WitnessInit => WitnessInv BY WitnessInitHeld
<1>2. WitnessInv => NoFalseAlarm BY NoAlarm
<1> QED BY <1>1, <1>2, WitnessKeeps, PTL DEF WitnessSpec

\* A ledger command's exit code is true of what it did: for any number of commands at
\* once, segments, edits and lost answers (cli.py, rotate, retention apply and verify).
THEOREM CommandsAlwaysTruthful == CliSpec => []CliTruthful
<1>1. CliInit => CliInv BY CliInitHeld
<1>2. CliInv => CliTruthful BY CliTruth
<1> QED BY <1>1, <1>2, CliKeptOn, PTL DEF CliSpec

-----------------------------------------------------------------------------
(* Witness: a loss that was witnessed stays visible.  An anchor of a head that is gone  *)
(* was written in an earlier epoch than anything its estate can append in its place.     *)

Past(a) ==
  \A e \in Estates : a.estate = e =>
    a.hash <= epoch[e] /\ (a.length > Len(witnessChain[e]) => a.hash < epoch[e])
WitnessPast ==
  /\ \A e \in Estates : \A i \in 1..Len(witnessChain[e]) :
       /\ witnessChain[e][i].epoch <= epoch[e]
       /\ witnessChain[e][i].anchor # NoAnchor => Past(witnessChain[e][i].anchor)
  /\ witnessTick.at \in {"append", "post"} => Past(witnessTick.anchor)
  /\ \A r \in AnchorRuns : witnessRun[r].at = "write" => Past(witnessRun[r].anchor)
  /\ \A i \in 1..Len(witnessFile) : Past(witnessFile[i])

\* What a step does to the estates: events of the present epoch are appended, or the
\* epoch goes on; what is archived stays archived.
ChainMoves ==
  \A e \in Estates :
    /\ witnessArchived[e] <= witnessArchived'[e]
    /\ \/ epoch'[e] = epoch[e] /\ Len(witnessChain[e]) <= Len(witnessChain'[e])
       \/ epoch'[e] = epoch[e] + 1
    /\ \A i \in 1..Len(witnessChain'[e]) :
         \/ i \in 1..Len(witnessChain[e]) /\ witnessChain'[e][i] = witnessChain[e][i]
         \/ /\ i > Len(witnessChain[e]) /\ witnessChain'[e][i].epoch = epoch[e]
            /\ witnessChain'[e][i].anchor # NoAnchor => Past(witnessChain'[e][i].anchor)

LEMMA EstateTypes ==
  ASSUME WitnessTypes, WitnessTypes', NEW e \in Estates
  PROVE  /\ witnessChain[e] \in Seq(WitnessRecord) /\ witnessChain'[e] \in Seq(WitnessRecord)
         /\ Len(witnessChain[e]) \in Nat /\ Len(witnessChain'[e]) \in Nat
         /\ epoch[e] \in Nat /\ epoch'[e] \in Nat /\ witnessArchived[e] \in Nat /\ witnessArchived'[e] \in Nat
BY DEF WitnessTypes

LEMMA PastStays ==
  ASSUME WitnessTypes, WitnessTypes', ChainMoves, NEW a \in AnchorRecord, Past(a)
  PROVE  Past(a)'
BY EstateTypes DEF Past, AnchorRecord, ChainMoves

\* A head that is read is one of the present.
LEMMA HeadPast ==
  ASSUME WitnessTypes, WitnessPast, NEW e \in Estates, NEW k \in AnchorKeys \cup {NoKey}
  PROVE  AnchorOf(e, HeadOf(e), k) \in AnchorRecord /\ Past(AnchorOf(e, HeadOf(e), k))
<1> DEFINE l == Len(witnessChain[e])
           h == HashAt(e, l)
<1>1. l \in Nat /\ epoch[e] \in Nat BY ChainTypes
<1>2. l # 0 => l \in 1..Len(witnessChain[e]) /\ witnessChain[e][l].epoch \in Nat BY <1>1, ChainTypes
<1>3. h \in Int /\ h <= epoch[e] BY <1>1, <1>2 DEF HashAt, Genesis, WitnessPast
<1>4. AnchorOf(e, HeadOf(e), k) = [estate |-> e, length |-> l, hash |-> h, key |-> k] BY DEF AnchorOf, HeadOf
<1>5. ~(l > Len(witnessChain[e])) BY <1>1
<1> HIDE DEF l, h
<1>6. AnchorOf(e, HeadOf(e), k) \in AnchorRecord BY <1>1, <1>3, <1>4 DEF AnchorRecord
<1> QED BY <1>3, <1>4, <1>5, <1>6 DEF Past

LEMMA AppendMoves ==
  ASSUME WitnessTypes, NEW e \in Estates, NEW a, a = NoAnchor \/ Past(a), Appended(e, a), UNCHANGED <<epoch, witnessArchived>>
  PROVE  ChainMoves
<1>1. PICK v : v = WitnessEvent(e, a) OBVIOUS
<1>2. v.epoch = epoch[e] /\ v.anchor = a BY <1>1 DEF WitnessEvent
<1>3. witnessChain \in [Estates -> Seq(WitnessRecord)] /\ witnessArchived \in [Estates -> Nat] /\ epoch \in [Estates -> Nat]
  BY DEF WitnessTypes
<1>4. witnessChain' = [witnessChain EXCEPT ![e] = Append(witnessChain[e], v)] BY <1>1 DEF Appended
<1>5. witnessChain'[e] = Append(witnessChain[e], v) /\ \A f \in Estates : f # e => witnessChain'[f] = witnessChain[f]
  BY <1>3, <1>4
<1>6. /\ Len(witnessChain[e]) \in Nat /\ Len(Append(witnessChain[e], v)) = Len(witnessChain[e]) + 1
      /\ \A i \in 1..Len(witnessChain[e]) : Append(witnessChain[e], v)[i] = witnessChain[e][i]
      /\ Append(witnessChain[e], v)[Len(witnessChain[e]) + 1] = v
  BY <1>3
<1>7. \A f \in Estates : Len(witnessChain[f]) \in Nat /\ witnessArchived[f] \in Nat
  BY <1>3
<1> SUFFICES ASSUME NEW f \in Estates
             PROVE  /\ Len(witnessChain[f]) <= Len(witnessChain'[f])
                    /\ \A i \in 1..Len(witnessChain'[f]) :
                         \/ i \in 1..Len(witnessChain[f]) /\ witnessChain'[f][i] = witnessChain[f][i]
                         \/ /\ i > Len(witnessChain[f]) /\ witnessChain'[f][i].epoch = epoch[f]
                            /\ witnessChain'[f][i].anchor # NoAnchor => Past(witnessChain'[f][i].anchor)
  BY <1>7 DEF ChainMoves
<1>8. CASE f # e BY <1>5, <1>7, <1>8
<1>9. CASE f = e
  <2>1. Len(witnessChain'[f]) = Len(witnessChain[f]) + 1 BY <1>5, <1>6, <1>9
  <2>2. ASSUME NEW i \in 1..Len(witnessChain'[f])
        PROVE  \/ i \in 1..Len(witnessChain[f]) /\ witnessChain'[f][i] = witnessChain[f][i]
               \/ /\ i > Len(witnessChain[f]) /\ witnessChain'[f][i].epoch = epoch[f]
                  /\ witnessChain'[f][i].anchor # NoAnchor => Past(witnessChain'[f][i].anchor)
    <3>1. CASE i \in 1..Len(witnessChain[e]) BY <1>5, <1>6, <1>9, <3>1
    <3>2. CASE i = Len(witnessChain[e]) + 1
      BY <1>5, <1>6, <1>9, <3>2, <1>2
    <3>3. i \in 1..Len(witnessChain[e]) \/ i = Len(witnessChain[e]) + 1 BY <1>6, <1>9, <2>1
    <3> QED BY <3>1, <3>2, <3>3
  <2> QED BY <1>6, <1>9, <2>1, <2>2
<1> QED BY <1>8, <1>9

LEMMA WitnessMoves ==
  ASSUME WitnessInv, WitnessPast, [WitnessNext]_witnessVars
  PROVE  ChainMoves
<1>t. WitnessTypes BY DEF WitnessInv
<1>h. "here" \in Estates /\ "there" \in Estates BY DEF Estates
<1>c. \A f \in Estates : Len(witnessChain[f]) \in Nat /\ witnessArchived[f] \in Nat /\ epoch[f] \in Nat
  BY <1>t, ChainTypes DEF WitnessTypes
<1>0. CASE UNCHANGED <<witnessChain, witnessArchived, epoch>> BY <1>0, <1>c DEF ChainMoves
<1>1. ASSUME NEW e \in Estates, Served(e) PROVE ChainMoves
  BY <1>1, <1>t, AppendMoves DEF Served
<1>2. ASSUME NEW e \in Estates, Restored(e) PROVE ChainMoves
  <2>1. PICK n \in witnessArchived[e] .. Len(witnessChain[e]) - 1 :
          witnessChain' = [witnessChain EXCEPT ![e] = SubSeq(witnessChain[e], 1, n)]
    BY <1>2 DEF Restored
  <2>2. epoch' = [epoch EXCEPT ![e] = epoch[e] + 1] /\ witnessArchived' = witnessArchived BY <1>2 DEF Restored
  <2>3. n \in Nat /\ n <= Len(witnessChain[e]) BY <1>c, <2>1
  <2>4. witnessChain \in [Estates -> Seq(WitnessRecord)] /\ epoch \in [Estates -> Nat] BY <1>t DEF WitnessTypes
  <2>5. PICK s : s = SubSeq(witnessChain[e], 1, n) OBVIOUS
  <2>6. Len(s) = n /\ \A i \in 1..n : s[i] = witnessChain[e][i] /\ i \in 1..Len(witnessChain[e])
    BY <2>4, <2>3, <2>5, <1>c
  <2>7. witnessChain'[e] = s /\ epoch'[e] = epoch[e] + 1
        /\ \A f \in Estates : f # e => witnessChain'[f] = witnessChain[f] /\ epoch'[f] = epoch[f]
    BY <2>1, <2>2, <2>4, <2>5
  <2> SUFFICES ASSUME NEW f \in Estates
               PROVE  /\ \/ epoch'[f] = epoch[f] /\ Len(witnessChain[f]) <= Len(witnessChain'[f])
                         \/ epoch'[f] = epoch[f] + 1
                      /\ \A i \in 1..Len(witnessChain'[f]) :
                           i \in 1..Len(witnessChain[f]) /\ witnessChain'[f][i] = witnessChain[f][i]
    BY <1>c, <2>2 DEF ChainMoves
  <2>8. CASE f = e BY <2>6, <2>7, <2>8
  <2>9. CASE f # e BY <1>c, <2>7, <2>9
  <2> QED BY <2>8, <2>9
<1>3. ASSUME NEW e \in Estates, Archived(e) PROVE ChainMoves
  <2>1. PICK n \in witnessArchived[e] + 1 .. Len(witnessChain[e]) - 1 : witnessArchived' = [witnessArchived EXCEPT ![e] = n]
    BY <1>3 DEF Archived
  <2>2. UNCHANGED <<witnessChain, epoch>> /\ n \in Nat /\ n >= witnessArchived[e] BY <1>3, <1>c, <2>1 DEF Archived
  <2>3. witnessArchived \in [Estates -> Nat] BY <1>t DEF WitnessTypes
  <2>4. \A f \in Estates : witnessArchived[f] <= witnessArchived'[f] BY <1>c, <2>1, <2>2, <2>3
  <2> QED BY <1>c, <2>2, <2>4 DEF ChainMoves
<1>4. ASSUME Direction1 \/ Post PROVE ChainMoves
  <2>1. CASE UNCHANGED witnessChain BY <1>0, <1>4, <2>1 DEF Direction1, Post
  <2>2. CASE ~(UNCHANGED witnessChain)
    BY <1>4, <1>h, <2>2, <1>t, AppendMoves DEF Direction1, Post, WitnessPast
  <2> QED BY <2>1, <2>2
<1>5. KeyFileChanges \/ TickStarts \/ Direction2 \/ TickRaises \/ WalkChain \/ CompareAnchors
        => UNCHANGED <<witnessChain, witnessArchived, epoch>>
  BY DEF KeyFileChanges, TickStarts, Direction2, TickRaises, WalkChain, CompareAnchors
<1>6. \A e \in Estates : FetchAnchors(e) => UNCHANGED <<witnessChain, witnessArchived, epoch>> BY DEF FetchAnchors
<1>7. \A r \in AnchorRuns : AnchorReads(r) \/ AnchorWrites(r) => UNCHANGED <<witnessChain, witnessArchived, epoch>>
  BY DEF AnchorReads, AnchorWrites
<1>8. UNCHANGED witnessVars => UNCHANGED <<witnessChain, witnessArchived, epoch>> BY DEF witnessVars
<1> QED BY <1>0, <1>1, <1>2, <1>3, <1>4, <1>5, <1>6, <1>7, <1>8 DEF WitnessNext

LEMMA PastInit == WitnessInit => WitnessPast
BY DEF WitnessInit, WitnessPast, WitnessIdle

LEMMA PastStep ==
  ASSUME WitnessInv, WitnessPast, [WitnessNext]_witnessVars, WitnessInv'
  PROVE  WitnessPast'
<1>t. WitnessTypes /\ WitnessTypes' /\ TickHeld /\ FileHeld BY DEF WitnessInv
<1>m. ChainMoves BY WitnessMoves
<1>h. "here" \in Estates /\ "there" \in Estates BY DEF Estates
<1>s. \A a \in AnchorRecord : Past(a) => Past(a)' BY <1>t, <1>m, PastStays
<1>1. ASSUME NEW e \in Estates, NEW i \in 1..Len(witnessChain'[e])
      PROVE  (/\ witnessChain[e][i].epoch <= epoch[e]
              /\ witnessChain[e][i].anchor # NoAnchor => Past(witnessChain[e][i].anchor))'
  <2>1. witnessChain'[e][i] \in WitnessRecord BY <1>t, EstateTypes
  <2>2. PICK v : v = witnessChain'[e][i] OBVIOUS
  <2>3. /\ v.epoch \in Nat /\ epoch[e] \in Nat /\ epoch'[e] \in Nat /\ (epoch'[e] = epoch[e] \/ epoch'[e] = epoch[e] + 1)
        /\ v.anchor # NoAnchor => v.anchor \in AnchorRecord
    BY <1>t, <1>m, <2>1, <2>2, EstateTypes DEF WitnessRecord, ChainMoves
  <2>4. v.epoch <= epoch[e] /\ (v.anchor # NoAnchor => Past(v.anchor))
    BY <2>2, <2>3, <1>m DEF WitnessPast, ChainMoves
  <2>5. PICK a : a = v.anchor OBVIOUS
  <2>6. a # NoAnchor => Past(a)' BY <1>s, <2>3, <2>4, <2>5
  <2>7. witnessChain'[e][i].anchor = a /\ witnessChain'[e][i].epoch <= epoch'[e] BY <2>2, <2>3, <2>4, <2>5
  <2> QED BY <2>6, <2>7 DEF Past
<1>2. (witnessTick.at \in {"append", "post"} => Past(witnessTick.anchor))'
  <2>1. PICK b : b = witnessTick'.anchor OBVIOUS
  <2>2. ASSUME witnessTick'.at \in {"append", "post"} PROVE b \in AnchorRecord /\ Past(b)
    <3>1. CASE TickStarts
      BY <1>t, <1>h, HeadPast, <2>1, <2>2, <3>1 DEF WitnessTypes, TickStarts
    <3>2. CASE Direction2
      BY <1>t, <3>2, <1>h, HeadPast, <2>1, <2>2 DEF Direction2, TickHeld, WitnessIdle
    <3>3. CASE UNCHANGED witnessTick BY <1>t, <2>1, <2>2, <3>3 DEF WitnessPast, TickHeld, Held
    <3>4. ~(Direction1 \/ Post \/ TickRaises) BY <2>2 DEF Direction1, Post, TickRaises, WitnessIdle
    <3> QED BY <3>1, <3>2, <3>3, <3>4 DEF WitnessNext, Served, Restored, Archived, FetchAnchors, KeyFileChanges, WalkChain,
            CompareAnchors, AnchorReads, AnchorWrites, witnessVars
  <2>3. witnessTick'.at \in {"append", "post"} => Past(b)' BY <1>s, <2>2
  <2> QED BY <2>1, <2>3 DEF Past
<1>3. ASSUME NEW r \in AnchorRuns, witnessRun'[r].at = "write" PROVE Past(witnessRun[r].anchor)'
  <2>1. PICK b : b = witnessRun'[r].anchor OBVIOUS
  <2>2. CASE witnessRun'[r] = witnessRun[r]
    BY <1>3, <1>t, <2>1, <2>2, <1>s DEF WitnessPast, FileHeld, Held, Past
  <2>3. CASE witnessRun'[r] # witnessRun[r]
    <3>1. PICK q \in AnchorRuns : AnchorReads(q) \/ AnchorWrites(q)
      BY <2>3 DEF WitnessNext, Served, Restored, Archived, FetchAnchors, KeyFileChanges, TickStarts, Direction1,
                  Direction2, Post, TickRaises, WalkChain, CompareAnchors, witnessVars
    <3>2. DOMAIN witnessRun = AnchorRuns BY DEF WitnessInv
    <3>3. PICK v : witnessRun' = [witnessRun EXCEPT ![q] = v]
                   /\ \/ v = WitnessIdle
                      \/ \E k \in AnchorKeys \cup {NoKey} : v = [at |-> "write", anchor |-> AnchorOf("here", HeadOf("here"), k)]
      BY <3>1 DEF AnchorReads, AnchorWrites
    <3>4. witnessRun'[r] = v BY <2>3, <3>2, <3>3
    <3>5. PICK k \in AnchorKeys \cup {NoKey} : b = AnchorOf("here", HeadOf("here"), k)
      BY <1>3, <2>1, <3>3, <3>4 DEF WitnessIdle
    <3>6. b \in AnchorRecord /\ Past(b) BY <1>t, <1>h, <3>5, HeadPast
    <3>7. Past(b)' BY <1>s, <3>6
    <3> QED BY <2>1, <3>7 DEF Past
  <2> QED BY <2>2, <2>3
<1>4. ASSUME NEW i \in 1..Len(witnessFile') PROVE Past(witnessFile[i])'
  <2>1. PICK b : b = witnessFile'[i] OBVIOUS
  <2>2. b \in AnchorRecord
    BY <2>1 DEF WitnessInv, FileHeld
  <2>3. Past(b)
    <3>1. CASE UNCHANGED witnessFile BY <1>4, <2>1, <3>1 DEF WitnessPast
    <3>2. ASSUME NEW r \in AnchorRuns, AnchorWrites(r) PROVE Past(b)
      BY <1>t, <3>2, <2>1 DEF AnchorWrites, WitnessPast, FileHeld, Held
    <3>3. (\E r \in AnchorRuns : AnchorWrites(r)) \/ UNCHANGED witnessFile
      BY DEF WitnessNext, Served, Restored, Archived, FetchAnchors, KeyFileChanges, TickStarts, Direction1, Direction2, Post,
             TickRaises, WalkChain, CompareAnchors, AnchorReads, witnessVars
    <3> QED BY <3>1, <3>2, <3>3
  <2>4. Past(b)' BY <1>s, <2>2, <2>3
  <2> QED BY <2>1, <2>4 DEF Past
<1> QED BY <1>1, <1>2, <1>3, <1>4 DEF WitnessPast

-----------------------------------------------------------------------------
(* A failure is never taken back. *)

\* What makes an anchor hold of a chain as it stands.
AnchorStands(a, e) ==
  \/ a.length = 0 /\ a.hash = Genesis
  \/ /\ a.length # 0 /\ ~(a.length > Len(witnessChain[e])) /\ ~(a.length <= witnessArchived[e])
     /\ witnessChain[e][a.length].epoch = a.hash

LEMMA FailureStays ==
  ASSUME WitnessTypes, WitnessTypes', ChainMoves, NEW e \in Estates, NEW a \in AnchorRecord, a.estate = e, Past(a),
         AnchorHolds(a, e, Len(witnessChain[e]), NoKey) # "holds"
  PROVE  AnchorHolds(a, e, Len(witnessChain[e]), NoKey)' # "holds"
<1>1. ~AnchorStands(a, e) BY DEF AnchorHolds, AnchorStands, HashAt
<1>2. a.length \in Nat /\ a.hash \in Int BY DEF AnchorRecord
<1>3. /\ Len(witnessChain[e]) \in Nat /\ Len(witnessChain'[e]) \in Nat /\ epoch[e] \in Nat
      /\ witnessArchived[e] \in Nat /\ witnessArchived'[e] \in Nat
  BY EstateTypes
<1>4. SUFFICES ASSUME a.length # 0, ~(a.length > Len(witnessChain'[e])), ~(a.length <= witnessArchived'[e]),
                      witnessChain'[e][a.length].epoch = a.hash
               PROVE  FALSE
  BY <1>1 DEF AnchorStands, AnchorHolds, HashAt
<1>5. a.length \in 1..Len(witnessChain'[e]) BY <1>2, <1>3, <1>4
<1>6. ~(a.length <= witnessArchived[e]) BY <1>2, <1>3, <1>4 DEF ChainMoves
<1>7. CASE a.length \in 1..Len(witnessChain[e]) /\ witnessChain'[e][a.length] = witnessChain[e][a.length]
  BY <1>3, <1>7, <1>1, <1>4, <1>6 DEF AnchorStands
<1>8. CASE a.length > Len(witnessChain[e]) /\ witnessChain'[e][a.length].epoch = epoch[e]
  BY <1>2, <1>3, <1>4, <1>8 DEF Past
<1> QED BY <1>5, <1>7, <1>8 DEF ChainMoves

\* The live part of a chain.
LEMMA LiveOf ==
  ASSUME NEW S, NEW s \in Seq(S), NEW m \in Nat, NEW t, t = SubSeq(s, m + 1, Len(s))
  PROVE  /\ \A i \in 1..Len(t) : i + m \in 1..Len(s) /\ t[i] = s[i + m]
         /\ \A j \in 1..Len(s) : j > m => j - m \in 1..Len(t) /\ t[j - m] = s[j]
<1>1. PICK L : L = Len(s) OBVIOUS
<1>2. L \in Nat BY <1>1
<1>3. t = [i \in 1..(L - m) |-> s[i + m]] BY <1>1, <1>2
<1>4. CASE m <= L
  BY <1>2, <1>4, <1>3, <1>1
<1>5. CASE ~(m <= L)
  BY <1>2, <1>5, <1>3, <1>1
<1> QED BY <1>4, <1>5

LEMMA FailsStays ==
  ASSUME WitnessInv, WitnessInv', WitnessPast, ChainMoves, NEW e \in Estates, Fails(e),
         witnessArchived'[Other(e)] = witnessArchived[Other(e)], epoch'[Other(e)] = epoch[Other(e)]
  PROVE  Fails(e)'
<1>t. WitnessTypes /\ WitnessTypes' /\ ChainsHeld BY DEF WitnessInv
<1>1. PICK o : o = Other(e) OBVIOUS
<1>2. o \in Estates BY <1>1 DEF Other, Estates
<1>3. PICK s, s2, m : s = witnessChain[o] /\ s2 = witnessChain'[o] /\ m = witnessArchived[o] OBVIOUS
<1>4. s \in Seq(WitnessRecord) /\ s2 \in Seq(WitnessRecord) /\ m \in Nat /\ Len(s) \in Nat /\ Len(s2) \in Nat /\ epoch[o] \in Nat
  BY <1>t, <1>2, <1>3, EstateTypes
<1>5. PICK t, t2 : t = SubSeq(s, m + 1, Len(s)) /\ t2 = SubSeq(s2, m + 1, Len(s2)) OBVIOUS
<1>6. Witnessed(e) = {t[i].anchor : i \in {j \in 1..Len(t) : t[j].anchor # NoAnchor /\ t[j].anchor.estate = e}}
  BY <1>1, <1>3, <1>5 DEF Witnessed
<1>7. Witnessed(e)' = {t2[i].anchor : i \in {j \in 1..Len(t2) : t2[j].anchor # NoAnchor /\ t2[j].anchor.estate = e}}
  BY <1>1, <1>3, <1>5 DEF Witnessed
<1>8. PICK a \in Witnessed(e) : AnchorHolds(a, e, Len(witnessChain[e]), NoKey) # "holds" BY DEF Fails
<1>9. PICK i \in 1..Len(t) : a = t[i].anchor /\ a # NoAnchor /\ a.estate = e BY <1>6, <1>8
<1>10. PICK j : j = i + m OBVIOUS
<1>11. j \in 1..Len(s) /\ t[i] = s[j] /\ j > m
  <2>1. Len(t) \in Nat BY <1>4, <1>5
  <2> QED BY <1>4, <1>5, <1>10, <2>1, LiveOf
<1>12. a \in AnchorRecord /\ Past(a)
  BY <1>t, <1>2, <1>3, <1>9, <1>11 DEF ChainsHeld, WitnessPast, Held
<1>13. Len(s) <= Len(s2) BY <1>1, <1>2, <1>3, <1>4 DEF ChainMoves
<1>14. j \in 1..Len(s2) BY <1>4, <1>11, <1>13
<1>15. s2[j] = s[j]
  <2>1. ~(j > Len(s)) BY <1>4, <1>11
  <2> QED BY <1>2, <1>3, <1>14, <2>1 DEF ChainMoves
<1>16. j - m \in 1..Len(t2) /\ t2[j - m] = s[j] BY <1>4, <1>5, <1>11, <1>14, <1>15, LiveOf
<1>17. a \in Witnessed(e)' BY <1>7, <1>9, <1>11, <1>16
<1>18. AnchorHolds(a, e, Len(witnessChain[e]), NoKey)' # "holds" BY <1>t, <1>8, <1>9, <1>12, FailureStays
<1> QED BY <1>17, <1>18 DEF Fails

\* The file's verdict, from its lines and what they say of the chain.
VerdictOf(lines, said) ==
  LET anchors == {lines[i] : i \in 1 .. Len(lines)}
      ordered == \A i, j \in 1 .. Len(lines) : i < j => lines[i].length <= lines[j].length
      agree == \A a, b \in anchors : a.length = b.length => a.hash = b.hash
  IN CASE lines = <<>> -> {"nothing"}
       [] ~ordered -> {"order"}
       [] ~agree -> {"rewritten"}
       [] said # {} -> said
       [] 0 > Cardinality({a.length : a \in anchors}) -> {"short"}
       [] OTHER -> {"ok"}
Crossed(lines) == \E i, j \in 1 .. Len(lines) : i < j /\ ~(lines[i].length <= lines[j].length)
Disagree(lines) == \E i, j \in 1 .. Len(lines) : lines[i].length = lines[j].length /\ lines[i].hash # lines[j].hash

LEMMA VerdictFails ==
  ASSUME NEW lines \in Seq(AnchorRecord), NEW said, "ok" \notin said, "nothing" \notin said, lines = <<>> => said = {}
  PROVE  VerdictOf(lines, said) \notin {{"ok"}, {"nothing"}} <=> (lines # <<>> /\ (Crossed(lines) \/ Disagree(lines) \/ said # {}))
<1>1. PICK A : A = {lines[i] : i \in 1 .. Len(lines)} OBVIOUS
<1>2. Cardinality({a.length : a \in A}) \in Nat
  <2>1. Len(lines) \in Nat OBVIOUS
  <2>2. IsFiniteSet(1 .. Len(lines)) BY <2>1, FS_Interval
  <2>3. PICK T : T = {lines[i].length : i \in 1 .. Len(lines)} OBVIOUS
  <2>4. PICK f : f = [i \in 1 .. Len(lines) |-> lines[i].length] OBVIOUS
  <2>5. f \in Surjection(1 .. Len(lines), T) BY <2>3, <2>4 DEF Surjection
  <2>6. IsFiniteSet(T) BY <2>2, <2>5, FS_Surjection
  <2>7. T = {a.length : a \in A} BY <1>1, <2>3
  <2> QED BY <2>6, <2>7, FS_CardinalityType
<1>3. PICK ordered \in BOOLEAN : ordered = (\A i, j \in 1 .. Len(lines) : i < j => lines[i].length <= lines[j].length) OBVIOUS
<1>4. PICK agree \in BOOLEAN : agree = (\A a, b \in A : a.length = b.length => a.hash = b.hash) OBVIOUS
<1>5. ordered <=> ~Crossed(lines) BY <1>3 DEF Crossed
<1>6. agree <=> ~Disagree(lines) BY <1>1, <1>4 DEF Disagree
<1>7. PICK n : n = Cardinality({a.length : a \in A}) OBVIOUS
<1>8. ~(0 > n) BY <1>2, <1>7
<1>9. PICK v : v = VerdictOf(lines, said) OBVIOUS
<1>10. v = CASE lines = <<>> -> {"nothing"} [] ~ordered -> {"order"} [] ~agree -> {"rewritten"}
             [] said # {} -> said [] 0 > n -> {"short"} [] OTHER -> {"ok"}
  BY <1>1, <1>3, <1>4, <1>7, <1>9 DEF VerdictOf
<1>11. CASE lines = <<>>
  <2>1. ordered /\ agree
    BY <1>11, <1>1, <1>3, <1>4
  <2>2. v = {"nothing"} BY <1>8, <1>10, <1>11, <2>1
  <2> QED BY <1>9, <1>11, <2>2
<1>12. CASE lines # <<>> /\ ordered /\ agree /\ said = {}
  <2>1. v = {"ok"} BY <1>8, <1>10, <1>12
  <2> QED BY <1>5, <1>6, <1>9, <1>12, <2>1
<1>13. CASE lines # <<>> /\ ~(ordered /\ agree /\ said = {})
  BY <1>10, <1>13, <1>5, <1>6, <1>9
<1> QED BY <1>11, <1>12, <1>13

\* What one line of the file says, and the verdict of the file as it stands.
Fallen(lines) == \E i \in 1 .. Len(lines) : AnchorHolds(lines[i], "here", Len(witnessChain["here"]), NoKey) # "holds"
FileBroken == witnessFile # <<>> /\ (Crossed(witnessFile) \/ Disagree(witnessFile) \/ Fallen(witnessFile))

LEMMA FileFailsIs == witnessFile \in Seq(AnchorRecord) => (FileFails <=> FileBroken)
<1> SUFFICES ASSUME witnessFile \in Seq(AnchorRecord) PROVE FileFails <=> FileBroken OBVIOUS
<1>1. PICK said : said = {AnchorHolds(a, "here", Len(witnessChain["here"]), NoKey) : a \in {witnessFile[i] : i \in 1 .. Len(witnessFile)}} \ {"holds"}
  OBVIOUS
<1>2. FileVerdict(witnessFile, NoKey, 0) = VerdictOf(witnessFile, said) BY <1>1 DEF FileVerdict, VerdictOf
<1>3. \A a : AnchorHolds(a, "here", Len(witnessChain["here"]), NoKey) \in {"holds", "signature", "rewritten", "future", "archived"}
  BY DEF AnchorHolds
<1>4. "ok" \notin said /\ "nothing" \notin said BY <1>1, <1>3
<1>5. said # {} <=> Fallen(witnessFile) BY <1>1 DEF Fallen
<1>6. witnessFile = <<>> => said = {}
  BY <1>1
<1>7. VerdictOf(witnessFile, said) \notin {{"ok"}, {"nothing"}} <=>
        (witnessFile # <<>> /\ (Crossed(witnessFile) \/ Disagree(witnessFile) \/ said # {}))
  BY <1>4, <1>6, VerdictFails
<1> QED BY <1>2, <1>5, <1>7 DEF FileFails, FileBroken

LEMMA FileBreakStays ==
  ASSUME WitnessInv, WitnessInv', WitnessPast, ChainMoves, FileBroken,
         \/ witnessFile' = witnessFile
         \/ \E a : witnessFile' = Append(witnessFile, a)
  PROVE  FileBroken'
<1>t. WitnessTypes /\ WitnessTypes' BY DEF WitnessInv
<1>f. /\ witnessFile \in Seq(AnchorRecord) /\ witnessFile' \in Seq(AnchorRecord)
      /\ \A i \in 1..Len(witnessFile) : witnessFile[i].estate = "here" /\ witnessFile[i] \in AnchorRecord /\ Past(witnessFile[i])
  BY DEF WitnessInv, FileHeld, WitnessPast
<1>1. \A i \in 1..Len(witnessFile) : i \in 1..Len(witnessFile') /\ witnessFile'[i] = witnessFile[i] BY <1>f
<1>2. witnessFile' # <<>>
  BY <1>f, <1>1 DEF FileBroken
<1>3. Crossed(witnessFile) => Crossed(witnessFile)' BY <1>1 DEF Crossed
<1>4. Disagree(witnessFile) => Disagree(witnessFile)' BY <1>1 DEF Disagree
<1>5. ASSUME NEW i \in 1..Len(witnessFile), AnchorHolds(witnessFile[i], "here", Len(witnessChain["here"]), NoKey) # "holds"
      PROVE  Fallen(witnessFile)'
  BY <1>f, <1>t, <1>5, FailureStays, <1>1 DEF Estates, Fallen
<1> QED BY <1>2, <1>3, <1>4, <1>5 DEF FileBroken, Fallen

\* One step of the box that LossNeverHeals states.
LossStep ==
  /\ \A e \in Estates :
       Fails(e) /\ witnessArchived'[Other(e)] = witnessArchived[Other(e)] /\ epoch'[Other(e)] = epoch[Other(e)] => Fails(e)'
  /\ FileFails => FileFails'

LEMMA LossStays ==
  ASSUME WitnessInv, WitnessPast, [WitnessNext]_witnessVars, WitnessInv', (witnessFile \in Seq(AnchorRecord) => (FileFails <=> FileBroken))'
  PROVE  LossStep
<1>1. ChainMoves BY WitnessMoves
<1>2. \A e \in Estates :
        Fails(e) /\ witnessArchived'[Other(e)] = witnessArchived[Other(e)] /\ epoch'[Other(e)] = epoch[Other(e)] => Fails(e)'
  BY <1>1, FailsStays
<1>3. ASSUME FileFails PROVE FileFails'
  <2>1. witnessFile \in Seq(AnchorRecord) /\ witnessFile' \in Seq(AnchorRecord) BY DEF WitnessInv, FileHeld
  <2>2. FileBroken BY <1>3, <2>1, FileFailsIs
  <2>3. \/ witnessFile' = witnessFile
        \/ \E a : witnessFile' = Append(witnessFile, a)
    BY DEF WitnessNext, Served, Restored, Archived, FetchAnchors, KeyFileChanges, TickStarts, Direction1, Direction2, Post,
           TickRaises, WalkChain, CompareAnchors, AnchorReads, AnchorWrites, witnessVars
  <2>4. FileBroken' BY <1>1, <2>2, <2>3, FileBreakStays
  <2> QED BY <2>1, <2>4
<1> QED BY <1>2, <1>3 DEF LossStep

\* A loss that was witnessed or anchored never looks well again while its witnesses are
\* kept: for any chains, keys, runs and order of ticks, posts, restores and archivals
\* (witness_cli.py, verify_against_witness; anchors.py, verify_anchors).
THEOREM LossAlwaysShows == WitnessSpec => LossNeverHeals
<1>1. WitnessInit => WitnessInv /\ WitnessPast BY WitnessInitHeld, PastInit
<1>2. WitnessInv /\ WitnessPast /\ [WitnessNext]_witnessVars => (WitnessInv /\ WitnessPast)' BY WitnessKeeps, PastStep
<1>3. witnessFile \in Seq(AnchorRecord) => (FileFails <=> FileBroken) BY FileFailsIs
<1>4. WitnessInv /\ WitnessPast /\ [WitnessNext]_witnessVars /\ (witnessFile \in Seq(AnchorRecord) => (FileFails <=> FileBroken))'
        => [LossStep]_witnessVars
  BY WitnessKeeps, LossStays
<1>5. WitnessSpec => [][LossStep]_witnessVars BY <1>1, <1>2, <1>3, <1>4, PTL DEF WitnessSpec
<1> QED BY <1>5 DEF LossNeverHeals, LossStep

-----------------------------------------------------------------------------
(* Replay: what an event says of the grants is what they say of its instant ever after, *)
(* and the timeline misses nothing that no note speaks of.                               *)

GrantRecord == [issued : Nat, revoked : Nat, covers : BOOLEAN]
ReplayRecord == [ts : Nat, kind : ReplayKinds, active : SUBSET Grants, lapsed : SUBSET Grants]
ReplayTypes ==
  /\ clock \in Nat /\ replayEvents \in Seq(ReplayRecord) /\ replayArchived \in Nat
  /\ grant \in [Grants -> GrantRecord] /\ replayLate \in BOOLEAN
\* Every grant and every event has an instant of its own.
InstantsApart ==
  /\ \A g \in Grants : grant[g].issued <= clock /\ (grant[g].revoked # 0 => grant[g].issued # 0)
  /\ \A g, h \in Grants : grant[g].issued = grant[h].issued /\ grant[g].issued # 0 => g = h
  /\ \A k \in 1..Len(replayEvents) : replayEvents[k].ts <= clock
  /\ \A j, k \in 1..Len(replayEvents) : j < k => replayEvents[j].ts < replayEvents[k].ts
  /\ replayArchived = 0 \/ replayArchived < Len(replayEvents)
\* What was known when an event was written is what its instant shows now.
KnownStill ==
  \A k \in 1..Len(replayEvents) :
    LET e == replayEvents[k]
    IN  /\ e.active = Covering(e.ts, "active")
        /\ e.lapsed = Covering(e.ts, IF e.kind = "D.expired" THEN "expired" ELSE "revoked")

ReportShape ==
  report = [at |-> report.at, window |-> report.window, notes |-> report.notes, asked |-> report.asked,
            timeline |-> report.timeline, accountable |-> report.accountable]
Missed == {k \in 1..report.asked : InWindow(replayEvents[k], report.window) /\ k <= replayArchived}
ReportHeld ==
  report.at # "idle" =>
    /\ ReportShape
    /\ report.at \in {"health", "agent", "events", "tokens", "done"}
    /\ report.window \in Windows
    /\ report.asked \in Nat /\ report.asked <= Len(replayEvents)
    /\ report.timeline \subseteq 1..Len(replayEvents)
    /\ report.at \in {"agent", "events"} /\ ~replayLate /\ report.notes = {} => Missed = {}
    /\ report.at \in {"tokens", "done"} /\ ~replayLate /\ report.notes = {} =>
         \A k \in 1..report.asked : InWindow(replayEvents[k], report.window) => k \in report.timeline
ReplayInv == ReplayTypes /\ InstantsApart /\ KnownStill /\ ReportHeld /\ BlameFits

LEMMA EventIs == ASSUME ReplayTypes, NEW k \in 1..Len(replayEvents) PROVE replayEvents[k] \in ReplayRecord /\ replayEvents[k].ts \in Nat
<1>1. replayEvents[k] \in ReplayRecord BY DEF ReplayTypes
<1> QED BY <1>1 DEF ReplayRecord

LEMMA ReplayInitHeld == ReplayInit => ReplayInv
<1> SUFFICES ASSUME ReplayInit PROVE ReplayInv OBVIOUS
<1>1. report.at = "idle" BY DEF ReplayInit, ReplayIdle
<1>2. ReplayTypes
  <2>1. replayLate \in BOOLEAN BY Zenon DEF ReplayInit
  <2>2. grant \in [Grants -> GrantRecord] BY DEF ReplayInit, GrantRecord, NoGrant
  <2>3. clock \in Nat /\ replayEvents \in Seq(ReplayRecord) /\ replayArchived \in Nat BY DEF ReplayInit
  <2> QED BY <2>1, <2>2, <2>3 DEF ReplayTypes
<1>3. InstantsApart BY DEF ReplayInit, InstantsApart, NoGrant
<1>4. KnownStill BY DEF ReplayInit, KnownStill
<1>5. ReportHeld BY <1>1 DEF ReportHeld
<1>6. BlameFits BY <1>1 DEF BlameFits, ReplayDone
<1> QED BY <1>2, <1>3, <1>4, <1>5, <1>6 DEF ReplayInv

\* Among grants there is one that was minted first, and one that was minted last.
LEMMA FirstMinted ==
  ASSUME ReplayTypes, NEW gs \in SUBSET Grants, gs # {}
  PROVE  Earliest(gs) \in gs /\ \A h \in gs : grant[Earliest(gs)].issued <= grant[h].issued
<1>1. PICK T : T = {grant[g].issued : g \in gs} OBVIOUS
<1>2. T \subseteq Nat /\ T # {} BY <1>1 DEF ReplayTypes, GrantRecord
<1>3. \E n \in T : \A m \in T : n <= m BY <1>2, LeastOf
<1>4. \E g \in gs : \A h \in gs : grant[g].issued <= grant[h].issued BY <1>1, <1>3
<1> QED BY <1>4 DEF Earliest

LEMMA LastMinted ==
  ASSUME ReplayTypes, InstantsApart, NEW gs \in SUBSET Grants, gs # {}
  PROVE  Latest(gs) \in gs
<1>1. PICK T : T = {clock - grant[g].issued : g \in gs} OBVIOUS
<1>2. clock \in Nat /\ \A g \in gs : grant[g].issued \in Nat /\ grant[g].issued <= clock
  BY DEF ReplayTypes, GrantRecord, InstantsApart
<1>3. T \subseteq Nat /\ T # {} BY <1>1, <1>2
<1>4. \E n \in T : \A m \in T : n <= m BY <1>3, LeastOf
<1>5. \E g \in gs : \A h \in gs : clock - grant[g].issued <= clock - grant[h].issued BY <1>1, <1>4
<1>6. \E g \in gs : \A h \in gs : grant[h].issued <= grant[g].issued BY <1>2, <1>5
<1> QED BY <1>6 DEF Latest

\* The first failure of a timeline is one of its events.
LEMMA FailureIs ==
  ASSUME NEW T \in SUBSET Nat, FirstFailure(T) # <<>>
  PROVE  \E k \in T : replayEvents[k].kind \in Failures /\ FirstFailure(T) = <<replayEvents[k]>>
BY LeastOf DEF FirstFailure

\* What the estate knew of an instant stays known: who was minted since was not there
\* then, and who was revoked since was not revoked then.
LEMMA KnownOf ==
  ASSUME ReplayTypes, InstantsApart, clock' = clock + 1, NEW instant \in Nat, instant <= clock,
         NEW status \in {"active", "expired", "revoked"},
         \/ grant' = grant
         \/ \E g \in Grants : ReplayMint(g) \/ ReplayRevoke(g)
  PROVE  Covering(instant, status)' = Covering(instant, status)
<1>1. clock \in Nat /\ grant \in [Grants -> GrantRecord] BY DEF ReplayTypes
<1>2. CASE grant' = grant BY <1>2 DEF Covering
<1>3. ASSUME NEW g \in Grants, ReplayMint(g) \/ ReplayRevoke(g) PROVE Covering(instant, status)' = Covering(instant, status)
  <2>1. grant[g] \in GrantRecord /\ grant'[g] \in GrantRecord /\ \A h \in Grants : h # g => grant'[h] = grant[h]
    BY <1>1, <1>3 DEF ReplayMint, ReplayRevoke, GrantRecord
  <2>2. ASSUME ReplayMint(g) PROVE StatusAt(grant[g], instant) = "none" /\ StatusAt(grant'[g], instant) = "none"
    BY <1>1, <2>2 DEF ReplayMint, InstantsApart, GrantRecord, StatusAt
  <2>3. ASSUME ReplayRevoke(g)
        PROVE  StatusAt(grant'[g], instant) = StatusAt(grant[g], instant) /\ grant'[g].covers = grant[g].covers
    BY <1>1, <2>3 DEF ReplayRevoke, GrantRecord, Expires, StatusAt
  <2>4. \A h \in Grants : (grant'[h].covers /\ StatusAt(grant'[h], instant) = status) <=> (grant[h].covers /\ StatusAt(grant[h], instant) = status)
    BY <1>3, <2>1, <2>2, <2>3
  <2> QED BY <2>4 DEF Covering
<1> QED BY <1>2, <1>3

\* The estate's steps leave a report that was made as true as it was.
LEMMA EstateKeeps ==
  ASSUME ReplayInv, report' = report, ReplayTypes', InstantsApart', KnownStill',
         Len(replayEvents) <= Len(replayEvents'),
         \A k \in 1..Len(replayEvents) : replayEvents'[k] = replayEvents[k],
         \A g \in Grants : grant[g].issued # 0 => grant'[g].issued = grant[g].issued,
         ~replayLate' => ~replayLate /\ (replayArchived' = replayArchived \/ report.at \notin {"agent", "events"})
  PROVE  ReplayInv'
<1> USE DEF ReplayInv
<1>0. CASE report.at = "idle" BY <1>0 DEF ReportHeld, BlameFits, ReplayDone
<1>1. CASE report.at # "idle"
  <2>1. /\ ReportShape /\ report.asked \in Nat /\ report.asked <= Len(replayEvents)
        /\ report.timeline \subseteq 1..Len(replayEvents) /\ report.window \in Windows
        /\ report.at \in {"health", "agent", "events", "tokens", "done"}
    BY <1>1 DEF ReportHeld
  <2>2. Len(replayEvents) \in Nat /\ Len(replayEvents') \in Nat BY DEF ReplayTypes
  <2>3. \A k \in 1..report.asked : k \in 1..Len(replayEvents) BY <2>1, <2>2
  <2>4. replayArchived' = replayArchived => Missed' = Missed BY <2>3 DEF Missed
  <2>5. ReportHeld'
    BY <2>1, <1>1, <2>4, <2>3, <2>2 DEF ReportShape, ReportHeld
  <2>6. BlameFits'
    <3>1. CASE report.at # "done" BY <3>1 DEF BlameFits, ReplayDone
    <3>2. CASE FirstFailure(report.timeline)' = <<>> BY <3>2 DEF BlameFits
    <3>3. CASE report.at = "done" /\ FirstFailure(report.timeline)' # <<>>
      <4>1. PICK T : T = report.timeline OBVIOUS
      <4>2. PICK F : F = {k \in T : replayEvents[k].kind \in Failures} OBVIOUS
      <4>3. F = {k \in T : replayEvents'[k].kind \in Failures} /\ F \subseteq 1..Len(replayEvents) BY <2>1, <4>1, <4>2
      <4>4. PICK n : n = CHOOSE k \in F : \A j \in F : k <= j OBVIOUS
      <4>5. FirstFailure(report.timeline) = IF F = {} THEN <<>> ELSE <<replayEvents[n]>>
        BY <4>1, <4>2, <4>4 DEF FirstFailure
      <4>6. FirstFailure(report.timeline)' = IF F = {} THEN <<>> ELSE <<replayEvents'[n]>>
        BY <4>1, <4>3, <4>4 DEF FirstFailure
      <4>7. F # {} BY <3>3, <4>6
      <4>8. n \in F
        BY <2>2, <4>3, <4>7, LeastOf, <4>4
      <4>9. PICK f : f = replayEvents[n] OBVIOUS
      <4>10. replayEvents'[n] = f /\ n \in 1..Len(replayEvents) BY <4>3, <4>8, <4>9
      <4>11. FirstFailure(report.timeline)' = <<f>> /\ FirstFailure(report.timeline) = <<f>>
        BY <4>5, <4>6, <4>7, <4>9, <4>10
      <4>12. f.active \subseteq Grants /\ \A g \in f.active : grant[g].issued # 0
        BY <4>9, <4>10 DEF KnownStill, Covering, StatusAt
      <4>13. PICK I : I = f.active \cap Overlapping(report.window) OBVIOUS
      <4>14. I = f.active \cap Overlapping(report.window)' BY <4>12, <4>13 DEF Overlapping, Expires
      <4>15. ASSUME I # {} PROVE Earliest(I)' = Earliest(I)
        <5>1. I \subseteq Grants /\ (\A g \in I : grant'[g].issued = grant[g].issued /\ grant[g].issued # 0 /\ grant[g].issued \in Nat)
          BY <4>12, <4>13 DEF ReplayTypes, GrantRecord
        <5>2. Earliest(I) \in I /\ \A h \in I : grant[Earliest(I)].issued <= grant[h].issued
          BY <4>15, <5>1, FirstMinted
        <5>3. PICK e : e = CHOOSE g \in I : \A h \in I : grant'[g].issued <= grant'[h].issued OBVIOUS
        <5>4. \E g \in I : \A h \in I : grant'[g].issued <= grant'[h].issued BY <5>1, <5>2
        <5>5. e \in I /\ \A h \in I : grant'[e].issued <= grant'[h].issued BY <5>3, <5>4
        <5>6. grant[e].issued = grant[Earliest(I)].issued BY <5>1, <5>2, <5>5
        <5>7. e = Earliest(I) BY <5>1, <5>2, <5>5, <5>6 DEF InstantsApart
        <5>8. Earliest(I)' = e BY <5>3 DEF Earliest
        <5> QED BY <5>7, <5>8
      <4>16. /\ f.kind = "block" /\ I # {} => report.accountable = [grant |-> Earliest(I), source |-> "covering"]
             /\ report.accountable.source = "covering" => report.accountable.grant \in f.active
             /\ report.accountable.source = "lapsed" => report.accountable.grant \in f.lapsed
        BY <4>11, <3>3, <4>13 DEF BlameFits, ReplayDone
      <4>17. FirstFailure(report.timeline)'[1] = f BY <4>11
      <4> QED BY <4>14, <4>15, <4>16, <4>17 DEF BlameFits
    <3> QED BY <3>1, <3>2, <3>3
  <2> QED BY <2>5, <2>6
<1> QED BY <1>0, <1>1

\* Each step of the estate.
LEMMA MintKeeps == ASSUME ReplayInv, NEW g \in Grants, ReplayMint(g) \/ ReplayRevoke(g) PROVE ReplayInv'
<1> USE DEF ReplayInv
<1>1. clock \in Nat /\ clock' = clock + 1 /\ grant \in [Grants -> GrantRecord] /\ report' = report
      /\ replayEvents' = replayEvents /\ replayArchived' = replayArchived /\ replayLate' = replayLate
  BY DEF ReplayTypes, ReplayMint, ReplayRevoke, ReplayTick, EstateSame
<1>2. /\ \A h \in Grants : h # g => grant'[h] = grant[h]
      /\ grant'[g] \in GrantRecord /\ grant' \in [Grants -> GrantRecord]
      /\ \/ /\ grant[g].issued = 0 /\ grant'[g].issued = clock + 1 /\ grant'[g].revoked = 0
         \/ /\ grant[g].issued # 0 /\ grant'[g].issued = grant[g].issued
  BY <1>1 DEF ReplayMint, ReplayRevoke, GrantRecord
<1>3. ReplayTypes' BY <1>1, <1>2 DEF ReplayTypes
<1>4. \A h \in Grants : grant[h].issued \in Nat /\ grant'[h].issued \in Nat BY <1>1, <1>2 DEF GrantRecord
<1>5. \A h \in Grants : /\ grant'[h].issued <= clock + 1 /\ (grant'[h].revoked # 0 => grant'[h].issued # 0)
                        /\ h # g => grant'[h].issued <= clock
  BY <1>1, <1>2, <1>4 DEF InstantsApart
<1>6. \A h, i \in Grants : grant'[h].issued = grant'[i].issued /\ grant'[h].issued # 0 => h = i
  BY <1>1, <1>2, <1>4, <1>5 DEF InstantsApart
<1>7. \A k \in 1..Len(replayEvents) : replayEvents[k].ts \in Nat BY EventIs
<1>8. InstantsApart' BY <1>1, <1>5, <1>6, <1>7 DEF InstantsApart
<1>9. KnownStill'
  <2>1. ASSUME NEW k \in 1..Len(replayEvents), NEW status \in {"active", "expired", "revoked"}
        PROVE  Covering(replayEvents[k].ts, status)' = Covering(replayEvents[k].ts, status)
    BY <1>7, <1>1, KnownOf DEF InstantsApart, Covering
  <2> QED BY <1>1, <2>1 DEF KnownStill
<1>10. Len(replayEvents) \in Nat BY DEF ReplayTypes
<1> QED BY <1>1, <1>2, <1>3, <1>8, <1>9, <1>10, EstateKeeps

LEMMA AppendKeeps == ASSUME ReplayInv, NEW kind \in ReplayKinds, Append1(kind) PROVE ReplayInv'
<1> USE DEF ReplayInv
<1>1. clock \in Nat /\ clock' = clock + 1 /\ grant' = grant /\ report' = report
      /\ replayArchived' = replayArchived /\ replayLate' = replayLate
  BY DEF ReplayTypes, Append1, ReplayTick, EstateSame
<1>2. PICK e : e = [ts |-> clock', kind |-> kind, active |-> Covering(clock', "active"),
                    lapsed |-> Covering(clock', IF kind = "D.expired" THEN "expired" ELSE "revoked")]
  OBVIOUS
<1>3. replayEvents' = Append(replayEvents, e) BY <1>2 DEF Append1
<1>4. e \in ReplayRecord BY <1>1, <1>2 DEF ReplayRecord, Covering
<1>5. /\ replayEvents' \in Seq(ReplayRecord) /\ Len(replayEvents') = Len(replayEvents) + 1 /\ Len(replayEvents) \in Nat
      /\ (\A k \in 1..Len(replayEvents) : replayEvents'[k] = replayEvents[k])
      /\ replayEvents'[Len(replayEvents) + 1] = e
  BY <1>3, <1>4 DEF ReplayTypes
<1>6. ReplayTypes' BY <1>1, <1>5 DEF ReplayTypes
<1>7. \A k \in 1..Len(replayEvents') : k \in 1..Len(replayEvents) \/ k = Len(replayEvents) + 1 BY <1>5
<1>8. \A k \in 1..Len(replayEvents) : replayEvents[k].ts \in Nat /\ replayEvents[k].ts <= clock
  BY EventIs DEF InstantsApart
<1>9. e.ts = clock + 1 BY <1>1, <1>2
<1>10. \A g \in Grants : grant[g].issued \in Nat BY DEF ReplayTypes, GrantRecord
<1>11. \A k \in 1..Len(replayEvents') : replayEvents'[k].ts <= clock + 1 BY <1>1, <1>5, <1>7, <1>8, <1>9
<1>12. \A j, k \in 1..Len(replayEvents') : j < k => replayEvents'[j].ts < replayEvents'[k].ts
  BY <1>5, <1>1, <1>8, <1>9, <1>7 DEF InstantsApart
<1>13. InstantsApart' BY <1>1, <1>5, <1>6, <1>10, <1>11, <1>12 DEF InstantsApart, ReplayTypes
<1>14. KnownStill'
  <2> SUFFICES ASSUME NEW k \in 1..Len(replayEvents')
               PROVE  (/\ replayEvents[k].active = Covering(replayEvents[k].ts, "active")
                       /\ replayEvents[k].lapsed = Covering(replayEvents[k].ts, IF replayEvents[k].kind = "D.expired" THEN "expired" ELSE "revoked"))'
    BY DEF KnownStill
  <2>1. CASE k \in 1..Len(replayEvents) BY <1>1, <1>5, <2>1 DEF KnownStill, Covering
  <2>2. CASE k = Len(replayEvents) + 1
    BY <1>5, <2>2, <1>2, <1>1 DEF Covering
  <2> QED BY <1>7, <2>1, <2>2
<1> QED BY <1>1, <1>5, <1>6, <1>13, <1>14, EstateKeeps

LEMMA ArchiveKeeps == ASSUME ReplayInv, Archive PROVE ReplayInv'
<1> USE DEF ReplayInv
<1>1. /\ clock \in Nat /\ clock' = clock + 1 /\ grant' = grant /\ report' = report /\ replayEvents' = replayEvents
      /\ replayArchived \in Nat /\ replayArchived' = replayArchived + 1 /\ replayArchived' < Len(replayEvents)
      /\ replayLate' = (replayLate \/ report.at \in {"agent", "events"})
  BY DEF ReplayTypes, Archive, ReplayTick, EstateSame
<1>2. ReplayTypes' BY <1>1 DEF ReplayTypes
<1>3. \A k \in 1..Len(replayEvents) : replayEvents[k].ts \in Nat BY EventIs
<1>4. \A g \in Grants : grant[g].issued \in Nat BY DEF ReplayTypes, GrantRecord
<1>5. InstantsApart' BY <1>1, <1>3, <1>4 DEF InstantsApart
<1>6. KnownStill' BY <1>1 DEF KnownStill, Covering
<1>7. Len(replayEvents) \in Nat BY DEF ReplayTypes
<1>8. ~replayLate' => ~replayLate /\ report.at \notin {"agent", "events"} BY Zenon, <1>1
<1> QED BY <1>1, <1>2, <1>5, <1>6, <1>7, <1>8, EstateKeeps

\* A question that fails the whole replay, and one that is answered.
LEMMA ReplayStops == ASSUME ReplayInv, Reads, report' = ReplayIdle, replayLate' = replayLate PROVE ReplayInv'
BY DEF ReplayInv, ReplayIdle, ReportHeld, BlameFits, ReplayDone, Reads, KnownStill, Covering, ReplayTypes,
  InstantsApart

LEMMA ReplayGoesOn ==
  ASSUME ReplayInv, Reads, replayLate' \in BOOLEAN,
         NEW at2 \in {"health", "agent", "events", "tokens", "done"}, NEW w \in Windows, NEW notes2,
         NEW asked \in Nat, asked <= Len(replayEvents), NEW timeline2 \in SUBSET (1..Len(replayEvents)), NEW accountable2,
         report' = [at |-> at2, window |-> w, notes |-> notes2, asked |-> asked, timeline |-> timeline2, accountable |-> accountable2],
         at2 \in {"agent", "events"} /\ ~replayLate' /\ notes2 = {} =>
           \A k \in 1..asked : InWindow(replayEvents[k], w) => k > replayArchived,
         at2 \in {"tokens", "done"} /\ ~replayLate' /\ notes2 = {} =>
           \A k \in 1..asked : InWindow(replayEvents[k], w) => k \in timeline2,
         BlameFits'
  PROVE  ReplayInv'
BY DEF ReplayInv, ReportShape, Reads, ReplayTypes, Missed, ReportHeld, KnownStill, Covering, InstantsApart

LEMMA VerifyKeeps == ASSUME ReplayInv, AskVerify PROVE ReplayInv'
<1> USE DEF ReplayInv
<1>1. PICK w \in Windows : report' = [at |-> "health", window |-> w, notes |-> {}, asked |-> Len(replayEvents),
                                      timeline |-> {}, accountable |-> ReplayNobody]
  BY DEF AskVerify, ReplayGoes
<1>2. Reads /\ replayLate' = FALSE BY DEF AskVerify, ReplayGoes
<1>3. BlameFits' BY <1>1 DEF BlameFits, ReplayDone
<1>4. Len(replayEvents) \in Nat BY DEF ReplayTypes
<1>5. replayLate' \in BOOLEAN BY <1>2, Zenon
<1> QED BY <1>1, <1>2, <1>3, <1>4, <1>5, ReplayGoesOn

LEMMA HealthKeeps == ASSUME ReplayInv, AskHealth PROVE ReplayInv'
<1> USE DEF ReplayInv
<1>1. report.at = "health" /\ Reads /\ replayLate' = replayLate BY DEF AskHealth, ReplayGoes, AnswerFails
<1>2. /\ ReportShape /\ report.asked \in Nat /\ report.asked <= Len(replayEvents)
      /\ report.timeline \subseteq 1..Len(replayEvents) /\ report.window \in Windows
  BY <1>1 DEF ReportHeld
<1>3. PICK notes : /\ report' = [report EXCEPT !.at = "agent", !.notes = notes]
                   /\ \/ notes = IF ReplayLive = {} THEN {} ELSE Noted(report.window)
                      \/ notes = {"health unreadable"}
  BY DEF AskHealth, ReplayGoes
<1>4. report' = [at |-> "agent", window |-> report.window, notes |-> notes, asked |-> report.asked,
                 timeline |-> report.timeline, accountable |-> report.accountable]
  BY <1>2, <1>3 DEF ReportShape
<1>5. ASSUME notes = {}, NEW k \in 1..report.asked, InWindow(replayEvents[k], report.window) PROVE k > replayArchived
  <2>1. replayArchived \in Nat /\ Len(replayEvents) \in Nat BY DEF ReplayTypes
  <2>2. CASE replayArchived = 0 BY <2>2
  <2>3. CASE replayArchived # 0
    <3>1. replayArchived < Len(replayEvents) BY <2>3 DEF InstantsApart
    <3>2. replayArchived + 1 \in ReplayLive /\ replayArchived + 1 \in 1..Len(replayEvents) BY <2>1, <3>1 DEF ReplayLive
    <3>3. Noted(report.window) = {} BY <1>3, <1>5, <3>2
    <3>4. ~(report.window.since < EarliestLiveTs) BY <2>1, <2>3, <3>3 DEF Noted
    <3>5. k \in 1..Len(replayEvents) BY <1>2, <2>1
    <3>6. /\ replayEvents[k].ts \in Nat /\ replayEvents[replayArchived + 1].ts \in Nat /\ report.window.since \in Nat
          /\ report.window.since <= replayEvents[k].ts
      BY <1>2, <1>5, <3>2, <3>5, EventIs, ReplayAssumption DEF InWindow
    <3>7. ~(replayEvents[k].ts < replayEvents[replayArchived + 1].ts) BY <3>4, <3>6 DEF EarliestLiveTs
    <3>8. ~(k < replayArchived + 1) BY <3>2, <3>5, <3>7 DEF InstantsApart
    <3> QED BY <2>1, <3>5, <3>8
  <2> QED BY <2>2, <2>3
<1>6. BlameFits' BY <1>4 DEF BlameFits, ReplayDone
<1>7. replayLate' \in BOOLEAN BY <1>1, Zenon DEF ReplayTypes
<1> QED BY <1>1, <1>2, <1>4, <1>5, <1>6, <1>7, ReplayGoesOn

LEMMA AgentKeeps == ASSUME ReplayInv, AskAgent PROVE ReplayInv'
<1> USE DEF ReplayInv
<1>1. report.at = "agent" /\ Reads /\ replayLate' = replayLate BY DEF AskAgent, ReplayGoes, AnswerFails
<1>2. /\ ReportShape /\ report.asked \in Nat /\ report.asked <= Len(replayEvents)
      /\ report.timeline \subseteq 1..Len(replayEvents) /\ report.window \in Windows
  BY <1>1 DEF ReportHeld
<1>3. CASE report' = ReplayIdle BY <1>1, <1>3, ReplayStops
<1>4. CASE report' = [report EXCEPT !.at = "events"]
  <2>1. report' = [at |-> "events", window |-> report.window, notes |-> report.notes, asked |-> report.asked,
                   timeline |-> report.timeline, accountable |-> report.accountable]
    BY <1>2, <1>4 DEF ReportShape
  <2>2. ~replayLate' /\ report.notes = {} =>
          \A k \in 1..report.asked : InWindow(replayEvents[k], report.window) => k > replayArchived
    <3>1. replayArchived \in Nat BY DEF ReplayTypes
    <3> QED BY <1>1, <1>2, <3>1 DEF ReportHeld, Missed
  <2>3. BlameFits' BY <2>1 DEF BlameFits, ReplayDone
  <2>4. replayLate' \in BOOLEAN BY <1>1, Zenon DEF ReplayTypes
  <2> QED BY <1>1, <1>2, <2>1, <2>2, <2>3, <2>4, ReplayGoesOn
<1> QED BY <1>3, <1>4 DEF AskAgent, ReplayGoes

LEMMA EventsKeeps == ASSUME ReplayInv, AskEvents PROVE ReplayInv'
<1> USE DEF ReplayInv
<1>1. report.at = "events" /\ Reads /\ replayLate' = replayLate BY DEF AskEvents, ReplayGoes, AnswerFails
<1>2. /\ ReportShape /\ report.asked \in Nat /\ report.asked <= Len(replayEvents)
      /\ report.timeline \subseteq 1..Len(replayEvents) /\ report.window \in Windows
  BY <1>1 DEF ReportHeld
<1>3. CASE report' = ReplayIdle BY <1>1, <1>3, ReplayStops
<1>4. CASE report' # ReplayIdle
  <2>1. PICK found : found = {k \in ReplayLive : InWindow(replayEvents[k], report.window)} OBVIOUS
  <2>2. PICK t : t = Newest(found) OBVIOUS
  <2>3. PICK n : n = report.notes \cup (IF Cardinality(found) > ReplayCap THEN {"truncated"} ELSE {}) OBVIOUS
  <2>4. report' = [report EXCEPT !.at = "tokens", !.timeline = t, !.notes = n]
    BY <1>4, <2>1, <2>2, <2>3 DEF AskEvents, ReplayGoes
  <2>5. report' = [at |-> "tokens", window |-> report.window, notes |-> n, asked |-> report.asked,
                   timeline |-> t, accountable |-> report.accountable]
    BY <1>2, <2>4 DEF ReportShape
  <2>6. replayArchived \in Nat /\ Len(replayEvents) \in Nat BY DEF ReplayTypes
  <2>7. found \subseteq 1..Len(replayEvents) BY <2>1, <2>6 DEF ReplayLive
  <2>8. t \subseteq found BY <2>2 DEF Newest
  <2>9. t \in SUBSET (1..Len(replayEvents)) BY <2>7, <2>8
  <2>10. ~replayLate' /\ n = {} => \A k \in 1..report.asked : InWindow(replayEvents[k], report.window) => k \in t
    <3> SUFFICES ASSUME ~replayLate', n = {}, NEW k \in 1..report.asked, InWindow(replayEvents[k], report.window) PROVE k \in t
      OBVIOUS
    <3>1. report.notes = {} /\ t = found BY <2>2, <2>3 DEF Newest
    <3>2. Missed = {} BY <1>1, <3>1 DEF ReportHeld
    <3>3. ~(k <= replayArchived) BY <3>2 DEF Missed
    <3>4. k \in ReplayLive BY <1>2, <2>6, <3>3 DEF ReplayLive
    <3> QED BY <2>1, <3>1, <3>4
  <2>11. BlameFits' BY <2>5 DEF BlameFits, ReplayDone
  <2>12. replayLate' \in BOOLEAN BY <1>1, Zenon DEF ReplayTypes
  <2> QED BY <1>1, <1>2, <2>5, <2>9, <2>10, <2>11, <2>12, ReplayGoesOn
<1> QED BY <1>3, <1>4

\* Who the report says is accountable.
LEMMA BlameIs ==
  ASSUME ReplayInv, report.window \in Windows, report.timeline \subseteq 1..Len(replayEvents), Reads, report'.at = "done",
         report'.window = report.window, report'.timeline = report.timeline,
         report'.accountable = Accountable(report.window, FirstFailure(report.timeline))
  PROVE  BlameFits'
<1> USE DEF ReplayInv
<1>1. PICK T : T = report.timeline OBVIOUS
<1>2. PICK w : w = report.window OBVIOUS
<1>3. FirstFailure(report.timeline)' = FirstFailure(T) BY <1>1 DEF FirstFailure, Reads
<1>4. CASE FirstFailure(T) = <<>> BY <1>3, <1>4 DEF BlameFits
<1>5. CASE FirstFailure(T) # <<>>
  <2>1. T \in SUBSET Nat
    <3>1. Len(replayEvents) \in Nat BY DEF ReplayTypes
    <3> QED BY <1>1, <3>1
  <2>2. PICK k \in T : replayEvents[k].kind \in Failures /\ FirstFailure(T) = <<replayEvents[k]>> BY <1>5, <2>1, FailureIs
  <2>3. PICK f : f = replayEvents[k] OBVIOUS
  <2>4. /\ f.active = Covering(f.ts, "active")
        /\ f.lapsed = Covering(f.ts, IF f.kind = "D.expired" THEN "expired" ELSE "revoked")
        /\ f.kind \in {"block", "D.expired", "D.revoked"}
    BY <1>1, <2>2, <2>3 DEF KnownStill, Failures
  <2>5. PICK L : L = {g \in Grants : grant[g].covers /\ StatusAt(grant[g], f.ts) = Lapsed(f)} OBVIOUS
  <2>6. PICK O : O = Overlapping(w) OBVIOUS
  <2>7. PICK I : I = {g \in O : grant[g].covers /\ StatusAt(grant[g], f.ts) = "active"} OBVIOUS
  <2>8. O \subseteq Grants BY <2>6 DEF Overlapping
  <2>9. I = f.active \cap O BY <2>4, <2>7, <2>8 DEF Covering
  <2>10. f.kind \in {"D.expired", "D.revoked"} => L = f.lapsed BY <2>4, <2>5 DEF Covering, Lapsed
  <2>11. PICK a : a = Accountable(w, <<f>>) OBVIOUS
  <2>12. <<f>>[1] = f /\ <<f>> # <<>> OBVIOUS
  <2>13. a = IF f.kind \in {"D.expired", "D.revoked"} /\ L # {} THEN [grant |-> Latest(L), source |-> "lapsed"]
             ELSE IF I # {} THEN [grant |-> Earliest(I), source |-> "covering"]
             ELSE IF O # {} THEN [grant |-> Earliest(O), source |-> "overlapping"]
             ELSE [grant |-> "none", source |-> "none"]
    BY <2>5, <2>6, <2>7, <2>11, <2>12 DEF Accountable
  <2>14. I # {} => Earliest(I) \in I BY <2>7, <2>8, FirstMinted
  <2>15. L # {} => Latest(L) \in L BY <2>5, LastMinted
  <2>16. /\ f.kind = "block" /\ I # {} => a = [grant |-> Earliest(I), source |-> "covering"]
         /\ a.source = "covering" => a.grant \in f.active
         /\ a.source = "lapsed" => a.grant \in f.lapsed
    BY <2>9, <2>10, <2>13, <2>14, <2>15
  <2>17. FirstFailure(report.timeline)'[1] = f /\ report'.accountable = a BY <1>1, <1>2, <1>3, <2>2, <2>3, <2>11
  <2>18. Overlapping(report.window)' = O BY <1>2, <2>6 DEF Overlapping, Reads
  <2>19. Earliest(I)' = Earliest(I) BY DEF Earliest, Reads
  <2> QED BY <2>9, <2>16, <2>17, <2>18, <2>19 DEF BlameFits
<1> QED BY <1>4, <1>5

LEMMA TokensKeeps == ASSUME ReplayInv, AskTokens PROVE ReplayInv'
<1> USE DEF ReplayInv
<1>1. report.at = "tokens" /\ Reads /\ replayLate' = replayLate BY DEF AskTokens, ReplayGoes, AnswerFails
<1>2. /\ ReportShape /\ report.asked \in Nat /\ report.asked <= Len(replayEvents)
      /\ report.timeline \subseteq 1..Len(replayEvents) /\ report.window \in Windows
  BY <1>1 DEF ReportHeld
<1>3. CASE report' = ReplayIdle BY <1>1, <1>3, ReplayStops
<1>4. CASE report' # ReplayIdle
  <2>1. PICK a : a = Accountable(report.window, FirstFailure(report.timeline)) OBVIOUS
  <2>2. report' = [report EXCEPT !.at = "done", !.accountable = a] BY <1>4, <2>1 DEF AskTokens, ReplayGoes
  <2>3. report' = [at |-> "done", window |-> report.window, notes |-> report.notes, asked |-> report.asked,
                   timeline |-> report.timeline, accountable |-> a]
    BY <1>2, <2>2 DEF ReportShape
  <2>4. BlameFits' BY <1>1, <1>2, <2>1, <2>3, BlameIs
  <2>5. ~replayLate' /\ report.notes = {} => \A k \in 1..report.asked : InWindow(replayEvents[k], report.window) => k \in report.timeline
    BY <1>1 DEF ReportHeld
  <2>6. replayLate' \in BOOLEAN BY <1>1, Zenon DEF ReplayTypes
  <2> QED BY <1>1, <1>2, <2>3, <2>4, <2>5, <2>6, ReplayGoesOn
<1> QED BY <1>3, <1>4

LEMMA ReplayKeeps == ReplayInv /\ [ReplayNext]_replayVars => ReplayInv'
<1> SUFFICES ASSUME ReplayInv, [ReplayNext]_replayVars PROVE ReplayInv' OBVIOUS
<1>1. CASE UNCHANGED replayVars
  BY <1>1, EstateKeeps DEF replayVars, ReplayInv, ReplayTypes, InstantsApart, KnownStill, Covering
<1> QED BY <1>1, MintKeeps, AppendKeeps, ArchiveKeeps, VerifyKeeps, HealthKeeps, AgentKeeps, EventsKeeps, TokensKeeps
    DEF ReplayNext

LEMMA ReplayTruth == ReplayInv => ReportComplete /\ BlameFits
BY DEF ReplayInv, ReportHeld, ReportComplete, ReplayDone

\* A post-mortem that notes nothing shows what was in the ledger, unless retention ran
\* between two of its questions, and blames who was in force when the failure was
\* written (engine.py replay, _earliest_live_note, _accountable).
THEOREM ReportsAlwaysTrue == ReplaySpec => [](ReportComplete /\ BlameFits)
<1> QED BY ReplayTruth, ReplayInitHeld, ReplayKeeps, PTL DEF ReplaySpec

-----------------------------------------------------------------------------
(* BoardPack, its figures: each is the size of a set of events that lies between what  *)
(* was in the ledger when the build began and what is there now.                        *)

\* What the row of a kind shows, and what it may have missed: an event that has been
\* archived, until /health has said that none of the window was.
Shows(kind, S) ==
  /\ pack.rows[kind] = Figure([count |-> Cardinality(S), distinct |-> Cardinality({events[i].agent : i \in S})])
  /\ \A i \in Evidence(kind, pack.asked) : i \in S \/ i <= packArchived
  /\ pack.at > 8 /\ pack.note = "none" /\ Ok("verify") => Evidence(kind, pack.asked) \subseteq S
RowHeld(kind) ==
  pack.rows[kind].status = "unavailable" \/ \E S \in SUBSET Evidence(kind, Len(events)) : Shows(kind, S)

WindowHeld ==
  /\ pack.window \in [since : Nat, until : Nat]
  /\ pack.req.since # Open /\ pack.req.until = Open =>
       pack.window.until = pack.asked /\ pack.asked # Open
BuildShape ==
  /\ pack = [at |-> pack.at, req |-> pack.req, window |-> pack.window, asked |-> pack.asked,
             down |-> pack.down, rows |-> pack.rows, note |-> pack.note]
  /\ pack.rows = [r \in Rows |-> pack.rows[r]]
BuildHeld ==
  pack.at # 0 =>
    /\ BuildShape /\ WindowHeld
    /\ pack.asked \in Nat /\ pack.asked <= Len(events)
    /\ \A kind \in EventKinds : RowHeld(kind)
    /\ pack.at <= 7 => pack.rows["verify"].status = "unavailable"
    /\ \A u \in Upstreams : u \notin pack.down => waits[u] = 0
PackInv ==
  /\ events \in Seq(Written) /\ packArchived \in Nat
  /\ pack.at \in 0..10
  /\ waits \in [Upstreams -> {0, 1}]
  /\ BuildHeld

LEMMA PlanRows ==
  /\ DOMAIN Plan = 1..9 /\ Len(Plan) = 9
  /\ Rows = {"allow", "block", "shadow", "tokens", "revoked", "due", "verify", "health", "gate"}
  /\ \A k \in 1..9 : /\ Plan[k] \in Rows
                     /\ Plan[k] = "verify" <=> k = 7
                     /\ Plan[k] = "health" <=> k = 8
                     /\ Plan[k] \in EventKinds => k <= 6
<1>1. DOMAIN Plan = 1..9 /\ Len(Plan) = 9 BY DEF Plan
<1>2. \A k \in 1..9 : k \in {1, 2, 3, 4, 5, 6, 7, 8, 9} OBVIOUS
<1>3. Rows = {"allow", "block", "shadow", "tokens", "revoked", "due", "verify", "health", "gate"}
  BY <1>1, <1>2 DEF Plan, Rows
<1> QED BY <1>1, <1>2, <1>3 DEF Plan, EventKinds, PackVerdicts

LEMMA PackInitHeld == PackInit => PackInv
BY DEF PackInit, PackIdle, PackInv, BuildHeld

\* The estate goes on: what the build has counted stays where it was.
LEMMA EstateGoesOn ==
  ASSUME PackInv, UNCHANGED <<pack, waits>>, events' \in Seq(Written), packArchived' \in Nat,
         Len(events) <= Len(events'), packArchived <= packArchived',
         \A i \in 1..Len(events) : events'[i] = events[i]
  PROVE  PackInv'
<1> USE DEF PackInv
<1>1. CASE pack.at = 0 BY <1>1 DEF BuildHeld
<1>2. CASE pack.at # 0
  <2>1. BuildShape' BY <1>2 DEF BuildHeld, BuildShape, Rows
  <2>2. WindowHeld' BY <1>2 DEF BuildHeld, WindowHeld
  <2>3. pack.asked \in Nat /\ pack.asked <= Len(events) /\ Len(events) \in Nat /\ Len(events') \in Nat
    BY <1>2 DEF BuildHeld
  <2>4. ASSUME NEW kind \in EventKinds PROVE RowHeld(kind)'
    <3>1. CASE pack.rows[kind].status = "unavailable" BY <3>1 DEF RowHeld
    <3>2. CASE pack.rows[kind].status # "unavailable"
      <4>1. PICK S \in SUBSET Evidence(kind, Len(events)) : Shows(kind, S) BY <3>2, <1>2 DEF BuildHeld, RowHeld
      <4>2. S \subseteq 1..Len(events) BY <4>1 DEF Evidence
      <4>3. {events'[i].agent : i \in S} = {events[i].agent : i \in S} BY <4>2
      <4>4. S \in SUBSET Evidence(kind, Len(events))' BY <4>1, <4>2, <2>3 DEF Evidence, Within
      <4>5. Evidence(kind, pack.asked)' = Evidence(kind, pack.asked) BY <2>3 DEF Evidence, Within
      <4>6. \A i \in Evidence(kind, pack.asked) : i \in Nat BY <2>3 DEF Evidence
      <4>7. Shows(kind, S)'
        <5>1. (pack.rows[kind] = Figure([count |-> Cardinality(S), distinct |-> Cardinality({events[i].agent : i \in S})]))'
          BY <4>1, <4>3 DEF Shows, Figure
        <5>2. (\A i \in Evidence(kind, pack.asked) : i \in S \/ i <= packArchived)'
          BY <4>1, <4>5, <4>6 DEF Shows
        <5>3. (pack.at > 8 /\ pack.note = "none" /\ Ok("verify") => Evidence(kind, pack.asked) \subseteq S)'
          BY <4>1, <4>5 DEF Shows, Ok
        <5> QED BY <5>1, <5>2, <5>3 DEF Shows
      <4> QED BY <4>4, <4>7 DEF RowHeld
    <3> QED BY <3>1, <3>2
  <2> QED BY <1>2, <2>1, <2>2, <2>3, <2>4 DEF BuildHeld
<1> QED BY <1>1, <1>2

LEMMA BuildBegins == ASSUME PackInv, NEW req \in PackRequests, Build(req) PROVE PackInv'
<1> USE DEF PackInv
<1>1. /\ req \in [period : BOOLEAN, since : Nat, until : Nat] /\ Quarter \in [since : Nat, until : Nat]
      /\ Len(events) \in Nat /\ pack.at = 0
  BY PackAssumption DEF Build
<1>2. PICK w : w = PackResolved(req, Len(events)) OBVIOUS
<1>3. PICK rs : rs = [r \in Rows |-> PackUnavailable] OBVIOUS
<1>4. pack' = [at |-> 1, req |-> req, window |-> w, asked |-> Len(events), down |-> {}, rows |-> rs, note |-> "none"]
  BY <1>2, <1>3 DEF Build
<1>5. /\ pack'.at = 1 /\ pack'.req = req /\ pack'.window = w /\ pack'.asked = Len(events) /\ pack'.rows = rs
      /\ events' = events /\ packArchived' = packArchived /\ waits' = [u \in Upstreams |-> 0]
  BY <1>4 DEF Build
<1>6. w \in [since : Nat, until : Nat] BY <1>1, <1>2 DEF PackResolved, Open
<1>7. req.since # Open /\ req.until = Open => w.until = Len(events) /\ Len(events) # Open
  BY <1>1, <1>2 DEF PackResolved, Build, Invalid, Open
<1>8. WindowHeld' BY <1>5, <1>6, <1>7 DEF WindowHeld
<1>9. BuildShape' BY <1>3, <1>4, <1>5 DEF BuildShape, Rows
<1>10. \A kind \in EventKinds : rs[kind].status = "unavailable"
  BY <1>3, PlanRows DEF EventKinds, PackVerdicts, PackUnavailable
<1>11. rs["verify"].status = "unavailable" BY <1>3, PlanRows DEF PackUnavailable
<1>12. \A kind \in EventKinds : RowHeld(kind)' BY <1>5, <1>10 DEF RowHeld
<1> QED BY <1>1, <1>5, <1>8, <1>9, <1>11, <1>12 DEF BuildHeld

\* What a question leaves as it was.
LEMMA AskedShape ==
  ASSUME PackInv, Asking, NEW at2 \in 1..10, NEW down2, NEW rows2, NEW note2, rows2 = [r \in Rows |-> rows2[r]],
         pack' = [at |-> at2, req |-> pack.req, window |-> pack.window, asked |-> pack.asked,
                  down |-> down2, rows |-> rows2, note |-> note2]
  PROVE  /\ events' = events /\ packArchived' = packArchived
         /\ pack'.at = at2 /\ pack'.down = down2 /\ pack'.rows = rows2 /\ pack'.note = note2
         /\ pack'.asked = pack.asked /\ pack'.window = pack.window
         /\ BuildShape' /\ WindowHeld'
BY PlanRows DEF Asking, BuildShape, Rows, PackInv, BuildHeld, WindowHeld

\* A row that a question does not fill goes on holding, unless it is /health that answered.
LEMMA RowStays ==
  ASSUME PackInv, pack.at \in 1..9, NEW kind \in EventKinds, events' = events, packArchived' = packArchived,
         pack'.asked = pack.asked, pack'.window = pack.window, pack'.rows[kind] = pack.rows[kind],
         pack'.at > 8 /\ pack'.note = "none" /\ Ok("verify")' =>
           \/ pack.at > 8 /\ pack.note = "none" /\ Ok("verify")
           \/ \A i \in Evidence(kind, pack.asked) : i > packArchived
  PROVE  RowHeld(kind)'
<1>1. CASE pack.rows[kind].status = "unavailable" BY <1>1 DEF RowHeld
<1>2. CASE pack.rows[kind].status # "unavailable"
  <2>1. PICK S \in SUBSET Evidence(kind, Len(events)) : Shows(kind, S) BY <1>2 DEF PackInv, BuildHeld, RowHeld
  <2>2. /\ pack.asked \in Nat /\ packArchived \in Nat BY DEF PackInv, BuildHeld
  <2>3. Evidence(kind, pack.asked)' = Evidence(kind, pack.asked) BY DEF Evidence, Within
  <2>4. S \in SUBSET Evidence(kind, Len(events))' BY <2>1 DEF Evidence, Within
  <2>5. \A i \in Evidence(kind, pack.asked) : i \in Nat BY <2>2 DEF Evidence
  <2>6. Shows(kind, S)'
    BY <2>1, <2>3, <2>2, <2>5 DEF Shows, Figure
  <2> QED BY <2>4, <2>6 DEF RowHeld
<1> QED BY <1>1, <1>2

\* A question without a figure.
LEMMA FigureMissing ==
  ASSUME PackInv, Asking, NEW down, NoFigure(down), waits' \in [Upstreams -> {0, 1}],
         \A u \in Upstreams : u \notin down => waits'[u] = 0
  PROVE  PackInv'
<1>1. pack.at \in 1..9 BY PlanRows DEF Asking
<1>2. BuildShape BY <1>1 DEF PackInv, BuildHeld
<1>3. PICK n : n = IF Now = "health" THEN "unreadable" ELSE pack.note OBVIOUS
<1>4. PICK a : a = Next1(Now, FALSE) OBVIOUS
<1>5. /\ pack.at # 7 => a = pack.at + 1
      /\ pack.at = 7 => a = 9
      /\ pack.at = 8 => n = "unreadable"
      /\ pack.at # 8 => n = pack.note
  BY <1>1, <1>3, <1>4, PlanRows DEF Now, Next1
<1>6. a \in 1..10 BY <1>1, <1>5
<1>7. pack' = [pack EXCEPT !.at = a, !.down = down, !.note = n] BY <1>3, <1>4 DEF NoFigure
<1>8. pack' = [at |-> a, req |-> pack.req, window |-> pack.window, asked |-> pack.asked,
               down |-> down, rows |-> pack.rows, note |-> n]
  BY <1>2, <1>7 DEF BuildShape
<1>9. /\ events' = events /\ packArchived' = packArchived
      /\ pack'.at = a /\ pack'.down = down /\ pack'.rows = pack.rows /\ pack'.note = n
      /\ pack'.asked = pack.asked /\ pack'.window = pack.window
      /\ BuildShape' /\ WindowHeld'
  <2>1. pack.rows = [r \in Rows |-> pack.rows[r]] BY <1>2 DEF BuildShape
  <2> QED BY ONLY <1>6, <1>8, <2>1, AskedShape, PackInv, Asking
<1>10. pack.at <= 7 => pack.rows["verify"].status = "unavailable" BY <1>1 DEF PackInv, BuildHeld
<1>11. pack'.at > 8 /\ pack'.note = "none" /\ Ok("verify")' => pack.at > 8 /\ pack.note = "none" /\ Ok("verify")
  BY <1>1, <1>5, <1>9, <1>10 DEF Ok
<1>12. ASSUME NEW kind \in EventKinds PROVE RowHeld(kind)' BY <1>1, <1>9, <1>11, RowStays
<1>13. pack'.at <= 7 => pack'.rows["verify"].status = "unavailable" BY <1>1, <1>5, <1>9, <1>10
<1>14. pack.asked \in Nat /\ pack.asked <= Len(events) BY <1>1 DEF PackInv, BuildHeld
<1> QED BY <1>6, <1>9, <1>12, <1>13, <1>14 DEF PackInv, BuildHeld

LEMMA NothingCame ==
  ASSUME PackInv, \/ Unusable
                  \/ PackNoAnswer
                  \/ PackSkipped
  PROVE  PackInv'
<1>1. Asking /\ waits \in [Upstreams -> {0, 1}] BY DEF PackInv, Unusable, PackNoAnswer, PackSkipped
<1>2. pack.at \in 1..9 BY <1>1, PlanRows DEF Asking
<1>3. \A u \in Upstreams : u \notin pack.down => waits[u] = 0 BY <1>2 DEF PackInv, BuildHeld
<1>4. CASE Unusable
  BY <1>4, <1>1, <1>3, FigureMissing DEF Unusable
<1>5. CASE PackSkipped
  BY <1>5, <1>1, <1>3, FigureMissing DEF PackSkipped
<1>6. CASE PackNoAnswer
  BY <1>6, <1>1, <1>3, FigureMissing DEF PackNoAnswer, UpstreamOf, Upstreams, Down
<1> QED BY <1>4, <1>5, <1>6

\* An event of the window that a note of nothing missed is still live.
LEMMA LiveEnough ==
  ASSUME PackInv, pack.at # 0, NEW kind, EarliestLive(pack.window, packArchived) = "none"
  PROVE  \A i \in Evidence(kind, pack.asked) : i > packArchived
BY DEF PackInv, BuildHeld, WindowHeld, EarliestLive, Evidence, Within, Open

\* The figure that answers a kind counts the live events of the window.
LEMMA KindCounted ==
  ASSUME PackInv, pack.at \in 1..6, NEW kind \in EventKinds, events' = events, packArchived' = packArchived,
         pack'.asked = pack.asked, pack'.window = pack.window, pack'.at \in 1..7,
         pack'.rows[kind] = Figure(PackAnswer(kind))
  PROVE  RowHeld(kind)'
<1>1. PICK S : S = Counted(Matching(kind, pack.window)) OBVIOUS
<1>2. /\ pack.asked \in Nat /\ packArchived \in Nat /\ Len(events) \in Nat /\ pack.asked <= Len(events)
  BY DEF PackInv, BuildHeld
<1>3. PackAnswer(kind) = [count |-> Cardinality(S), distinct |-> Cardinality({events[i].agent : i \in S})]
  BY <1>1 DEF PackAnswer, EventKinds, PackVerdicts
<1>4. S \in SUBSET Evidence(kind, Len(events))' BY <1>1, <1>2 DEF Evidence, Within, Counted, Matching
<1>5. \A i \in Evidence(kind, pack.asked) : i \in S \/ i <= packArchived
  BY <1>1, <1>2 DEF Evidence, Within, Counted, Matching
<1>6. Evidence(kind, pack.asked)' = Evidence(kind, pack.asked) BY DEF Evidence, Within
<1>7. Shows(kind, S)'
  BY <1>3, <1>5, <1>6 DEF Figure, Shows
<1> QED BY <1>4, <1>7 DEF RowHeld

LEMMA FigureCame == ASSUME PackInv, PackAnswered PROVE PackInv'
<1>1. Asking /\ pack.at \in 1..9 /\ waits' = waits BY PlanRows DEF Asking, PackAnswered
<1>2. BuildShape BY <1>1 DEF PackInv, BuildHeld
<1>3. PICK v : v = PackAnswer(Now) OBVIOUS
<1>4. PICK n : n = PackNoted(Now, v) OBVIOUS
<1>5. PICK rs : rs = [pack.rows EXCEPT ![Now] = Figure(v)] OBVIOUS
<1>6. rs = [r \in Rows |-> rs[r]] BY <1>2, <1>5 DEF BuildShape
<1>7. pack' = [pack EXCEPT !.at = pack.at + 1, !.rows = rs, !.note = n] BY <1>3, <1>4, <1>5 DEF PackAnswered
<1>8. PICK a : a = pack.at + 1 OBVIOUS
<1>9. a \in 1..10 BY <1>1, <1>8
<1>10. pack' = [at |-> a, req |-> pack.req, window |-> pack.window, asked |-> pack.asked,
                down |-> pack.down, rows |-> rs, note |-> n]
  BY <1>2, <1>7, <1>8 DEF BuildShape
<1>11. PICK d : d = pack.down OBVIOUS
<1>12. /\ events' = events /\ packArchived' = packArchived
       /\ pack'.at = a /\ pack'.down = d /\ pack'.rows = rs /\ pack'.note = n
       /\ pack'.asked = pack.asked /\ pack'.window = pack.window
       /\ BuildShape' /\ WindowHeld'
  BY ONLY <1>1, <1>6, <1>9, <1>10, <1>11, AskedShape, PackInv
<1>13. Now \in Rows /\ (\A r \in Rows : r # Now => rs[r] = pack.rows[r]) /\ rs[Now] = Figure(v)
  BY <1>1, <1>2, <1>5, PlanRows DEF BuildShape, Now
<1>14. /\ Now = "health" => pack.at = 8
       /\ Now = "verify" => pack.at = 7
       /\ pack.at = 8 => Now = "health"
       /\ Now \in EventKinds => pack.at <= 6
  BY <1>1, PlanRows DEF Now
<1>15. pack.at = 8 => n = EarliestLive(pack.window, packArchived)
  BY <1>3, <1>4, <1>14 DEF PackNoted, PackAnswer, EventKinds, PackVerdicts
<1>16. pack.at # 8 => n = pack.note BY <1>4, <1>14 DEF PackNoted
<1>17. pack'.at > 8 /\ pack'.note = "none" /\ Ok("verify")' =>
           (pack.at > 8 /\ pack.note = "none" /\ Ok("verify"))
             \/ (pack.at = 8 /\ EarliestLive(pack.window, packArchived) = "none")
  BY <1>1, <1>8, <1>12, <1>13, <1>14, <1>15, <1>16, PlanRows DEF Ok
<1>18. ASSUME NEW kind \in EventKinds PROVE RowHeld(kind)'
  <2>1. kind \in Rows BY PlanRows DEF EventKinds, PackVerdicts
  <2>2. CASE kind = Now
    <3>1. pack.at \in 1..6 /\ pack'.at \in 1..7 BY <1>1, <1>8, <1>12, <1>14, <2>2
    <3>2. pack'.rows[kind] = Figure(PackAnswer(kind)) BY <1>3, <1>12, <1>13, <2>2
    <3> QED BY <1>12, <3>1, <3>2, KindCounted
  <2>3. CASE kind # Now
    <3>1. pack'.rows[kind] = pack.rows[kind] BY <1>12, <1>13, <2>1, <2>3
    <3>2. pack'.at > 8 /\ pack'.note = "none" /\ Ok("verify")' =>
           \/ pack.at > 8 /\ pack.note = "none" /\ Ok("verify")
           \/ \A i \in Evidence(kind, pack.asked) : i > packArchived
      BY <1>1, <1>17, LiveEnough
    <3> QED BY <1>1, <1>12, <3>1, <3>2, RowStays
  <2> QED BY <2>2, <2>3
<1>19. pack'.at <= 7 => pack'.rows["verify"].status = "unavailable"
  BY <1>14, <1>1, <1>8, <1>12, <1>13, PlanRows DEF PackInv, BuildHeld
<1>20. \A u \in Upstreams : u \notin pack'.down => waits'[u] = 0 BY <1>1, <1>11, <1>12 DEF PackInv, BuildHeld
<1>21. pack'.asked \in Nat /\ pack'.asked <= Len(events') BY <1>1, <1>12 DEF PackInv, BuildHeld
<1> QED BY <1>1, <1>9, <1>12, <1>18, <1>19, <1>20, <1>21 DEF PackInv, BuildHeld

LEMMA PackKeeps == PackInv /\ [PackNext]_packVars => PackInv'
<1> SUFFICES ASSUME PackInv, [PackNext]_packVars PROVE PackInv' OBVIOUS
<1>1. events \in Seq(Written) /\ Len(events) \in Nat /\ packArchived \in Nat BY DEF PackInv
<1>2. CASE UNCHANGED packVars BY <1>1, <1>2, EstateGoesOn DEF packVars
<1>3. ASSUME NEW e \in Written, PackAppend1(e) PROVE PackInv'
  BY <1>3, <1>1, EstateGoesOn DEF PackAppend1
<1>4. CASE PackArchive
  BY <1>4, <1>1, EstateGoesOn DEF PackArchive
<1>5. CASE PackRead
  BY <1>5 DEF PackRead, PackIdle, PackInv, BuildHeld
<1> QED BY <1>2, <1>3, <1>4, <1>5, BuildBegins, FigureCame, NothingCame DEF PackNext

-----------------------------------------------------------------------------
(* What the figures are worth. *)

LEMMA RowCounts ==
  ASSUME PackInv, pack.at # 0, NEW kind \in EventKinds, Ok(kind), Whole
  PROVE  \E S : /\ IsFiniteSet(S) /\ IsFiniteSet(Evidence(kind, Len(events)))
                /\ Evidence(kind, pack.asked) \subseteq S /\ S \subseteq Evidence(kind, Len(events))
                /\ ValueOf(kind) = Cardinality(S)
                /\ pack.rows[kind].value.distinct = Cardinality({events[i].agent : i \in S})
<1>1. PICK S \in SUBSET Evidence(kind, Len(events)) : Shows(kind, S) BY DEF PackInv, BuildHeld, RowHeld, Ok
<1>2. pack.at > 8 BY PlanRows DEF Whole, PackInv
<1>3. Len(events) \in Nat BY DEF PackInv
<1>4. IsFiniteSet(1..Len(events)) BY <1>3, FS_Interval
<1>5. Evidence(kind, Len(events)) \subseteq 1..Len(events) BY DEF Evidence
<1>6. IsFiniteSet(Evidence(kind, Len(events))) BY <1>4, <1>5, FS_Subset
<1>7. IsFiniteSet(S) BY <1>6, <1>1, FS_Subset
<1>8. Evidence(kind, pack.asked) \subseteq S BY <1>1, <1>2 DEF Shows, Whole
<1>9. /\ ValueOf(kind) = Cardinality(S)
      /\ pack.rows[kind].value.distinct = Cardinality({events[i].agent : i \in S})
  BY <1>1 DEF Shows, ValueOf, Figure
<1> QED BY <1>1, <1>6, <1>7, <1>8, <1>9

LEMMA PackCounts == PackInv => HonestCounts
<1> SUFFICES ASSUME PackInv, Whole, NEW kind \in EventKinds, Ok(kind)
             PROVE  LET n == ValueOf(kind)
                    IN  /\ Cardinality(Evidence(kind, pack.asked)) <= n /\ n <= Cardinality(Evidence(kind, Len(events)))
                        /\ pack.req.since # Open /\ pack.req.until = Open => n = Cardinality(Evidence(kind, Len(events)))
                        /\ pack.rows[kind].value.distinct <= n
  BY DEF HonestCounts
<1>1. pack.at # 0 BY PlanRows DEF Whole, PackInv
<1>2. PICK S : /\ IsFiniteSet(S) /\ IsFiniteSet(Evidence(kind, Len(events)))
               /\ Evidence(kind, pack.asked) \subseteq S /\ S \subseteq Evidence(kind, Len(events))
               /\ ValueOf(kind) = Cardinality(S)
               /\ pack.rows[kind].value.distinct = Cardinality({events[i].agent : i \in S})
  BY <1>1, RowCounts
<1>3. Cardinality(Evidence(kind, pack.asked)) <= Cardinality(S) BY <1>2, FS_Subset
<1>4. Cardinality(S) <= Cardinality(Evidence(kind, Len(events))) BY <1>2, FS_Subset
<1>5. ASSUME pack.req.since # Open, pack.req.until = Open PROVE Cardinality(S) = Cardinality(Evidence(kind, Len(events)))
  <2>1. /\ pack.window.until = pack.asked /\ pack.asked # Open /\ pack.asked \in Nat /\ pack.asked <= Len(events)
        /\ Len(events) \in Nat
    BY <1>1, <1>5 DEF PackInv, BuildHeld, WindowHeld
  <2>2. Evidence(kind, Len(events)) \subseteq Evidence(kind, pack.asked) BY <2>1 DEF Evidence, Within
  <2>3. S = Evidence(kind, Len(events)) BY <1>2, <2>2
  <2> QED BY <2>3
<1>6. Cardinality({events[i].agent : i \in S}) <= Cardinality(S)
  <2>1. PICK f : f = [i \in S |-> events[i].agent] OBVIOUS
  <2>2. PICK T : T = {events[i].agent : i \in S} OBVIOUS
  <2>3. f \in Surjection(S, T) BY <2>1, <2>2 DEF Surjection
  <2>4. Cardinality(T) <= Cardinality(S) BY <1>2, <2>3, FS_Surjection
  <2> QED BY <2>2, <2>4
<1> QED BY <1>2, <1>3, <1>4, <1>5, <1>6

LEMMA PackRates == PackInv => RateHonest
<1> SUFFICES ASSUME PackInv, Whole, Rate.status = "ok"
             PROVE  /\ Rate.value.allows <= Rate.value.total
                    /\ Rate.value.allows = Rate.value.total =>
                         Evidence("block", pack.asked) \cup Evidence("shadow", pack.asked) = {}
  BY DEF RateHonest
<1>1. pack.at # 0 BY PlanRows DEF Whole, PackInv
<1>2. PackVerdicts = {"allow", "block", "shadow"} /\ PackVerdicts \subseteq EventKinds BY DEF PackVerdicts, EventKinds
<1>3. \A v \in PackVerdicts : Ok(v) BY DEF Rate, PackUnavailable
<1>4. PICK t : t = Total(PackVerdicts) OBVIOUS
<1>5. Rate.value.allows = ValueOf("allow") /\ Rate.value.total = t BY <1>3, <1>4 DEF Rate, Figure
<1>6. t = ValueOf("allow") + ValueOf("block") + ValueOf("shadow") BY <1>2, <1>4 DEF Total
<1>7. \A v \in PackVerdicts : ValueOf(v) \in Nat /\ (ValueOf(v) = 0 => Evidence(v, pack.asked) = {})
  <2> SUFFICES ASSUME NEW v \in PackVerdicts PROVE ValueOf(v) \in Nat /\ (ValueOf(v) = 0 => Evidence(v, pack.asked) = {})
    OBVIOUS
  <2>1. PICK S : /\ IsFiniteSet(S) /\ Evidence(v, pack.asked) \subseteq S
                 /\ ValueOf(v) = Cardinality(S)
    BY <1>1, <1>2, <1>3, RowCounts
  <2>2. Cardinality(S) \in Nat BY <2>1, FS_CardinalityType
  <2>3. Cardinality(S) = 0 => S = {} BY <2>1, FS_EmptySet
  <2> QED BY <2>1, <2>2, <2>3
<1> QED BY <1>2, <1>5, <1>6, <1>7

LEMMA PackWaitsOnce == PackInv => OneTimeout
BY DEF PackInv, OneTimeout

LEMMA PackTruth == PackInv => PackSound
BY PackCounts, PackRates, PackWaitsOnce DEF PackSound

\* A board pack that says INTACT and notes nothing has counted what was there when it
\* began, its rate hides no violation, and a dead upstream costs it one timeout
\* (engine.py _build, build).
THEOREM PacksAlwaysSound == PackSpec => []PackSound
<1> QED BY PackTruth, PackInitHeld, PackKeeps, PTL DEF PackSpec

-----------------------------------------------------------------------------
(* BoardPack, its files: a signature is of an issued pack, and a pair is one pack. *)

PackBytes ==
  [pack : Nat, signed : BOOLEAN, signer : Signers \cup {""}, via : {"none", "cli", "estate-key"},
   key : Keys \cup {FileNoKey}, added : BOOLEAN]
Signatures == {{}} \cup {{[bytes |-> b, key |-> k]} : b \in PackBytes, k \in Keys}
Docs ==
  [pack : Nat, signed : BOOLEAN, signer : Signers \cup {""}, via : {"none", "cli", "estate-key"},
   key : Keys \cup {FileNoKey}, added : BOOLEAN, sig : Signatures]
RunRecord ==
  [pc : {"tmp_json", "tmp_html", "replace_json", "replace_html", "clean"}, pack : Docs, prev : Docs \cup {FileNone}]
Issues == [pack : Docs, key : Keys]
FileTypes ==
  /\ packs \in Nat
  /\ served \in {[status |-> "off"], [status |-> "error"]} \cup [status : {"on"}, signer : Signers, key : Keys]
  /\ file \in [Sides -> Docs \cup {FileNone}] /\ fileTmp \in [Sides -> Docs \cup {FileNone}]
  /\ fileRun \in [Renders -> {Done} \cup RunRecord]
  /\ issued \in SUBSET Issues

\* A document bears no signature, or that of a pack that was issued so.
Genuine(p) ==
  \/ p = FileNone \/ p.sig = {}
  \/ \E i \in issued : p.sig = {[bytes |-> SignedBytes(i.pack), key |-> i.key]} /\ i.pack.sig = p.sig
AllGenuine ==
  /\ \A s \in Sides : Genuine(file[s]) /\ Genuine(fileTmp[s])
  /\ \A r \in Renders : fileRun[r] # Done => Genuine(fileRun[r].pack) /\ Genuine(fileRun[r].prev)

\* A render alone knows what lies there: the pair that was, until its first rename.
Pair == file["json"] = file["html"]
RunKnows(q) ==
  /\ q.pc \in {"done", "tmp_json", "tmp_html", "replace_json", "clean"} => Pair
  /\ q.pc \in {"tmp_html", "replace_json"} => fileTmp["json"] = q.pack
  /\ q.pc \in {"replace_json", "replace_html"} => fileTmp["html"] = q.pack
  /\ q.pc = "replace_html" => file["json"] = q.pack /\ q.prev = file["html"]
PairInv ==
  ~torn =>
    /\ \A r, s \in Renders : fileRun[r] # Done /\ fileRun[s] # Done => r = s
    /\ (\A r \in Renders : fileRun[r] = Done) => Pair
    /\ \A r \in Renders : fileRun[r] # Done => RunKnows(fileRun[r])
FileInv == FileTypes /\ AllGenuine /\ PairInv

LEMMA NoDoc == FileNone \notin Docs /\ Done \notin RunRecord /\ Done.pc = "done"
BY DEF FileNone, Docs, Done, RunRecord

LEMMA DocParts ==
  ASSUME NEW p \in Docs
  PROVE  p = [pack |-> p.pack, signed |-> p.signed, signer |-> p.signer, via |-> p.via, key |-> p.key,
              added |-> p.added, sig |-> p.sig]
BY DEF Docs

LEMMA FileInitHeld == FileInit => FileInv
<1> SUFFICES ASSUME FileInit PROVE FileInv OBVIOUS
<1> USE DEF FileInit
<1>1. \A s \in Signers, k \in EstateKeys :
        ServedSigning(s, k) \in {[status |-> "off"], [status |-> "error"]} \cup [status : {"on"}, signer : Signers, key : Keys]
  BY DEF ServedSigning
<1>2. FileTypes BY <1>1 DEF FileTypes
<1>3. AllGenuine BY DEF AllGenuine, Genuine
<1>4. PairInv BY DEF PairInv, Pair, Sides
<1> QED BY <1>2, <1>3, <1>4 DEF FileInv

\* What a key signs is genuine.
LEMMA SignedGenuine ==
  ASSUME NEW n \in Nat, NEW signer \in Signers, NEW k \in Keys, NEW via \in {"cli", "estate-key"},
         NEW p, p = SignPack(Draft(n), signer, k, via)
  PROVE  /\ p \in Docs /\ p.signed /\ p.key = k
         /\ p.sig = {[bytes |-> SignedBytes(p), key |-> k]}
<1>1. PICK view : view = [Draft(n) EXCEPT !.signed = TRUE, !.signer = signer, !.via = via, !.key = k] OBVIOUS
<1>2. view = [pack |-> n, signed |-> TRUE, signer |-> signer, via |-> via, key |-> k, added |-> FALSE, sig |-> {}]
  BY <1>1 DEF Draft
<1>3. p = [view EXCEPT !.sig = {[bytes |-> SignedBytes(view), key |-> k]}] BY <1>1 DEF SignPack
<1>4. PICK b : b = SignedBytes(view) OBVIOUS
<1>5. b \in PackBytes BY <1>2, <1>4 DEF SignedBytes, PackBytes
<1>6. {[bytes |-> b, key |-> k]} \in Signatures BY <1>5 DEF Signatures
<1>7. p = [pack |-> n, signed |-> TRUE, signer |-> signer, via |-> via, key |-> k, added |-> FALSE,
           sig |-> {[bytes |-> b, key |-> k]}]
  BY <1>2, <1>3, <1>4
<1>8. SignedBytes(p) = b BY <1>2, <1>4, <1>7 DEF SignedBytes
<1>9. PICK g : g = {[bytes |-> b, key |-> k]} OBVIOUS
<1>10. p = [pack |-> n, signed |-> TRUE, signer |-> signer, via |-> via, key |-> k, added |-> FALSE, sig |-> g]
  BY <1>7, <1>9
<1>11. p \in Docs
  <2>1. g \in Signatures BY <1>6, <1>9
  <2>2. signer \in Signers \cup {""} /\ via \in {"none", "cli", "estate-key"} /\ k \in Keys \cup {FileNoKey} OBVIOUS
  <2>3. TRUE \in BOOLEAN /\ FALSE \in BOOLEAN OBVIOUS
  <2>4. [pack |-> n, signed |-> TRUE, signer |-> signer, via |-> via, key |-> k, added |-> FALSE, sig |-> g] \in Docs
    BY <2>1, <2>2, <2>3 DEF Docs
  <2> QED BY <2>4, <1>10
<1>12. p.sig = g /\ p.signed /\ p.key = k BY <1>10
<1> QED BY <1>8, <1>9, <1>11, <1>12

LEMMA DraftDoc ==
  ASSUME NEW n \in Nat PROVE Draft(n) \in Docs /\ ~Draft(n).signed /\ Draft(n).sig = {}
BY DEF Draft, Docs, Signatures

LEMMA FileTruth == FileInv => PackFileSound
<1> SUFFICES ASSUME FileInv PROVE PackFileSound OBVIOUS
<1>1. ASSUME NEW k \in Keys, Verifies(file["json"], k) PROVE [pack |-> file["json"], key |-> k] \in issued
  <2>1. PICK p : p = file["json"] OBVIOUS
  <2>2. p \in Docs /\ p.sig = {[bytes |-> SignedBytes(p), key |-> k]} /\ Genuine(p) /\ p # FileNone
    BY <2>1, <1>1 DEF FileInv, FileTypes, AllGenuine, Verifies, Sides
  <2>3. p.sig # {} BY <2>2
  <2>4. PICK i \in issued : p.sig = {[bytes |-> SignedBytes(i.pack), key |-> i.key]} /\ i.pack.sig = p.sig
    BY <2>2, <2>3 DEF Genuine
  <2>5. [bytes |-> SignedBytes(p), key |-> k] = [bytes |-> SignedBytes(i.pack), key |-> i.key]
    BY <2>2, <2>4
  <2>6. SignedBytes(p) = SignedBytes(i.pack) /\ k = i.key BY <2>5
  <2>7. i \in Issues BY DEF FileInv, FileTypes
  <2>8. PICK q : q = i.pack OBVIOUS
  <2>9. q \in Docs /\ i = [pack |-> q, key |-> k] BY <2>6, <2>7, <2>8 DEF Issues
  <2>10. p.pack = q.pack /\ p.signed = q.signed /\ p.signer = q.signer /\ p.via = q.via /\ p.key = q.key /\ p.added = q.added
    BY <2>6, <2>8 DEF SignedBytes
  <2>11. p.sig = q.sig BY <2>4, <2>8
  <2>12. p = q
    BY <2>2, DocParts, <2>9, <2>10, <2>11
  <2> QED BY <2>1, <2>9, <2>12
<1>2. VerifiedIsIssued BY <1>1 DEF VerifiedIsIssued
<1>3. PairBelongs BY DEF FileInv, PairInv, Pair, PairBelongs
<1> QED BY <1>2, <1>3 DEF PackFileSound

LEMMA GenuineStays ==
  ASSUME issued \subseteq issued' PROVE \A p : Genuine(p) => Genuine(p)'
BY DEF Genuine

LEMMA RunFacts ==
  ASSUME FileInv, NEW r \in Renders, fileRun[r] # Done
  PROVE  /\ fileRun[r] \in RunRecord /\ fileRun[r].pack \in Docs /\ fileRun[r].prev \in Docs \cup {FileNone}
         /\ Genuine(fileRun[r].pack) /\ Genuine(fileRun[r].prev)
BY DEF FileInv, FileTypes, AllGenuine, RunRecord

\* A render that goes on and puts only documents it has, or that lie there, in their places.
LEMMA RenderGoes ==
  ASSUME FileInv, NEW r \in Renders, fileRun[r] # Done, NEW q \in {Done} \cup RunRecord,
         fileRun' = [fileRun EXCEPT ![r] = q], UNCHANGED <<packs, served, issued>>,
         q # Done => Genuine(q.pack) /\ Genuine(q.prev),
         \A s \in Sides : /\ file'[s] \in Docs \cup {FileNone} /\ Genuine(file'[s])
                          /\ fileTmp'[s] \in Docs \cup {FileNone} /\ Genuine(fileTmp'[s]),
         file' = [s \in Sides |-> file'[s]], fileTmp' = [s \in Sides |-> fileTmp'[s]],
         \/ torn'
         \/ /\ ~torn' /\ ~torn
            /\ q = Done => Pair'
            /\ q # Done => RunKnows(q)'
  PROVE  FileInv'
<1>1. fileRun \in [Renders -> {Done} \cup RunRecord] /\ packs \in Nat /\ issued \in SUBSET Issues BY DEF FileInv, FileTypes
<1>2. file' \in [Sides -> Docs \cup {FileNone}] /\ fileTmp' \in [Sides -> Docs \cup {FileNone}]
  OBVIOUS
<1>3. FileTypes' BY <1>1, <1>2 DEF FileInv, FileTypes
<1>4. \A p : Genuine(p) => Genuine(p)' BY GenuineStays
<1>5. ASSUME NEW s \in Renders, fileRun'[s] # Done PROVE (Genuine(fileRun[s].pack) /\ Genuine(fileRun[s].prev))'
  <2>1. CASE s = r
    BY <1>1, <2>1, <1>5, <1>4
  <2>2. CASE s # r
    BY <1>1, <2>2, <1>5, RunFacts, <1>4
  <2> QED BY <2>1, <2>2
<1>6. AllGenuine' BY <1>4, <1>5 DEF AllGenuine
<1>7. PairInv'
  <2>1. CASE torn' BY <2>1 DEF PairInv
  <2>2. CASE ~torn'
    BY <2>2, <1>1 DEF FileInv, PairInv
  <2> QED BY <2>1, <2>2
<1> QED BY <1>3, <1>6, <1>7 DEF FileInv

\* What lies there, and what is put in one of the places.
LEMMA Placed ==
  ASSUME FileInv
  PROVE  /\ \A s \in Sides : /\ file[s] \in Docs \cup {FileNone} /\ Genuine(file[s])
                             /\ fileTmp[s] \in Docs \cup {FileNone} /\ Genuine(fileTmp[s])
         /\ file = [s \in Sides |-> file[s]] /\ fileTmp = [s \in Sides |-> fileTmp[s]]
         /\ \A x : \A t \in Sides : /\ [file EXCEPT ![t] = x] = [s \in Sides |-> IF s = t THEN x ELSE file[s]]
                                    /\ [fileTmp EXCEPT ![t] = x] = [s \in Sides |-> IF s = t THEN x ELSE fileTmp[s]]
BY DEF FileInv, FileTypes, AllGenuine

LEMMA WritesKeep ==
  ASSUME FileInv, NEW r \in Renders,
         WriteTmp(r, "json", "tmp_json", "tmp_html") \/ WriteTmp(r, "html", "tmp_html", "replace_json")
  PROVE  FileInv'
<1>1. fileRun[r] # Done BY NoDoc DEF WriteTmp
<1>2. PICK old : old = fileRun[r] OBVIOUS
<1>3. old \in RunRecord /\ old.pack \in Docs /\ Genuine(old.pack) /\ Genuine(old.prev) BY <1>1, <1>2, RunFacts
<1>4. ~torn => RunKnows(old) BY <1>1, <1>2 DEF FileInv, PairInv
<1>5. \E side \in Sides, next \in {"tmp_html", "replace_json"} :
        /\ side = "json" => old.pc = "tmp_json" /\ next = "tmp_html"
        /\ side = "html" => old.pc = "tmp_html" /\ next = "replace_json"
        /\ fileTmp' = [fileTmp EXCEPT ![side] = old.pack] /\ fileRun' = [fileRun EXCEPT ![r].pc = next]
        /\ UNCHANGED <<file, torn, packs, served, issued>>
  BY <1>2 DEF WriteTmp, FileGoes, RestSame, Sides
<1>6. PICK side \in Sides, next \in {"tmp_html", "replace_json"} :
        /\ side = "json" => old.pc = "tmp_json" /\ next = "tmp_html"
        /\ side = "html" => old.pc = "tmp_html" /\ next = "replace_json"
        /\ fileTmp' = [fileTmp EXCEPT ![side] = old.pack] /\ fileRun' = [fileRun EXCEPT ![r].pc = next]
        /\ UNCHANGED <<file, torn, packs, served, issued>>
  BY <1>5
<1>7. PICK q : q = [old EXCEPT !.pc = next] OBVIOUS
<1>8. q \in RunRecord /\ q.pc = next /\ q.pack = old.pack /\ q.prev = old.prev BY <1>3, <1>7 DEF RunRecord
<1>9. fileRun' = [fileRun EXCEPT ![r] = q] BY <1>2, <1>6, <1>7
<1>10. fileTmp' = [s \in Sides |-> IF s = side THEN old.pack ELSE fileTmp[s]] BY <1>6, Placed
<1>11. \A s \in Sides : fileTmp'[s] \in Docs \cup {FileNone} /\ Genuine(fileTmp'[s]) BY <1>3, <1>10, Placed
<1>12. fileTmp' = [s \in Sides |-> fileTmp'[s]] BY <1>10
<1>13. ASSUME ~torn PROVE RunKnows(q)'
  BY <1>4, <1>6, <1>13, <1>10, <1>8 DEF RunKnows, Sides, Pair
<1>14. q # Done BY <1>8, NoDoc
<1>15. file' = file BY <1>6
<1>16. \A s \in Sides : file'[s] \in Docs \cup {FileNone} /\ Genuine(file'[s]) BY <1>15, Placed
<1>17. file' = [s \in Sides |-> file'[s]] BY <1>15, Placed
<1> QED BY <1>1, <1>3, <1>6, <1>8, <1>9, <1>11, <1>12, <1>13, <1>14, <1>16, <1>17, RenderGoes

LEMMA RenamesKeep ==
  ASSUME FileInv, NEW r \in Renders, ReplaceFirst(r) \/ ReplaceSecond(r)
  PROVE  FileInv'
<1>1. fileRun[r] # Done BY NoDoc DEF ReplaceFirst, ReplaceSecond
<1>2. PICK old : old = fileRun[r] OBVIOUS
<1>3. old \in RunRecord /\ old.pack \in Docs /\ Genuine(old.pack) /\ Genuine(old.prev) BY <1>1, <1>2, RunFacts
<1>4. ~torn => RunKnows(old) BY <1>1, <1>2 DEF FileInv, PairInv
<1>5. UNCHANGED <<torn, packs, served, issued>> BY DEF ReplaceFirst, ReplaceSecond, RestSame
<1>6. CASE ReplaceFirst(r)
  <2>1. PICK was : was = file["json"] OBVIOUS
  <2>2. PICK q : q = [old EXCEPT !.pc = "replace_html", !.prev = was] OBVIOUS
  <2>3. was \in Docs \cup {FileNone} /\ Genuine(was) BY <2>1, Placed DEF Sides
  <2>4. q \in RunRecord /\ q.pc = "replace_html" /\ q.pack = old.pack /\ q.prev = was BY <1>3, <2>2, <2>3 DEF RunRecord
  <2>5. fileRun' = [fileRun EXCEPT ![r] = q] BY <1>6, <1>2, <2>1, <2>2 DEF ReplaceFirst
  <2>6. /\ file' = [s \in Sides |-> IF s = "json" THEN fileTmp["json"] ELSE file[s]]
        /\ fileTmp' = [s \in Sides |-> IF s = "json" THEN FileNone ELSE fileTmp[s]]
    BY <1>6, Placed DEF ReplaceFirst, Sides
  <2>7. \A s \in Sides : /\ file'[s] \in Docs \cup {FileNone} /\ Genuine(file'[s])
                         /\ fileTmp'[s] \in Docs \cup {FileNone} /\ Genuine(fileTmp'[s])
    BY <2>6, Placed DEF Genuine, Sides
  <2>8. file' = [s \in Sides |-> file'[s]] /\ fileTmp' = [s \in Sides |-> fileTmp'[s]] BY <2>6
  <2>9. q # Done BY <2>4, NoDoc
  <2>10. ASSUME ~torn PROVE RunKnows(q)'
    BY <1>2, <1>6, <1>4, <2>10, <2>1, <2>6, <2>4 DEF ReplaceFirst, RunKnows, Pair, Sides
  <2> QED BY <1>1, <1>3, <1>5, <2>3, <2>4, <2>5, <2>7, <2>8, <2>9, <2>10, RenderGoes
<1>7. CASE ReplaceSecond(r)
  <2>1. PICK q : q = [old EXCEPT !.pc = "clean"] OBVIOUS
  <2>2. q \in RunRecord /\ q.pc = "clean" /\ q.pack = old.pack /\ q.prev = old.prev BY <1>3, <2>1 DEF RunRecord
  <2>3. fileRun' = [fileRun EXCEPT ![r] = q] BY <1>7, <1>2, <2>1 DEF ReplaceSecond, FileGoes
  <2>4. /\ file' = [s \in Sides |-> IF s = "html" THEN fileTmp["html"] ELSE file[s]]
        /\ fileTmp' = [s \in Sides |-> IF s = "html" THEN FileNone ELSE fileTmp[s]]
    BY <1>7, Placed DEF ReplaceSecond, Sides
  <2>5. \A s \in Sides : /\ file'[s] \in Docs \cup {FileNone} /\ Genuine(file'[s])
                         /\ fileTmp'[s] \in Docs \cup {FileNone} /\ Genuine(fileTmp'[s])
    BY <2>4, Placed DEF Genuine, Sides
  <2>6. file' = [s \in Sides |-> file'[s]] /\ fileTmp' = [s \in Sides |-> fileTmp'[s]] BY <2>4
  <2>7. q # Done BY <2>2, NoDoc
  <2>8. ASSUME ~torn PROVE RunKnows(q)'
    BY <1>2, <1>7, <1>4, <2>8, <2>4, <2>2 DEF ReplaceSecond, RunKnows, Sides, Pair
  <2> QED BY <1>1, <1>3, <1>5, <2>2, <2>3, <2>5, <2>6, <2>7, <2>8, RenderGoes
<1> QED BY <1>6, <1>7

LEMMA CleansKeep ==
  ASSUME FileInv, NEW r \in Renders, FileClean(r) \/ FileKilled(r)
  PROVE  FileInv'
<1>1. fileRun[r] # Done BY NoDoc DEF FileClean, FileKilled
<1>2. fileRun' = [fileRun EXCEPT ![r] = Done] /\ UNCHANGED <<file, packs, served, issued>>
  BY DEF FileClean, FileKilled, RestSame
<1>3. ~torn => RunKnows(fileRun[r]) BY <1>1 DEF FileInv, PairInv
<1>4. fileTmp' = fileTmp \/ fileTmp' = [s \in Sides |-> FileNone] BY DEF FileClean, FileKilled
<1>5. \A s \in Sides : /\ file'[s] \in Docs \cup {FileNone} /\ Genuine(file'[s])
                       /\ fileTmp'[s] \in Docs \cup {FileNone} /\ Genuine(fileTmp'[s])
  BY <1>2, <1>4, Placed DEF Genuine
<1>6. file' = [s \in Sides |-> file'[s]] /\ fileTmp' = [s \in Sides |-> fileTmp'[s]] BY <1>2, <1>4, Placed
<1>7. CASE FileKilled(r)
  <2>1. torn' BY <1>7 DEF FileKilled
  <2> QED BY <1>1, <1>2, <1>5, <1>6, <2>1, RenderGoes
<1>8. CASE FileClean(r)
  <2>1. torn' = torn /\ fileRun[r].pc = "clean" BY <1>8 DEF FileClean
  <2>2. ~torn => Pair' BY <2>1, <1>2, <1>3 DEF RunKnows, Pair
  <2>3. torn' \/ (~torn' /\ ~torn /\ Pair') BY <2>1, <2>2, <1>1 DEF FileInv, PairInv
  <2> QED BY <1>1, <1>2, <1>5, <1>6, <2>3, RenderGoes
<1> QED BY <1>7, <1>8

LEMMA PutBacksKeep ==
  ASSUME FileInv, NEW r \in Renders, PutBackFails(r)
  PROVE  FileInv'
<1>1. fileRun[r] # Done /\ torn' /\ UNCHANGED <<packs, served, fileTmp, issued>> BY NoDoc DEF PutBackFails
<1>2. PICK old : old = fileRun[r] OBVIOUS
<1>3. old \in RunRecord /\ Genuine(old.pack) /\ Genuine(old.prev) BY <1>1, <1>2, RunFacts
<1>4. PICK q : q = [old EXCEPT !.pc = "clean"] OBVIOUS
<1>5. q \in RunRecord /\ q.pack = old.pack /\ q.prev = old.prev BY <1>3, <1>4 DEF RunRecord
<1>6. fileRun' = [fileRun EXCEPT ![r] = q] BY <1>2, <1>4 DEF PutBackFails, FileGoes
<1>7. file' = file \/ file' = [s \in Sides |-> IF s = "json" THEN FileNone ELSE file[s]]
  BY Placed DEF PutBackFails, Sides
<1>8. \A s \in Sides : file'[s] \in Docs \cup {FileNone} /\ Genuine(file'[s]) BY <1>7, Placed DEF Genuine
<1>9. file' = [s \in Sides |-> file'[s]] BY <1>7, Placed
<1>10. \A s \in Sides : fileTmp'[s] \in Docs \cup {FileNone} /\ Genuine(fileTmp'[s]) BY <1>1, Placed
<1>11. fileTmp' = [s \in Sides |-> fileTmp'[s]] BY <1>1, Placed
<1> QED BY <1>1, <1>3, <1>5, <1>6, <1>8, <1>9, <1>10, <1>11, RenderGoes

LEMMA FailsKeep ==
  ASSUME FileInv, NEW r \in Renders, RenderFails(r)
  PROVE  FileInv'
<1>1. fileRun[r] # Done /\ fileRun[r].pc # "clean" /\ UNCHANGED <<packs, served, fileTmp, issued, torn>> BY DEF RenderFails
<1>2. PICK old : old = fileRun[r] OBVIOUS
<1>3. old \in RunRecord /\ Genuine(old.pack) /\ Genuine(old.prev) /\ old.prev \in Docs \cup {FileNone}
  BY <1>1, <1>2, RunFacts
<1>4. ~torn => RunKnows(old) BY <1>1, <1>2 DEF FileInv, PairInv
<1>5. PICK q : q = [old EXCEPT !.pc = "clean"] OBVIOUS
<1>6. q \in RunRecord /\ q.pc = "clean" /\ q.pack = old.pack /\ q.prev = old.prev BY <1>3, <1>5 DEF RunRecord
<1>7. fileRun' = [fileRun EXCEPT ![r] = q] BY <1>2, <1>5 DEF RenderFails, FileGoes
<1>8. file' = IF old.pc = "replace_html" THEN [file EXCEPT !["json"] = old.prev] ELSE file
  BY <1>2 DEF RenderFails, PutBack
<1>9. file' = IF old.pc = "replace_html" THEN [s \in Sides |-> IF s = "json" THEN old.prev ELSE file[s]] ELSE file
  BY <1>8, Placed DEF Sides
<1>10. \A s \in Sides : file'[s] \in Docs \cup {FileNone} /\ Genuine(file'[s]) BY <1>3, <1>9, Placed
<1>11. file' = [s \in Sides |-> file'[s]] BY <1>9, Placed
<1>12. \A s \in Sides : fileTmp'[s] \in Docs \cup {FileNone} /\ Genuine(fileTmp'[s]) BY <1>1, Placed
<1>13. fileTmp' = [s \in Sides |-> fileTmp'[s]] BY <1>1, Placed
<1>14. ASSUME ~torn PROVE RunKnows(q)'
  <2>1. CASE old.pc = "replace_html"
    BY <1>4, <1>14, <2>1, <1>9, <1>6 DEF RunKnows, Pair, Sides
  <2>2. CASE old.pc # "replace_html"
    BY <2>2, <1>3, <1>4, <1>14, <1>9, <1>6 DEF RunKnows, RunRecord, Pair
  <2> QED BY <2>1, <2>2
<1>15. q # Done BY <1>6, NoDoc
<1> QED BY <1>1, <1>3, <1>6, <1>7, <1>10, <1>11, <1>12, <1>13, <1>14, <1>15, RenderGoes

\* A pack that is built: a draft, or signed and issued.
LEMMA BuiltGenuine ==
  ASSUME FileInv, NEW p \in Docs, NEW k \in Keys,
         \/ ~p.signed /\ p.sig = {} /\ issued' = issued
         \/ p.signed /\ p.sig = {[bytes |-> SignedBytes(p), key |-> k]} /\ issued' = issued \cup {[pack |-> p, key |-> k]}
  PROVE  Genuine(p)' /\ issued \subseteq issued' /\ issued' \in SUBSET Issues
<1>1. issued \in SUBSET Issues BY DEF FileInv, FileTypes
<1>2. CASE ~p.signed BY <1>1, <1>2 DEF Genuine
<1>3. CASE p.signed
  <2>1. PICK i : i = [pack |-> p, key |-> k] OBVIOUS
  <2>2. i \in Issues /\ i.pack = p /\ i.key = k BY <2>1 DEF Issues
  <2>3. issued' = issued \cup {i} /\ p.sig = {[bytes |-> SignedBytes(i.pack), key |-> i.key]} BY <1>3, <2>1, <2>2
  <2>4. Genuine(p)' BY <2>2, <2>3 DEF Genuine
  <2> QED BY <1>1, <2>2, <2>3, <2>4
<1> QED BY <1>2, <1>3

LEMMA ServeKeeps ==
  ASSUME FileInv, Serve
  PROVE  FileInv'
<1>1. PICK p : /\ p = IF served.status = "on" THEN SignPack(Draft(packs'), served.signer, served.key, "estate-key")
                      ELSE Draft(packs')
               /\ file' = [s \in Sides |-> p]
               /\ issued' = IF p.signed THEN issued \cup {[pack |-> p, key |-> p.key]} ELSE issued
  BY DEF Serve
<1>2. packs' \in Nat /\ UNCHANGED <<served, fileTmp, fileRun, torn>> BY DEF Serve, FileInv, FileTypes
<1>3. p \in Docs /\ Genuine(p)' /\ issued \subseteq issued' /\ issued' \in SUBSET Issues
  <2>1. CASE served.status = "on"
    BY <2>1, <1>1, <1>2, SignedGenuine, BuiltGenuine DEF FileInv, FileTypes
  <2>2. CASE served.status # "on"
    BY <1>1, <1>2, <2>2, DraftDoc DEF FileInv, FileTypes, Genuine
  <2> QED BY <2>1, <2>2
<1>4. FileTypes' BY <1>1, <1>2, <1>3 DEF FileInv, FileTypes
<1>5. AllGenuine' BY <1>1, <1>2, <1>3, GenuineStays DEF FileInv, AllGenuine
<1>6. PairInv' BY <1>1, <1>2 DEF Serve, PairInv, Pair, Sides
<1> QED BY <1>4, <1>5, <1>6 DEF FileInv

LEMMA RenderKeeps ==
  ASSUME FileInv, NEW r \in Renders, Render(r)
  PROVE  FileInv'
<1>1. PICK signer \in Signers, key \in Keys :
        LET p == IF signer # "" THEN SignPack(Draft(packs'), signer, key, "cli") ELSE Draft(packs')
        IN  /\ fileRun' = [fileRun EXCEPT ![r] = [pc |-> "tmp_json", pack |-> p, prev |-> FileNone]]
            /\ issued' = IF p.signed THEN issued \cup {[pack |-> p, key |-> key]} ELSE issued
  BY DEF Render
<1>2. PICK p : p = IF signer # "" THEN SignPack(Draft(packs'), signer, key, "cli") ELSE Draft(packs') OBVIOUS
<1>3. PICK q : q = [pc |-> "tmp_json", pack |-> p, prev |-> FileNone] OBVIOUS
<1>4. fileRun' = [fileRun EXCEPT ![r] = q] /\ issued' = IF p.signed THEN issued \cup {[pack |-> p, key |-> key]} ELSE issued
  BY <1>1, <1>2, <1>3
<1>5. packs' \in Nat /\ UNCHANGED <<served, file, fileTmp>>
  <2>1. packs' = packs + 1 /\ UNCHANGED <<served, file, fileTmp>> BY Zenon DEF Render
  <2> QED BY <2>1 DEF FileInv, FileTypes
<1>6. p \in Docs /\ Genuine(p)' /\ issued \subseteq issued' /\ issued' \in SUBSET Issues
  <2>1. CASE signer # ""
    <3>0. p = SignPack(Draft(packs'), signer, key, "cli") BY <1>2, <2>1
    <3>1. p \in Docs /\ p.signed /\ p.sig = {[bytes |-> SignedBytes(p), key |-> key]}
      BY <3>0, <1>5, SignedGenuine
    <3> QED BY <3>1, <1>4, BuiltGenuine
  <2>2. CASE signer = ""
    BY <1>2, <1>5, <2>2, DraftDoc, <1>4, BuiltGenuine
  <2> QED BY <2>1, <2>2
<1>7. q \in RunRecord /\ q.pc = "tmp_json" /\ q.pack = p /\ q.prev = FileNone BY <1>3, <1>6 DEF RunRecord
<1>8. fileRun \in [Renders -> {Done} \cup RunRecord] BY DEF FileInv, FileTypes
<1>9. FileTypes' BY <1>4, <1>5, <1>6, <1>7, <1>8 DEF FileInv, FileTypes
<1>10. \A d : Genuine(d) => Genuine(d)' BY <1>6, GenuineStays
<1>11. ASSUME NEW s \in Renders, fileRun'[s] # Done PROVE (Genuine(fileRun[s].pack) /\ Genuine(fileRun[s].prev))'
  <2>1. CASE s = r
    BY <2>1, <1>4, <1>8, <1>6, <1>7 DEF Genuine
  <2>2. CASE s # r
    BY <2>2, <1>4, <1>8, <1>11, RunFacts, <1>10
  <2> QED BY <2>1, <2>2
<1>12. AllGenuine' BY <1>5, <1>10, <1>11 DEF FileInv, AllGenuine
<1>13. PairInv'
  BY <1>4, <1>8, <1>5, <1>7, NoDoc DEF PairInv, Render, FileInv, RunKnows, Pair
<1> QED BY <1>9, <1>12, <1>13 DEF FileInv

LEMMA FileEditKeeps ==
  ASSUME FileInv, Edit
  PROVE  FileInv'
<1>1. PICK old : old = file["json"] OBVIOUS
<1>2. PICK p : file' = [file EXCEPT !["json"] = p] /\
        p \in {[file["json"] EXCEPT !.pack = MaxPacks + 1], [file["json"] EXCEPT !.added = TRUE],
               [file["json"] EXCEPT !.via = "cli"], [file["json"] EXCEPT !.signed = ~@]}
              \cup {[file["json"] EXCEPT !.signer = s] : s \in Signers}
              \cup {[file["json"] EXCEPT !.key = k] : k \in Keys}
  BY Zenon DEF Edit
<1>3. old \in Docs /\ Genuine(old) BY <1>1, Placed DEF Edit, Sides
<1>4. p \in Docs /\ p.sig = old.sig
  <2>1. CASE \E s \in Signers : p = [old EXCEPT !.signer = s] BY <2>1, <1>3 DEF Docs
  <2>2. CASE \E k \in Keys : p = [old EXCEPT !.key = k] BY <2>2, <1>3 DEF Docs
  <2>3. CASE p = [old EXCEPT !.pack = MaxPacks + 1]
    <3>1. PICK n \in Nat : n = MaxPacks + 1 BY FileAssumption
    <3>2. p = [old EXCEPT !.pack = n] BY <2>3, <3>1
    <3> QED BY <3>2, <1>3 DEF Docs
  <2>4. CASE p = [old EXCEPT !.added = TRUE] BY <2>4, <1>3 DEF Docs
  <2>5. CASE p = [old EXCEPT !.via = "cli"] BY <2>5, <1>3 DEF Docs
  <2>6. CASE p = [old EXCEPT !.signed = ~@]
    BY <2>6, <1>3 DEF Docs
  <2> QED BY <1>1, <1>2, <2>1, <2>2, <2>3, <2>4, <2>5, <2>6
<1>5. Genuine(p) BY <1>3, <1>4, NoDoc DEF Genuine
<1>6. torn' = TRUE /\ UNCHANGED <<packs, served, fileTmp, fileRun, issued>> BY DEF Edit
<1>7. FileTypes' BY <1>2, <1>4, <1>6 DEF FileInv, FileTypes
<1>8. file' = [s \in Sides |-> IF s = "json" THEN p ELSE file[s]] BY <1>2, Placed DEF Sides
<1>9. AllGenuine' BY <1>5, <1>6, <1>8, GenuineStays DEF FileInv, AllGenuine
<1> QED BY <1>6, <1>7, <1>9 DEF FileInv, PairInv

LEMMA FileKeeps == FileInv /\ [FileNext]_fileVars => FileInv'
<1> SUFFICES ASSUME FileInv, [FileNext]_fileVars PROVE FileInv' OBVIOUS
<1>1. CASE UNCHANGED fileVars
  BY <1>1 DEF fileVars, FileInv, FileTypes, AllGenuine, Genuine, PairInv, RunKnows, Pair
<1>2. CASE StartApp
  <2>1. served' \in {[status |-> "off"], [status |-> "error"]} \cup [status : {"on"}, signer : Signers, key : Keys]
    <3>1. \A s \in Signers, k \in EstateKeys :
            ServedSigning(s, k) \in {[status |-> "off"], [status |-> "error"]} \cup [status : {"on"}, signer : Signers, key : Keys]
      BY DEF ServedSigning
    <3> QED BY <1>2, <3>1 DEF StartApp
  <2>2. UNCHANGED <<packs, file, fileTmp, fileRun, issued, torn>> BY <1>2 DEF StartApp
  <2>3. FileTypes' BY <2>1, <2>2 DEF FileInv, FileTypes
  <2>4. AllGenuine' /\ PairInv' BY <2>2 DEF FileInv, AllGenuine, Genuine, PairInv, RunKnows, Pair
  <2> QED BY <2>3, <2>4 DEF FileInv
<1>3. ASSUME NEW r \in Renders, RenderStep(r) PROVE FileInv'
  BY <1>3, RenderKeeps, WritesKeep, RenamesKeep, CleansKeep, FailsKeep, PutBacksKeep DEF RenderStep
<1> QED BY <1>1, <1>2, <1>3, ServeKeeps, FileEditKeeps DEF FileNext

\* A pack file that verifies was issued so, and a pair is one pack unless renders overlapped
\* or one was killed: for any keys, signers, renders, edits and failures (signing.py, cli.py).
THEOREM PackFilesAlwaysSound == FileSpec => []PackFileSound
<1> QED BY FileInitHeld, FileKeeps, FileTruth, PTL DEF FileSpec

-----------------------------------------------------------------------------
(* Regwatch: a store is changed by who holds its lock, and what it holds was reviewed. *)

Shown == Texts \cup NoReadings \cup {CorpusNothing}
Cited == UNION {UrlsOf(f) : f \in Frameworks}
Stores == [active : [Frameworks -> Nat], history : Seq([f : Frameworks, flag : Nat]), src : [Urls -> Shown]]
Seen == UNION {[S -> Shown] : S \in SUBSET Cited}
TierNumbers == {t \in [Frameworks -> Nat] : \A f \in Frameworks : t[f] \in DOMAIN Tiers[f]}
OpRecord ==
  [at : {"flight", "fetch", "lock", "commit", "pack"}, kind : {"check", "file", "mark", "clear", "pack"},
   mem : Stores, obs : Seen, f : Frameworks \cup {CorpusNothing}, tier : TierNumbers]
CorpusTypes ==
  /\ page \in [Urls -> Texts \cup NoReadings] /\ disk \in Stores
  /\ op \in [Ops -> {CorpusIdle} \cup OpRecord]
  /\ accepted \in [Urls -> Seq(Shown)]
  /\ budget \in [runs : Nat, edits : Nat, faults : Nat] /\ budget.runs <= MaxRuns

\* Who is about to commit has the store's lock and the store as it is.
CommitAlone == \A p \in Ops : op[p].at = "commit" => storeLock = p /\ op[p].mem = disk
OpsFit ==
  \A p \in Ops :
    /\ op[p].at \in {"lock", "commit"} => op[p].kind \in {"check", "file", "mark", "clear"}
    /\ op[p].at \in {"lock", "commit"} /\ op[p].kind \in {"mark", "clear"} => op[p].f \in Frameworks
    /\ op[p].at \in {"flight", "fetch"} => op[p].kind = "check"

\* A store in which each framework without a flag shows what was last reviewed of it.
Reviewed(s) ==
  \A f \in Frameworks : s.active[f] = NoFlag =>
    \A u \in UrlsOf(f) : s.src[u] # CorpusNothing =>
      accepted[u] # <<>> /\ accepted[u][Len(accepted[u])] = s.src[u]
OnlyCited(s) == \A u \in Urls : s.src[u] # CorpusNothing => u \in Cited
AllCovered(src) == \A u \in Urls : Covered(u, src[u])
PacksCovered == \A s \in corpusPacks : AllCovered(s)
SnapshotsCovered ==
  \A p \in Ops : op[p].at = "pack" /\ (\A f \in Frameworks : op[p].mem.active[f] = NoFlag) =>
    AllCovered(op[p].mem.src)
RegwatchInv ==
  /\ CorpusTypes /\ CommitAlone /\ OpsFit /\ Reviewed(disk) /\ OnlyCited(disk)
  /\ PacksCovered /\ SnapshotsCovered

LEMMA CitedUrls == Cited \subseteq Urls /\ \A f \in Frameworks : UrlsOf(f) \subseteq Urls
<1>1. ASSUME NEW f \in Frameworks PROVE UrlsOf(f) \subseteq Urls
  BY RegwatchAssumption DEF UrlsOf
<1> QED BY <1>1 DEF Cited

LEMMA NothingSeen == <<>> \in Seen
<1>1. <<>> \in [1..0 -> Shown] OBVIOUS
<1>2. 1..0 = {} OBVIOUS
<1> QED BY <1>1, <1>2 DEF Seen

LEMMA OpRecords ==
  ASSUME NEW kind \in {"check", "file", "mark", "clear", "pack"}, NEW phase \in {"flight", "lock", "pack"}
  PROVE  Op(kind, phase) \in OpRecord
BY RegwatchAssumption, NothingSeen DEF EmptyStore, Stores, NoFlag, Shown, CorpusNothing, TierNumbers, Op,
  OpRecord

LEMMA RegwatchInitHeld == RegwatchInit => RegwatchInv
<1> SUFFICES ASSUME RegwatchInit PROVE RegwatchInv OBVIOUS
<1> USE DEF RegwatchInit
<1>1. CorpusTypes
  BY RegwatchAssumption DEF CorpusTypes, EmptyStore, Stores, NoFlag, Shown, CorpusNothing
<1>2. \A p \in Ops : op[p] = CorpusIdle /\ op[p].at = "idle" BY DEF CorpusIdle
<1>3. CommitAlone /\ OpsFit /\ SnapshotsCovered BY <1>2 DEF CommitAlone, OpsFit, SnapshotsCovered
<1>4. \A f \in Frameworks : \A u \in UrlsOf(f) : disk.src[u] = CorpusNothing
  BY CitedUrls DEF EmptyStore
<1>5. \A u \in Urls : disk.src[u] = CorpusNothing BY DEF EmptyStore
<1>6. Reviewed(disk) /\ OnlyCited(disk) /\ PacksCovered BY <1>4, <1>5 DEF Reviewed, OnlyCited, PacksCovered
<1> QED BY <1>1, <1>3, <1>6 DEF RegwatchInv

-----------------------------------------------------------------------------
(* A step that leaves the store alone, and one that persists it. *)

RecordFits(r) ==
  /\ r.at \in {"lock", "commit"} => r.kind \in {"check", "file", "mark", "clear"}
  /\ r.at \in {"lock", "commit"} /\ r.kind \in {"mark", "clear"} => r.f \in Frameworks
  /\ r.at \in {"flight", "fetch"} => r.kind = "check"
SnapshotFits(r) ==
  r.at = "pack" /\ (\A f \in Frameworks : r.mem.active[f] = NoFlag) => AllCovered(r.mem.src)

LEMMA IdleFits == CorpusIdle \notin OpRecord /\ CorpusIdle.at = "idle" /\ RecordFits(CorpusIdle) /\ SnapshotFits(CorpusIdle)
BY DEF CorpusIdle, OpRecord, RecordFits, SnapshotFits

LEMMA EachFits ==
  ASSUME RegwatchInv, NEW p \in Ops
  PROVE  /\ op[p] \in {CorpusIdle} \cup OpRecord /\ RecordFits(op[p]) /\ SnapshotFits(op[p])
         /\ op[p].at # "idle" => op[p] \in OpRecord
BY DEF RegwatchInv, CorpusTypes, OpsFit, SnapshotsCovered, RecordFits, SnapshotFits, CorpusIdle

LEMMA StoreAlone ==
  ASSUME RegwatchInv, UNCHANGED <<disk, accepted>>,
         page' \in [Urls -> Texts \cup NoReadings], budget' \in [runs : Nat, edits : Nat, faults : Nat], budget'.runs <= MaxRuns,
         op' \in [Ops -> {CorpusIdle} \cup OpRecord],
         \A p \in Ops : op'[p] = op[p] \/ (RecordFits(op'[p]) /\ SnapshotFits(op'[p])),
         \A p \in Ops : op'[p].at = "commit" => storeLock' = p /\ op'[p].mem = disk,
         \A s \in corpusPacks' : s \in corpusPacks \/ AllCovered(s)
  PROVE  RegwatchInv'
<1>1. CorpusTypes' BY DEF RegwatchInv, CorpusTypes
<1>2. CommitAlone' BY DEF CommitAlone
<1>3. \A p \in Ops : RecordFits(op'[p]) /\ SnapshotFits(op'[p]) BY EachFits
<1>4. OpsFit' BY <1>3 DEF OpsFit, RecordFits
<1>5. \A src : AllCovered(src)' <=> AllCovered(src) BY DEF AllCovered, Covered
<1>6. SnapshotsCovered' BY <1>3, <1>5 DEF SnapshotsCovered, SnapshotFits
<1>7. PacksCovered' BY <1>5 DEF RegwatchInv, PacksCovered
<1>8. Reviewed(disk)' /\ OnlyCited(disk)' BY DEF RegwatchInv, Reviewed, OnlyCited
<1> QED BY <1>1, <1>2, <1>4, <1>6, <1>7, <1>8 DEF RegwatchInv

\* One operation goes on.
LEMMA OneGoes ==
  ASSUME RegwatchInv, UNCHANGED <<disk, accepted, page>>, budget' \in [runs : Nat, edits : Nat, faults : Nat], budget'.runs <= MaxRuns,
         NEW p \in Ops, NEW r \in {CorpusIdle} \cup OpRecord, CorpusBecome(p, r),
         RecordFits(r), SnapshotFits(r), storeLock' = storeLock \/ storeLock \in {p, "free"},
         r.at = "commit" => storeLock' = p /\ r.mem = disk,
         \A s \in corpusPacks' : s \in corpusPacks \/ AllCovered(s)
  PROVE  RegwatchInv'
<1>1. op' = [op EXCEPT ![p] = r] /\ op \in [Ops -> {CorpusIdle} \cup OpRecord] /\ page \in [Urls -> Texts \cup NoReadings]
  BY DEF CorpusBecome, RegwatchInv, CorpusTypes
<1>2. ASSUME NEW q \in Ops, op'[q].at = "commit" PROVE storeLock' = q /\ op'[q].mem = disk
  <2>1. CASE q = p BY <2>1, <1>1, <1>2
  <2>2. CASE q # p
    BY <2>2, <1>1, <1>2, RegwatchAssumption DEF RegwatchInv, CommitAlone, Ops
  <2> QED BY <2>1, <2>2
<1> QED BY <1>1, <1>2, StoreAlone

LEMMA BudgetUsed ==
  ASSUME RegwatchInv, NEW what \in {"runs", "edits", "faults"}, Use(what)
  PROVE  /\ budget' \in [runs : Nat, edits : Nat, faults : Nat] /\ budget'.runs <= MaxRuns
BY RegwatchAssumption DEF RegwatchInv, CorpusTypes, Use

LEMMA BudgetKept ==
  ASSUME RegwatchInv, UNCHANGED budget
  PROVE  /\ budget' \in [runs : Nat, edits : Nat, faults : Nat] /\ budget'.runs <= MaxRuns
BY DEF RegwatchInv, CorpusTypes

\* The lines of accepted go on.
Longer == \A u \in Urls : \A k \in DOMAIN accepted[u] : k \in DOMAIN accepted'[u] /\ accepted'[u][k] = accepted[u][k]

LEMMA Persisted ==
  ASSUME RegwatchInv, NEW p \in Ops, op[p].at = "commit", NEW store \in Stores, Persist(p, store),
         accepted' \in [Urls -> Seq(Shown)], Longer, Reviewed(store)', OnlyCited(store)
  PROVE  RegwatchInv'
<1> USE DEF Persist, End, CorpusBecome
<1>1. op \in [Ops -> {CorpusIdle} \cup OpRecord] BY DEF RegwatchInv, CorpusTypes
<1>2. \A q \in Ops : op'[q] = CorpusIdle \/ (op'[q] = op[q] /\ op[q].at # "commit")
  BY <1>1 DEF RegwatchInv, CommitAlone
<1>3. CorpusTypes' BY <1>1 DEF RegwatchInv, CorpusTypes
<1>4. CommitAlone' BY <1>2, IdleFits DEF CommitAlone
<1>5. \A q \in Ops : RecordFits(op'[q]) BY <1>2, EachFits, IdleFits
<1>6. OpsFit' BY <1>5 DEF OpsFit, RecordFits
<1>7. \A src : AllCovered(src) => AllCovered(src)' BY DEF AllCovered, Covered, Longer
<1>8. SnapshotsCovered' BY <1>2, <1>7, IdleFits DEF RegwatchInv, SnapshotsCovered
<1>9. PacksCovered' BY <1>7 DEF RegwatchInv, PacksCovered
<1>10. Reviewed(disk)' /\ OnlyCited(disk)' BY DEF Reviewed, OnlyCited
<1> QED BY <1>3, <1>4, <1>6, <1>8, <1>9, <1>10 DEF RegwatchInv

-----------------------------------------------------------------------------
(* What a persisted store holds. *)

LEMMA StoreParts ==
  ASSUME NEW s \in Stores
  PROVE  /\ s.active \in [Frameworks -> Nat] /\ s.history \in Seq([f : Frameworks, flag : Nat]) /\ s.src \in [Urls -> Shown]
         /\ \A x : [s EXCEPT !.src = x] = [active |-> s.active, history |-> s.history, src |-> x]
         /\ \A x : [s EXCEPT !.active = x] = [active |-> x, history |-> s.history, src |-> s.src]
<1>1. s = [active |-> s.active, history |-> s.history, src |-> s.src] BY DEF Stores
<1>2. ASSUME NEW x PROVE [s EXCEPT !.src = x] = [active |-> s.active, history |-> s.history, src |-> x] BY <1>1
<1>3. ASSUME NEW x PROVE [s EXCEPT !.active = x] = [active |-> x, history |-> s.history, src |-> s.src] BY <1>1
<1>4. s.active \in [Frameworks -> Nat] /\ s.history \in Seq([f : Frameworks, flag : Nat]) /\ s.src \in [Urls -> Shown]
  BY DEF Stores
<1> QED BY <1>2, <1>3, <1>4

LEMMA MarkedStore ==
  ASSUME RegwatchInv, NEW store \in Stores, NEW fs
  PROVE  /\ Marked(store, fs) \in Stores
         /\ Marked(store, fs).src = store.src /\ Marked(store, fs).history = store.history
         /\ \A f \in Frameworks : Marked(store, fs).active[f] = NoFlag => f \notin fs /\ store.active[f] = NoFlag
         /\ \A f \in Frameworks : store.active[f] # NoFlag => Marked(store, fs).active[f] = store.active[f]
<1>1. 1 + MaxRuns - budget.runs \in Nat /\ 1 + MaxRuns - budget.runs # NoFlag
  BY RegwatchAssumption DEF RegwatchInv, CorpusTypes, NoFlag
<1>2. Marked(store, fs) = [active |-> [f \in Frameworks |-> IF f \in fs /\ store.active[f] = NoFlag
                                         THEN 1 + MaxRuns - budget.runs ELSE store.active[f]],
                           history |-> store.history, src |-> store.src]
  BY StoreParts DEF Marked
<1> DEFINE act == [f \in Frameworks |-> IF f \in fs /\ store.active[f] = NoFlag
                                         THEN 1 + MaxRuns - budget.runs ELSE store.active[f]]
<1>3. store.active \in [Frameworks -> Nat] /\ act \in [Frameworks -> Nat] BY <1>1, StoreParts
<1>4. \A f \in Frameworks : /\ act[f] = NoFlag => f \notin fs /\ store.active[f] = NoFlag
                            /\ store.active[f] # NoFlag => act[f] = store.active[f]
  BY <1>1
<1>5. Marked(store, fs) = [active |-> act, history |-> store.history, src |-> store.src] BY <1>2
<1> HIDE DEF act
<1>6. Marked(store, fs) \in Stores BY <1>3, <1>5, StoreParts DEF Stores
<1> QED BY <1>4, <1>5, <1>6

\* What run_check and check_file persist: what was read stands there, and where it differs
\* there is a flag.
LEMMA ComparedStore ==
  ASSUME RegwatchInv, NEW q \in OpRecord
  PROVE  /\ Compared(q) \in Stores /\ Compared(q).history = q.mem.history
         /\ Compared(q).src = [u \in Urls |-> IF u \in Readings(q) THEN q.obs[u] ELSE q.mem.src[u]]
         /\ \A f \in Frameworks : Compared(q).active[f] = NoFlag =>
              /\ q.mem.active[f] = NoFlag
              /\ \A u \in Readings(q) \cap UrlsOf(f) : ~Differs(q.mem, u, q.obs[u])
         /\ \A f \in Frameworks : q.mem.active[f] # NoFlag => Compared(q).active[f] = q.mem.active[f]
         /\ Readings(q) \subseteq Cited
<1> DEFINE store == [q.mem EXCEPT !.src = [u \in Urls |-> IF u \in Readings(q) THEN q.obs[u] ELSE @[u]]]
           kept == [active |-> q.mem.active, history |-> q.mem.history,
                    src |-> [u \in Urls |-> IF u \in Readings(q) THEN q.obs[u] ELSE q.mem.src[u]]]
           fs == {f \in Frameworks : \E u \in Readings(q) \cap UrlsOf(f) : Differs(q.mem, u, q.obs[u])}
<1>1. q.mem \in Stores /\ q.obs \in Seen BY DEF OpRecord
<1>2. PICK S \in SUBSET Cited : q.obs \in [S -> Shown] BY <1>1 DEF Seen
<1>3. Readings(q) \subseteq S BY <1>2 DEF Readings
<1>4. \A u \in Readings(q) : q.obs[u] \in Shown BY <1>2, <1>3
<1>5. store = kept BY <1>1, StoreParts
<1>6. kept \in Stores BY <1>1, <1>4 DEF Stores
<1>7. Compared(q) = Marked(kept, fs) BY <1>5 DEF Compared
<1> HIDE DEF kept, fs
<1>8. /\ Marked(kept, fs) \in Stores
      /\ Marked(kept, fs).src = kept.src /\ Marked(kept, fs).history = kept.history
      /\ \A f \in Frameworks : Marked(kept, fs).active[f] = NoFlag => f \notin fs /\ kept.active[f] = NoFlag
      /\ \A f \in Frameworks : kept.active[f] # NoFlag => Marked(kept, fs).active[f] = kept.active[f]
  BY <1>6, MarkedStore
<1> USE DEF kept
<1>9. \A f \in Frameworks : f \notin fs => \A u \in Readings(q) \cap UrlsOf(f) : ~Differs(q.mem, u, q.obs[u])
  BY DEF fs
<1> QED BY <1>2, <1>3, <1>7, <1>8, <1>9

LEMMA AcceptedLonger ==
  ASSUME RegwatchInv, NEW us, NEW store \in Stores, Accept(us, store)
  PROVE  /\ accepted' \in [Urls -> Seq(Shown)] /\ Longer
         /\ \A u \in Urls : u \notin us => accepted'[u] = accepted[u]
         /\ \A u \in Urls : u \in us => accepted'[u] # <<>> /\ accepted'[u][Len(accepted'[u])] = store.src[u]
<1>1. accepted \in [Urls -> Seq(Shown)] /\ store.src \in [Urls -> Shown]
  BY DEF RegwatchInv, CorpusTypes, Stores
<1>2. accepted' = [u \in Urls |-> IF u \in us THEN Append(accepted[u], store.src[u]) ELSE accepted[u]]
  BY DEF Accept
<1>3. \A u \in Urls : accepted'[u] = IF u \in us THEN Append(accepted[u], store.src[u]) ELSE accepted[u] BY <1>2
<1>4. ASSUME NEW u \in Urls, u \in us
      PROVE  /\ accepted'[u] \in Seq(Shown) /\ accepted'[u] # <<>> /\ accepted'[u][Len(accepted'[u])] = store.src[u]
             /\ \A k \in DOMAIN accepted[u] : k \in DOMAIN accepted'[u] /\ accepted'[u][k] = accepted[u][k]
  <2>1. accepted[u] \in Seq(Shown) /\ store.src[u] \in Shown /\ accepted'[u] = Append(accepted[u], store.src[u])
    BY <1>1, <1>3, <1>4
  <2> QED BY <2>1
<1>5. accepted' \in [Urls -> Seq(Shown)] BY <1>1, <1>2
<1> QED BY <1>3, <1>4, <1>5 DEF Longer

LEMMA ReadingReviewed ==
  ASSUME RegwatchInv, NEW q \in OpRecord, q.mem = disk, NEW new, new = Compared(q), Accept(Baselines(q), new)
  PROVE  new \in Stores /\ Reviewed(new)' /\ OnlyCited(new) /\ Longer /\ accepted' \in [Urls -> Seq(Shown)]
<1>1. /\ new \in Stores
      /\ new.src = [u \in Urls |-> IF u \in Readings(q) THEN q.obs[u] ELSE disk.src[u]]
      /\ \A f \in Frameworks : new.active[f] = NoFlag =>
           disk.active[f] = NoFlag /\ \A u \in Readings(q) \cap UrlsOf(f) : ~Differs(disk, u, q.obs[u])
      /\ Readings(q) \subseteq Cited
  BY ComparedStore
<1>2. /\ accepted' \in [Urls -> Seq(Shown)] /\ Longer
      /\ \A u \in Urls : u \notin Baselines(q) => accepted'[u] = accepted[u]
      /\ \A u \in Urls : u \in Baselines(q) => accepted'[u] # <<>> /\ accepted'[u][Len(accepted'[u])] = new.src[u]
  BY <1>1, AcceptedLonger
<1>3. ASSUME NEW f \in Frameworks, new.active[f] = NoFlag, NEW u \in UrlsOf(f), new.src[u] # CorpusNothing
      PROVE  accepted'[u] # <<>> /\ accepted'[u][Len(accepted'[u])] = new.src[u]
  <2>1. u \in Urls BY CitedUrls
  <2>2. CASE u \in Baselines(q) BY <2>1, <2>2, <1>2
  <2>3. CASE u \notin Baselines(q)
    <3>1. new.src[u] = disk.src[u]
      <4>1. CASE u \notin Readings(q) BY <4>1, <2>1, <1>1
      <4>2. CASE u \in Readings(q)
        BY <4>2, <1>1, <1>3, <2>3, <2>1 DEF Differs, Baselines
      <4> QED BY <4>1, <4>2
    <3>2. accepted[u] # <<>> /\ accepted[u][Len(accepted[u])] = disk.src[u]
      BY <3>1, <1>1, <1>3 DEF RegwatchInv, Reviewed
    <3> QED BY <3>1, <3>2, <2>1, <2>3, <1>2
  <2> QED BY <2>2, <2>3
<1>4. OnlyCited(new) BY <1>1 DEF RegwatchInv, OnlyCited
<1> QED BY <1>1, <1>2, <1>3, <1>4 DEF Reviewed

-----------------------------------------------------------------------------
(* Each step of an operation *)

\* An update of an operation's record keeps its other fields.
LEMMA RecordUpdates ==
  ASSUME NEW q \in OpRecord
  PROVE  /\ \A a \in {"flight", "fetch", "lock", "commit", "pack"} : [q EXCEPT !.at = a] \in OpRecord
         /\ \A m \in Stores, a \in {"flight", "fetch", "lock", "commit", "pack"} :
              [q EXCEPT !.at = a, !.mem = m] \in OpRecord
         /\ \A m \in Stores : [q EXCEPT !.mem = m] \in OpRecord
         /\ \A o \in Seen : [q EXCEPT !.obs = o] \in OpRecord
BY DEF OpRecord

LEMMA Begun ==
  ASSUME RegwatchInv, NEW p \in Ops, NEW r \in OpRecord, Begin(p, r), r.at \in {"flight", "lock", "pack"}, RecordFits(r)
  PROVE  RegwatchInv'
<1> DEFINE s == [r EXCEPT !.mem = disk]
<1>1. op[p] = CorpusIdle /\ Use("runs") /\ CorpusBecome(p, s) /\ UNCHANGED <<page, disk, storeLock, accepted, corpusPacks>>
  BY DEF Begin
<1>2. disk \in Stores BY DEF RegwatchInv, CorpusTypes
<1>3. s \in OpRecord BY <1>2, RecordUpdates
<1>4. s.at = r.at /\ s.kind = r.kind /\ s.f = r.f /\ s.mem = disk BY DEF OpRecord
<1>5. RecordFits(s) BY <1>4 DEF RecordFits
<1>6. SnapshotFits(s)
  <2> SUFFICES ASSUME \A f \in Frameworks : disk.active[f] = NoFlag, NEW u \in Urls PROVE Covered(u, disk.src[u])
    BY <1>4 DEF SnapshotFits, AllCovered
  <2>1. CASE disk.src[u] = CorpusNothing BY <2>1 DEF Covered
  <2>2. CASE disk.src[u] # CorpusNothing
    BY <2>2 DEF RegwatchInv, OnlyCited, Cited, Reviewed, CorpusTypes, Covered
  <2> QED BY <2>1, <2>2
<1> HIDE DEF s
<1> QED BY <1>1, <1>3, <1>4, <1>5, <1>6, BudgetUsed, OneGoes

LEMMA BeginsKeep ==
  ASSUME RegwatchInv, NEW p \in Ops,
         BeginCheck(p) \/ BeginFile(p) \/ BeginMark(p) \/ BeginClear(p) \/ BeginPack(p)
  PROVE  RegwatchInv'
<1>1. CASE BeginCheck(p)
  BY OpRecords, <1>1, Begun DEF RecordFits, Op, BeginCheck
<1>2. CASE BeginFile(p)
  <2>1. PICK f \in Frameworks, u \in Urls, t \in Texts :
          u \in UrlsOf(f) /\ Begin(p, [Op("file", "lock") EXCEPT !.f = f, !.obs = [x \in {u} |-> t]])
    BY <1>2 DEF BeginFile
  <2>2. [x \in {u} |-> t] \in Seen
    <3>1. {u} \in SUBSET Cited /\ t \in Shown BY <2>1 DEF Cited, Shown
    <3>2. [x \in {u} |-> t] \in [{u} -> Shown] BY <3>1
    <3> QED BY <3>1, <3>2 DEF Seen
  <2>3. PICK o : o = [x \in {u} |-> t] OBVIOUS
  <2>4. PICK r : r = [Op("file", "lock") EXCEPT !.f = f, !.obs = o] OBVIOUS
  <2>5. r \in OpRecord /\ r.at = "lock" /\ r.kind = "file"
    <3>1. PICK q : q = Op("file", "lock") OBVIOUS
    <3>2. q \in OpRecord /\ q.at = "lock" /\ q.kind = "file" BY <3>1, OpRecords DEF Op
    <3>3. r = [q EXCEPT !.f = f, !.obs = o] BY <2>4, <3>1
    <3> QED BY <2>2, <2>3, <3>2, <3>3 DEF OpRecord
  <2>6. RecordFits(r) BY <2>5 DEF RecordFits
  <2> QED BY <2>1, <2>3, <2>4, <2>5, <2>6, Begun
<1>3. CASE BeginMark(p) \/ BeginClear(p)
  <2>1. PICK f \in Frameworks, kind \in {"mark", "clear"} : Begin(p, [Op(kind, "lock") EXCEPT !.f = f])
    BY <1>3 DEF BeginMark, BeginClear
  <2>2. PICK r : r = [Op(kind, "lock") EXCEPT !.f = f] OBVIOUS
  <2>3. r \in OpRecord /\ r.at = "lock" /\ r.kind = kind /\ r.f = f BY <2>2, OpRecords DEF OpRecord, Op
  <2>4. RecordFits(r) BY <2>3 DEF RecordFits
  <2> QED BY <2>1, <2>2, <2>3, <2>4, Begun
<1>4. CASE BeginPack(p)
  BY OpRecords, <1>4, Begun DEF RecordFits, Op, BeginPack
<1> QED BY <1>1, <1>2, <1>3, <1>4

LEMMA FetchKeeps ==
  ASSUME RegwatchInv, NEW p \in Ops, Fetch(p)
  PROVE  RegwatchInv'
<1> DEFINE q == op[p]
<1>1. q \in OpRecord /\ RecordFits(q) /\ q.at = "fetch" BY EachFits DEF Fetch
<1>2. PICK f \in Frameworks : \E u \in Tier(p, f) \ DOMAIN q.obs : \E t \in {Observation(u), CorpusNothing} :
        /\ CorpusBecome(p, [q EXCEPT !.obs = [x \in DOMAIN @ \cup {u} |-> IF x = u THEN t ELSE @[x]]])
        /\ UNCHANGED budget \/ Use("faults")
  BY DEF Fetch
<1>20. PICK u \in Tier(p, f) \ DOMAIN q.obs : \E t \in {Observation(u), CorpusNothing} :
        /\ CorpusBecome(p, [q EXCEPT !.obs = [x \in DOMAIN @ \cup {u} |-> IF x = u THEN t ELSE @[x]]])
        /\ UNCHANGED budget \/ Use("faults")
  BY <1>2
<1>21. PICK t \in {Observation(u), CorpusNothing} :
        /\ CorpusBecome(p, [q EXCEPT !.obs = [x \in DOMAIN @ \cup {u} |-> IF x = u THEN t ELSE @[x]]])
        /\ UNCHANGED budget \/ Use("faults")
  BY <1>20
<1>3. PICK o : o = [x \in DOMAIN q.obs \cup {u} |-> IF x = u THEN t ELSE q.obs[x]] OBVIOUS
<1>4. PICK r : r = [q EXCEPT !.obs = o] OBVIOUS
<1>5. CorpusBecome(p, r) BY <1>1, <1>21, <1>3, <1>4
<1>6. u \in Cited
  <2>1. q.tier[f] \in DOMAIN Tiers[f] BY <1>1 DEF OpRecord, TierNumbers
  <2> QED BY <1>20, <2>1 DEF Tier, Cited, UrlsOf
<1>7. t \in Shown
  BY <1>6, CitedUrls, <1>21 DEF RegwatchInv, CorpusTypes, Observation, Shown
<1>8. o \in Seen
  BY <1>1, <1>3, <1>7, <1>6 DEF OpRecord, Seen
<1>9. r \in OpRecord /\ r.at = q.at /\ r.kind = q.kind BY <1>1, <1>4, <1>8 DEF OpRecord
<1>10. RecordFits(r) /\ SnapshotFits(r) BY <1>1, <1>9 DEF RecordFits, SnapshotFits
<1>11. UNCHANGED <<disk, accepted, page, storeLock, corpusPacks>> BY DEF Fetch
<1> QED BY <1>1, <1>21, <1>5, <1>9, <1>10, <1>11, BudgetUsed, BudgetKept, OneGoes

LEMMA WalksKeep ==
  ASSUME RegwatchInv, NEW p \in Ops, Fly(p) \/ FallBack(p) \/ Fetched(p) \/ TakeStoreLock(p)
  PROVE  RegwatchInv'
<1>1. CASE Fly(p) \/ Fetched(p)
  BY <1>1, EachFits, BudgetKept, OneGoes DEF Fly, Fetched, OpRecord, RecordFits, SnapshotFits
<1>2. CASE FallBack(p)
  <2>1. op[p] \in OpRecord /\ RecordFits(op[p]) /\ op[p].at = "fetch" BY <1>2, EachFits DEF FallBack
  <2>2. PICK f \in Frameworks : ~LastTier(p, f) /\ CorpusBecome(p, [op[p] EXCEPT !.tier[f] = @ + 1])
    BY <1>2 DEF FallBack
  <2>3. PICK t : t = [op[p].tier EXCEPT ![f] = op[p].tier[f] + 1] OBVIOUS
  <2>4. t \in TierNumbers
    <3>1. op[p].tier \in [Frameworks -> Nat] /\ \A g \in Frameworks : op[p].tier[g] \in DOMAIN Tiers[g]
      BY <2>1 DEF OpRecord, TierNumbers
    <3>2. op[p].tier[f] + 1 \in DOMAIN Tiers[f] BY <3>1, <2>2, RegwatchAssumption DEF LastTier
    <3> QED BY <3>1, <3>2, <2>3 DEF TierNumbers
  <2>5. PICK r : r = [op[p] EXCEPT !.tier = t] OBVIOUS
  <2>6. CorpusBecome(p, r) BY <2>2, <2>3, <2>5, <2>1 DEF OpRecord
  <2>7. r \in OpRecord /\ r.at = "fetch" /\ r.kind = op[p].kind BY <2>1, <2>4, <2>5 DEF OpRecord
  <2>8. RecordFits(r) /\ SnapshotFits(r) BY <2>1, <2>7 DEF RecordFits, SnapshotFits
  <2>9. UNCHANGED <<page, disk, storeLock, accepted, corpusPacks, budget>> BY <1>2 DEF FallBack
  <2> QED BY <2>6, <2>7, <2>8, <2>9, BudgetKept, OneGoes
<1>3. CASE TakeStoreLock(p)
  BY <1>3, EachFits, BudgetKept, OneGoes DEF TakeStoreLock, RegwatchInv, CorpusTypes, Reloaded, OpRecord,
    RecordFits, SnapshotFits
<1> QED BY <1>1, <1>2, <1>3

\* Who gives up, ends without writing or writes a pack.
LEMMA EndsKeep ==
  ASSUME RegwatchInv, NEW p \in Ops,
         LockTimeout(p) \/ PersistFails(p) \/ WritePack(p) \/ (End(p) /\ UNCHANGED <<page, disk, accepted, corpusPacks, budget>>)
  PROVE  RegwatchInv'
<1>1. CorpusBecome(p, CorpusIdle) /\ UNCHANGED <<page, disk, accepted>>
  BY DEF LockTimeout, PersistFails, WritePack, End
<1>2. storeLock' = storeLock \/ storeLock = p BY DEF LockTimeout, PersistFails, WritePack, End
<1>3. budget' \in [runs : Nat, edits : Nat, faults : Nat] /\ budget'.runs <= MaxRuns
  BY BudgetKept, BudgetUsed DEF LockTimeout, PersistFails, WritePack
<1>4. ASSUME NEW s \in corpusPacks' PROVE s \in corpusPacks \/ AllCovered(s)
  <2>1. CASE WritePack(p)
    <3>1. SnapshotFits(op[p]) BY EachFits
    <3> QED BY <2>1, <3>1 DEF WritePack, SnapshotFits
  <2>2. CASE ~WritePack(p) BY <2>2, <1>4 DEF LockTimeout, PersistFails
  <2> QED BY <2>1, <2>2
<1> QED BY <1>1, <1>2, <1>3, <1>4, IdleFits, OneGoes

\* Who has the lock writes the store it read under it.
LEMMA Committing ==
  ASSUME RegwatchInv, NEW p \in Ops, op[p].at = "commit"
  PROVE  op[p] \in OpRecord /\ RecordFits(op[p]) /\ op[p].mem = disk /\ storeLock = p /\ disk \in Stores
BY EachFits DEF RegwatchInv, CommitAlone, CorpusTypes

LEMMA ReadingKeeps ==
  ASSUME RegwatchInv, NEW p \in Ops, CommitReading(p)
  PROVE  RegwatchInv'
BY Committing, ReadingReviewed, Persisted DEF CommitReading

LEMMA MarkKeeps ==
  ASSUME RegwatchInv, NEW p \in Ops, CommitMark(p)
  PROVE  RegwatchInv'
<1>1. op[p].at = "commit" /\ op[p].mem = disk /\ disk \in Stores BY Committing DEF CommitMark
<1>2. PICK new : new = Marked(disk, {op[p].f}) OBVIOUS
<1>3. Persist(p, new) /\ accepted' = accepted BY <1>1, <1>2 DEF CommitMark
<1>4. /\ new \in Stores /\ new.src = disk.src
      /\ \A f \in Frameworks : new.active[f] = NoFlag => disk.active[f] = NoFlag
  BY <1>1, <1>2, MarkedStore
<1>5. Reviewed(new)' /\ OnlyCited(new) BY <1>3, <1>4 DEF RegwatchInv, Reviewed, OnlyCited
<1>6. Longer /\ accepted' \in [Urls -> Seq(Shown)] BY <1>3 DEF RegwatchInv, CorpusTypes, Longer
<1> QED BY <1>1, <1>3, <1>4, <1>5, <1>6, Persisted

LEMMA ClearKeeps ==
  ASSUME RegwatchInv, NEW p \in Ops, CommitClear(p)
  PROVE  RegwatchInv'
<1>1. /\ op[p].at = "commit" /\ op[p].kind = "clear" /\ op[p].mem = disk /\ disk \in Stores
      /\ RecordFits(op[p])
  BY Committing DEF CommitClear
<1>2. op[p].f \in Frameworks BY <1>1 DEF RecordFits
<1> DEFINE f == op[p].f
<1>3. CASE disk.active[f] = NoFlag BY <1>1, <1>3, EndsKeep DEF CommitClear
<1>4. CASE disk.active[f] # NoFlag
  <2>1. PICK act : act = [disk.active EXCEPT ![f] = NoFlag] OBVIOUS
  <2>2. PICK past : past = Append(disk.history, [f |-> f, flag |-> disk.active[f]]) OBVIOUS
  <2>3. PICK new : new = [disk EXCEPT !.active = act, !.history = past] OBVIOUS
  <2>4. /\ disk.active \in [Frameworks -> Nat] /\ disk.history \in Seq([f : Frameworks, flag : Nat])
        /\ disk.src \in [Urls -> Shown]
    BY <1>1, StoreParts
  <2>5. disk = [active |-> disk.active, history |-> disk.history, src |-> disk.src] BY <1>1 DEF Stores
  <2>6. new = [active |-> act, history |-> past, src |-> disk.src] BY <2>3, <2>5
  <2>7. Persist(p, new) /\ Accept({u \in UrlsOf(f) : disk.src[u] # CorpusNothing}, disk)
    BY <1>1, <1>4, <2>1, <2>2, <2>3, <2>5 DEF CommitClear
  <2>8. [f |-> f, flag |-> disk.active[f]] \in [f : Frameworks, flag : Nat] BY <1>2, <2>4
  <2>9. new \in Stores
    BY <2>1, <2>4, <2>2, <2>8, <2>6 DEF NoFlag, Stores
  <2>10. /\ accepted' \in [Urls -> Seq(Shown)] /\ Longer
         /\ \A u \in Urls : u \notin {v \in UrlsOf(f) : disk.src[v] # CorpusNothing} => accepted'[u] = accepted[u]
         /\ \A u \in Urls : u \in {v \in UrlsOf(f) : disk.src[v] # CorpusNothing} =>
              accepted'[u] # <<>> /\ accepted'[u][Len(accepted'[u])] = disk.src[u]
    BY <2>7, <1>1, AcceptedLonger
  <2>11. ASSUME NEW g \in Frameworks, new.active[g] = NoFlag, NEW u \in UrlsOf(g), new.src[u] # CorpusNothing
         PROVE  accepted'[u] # <<>> /\ accepted'[u][Len(accepted'[u])] = new.src[u]
    <3>1. u \in Urls /\ new.src[u] = disk.src[u] BY <2>6, <2>11, CitedUrls
    <3>2. CASE u \in UrlsOf(f) BY <3>1, <3>2, <2>10, <2>11
    <3>3. CASE u \notin UrlsOf(f)
      <4>1. g # f BY <3>3, <2>11
      <4>2. disk.active[g] = NoFlag BY <4>1, <2>1, <2>4, <2>6, <2>11, <1>2
      <4>3. accepted[u] # <<>> /\ accepted[u][Len(accepted[u])] = disk.src[u]
        BY <3>1, <4>2, <2>11 DEF RegwatchInv, Reviewed
      <4> QED BY <3>1, <3>3, <4>3, <2>10
    <3> QED BY <3>2, <3>3
  <2>12. Reviewed(new)' BY <2>11 DEF Reviewed
  <2>13. OnlyCited(new) BY <2>6 DEF RegwatchInv, OnlyCited
  <2> QED BY <1>1, <2>7, <2>9, <2>10, <2>12, <2>13, Persisted
<1> QED BY <1>3, <1>4

LEMMA KillsKeep ==
  ASSUME RegwatchInv, NEW ps \in SUBSET Ops, CorpusKilled(ps)
  PROVE  RegwatchInv'
<1>1. op \in [Ops -> {CorpusIdle} \cup OpRecord] /\ page \in [Urls -> Texts \cup NoReadings]
  BY DEF RegwatchInv, CorpusTypes
<1>2. op' = [p \in Ops |-> IF p \in ps THEN CorpusIdle ELSE op[p]] /\ UNCHANGED <<page, disk, accepted, corpusPacks>>
  BY DEF CorpusKilled
<1>3. op' \in [Ops -> {CorpusIdle} \cup OpRecord] BY <1>1, <1>2
<1>4. \A p \in Ops : op'[p] = op[p] \/ (RecordFits(op'[p]) /\ SnapshotFits(op'[p])) BY <1>2, IdleFits
<1>5. ASSUME NEW p \in Ops, op'[p].at = "commit" PROVE storeLock' = p /\ op'[p].mem = disk
  BY <1>2, <1>5, IdleFits DEF RegwatchInv, CommitAlone, CorpusKilled
<1>6. budget' \in [runs : Nat, edits : Nat, faults : Nat] /\ budget'.runs <= MaxRuns
  BY BudgetUsed DEF CorpusKilled
<1> QED BY <1>1, <1>2, <1>3, <1>4, <1>5, <1>6, StoreAlone

LEMMA RegwatchKeeps == RegwatchInv /\ [RegwatchNext]_regwatchVars => RegwatchInv'
<1> SUFFICES ASSUME RegwatchInv, [RegwatchNext]_regwatchVars PROVE RegwatchInv' OBVIOUS
<1>1. CASE UNCHANGED regwatchVars
  BY <1>1 DEF regwatchVars, RegwatchInv, CorpusTypes, CommitAlone, OpsFit, Reviewed, OnlyCited, PacksCovered,
              AllCovered, Covered, SnapshotsCovered
<1>2. ASSUME NEW u \in Urls, EditPage(u) PROVE RegwatchInv'
  BY <1>2, BudgetUsed, StoreAlone DEF EditPage, RegwatchInv, CorpusTypes, CommitAlone
<1>3. ASSUME NEW p \in Ops, BeginCheck(p) \/ BeginFile(p) \/ BeginMark(p) \/ BeginClear(p) \/ BeginPack(p)
      PROVE  RegwatchInv'
  BY <1>3, BeginsKeep
<1>4. ASSUME NEW p \in Ops, Fly(p) \/ FallBack(p) \/ Fetched(p) \/ TakeStoreLock(p) PROVE RegwatchInv'
  BY <1>4, WalksKeep
<1>5. ASSUME NEW p \in Ops, LockTimeout(p) \/ PersistFails(p) \/ WritePack(p) PROVE RegwatchInv'
  BY <1>5, EndsKeep
<1>6. ASSUME NEW p \in Ops, Fetch(p) \/ CommitReading(p) \/ CommitMark(p) \/ CommitClear(p) PROVE RegwatchInv'
  BY <1>6, FetchKeeps, ReadingKeeps, MarkKeeps, ClearKeeps
<1>7. ASSUME NEW p \in Ops, CommandDies(p) PROVE RegwatchInv'
  BY <1>7, KillsKeep DEF CommandDies
<1>8. CASE ServeDies
  <2>1. CorpusServed \in SUBSET Ops BY DEF Ops
  <2> QED BY <2>1, <1>8, KillsKeep DEF ServeDies
<1> QED BY <1>1, <1>2, <1>3, <1>4, <1>5, <1>6, <1>7, <1>8 DEF RegwatchNext

LEMMA RegwatchReviewed == RegwatchInv => CorpusReviewed
BY DEF RegwatchInv, Reviewed, PacksCovered, AllCovered, CorpusReviewed

\* A flag goes only with its review, and the reviews go on.
LEMMA ReviewsGo ==
  ASSUME RegwatchInv, [RegwatchNext]_regwatchVars
  PROVE  /\ Len(disk'.history) >= Len(disk.history) /\ SubSeq(disk'.history, 1, Len(disk.history)) = disk.history
         /\ \A f \in Frameworks: disk.active[f] # NoFlag /\ disk'.active[f] # disk.active[f] =>
              /\ disk'.active[f] = NoFlag
              /\ \E k \in Len(disk.history) + 1..Len(disk'.history): disk'.history[k].f = f
<1>1. disk \in Stores /\ disk.active \in [Frameworks -> Nat] /\ disk.history \in Seq([f : Frameworks, flag : Nat])
  BY StoreParts DEF RegwatchInv, CorpusTypes
<1>2. Len(disk.history) \in Nat /\ SubSeq(disk.history, 1, Len(disk.history)) = disk.history BY <1>1
<1>3. CASE disk' = disk BY <1>2, <1>3
<1>4. ASSUME NEW p \in Ops, CommitReading(p)
      PROVE  disk'.history = disk.history /\ \A f \in Frameworks : disk.active[f] # NoFlag => disk'.active[f] = disk.active[f]
  <2>1. op[p].at = "commit" /\ op[p] \in OpRecord /\ op[p].mem = disk BY <1>4, Committing DEF CommitReading
  <2>2. disk' = Compared(op[p]) BY <1>4 DEF CommitReading, Persist
  <2> QED BY <2>1, <2>2, ComparedStore
<1>5. ASSUME NEW p \in Ops, CommitMark(p)
      PROVE  disk'.history = disk.history /\ \A f \in Frameworks : disk.active[f] # NoFlag => disk'.active[f] = disk.active[f]
  BY <1>5, Committing, <1>1, MarkedStore DEF CommitMark, Persist
<1>6. ASSUME NEW p \in Ops, CommitClear(p), disk' # disk
      PROVE  \E f \in Frameworks : /\ disk'.active = [disk.active EXCEPT ![f] = NoFlag]
                                   /\ disk'.history = Append(disk.history, [f |-> f, flag |-> disk.active[f]])
  BY <1>6, Committing, <1>1 DEF CommitClear, RecordFits, Persist, Stores
<1>7. ASSUME NEW p \in Ops, CommitReading(p) \/ CommitMark(p)
      PROVE  /\ Len(disk'.history) >= Len(disk.history) /\ SubSeq(disk'.history, 1, Len(disk.history)) = disk.history
             /\ \A f \in Frameworks: disk.active[f] # NoFlag => disk'.active[f] = disk.active[f]
  BY <1>2, <1>4, <1>5, <1>7
<1>8. ASSUME NEW p \in Ops, CommitClear(p), disk' # disk
      PROVE  /\ Len(disk'.history) >= Len(disk.history) /\ SubSeq(disk'.history, 1, Len(disk.history)) = disk.history
             /\ \A f \in Frameworks: disk.active[f] # NoFlag /\ disk'.active[f] # disk.active[f] =>
                  /\ disk'.active[f] = NoFlag
                  /\ \E k \in Len(disk.history) + 1..Len(disk'.history): disk'.history[k].f = f
  <2>1. PICK g \in Frameworks : /\ disk'.active = [disk.active EXCEPT ![g] = NoFlag]
                                /\ disk'.history = Append(disk.history, [f |-> g, flag |-> disk.active[g]])
    BY <1>6, <1>8
  <2>2. PICK e : e = [f |-> g, flag |-> disk.active[g]] OBVIOUS
  <2>3. e \in [f : Frameworks, flag : Nat] /\ e.f = g BY <2>2, <1>1
  <2>4. PICK h : h = disk.history OBVIOUS
  <2>5. h \in Seq([f : Frameworks, flag : Nat]) /\ disk'.history = Append(h, e) BY <1>1, <2>1, <2>2, <2>4
  <2>6. Len(Append(h, e)) = Len(h) + 1 /\ Append(h, e)[Len(h) + 1] = e /\ SubSeq(Append(h, e), 1, Len(h)) = h
    BY <2>3, <2>5
  <2>7. Len(h) + 1 \in Len(h) + 1..Len(h) + 1 BY <2>5
  <2>8. \A f \in Frameworks : disk'.active[f] # disk.active[f] => f = g /\ disk'.active[f] = NoFlag BY <2>1, <1>1
  <2>9. Len(disk'.history) = Len(h) + 1 /\ disk'.history[Len(h) + 1].f = g BY <2>3, <2>5, <2>6
  <2> QED BY <2>4, <2>5, <2>6, <2>7, <2>8, <2>9
<1>9. disk' = disk \/ \E p \in Ops : CommitReading(p) \/ CommitMark(p) \/ CommitClear(p)
  <2> USE DEF regwatchVars, RegwatchNext
  <2>1. ASSUME NEW p \in Ops,
               BeginCheck(p) \/ BeginFile(p) \/ BeginMark(p) \/ BeginClear(p) \/ BeginPack(p) \/ Fly(p) \/ Fetch(p)
                 \/ FallBack(p) \/ Fetched(p) \/ TakeStoreLock(p) \/ LockTimeout(p) \/ PersistFails(p) \/ WritePack(p)
                 \/ CommandDies(p)
        PROVE  disk' = disk
    BY <2>1 DEF BeginCheck, BeginFile, BeginMark, BeginClear, BeginPack, Begin, Fly, Fetch, FallBack, Fetched, TakeStoreLock,
                LockTimeout, PersistFails, WritePack, CommandDies, CorpusKilled
  <2> QED BY <2>1 DEF ServeDies, CorpusKilled, EditPage
<1> QED BY <1>3, <1>7, <1>8, <1>9

\* One step of the box that ReviewsKept states.
ReviewStep ==
  /\ Len(disk'.history) >= Len(disk.history) /\ SubSeq(disk'.history, 1, Len(disk.history)) = disk.history
  /\ \A f \in Frameworks : disk.active[f] # NoFlag /\ disk'.active[f] # disk.active[f] =>
       /\ disk'.active[f] = NoFlag
       /\ \E k \in Len(disk.history) + 1..Len(disk'.history) : disk'.history[k].f = f

\* What was read of the sources and differs is flagged until a named person reviewed it,
\* and a pack is only written over such texts: for any frameworks, sources, tiers of them,
\* servers and command lines (regwatch.py, staleness.py, evidence_pack.py).
THEOREM CorpusAlwaysReviewed == RegwatchSpec => []CorpusReviewed
<1> QED BY RegwatchInitHeld, RegwatchKeeps, RegwatchReviewed, PTL DEF RegwatchSpec

\* No flag and no review is lost to another writer (staleness.py, transaction).
THEOREM ReviewsAlwaysKept == RegwatchSpec => ReviewsKept
<1>1. RegwatchInv /\ [RegwatchNext]_regwatchVars => [ReviewStep]_regwatchVars BY ReviewsGo DEF ReviewStep
<1>2. RegwatchSpec => [][ReviewStep]_regwatchVars BY <1>1, RegwatchInitHeld, RegwatchKeeps, PTL DEF RegwatchSpec
<1> QED BY <1>2 DEF ReviewsKept, ReviewStep

-----------------------------------------------------------------------------
(* Sealing: a claim is checked against a key its caller's file held meanwhile.          *)

SignedClaim == [caller : CallerIds, key : CallerKeys, fault : {"none", "stale", "other body"}]
AppendRequest ==
  [at : {"received", "reading", "sealing", "answered"}, type : Types, claim : Claims, stat : Int,
   stamp : {"none", "claim", "caller_unsigned"}, code : {0, 201, 403, 503},
   seen : SUBSET (CallerKeys \cup {"bad", "absent"})]
SealRecord ==
  [type : Types, signature : SignKeys \cup {"none"}, signing_failed : BOOLEAN,
   stamp : {"none", "claim", "caller_unsigned", "own"}, claim : Claims, intact : BOOLEAN]
SealTypes ==
  /\ config \in [key : SignKeys \cup {"none"}, keyring : BOOLEAN, requireSigning : BOOLEAN, requireCaller : BOOLEAN]
  /\ keyring \in [CallerIds -> [key : CallerKeys \cup {"bad", "absent"}, mtime : Nat]]
  /\ cache \in [CallerIds -> [mtime : Int, key : CallerKeys \cup {"absent"}]]
  /\ append \in [Appends -> {SealWaiting} \cup AppendRequest]
  /\ sealChain \in Seq(SealRecord)

\* The cache answers with what the file holds, and never for a time yet to come.
CacheTrue ==
  \A c \in CallerIds :
    cache[c].mtime <= keyring[c].mtime /\ (cache[c].mtime = keyring[c].mtime => cache[c].key = keyring[c].key)

\* What an append has seen of its caller's file, and what follows from its stamp.
Claimed(q) == q.claim.caller \in CallerIds
SeenFits(q) ==
  Claimed(q) =>
    /\ q.at \in {"received", "reading", "sealing"} => keyring[q.claim.caller].key \in q.seen
    /\ keyring[q.claim.caller].mtime = 0 => q.seen \subseteq {keyring[q.claim.caller].key}
StampFits(q) ==
  /\ q.at = "received" => q.stamp = "none"
  /\ q.at = "reading" => Claimed(q) /\ q.stamp = "none" /\ q.stat <= keyring[q.claim.caller].mtime
  /\ q.stamp = "claim" => Claimed(q) /\ q.claim.key \in q.seen /\ q.claim.fault = "none"
  /\ q.at = "sealing" /\ config.requireCaller /\ q.stamp # "claim" => q.type = "stop" /\ q.stamp = "caller_unsigned"
  /\ q.at = "answered" /\ q.type = "stop" /\ q.code \in {403, 503} => q.claim # NoClaim /\ ~config.requireCaller
RequestFits(q) == SeenFits(q) /\ StampFits(q)
RequestsFit == \A a \in Appends : append[a] # SealWaiting => RequestFits(append[a])

EventFits(e) ==
  /\ e.claim # NoClaim => /\ e.claim \in SignedClaim
                          /\ keyring[e.claim.caller].mtime = 0 => keyring[e.claim.caller].key = e.claim.key
  /\ config.requireSigning /\ ~Signed(e) => e.type = "stop" /\ e.signing_failed
  /\ config.requireCaller /\ e.claim = NoClaim /\ e.stamp # "own" => e.type = "stop" /\ e.stamp = "caller_unsigned"
EventsFit == \A i \in 1..Len(sealChain) : EventFits(sealChain[i])

VerdictFits ==
  verify.verdict \notin {"none", "OK"} =>
    \/ \E i \in 1..Len(sealChain) : ~sealChain[i].intact \/ sealChain[i].signature \notin {"none", verify.pubkey}
    \/ \E c \in CallerIds : keyring[c].mtime > 0

SealInv == SealTypes /\ CacheTrue /\ RequestsFit /\ EventsFit /\ VerdictFits

LEMMA ClaimShapes ==
  /\ \A q \in Claims : q # NoClaim /\ q.caller # "incomplete" => q \in SignedClaim /\ q.caller \in CallerIds
  /\ \A q \in SignedClaim : q # NoClaim /\ q.caller \in CallerIds /\ q \in Claims
  /\ NoClaim \in Claims /\ NoClaim.caller \notin CallerIds
<1>1. NoClaim \in Claims /\ NoClaim.caller = "none" BY DEF Claims, NoClaim
<1>2. \A q \in SignedClaim : q.caller \in CallerIds /\ q \in Claims BY DEF SignedClaim, Claims
<1>3. \A q \in Claims : q = NoClaim \/ q = [caller |-> "incomplete"] \/ q \in SignedClaim BY DEF SignedClaim, Claims
<1>4. [caller |-> "incomplete"].caller = "incomplete" OBVIOUS
<1> QED BY <1>1, <1>2, <1>3, <1>4, SealingAssumption

LEMMA RequestShape == SealWaiting \notin AppendRequest /\ SealWaiting.at = "waiting"
BY DEF SealWaiting, AppendRequest

LEMMA SealTruth == SealInv => ClaimsGenuine /\ StopsLand
<1> SUFFICES ASSUME SealInv PROVE ClaimsGenuine /\ StopsLand OBVIOUS
<1>1. \A a \in Appends : append[a].at \in {"sealing", "answered"} => RequestFits(append[a])
  BY RequestShape DEF SealInv, RequestsFit
<1>2. DOMAIN sealChain = 1..Len(sealChain) BY DEF SealInv, SealTypes
<1>3. ClaimsGenuine BY <1>1, <1>2 DEF ClaimsGenuine, RequestFits, StampFits, SealInv, VerdictFits
<1>4. StopsLand BY <1>1, <1>2 DEF StopsLand, RequestFits, StampFits, SealInv, EventsFit, EventFits
<1> QED BY <1>3, <1>4

LEMMA SealInitHeld == SealingInit => SealInv
<1> SUFFICES ASSUME SealingInit PROVE SealInv OBVIOUS
<1> USE DEF SealingInit
<1>1. SealTypes BY SealingAssumption DEF SealTypes, Loaded, SigningConfig, Uncached
<1>2. CacheTrue /\ RequestsFit /\ EventsFit /\ VerdictFits
  BY DEF CacheTrue, Uncached, RequestsFit, EventsFit, VerdictFits, NoVerdict
<1> QED BY <1>1, <1>2 DEF SealInv

\* One append goes on; nothing else moves but, it may be, the cache.
LEMMA OneAppend ==
  ASSUME SealInv, NEW a \in Appends, NEW r \in AppendRequest, append' = [append EXCEPT ![a] = r],
         RequestFits(r)', CacheTrue', cache' \in [CallerIds -> [mtime : Int, key : CallerKeys \cup {"absent"}]],
         UNCHANGED <<config, keyring, sealChain, verify>>
  PROVE  SealInv'
<1>1. SealTypes' BY DEF SealInv, SealTypes
<1>3. RequestsFit'
  <2> SUFFICES ASSUME NEW b \in Appends, (append[b] # SealWaiting)' PROVE RequestFits(append[b])'
    BY DEF RequestsFit
  <2>0. append \in [Appends -> {SealWaiting} \cup AppendRequest] BY DEF SealInv, SealTypes
  <2>1. CASE b = a
    <3>1. append'[b] = r BY <2>0, <2>1
    <3> QED BY <3>1 DEF RequestFits, SeenFits, StampFits, Claimed
  <2>2. CASE b # a
    <3>1. append'[b] = append[b] BY <2>0, <2>2
    <3>2. RequestFits(append[b]) BY <3>1 DEF SealInv, RequestsFit
    <3> QED BY <3>1, <3>2 DEF RequestFits, SeenFits, StampFits, Claimed
  <2> QED BY <2>1, <2>2
<1>4. EventsFit' BY DEF SealInv, EventsFit, EventFits
<1>5. VerdictFits' BY DEF SealInv, VerdictFits
<1> QED BY <1>1, <1>3, <1>4, <1>5 DEF SealInv

\* A request that was answered or stamped is in order.
LEMMA StampedFits ==
  ASSUME SealInv, NEW a \in Appends, NEW stamp \in {"none", "claim", "caller_unsigned", "refused"},
         append[a] \in AppendRequest, append[a].at \in {"received", "reading"}, Stamped(a, stamp),
         stamp = "claim" => /\ Claimed(append[a]) /\ append[a].claim.key \in append[a].seen
                            /\ append[a].claim.fault = "none",
         stamp = "refused" /\ append[a].type = "stop" => append[a].claim # NoClaim /\ ~config.requireCaller,
         stamp = "none" => ~config.requireCaller,
         stamp = "caller_unsigned" => append[a].type = "stop",
         CacheTrue', cache' \in [CallerIds -> [mtime : Int, key : CallerKeys \cup {"absent"}]],
         UNCHANGED <<config, keyring, sealChain, verify>>
  PROVE  SealInv'
<1> DEFINE q == append[a]
<1>0. append[a] # SealWaiting /\ append \in [Appends -> {SealWaiting} \cup AppendRequest]
  BY RequestShape DEF SealInv, SealTypes
<1>1. RequestFits(q) /\ q.stamp = "none"
  BY <1>0 DEF SealInv, RequestsFit, RequestFits, StampFits
<1>2. CASE stamp = "refused"
  <2>1. PICK r : r = [q EXCEPT !.at = "answered", !.code = 403] OBVIOUS
  <2>6. r = [at |-> "answered", type |-> q.type, claim |-> q.claim, stat |-> q.stat, stamp |-> q.stamp,
             code |-> 403, seen |-> q.seen]
    BY <2>1, ZenonT(90) DEF AppendRequest
  <2>5. r \in AppendRequest BY <2>6 DEF AppendRequest
  <2>2. append' = [append EXCEPT ![a] = r] BY <1>2, <2>1, <1>0 DEF Stamped, SealAnswer
  <2>3. /\ r.at = "answered" /\ r.stamp = "none" /\ r.type = q.type /\ r.claim = q.claim /\ r.seen = q.seen
        /\ r.stat = q.stat BY <2>1, <1>1 DEF AppendRequest
  <2>4. RequestFits(r)' BY <1>1, <1>2, <2>3 DEF RequestFits, SeenFits, StampFits, Claimed
  <2> QED BY <2>2, <2>4, <2>5, OneAppend
<1>3. CASE stamp # "refused"
  <2>1. PICK r : r = [q EXCEPT !.at = "sealing", !.stamp = stamp] OBVIOUS
  <2>6. r = [at |-> "sealing", type |-> q.type, claim |-> q.claim, stat |-> q.stat, stamp |-> stamp,
             code |-> q.code, seen |-> q.seen]
    BY <2>1, ZenonT(90) DEF AppendRequest
  <2>5. r \in AppendRequest BY <1>3, <2>6 DEF AppendRequest
  <2>2. append' = [append EXCEPT ![a] = r] BY <1>3, <2>1, <1>0 DEF Stamped
  <2>3. /\ r.at = "sealing" /\ r.stamp = stamp /\ r.type = q.type /\ r.claim = q.claim /\ r.seen = q.seen
        /\ r.stat = q.stat BY <2>1, <1>1 DEF AppendRequest
  <2>4. RequestFits(r)' BY <1>1, <1>3, <2>3 DEF RequestFits, SeenFits, StampFits, Claimed
  <2> QED BY <2>2, <2>4, <2>5, OneAppend
<1> QED BY <1>2, <1>3

LEMMA CacheStays == ASSUME SealInv, UNCHANGED <<cache, keyring>>
  PROVE CacheTrue' /\ cache' \in [CallerIds -> [mtime : Int, key : CallerKeys \cup {"absent"}]]
BY DEF SealInv, SealTypes, CacheTrue

LEMMA ReceiveKeeps == ASSUME SealInv, NEW a \in Appends, Receive(a) PROVE SealInv'
<1>1. PICK type \in Types, claim \in Claims :
        append' = [append EXCEPT ![a] =
          [at |-> "received", type |-> type, claim |-> claim, stat |-> -1, stamp |-> "none", code |-> 0,
           seen |-> {keyring[c].key : c \in CallerIds \cap {claim.caller}}]]
  BY DEF Receive
<1>2. PICK S : S = {keyring[c].key : c \in CallerIds \cap {claim.caller}} OBVIOUS
<1>3. S \subseteq CallerKeys \cup {"bad", "absent"} BY <1>2 DEF SealInv, SealTypes
<1>4. PICK r : r = [at |-> "received", type |-> type, claim |-> claim, stat |-> -1, stamp |-> "none", code |-> 0,
                    seen |-> S] OBVIOUS
<1>5. r \in AppendRequest BY <1>3, <1>4 DEF AppendRequest
<1>6. RequestFits(r)'
  <2>1. claim.caller \in CallerIds => S = {keyring[claim.caller].key} BY <1>2
  <2>2. UNCHANGED <<keyring, config>> BY DEF Receive
  <2> QED BY <1>4, <2>1, <2>2 DEF RequestFits, SeenFits, StampFits, Claimed
<1>7. append' = [append EXCEPT ![a] = r] BY <1>1, <1>2, <1>4
<1> QED BY <1>5, <1>6, <1>7, OneAppend, CacheStays DEF Receive

LEMMA UnclaimedKeeps == ASSUME SealInv, NEW a \in Appends, CheckUnclaimed(a) PROVE SealInv'
<1>1. append[a] \in AppendRequest BY RequestShape DEF CheckUnclaimed, SealInv, SealTypes
<1>2. UnclaimedStamp(append[a].type) \in {"none", "caller_unsigned", "refused"} BY DEF UnclaimedStamp
<1> QED BY <1>1, <1>2, CacheStays, StampedFits DEF CheckUnclaimed, UnclaimedStamp

LEMMA UnverifiableKeeps == ASSUME SealInv, NEW a \in Appends, CheckUnverifiable(a) PROVE SealInv'
<1>1. append[a] \in AppendRequest BY RequestShape DEF CheckUnverifiable, SealInv, SealTypes
<1>2. BadClaimStamp(append[a].type) \in {"caller_unsigned", "refused"} BY DEF BadClaimStamp
<1> QED BY <1>1, <1>2, CacheStays, StampedFits DEF CheckUnverifiable, BadClaimStamp

\* A verdict on a claim by the key its caller's file holds.
LEMMA DecidedKeeps ==
  ASSUME SealInv, NEW a \in Appends, append[a] \in AppendRequest, append[a].at \in {"received", "reading"},
         append[a].claim # NoClaim, Claimed(append[a]),
         NEW key, \/ key = keyring[append[a].claim.caller].key /\ SealDecide(a, key)
                  \/ Stamped(a, BadClaimStamp(append[a].type)),
         CacheTrue', cache' \in [CallerIds -> [mtime : Int, key : CallerKeys \cup {"absent"}]],
         UNCHANGED <<config, keyring, sealChain, verify>>
  PROVE  SealInv'
<1>1. BadClaimStamp(append[a].type) \in {"caller_unsigned", "refused"} BY DEF BadClaimStamp
<1>2. keyring[append[a].claim.caller].key \in append[a].seen
  BY RequestShape DEF SealInv, RequestsFit, RequestFits, SeenFits
<1>3. CASE Stamped(a, BadClaimStamp(append[a].type)) BY <1>1, <1>3, StampedFits DEF BadClaimStamp
<1>4. CASE Stamped(a, "claim") /\ ClaimVerifies(append[a].claim, key) /\ key = keyring[append[a].claim.caller].key
  BY <1>2, <1>4, StampedFits DEF ClaimVerifies
<1> QED BY <1>3, <1>4 DEF SealDecide

LEMMA StatKeeps == ASSUME SealInv, NEW a \in Appends, StatKey(a) PROVE SealInv'
<1>1. append[a] \in AppendRequest /\ append[a] # SealWaiting BY RequestShape DEF StatKey, SealInv, SealTypes
<1>2. append[a].claim \in Claims BY <1>1 DEF AppendRequest
<1>3. Claimed(append[a]) BY <1>2, ClaimShapes DEF StatKey, Unverifiable, Claimed
<1> DEFINE c == append[a].claim.caller
<1>4. \/ keyring[c].key = "absent" /\ Stamped(a, BadClaimStamp(append[a].type))
      \/ CacheAnswers(c) /\ SealDecide(a, cache[c].key)
      \/ append' = [append EXCEPT ![a].at = "reading", ![a].stat = keyring[c].mtime]
  BY DEF StatKey
<1>5. CASE keyring[c].key = "absent" /\ Stamped(a, BadClaimStamp(append[a].type))
  BY <1>1, <1>3, <1>5, DecidedKeeps, CacheStays DEF StatKey
<1>6. CASE CacheAnswers(c) /\ SealDecide(a, cache[c].key)
  <2>1. cache[c].key = keyring[c].key BY <1>3, <1>6 DEF CacheAnswers, SealInv, CacheTrue, Claimed
  <2> QED BY <1>1, <1>3, <1>6, <2>1, DecidedKeeps, CacheStays DEF StatKey
<1>7. CASE append' = [append EXCEPT ![a].at = "reading", ![a].stat = keyring[c].mtime]
  <2>0. keyring[c].mtime \in Int BY <1>3 DEF SealInv, SealTypes, Claimed
  <2>1. PICK r : r = [append[a] EXCEPT !.at = "reading", !.stat = keyring[c].mtime] OBVIOUS
  <2>7. r = [at |-> "reading", type |-> append[a].type, claim |-> append[a].claim, stat |-> keyring[c].mtime, stamp |-> append[a].stamp,
             code |-> append[a].code, seen |-> append[a].seen]
    BY <1>1, <2>1 DEF AppendRequest
  <2>6. r \in AppendRequest BY <1>1, <2>0, <2>7 DEF AppendRequest
  <2>2. append' = [append EXCEPT ![a] = r] BY <1>7, <2>1 DEF SealInv, SealTypes
  <2>3. /\ r.at = "reading" /\ r.stamp = append[a].stamp /\ r.type = append[a].type /\ r.claim = append[a].claim
        /\ r.seen = append[a].seen /\ r.stat = keyring[c].mtime
    BY <1>1, <2>1 DEF AppendRequest
  <2>4. RequestFits(append[a]) /\ append[a].at = "received" BY <1>1 DEF SealInv, RequestsFit, StatKey
  <2>5. RequestFits(r)'
    BY <1>3, <2>0, <2>3, <2>4 DEF RequestFits, SeenFits, StampFits, Claimed, StatKey
  <2> QED BY <2>2, <2>5, <2>6, OneAppend, CacheStays DEF StatKey
<1> QED BY <1>4, <1>5, <1>6, <1>7

LEMMA ReadKeeps == ASSUME SealInv, NEW a \in Appends, ReadKey(a) PROVE SealInv'
<1>1. append[a] \in AppendRequest /\ append[a] # SealWaiting BY RequestShape DEF ReadKey, SealInv, SealTypes
<1> DEFINE c == append[a].claim.caller
<1>2. Claimed(append[a]) /\ append[a].stat <= keyring[c].mtime /\ append[a].stat \in Int
  BY <1>1 DEF SealInv, RequestsFit, RequestFits, StampFits, ReadKey, AppendRequest
<1>3. append[a].claim # NoClaim BY <1>2, ClaimShapes DEF Claimed
<1>4. CASE keyring[c].key \in CallerKeys
  <2>1. SealDecide(a, keyring[c].key) /\ cache' = [cache EXCEPT ![c] = CacheEntry(a, c)]
        /\ UNCHANGED <<config, keyring, sealChain, verify>>
    BY <1>4 DEF ReadKey
  <2>2. CacheTrue' /\ cache' \in [CallerIds -> [mtime : Int, key : CallerKeys \cup {"absent"}]]
    BY <1>2, <1>4, <2>1 DEF CacheEntry, CacheTrue, SealInv, SealTypes, Claimed
  <2> QED BY <1>1, <1>2, <1>3, <2>1, <2>2, DecidedKeeps DEF ReadKey
<1>5. CASE keyring[c].key \notin CallerKeys
  BY <1>1, <1>2, <1>3, <1>5, DecidedKeeps, CacheStays DEF ReadKey
<1> QED BY <1>4, <1>5

LEMMA WrittenFits ==
  ASSUME SealInv, NEW e \in SealRecord, EventFits(e), sealChain' = Append(sealChain, e),
         UNCHANGED <<config, keyring, cache, verify>>
  PROVE  sealChain' \in Seq(SealRecord) /\ EventsFit' /\ VerdictFits'
<1>1. sealChain \in Seq(SealRecord) /\ Len(sealChain) \in Nat BY DEF SealInv, SealTypes
<1>2. /\ sealChain' \in Seq(SealRecord) /\ Len(sealChain') = Len(sealChain) + 1
      /\ \A i \in 1..Len(sealChain) : sealChain'[i] = sealChain[i]
      /\ sealChain'[Len(sealChain) + 1] = e
  BY <1>1
<1>3. EventsFit' BY <1>1, <1>2 DEF SealInv, EventsFit, EventFits
<1>4. VerdictFits' BY <1>1, <1>2 DEF SealInv, VerdictFits
<1> QED BY <1>2, <1>3, <1>4

LEMMA EventShape ==
  ASSUME SealInv, NEW type \in Types, NEW stamp \in {"none", "claim", "caller_unsigned", "own"}, NEW claim \in Claims
  PROVE  /\ SealEvent(type, stamp, claim) \in SealRecord
         /\ LET e == SealEvent(type, stamp, claim)
            IN  /\ e.type = type /\ e.stamp = stamp /\ e.signature = config.key
                /\ e.signing_failed = (config.key = "none" /\ config.requireSigning)
                /\ e.claim = IF stamp = "claim" THEN claim ELSE NoClaim
<1>1. NoClaim \in Claims BY ClaimShapes
<1>2. SigningFailed \in BOOLEAN BY DEF SigningFailed
<1>3. config.key \in SignKeys \cup {"none"} BY DEF SealInv, SealTypes
<1> QED BY <1>1, <1>2, <1>3 DEF SealEvent, SealRecord, SigningFailed

LEMMA AnsweredIs ==
  ASSUME NEW T, append \in [Appends -> T], NEW a \in Appends, NEW code, SealAnswer(a, code)
  PROVE  \A U : (\A b \in Appends : append'[b] \in U) => append' \in [Appends -> U]
<1>1. PICK r : r = [append[a] EXCEPT !.at = "answered", !.code = code] OBVIOUS
<1>2. append' = [append EXCEPT ![a] = r] BY <1>1 DEF SealAnswer
<1> QED BY <1>2

LEMMA SealKeeps == ASSUME SealInv, NEW a \in Appends, Seal(a) PROVE SealInv'
<1> DEFINE q == append[a]
<1>1. append[a] \in AppendRequest /\ append[a] # SealWaiting BY RequestShape DEF Seal, SealInv, SealTypes
<1>2. RequestFits(q) /\ q.at = "sealing" BY <1>1 DEF SealInv, RequestsFit, Seal
<1>3. ASSUME NEW code \in {201, 503}, SealAnswer(a, code), code = 503 => q.type # "stop",
             UNCHANGED <<config, keyring, cache>>
      PROVE  append' \in [Appends -> {SealWaiting} \cup AppendRequest] /\ RequestsFit'
  <2>1. PICK r : r = [q EXCEPT !.at = "answered", !.code = code] OBVIOUS
  <2>2. r = [at |-> "answered", type |-> q.type, claim |-> q.claim, stat |-> q.stat, stamp |-> q.stamp,
             code |-> code, seen |-> q.seen]
    BY <1>1, <2>1 DEF AppendRequest
  <2>3. r \in AppendRequest BY <1>1, <1>3, <2>2 DEF AppendRequest
  <2>4. append \in [Appends -> {SealWaiting} \cup AppendRequest] BY DEF SealInv, SealTypes
  <2>9. append' = [append EXCEPT ![a].at = "answered", ![a].code = code] BY <1>3 DEF SealAnswer
  <2>10. append'[a] = r BY <2>1, <2>4, <2>9
  <2>11. \A b \in Appends : b # a => append'[b] = append[b] BY <2>4, <2>9
  <2>6. RequestFits(r)' BY <1>2, <1>3, <2>2 DEF RequestFits, SeenFits, StampFits, Claimed
  <2>7. ASSUME NEW b \in Appends, (append[b] # SealWaiting)' PROVE RequestFits(append[b])'
    <3>1. CASE b = a
      <4>1. append'[b] = r BY <2>10, <3>1
      <4> QED BY <4>1, <2>6 DEF RequestFits, SeenFits, StampFits, Claimed
    <3>2. CASE b # a
      <4>1. append'[b] = append[b] BY <2>11, <3>2
      <4>2. RequestFits(append[b]) BY <2>7, <4>1 DEF SealInv, RequestsFit
      <4> QED BY <1>3, <4>1, <4>2 DEF RequestFits, SeenFits, StampFits, Claimed
    <3> QED BY <3>1, <3>2
  <2>8. RequestsFit' BY <2>7 DEF RequestsFit
  <2>12. \A b \in Appends : append'[b] \in {SealWaiting} \cup AppendRequest BY <2>3, <2>4, <2>10, <2>11
  <2>13. SealAnswer(a, code) BY <1>3
  <2>5. append' \in [Appends -> {SealWaiting} \cup AppendRequest] BY <2>4, <2>12, <2>13, AnsweredIs
  <2> QED BY <2>5, <2>8
<1>4. CASE Appendable(q.type)
  <2>1. PICK e : e = SealEvent(q.type, q.stamp, q.claim) OBVIOUS
  <2>2. sealChain' = Append(sealChain, e) /\ SealAnswer(a, 201) /\ UNCHANGED <<config, keyring, cache, verify>>
    BY <1>4, <2>1 DEF Seal
  <2>3. /\ q.type \in Types /\ q.stamp \in {"none", "claim", "caller_unsigned"} /\ q.claim \in Claims
        /\ q.seen \subseteq CallerKeys \cup {"bad", "absent"}
    BY <1>1 DEF AppendRequest
  <2>4. /\ e \in SealRecord /\ e.type = q.type /\ e.stamp = q.stamp /\ e.signature = config.key
        /\ e.signing_failed = (config.key = "none" /\ config.requireSigning)
        /\ e.claim = IF q.stamp = "claim" THEN q.claim ELSE NoClaim
    BY <2>1, <2>3, EventShape
  <2>5. e.claim # NoClaim => /\ e.claim \in SignedClaim
                             /\ keyring[e.claim.caller].mtime = 0 => keyring[e.claim.caller].key = e.claim.key
    <3>1. SUFFICES ASSUME q.stamp = "claim" PROVE q.claim \in SignedClaim
                   /\ (keyring[q.claim.caller].mtime = 0 => keyring[q.claim.caller].key = q.claim.key)
      BY <2>4
    <3>2. Claimed(q) /\ q.claim.key \in q.seen BY <1>2, <3>1 DEF RequestFits, StampFits
    <3>3. q.claim \in SignedClaim BY <2>3, <3>2, ClaimShapes, SealingAssumption DEF Claimed
    <3> QED BY <1>2, <3>2, <3>3 DEF RequestFits, SeenFits
  <2>6. config.requireSigning /\ ~Signed(e) => e.type = "stop" /\ e.signing_failed
    BY <1>4, <2>4 DEF Signed, Appendable
  <2>7. config.requireCaller /\ e.claim = NoClaim /\ e.stamp # "own" => e.type = "stop" /\ e.stamp = "caller_unsigned"
    <3>1. CASE q.stamp = "claim"
      <4>1. Claimed(q) BY <1>2, <3>1 DEF RequestFits, StampFits
      <4> QED BY <2>4, <3>1, <4>1, ClaimShapes DEF Claimed
    <3>2. CASE q.stamp # "claim" BY <1>2, <2>4, <3>2 DEF RequestFits, StampFits
    <3> QED BY <3>1, <3>2
  <2>8. EventFits(e) BY <2>5, <2>6, <2>7 DEF EventFits
  <2>9. sealChain' \in Seq(SealRecord) /\ EventsFit' /\ VerdictFits' BY <2>2, <2>4, <2>8, WrittenFits
  <2>10. append' \in [Appends -> {SealWaiting} \cup AppendRequest] /\ RequestsFit' BY <1>3, <2>2
  <2> QED BY <2>2, <2>9, <2>10 DEF SealInv, SealTypes, CacheTrue
<1>5. CASE ~Appendable(q.type)
  <2>1. SealAnswer(a, 503) /\ q.type # "stop" /\ UNCHANGED <<config, keyring, cache, sealChain, verify>>
    BY <1>5 DEF Seal, Appendable
  <2>2. append' \in [Appends -> {SealWaiting} \cup AppendRequest] /\ RequestsFit' BY <1>3, <2>1
  <2> QED BY <2>1, <2>2 DEF SealInv, SealTypes, CacheTrue, EventsFit, EventFits, VerdictFits
<1> QED BY <1>4, <1>5

LEMMA OwnKeeps == ASSUME SealInv, OwnAppend PROVE SealInv'
<1>1. PICK e : e = SealEvent("start", "own", NoClaim) OBVIOUS
<1>2. /\ e \in SealRecord /\ e.type = "start" /\ e.stamp = "own" /\ e.signature = config.key /\ e.claim = NoClaim
  BY <1>1, EventShape, ClaimShapes DEF Types
<1>3. EventFits(e) BY <1>2 DEF EventFits, OwnAppend, Appendable, Signed
<1>4. sealChain' \in Seq(SealRecord) /\ EventsFit' /\ VerdictFits' BY <1>1, <1>2, <1>3, WrittenFits DEF OwnAppend
<1>5. UNCHANGED <<config, keyring, cache, append>> BY DEF OwnAppend
<1>6. SealTypes' /\ CacheTrue' BY <1>4, <1>5 DEF SealInv, SealTypes, CacheTrue
<1>7. RequestsFit' BY <1>5 DEF SealInv, RequestsFit, RequestFits, SeenFits, StampFits, Claimed
<1> QED BY <1>4, <1>6, <1>7 DEF SealInv

LEMMA AlterKeeps == ASSUME SealInv, AlterEvent PROVE SealInv'
<1>1. PICK i \in 1..Len(sealChain) : sealChain' = [sealChain EXCEPT ![i].intact = FALSE]
  <2>1. DOMAIN sealChain = 1..Len(sealChain) BY DEF SealInv, SealTypes
  <2> QED BY <2>1 DEF AlterEvent
<1>2. PICK e : e = [sealChain[i] EXCEPT !.intact = FALSE] OBVIOUS
<1>3. sealChain \in Seq(SealRecord) /\ sealChain[i] \in SealRecord BY DEF SealInv, SealTypes
<1>4. /\ e \in SealRecord /\ ~e.intact /\ e.type = sealChain[i].type /\ e.signature = sealChain[i].signature
      /\ e.signing_failed = sealChain[i].signing_failed /\ e.stamp = sealChain[i].stamp /\ e.claim = sealChain[i].claim
  BY <1>2, <1>3 DEF SealRecord
<1>5. /\ sealChain' \in Seq(SealRecord) /\ Len(sealChain') = Len(sealChain) /\ sealChain'[i] = e
      /\ \A j \in 1..Len(sealChain) : j # i => sealChain'[j] = sealChain[j]
  <2>1. sealChain' = [sealChain EXCEPT ![i] = e] BY <1>1, <1>2
  <2>2. sealChain' \in Seq(SealRecord) /\ Len(sealChain') = Len(sealChain) BY <1>3, <1>4, <2>1
  <2> QED BY <1>3, <2>1, <2>2
<1>6. UNCHANGED <<config, keyring, cache, append, verify>> BY DEF AlterEvent
<1>7. SealTypes' /\ CacheTrue' BY <1>5, <1>6 DEF SealInv, SealTypes, CacheTrue
<1>8. RequestsFit' BY <1>6 DEF SealInv, RequestsFit, RequestFits, SeenFits, StampFits, Claimed
<1>9. EventsFit' BY <1>4, <1>5, <1>6 DEF SealInv, EventsFit, EventFits, Signed
<1>10. VerdictFits' BY <1>4, <1>5, <1>6 DEF VerdictFits
<1> QED BY <1>7, <1>8, <1>9, <1>10 DEF SealInv

LEMMA VerifyKeepsSeal == ASSUME SealInv, Verify PROVE SealInv'
<1>1. PICK k \in SignKeys : verify' = [verdict |-> CheckSignatures(k), pubkey |-> k] BY DEF Verify
<1>2. UNCHANGED <<config, keyring, cache, append, sealChain>> BY DEF Verify
<1>3. DOMAIN sealChain = 1..Len(sealChain) /\ \A i \in 1..Len(sealChain) : sealChain[i] \in SealRecord
  BY DEF SealInv, SealTypes
<1>4. ASSUME \A c \in CallerIds : keyring[c].mtime = 0, \A i \in 1..Len(sealChain) : sealChain[i].intact,
             \A i \in 1..Len(sealChain) : sealChain[i].signature \in {"none", k}
      PROVE  CheckSignatures(k) = "OK"
  <2>1. \A i \in 1..Len(sealChain) : EventSignatureHolds(sealChain[i], k) BY <1>4 DEF EventSignatureHolds, Signed
  <2>2. \A i \in 1..Len(sealChain) : sealChain[i].claim # NoClaim =>
          /\ keyring[sealChain[i].claim.caller].key = sealChain[i].claim.key
          /\ sealChain[i].claim.key \in CallerKeys
    BY <1>4 DEF SealInv, EventsFit, EventFits, SignedClaim
  <2>3. \A i \in 1..Len(sealChain) : CallerSignatureHolds(sealChain[i]) BY <1>4, <2>2 DEF CallerSignatureHolds
  <2> QED BY <1>3, <2>1, <2>2, <2>3 DEF CheckSignatures
<1>5. \A c \in CallerIds : keyring[c].mtime = 0 \/ keyring[c].mtime > 0 BY DEF SealInv, SealTypes
<1>6. VerdictFits' BY <1>1, <1>2, <1>4, <1>5 DEF VerdictFits
<1>7. SealTypes' /\ CacheTrue' /\ RequestsFit' /\ EventsFit'
  BY <1>2 DEF SealInv, SealTypes, CacheTrue, RequestsFit, RequestFits, SeenFits, StampFits, Claimed, EventsFit, EventFits
<1> QED BY <1>6, <1>7 DEF SealInv

LEMMA ImportKeeps == ASSUME SealInv, NEW c \in CallerIds, ImportKey(c) PROVE SealInv'
<1>1. PICK k \in CallerKeys \cup {"bad", "absent"} :
        /\ keyring' = [keyring EXCEPT ![c] = [key |-> k, mtime |-> @.mtime + 1]]
        /\ append' = [a \in Appends |-> IF InFlight(a) /\ append[a].claim.caller = c
                                        THEN [append[a] EXCEPT !.seen = @ \cup {k}] ELSE append[a]]
  BY DEF ImportKey
<1>2. UNCHANGED <<config, cache, sealChain, verify>> BY DEF ImportKey
<1>3. /\ keyring' \in [CallerIds -> [key : CallerKeys \cup {"bad", "absent"}, mtime : Nat]]
      /\ keyring[c].mtime \in Nat /\ keyring'[c].key = k /\ keyring'[c].mtime = keyring[c].mtime + 1
      /\ \A d \in CallerIds : d # c => keyring'[d] = keyring[d]
      /\ \A d \in CallerIds : keyring[d].mtime \in Nat /\ cache[d].mtime \in Int
  BY <1>1 DEF SealInv, SealTypes
<1>4. CacheTrue'
  <2>1. \A d \in CallerIds : cache'[d] = cache[d] /\ cache[d].mtime <= keyring[d].mtime
    BY <1>2 DEF SealInv, CacheTrue
  <2> QED BY <1>3, <2>1 DEF SealInv, CacheTrue
<1>5. ASSUME NEW a \in Appends, append'[a] # SealWaiting
      PROVE  append'[a] \in AppendRequest /\ RequestFits(append[a])'
  <2>0. append[a] \in {SealWaiting} \cup AppendRequest BY DEF SealInv, SealTypes
  <2>1. CASE InFlight(a) /\ append[a].claim.caller = c
    <3>1. append[a] \in AppendRequest BY <2>0, <2>1, RequestShape DEF InFlight
    <3>2. RequestFits(append[a]) BY <3>1, RequestShape DEF SealInv, RequestsFit
    <3>3. append'[a] = [append[a] EXCEPT !.seen = append[a].seen \cup {k}] BY <1>1, <2>1
    <3>4. /\ append'[a] \in AppendRequest /\ append'[a].at = append[a].at /\ append'[a].type = append[a].type
          /\ append'[a].claim = append[a].claim /\ append'[a].stat = append[a].stat
          /\ append'[a].stamp = append[a].stamp /\ append'[a].code = append[a].code
          /\ append'[a].seen = append[a].seen \cup {k}
      <4>4. PICK S : S = append[a].seen \cup {k} OBVIOUS
      <4>5. PICK q : q = append[a] OBVIOUS
      <4>6. PICK r : r = [q EXCEPT !.seen = S] OBVIOUS
      <4>7. append'[a] = r BY <3>3, <4>4, <4>5, <4>6
      <4>8. r = [at |-> q.at, type |-> q.type, claim |-> q.claim, stat |-> q.stat, stamp |-> q.stamp,
                 code |-> q.code, seen |-> S]
        BY <3>1, <4>5, <4>6 DEF AppendRequest
      <4>1. append'[a] = [at |-> append[a].at, type |-> append[a].type, claim |-> append[a].claim,
                          stat |-> append[a].stat, stamp |-> append[a].stamp, code |-> append[a].code, seen |-> S]
        BY <4>5, <4>7, <4>8
      <4>2. S \subseteq CallerKeys \cup {"bad", "absent"} BY <3>1, <4>4 DEF AppendRequest
      <4>3. append'[a] \in AppendRequest BY <3>1, <4>1, <4>2 DEF AppendRequest
      <4> QED BY <4>1, <4>3, <4>4
    <3>5. append[a].stat \in Int BY <3>1 DEF AppendRequest
    <3>6. SeenFits(append[a])' BY <1>3, <2>1, <3>4 DEF SeenFits, Claimed
    <3>7. StampFits(append[a])' BY <1>2, <1>3, <2>1, <3>2, <3>4, <3>5 DEF RequestFits, StampFits, Claimed
    <3> QED BY <3>4, <3>6, <3>7 DEF RequestFits
  <2>2. CASE ~(InFlight(a) /\ append[a].claim.caller = c)
    <3>1. append'[a] = append[a] BY <1>1, <2>2
    <3>2. append[a] \in AppendRequest /\ RequestFits(append[a]) BY <1>5, <2>0, <3>1 DEF SealInv, RequestsFit
    <3>3. append[a].stat \in Int BY <3>2 DEF AppendRequest
    <3>4. SeenFits(append[a])' BY <1>3, <2>2, <3>1, <3>2 DEF RequestFits, SeenFits, Claimed, InFlight
    <3>5. StampFits(append[a])' BY <1>2, <1>3, <3>1, <3>2, <3>3 DEF RequestFits, StampFits, Claimed
    <3> QED BY <3>1, <3>2, <3>4, <3>5 DEF RequestFits
  <2> QED BY <2>1, <2>2
<1>6. append' \in [Appends -> {SealWaiting} \cup AppendRequest]
  <2>1. append' = [a \in Appends |-> append'[a]] BY <1>1
  <2>2. \A a \in Appends : append'[a] \in {SealWaiting} \cup AppendRequest BY <1>5
  <2> QED BY <2>1, <2>2
<1>7. SealTypes' BY <1>2, <1>3, <1>6 DEF SealInv, SealTypes
<1>8. RequestsFit' BY <1>5 DEF RequestsFit
<1>9. EventsFit'
  <2>1. \A e \in SignedClaim : e.caller \in CallerIds BY ClaimShapes
  <2>2. ASSUME NEW i \in 1..Len(sealChain) PROVE EventFits(sealChain[i])'
    <3>1. EventFits(sealChain[i]) /\ sealChain'[i] = sealChain[i] BY <1>2 DEF SealInv, EventsFit
    <3>2. CASE sealChain[i].claim = NoClaim BY <1>2, <3>1, <3>2 DEF EventFits, Signed
    <3>3. CASE sealChain[i].claim # NoClaim
      <4>1. sealChain[i].claim \in SignedClaim /\ sealChain[i].claim.caller \in CallerIds
        BY <2>1, <3>1, <3>3 DEF EventFits
      <4>2. keyring'[sealChain[i].claim.caller].mtime = 0 => keyring'[sealChain[i].claim.caller].key = sealChain[i].claim.key
        <5>1. CASE sealChain[i].claim.caller = c BY <1>3, <5>1
        <5>2. CASE sealChain[i].claim.caller # c BY <1>3, <3>1, <3>3, <4>1, <5>2 DEF EventFits
        <5> QED BY <5>1, <5>2
      <4> QED BY <1>2, <3>1, <4>1, <4>2 DEF EventFits, Signed
    <3> QED BY <3>2, <3>3
  <2> QED BY <1>2, <2>2 DEF EventsFit
<1>10. VerdictFits' BY <1>2, <1>3 DEF SealInv, VerdictFits
<1> QED BY <1>4, <1>7, <1>8, <1>9, <1>10 DEF SealInv

LEMMA RestartKeeps == ASSUME SealInv, Restart PROVE SealInv'
<1>1. /\ config' = Loaded(config) /\ cache' = [c \in CallerIds |-> Uncached]
      /\ append' = [a \in Appends |-> IF InFlight(a) THEN [append[a] EXCEPT !.at = "answered", !.code = 0]
                                      ELSE append[a]]
      /\ UNCHANGED <<keyring, sealChain, verify>>
  BY DEF Restart
<1>2. /\ config' \in [key : SignKeys \cup {"none"}, keyring : BOOLEAN, requireSigning : BOOLEAN, requireCaller : BOOLEAN]
      /\ config'.requireSigning = config.requireSigning /\ config'.requireCaller = config.requireCaller
  BY <1>1 DEF Loaded, SigningConfig, SealInv, SealTypes
<1>10. config'.requireCaller <=> config.requireCaller BY <1>2
<1>11. keyring' = keyring BY <1>1
<1>3. ASSUME NEW a \in Appends, append'[a] # SealWaiting
      PROVE  append'[a] \in AppendRequest /\ RequestFits(append[a])'
  <2>0. append[a] \in {SealWaiting} \cup AppendRequest BY DEF SealInv, SealTypes
  <2>1. CASE InFlight(a)
    <3>1. append[a] \in AppendRequest BY <2>0, <2>1, RequestShape DEF InFlight
    <3>2. RequestFits(append[a]) BY <3>1, RequestShape DEF SealInv, RequestsFit
    <3>3. append'[a] = [append[a] EXCEPT !.at = "answered", !.code = 0] BY <1>1, <2>1
    <3>4. append'[a] = [at |-> "answered", type |-> append[a].type, claim |-> append[a].claim,
                        stat |-> append[a].stat, stamp |-> append[a].stamp, code |-> 0, seen |-> append[a].seen]
      <4>1. PICK q : q = append[a] OBVIOUS
      <4>2. PICK r : r = [q EXCEPT !.at = "answered", !.code = 0] OBVIOUS
      <4>3. append'[a] = r BY <3>3, <4>1, <4>2
      <4>4. r = [at |-> "answered", type |-> q.type, claim |-> q.claim, stat |-> q.stat, stamp |-> q.stamp,
                 code |-> 0, seen |-> q.seen]
        BY <3>1, <4>1, <4>2 DEF AppendRequest
      <4> QED BY <4>1, <4>3, <4>4
    <3>5. append'[a] \in AppendRequest BY <3>1, <3>4 DEF AppendRequest
    <3>6. SeenFits(append[a])' BY <1>1, <3>2, <3>4 DEF RequestFits, SeenFits, Claimed
    <3>8. /\ append'[a].at = "answered" /\ append'[a].stamp = append[a].stamp /\ append'[a].claim = append[a].claim
          /\ append'[a].code = 0 /\ append'[a].seen = append[a].seen
      BY <3>4
    <3>9. append[a].stamp = "claim" =>
            Claimed(append[a]) /\ append[a].claim.key \in append[a].seen /\ append[a].claim.fault = "none"
      BY <3>2 DEF RequestFits, StampFits
    <3>7. StampFits(append[a])' BY <3>8, <3>9 DEF StampFits, Claimed
    <3> QED BY <3>5, <3>6, <3>7 DEF RequestFits
  <2>2. CASE ~InFlight(a)
    <3>1. append'[a] = append[a] BY <1>1, <2>2
    <3>2. append[a] \in AppendRequest /\ RequestFits(append[a]) BY <1>3, <2>0, <3>1 DEF SealInv, RequestsFit
    <3>3. SeenFits(append[a])' BY <1>1, <3>1, <3>2 DEF RequestFits, SeenFits, Claimed
    <3>5. PICK q : q = append[a] OBVIOUS
    <3>6. StampFits(q) /\ append'[a] = q BY <3>1, <3>2, <3>5 DEF RequestFits
    <3>7. StampFits(q)' BY <1>10, <1>11, <3>6 DEF StampFits, Claimed
    <3>4. StampFits(append[a])' BY <3>6, <3>7 DEF StampFits, Claimed
    <3> QED BY <3>1, <3>2, <3>3, <3>4 DEF RequestFits
  <2> QED BY <2>1, <2>2
<1>4. append' \in [Appends -> {SealWaiting} \cup AppendRequest]
  <2>1. append' = [a \in Appends |-> append'[a]] BY <1>1
  <2>2. \A a \in Appends : append'[a] \in {SealWaiting} \cup AppendRequest BY <1>3
  <2> QED BY <2>1, <2>2
<1>9. Uncached \in [mtime : Int, key : CallerKeys \cup {"absent"}] /\ Uncached.mtime = -1 BY DEF Uncached
<1>5. SealTypes'
  <2>1. cache' \in [CallerIds -> [mtime : Int, key : CallerKeys \cup {"absent"}]] BY <1>1, <1>9
  <2> QED BY <1>1, <1>2, <1>4, <2>1 DEF SealInv, SealTypes
<1>6. CacheTrue'
  <2>1. \A c \in CallerIds : cache'[c].mtime = -1 /\ keyring'[c] = keyring[c] /\ keyring[c].mtime \in Nat
    BY <1>1, <1>9 DEF SealInv, SealTypes
  <2> QED BY <2>1 DEF CacheTrue
<1>7. RequestsFit' BY <1>3 DEF RequestsFit
<1>8. EventsFit' /\ VerdictFits' BY <1>1, <1>2 DEF SealInv, EventsFit, EventFits, VerdictFits
<1> QED BY <1>5, <1>6, <1>7, <1>8 DEF SealInv

LEMMA SealingKeeps == SealInv /\ [SealingNext]_sealingVars => SealInv'
<1> SUFFICES ASSUME SealInv, [SealingNext]_sealingVars PROVE SealInv' OBVIOUS
<1>1. ASSUME UNCHANGED <<config, keyring, cache, append, sealChain, verify>> PROVE SealInv'
  BY <1>1 DEF SealInv, SealTypes, CacheTrue, RequestsFit, RequestFits, SeenFits, StampFits, Claimed,
    EventsFit, EventFits, VerdictFits
<1>2. CASE UNCHANGED sealingVars BY <1>1, <1>2 DEF sealingVars
<1>3. CASE ReplaceSignKey BY <1>1, <1>3 DEF ReplaceSignKey
<1>4. CASE \E a \in Appends : Receive(a) \/ CheckUnclaimed(a) \/ CheckUnverifiable(a)
                              \/ StatKey(a) \/ ReadKey(a) \/ Seal(a)
  BY <1>4, ReceiveKeeps, UnclaimedKeeps, UnverifiableKeeps, StatKeeps, ReadKeeps, SealKeeps
<1> QED BY <1>2, <1>3, <1>4, ImportKeeps, RestartKeeps, OwnKeeps, AlterKeeps, VerifyKeepsSeal DEF SealingNext

\* A stored claim is its caller's, and a stop is always written (CallerPolicy, _seal).
THEOREM ClaimsAlwaysGenuine == SealingSpec => [](ClaimsGenuine /\ StopsLand)
<1> QED BY SealTruth, SealInitHeld, SealingKeeps, PTL DEF SealingSpec

-----------------------------------------------------------------------------
(* The composition *)

\* OperatorsToldTrue in every behaviour of the composition: no alarm without a loss, and
\* what a ledger command tells its operator is what it did.
THEOREM OperatorsAlwaysToldTrue == Spec => []OperatorsToldTrue
<1> DEFINE Inv == /\ part = "witness" => WitnessInv
                  /\ part = "ledgercli" => CliInv
<1>1. Init => Inv BY WitnessInitHeld, CliInitHeld DEF Init
<1>2. Inv /\ [Next]_Vars => Inv'
  <2>1. ASSUME Inv, [Next]_Vars, part' = "witness" PROVE WitnessInv'
    BY <2>1, WitnessKeeps DEF Next, Vars
  <2>2. ASSUME Inv, [Next]_Vars, part' = "ledgercli" PROVE CliInv'
    BY <2>2, CliKeptOn DEF Next, Vars
  <2> QED BY <2>1, <2>2
<1>3. Inv => OperatorsToldTrue BY NoAlarm, CliTruth DEF OperatorsToldTrue
<1> QED BY <1>1, <1>2, <1>3, PTL DEF Spec

\* ReportsSound in every behaviour of the composition: a post-mortem, a board pack, its
\* files and the corpus say what they left out, add up, are published whole and were
\* reviewed.
THEOREM ReportsAlwaysSound == Spec => []ReportsSound
<1> DEFINE Inv == /\ part = "replay" => ReplayInv
                  /\ part = "boardpack" => PackInv
                  /\ part = "packfile" => FileInv
                  /\ RegwatchInv
<1>1. Init => Inv BY ReplayInitHeld, PackInitHeld, FileInitHeld, RegwatchInitHeld DEF Init
<1>2. Inv /\ [Next]_Vars => Inv'
  <2>1. ASSUME Inv, [Next]_Vars, part' = "replay" PROVE ReplayInv'
    BY <2>1, ReplayKeeps DEF Next, Vars
  <2>2. ASSUME Inv, [Next]_Vars, part' = "boardpack" PROVE PackInv'
    BY <2>2, PackKeeps DEF Next, Vars
  <2>3. ASSUME Inv, [Next]_Vars, part' = "packfile" PROVE FileInv'
    BY <2>3, FileKeeps DEF Next, Vars
  <2>4. ASSUME Inv, [Next]_Vars PROVE RegwatchInv'
    BY <2>4, RegwatchKeeps DEF Next, Vars
  <2> QED BY <2>1, <2>2, <2>3, <2>4
<1>3. Inv => ReportsSound BY ReplayTruth, PackTruth, FileTruth, RegwatchReviewed DEF ReportsSound
<1> QED BY <1>1, <1>2, <1>3, PTL DEF Spec

\* NothingForgotten in every behaviour of the composition: a witnessed loss stays visible,
\* and no flag and no review is dropped.
THEOREM NothingIsForgotten == Spec => NothingForgotten
<1> DEFINE Inv == /\ part = "witness" => WitnessInv /\ WitnessPast
                  /\ RegwatchInv
           FileFact == witnessFile \in Seq(AnchorRecord) => (FileFails <=> FileBroken)
<1>1. Init => Inv BY WitnessInitHeld, PastInit, RegwatchInitHeld DEF Init
<1>2. Inv /\ [Next]_Vars => Inv'
  <2>1. ASSUME Inv, [Next]_Vars, part' = "witness" PROVE WitnessInv' /\ WitnessPast'
    BY <2>1, WitnessKeeps, PastStep DEF Next, Vars
  <2>2. ASSUME Inv, [Next]_Vars PROVE RegwatchInv'
    BY <2>2, RegwatchKeeps DEF Next, Vars
  <2> QED BY <2>1, <2>2
<1>3. FileFact BY FileFailsIs
<1>4. Inv /\ [Next]_Vars /\ FileFact' => [LossStep]_witnessVars
  <2> SUFFICES ASSUME Inv, [Next]_Vars, FileFact' PROVE [LossStep]_witnessVars OBVIOUS
  <2>1. CASE part = "witness"
    BY <2>1, WitnessKeeps, LossStays DEF Next, Vars
  <2>2. CASE part # "witness"
    <3>1. UNCHANGED witnessVars BY <2>2 DEF Next, Vars
    <3> QED BY <3>1
  <2> QED BY <2>1, <2>2
<1>5. Inv /\ [Next]_Vars => [ReviewStep]_regwatchVars
  BY ReviewsGo DEF Next, Vars, ReviewStep
<1>6. Spec => [][LossStep]_witnessVars BY <1>1, <1>2, <1>3, <1>4, PTL DEF Spec
<1>7. Spec => [][ReviewStep]_regwatchVars BY <1>1, <1>2, <1>5, PTL DEF Spec
<1> QED BY <1>6, <1>7 DEF NothingForgotten, LossNeverHeals, LossStep, ReviewsKept, ReviewStep
=============================================================================
