---------------------------- MODULE AuthorityProofs ----------------------------
(***************************************************************************)
(* What Authority guarantees for any number of agents, requests, workers   *)
(* and faults, and whatever the requests ask for.                          *)
(***************************************************************************)
EXTENDS Authority, FiniteSetTheorems, TLAPS

-----------------------------------------------------------------------------
(* Frames and the calls between handlers keep their types.                  *)

\* A frame that goes on at a label with an outcome (Resumed) is a frame.
LEMMA ResumedFrame ==
  ASSUME NEW q \in Frame, NEW l \in Label, NEW ok \in BOOLEAN
  PROVE  Resumed(q, l, ok) \in Frame
<1>1. /\ "done" \in Label /\ "active" \in Status /\ "none" \in Null(Workers)
      /\ {} \in SUBSET Token /\ {} \in SUBSET Agents
  BY DEF Label, Status, Null
<1>2. CASE l = "done"
  BY <1>1, <1>2 DEF Resumed, Idle, Frame
<1>3. CASE l # "done"
  BY <1>3 DEF Resumed, Frame
<1> QED BY <1>2, <1>3

\* A handler that answers its caller (Returned) leaves a frame.
LEMMA ReturnedFrame ==
  ASSUME NEW q \in Frame, NEW ok \in BOOLEAN
  PROVE  Returned(q, ok) \in Frame
<1>1. q.back \in Label
  BY DEF Frame
<1> QED BY <1>1, ResumedFrame DEF Returned

\* A frame that waits for the registry (Patching) is a frame.
LEMMA PatchingFrame ==
  ASSUME NEW q \in Frame, NEW l \in Label, NEW m \in Label
  PROVE  Patching(q, l, m) \in Frame
<1>1. "wait" \in Label /\ q.n + 1 \in Nat
  BY DEF Label, Frame
<1> QED BY <1>1 DEF Patching, Frame

\* A request whose pc is not idle has a frame.
LEMMA MadeFrame ==
  ASSUME AuthorityTypeOK, NEW r \in Req, rq[r].pc # "idle"
  PROVE  rq[r] \in Frame
BY DEF AuthorityTypeOK, Idle

\* Become keeps the type of rq.
LEMMA BecomeType ==
  ASSUME AuthorityTypeOK, NEW r \in Req, NEW f \in Frame, Become(r, f)
  PROVE  rq' \in [Req -> {Idle} \union Frame]
BY DEF AuthorityTypeOK, Become

\* Going on at another label (Goto) keeps the type of rq.
LEMMA GotoType ==
  ASSUME AuthorityTypeOK, NEW r \in Req, rq[r].pc # "idle", NEW l \in Label, Goto(r, l)
  PROVE  rq' \in [Req -> {Idle} \union Frame]
BY MadeFrame, BecomeType DEF Frame, Goto

\* So does an answer to the caller (Return).
LEMMA ReturnType ==
  ASSUME AuthorityTypeOK, NEW r \in Req, rq[r].pc # "idle", NEW ok \in BOOLEAN, Return(r, ok)
  PROVE  rq' \in [Req -> {Idle} \union Frame]
<1>1. rq[r] \in Frame
  BY MadeFrame
<1> QED BY <1>1, ReturnedFrame, BecomeType DEF Return

\* Sending a PATCH keeps the types of rq and patch.
LEMMA SendPatchType ==
  ASSUME AuthorityTypeOK, NEW r \in Req, NEW q \in Frame, NEW a \in Agents,
         NEW to \in Status \union {"edit"}, NEW l \in Label, NEW m \in Label,
         SendPatch(r, q, a, to, l, m)
  PROVE  rq' \in [Req -> {Idle} \union Frame] /\ patch' \subseteq Patch
<1>1. rq' \in [Req -> {Idle} \union Frame]
  BY PatchingFrame, BecomeType DEF SendPatch
<1>2. q.n + 1 \in Nat
  BY DEF Frame
<1>3. [by |-> r, n |-> q.n + 1, a |-> a, to |-> to, st |-> "guard",
       from |-> "none", wait |-> TRUE] \in Patch
  BY <1>2 DEF Patch, Null
<1> QED BY <1>1, <1>3 DEF SendPatch, AuthorityTypeOK

\* A note keeps the types of gaps and faults, taken or lost.
LEMMA NoteType ==
  ASSUME AuthorityTypeOK, NEW svc \in Services, NEW e, Note(svc, e)
  PROVE  gaps' \in [Services -> Nat] /\ faults' \in Nat
BY DEF AuthorityTypeOK, Note, Appended, AppendFails, Fault

\* Locking and unlocking keep the type of held.
LEMMA HeldType ==
  ASSUME AuthorityTypeOK, NEW w, NEW t, NEW v \in Null(Req)
  PROVE  [held EXCEPT ![w][t] = v] \in [Workers -> [Token -> Null(Req)]]
<1>1. CASE w \in Workers
  BY <1>1 DEF AuthorityTypeOK
<1>2. CASE w \notin Workers
  BY <1>2 DEF AuthorityTypeOK
<1> QED BY <1>1, <1>2

\* A fault keeps the type of faults.
LEMMA FaultType == ASSUME AuthorityTypeOK, Fault PROVE faults' \in Nat
BY DEF AuthorityTypeOK, Fault

\* So does a ledger call, taken or refused.
LEMMA AppendType ==
  ASSUME AuthorityTypeOK, NEW e, Appended(e) \/ AppendFails(e)
  PROVE  faults' \in Nat
BY DEF AuthorityTypeOK, Appended, AppendFails, Fault

-----------------------------------------------------------------------------
(* AuthorityTypeOK, action by action.                                       *)

\* The initial state is well typed.
LEMMA InitType == Init => AuthorityTypeOK
<1> SUFFICES ASSUME Init PROVE AuthorityTypeOK
  OBVIOUS
<1>1. reg \in [Agents -> Record]
  BY DEF Init, InitRegistry, Record, Status, Null
<1>2. token \in [Token -> StoredToken]
  BY DEF Init, InitDelegation, NoToken, StoredToken, Null
<1>3. held \in [Workers -> [Token -> Null(Req)]]
  BY DEF Init, InitDelegation, Null
<1>4. /\ patch \subseteq Patch /\ gaps \in [Services -> Nat] /\ faults \in Nat
      /\ rq \in [Req -> {Idle} \union Frame]
  BY DEF Init, InitRegistry
<1> QED BY <1>1, <1>2, <1>3, <1>4 DEF AuthorityTypeOK

\* A request that is made gets a frame (Start).
LEMMA StartType ==
  ASSUME AuthorityTypeOK, NEW r \in Req, Start(r)
  PROVE  AuthorityTypeOK'
<1>1. PICK op \in Asks[r], a \in Agents :
        \E t \in IF op \in {"revoke", "check"} THEN Token ELSE {"none"},
           w \in IF op \in {"mint", "revoke", "decommission"} THEN Workers ELSE {"none"} :
          Become(r, [Idle EXCEPT !.op = op, !.pc = op, !.a = a, !.t = t, !.w = w,
                                 !.seen = IF op = "check" THEN Succeeded ELSE {}])
  BY DEF Start
<1>2. PICK t \in IF op \in {"revoke", "check"} THEN Token ELSE {"none"},
           w \in IF op \in {"mint", "revoke", "decommission"} THEN Workers ELSE {"none"} :
          Become(r, [Idle EXCEPT !.op = op, !.pc = op, !.a = a, !.t = t, !.w = w,
                                 !.seen = IF op = "check" THEN Succeeded ELSE {}])
  BY <1>1
<1>3. op \in Operations /\ op \in Label
  <2>1. op \in Operations
    BY AsksAssumption
  <2> QED BY <2>1 DEF Operations, Label, InDelegation
<1>4. t \in Null(Token) /\ w \in Null(Workers) /\ Succeeded \subseteq Token
  BY DEF Null, Token, Succeeded
<1>5. "done" \in Label /\ "active" \in Status
  BY DEF Label, Status
<1>6. [Idle EXCEPT !.op = op, !.pc = op, !.a = a, !.t = t, !.w = w,
                   !.seen = IF op = "check" THEN Succeeded ELSE {}] \in Frame
  BY <1>3, <1>4, <1>5 DEF Idle, Frame
<1>7. rq' \in [Req -> {Idle} \union Frame]
  BY <1>2, <1>6, BecomeType
<1> QED BY <1>7 DEF AuthorityTypeOK, Start, dvars

\* What the registry does with a PATCH (guard, write, note).
LEMMA RegistryStepType ==
  ASSUME AuthorityTypeOK, NEW p \in patch, RegistryStep(p), UNCHANGED dvars
  PROVE  AuthorityTypeOK'
<1>1. p \in Patch
  BY DEF AuthorityTypeOK
<1>2. ASSUME NEW st \in {"guard", "write", "note", "ok", "refused"}, Answer(p, st)
      PROVE  patch' \subseteq Patch
  BY <1>1, <1>2 DEF Patch, Answer, AuthorityTypeOK
<1>3. ASSUME NEW st \in {"guard", "write", "note", "ok", "refused"}, NEW from \in Status,
             Proceed(p, st, from)
      PROVE  patch' \subseteq Patch
  BY <1>1, <1>3 DEF Patch, Null, Proceed, AuthorityTypeOK
<1>4. p.a \in Agents /\ p.by \in Req /\ p.to \in Status \union {"edit"} /\ reg[p.a] \in Record
  BY <1>1 DEF Patch, AuthorityTypeOK
<1>5. reg[p.a].status \in Status
  BY <1>4 DEF Record
<1>6. CASE PatchGuard(p)
  BY <1>6, <1>2, <1>3, <1>5 DEF PatchGuard, AuthorityTypeOK, dvars
<1>7. CASE PatchWrite(p)
  <2>1. patch' \subseteq Patch
    BY <1>7, <1>2, <1>3, <1>5 DEF PatchWrite
  <2>2. [reg[p.a] EXCEPT !.record = p.by] \in Record
    BY <1>4 DEF Record, Null
  <2>3. p.to # "edit" => [reg[p.a] EXCEPT !.status = p.to] \in Record
    BY <1>4 DEF Record
  <2>4. reg' \in [Agents -> Record]
    BY <1>7, <1>4, <2>2, <2>3 DEF PatchWrite, Updated, AuthorityTypeOK
  <2> QED BY <1>7, <2>1, <2>4 DEF PatchWrite, AuthorityTypeOK, dvars
<1>8. CASE PatchNote(p)
  BY <1>8, <1>2, NoteType DEF PatchNote, Services, AuthorityTypeOK, dvars
<1> QED BY <1>6, <1>7, <1>8 DEF RegistryStep

\* The answer to a PATCH or its timeout, an edit, an attestation.
LEMMA OperatorStepType ==
  ASSUME AuthorityTypeOK, NEW r \in Req, OperatorStep(r), UNCHANGED dvars
  PROVE  AuthorityTypeOK'
<1>1. rq[r].pc # "idle"
  BY DEF OperatorStep, PatchReturn, PatchTimeout, Edit, Attest, AttestNote
<1>2. rq[r] \in Frame
  BY <1>1, MadeFrame
<1>3. rq[r].then \in Label /\ rq[r].orelse \in Label /\ rq[r].a \in Agents
  BY <1>2 DEF Frame
<1>4. /\ Resumed(rq[r], rq[r].then, TRUE) \in Frame
      /\ Resumed(rq[r], rq[r].orelse, FALSE) \in Frame
  BY <1>2, <1>3, ResumedFrame
<1>5. CASE PatchReturn(r)
  BY <1>5, <1>4, BecomeType DEF PatchReturn, AuthorityTypeOK, dvars
<1>6. CASE PatchTimeout(r)
  <2>1. rq' \in [Req -> {Idle} \union Frame]
    BY <1>6, <1>4, BecomeType DEF PatchTimeout
  <2>2. \A p \in patch : [p EXCEPT !.wait = FALSE] \in Patch
    BY DEF AuthorityTypeOK, Patch
  <2>3. patch' \subseteq Patch
    BY <1>6, <2>2 DEF PatchTimeout, AuthorityTypeOK
  <2> QED BY <1>6, <2>1, <2>3 DEF PatchTimeout, Fault, AuthorityTypeOK, dvars
<1>7. CASE Edit(r)
  BY <1>7, <1>2, <1>3, SendPatchType DEF Label, Edit, AuthorityTypeOK, dvars
<1>8. CASE Attest(r)
  <2>1. "attested" \in Label
    BY DEF Label
  <2>2. rq' \in [Req -> {Idle} \union Frame]
    BY <1>8, <1>1, <2>1, GotoType, ReturnType DEF Attest
  <2>3. reg[rq[r].a] \in Record
    BY <1>3 DEF AuthorityTypeOK
  <2>4. [reg[rq[r].a] EXCEPT !.attested = r] \in Record
    BY <2>3 DEF Record, Null
  <2>5. reg' \in [Agents -> Record]
    BY <1>8, <1>3, <2>4 DEF Attest, AuthorityTypeOK
  <2> QED BY <1>8, <2>2, <2>5 DEF Attest, AuthorityTypeOK, dvars
<1>9. CASE AttestNote(r)
  BY <1>9, <1>1, ReturnType, NoteType DEF AttestNote, Services, AuthorityTypeOK, dvars
<1> QED BY <1>5, <1>6, <1>7, <1>8, <1>9 DEF OperatorStep

\* Mint and revoke.
LEMMA DelegationStepType ==
  ASSUME AuthorityTypeOK, NEW r \in Req, DelegationStep(r)
  PROVE  AuthorityTypeOK'
<1>1. rq[r].pc # "idle"
  BY DEF DelegationStep, MintRead, MintLedger, MintSave, RevokeRead, RevokeLock, RevokeLedger,
         RevokeSave
<1>2. rq[r] \in Frame
  BY <1>1, MadeFrame
<1>3. rq[r].a \in Agents /\ rq[r].t \in Null(Token)
  BY <1>2 DEF Frame
<1>4. {"mint_ledger", "mint_save", "revoke_lock", "revoke_ledger", "revoke_save"} \subseteq Label
  BY DEF Label, InDelegation
<1>5. r \in Token /\ r \in Null(Req) /\ "none" \in Null(Req)
  BY DEF Token, Null
<1>6. Free(r) => held' \in [Workers -> [Token -> Null(Req)]]
  BY <1>5, HeldType DEF Free
<1>7. CASE MintRead(r)
  BY <1>7, <1>1, <1>4, GotoType, ReturnType, FaultType DEF MintRead, AuthorityTypeOK, dvars
<1>8. CASE MintLedger(r)
  BY <1>8, <1>1, <1>4, GotoType, ReturnType, AppendType DEF MintLedger, AuthorityTypeOK, dvars
<1>9. CASE MintSave(r)
  BY <1>9, <1>1, ReturnType, <1>3 DEF MintSave, StoredToken, Null, AuthorityTypeOK
<1>10. CASE RevokeRead(r)
  BY <1>10, <1>1, <1>4, GotoType, ReturnType DEF RevokeRead, AuthorityTypeOK, dvars
<1>11. CASE RevokeLock(r)
  <2>1. rq' \in [Req -> {Idle} \union Frame]
    BY <1>11, <1>1, <1>4, GotoType, ReturnType DEF RevokeLock
  <2>2. held' \in [Workers -> [Token -> Null(Req)]]
    <3>1. held' = held \/ held' = [held EXCEPT ![rq[r].w][rq[r].t] = r]
      BY <1>11 DEF RevokeLock
    <3>2. [held EXCEPT ![rq[r].w][rq[r].t] = r] \in [Workers -> [Token -> Null(Req)]]
      BY <1>5, HeldType
    <3> QED BY <3>1, <3>2 DEF AuthorityTypeOK
  <2> QED BY <1>11, <2>1, <2>2 DEF RevokeLock, AuthorityTypeOK
<1>12. CASE RevokeLedger(r)
  BY <1>12, <1>1, <1>4, GotoType, ReturnType, <1>6, AppendType DEF RevokeLedger, AuthorityTypeOK
<1>13. CASE RevokeSave(r)
  <2>1. rq' \in [Req -> {Idle} \union Frame]
    BY <1>13, <1>1, ReturnType DEF RevokeSave
  <2>2. held' \in [Workers -> [Token -> Null(Req)]]
    BY <1>13, <1>6 DEF RevokeSave
  <2>3. \A t \in Token : [token[t] EXCEPT !.st = "revoked", !.rid = t] \in StoredToken
    BY DEF StoredToken, Null, AuthorityTypeOK
  <2>4. token' \in [Token -> StoredToken]
    BY <1>13, <2>3 DEF RevokeSave, RevocationId, AuthorityTypeOK
  <2> QED BY <1>13, <2>1, <2>2, <2>4 DEF RevokeSave, AuthorityTypeOK
<1> QED BY <1>7, <1>8, <1>9, <1>10, <1>11, <1>12, <1>13 DEF DelegationStep

\* A killed process of the delegation authority.
LEMMA CrashType ==
  ASSUME AuthorityTypeOK, NEW w \in Workers, DelegationCrash(w)
  PROVE  AuthorityTypeOK'
<1>1. ASSUME NEW r \in Req, Serves(w, r)
      PROVE  Returned(rq[r], FALSE) \in Frame
  <2>1. rq[r].pc # "idle"
    BY <1>1 DEF Serves, InDelegation
  <2> QED BY <2>1, MadeFrame, ReturnedFrame
<1>2. rq' \in [Req -> {Idle} \union Frame]
  BY <1>1 DEF DelegationCrash, AuthorityTypeOK
<1>3. held' \in [Workers -> [Token -> Null(Req)]]
  BY DEF DelegationCrash, AuthorityTypeOK, Null
<1>4. faults' \in Nat
  BY FaultType DEF DelegationCrash
<1> QED BY <1>2, <1>3, <1>4 DEF DelegationCrash, AuthorityTypeOK

\* Kill, domain kill, revive and drill.
LEMMA KillSwitchStepType ==
  ASSUME AuthorityTypeOK, NEW r \in Req, KillSwitchStep(r), UNCHANGED dvars
  PROVE  AuthorityTypeOK'
<1>1. rq[r].pc # "idle"
  BY DEF KillSwitchStep, KillRead, KillSignal, KillNote, DomainList, DomainNext, ReviveRead,
         ReviveNote, DrillRead, DrillConfirm, DrillBeat, DrillRestore, DrillVerify, DrillFailed,
         DrillReport
<1>2. rq[r] \in Frame
  BY <1>1, MadeFrame
<1>3. /\ rq[r].a \in Agents /\ rq[r].back \in Label /\ rq[r].prev \in Status
      /\ rq[r].ok \in BOOLEAN /\ rq[r].ret \in BOOLEAN /\ rq[r].left \in SUBSET Agents
  BY <1>2 DEF Frame
<1>4. {"done", "kill", "kill_signal", "kill_note", "domain_next", "revive_note", "drill_confirm",
       "drill_beat", "drill_restore", "drill_verify", "drill_failed", "drill_report"} \subseteq Label
  BY DEF Label
<1>5. StatusOf(r) \in Status /\ "killed" \in Status /\ "active" \in Status
  BY <1>3 DEF StatusOf, AuthorityTypeOK, Record, Status
<1>6. ASSUME Unreachable(r)
      PROVE  AuthorityTypeOK'
  BY <1>1, <1>6, ReturnType, FaultType DEF Unreachable, AuthorityTypeOK, dvars
<1>7. CASE KillRead(r)
  <2>1. CASE Unreachable(r)
    BY <1>6, <2>1
  <2>2. CASE ~ Unreachable(r)
    <3>1. rq' \in [Req -> {Idle} \union Frame] /\ patch' \subseteq Patch
      <4>1. CASE Return(r, FALSE) /\ UNCHANGED patch
        BY <4>1, <1>1, ReturnType DEF AuthorityTypeOK
      <4>2. CASE Goto(r, "kill_signal") /\ UNCHANGED patch
        BY <4>2, <1>1, <1>4, GotoType DEF AuthorityTypeOK
      <4>3. CASE SendPatch(r, rq[r], rq[r].a, "killed", "kill_signal", rq[r].back)
        BY <4>3, <1>2, <1>3, <1>4, <1>5, SendPatchType
      <4> QED BY <1>7, <2>2, <4>1, <4>2, <4>3 DEF KillRead
    <3>2. UNCHANGED <<reg, ledger, gaps, faults>>
      BY <1>7, <2>2 DEF KillRead
    <3> QED BY <3>1, <3>2 DEF AuthorityTypeOK, dvars
  <2> QED BY <2>1, <2>2
<1>8. CASE KillSignal(r)
  BY <1>8, <1>1, <1>4, GotoType, NoteType DEF KillSignal, Services, AuthorityTypeOK, dvars
<1>9. CASE KillNote(r)
  BY <1>9, <1>1, <1>4, ReturnType, NoteType DEF KillNote, Services, AuthorityTypeOK, dvars
<1>10. CASE DomainList(r)
  <2>1. CASE Unreachable(r)
    BY <1>6, <2>1
  <2>2. CASE ~ Unreachable(r)
    <3> DEFINE live == {a \in Agents : reg[a].status # "retired"}
    <3>1. [rq[r] EXCEPT !.pc = "domain_next", !.left = live, !.ok = live = {}, !.ret = FALSE]
            \in Frame
      <4>1. live \in SUBSET Agents /\ (live = {}) \in BOOLEAN
        OBVIOUS
      <4> HIDE DEF live
      <4> QED BY <1>2, <1>4, <4>1 DEF Frame
    <3>2. rq' \in [Req -> {Idle} \union Frame]
      BY <1>10, <2>2, <3>1, BecomeType DEF DomainList
    <3> QED BY <1>10, <2>2, <3>2 DEF DomainList, AuthorityTypeOK, dvars
  <2> QED BY <2>1, <2>2
<1>11. CASE DomainNext(r)
  <2> DEFINE q == [rq[r] EXCEPT !.ok = rq[r].ok \/ rq[r].ret]
  <2>1. q \in Frame /\ q.left = rq[r].left /\ q.ok \in BOOLEAN
    BY <1>2, <1>3 DEF Frame
  <2>2. CASE /\ q.left = {}
             /\ Note("killswitch", Event("kill.domain", "none", r, "none"))
             /\ Become(r, Resumed(q, "done", q.ok))
    <3>1. rq' \in [Req -> {Idle} \union Frame]
      <4> HIDE DEF q
      <4> QED BY <2>1, <2>2, <1>4, ResumedFrame, BecomeType
    <3>2. gaps' \in [Services -> Nat] /\ faults' \in Nat
      BY <2>2, NoteType DEF Services
    <3> QED BY <1>11, <3>1, <3>2 DEF DomainNext, AuthorityTypeOK, dvars
  <2>3. ASSUME NEW a \in q.left,
               Become(r, [q EXCEPT !.pc = "kill", !.back = "domain_next", !.a = a,
                                   !.left = @ \ {a}]),
               UNCHANGED <<ledger, gaps, faults>>
        PROVE  AuthorityTypeOK'
    <3>1. a \in Agents
      BY <2>1, <1>3
    <3>2. [q EXCEPT !.pc = "kill", !.back = "domain_next", !.a = a, !.left = @ \ {a}] \in Frame
      <4> HIDE DEF q
      <4> QED BY <2>1, <3>1, <1>4 DEF Frame
    <3>3. rq' \in [Req -> {Idle} \union Frame]
      BY <2>3, <3>2, BecomeType
    <3> QED BY <1>11, <2>3, <3>3 DEF DomainNext, AuthorityTypeOK, dvars
  <2> QED BY <1>11, <2>2, <2>3 DEF DomainNext
<1>12. CASE ReviveRead(r)
  <2>1. CASE Unreachable(r)
    BY <1>6, <2>1
  <2>2. CASE ~ Unreachable(r)
    <3>1. rq' \in [Req -> {Idle} \union Frame] /\ patch' \subseteq Patch
      <4>1. CASE Return(r, FALSE) /\ UNCHANGED patch
        BY <4>1, <1>1, ReturnType DEF AuthorityTypeOK
      <4>2. CASE SendPatch(r, rq[r], rq[r].a, "active", "revive_note", "done")
        BY <4>2, <1>2, <1>3, <1>4, <1>5, SendPatchType
      <4> QED BY <1>12, <2>2, <4>1, <4>2 DEF ReviveRead
    <3> QED BY <1>12, <2>2, <3>1 DEF ReviveRead, AuthorityTypeOK, dvars
  <2> QED BY <2>1, <2>2
<1>13. CASE ReviveNote(r)
  BY <1>13, <1>1, <1>4, ReturnType, NoteType DEF ReviveNote, Services, AuthorityTypeOK, dvars
<1>14. CASE DrillRead(r)
  <2>1. CASE Unreachable(r)
    BY <1>6, <2>1
  <2>2. CASE Return(r, FALSE) /\ UNCHANGED <<reg, patch, ledger, gaps, faults>>
    BY <1>1, <2>2, ReturnType DEF AuthorityTypeOK, dvars
  <2>3. CASE /\ Note("killswitch", Event("kill.drill.start", rq[r].a, r, "none"))
             /\ SendPatch(r, [rq[r] EXCEPT !.prev = StatusOf(r)], rq[r].a, "killed",
                          "drill_confirm", "drill_restore")
             /\ UNCHANGED reg
    BY <1>2, <1>5, <2>3, <1>3, <1>4, SendPatchType, NoteType DEF Frame, Services, AuthorityTypeOK, dvars
  <2> QED BY <1>14, <2>1, <2>2, <2>3 DEF DrillRead
<1>15. Resumed(rq[r], "drill_restore", FALSE) \in Frame
  BY <1>2, <1>4, ResumedFrame
<1>16. CASE DrillConfirm(r)
  BY <1>2, <1>4, <1>16, <1>15, BecomeType, FaultType DEF Frame, DrillConfirm, AuthorityTypeOK, dvars
<1>17. CASE DrillBeat(r)
  <2>1. rq' \in [Req -> {Idle} \union Frame]
    BY <1>17, <1>1, <1>4, <1>15, BecomeType, GotoType DEF DrillBeat
  <2>2. gaps' \in [Services -> Nat] /\ faults' \in Nat
    BY <1>17, NoteType, FaultType DEF DrillBeat, Services, AuthorityTypeOK
  <2> QED BY <1>17, <2>1, <2>2 DEF DrillBeat, AuthorityTypeOK, dvars
<1>18. CASE DrillRestore(r)
  BY <1>2, <1>3, <1>18, <1>4, SendPatchType DEF Frame, DrillRestore, AuthorityTypeOK, dvars
<1>19. ASSUME NEW b \in BOOLEAN, DrillEnd(r, b)
       PROVE  rq' \in [Req -> {Idle} \union Frame] /\ gaps' \in [Services -> Nat] /\ faults' \in Nat
  BY <1>2, <1>3, <1>4, ResumedFrame, <1>19, BecomeType, NoteType DEF DrillEnd, Services, AuthorityTypeOK
<1>20. CASE DrillVerify(r)
  <2>1. CASE DrillEnd(r, StatusOf(r) = rq[r].prev)
    BY <1>19, <1>20, <2>1 DEF DrillVerify, AuthorityTypeOK, dvars
  <2>2. CASE Fault /\ Goto(r, "drill_failed") /\ UNCHANGED <<ledger, gaps>>
    BY <1>1, <1>4, <2>2, GotoType, FaultType, <1>20 DEF DrillVerify, AuthorityTypeOK, dvars
  <2> QED BY <1>20, <2>1, <2>2 DEF DrillVerify
<1>21. CASE DrillFailed(r)
  BY <1>21, <1>1, <1>4, GotoType, NoteType DEF DrillFailed, Services, AuthorityTypeOK, dvars
<1>22. CASE DrillReport(r)
  BY <1>19, <1>22 DEF DrillReport, AuthorityTypeOK, dvars
<1> QED BY <1>7, <1>8, <1>9, <1>10, <1>11, <1>12, <1>13, <1>14, <1>16, <1>17, <1>18, <1>20,
           <1>21, <1>22 DEF KillSwitchStep

\* Decommission.
LEMMA LifecycleStepType ==
  ASSUME AuthorityTypeOK, NEW r \in Req, LifecycleStep(r)
  PROVE  AuthorityTypeOK'
<1>1. rq[r].pc # "idle"
  BY DEF LifecycleStep, DecommissionRead, DecommissionList, DecommissionRevoke,
         DecommissionRetire, DecommissionNote
<1>2. rq[r] \in Frame
  BY <1>1, MadeFrame
<1>3. /\ rq[r].a \in Agents /\ rq[r].ok \in BOOLEAN /\ rq[r].ret \in BOOLEAN
      /\ rq[r].todo \in SUBSET Token
  BY <1>2 DEF Frame
<1>4. {"done", "kill", "revoke", "dec_list", "dec_revoke", "dec_retire", "dec_note"} \subseteq Label
  BY DEF Label, InDelegation
<1>5. StatusOf(r) \in Status /\ "retired" \in Status
  BY <1>3 DEF StatusOf, AuthorityTypeOK, Record, Status
<1>6. CASE DecommissionRead(r)
  <2>1. [rq[r] EXCEPT !.pc = "dec_list", !.prev = StatusOf(r)] \in Frame
    BY <1>2, <1>4, <1>5 DEF Frame
  <2>2. rq' \in [Req -> {Idle} \union Frame]
    BY <1>1, <1>6, <2>1, BecomeType, ReturnType DEF DecommissionRead, Unreachable
  <2>3. faults' \in Nat
    BY <1>6, FaultType, AppendType DEF DecommissionRead, Unreachable, AuthorityTypeOK
  <2> QED BY <1>6, <2>2, <2>3 DEF DecommissionRead, AuthorityTypeOK, dvars
<1>7. CASE DecommissionList(r)
  <2> DEFINE mine == {t \in Token : token[t].agent = rq[r].a /\ token[t].st = "active"}
  <2>1. [rq[r] EXCEPT !.pc = "dec_revoke", !.todo = mine, !.seen = mine] \in Frame
    <3>1. mine \in SUBSET Token
      OBVIOUS
    <3> HIDE DEF mine
    <3> QED BY <1>2, <1>4, <3>1 DEF Frame
  <2>2. Resumed(rq[r], "dec_revoke", FALSE) \in Frame
    BY <1>2, <1>4, ResumedFrame
  <2>3. rq' \in [Req -> {Idle} \union Frame]
    BY <1>1, <1>7, <2>1, <2>2, BecomeType, ReturnType DEF DecommissionList
  <2>4. faults' \in Nat
    BY <1>7, FaultType DEF DecommissionList, AuthorityTypeOK
  <2> QED BY <1>7, <2>3, <2>4 DEF DecommissionList, AuthorityTypeOK, dvars
<1>8. CASE DecommissionRevoke(r)
  <2> DEFINE q == [rq[r] EXCEPT !.ok = rq[r].ok /\ rq[r].ret]
  <2>1. q \in Frame /\ q.todo \in SUBSET Token
    BY <1>2, <1>3 DEF Frame
  <2>2. /\ [q EXCEPT !.pc = "kill", !.back = "dec_retire"] \in Frame
        /\ [q EXCEPT !.pc = "dec_retire", !.ret = TRUE] \in Frame
    <3> HIDE DEF q
    <3> QED BY <2>1, <1>4 DEF Frame
  <2>3. \A t \in q.todo :
          [q EXCEPT !.pc = "revoke", !.back = "dec_revoke", !.t = t, !.todo = @ \ {t}] \in Frame
    <3> HIDE DEF q
    <3> SUFFICES ASSUME NEW t \in q.todo
                 PROVE  [q EXCEPT !.pc = "revoke", !.back = "dec_revoke", !.t = t,
                                  !.todo = @ \ {t}] \in Frame
      OBVIOUS
    <3>1. t \in Null(Token) /\ q.todo \ {t} \in SUBSET Token
      BY <2>1 DEF Null
    <3> QED BY <2>1, <3>1, <1>4 DEF Frame
  <2>4. rq' \in [Req -> {Idle} \union Frame]
    BY <1>8, <2>2, <2>3, BecomeType DEF DecommissionRevoke
  <2> QED BY <1>8, <2>4 DEF DecommissionRevoke, AuthorityTypeOK, dvars
<1>9. CASE DecommissionRetire(r)
  BY <1>2, <1>3, <1>9, <1>4, <1>5, SendPatchType DEF Frame, DecommissionRetire, AuthorityTypeOK, dvars
<1>10. CASE DecommissionNote(r)
  BY <1>2, <1>3, <1>4, ResumedFrame, <1>10, BecomeType, AppendType DEF DecommissionNote, AuthorityTypeOK,
    dvars
<1> QED BY <1>6, <1>7, <1>8, <1>9, <1>10 DEF LifecycleStep

\* A check.
LEMMA SentinelStepType ==
  ASSUME AuthorityTypeOK, NEW r \in Req, SentinelStep(r)
  PROVE  AuthorityTypeOK'
<1>1. rq[r].pc # "idle"
  BY DEF SentinelStep, CheckAgent, CheckToken, CheckAllow
<1>2. "check_token" \in Label /\ "check_allow" \in Label
  BY DEF Label
<1>3. ASSUME Refuse(r)
      PROVE  rq' \in [Req -> {Idle} \union Frame] /\ gaps' \in [Services -> Nat] /\ faults' \in Nat
  BY <1>1, <1>3, ReturnType, AppendType DEF Refuse, AuthorityTypeOK
<1>4. CASE CheckAgent(r)
  BY <1>1, <1>2, <1>3, <1>4, GotoType, ReturnType, AppendType DEF CheckAgent, AuthorityTypeOK, dvars
<1>5. CASE CheckToken(r)
  BY <1>1, <1>2, <1>3, <1>5, GotoType DEF CheckToken, AuthorityTypeOK, dvars
<1>6. CASE CheckAllow(r)
  BY <1>1, <1>6, ReturnType, AppendType DEF CheckAllow, AuthorityTypeOK, dvars
<1> QED BY <1>4, <1>5, <1>6 DEF SentinelStep

\* Every step keeps every variable's type.
LEMMA TypeStep == AuthorityTypeOK /\ [Next]_avars => AuthorityTypeOK'
<1> SUFFICES ASSUME AuthorityTypeOK, [Next]_avars
             PROVE  AuthorityTypeOK'
  OBVIOUS
<1>1. CASE UNCHANGED avars
  BY <1>1 DEF AuthorityTypeOK, avars, rvars, dvars
<1>2. ASSUME NEW r \in Req, Start(r) \/ Step(r)
      PROVE  AuthorityTypeOK'
  BY <1>2, StartType, OperatorStepType, KillSwitchStepType, DelegationStepType,
     LifecycleStepType, SentinelStepType DEF Step
<1>3. CASE ServePatch
  BY <1>3, RegistryStepType DEF ServePatch
<1>4. ASSUME NEW w \in Workers, DelegationCrash(w)
      PROVE  AuthorityTypeOK'
  BY <1>4, CrashType
<1> QED BY <1>1, <1>2, <1>3, <1>4 DEF Next

\* The types of AuthorityTypeOK hold in every reachable state: in particular a
\* request is always about a registered agent and waits at a label some handler
\* serves.
THEOREM AuthorityTypeCorrect == Spec => []AuthorityTypeOK
<1> QED BY InitType, TypeStep, PTL DEF Spec

-----------------------------------------------------------------------------
(* Retired is terminal.                                                     *)

\* Neither the kill-switch nor the lifecycle manager nor the delegation authority
\* nor the sentinel writes the registry's table itself.
LEMMA RegKept ==
  ASSUME NEW r, Start(r) \/ KillSwitchStep(r) \/ DelegationStep(r) \/ LifecycleStep(r)
                  \/ SentinelStep(r)
  PROVE  UNCHANGED reg
<1>1. CASE Start(r)
  BY <1>1 DEF Start
<1>2. CASE KillSwitchStep(r)
  BY <1>2 DEF KillSwitchStep, KillRead, KillSignal, KillNote, DomainList, DomainNext,
              ReviveRead, ReviveNote, DrillRead, DrillConfirm, DrillBeat, DrillRestore,
              DrillVerify, DrillFailed, DrillReport, Unreachable
<1>3. CASE DelegationStep(r)
  BY <1>3 DEF DelegationStep, MintRead, MintLedger, MintSave, RevokeRead, RevokeLock,
              RevokeLedger, RevokeSave
<1>4. CASE LifecycleStep(r)
  BY <1>4 DEF LifecycleStep, DecommissionRead, DecommissionList, DecommissionRevoke,
              DecommissionRetire, DecommissionNote
<1>5. CASE SentinelStep(r)
  BY <1>5 DEF SentinelStep, CheckAgent, CheckToken, CheckAllow
<1> QED BY <1>1, <1>2, <1>3, <1>4, <1>5

\* The two writes of the table (update_with_previous, attest) leave a retired
\* agent's row alone, whatever their callers read before.
LEMMA RetiredStep ==
  ASSUME AuthorityTypeOK, [Next]_avars, NEW a \in Agents, reg[a].status = "retired"
  PROVE  reg'[a] = reg[a]
<1>1. CASE UNCHANGED avars
  BY <1>1 DEF avars, rvars
<1>2. ASSUME NEW r \in Req, OperatorStep(r)
      PROVE  reg'[a] = reg[a]
  <2>1. CASE Attest(r)
    BY <2>1 DEF Attest, AuthorityTypeOK
  <2>2. CASE PatchReturn(r) \/ PatchTimeout(r) \/ Edit(r) \/ AttestNote(r)
    BY <2>2 DEF PatchReturn, PatchTimeout, Edit, AttestNote
  <2> QED BY <1>2, <2>1, <2>2 DEF OperatorStep
<1>3. ASSUME NEW p \in patch, RegistryStep(p)
      PROVE  reg'[a] = reg[a]
  <2>1. p \in Patch /\ reg[p.a] \in Record
    BY DEF AuthorityTypeOK, Patch
  <2>2. CASE PatchWrite(p)
    <3>1. CASE RefusedWhenRetired(p)
      BY <2>2, <3>1 DEF PatchWrite
    <3>2. CASE ~ RefusedWhenRetired(p) /\ p.a # a
      BY <2>2, <3>2 DEF PatchWrite, Updated, AuthorityTypeOK
    <3>3. CASE ~ RefusedWhenRetired(p) /\ p.a = a
      BY <3>3, <2>2, <2>1 DEF RefusedWhenRetired, PatchWrite, Updated, Record, AuthorityTypeOK
    <3> QED BY <3>1, <3>2, <3>3
  <2>3. CASE PatchGuard(p) \/ PatchNote(p)
    BY <2>3 DEF PatchGuard, PatchNote
  <2> QED BY <1>3, <2>2, <2>3 DEF RegistryStep
<1>4. ASSUME NEW r \in Req, Start(r) \/ Step(r)
      PROVE  reg'[a] = reg[a]
  BY <1>2, <1>4, RegKept DEF Step
<1>5. CASE ServePatch
  BY <1>3, <1>5 DEF ServePatch
<1>6. ASSUME NEW w \in Workers, DelegationCrash(w)
      PROVE  reg'[a] = reg[a]
  BY <1>6 DEF DelegationCrash
<1> QED BY <1>1, <1>4, <1>5, <1>6 DEF Next

\* For every number of agents, requests and faults: the record of a retired agent
\* never changes again (RetiredFrozen).
THEOREM RetiredIsTerminal == Spec => RetiredFrozen
<1>1. AuthorityTypeOK /\ [Next]_avars =>
        [\A a \in Agents : reg[a].status = "retired" => reg'[a] = reg[a]]_avars
  BY RetiredStep
<1> QED BY <1>1, AuthorityTypeCorrect, PTL DEF Spec, RetiredFrozen

-----------------------------------------------------------------------------
(* Ledger first.                                                            *)

\* A frame outside the steps LedgerFirst speaks of: Steady whatever its label,
\* Quiet with a label that promises nothing.
Guarded == {"check", "check_token", "check_allow", "mint_save", "revoke"} \union Revoking
Steady(q) == q \in Frame /\ q.op # "check" /\ {q.back, q.then, q.orelse} \subseteq Resumes
Quiet(q) == Steady(q) /\ q.pc \notin Guarded

\* The labels a handler goes back to are labels, and none of them is guarded.
LEMMA ResumesLabels == Resumes \subseteq Label /\ Resumes \cap Guarded = {}
BY DEF Resumes, Label, Guarded, Revoking

\* Going on at a label handlers go back to leaves a quiet frame.
LEMMA ResumedQuiet ==
  ASSUME NEW q, Steady(q), NEW l \in Resumes, NEW ok \in BOOLEAN
  PROVE  Quiet(Resumed(q, l, ok))
<1>1. Resumed(q, l, ok) \in Frame
  BY ResumedFrame, ResumesLabels DEF Steady
<1>2. "done" \in Resumes /\ "done" \notin Guarded /\ l \notin Guarded
  BY ResumesLabels DEF Resumes, Guarded, Revoking
<1>3. CASE l = "done"
  BY <1>1, <1>2, <1>3 DEF Resumed, Idle, Steady, Quiet
<1>4. CASE l # "done"
  BY <1>4, <1>1, <1>2 DEF Resumed, Steady, Frame, Quiet
<1> QED BY <1>3, <1>4

\* A handler that answers its caller leaves a quiet frame.
LEMMA ReturnedQuiet ==
  ASSUME NEW q, Steady(q), NEW ok \in BOOLEAN
  PROVE  Quiet(Returned(q, ok))
<1>1. q.back \in Resumes
  BY DEF Steady
<1> QED BY <1>1, ResumedQuiet DEF Returned

\* Going on at a label that is not guarded leaves a quiet frame.
LEMMA GotoQuiet ==
  ASSUME NEW q, Steady(q), NEW l \in Label \ Guarded
  PROVE  Quiet([q EXCEPT !.pc = l])
BY DEF Steady, Quiet, Frame

\* Waiting for the registry leaves a quiet frame.
LEMMA PatchingQuiet ==
  ASSUME NEW q, Steady(q), NEW l \in Resumes, NEW m \in Resumes
  PROVE  Quiet(Patching(q, l, m))
<1>1. Patching(q, l, m) \in Frame
  BY PatchingFrame, ResumesLabels DEF Steady
<1>2. /\ Patching(q, l, m).pc = "wait" /\ Patching(q, l, m).op = q.op
      /\ Patching(q, l, m).back = q.back
      /\ Patching(q, l, m).then = l /\ Patching(q, l, m).orelse = m
  BY DEF Patching, Steady, Frame
<1>3. "wait" \notin Guarded
  BY DEF Guarded, Revoking
<1> QED BY <1>1, <1>2, <1>3 DEF Steady, Quiet

\* A request outside a check is steady.
LEMMA MadeSteady ==
  ASSUME AuthorityTypeOK, NEW r \in Req, Ordered(r), rq[r].pc # "idle", rq[r].pc \notin Checking
  PROVE  Steady(rq[r])
BY MadeFrame DEF Ordered, Steady

\* What the other requests and the store promised survives a step that only adds
\* to the ledger and takes no token back.
LEMMA OtherKept ==
  ASSUME NEW r, Ordered(r), AllowLedgered(r), rq'[r] = rq[r], ledger \subseteq ledger',
         \A t \in Token : token[t].st # "none" => token'[t].st # "none"
  PROVE  Ordered(r)' /\ AllowLedgered(r)'
BY DEF Ordered, AllowLedgered, MintEvent, RevokeEvent, RevocationId, Allow, Event

\* The tokens' events survive when the store is left alone.
LEMMA TokensKept ==
  ASSUME TokensLedgered, ledger \subseteq ledger', token' = token
  PROVE  TokensLedgered'
BY DEF TokensLedgered

\* A step of one request to a frame that keeps the promises.
LEMMA OneRequest ==
  ASSUME AuthorityTypeOK, LedgerFirst, NEW r \in Req, NEW f \in Frame, Become(r, f),
         ledger \subseteq ledger',
         \A t \in Token : token[t].st # "none" => token'[t].st # "none",
         TokensLedgered', Ordered(r)', AllowLedgered(r)'
  PROVE  LedgerFirst'
<1>1. ASSUME NEW s \in Req
      PROVE  Ordered(s)' /\ AllowLedgered(s)'
  <2>1. CASE s = r
    BY <2>1
  <2>2. CASE s # r
    BY <2>2, OtherKept DEF Become, AuthorityTypeOK, LedgerFirst, AuthorityLedgered
  <2> QED BY <2>1, <2>2
<1> QED BY <1>1 DEF LedgerFirst, AuthorityLedgered

\* A step of one request to a quiet frame.
LEMMA QuietStep ==
  ASSUME AuthorityTypeOK, LedgerFirst, NEW r \in Req, NEW f, Quiet(f), Become(r, f),
         ledger \subseteq ledger', token' = token
  PROVE  LedgerFirst'
<1>1. rq'[r] = f /\ f \in Frame
  BY DEF Become, AuthorityTypeOK, Quiet, Steady
<1>2. Ordered(r)' /\ AllowLedgered(r)'
  BY <1>1 DEF Quiet, Steady, Guarded, Ordered, AllowLedgered, Checking, Revoking
<1>3. TokensLedgered'
  BY TokensKept DEF LedgerFirst, AuthorityLedgered
<1> QED BY <1>1, <1>2, <1>3, OneRequest

\* Events are only ever added.
LEMMA NoteGrows ==
  ASSUME NEW svc, NEW e, Note(svc, e) \/ Appended(e) \/ AppendFails(e)
  PROVE  ledger \subseteq ledger'
BY DEF Note, Appended, AppendFails

\* The answer to a PATCH or its timeout, an edit, an attestation.
LEMMA OperatorStepOrdered ==
  ASSUME AuthorityTypeOK, LedgerFirst, NEW r \in Req, OperatorStep(r), UNCHANGED dvars
  PROVE  LedgerFirst'
<1>1. rq[r].pc # "idle" /\ rq[r].pc \notin Checking
  BY DEF OperatorStep, PatchReturn, PatchTimeout, Edit, Attest, AttestNote, Checking
<1>2. Steady(rq[r])
  BY <1>1, MadeSteady DEF LedgerFirst
<1>3. rq[r].then \in Resumes /\ rq[r].orelse \in Resumes /\ "done" \in Resumes
  BY <1>2 DEF Steady, Resumes
<1>4. \E f : Quiet(f) /\ Become(r, f)
  <2>1. CASE PatchReturn(r) \/ PatchTimeout(r)
    BY <1>2, <1>3, <2>1, ResumedQuiet DEF PatchReturn, PatchTimeout
  <2>2. CASE Edit(r)
    BY <1>2, <1>3, <2>2, PatchingQuiet DEF Edit, SendPatch
  <2>3. CASE Attest(r)
    BY <1>2, <2>3, ReturnedQuiet, GotoQuiet DEF Label, Guarded, Revoking, Attest, Return, Goto
  <2>4. CASE AttestNote(r)
    BY <1>2, <2>4, ReturnedQuiet DEF AttestNote, Return
  <2> QED BY <2>1, <2>2, <2>3, <2>4 DEF OperatorStep
<1>5. ledger \subseteq ledger'
  BY NoteGrows DEF OperatorStep, PatchReturn, PatchTimeout, Edit, Attest, AttestNote
<1> QED BY <1>4, <1>5, QuietStep DEF dvars

\* Kill, domain kill, revive and drill.
LEMMA KillSwitchStepOrdered ==
  ASSUME AuthorityTypeOK, LedgerFirst, NEW r \in Req, KillSwitchStep(r), UNCHANGED dvars
  PROVE  LedgerFirst'
<1>1. rq[r].pc # "idle" /\ rq[r].pc \notin Checking
  BY DEF KillSwitchStep, KillRead, KillSignal, KillNote, DomainList, DomainNext, ReviveRead,
         ReviveNote, DrillRead, DrillConfirm, DrillBeat, DrillRestore, DrillVerify, DrillFailed,
         DrillReport, Checking
<1>2. Steady(rq[r])
  BY <1>1, MadeSteady DEF LedgerFirst
<1>3. /\ rq[r].back \in Resumes /\ rq[r].prev \in Status /\ rq[r].ok \in BOOLEAN
      /\ rq[r].ret \in BOOLEAN /\ rq[r].a \in Agents /\ rq[r].left \in SUBSET Agents
  BY <1>2 DEF Steady, Frame
<1>4. {"done", "kill_signal", "domain_next", "revive_note", "drill_confirm", "drill_restore",
       "drill_verify", "drill_failed"} \subseteq Resumes
  BY DEF Resumes
<1>5. {"kill", "kill_note", "domain_next", "kill_signal", "drill_beat", "drill_restore",
       "drill_failed", "drill_report"} \subseteq Label \ Guarded
  BY DEF Label, Guarded, Revoking
<1>6. StatusOf(r) \in Status
  BY <1>3 DEF StatusOf, AuthorityTypeOK, Record
<1>7. \A ok \in BOOLEAN : Return(r, ok) => \E f : Quiet(f) /\ Become(r, f)
  BY <1>2, ReturnedQuiet DEF Return
<1>8. \A l \in Label \ Guarded : Goto(r, l) => \E f : Quiet(f) /\ Become(r, f)
  BY <1>2, GotoQuiet DEF Goto
<1>9. \A l \in Resumes, ok \in BOOLEAN :
        Become(r, Resumed(rq[r], l, ok)) => \E f : Quiet(f) /\ Become(r, f)
  BY <1>2, ResumedQuiet
<1>10. \E f : Quiet(f) /\ Become(r, f)
  <2>1. CASE KillRead(r)
    BY <1>2, <1>3, <1>4, <1>5, <1>7, <1>8, <2>1, PatchingQuiet DEF KillRead, Unreachable, SendPatch
  <2>2. CASE KillSignal(r) \/ KillNote(r) \/ ReviveNote(r) \/ DrillFailed(r)
    BY <1>5, <1>7, <1>8, <2>2 DEF KillSignal, KillNote, ReviveNote, DrillFailed
  <2>3. CASE DomainList(r)
    <3> DEFINE live == {a \in Agents : reg[a].status # "retired"}
    <3>1. Quiet([rq[r] EXCEPT !.pc = "domain_next", !.left = live, !.ok = live = {},
                              !.ret = FALSE])
      <4>1. live \in SUBSET Agents /\ (live = {}) \in BOOLEAN
        OBVIOUS
      <4> HIDE DEF live
      <4> QED BY <1>2, <1>5, <4>1 DEF Steady, Quiet, Frame
    <3> QED BY <1>7, <2>3, <3>1 DEF DomainList, Unreachable
  <2>4. CASE DomainNext(r)
    <3> DEFINE q == [rq[r] EXCEPT !.ok = rq[r].ok \/ rq[r].ret]
    <3>1. Steady(q) /\ q.ok \in BOOLEAN /\ q.left \in SUBSET Agents
      BY <1>2, <1>3 DEF Steady, Frame
    <3>2. Quiet(Resumed(q, "done", q.ok))
      BY <1>4, <3>1, ResumedQuiet
    <3>3. \A a \in q.left : Quiet([q EXCEPT !.pc = "kill", !.back = "domain_next", !.a = a,
                                            !.left = @ \ {a}])
      <4> HIDE DEF q
      <4> QED BY <1>4, <1>5, <3>1 DEF Steady, Quiet, Frame
    <3> QED BY <2>4, <3>2, <3>3 DEF DomainNext
  <2>5. CASE ReviveRead(r)
    BY <1>2, <1>4, <1>7, <2>5, PatchingQuiet DEF ReviveRead, Unreachable, SendPatch
  <2>6. CASE DrillRead(r)
    BY <1>2, <1>6, <1>4, <1>7, <2>6, PatchingQuiet DEF Steady, Frame, DrillRead, Unreachable, SendPatch
  <2>7. CASE DrillConfirm(r)
    BY <1>2, <1>5, GotoQuiet, <1>4, <1>9, <2>7 DEF DrillConfirm
  <2>8. CASE DrillBeat(r)
    BY <1>4, <1>5, <1>8, <1>9, <2>8 DEF DrillBeat
  <2>9. CASE DrillRestore(r)
    BY <1>2, <1>3, <1>4, <2>9, PatchingQuiet DEF Steady, Frame, DrillRestore, SendPatch
  <2>10. CASE DrillVerify(r)
    BY <1>3, <1>4, <1>5, <1>8, <1>9, <2>10 DEF DrillVerify, DrillEnd
  <2>11. CASE DrillReport(r)
    BY <1>3, <1>4, <1>9, <2>11 DEF DrillReport, DrillEnd
  <2> QED BY <2>1, <2>2, <2>3, <2>4, <2>5, <2>6, <2>7, <2>8, <2>9, <2>10, <2>11
          DEF KillSwitchStep
<1>11. ledger \subseteq ledger'
  BY NoteGrows DEF KillSwitchStep, KillRead, KillSignal, KillNote, DomainList, DomainNext,
       ReviveRead, ReviveNote, DrillRead, DrillConfirm, DrillBeat, DrillRestore, DrillVerify,
       DrillFailed, DrillReport, DrillEnd, Unreachable
<1> QED BY <1>10, <1>11, QuietStep DEF dvars

\* Decommission: quiet, but for the revoke it begins for a listed token.
LEMMA LifecycleStepOrdered ==
  ASSUME AuthorityTypeOK, LedgerFirst, NEW r \in Req, LifecycleStep(r)
  PROVE  LedgerFirst'
<1>1. rq[r].pc # "idle" /\ rq[r].pc \notin Checking
  BY DEF LifecycleStep, DecommissionRead, DecommissionList, DecommissionRevoke,
         DecommissionRetire, DecommissionNote, Checking
<1>2. Steady(rq[r])
  BY <1>1, MadeSteady DEF LedgerFirst
<1>3. /\ rq[r].ok \in BOOLEAN /\ rq[r].ret \in BOOLEAN /\ rq[r].a \in Agents
      /\ rq[r].todo \in SUBSET Token
  BY <1>2 DEF Steady, Frame
<1>4. {"done", "dec_revoke", "dec_retire", "dec_note"} \subseteq Resumes
  BY DEF Resumes
<1>5. {"kill", "dec_list", "dec_revoke", "dec_retire"} \subseteq Label \ Guarded
  BY DEF Label, Guarded, Revoking
<1>6. StatusOf(r) \in Status
  BY <1>3 DEF StatusOf, AuthorityTypeOK, Record
<1>7. \A ok \in BOOLEAN : Return(r, ok) => \E f : Quiet(f) /\ Become(r, f)
  BY <1>2, ReturnedQuiet DEF Return
<1>8. \A l \in Resumes, ok \in BOOLEAN :
        Become(r, Resumed(rq[r], l, ok)) => \E f : Quiet(f) /\ Become(r, f)
  BY <1>2, ResumedQuiet
<1>9. ledger \subseteq ledger' /\ token' = token
  BY NoteGrows DEF LifecycleStep, DecommissionRead, DecommissionList, DecommissionRevoke,
       DecommissionRetire, DecommissionNote, Unreachable, dvars
<1>10. CASE DecommissionRead(r)
  BY <1>2, <1>5, <1>6, <1>7, <1>10, <1>9, QuietStep DEF Steady, Quiet, Frame, DecommissionRead, Unreachable
<1>11. CASE DecommissionList(r)
  <2> DEFINE mine == {t \in Token : token[t].agent = rq[r].a /\ token[t].st = "active"}
  <2>1. Quiet([rq[r] EXCEPT !.pc = "dec_revoke", !.todo = mine, !.seen = mine])
    <3>1. mine \in SUBSET Token
      OBVIOUS
    <3> HIDE DEF mine
    <3> QED BY <1>2, <1>5, <3>1 DEF Steady, Quiet, Frame
  <2>2. \E f : Quiet(f) /\ Become(r, f)
    BY <1>4, <1>7, <1>8, <1>11, <2>1 DEF DecommissionList
  <2> QED BY <1>9, <2>2, QuietStep
<1>12. CASE DecommissionRevoke(r)
  <2> DEFINE q == [rq[r] EXCEPT !.ok = rq[r].ok /\ rq[r].ret]
  <2>1. Steady(q) /\ q.todo \in SUBSET Token
    BY <1>2, <1>3 DEF Steady, Frame
  <2>2. /\ Quiet([q EXCEPT !.pc = "kill", !.back = "dec_retire"])
        /\ Quiet([q EXCEPT !.pc = "dec_retire", !.ret = TRUE])
    <3> HIDE DEF q
    <3> QED BY <1>4, <1>5, <2>1 DEF Steady, Quiet, Frame
  <2>3. ASSUME NEW t \in q.todo,
               Become(r, [q EXCEPT !.pc = "revoke", !.back = "dec_revoke", !.t = t,
                                   !.todo = @ \ {t}])
        PROVE  LedgerFirst'
    <3> DEFINE f == [q EXCEPT !.pc = "revoke", !.back = "dec_revoke", !.t = t, !.todo = @ \ {t}]
    <3>1. t \in Token /\ t \in Null(Token) /\ q.todo \ {t} \in SUBSET Token
      BY <2>1 DEF Null
    <3>2. "revoke" \in Label /\ "dec_revoke" \in Label /\ "revoke" \notin Checking \union Revoking
      BY DEF Label, InDelegation, Checking, Revoking
    <3>3. f \in Frame /\ f.op = q.op /\ f.pc = "revoke" /\ f.t = t /\ f.back = "dec_revoke"
          /\ f.then = q.then /\ f.orelse = q.orelse
      <4> HIDE DEF q
      <4> QED BY <2>1, <3>1, <3>2 DEF Steady, Frame
    <3> HIDE DEF f
    <3>4. rq'[r] = f
      BY <2>3 DEF f, Become, AuthorityTypeOK
    <3>5. Ordered(r)' /\ AllowLedgered(r)'
      <4> HIDE DEF q
      <4> QED BY <1>4, <2>1, <3>1, <3>2, <3>3, <3>4 DEF Steady, Ordered, AllowLedgered
    <3>6. TokensLedgered'
      BY <1>9, TokensKept DEF LedgerFirst, AuthorityLedgered
    <3>7. Become(r, f)
      BY <2>3 DEF f
    <3> QED BY <1>9, <3>3, <3>5, <3>6, <3>7, OneRequest
  <2>4. CASE q.todo = {}
    BY <1>12, <2>2, <2>4, <1>9, QuietStep DEF DecommissionRevoke
  <2>5. CASE q.todo # {}
    BY <1>12, <2>3, <2>5 DEF DecommissionRevoke
  <2> QED BY <2>4, <2>5
<1>13. CASE DecommissionRetire(r)
  BY <1>2, <1>3, <1>4, <1>13, PatchingQuiet, <1>9, QuietStep DEF Steady, Frame, DecommissionRetire, SendPatch
<1>14. CASE DecommissionNote(r)
  BY <1>3, <1>4, <1>8, <1>14, <1>9, QuietStep DEF DecommissionNote
<1> QED BY <1>10, <1>11, <1>12, <1>13, <1>14 DEF LifecycleStep

\* Mint and revoke: the ledger's answer comes before the store.
LEMMA DelegationStepOrdered ==
  ASSUME AuthorityTypeOK, LedgerFirst, NEW r \in Req, DelegationStep(r)
  PROVE  LedgerFirst'
<1>1. rq[r].pc # "idle" /\ rq[r].pc \notin Checking
  BY DEF DelegationStep, MintRead, MintLedger, MintSave, RevokeRead, RevokeLock, RevokeLedger,
         RevokeSave, Checking
<1>2. Steady(rq[r]) /\ Ordered(r) /\ TokensLedgered
  BY <1>1, MadeSteady DEF LedgerFirst, AuthorityLedgered
<1>3. \A ok \in BOOLEAN : Return(r, ok) => \E f : Quiet(f) /\ Become(r, f)
  BY <1>2, ReturnedQuiet DEF Return
<1>4. ledger \subseteq ledger'
  BY NoteGrows DEF DelegationStep, MintRead, MintLedger, MintSave, RevokeRead, RevokeLock,
       RevokeLedger, RevokeSave
<1>5. ASSUME NEW l \in Label, Goto(r, l), token' = token,
             l = "mint_save" => MintEvent(r) \in ledger',
             l = "revoke" => rq[r].t \in Token,
             l \in Revoking => rq[r].t \in Token /\ token[rq[r].t].st # "none",
             l = "revoke_save" => RevokeEvent(r) \in ledger',
             l \notin Checking
      PROVE  LedgerFirst'
  <2> DEFINE f == [rq[r] EXCEPT !.pc = l]
  <2>1. f \in Frame /\ Become(r, f) /\ rq'[r] = f
    BY <1>2, <1>5 DEF Goto, Become, Steady, Frame, AuthorityTypeOK
  <2>2. /\ f.op = rq[r].op /\ f.t = rq[r].t /\ f.pc = l /\ f.back = rq[r].back
        /\ f.then = rq[r].then /\ f.orelse = rq[r].orelse
    BY <1>2 DEF Steady, Frame
  <2> HIDE DEF f
  <2>3. Ordered(r)' /\ AllowLedgered(r)'
    BY <1>2, <1>5, <2>1, <2>2
       DEF Ordered, AllowLedgered, Steady, MintEvent, RevokeEvent, RevocationId, Event
  <2>4. TokensLedgered'
    BY <1>2, <1>4, <1>5, TokensKept
  <2> QED BY <1>4, <1>5, <2>1, <2>3, <2>4, OneRequest
<1>6. {"mint_ledger", "mint_save", "revoke_lock", "revoke_ledger", "revoke_save"} \subseteq Label
  BY DEF Label, InDelegation
<1>7. CASE MintRead(r)
  <2>1. CASE Return(r, FALSE)
    BY <1>3, <1>4, <1>7, <2>1, QuietStep DEF MintRead, dvars
  <2>2. CASE Goto(r, "mint_ledger")
    BY <1>5, <1>6, <1>7, <2>2 DEF Checking, Revoking, MintRead, dvars
  <2> QED BY <1>7, <2>1, <2>2 DEF MintRead
<1>8. CASE MintLedger(r)
  <2>1. CASE Return(r, FALSE)
    BY <1>3, <1>4, <1>8, <2>1, QuietStep DEF MintLedger, dvars
  <2>2. CASE Appended(MintEvent(r)) /\ Goto(r, "mint_save")
    BY <1>8, <2>2, <1>5, <1>6 DEF Checking, Revoking, Appended, MintLedger, dvars
  <2> QED BY <1>8, <2>1, <2>2 DEF MintLedger
<1>9. CASE MintSave(r)
  <2>1. PICK f : Quiet(f) /\ Become(r, f)
    BY <1>3, <1>9 DEF MintSave
  <2>2. MintEvent(r) \in ledger' /\ r \in Token
    BY <1>2, <1>9 DEF MintSave, Ordered, Token
  <2>3. \A t \in Token : token'[t] = IF t = r THEN [agent |-> rq[r].a, st |-> "active", rid |-> "none"]
                                     ELSE token[t]
    BY <1>9 DEF MintSave, AuthorityTypeOK
  <2>4. TokensLedgered'
    BY <1>2, <1>4, <2>2, <2>3 DEF TokensLedgered, MintEvent
  <2>5. \A t \in Token : token[t].st # "none" => token'[t].st # "none"
    BY <2>3
  <2>6. rq'[r] = f /\ f \in Frame
    BY <2>1 DEF Become, AuthorityTypeOK, Quiet, Steady
  <2>7. Ordered(r)' /\ AllowLedgered(r)'
    BY <2>1, <2>6 DEF Quiet, Steady, Guarded, Ordered, AllowLedgered, Checking, Revoking
  <2> QED BY <1>4, <2>1, <2>4, <2>5, <2>6, <2>7, OneRequest
<1>10. CASE RevokeRead(r)
  <2>1. CASE Return(r, FALSE)
    BY <1>3, <1>4, <1>10, <2>1, QuietStep DEF RevokeRead, dvars
  <2>2. CASE token[rq[r].t].st # "none" /\ Goto(r, "revoke_lock")
    BY <1>2, <1>10, <1>5, <1>6, <2>2 DEF Checking, RevokeRead, Ordered, dvars
  <2> QED BY <1>10, <2>1, <2>2 DEF RevokeRead
<1>11. rq[r].pc \in Revoking => rq[r].t \in Token /\ token[rq[r].t].st # "none"
  BY <1>2 DEF Ordered
<1>12. CASE RevokeLock(r)
  <2>1. CASE Return(r, TRUE)
    BY <1>3, <1>4, <1>12, <2>1, QuietStep DEF RevokeLock
  <2>2. CASE Goto(r, "revoke_ledger")
    BY <1>12, <1>5, <1>6, <1>11, <2>2 DEF Checking, RevokeLock, Revoking
  <2> QED BY <1>12, <2>1, <2>2 DEF RevokeLock
<1>13. CASE RevokeLedger(r)
  <2>1. CASE Return(r, FALSE)
    BY <1>3, <1>4, <1>13, <2>1, QuietStep DEF RevokeLedger
  <2>2. CASE Appended(RevokeEvent(r)) /\ Goto(r, "revoke_save")
    BY <1>13, <2>2, <1>5, <1>6, <1>11 DEF Checking, RevokeLedger, Revoking, Appended
  <2> QED BY <1>13, <2>1, <2>2 DEF RevokeLedger
<1>14. CASE RevokeSave(r)
  <2>1. PICK f : Quiet(f) /\ Become(r, f)
    BY <1>3, <1>14 DEF RevokeSave
  <2>2. rq[r].t \in Token /\ token[rq[r].t].st # "none" /\ RevokeEvent(r) \in ledger
    BY <1>2, <1>11, <1>14 DEF RevokeSave, Revoking, Ordered
  <2>3. \A t \in Token : \/ token'[t] = token[t]
                         \/ t = rq[r].t /\ token'[t].st = "revoked" /\ token'[t].rid = t
    BY <1>14, <2>2 DEF RevokeSave, RevocationId, AuthorityTypeOK, StoredToken
  <2>4. /\ RevokeEvent(r).type = "delegation.revoke" /\ RevokeEvent(r).about = rq[r].t
        /\ RevokeEvent(r).detail = rq[r].t
    BY DEF RevokeEvent, RevocationId, Event
  <2>5. TokensLedgered'
    BY <1>2, <1>4, <2>2, <2>3, <2>4 DEF TokensLedgered
  <2>6. \A t \in Token : token[t].st # "none" => token'[t].st # "none"
    BY <2>3
  <2>7. rq'[r] = f /\ f \in Frame
    BY <2>1 DEF Become, AuthorityTypeOK, Quiet, Steady
  <2>8. Ordered(r)' /\ AllowLedgered(r)'
    BY <2>1, <2>7 DEF Quiet, Steady, Guarded, Ordered, AllowLedgered, Checking, Revoking
  <2> QED BY <1>4, <2>1, <2>5, <2>6, <2>7, <2>8, OneRequest
<1> QED BY <1>7, <1>8, <1>9, <1>10, <1>12, <1>13, <1>14 DEF DelegationStep

\* A check: its verdict is an allow only after the ledger took it.
LEMMA SentinelStepOrdered ==
  ASSUME AuthorityTypeOK, LedgerFirst, NEW r \in Req, SentinelStep(r)
  PROVE  LedgerFirst'
<1>1. rq[r].pc \in Checking \ {"done"} /\ rq[r].pc # "idle"
  BY DEF SentinelStep, CheckAgent, CheckToken, CheckAllow, Checking
<1>2. rq[r] \in Frame /\ Ordered(r) /\ TokensLedgered
  BY <1>1, MadeFrame DEF LedgerFirst, AuthorityLedgered
<1>3. /\ rq[r].op = "check" /\ rq[r].back = "done"
      /\ {rq[r].back, rq[r].then, rq[r].orelse} \subseteq Resumes
  BY <1>1, <1>2 DEF Ordered
<1>4. ledger \subseteq ledger' /\ token' = token
  BY NoteGrows DEF SentinelStep, CheckAgent, CheckToken, CheckAllow, Refuse, dvars
<1>5. TokensLedgered'
  BY <1>2, <1>4, TokensKept
<1>6. ASSUME NEW l \in {"check_token", "check_allow"}, Goto(r, l)
      PROVE  LedgerFirst'
  <2> DEFINE f == [rq[r] EXCEPT !.pc = l]
  <2>1. l \in Label /\ l \in Checking \ {"done"} /\ l \notin Guarded \ Checking
    BY DEF Label, Checking, Guarded, Revoking
  <2>2. f \in Frame /\ Become(r, f) /\ rq'[r] = f
    BY <1>2, <1>6, <2>1 DEF Goto, Become, Frame, AuthorityTypeOK
  <2>3. /\ f.op = "check" /\ f.pc = l /\ f.back = "done"
        /\ f.then = rq[r].then /\ f.orelse = rq[r].orelse
    BY <1>2, <1>3 DEF Frame
  <2> HIDE DEF f
  <2>4. Ordered(r)' /\ AllowLedgered(r)'
    BY <1>3, <2>1, <2>2, <2>3 DEF Ordered, AllowLedgered, Checking, Guarded, Revoking
  <2> QED BY <1>4, <1>5, <2>2, <2>4, OneRequest
<1>7. ASSUME NEW ok \in BOOLEAN, Return(r, ok), ok => Allow(r) \in ledger'
      PROVE  LedgerFirst'
  <2> DEFINE f == Returned(rq[r], ok)
  <2>1. f \in Frame /\ Become(r, f) /\ rq'[r] = f
    BY <1>2, <1>7, ReturnedFrame DEF Return, Become, AuthorityTypeOK
  <2>2. /\ f.op = "check" /\ f.pc = "done" /\ f.back = "done" /\ f.then = "done"
        /\ f.orelse = "done" /\ f.ret = ok /\ f.a = rq[r].a /\ f.t = rq[r].t
    BY <1>3 DEF Returned, Resumed, Idle
  <2>3. "done" \in Resumes /\ "done" \in Checking /\ "done" \notin Guarded
    BY DEF Resumes, Checking, Guarded, Revoking
  <2> HIDE DEF f
  <2>4. Ordered(r)'
    BY <2>1, <2>2, <2>3 DEF Ordered, Guarded
  <2>5. Allow(r)' = Allow(r)
    BY <2>1, <2>2 DEF Allow, Event
  <2>6. AllowLedgered(r)'
    BY <1>7, <2>1, <2>2, <2>5 DEF AllowLedgered
  <2> QED BY <1>4, <1>5, <2>1, <2>4, <2>6, OneRequest
<1>8. CASE CheckAgent(r) \/ CheckToken(r)
  BY <1>6, <1>7, <1>8 DEF CheckAgent, CheckToken, Refuse
<1>9. CASE CheckAllow(r)
  BY <1>7, <1>9 DEF CheckAllow, Appended
<1> QED BY <1>8, <1>9 DEF SentinelStep

\* A new request promises nothing.
LEMMA StartOrdered ==
  ASSUME AuthorityTypeOK, LedgerFirst, NEW r \in Req, Start(r)
  PROVE  LedgerFirst'
<1>1. PICK op \in Asks[r], a \in Agents :
        \E t \in IF op \in {"revoke", "check"} THEN Token ELSE {"none"},
           w \in IF op \in {"mint", "revoke", "decommission"} THEN Workers ELSE {"none"} :
          Become(r, [Idle EXCEPT !.op = op, !.pc = op, !.a = a, !.t = t, !.w = w,
                                 !.seen = IF op = "check" THEN Succeeded ELSE {}])
  BY DEF Start
<1>2. PICK t \in IF op \in {"revoke", "check"} THEN Token ELSE {"none"},
           w \in IF op \in {"mint", "revoke", "decommission"} THEN Workers ELSE {"none"} :
          Become(r, [Idle EXCEPT !.op = op, !.pc = op, !.a = a, !.t = t, !.w = w,
                                 !.seen = IF op = "check" THEN Succeeded ELSE {}])
  BY <1>1
<1> DEFINE f == [Idle EXCEPT !.op = op, !.pc = op, !.a = a, !.t = t, !.w = w,
                             !.seen = IF op = "check" THEN Succeeded ELSE {}]
<1>3. op \in Operations
  BY AsksAssumption
<1>4. rq'[r] = f
  BY <1>2 DEF Become, AuthorityTypeOK
<1>5. /\ f.op = op /\ f.pc = op /\ f.t = t /\ f.back = "done" /\ f.then = "done"
      /\ f.orelse = "done"
  BY DEF Idle
<1>6. op = "revoke" => t \in Token
  OBVIOUS
<1> HIDE DEF f
<1>7. Ordered(r)' /\ AllowLedgered(r)'
  BY <1>3, <1>4, <1>5, <1>6
     DEF Ordered, AllowLedgered, Operations, Checking, Revoking, Resumes
<1>8. ASSUME NEW s \in Req
      PROVE  Ordered(s)' /\ AllowLedgered(s)'
  <2>1. CASE s = r
    BY <1>7, <2>1
  <2>2. CASE s # r
    BY <1>2, <2>2, OtherKept DEF Become, AuthorityTypeOK, Start, dvars, LedgerFirst, AuthorityLedgered
  <2> QED BY <2>1, <2>2
<1>9. TokensLedgered'
  BY TokensKept DEF LedgerFirst, AuthorityLedgered, Start, dvars
<1> QED BY <1>8, <1>9 DEF LedgerFirst, AuthorityLedgered

\* A killed process leaves quiet frames: what it had not stored is not promised.
LEMMA CrashOrdered ==
  ASSUME AuthorityTypeOK, LedgerFirst, NEW w \in Workers, DelegationCrash(w)
  PROVE  LedgerFirst'
<1>1. ledger' = ledger /\ token' = token
  BY DEF DelegationCrash
<1>2. ASSUME NEW s \in Req
      PROVE  Ordered(s)' /\ AllowLedgered(s)'
  <2>1. Ordered(s) /\ AllowLedgered(s)
    BY DEF LedgerFirst, AuthorityLedgered
  <2>2. CASE ~ Serves(w, s)
    <3>1. rq'[s] = rq[s]
      BY <2>2 DEF DelegationCrash
    <3> QED BY <1>1, <2>1, <3>1, OtherKept
  <2>3. CASE Serves(w, s)
    BY <2>3, <2>1, MadeSteady, ReturnedQuiet DEF Serves, InDelegation, Checking, DelegationCrash, Quiet,
      Steady, Guarded, Ordered, AllowLedgered, Revoking
  <2> QED BY <2>2, <2>3
<1>3. TokensLedgered'
  BY <1>1, TokensKept DEF LedgerFirst, AuthorityLedgered
<1> QED BY <1>2, <1>3 DEF LedgerFirst, AuthorityLedgered

\* The registry's own steps touch neither requests nor tokens.
LEMMA RegistryStepOrdered ==
  ASSUME AuthorityTypeOK, LedgerFirst, NEW p \in patch, RegistryStep(p), UNCHANGED dvars
  PROVE  LedgerFirst'
BY NoteGrows, TokensKept, OtherKept DEF RegistryStep, PatchGuard, PatchWrite, PatchNote, dvars, LedgerFirst,
  AuthorityLedgered

\* Every step keeps the order.
LEMMA OrderedStep == AuthorityTypeOK /\ LedgerFirst /\ [Next]_avars => LedgerFirst'
<1> SUFFICES ASSUME AuthorityTypeOK, LedgerFirst, [Next]_avars
             PROVE  LedgerFirst'
  OBVIOUS
<1>1. CASE UNCHANGED avars
  BY <1>1, TokensKept, OtherKept DEF avars, rvars, dvars, LedgerFirst, AuthorityLedgered
<1>2. ASSUME NEW r \in Req, Start(r) \/ Step(r)
      PROVE  LedgerFirst'
  BY <1>2, StartOrdered, OperatorStepOrdered, KillSwitchStepOrdered, DelegationStepOrdered,
     LifecycleStepOrdered, SentinelStepOrdered DEF Step
<1>3. CASE ServePatch
  BY <1>3, RegistryStepOrdered DEF ServePatch
<1>4. ASSUME NEW w \in Workers, DelegationCrash(w)
      PROVE  LedgerFirst'
  BY <1>4, CrashOrdered
<1> QED BY <1>1, <1>2, <1>3, <1>4 DEF Next

\* It holds to begin with.
LEMMA OrderedInit == Init => LedgerFirst
<1> SUFFICES ASSUME Init PROVE LedgerFirst
  OBVIOUS
<1>1. TokensLedgered
  BY DEF Init, InitDelegation, TokensLedgered, NoToken, Token, Event
<1>2. ASSUME NEW r \in Req
      PROVE  Ordered(r) /\ AllowLedgered(r)
  <2>1. rq[r] = Idle
    BY DEF Init, InitRegistry
  <2> QED BY <2>1 DEF Idle, Ordered, AllowLedgered, Resumes, Checking, Revoking
<1> QED BY <1>1, <1>2 DEF LedgerFirst, AuthorityLedgered

\* Mint, revoke and check are ledger-first through every interleaving, outage and
\* crash of the authority's processes.
THEOREM AlwaysLedgerFirst == Spec => []LedgerFirst
<1> QED BY OrderedInit, OrderedStep, AuthorityTypeCorrect, PTL DEF Spec

\* So there is never a token, a revocation or an allow without its ledger event.
THEOREM AuthorityAlwaysLedgered == Spec => []AuthorityLedgered
<1>1. LedgerFirst => AuthorityLedgered
  BY DEF LedgerFirst
<1> QED BY <1>1, AlwaysLedgerFirst, PTL

-----------------------------------------------------------------------------
(***************************************************************************)
(* That a stop which was reported holds, and that the ledger is true to the *)
(* registry.  The last part is about the claims that count events: the      *)
(* status changes of an agent lead to its status (StatusTrail), and a       *)
(* token's revoke events carry one id and are few (RevokedOnce).            *)
(***************************************************************************)

-----------------------------------------------------------------------------
(* What the steps of a request leave of its frame and of the rest.          *)

\* Going on at a label (Resumed) keeps what the request is, and unless it is
\* answered all but pc and ret.
LEMMA ResumedFacts ==
  ASSUME NEW q \in Frame, NEW l, NEW ok
  PROVE  LET f == Resumed(q, l, ok)
         IN /\ f.op = q.op /\ f.a = q.a /\ f.t = q.t /\ f.seen = q.seen
            /\ f.pc = l /\ f.ret = ok
            /\ l = "done" => f.back = "done"
            /\ l # "done" => /\ f.w = q.w /\ f.n = q.n /\ f.ok = q.ok /\ f.todo = q.todo
                             /\ f.back = q.back /\ f.then = q.then /\ f.orelse = q.orelse
BY DEF Resumed, Idle, Frame

\* A step of a request changes no other request's frame.
LEMMA OthersKept ==
  ASSUME AuthorityTypeOK, NEW r \in Req, Start(r) \/ Step(r), NEW s \in Req, s # r
  PROVE  rq'[s] = rq[s]
<1>1. \E f : Become(r, f)
  <2>1. CASE Start(r)
    BY <2>1 DEF Start
  <2>2. CASE OperatorStep(r)
    BY <2>2 DEF OperatorStep, PatchReturn, PatchTimeout, Edit, SendPatch, Attest, AttestNote,
                Return, Goto
  <2>3. CASE KillSwitchStep(r)
    BY <2>3 DEF KillSwitchStep, KillRead, KillSignal, KillNote, DomainList, DomainNext,
                ReviveRead, ReviveNote, DrillRead, DrillConfirm, DrillBeat, DrillRestore,
                DrillVerify, DrillFailed, DrillReport, DrillEnd, Unreachable, SendPatch,
                Return, Goto
  <2>4. CASE DelegationStep(r)
    BY <2>4 DEF DelegationStep, MintRead, MintLedger, MintSave, RevokeRead, RevokeLock,
                RevokeLedger, RevokeSave, Return, Goto
  <2>5. CASE LifecycleStep(r)
    BY <2>5 DEF LifecycleStep, DecommissionRead, DecommissionList, DecommissionRevoke,
                DecommissionRetire, DecommissionNote, Unreachable, SendPatch, Return, Goto
  <2>6. CASE SentinelStep(r)
    BY <2>6 DEF SentinelStep, CheckAgent, CheckToken, CheckAllow, Refuse, Return, Goto
  <2> QED BY <2>1, <2>2, <2>3, <2>4, <2>5, <2>6 DEF Step
<1> QED BY <1>1 DEF Become, AuthorityTypeOK

\* Only a request that was made and is not answered takes steps.
LEMMA StepsOfOpen ==
  ASSUME NEW r \in Req, Step(r)
  PROVE  rq[r].pc \notin {"idle", "done"}
<1>1. CASE OperatorStep(r)
  BY <1>1 DEF OperatorStep, PatchReturn, PatchTimeout, Edit, Attest, AttestNote
<1>2. CASE KillSwitchStep(r)
  BY <1>2 DEF KillSwitchStep, KillRead, KillSignal, KillNote, DomainList, DomainNext,
              ReviveRead, ReviveNote, DrillRead, DrillConfirm, DrillBeat, DrillRestore,
              DrillVerify, DrillFailed, DrillReport
<1>3. CASE DelegationStep(r)
  BY <1>3 DEF DelegationStep, MintRead, MintLedger, MintSave, RevokeRead, RevokeLock,
              RevokeLedger, RevokeSave
<1>4. CASE LifecycleStep(r)
  BY <1>4 DEF LifecycleStep, DecommissionRead, DecommissionList, DecommissionRevoke,
              DecommissionRetire, DecommissionNote
<1>5. CASE SentinelStep(r)
  BY <1>5 DEF SentinelStep, CheckAgent, CheckToken, CheckAllow
<1> QED BY <1>1, <1>2, <1>3, <1>4, <1>5 DEF Step

\* A step that sends no PATCH leaves a frame that waits for none, and keeps its
\* request, worker and number, unless it answers the request.
Moved(r) ==
  /\ rq'[r].op = rq[r].op /\ rq'[r].pc \notin {"idle", "wait"}
  /\ rq'[r].pc # "done" => rq'[r].w = rq[r].w /\ rq'[r].n = rq[r].n
  /\ rq'[r].pc \in Minting => rq[r].pc \in Minting
  /\ rq'[r].pc \in Locking => rq[r].pc \in Revoking
  /\ OwnLabels(rq'[r])
Still(r) == patch' = patch /\ rq[r].pc # "wait" /\ Moved(r)

\* One that sends a PATCH gives it the next number and waits.
Sent(r) ==
  /\ rq[r].pc # "wait"
  /\ rq'[r].op = rq[r].op /\ rq'[r].pc = "wait" /\ rq'[r].w = rq[r].w
  /\ rq'[r].n = rq[r].n + 1 /\ OwnLabels(rq'[r])
  /\ \E a, to :
       /\ patch' = patch \union {[by |-> r, n |-> rq[r].n + 1, a |-> a, to |-> to,
                                  st |-> "guard", from |-> "none", wait |-> TRUE]}
       /\ rq'[r].then = "dec_note" => to = "retired" /\ a = rq'[r].a

\* Taking up a call's answer is a move of the request's own.
LEMMA ResumedMoves ==
  ASSUME AuthorityTypeOK, NEW r \in Req, rq[r].pc # "idle",
         NEW q \in Frame, q.op = rq[r].op, q.w = rq[r].w, q.n = rq[r].n,
         OwnLabels(q), NEW l \in Resumes, Mine(q, l), NEW ok \in BOOLEAN,
         Become(r, Resumed(q, l, ok))
  PROVE  Moved(r)
<1>1. l \notin {"idle", "wait"} \union Minting \union InRevoke \union Locking
  BY DEF Resumes, Minting, InRevoke, Revoking, Locking
<1>2. rq'[r] = Resumed(q, l, ok)
  BY DEF Become, AuthorityTypeOK
<1>3. /\ Resumed(q, l, ok).op = q.op /\ Resumed(q, l, ok).pc = l
      /\ l # "done" => Resumed(q, l, ok).w = q.w /\ Resumed(q, l, ok).n = q.n
  BY ResumedFacts
<1>4. OwnLabels(Resumed(q, l, ok))
  <2>1. CASE l = "done"
    BY <2>1 DEF Resumed, Idle, OwnLabels, Mine, InDecommission, InRevoke, Revoking
  <2>2. CASE l # "done"
    BY <2>2, ResumedFacts, <1>1, <1>3 DEF OwnLabels, Mine
  <2> QED BY <2>1, <2>2
<1> QED BY <1>1, <1>2, <1>3, <1>4 DEF Moved

\* So is a return to the caller, at any depth of calls.
LEMMA ReturnMoves ==
  ASSUME AuthorityTypeOK, NEW r \in Req, rq[r].pc # "idle", Ordered(r),
         OwnLabels(rq[r]), NEW ok \in BOOLEAN, Return(r, ok)
  PROVE  Moved(r)
BY MadeFrame, ResumedMoves DEF Ordered, OwnLabels, Return, Returned

\* So is going on to a label that is neither a wait nor part of a decommission.
LEMMA GotoMoves ==
  ASSUME AuthorityTypeOK, NEW r \in Req, rq[r].pc # "idle",
         OwnLabels(rq[r]), NEW l \in Label \ ({"wait"} \union InDecommission),
         l \in Minting => rq[r].pc \in Minting, l \in InRevoke => rq[r].pc \in InRevoke,
         l \in Locking => rq[r].pc \in Revoking,
         Goto(r, l)
  PROVE  Moved(r)
<1>1. rq[r] \in Frame /\ l # "idle"
  BY MadeFrame DEF Label, InDelegation
<1>2. rq'[r] = [rq[r] EXCEPT !.pc = l]
  BY DEF Goto, Become, AuthorityTypeOK
<1> DEFINE f == [rq[r] EXCEPT !.pc = l]
<1>3. /\ f.op = rq[r].op /\ f.pc = l /\ f.w = rq[r].w /\ f.n = rq[r].n
      /\ f.back = rq[r].back /\ f.then = rq[r].then /\ f.orelse = rq[r].orelse
  BY <1>1 DEF Frame
<1> HIDE DEF f
<1>4. OwnLabels(f)
  BY <1>3 DEF OwnLabels, Mine
<1> QED BY <1>1, <1>2, <1>3, <1>4 DEF Moved, f

\* Sending a PATCH leaves it under way under the request's own number.
LEMMA SendPatchSent ==
  ASSUME AuthorityTypeOK, NEW r \in Req, rq[r].pc \notin {"idle", "wait"},
         NEW q \in Frame, q.op = rq[r].op, q.w = rq[r].w, q.n = rq[r].n,
         OwnLabels(q), NEW a, a = q.a, NEW to, NEW l, Mine(q, l), NEW m, Mine(q, m),
         l = "dec_note" => to = "retired",
         SendPatch(r, q, a, to, l, m)
  PROVE  Sent(r)
<1>1. rq'[r] = Patching(q, l, m)
  BY DEF SendPatch, Become, AuthorityTypeOK
<1>2. /\ Patching(q, l, m).pc = "wait" /\ Patching(q, l, m).op = q.op
      /\ Patching(q, l, m).w = q.w /\ Patching(q, l, m).n = q.n + 1
      /\ Patching(q, l, m).then = l /\ Patching(q, l, m).a = q.a
      /\ Patching(q, l, m).back = q.back /\ Patching(q, l, m).orelse = m
  BY DEF Patching, Frame
<1>4. OwnLabels(Patching(q, l, m))
  BY <1>2 DEF OwnLabels, Mine, InDecommission, InRevoke, Revoking
<1>3. patch' = patch \union {[by |-> r, n |-> rq[r].n + 1, a |-> q.a, to |-> to,
                              st |-> "guard", from |-> "none", wait |-> TRUE]}
  BY DEF SendPatch
<1> QED BY <1>1, <1>2, <1>3, <1>4 DEF Sent

\* Every step is one of these, or takes the answer or the timeout of a PATCH.
Answered(r) == (PatchReturn(r) \/ PatchTimeout(r)) /\ Moved(r)
Kept(r) == Still(r) \/ Sent(r) \/ Answered(r)

\* An operator's calls to the registry move only their own request, or send its PATCH.
LEMMA OperatorMoves ==
  ASSUME AuthorityTypeOK, LedgerFirst, NEW r \in Req, OwnLabels(rq[r]), OperatorStep(r)
  PROVE  Kept(r)
<1>1. rq[r].pc # "idle"
  BY DEF OperatorStep, PatchReturn, PatchTimeout, Edit, Attest, AttestNote
<1>2. rq[r] \in Frame /\ Ordered(r)
  BY <1>1, MadeFrame DEF LedgerFirst
<1>3. /\ rq[r].then \in Resumes /\ rq[r].orelse \in Resumes
      /\ Mine(rq[r], rq[r].then) /\ Mine(rq[r], rq[r].orelse)
  BY <1>2 DEF Ordered, OwnLabels
<1>4. CASE PatchReturn(r) \/ PatchTimeout(r)
  BY <1>3, <1>4, <1>1, <1>2, ResumedMoves DEF PatchReturn, PatchTimeout, Kept, Answered
<1>5. CASE Edit(r)
  <2> DEFINE q == rq[r]
  <2>1. rq[r].pc \notin {"idle", "wait"} /\ SendPatch(r, q, q.a, "edit", "done", "done")
    BY <1>5 DEF Edit
  <2>2. q \in Frame /\ q.op = rq[r].op /\ q.w = rq[r].w /\ q.n = rq[r].n
    BY <1>2
  <2> HIDE DEF q
  <2>3. OwnLabels(q) /\ Mine(q, "done") /\ "done" # "dec_note"
    BY DEF q, Mine, InDecommission
  <2>4. Sent(r)
    BY <1>1, <2>1, <2>2, <2>3, SendPatchSent
  <2> QED BY <2>4 DEF Kept
<1>6. CASE Attest(r)
  BY <1>1, <1>2, <1>6, ReturnMoves, GotoMoves DEF Label, InDecommission, Minting, InRevoke, Revoking, Locking,
    Attest, Still, Kept
<1>7. CASE AttestNote(r)
  <2>1. Moved(r)
    BY <1>1, <1>2, <1>7, ReturnMoves DEF AttestNote
  <2> QED BY <1>7, <2>1 DEF AttestNote, Still, Kept
<1> QED BY <1>4, <1>5, <1>6, <1>7 DEF OperatorStep

\* The delegation authority's handlers: mint, revoke and their events.
LEMMA DelegationMoves ==
  ASSUME AuthorityTypeOK, LedgerFirst, NEW r \in Req, OwnLabels(rq[r]), DelegationStep(r)
  PROVE  Kept(r)
<1>1. rq[r].pc \notin {"idle", "wait"} /\ patch' = patch
  BY DEF DelegationStep, MintRead, MintLedger, MintSave, RevokeRead, RevokeLock, RevokeLedger,
         RevokeSave
<1>2. Ordered(r)
  BY DEF LedgerFirst
<1>3. {"mint_ledger", "mint_save", "revoke_lock", "revoke_ledger", "revoke_save"}
        \subseteq Label \ ({"wait"} \union InDecommission)
  BY DEF Label, InDelegation, InDecommission
<1>4. \/ \E ok \in BOOLEAN : Return(r, ok)
      \/ \E l \in Label \ ({"wait"} \union InDecommission) :
           /\ Goto(r, l)
           /\ l \in Minting => rq[r].pc \in Minting
           /\ l \in InRevoke => rq[r].pc \in InRevoke
           /\ l \in Locking => rq[r].pc \in Revoking
  BY <1>3 DEF Locking, DelegationStep, MintRead, MintLedger, MintSave, RevokeRead, RevokeLock,
              RevokeLedger, RevokeSave, Minting, InRevoke, Revoking
<1>5. Moved(r)
  BY <1>1, <1>2, <1>4, ReturnMoves, GotoMoves
<1> QED BY <1>1, <1>5 DEF Still, Kept

\* The enforcement check answers, and moves nothing else.
LEMMA SentinelMoves ==
  ASSUME AuthorityTypeOK, LedgerFirst, NEW r \in Req, OwnLabels(rq[r]), SentinelStep(r)
  PROVE  Kept(r)
<1>1. rq[r].pc \notin {"idle", "wait"} /\ patch' = patch
  BY DEF SentinelStep, CheckAgent, CheckToken, CheckAllow
<1>2. Ordered(r)
  BY DEF LedgerFirst
<1>3. /\ {"check_token", "check_allow"} \subseteq Label \ ({"wait"} \union InDecommission)
      /\ {"check_token", "check_allow"} \cap (Minting \union InRevoke \union Locking) = {}
  BY DEF Label, InDecommission, Minting, InRevoke, Revoking, Locking
<1>4. \/ \E ok \in BOOLEAN : Return(r, ok)
      \/ \E l \in {"check_token", "check_allow"} : Goto(r, l)
  BY DEF SentinelStep, CheckAgent, CheckToken, CheckAllow, Refuse
<1>5. Moved(r)
  BY <1>1, <1>2, <1>3, <1>4, ReturnMoves, GotoMoves
<1> QED BY <1>1, <1>5 DEF Still, Kept

\* A decommission: kill, revocations, retirement, one call at a time.
LEMMA LifecycleMoves ==
  ASSUME AuthorityTypeOK, LedgerFirst, NEW r \in Req, OwnLabels(rq[r]), LifecycleStep(r)
  PROVE  Kept(r)
<1>1. rq[r].pc \notin {"idle", "wait"}
  BY DEF LifecycleStep, DecommissionRead, DecommissionList, DecommissionRevoke,
         DecommissionRetire, DecommissionNote
<1>2. rq[r] \in Frame /\ Ordered(r)
  BY <1>1, MadeFrame DEF LedgerFirst
<1>3. rq[r].ok \in BOOLEAN /\ rq[r].ret \in BOOLEAN
  BY <1>2 DEF Frame
<1>4. "dec_revoke" \in Resumes /\ "done" \in Resumes /\ rq[r].op = "decommission"
  BY DEF LifecycleStep, DecommissionRead, DecommissionList, DecommissionRevoke, DecommissionRetire,
    DecommissionNote, InDecommission, Resumes, OwnLabels, Mine
<1>5. \A ok \in BOOLEAN : Return(r, ok) => Moved(r)
  BY <1>1, <1>2, ReturnMoves
<1>6. \A l \in Resumes, ok \in BOOLEAN : Become(r, Resumed(rq[r], l, ok)) => Moved(r)
  BY <1>1, <1>2, <1>4, ResumedMoves DEF Mine
<1>7. ASSUME NEW f, Become(r, f), f.op = rq[r].op, f.w = rq[r].w, f.n = rq[r].n,
             f.pc \in {"dec_list", "dec_revoke", "dec_retire", "kill", "revoke"}
      PROVE  Moved(r)
  BY <1>4, <1>7 DEF Moved, Become, AuthorityTypeOK, OwnLabels, Mine, Minting, Locking
<1>8. CASE DecommissionRead(r)
  <2>1. Moved(r)
    BY <1>5, <1>2, <1>7, <1>8 DEF Frame, DecommissionRead, Unreachable
  <2> QED BY <1>1, <1>8, <2>1 DEF DecommissionRead, Unreachable, Still, Kept
<1>9. CASE DecommissionList(r)
  <2> DEFINE mine == {t \in Token : token[t].agent = rq[r].a /\ token[t].st = "active"}
  <2>1. Moved(r)
    <3>1. CASE Return(r, FALSE) \/ Become(r, Resumed(rq[r], "dec_revoke", FALSE))
      BY <1>4, <1>5, <1>6, <3>1
    <3>2. CASE Become(r, [rq[r] EXCEPT !.pc = "dec_revoke", !.todo = mine, !.seen = mine])
      <4> HIDE DEF mine
      <4> QED BY <1>2, <1>7, <3>2 DEF Frame
    <3> QED BY <1>9, <3>1, <3>2 DEF DecommissionList
  <2> QED BY <1>1, <1>9, <2>1 DEF DecommissionList, Still, Kept
<1>10. CASE DecommissionRevoke(r)
  <2> DEFINE q == [rq[r] EXCEPT !.ok = rq[r].ok /\ rq[r].ret]
  <2>1. q \in Frame /\ q.op = rq[r].op /\ q.w = rq[r].w /\ q.n = rq[r].n
    BY <1>2, <1>3 DEF Frame
  <2>2. \/ Become(r, [q EXCEPT !.pc = "kill", !.back = "dec_retire"])
        \/ Become(r, [q EXCEPT !.pc = "dec_retire", !.ret = TRUE])
        \/ \E t \in q.todo : Become(r, [q EXCEPT !.pc = "revoke", !.back = "dec_revoke",
                                                 !.t = t, !.todo = @ \ {t}])
    BY <1>10 DEF DecommissionRevoke
  <2> HIDE DEF q
  <2>3. Moved(r)
    BY <1>7, <2>1, <2>2 DEF Frame
  <2> QED BY <1>1, <1>10, <2>3 DEF DecommissionRevoke, Still, Kept
<1>11. CASE DecommissionRetire(r)
  <2> DEFINE q == [rq[r] EXCEPT !.ok = rq[r].ok /\ rq[r].ret]
  <2>1. q \in Frame /\ q.op = rq[r].op /\ q.w = rq[r].w /\ q.n = rq[r].n /\ q.a = rq[r].a
    BY <1>2, <1>3 DEF Frame
  <2>2. SendPatch(r, q, q.a, "retired", "dec_note", "dec_note")
    BY <1>11, <2>1 DEF DecommissionRetire
  <2> HIDE DEF q
  <2>3. Sent(r)
    BY <1>1, <1>4, <2>1, <2>2, SendPatchSent DEF OwnLabels, Mine
  <2> QED BY <2>3 DEF Kept
<1>12. CASE DecommissionNote(r)
  BY <1>3, <1>4, <1>6, <1>12, <1>1 DEF DecommissionNote, Still, Kept
<1> QED BY <1>8, <1>9, <1>10, <1>11, <1>12 DEF LifecycleStep

\* The kill switch: the status change, the signal, the event.
LEMMA KillSwitchMoves ==
  ASSUME AuthorityTypeOK, LedgerFirst, NEW r \in Req, OwnLabels(rq[r]), KillSwitchStep(r)
  PROVE  Kept(r)
<1>1. rq[r].pc \notin {"idle", "wait"}
  BY DEF KillSwitchStep, KillRead, KillSignal, KillNote, DomainList, DomainNext, ReviveRead,
         ReviveNote, DrillRead, DrillConfirm, DrillBeat, DrillRestore, DrillVerify, DrillFailed,
         DrillReport
<1>2. rq[r] \in Frame /\ Ordered(r)
  BY <1>1, MadeFrame DEF LedgerFirst
<1>3. /\ rq[r].prev \in Status /\ rq[r].ok \in BOOLEAN /\ rq[r].ret \in BOOLEAN
      /\ rq[r].a \in Agents /\ rq[r].back \in Resumes
  BY <1>2 DEF Frame, Ordered
<1>4. {"done", "drill_restore"} \subseteq Resumes \ InDecommission
  BY DEF Resumes, InDecommission
<1>5. /\ {"kill_signal", "kill_note", "drill_restore", "drill_failed", "drill_report"}
           \subseteq Label \ ({"wait"} \union InDecommission)
      /\ {"kill_signal", "kill_note", "drill_restore", "drill_failed", "drill_report"}
           \cap (Minting \union InRevoke \union Locking) = {}
  BY DEF Label, InDecommission, Minting, InRevoke, Revoking, Locking
<1>6. \A ok \in BOOLEAN : Return(r, ok) => Moved(r)
  BY <1>1, <1>2, ReturnMoves
<1>7. \A l \in {"kill_signal", "kill_note", "drill_restore", "drill_failed", "drill_report"} :
        Goto(r, l) => Moved(r)
  BY <1>1, <1>5, GotoMoves
<1>8. \A l \in {"done", "drill_restore"}, ok \in BOOLEAN :
        Become(r, Resumed(rq[r], l, ok)) => Moved(r)
  BY <1>1, <1>2, <1>4, ResumedMoves DEF Mine
<1>9. ASSUME NEW f, Become(r, f), f.op = rq[r].op, f.w = rq[r].w, f.n = rq[r].n,
             f.then = rq[r].then, f.orelse = rq[r].orelse,
             f.back \in {rq[r].back, "domain_next"}, f.pc \in {"domain_next", "kill", "drill_beat"}
      PROVE  Moved(r)
  <2>1. OwnLabels(f)
    BY <1>9 DEF OwnLabels, Mine, InDecommission, InRevoke, Revoking
  <2> QED BY <1>9, <2>1 DEF Moved, Become, AuthorityTypeOK, Minting, Locking
<1>20. ASSUME NEW q \in Frame, q.op = rq[r].op, q.w = rq[r].w, q.n = rq[r].n, q.a = rq[r].a,
              q.pc = rq[r].pc, q.back = rq[r].back, q.then = rq[r].then, q.orelse = rq[r].orelse,
              NEW to,
              NEW l \in {"kill_signal", "revive_note", "drill_confirm", "drill_verify"},
              NEW m \in {"done", "drill_restore", "drill_failed", rq[r].back},
              SendPatch(r, q, q.a, to, l, m)
       PROVE  Kept(r)
  BY <1>20, <1>1, SendPatchSent DEF OwnLabels, Mine, InDecommission, Kept
<1>10. CASE KillRead(r)
  BY <1>1, <1>6, <1>5, <1>7, <1>2, <1>20, <1>10 DEF Still, Kept, KillRead, Unreachable
<1>11. CASE KillSignal(r) \/ KillNote(r) \/ ReviveNote(r) \/ DrillFailed(r)
  BY <1>5, <1>6, <1>7, <1>11, <1>1 DEF KillSignal, KillNote, ReviveNote, DrillFailed, Still, Kept
<1>12. CASE DomainList(r)
  <2> DEFINE live == {a \in Agents : reg[a].status # "retired"}
  <2>1. Moved(r)
    <3>1. CASE Return(r, FALSE)
      BY <1>6, <3>1
    <3>2. CASE Become(r, [rq[r] EXCEPT !.pc = "domain_next", !.left = live, !.ok = live = {},
                                       !.ret = FALSE])
      <4> DEFINE empty == live = {}
      <4>1. Become(r, [rq[r] EXCEPT !.pc = "domain_next", !.left = live, !.ok = empty,
                                    !.ret = FALSE])
        BY <3>2
      <4> HIDE DEF live, empty
      <4> QED BY <1>2, <1>9, <4>1 DEF Frame
    <3> QED BY <1>12, <3>1, <3>2 DEF DomainList, Unreachable
  <2> QED BY <1>1, <1>12, <2>1 DEF DomainList, Unreachable, Still, Kept
<1>13. CASE DomainNext(r)
  <2> DEFINE q == [rq[r] EXCEPT !.ok = rq[r].ok \/ rq[r].ret]
  <2>1. /\ q \in Frame /\ q.op = rq[r].op /\ q.w = rq[r].w /\ q.n = rq[r].n
        /\ q.ok \in BOOLEAN /\ q.pc = rq[r].pc /\ q.back = rq[r].back
        /\ q.then = rq[r].then /\ q.orelse = rq[r].orelse
    BY <1>2, <1>3 DEF Frame
  <2>2. \/ Become(r, Resumed(q, "done", q.ok))
        \/ \E a \in q.left : Become(r, [q EXCEPT !.pc = "kill", !.back = "domain_next", !.a = a,
                                                 !.left = @ \ {a}])
    BY <1>13 DEF DomainNext
  <2> HIDE DEF q
  <2>3. Moved(r)
    <3>1. CASE Become(r, Resumed(q, "done", q.ok))
      BY <1>4, <2>1, <1>1, <3>1, ResumedMoves DEF OwnLabels, Mine
    <3>2. ASSUME NEW a \in q.left,
                 Become(r, [q EXCEPT !.pc = "kill", !.back = "domain_next", !.a = a,
                                     !.left = @ \ {a}])
          PROVE  Moved(r)
      <4> DEFINE f == [q EXCEPT !.pc = "kill", !.back = "domain_next", !.a = a,
                                !.left = @ \ {a}]
      <4>1. /\ f.pc = "kill" /\ f.back = "domain_next" /\ f.op = q.op /\ f.w = q.w
            /\ f.n = q.n /\ f.then = q.then /\ f.orelse = q.orelse
        BY <2>1 DEF Frame
      <4>2. Become(r, f)
        BY <3>2
      <4> HIDE DEF f
      <4> QED BY <1>9, <2>1, <4>1, <4>2
    <3> QED BY <2>2, <3>1, <3>2
  <2> QED BY <1>1, <1>13, <2>3 DEF DomainNext, Still, Kept
<1>14. CASE ReviveRead(r)
  BY <1>1, <1>6, <1>2, <1>20, <1>14 DEF Still, Kept, ReviveRead, Unreachable
<1>15. CASE DrillRead(r)
  <2>1. CASE Return(r, FALSE) /\ UNCHANGED patch
    BY <1>1, <1>6, <2>1 DEF Still, Kept
  <2>2. CASE SendPatch(r, [rq[r] EXCEPT !.prev = StatusOf(r)], rq[r].a, "killed",
                       "drill_confirm", "drill_restore")
    <3> DEFINE q == [rq[r] EXCEPT !.prev = StatusOf(r)]
    <3>1. StatusOf(r) \in Status
      BY <1>3 DEF StatusOf, AuthorityTypeOK, Record
    <3>2. /\ q \in Frame /\ q.op = rq[r].op /\ q.w = rq[r].w /\ q.n = rq[r].n /\ q.a = rq[r].a
          /\ q.pc = rq[r].pc /\ q.back = rq[r].back /\ q.then = rq[r].then
          /\ q.orelse = rq[r].orelse
      BY <1>2, <3>1 DEF Frame
    <3>3. SendPatch(r, q, q.a, "killed", "drill_confirm", "drill_restore")
      BY <2>2, <3>2
    <3> HIDE DEF q
    <3> QED BY <1>20, <3>2, <3>3
  <2> QED BY <1>15, <2>1, <2>2 DEF DrillRead, Unreachable
<1>16. CASE DrillConfirm(r)
  <2>1. Moved(r)
    BY <1>4, <1>8, <1>2, <1>9, <1>16 DEF Frame, DrillConfirm
  <2> QED BY <1>1, <1>16, <2>1 DEF DrillConfirm, Still, Kept
<1>17. CASE DrillBeat(r)
  <2>1. Moved(r)
    BY <1>4, <1>5, <1>7, <1>8, <1>17 DEF DrillBeat
  <2> QED BY <1>1, <1>17, <2>1 DEF DrillBeat, Still, Kept
<1>18. CASE DrillRestore(r)
  <2> DEFINE q == [rq[r] EXCEPT !.ok = rq[r].ret]
  <2>1. /\ q \in Frame /\ q.op = rq[r].op /\ q.w = rq[r].w /\ q.n = rq[r].n /\ q.a = rq[r].a
        /\ q.pc = rq[r].pc /\ q.back = rq[r].back /\ q.then = rq[r].then
        /\ q.orelse = rq[r].orelse
    BY <1>2, <1>3 DEF Frame
  <2>2. SendPatch(r, q, q.a, rq[r].prev, "drill_verify", "drill_failed")
    BY <1>18, <2>1 DEF DrillRestore
  <2> HIDE DEF q
  <2> QED BY <1>20, <2>1, <2>2
<1>19. CASE DrillVerify(r) \/ DrillReport(r)
  <2>1. \/ Goto(r, "drill_failed")
        \/ \E restored \in BOOLEAN : DrillEnd(r, restored)
    BY <1>19 DEF DrillVerify, DrillReport
  <2>2. ASSUME NEW restored \in BOOLEAN, DrillEnd(r, restored)
        PROVE  Moved(r)
    BY <1>4, <1>8, <2>2 DEF DrillEnd
  <2>3. Moved(r)
    BY <1>5, <1>7, <2>1, <2>2
  <2> QED BY <1>1, <1>19, <2>3 DEF DrillVerify, DrillReport, Still, Kept
<1> QED BY <1>10, <1>11, <1>12, <1>13, <1>14, <1>15, <1>16, <1>17, <1>18, <1>19
        DEF KillSwitchStep

\* Every step of a request is one of these.
LEMMA StepMoves ==
  ASSUME AuthorityTypeOK, LedgerFirst, NEW r \in Req, OwnLabels(rq[r]), Step(r)
  PROVE  Kept(r)
BY OperatorMoves, KillSwitchMoves, DelegationMoves, LifecycleMoves, SentinelMoves DEF Step

-----------------------------------------------------------------------------
(* PATCH calls: numbers, waiting and what was written (PatchInv).           *)

\* Retirement is terminal at every step.
LEMMA RetiredKept ==
  ASSUME AuthorityTypeOK, [Next]_avars, NEW a \in Agents, Retired(a)
  PROVE  Retired(a)'
BY RetiredStep DEF Retired

\* A request that waits for no PATCH may be answered, or go on under its number.
Calm(s) ==
  \/ rq'[s] = rq[s]
  \/ /\ rq[s].pc \notin {"wait", "done"}
     /\ rq'[s].pc = "done" \/ rq'[s].n = rq[s].n

\* Requests that send no PATCH leave the PATCHes under way as they are.
LEMMA PatchCalm ==
  ASSUME AuthorityTypeOK, PatchInv, patch' = patch, \A s \in Req : Calm(s),
         \A a \in Agents : Retired(a) => Retired(a)'
  PROVE  PatchInv'
<1>1. \A p \in patch : p.by \in Req /\ p.a \in Agents
  BY DEF AuthorityTypeOK, Patch
<1>2. PatchIds'
  BY <1>1 DEF PatchInv, PatchIds, Calm
<1>3. ASSUME NEW p \in patch
      PROVE  PatchSound(p)'
  BY <1>1 DEF PatchInv, PatchSound, Calm
<1> QED BY <1>2, <1>3 DEF PatchInv

\* A new PATCH has a number of its own and is the one its sender waits for.
LEMMA PatchSent ==
  ASSUME AuthorityTypeOK, PatchInv, NEW r \in Req, rq[r].pc \notin {"idle", "done"}, Sent(r),
         \A s \in Req \ {r} : rq'[s] = rq[s],
         \A a \in Agents : Retired(a) => Retired(a)'
  PROVE  PatchInv'
<1>1. \A p \in patch : p.by \in Req /\ p.a \in Agents /\ p.n \in Nat
  BY DEF AuthorityTypeOK, Patch
<1>2. rq[r].n \in Nat
  <2>1. rq[r] \in Frame
    BY MadeFrame
  <2> QED BY <2>1 DEF Frame
<1>3. PICK a, to :
        /\ patch' = patch \union {[by |-> r, n |-> rq[r].n + 1, a |-> a, to |-> to,
                                   st |-> "guard", from |-> "none", wait |-> TRUE]}
        /\ rq'[r].then = "dec_note" => to = "retired" /\ a = rq'[r].a
  BY DEF Sent
<1> DEFINE new == [by |-> r, n |-> rq[r].n + 1, a |-> a, to |-> to,
                   st |-> "guard", from |-> "none", wait |-> TRUE]
<1>4. /\ new.by = r /\ new.n = rq[r].n + 1 /\ new.a = a /\ new.to = to
      /\ new.st = "guard" /\ new.wait = TRUE
  OBVIOUS
<1>5. patch' = patch \union {new}
  BY <1>3
<1> HIDE DEF new
<1>6. \A p \in patch : p.by = r => p.n <= rq[r].n
  BY DEF PatchInv, PatchIds
<1>7. PatchIds'
  <2>1. \A p, q \in patch' : p.by = q.by /\ p.n = q.n => p = q
    BY <1>1, <1>2, <1>4, <1>5, <1>6 DEF PatchInv, PatchIds
  <2>2. ASSUME NEW p \in patch', rq'[p.by].pc # "done"
        PROVE  p.n <= rq'[p.by].n
    <3>1. rq'[r].n = rq[r].n + 1
      BY DEF Sent
    <3>2. CASE p = new
      BY <1>2, <1>4, <3>1, <3>2
    <3>3. CASE p \in patch /\ p.by = r
      BY <1>1, <1>2, <1>6, <3>1, <3>3
    <3>4. CASE p \in patch /\ p.by # r
      BY <1>1, <3>4, <2>2 DEF PatchInv, PatchIds
    <3> QED BY <1>5, <3>2, <3>3, <3>4
  <2> QED BY <2>1, <2>2 DEF PatchIds
<1>8. ASSUME NEW p \in patch'
      PROVE  PatchSound(p)'
  <2>1. CASE p = new
    BY <1>3, <1>4, <2>1 DEF PatchSound, Sent
  <2>2. CASE p \in patch
    BY <2>2, <1>1 DEF PatchInv, PatchSound, Sent
  <2> QED BY <1>5, <2>1, <2>2
<1> QED BY <1>7, <1>8 DEF PatchInv

\* The answer or the timeout ends the wait for the only PATCH waited for.
LEMMA PatchAnswered ==
  ASSUME AuthorityTypeOK, PatchInv, NEW r \in Req, Answered(r),
         \A s \in Req \ {r} : rq'[s] = rq[s],
         \A a \in Agents : Retired(a) => Retired(a)'
  PROVE  PatchInv'
<1>1. \A p \in patch : p \in Patch /\ p.by \in Req /\ p.a \in Agents /\ p.n \in Nat
  BY DEF AuthorityTypeOK, Patch
<1>2. rq'[r].pc # "wait" /\ (rq'[r].pc = "done" \/ rq'[r].n = rq[r].n) /\ rq[r].pc = "wait"
  BY DEF Answered, Moved, PatchReturn, PatchTimeout
<1>3. PICK p \in patch :
        /\ p.by = r /\ p.wait
        /\ \/ patch' = patch \ {p}
           \/ patch' = (patch \ {p}) \union {[p EXCEPT !.wait = FALSE]}
  BY DEF Answered, PatchReturn, PatchTimeout
<1> DEFINE gone == [p EXCEPT !.wait = FALSE]
<1>4. /\ gone.by = p.by /\ gone.n = p.n /\ gone.a = p.a /\ gone.to = p.to /\ gone.st = p.st
      /\ ~ gone.wait
  BY <1>1 DEF Patch
<1>5. patch' \subseteq (patch \ {p}) \union {gone}
  BY <1>3
<1> HIDE DEF gone
<1>6. \A q \in patch : q.wait /\ q.by = r => q = p
  BY <1>3 DEF PatchInv, PatchIds, PatchSound
<1>7. PatchIds'
  <2>1. \A q, s \in patch' : q.by = s.by /\ q.n = s.n => q = s
    BY <1>3, <1>4, <1>5 DEF PatchInv, PatchIds
  <2>2. ASSUME NEW q \in patch', rq'[q.by].pc # "done"
        PROVE  q.n <= rq'[q.by].n
    BY <1>3, <1>4, <1>5, <1>1, <1>2, <2>2 DEF PatchInv, PatchIds
  <2> QED BY <2>1, <2>2 DEF PatchIds
<1>8. ASSUME NEW q \in patch'
      PROVE  PatchSound(q)'
  <2>1. CASE q = gone
    BY <1>1, <1>3, <1>4, <2>1 DEF PatchSound, PatchInv
  <2>2. CASE q \in patch \ {p}
    BY <1>6, <2>2, <1>1 DEF PatchInv, PatchSound
  <2> QED BY <1>5, <2>1, <2>2
<1> QED BY <1>7, <1>8 DEF PatchInv

\* The registry keeps a PATCH's number and who waits; it answers a retirement with
\* ok only after it wrote it.
LEMMA PatchServed ==
  ASSUME AuthorityTypeOK, PatchInv, NEW p \in patch, RegistryStep(p),
         \A a \in Agents : Retired(a) => Retired(a)'
  PROVE  PatchInv'
<1>1. \A q \in patch : q \in Patch /\ q.by \in Req /\ q.a \in Agents
  BY DEF AuthorityTypeOK, Patch
<1>2. rq' = rq
  BY DEF RegistryStep, PatchGuard, PatchWrite, PatchNote
<1>3. PICK next :
        /\ patch' \subseteq (patch \ {p}) \union {next}
        /\ next.by = p.by /\ next.n = p.n /\ next.a = p.a /\ next.to = p.to
        /\ next.wait = p.wait
        /\ next.to = "retired" /\ next.st \in {"note", "ok"} => Retired(p.a)'
  <2>1. ASSUME NEW st \in {"guard", "write", "note", "ok", "refused"}
        PROVE  LET f == [p EXCEPT !.st = st]
               IN /\ f.by = p.by /\ f.n = p.n /\ f.a = p.a /\ f.to = p.to
                  /\ f.wait = p.wait /\ f.st = st
    BY <1>1 DEF Patch
  <2>2. ASSUME NEW st \in {"guard", "write", "note", "ok", "refused"}, NEW from
        PROVE  LET f == [p EXCEPT !.st = st, !.from = from]
               IN /\ f.by = p.by /\ f.n = p.n /\ f.a = p.a /\ f.to = p.to
                  /\ f.wait = p.wait /\ f.st = st
    BY <1>1 DEF Patch
  <2>3. CASE PatchGuard(p)
    BY <2>1, <2>2, <2>3 DEF PatchGuard, Answer, Proceed
  <2>4. CASE PatchWrite(p)
    <3>1. CASE RefusedWhenRetired(p)
      BY <2>1, <2>4, <3>1 DEF PatchWrite, Answer
    <3>2. CASE ~ RefusedWhenRetired(p)
      <4>1. reg' = Updated(p) /\ Proceed(p, "note", reg[p.a].status)
        BY <2>4, <3>2 DEF PatchWrite
      <4>2. p.to = "retired" => Retired(p.a)'
        BY <1>1, <4>1 DEF AuthorityTypeOK, Record, Updated, Retired
      <4> DEFINE f == [p EXCEPT !.st = "note", !.from = reg[p.a].status]
      <4>3. /\ f.by = p.by /\ f.n = p.n /\ f.a = p.a /\ f.to = p.to
            /\ f.wait = p.wait /\ f.st = "note"
        BY <2>2
      <4>4. patch' = (patch \ {p}) \union {f}
        BY <4>1 DEF Proceed
      <4> HIDE DEF f
      <4> QED BY <4>2, <4>3, <4>4
    <3> QED BY <3>1, <3>2
  <2>5. CASE PatchNote(p)
    <3>1. p.to = "retired" => Retired(p.a)'
      BY <1>1, <2>5 DEF PatchNote, PatchInv, PatchSound
    <3> DEFINE f == [p EXCEPT !.st = "ok"]
    <3>2. /\ f.by = p.by /\ f.n = p.n /\ f.a = p.a /\ f.to = p.to
          /\ f.wait = p.wait /\ f.st = "ok"
      BY <2>1
    <3>3. patch' \subseteq (patch \ {p}) \union {f}
      BY <2>5 DEF PatchNote, Answer
    <3> HIDE DEF f
    <3> QED BY <3>1, <3>2, <3>3
  <2> QED BY <2>3, <2>4, <2>5 DEF RegistryStep
<1>4. PatchIds'
  BY <1>3, <1>2 DEF PatchInv, PatchIds
<1>5. ASSUME NEW q \in patch'
      PROVE  PatchSound(q)'
  BY <1>2, <1>3, <1>1 DEF PatchSound, PatchInv
<1> QED BY <1>4, <1>5 DEF PatchInv

-----------------------------------------------------------------------------
(* Tokens: stored once, and revoked for good.                               *)

\* The revoke handler goes on, fails, or succeeds once the token is revoked.
LEMMA RevokeOutcome ==
  ASSUME AuthorityTypeOK, LedgerFirst, NEW r \in Req, Step(r), rq[r].pc \in InRevoke
  PROVE  /\ UNCHANGED <<reg, patch>>
         /\ \/ \E l \in InRevoke : Goto(r, l)
            \/ Return(r, FALSE)
            \/ Return(r, TRUE) /\ token'[rq[r].t].st = "revoked"
<1>1. rq[r].t \in Token
  BY DEF LedgerFirst, Ordered, InRevoke
<1>2. RevokeRead(r) \/ RevokeLock(r) \/ RevokeLedger(r) \/ RevokeSave(r)
  <2>1. ~ OperatorStep(r)
    BY DEF InRevoke, Revoking, OperatorStep, PatchReturn, PatchTimeout, Edit, Attest, AttestNote
  <2>2. ~ KillSwitchStep(r)
    BY DEF InRevoke, Revoking, KillSwitchStep, KillRead, KillSignal, KillNote, DomainList,
           DomainNext, ReviveRead, ReviveNote, DrillRead, DrillConfirm, DrillBeat, DrillRestore,
           DrillVerify, DrillFailed, DrillReport
  <2>3. ~ LifecycleStep(r)
    BY DEF InRevoke, Revoking, LifecycleStep, DecommissionRead, DecommissionList,
           DecommissionRevoke, DecommissionRetire, DecommissionNote
  <2>4. ~ SentinelStep(r)
    BY DEF InRevoke, Revoking, SentinelStep, CheckAgent, CheckToken, CheckAllow
  <2>5. ~ MintRead(r) /\ ~ MintLedger(r) /\ ~ MintSave(r)
    BY DEF InRevoke, Revoking, MintRead, MintLedger, MintSave
  <2> QED BY <2>1, <2>2, <2>3, <2>4, <2>5 DEF Step, DelegationStep
<1>3. CASE RevokeRead(r)
  BY <1>3 DEF RevokeRead, InRevoke, Revoking
<1>4. CASE RevokeLock(r)
  BY <1>4 DEF RevokeLock, InRevoke, Revoking
<1>5. CASE RevokeLedger(r)
  BY <1>5 DEF RevokeLedger, InRevoke, Revoking
<1>6. CASE RevokeSave(r)
  <2>1. token'[rq[r].t].st = "revoked"
    <3>1. CASE token[rq[r].t].st = "revoked"
      BY <1>6, <3>1 DEF RevokeSave
    <3>2. CASE token[rq[r].t].st # "revoked"
      BY <1>6, <3>2, <1>1 DEF RevokeSave, AuthorityTypeOK, StoredToken
    <3> QED BY <3>1, <3>2
  <2> QED BY <1>6, <2>1 DEF RevokeSave
<1> QED BY <1>2, <1>3, <1>4, <1>5, <1>6

\* A stored token is never taken back to active, and the only token a step stores is
\* that of its own mint, which is answered with it.
LEMMA TokenMoves ==
  ASSUME AuthorityTypeOK, LedgerFirst, NEW r \in Req, MintedOnce(r), Step(r)
  PROVE  /\ \A t \in Token : token[t].st = "revoked" => token'[t].st = "revoked"
         /\ \A s \in Req : token[s].st = "none" =>
                            token'[s].st = "none" \/ (s = r /\ rq'[r].pc \notin Minting)
<1>1. CASE token' = token
  BY <1>1
<1>2. CASE MintSave(r)
  <2>1. token[r].st = "none" /\ r \in Token
    BY <1>2 DEF MintSave, MintedOnce, Minting, Token
  <2>2. \A t \in Token : t # r => token'[t] = token[t]
    BY <1>2 DEF MintSave, AuthorityTypeOK
  <2>3. rq'[r].pc \notin Minting
    <3>1. rq[r] \in Frame /\ rq[r].back \in Resumes
      BY <1>2, MadeFrame DEF MintSave, LedgerFirst, Ordered
    <3>2. rq'[r] = Resumed(rq[r], rq[r].back, TRUE)
      BY <1>2 DEF MintSave, Return, Returned, Become, AuthorityTypeOK
    <3>3. Resumed(rq[r], rq[r].back, TRUE).pc = rq[r].back
      BY <3>1 DEF Resumed, Idle, Frame
    <3> QED BY <3>1, <3>2, <3>3 DEF Resumes, Minting
  <2>4. \A s \in Req : s \in Token
    BY DEF Token
  <2> QED BY <2>1, <2>2, <2>3, <2>4
<1>3. CASE RevokeSave(r)
  BY <1>3 DEF RevokeSave, LedgerFirst, Ordered, Revoking, AuthorityTypeOK, StoredToken, Token
<1>4. token' = token \/ MintSave(r) \/ RevokeSave(r)
  <2>1. CASE DelegationStep(r)
    BY <2>1 DEF DelegationStep, MintRead, MintLedger, RevokeRead, RevokeLock, RevokeLedger, dvars
  <2>2. CASE LifecycleStep(r)
    BY <2>2 DEF LifecycleStep, DecommissionRead, DecommissionList, DecommissionRevoke,
                DecommissionRetire, DecommissionNote, dvars
  <2>3. CASE SentinelStep(r)
    BY <2>3 DEF SentinelStep, CheckAgent, CheckToken, CheckAllow, dvars
  <2> QED BY <2>1, <2>2, <2>3 DEF Step, dvars
<1> QED BY <1>1, <1>2, <1>3, <1>4

\* A request's token is stored only as its mint is answered.
LEMMA MintedStep ==
  ASSUME AuthorityTypeOK, LedgerFirst, NEW r \in Req, MintedOnce(r), Step(r), Moved(r) \/ Sent(r)
  PROVE  MintedOnce(r)'
BY TokenMoves DEF Moved, Sent, Minting, MintedOnce

-----------------------------------------------------------------------------
(* A decommission's frame (DecommissionSound), handler by handler.          *)

\* What the frame says of the stores stays true while they only move on.
LEMMA DecommissionOther ==
  ASSUME AuthorityTypeOK, NEW s \in Req, DecommissionSound(s), rq'[s] = rq[s],
         \A t \in Token : token[t].st = "revoked" => token'[t].st = "revoked",
         \A a \in Agents : Retired(a) => Retired(a)'
  PROVE  DecommissionSound(s)'
BY DEF DecommissionSound, AuthorityTypeOK, Frame, Idle, Revoked, Retired

\* Back in its loop, or at its next label, with everything listed accounted for.
LEMMA DecommissionGoes ==
  ASSUME NEW r, NEW q, NEW f, rq[r] = q, rq'[r] = f, q.op = "decommission", DecommissionSound(r),
         q.pc # "done", f.op = q.op, f.a = q.a, f.seen = q.seen, f.todo = q.todo, Reaches(f),
         f.pc \notin {"dec_note", "done"}, ~ q.ok => ~ f.ok,
         \A t \in Token : token[t].st = "revoked" => token'[t].st = "revoked",
         f.seen \subseteq Token,
         \A t \in f.seen : q.pc \in InRevoke /\ q.t = t =>
            \/ f.pc \in InRevoke /\ f.t = t
            \/ f.pc = "dec_revoke" /\ ~ f.ret
            \/ token'[t].st = "revoked",
         q.pc = "dec_revoke" /\ ~ q.ret => ~ f.ok
  PROVE  DecommissionSound(r)'
BY DEF DecommissionSound, Excused, Revoked

\* In the revoke handler: back to the loop with the token revoked or ret FALSE.
LEMMA DecommissionInRevoke ==
  ASSUME AuthorityTypeOK, LedgerFirst, NEW r \in Req, DecommissionSound(r),
         rq[r].op = "decommission", rq[r].pc \in InRevoke,
         \/ \E l \in InRevoke : Goto(r, l)
         \/ rq'[r] = Returned(rq[r], FALSE)
         \/ Return(r, TRUE) /\ token'[rq[r].t].st = "revoked",
         \A t \in Token : token[t].st = "revoked" => token'[t].st = "revoked"
  PROVE  DecommissionSound(r)'
<1>1. rq[r].pc # "idle" /\ rq[r].pc # "done"
  BY DEF InRevoke, Revoking
<1>2. rq[r] \in Frame /\ rq[r].back = "dec_revoke" /\ rq[r].pc # "dec_revoke"
  BY <1>1, MadeFrame DEF DecommissionSound, Reaches, InRevoke, Revoking
<1>3. rq[r].seen \subseteq Token
  BY <1>2 DEF Frame
<1>4. ASSUME NEW l \in InRevoke, Goto(r, l)
      PROVE  DecommissionSound(r)'
  <2> DEFINE f == [rq[r] EXCEPT !.pc = l]
  <2>1. /\ f.pc = l /\ f.op = rq[r].op /\ f.a = rq[r].a /\ f.seen = rq[r].seen
        /\ f.todo = rq[r].todo /\ f.ok = rq[r].ok /\ f.t = rq[r].t /\ f.back = "dec_revoke"
        /\ rq'[r] = f
    BY <1>2, <1>4 DEF Frame, Goto, Become, AuthorityTypeOK
  <2> HIDE DEF f
  <2>2. Reaches(f)
    BY <2>1 DEF Reaches, DecommissionLabels, InDecommission, InRevoke, Revoking, InKill
  <2>3. f.pc \notin {"dec_note", "done"}
    BY <2>1 DEF InRevoke, Revoking
  <2> QED BY <1>1, <1>2, <1>3, <2>1, <2>2, <2>3, DecommissionGoes
<1>5. ASSUME NEW ok \in BOOLEAN, rq'[r] = Returned(rq[r], ok),
             ok => token'[rq[r].t].st = "revoked"
      PROVE  DecommissionSound(r)'
  <2> DEFINE f == Resumed(rq[r], "dec_revoke", ok)
  <2>1. /\ f.pc = "dec_revoke" /\ f.op = rq[r].op /\ f.a = rq[r].a /\ f.seen = rq[r].seen
        /\ f.todo = rq[r].todo /\ f.ok = rq[r].ok /\ f.t = rq[r].t /\ f.back = "dec_revoke"
        /\ f.ret = ok
    BY <1>2, ResumedFacts
  <2>2. rq'[r] = f
    BY <1>2, <1>5 DEF Returned
  <2> HIDE DEF f
  <2>3. Reaches(f)
    BY <2>1 DEF Reaches, DecommissionLabels, InDecommission, InRevoke, Revoking, InKill
  <2> QED BY <1>1, <1>2, <1>3, <1>5, <2>1, <2>2, <2>3, DecommissionGoes
<1>6. Return(r, TRUE) => rq'[r] = Returned(rq[r], TRUE)
  BY DEF Return, Become, AuthorityTypeOK
<1> QED BY <1>4, <1>5, <1>6

\* In the kill handler: on to the retirement, whatever became of the kill.
LEMMA DecommissionInKill ==
  ASSUME AuthorityTypeOK, NEW r \in Req, DecommissionSound(r),
         rq[r].op = "decommission", KillRead(r) \/ KillSignal(r) \/ KillNote(r), token' = token
  PROVE  DecommissionSound(r)'
<1>1. rq[r].pc \in InKill /\ rq[r].pc \notin {"idle", "done", "dec_revoke"} \union InRevoke
  BY DEF KillRead, KillSignal, KillNote, InKill, InRevoke, Revoking
<1>2. rq[r] \in Frame /\ rq[r].back = "dec_retire" /\ rq[r].todo = {}
  BY <1>1, MadeFrame DEF DecommissionSound, Reaches
<1>3. rq[r].seen \subseteq Token
  BY <1>2 DEF Frame
<1>4. ASSUME NEW f, rq'[r] = f, Reaches(f), f.op = rq[r].op, f.a = rq[r].a,
             f.seen = rq[r].seen, f.todo = rq[r].todo, f.ok = rq[r].ok,
             f.pc \notin {"dec_note", "done"}
      PROVE  DecommissionSound(r)'
  BY <1>1, <1>3, <1>4, DecommissionGoes
<1>5. ASSUME NEW l \in {"kill_signal", "kill_note"}, Goto(r, l)
      PROVE  DecommissionSound(r)'
  <2> DEFINE f == [rq[r] EXCEPT !.pc = l]
  <2>1. /\ f.pc = l /\ f.op = rq[r].op /\ f.a = rq[r].a /\ f.seen = rq[r].seen
        /\ f.todo = rq[r].todo /\ f.ok = rq[r].ok /\ f.back = "dec_retire"
        /\ rq'[r] = f
    BY <1>2, <1>5 DEF Frame, Goto, Become, AuthorityTypeOK
  <2> HIDE DEF f
  <2>2. Reaches(f) /\ f.pc \notin {"dec_note", "done"}
    BY <1>2, <2>1 DEF Reaches, DecommissionLabels, InDecommission, InRevoke, Revoking, InKill
  <2> QED BY <1>4, <2>1, <2>2
<1>6. ASSUME NEW ok \in BOOLEAN, Return(r, ok)
      PROVE  DecommissionSound(r)'
  <2> DEFINE f == Resumed(rq[r], "dec_retire", ok)
  <2>1. /\ f.pc = "dec_retire" /\ f.op = rq[r].op /\ f.a = rq[r].a /\ f.seen = rq[r].seen
        /\ f.todo = rq[r].todo /\ f.ok = rq[r].ok
    BY <1>2, ResumedFacts
  <2>2. rq'[r] = f
    BY <1>2, <1>6 DEF Return, Returned, Become, AuthorityTypeOK
  <2> HIDE DEF f
  <2>3. Reaches(f)
    BY <1>2, <2>1 DEF Reaches, DecommissionLabels, InDecommission, InRevoke, Revoking, InKill
  <2> QED BY <1>4, <2>1, <2>2, <2>3
<1>7. ASSUME SendPatch(r, rq[r], rq[r].a, "killed", "kill_signal", rq[r].back)
      PROVE  DecommissionSound(r)'
  <2> DEFINE f == Patching(rq[r], "kill_signal", "dec_retire")
  <2>1. /\ f.pc = "wait" /\ f.op = rq[r].op /\ f.a = rq[r].a /\ f.seen = rq[r].seen
        /\ f.todo = rq[r].todo /\ f.ok = rq[r].ok /\ f.back = "dec_retire"
        /\ f.then = "kill_signal" /\ f.orelse = "dec_retire"
    BY <1>2 DEF Patching, Frame
  <2>2. rq'[r] = f
    BY <1>2, <1>7 DEF SendPatch, Become, AuthorityTypeOK
  <2> HIDE DEF f
  <2>3. Reaches(f)
    BY <1>2, <2>1 DEF Reaches, DecommissionLabels, InDecommission, InRevoke, Revoking, InKill
  <2> QED BY <1>4, <2>1, <2>2, <2>3
<1> QED BY <1>5, <1>6, <1>7 DEF KillRead, KillSignal, KillNote, Unreachable

\* In its own loop: what was listed is called for one by one.
LEMMA DecommissionInLoop ==
  ASSUME AuthorityTypeOK, NEW r \in Req, DecommissionSound(r),
         rq[r].op = "decommission", LifecycleStep(r), token' = token, reg' = reg
  PROVE  DecommissionSound(r)'
<1>1. rq[r].pc \in InDecommission /\ rq[r].pc \notin {"idle", "done"} \union InRevoke
  BY DEF LifecycleStep, DecommissionRead, DecommissionList, DecommissionRevoke,
         DecommissionRetire, DecommissionNote, InDecommission, InRevoke, Revoking
<1>2. rq[r] \in Frame /\ Reaches(rq[r])
  BY <1>1, MadeFrame DEF DecommissionSound
<1>3. /\ rq[r].seen \subseteq Token /\ rq[r].todo \subseteq Token /\ rq[r].a \in Agents
      /\ rq[r].ok \in BOOLEAN /\ rq[r].ret \in BOOLEAN
  BY <1>2 DEF Frame
<1>4. ASSUME Return(r, FALSE), rq[r].back = "done"
      PROVE  DecommissionSound(r)'
  <2>1. rq'[r] = Resumed(rq[r], "done", FALSE)
    BY <1>4 DEF Return, Returned, Become, AuthorityTypeOK
  <2> DEFINE f == Resumed(rq[r], "done", FALSE)
  <2>2. f.pc = "done" /\ ~ f.ret
    BY DEF Resumed, Idle
  <2>3. rq'[r] = f
    BY <2>1
  <2> HIDE DEF f
  <2>4. Reaches(f)
    BY <2>2 DEF Reaches, DecommissionLabels, InDecommission, InRevoke, Revoking, InKill
  <2> QED BY <2>2, <2>3, <2>4 DEF DecommissionSound
<1>5. CASE DecommissionRead(r)
  <2>1. rq[r].back = "done" /\ rq[r].seen = {} /\ rq[r].pc = "decommission"
    BY <1>2, <1>5 DEF DecommissionRead, Reaches
  <2>2. CASE StatusOf(r) = "retired" /\ Return(r, TRUE)
    <3> DEFINE f == Resumed(rq[r], "done", TRUE)
    <3>1. rq'[r] = f
      BY <2>1, <2>2 DEF Return, Returned, Become, AuthorityTypeOK
    <3>2. f.pc = "done" /\ f.seen = {} /\ f.a = rq[r].a
      BY <2>1 DEF Resumed, Idle
    <3> HIDE DEF f
    <3>3. Reaches(f)
      BY <3>2 DEF Reaches, DecommissionLabels, InDecommission, InRevoke, Revoking, InKill
    <3>4. reg'[f.a].status = "retired"
      BY <2>2, <3>2 DEF StatusOf
    <3> QED BY <3>1, <3>2, <3>3, <3>4 DEF DecommissionSound, Retired
  <2>3. CASE Become(r, [rq[r] EXCEPT !.pc = "dec_list", !.prev = StatusOf(r)])
    <3> DEFINE f == [rq[r] EXCEPT !.pc = "dec_list", !.prev = StatusOf(r)]
    <3>1. f.pc = "dec_list" /\ f.back = "done" /\ f.seen = {} /\ rq'[r] = f
      BY <1>2, <2>1, <2>3 DEF Frame, Become, AuthorityTypeOK
    <3> HIDE DEF f
    <3>2. Reaches(f)
      BY <3>1 DEF Reaches, DecommissionLabels, InDecommission, InRevoke, Revoking, InKill
    <3> QED BY <3>1, <3>2 DEF DecommissionSound
  <2> QED BY <1>4, <1>5, <2>1, <2>2, <2>3 DEF DecommissionRead, Unreachable
<1>6. CASE DecommissionList(r)
  <2>1. rq[r].back = "done" /\ rq[r].seen = {} /\ rq[r].pc = "dec_list"
    BY <1>2, <1>6 DEF DecommissionList, Reaches
  <2>2. CASE Become(r, Resumed(rq[r], "dec_revoke", FALSE))
    <3> DEFINE f == Resumed(rq[r], "dec_revoke", FALSE)
    <3>1. f.pc = "dec_revoke" /\ f.seen = {}
      BY <1>2, <2>1 DEF Resumed, Frame
    <3>2. rq'[r] = f
      BY <2>2 DEF Become, AuthorityTypeOK
    <3> HIDE DEF f
    <3>3. Reaches(f)
      BY <3>1 DEF Reaches, DecommissionLabels, InDecommission, InRevoke, Revoking, InKill
    <3> QED BY <3>1, <3>2, <3>3 DEF DecommissionSound
  <2> DEFINE mine == {t \in Token : token[t].agent = rq[r].a /\ token[t].st = "active"}
  <2>3. CASE Become(r, [rq[r] EXCEPT !.pc = "dec_revoke", !.todo = mine, !.seen = mine])
    <3> HIDE DEF mine
    <3> DEFINE f == [rq[r] EXCEPT !.pc = "dec_revoke", !.todo = mine, !.seen = mine]
    <3>1. f.pc = "dec_revoke" /\ f.seen = mine /\ f.todo = mine /\ rq'[r] = f
      BY <1>2, <2>3 DEF Frame, Become, AuthorityTypeOK
    <3> HIDE DEF f
    <3>2. Reaches(f) /\ \A t \in f.seen : Excused(f, t)
      BY <3>1 DEF Reaches, DecommissionLabels, InDecommission, InRevoke, Revoking, InKill, Excused
    <3> QED BY <3>1, <3>2 DEF DecommissionSound
  <2> QED BY <1>4, <1>6, <2>1, <2>2, <2>3 DEF DecommissionList
<1>7. CASE DecommissionRevoke(r)
  <2> DEFINE q == [rq[r] EXCEPT !.ok = rq[r].ok /\ rq[r].ret]
  <2>1. /\ q \in Frame /\ q.op = rq[r].op /\ q.a = rq[r].a /\ q.seen = rq[r].seen
        /\ q.todo = rq[r].todo /\ q.ok = (rq[r].ok /\ rq[r].ret)
    BY <1>2, <1>3 DEF Frame
  <2>2. rq[r].pc = "dec_revoke"
    BY <1>7 DEF DecommissionRevoke
  <2>3. \/ q.todo = {} /\ Become(r, [q EXCEPT !.pc = "kill", !.back = "dec_retire"])
        \/ q.todo = {} /\ Become(r, [q EXCEPT !.pc = "dec_retire", !.ret = TRUE])
        \/ \E t \in q.todo : Become(r, [q EXCEPT !.pc = "revoke", !.back = "dec_revoke",
                                                 !.t = t, !.todo = @ \ {t}])
    BY <1>7 DEF DecommissionRevoke
  <2> HIDE DEF q
  <2>4. \A t \in q.seen : token[t].st = "revoked" \/ t \in q.todo \/ ~ q.ok
    BY <1>1, <2>1, <2>2 DEF DecommissionSound, Excused, Revoked
  <2>5. ASSUME NEW f, rq'[r] = f, f.seen = q.seen, f.ok = q.ok, Reaches(f),
               f.pc \notin {"dec_note", "done"},
               \A t \in q.todo : t \in f.todo \/ (f.pc \in InRevoke /\ f.t = t)
        PROVE  DecommissionSound(r)'
    BY <2>4, <2>5 DEF Excused, DecommissionSound, Revoked
  <2>6. CASE q.todo = {} /\ Become(r, [q EXCEPT !.pc = "kill", !.back = "dec_retire"])
    <3> DEFINE f == [q EXCEPT !.pc = "kill", !.back = "dec_retire"]
    <3>1. /\ f.pc = "kill" /\ f.back = "dec_retire" /\ f.todo = {} /\ f.seen = q.seen
          /\ f.ok = q.ok /\ rq'[r] = f
      BY <2>1, <2>6 DEF Frame, Become, AuthorityTypeOK
    <3> HIDE DEF f
    <3>2. Reaches(f)
      BY <3>1 DEF Reaches, DecommissionLabels, InDecommission, InRevoke, Revoking, InKill
    <3> QED BY <2>5, <2>6, <3>1, <3>2
  <2>7. CASE q.todo = {} /\ Become(r, [q EXCEPT !.pc = "dec_retire", !.ret = TRUE])
    <3> DEFINE f == [q EXCEPT !.pc = "dec_retire", !.ret = TRUE]
    <3>1. f.pc = "dec_retire" /\ f.todo = {} /\ f.seen = q.seen /\ f.ok = q.ok /\ rq'[r] = f
      BY <2>1, <2>7 DEF Frame, Become, AuthorityTypeOK
    <3> HIDE DEF f
    <3>2. Reaches(f)
      BY <3>1 DEF Reaches, DecommissionLabels, InDecommission, InRevoke, Revoking, InKill
    <3> QED BY <2>5, <2>7, <3>1, <3>2
  <2>8. ASSUME NEW t \in q.todo,
               Become(r, [q EXCEPT !.pc = "revoke", !.back = "dec_revoke",
                                   !.t = t, !.todo = @ \ {t}])
        PROVE  DecommissionSound(r)'
    <3> DEFINE f == [q EXCEPT !.pc = "revoke", !.back = "dec_revoke", !.t = t, !.todo = @ \ {t}]
    <3>1. /\ f.pc = "revoke" /\ f.back = "dec_revoke" /\ f.t = t /\ f.todo = q.todo \ {t}
          /\ f.seen = q.seen /\ f.ok = q.ok /\ rq'[r] = f
      BY <2>1, <2>8 DEF Frame, Become, AuthorityTypeOK
    <3> HIDE DEF f
    <3>2. Reaches(f) /\ f.pc \in InRevoke /\ f.pc \notin {"dec_note", "done"}
      BY <3>1 DEF Reaches, DecommissionLabels, InDecommission, InRevoke, Revoking, InKill
    <3> QED BY <2>5, <3>1, <3>2
  <2> QED BY <2>3, <2>6, <2>7, <2>8
<1>8. CASE DecommissionRetire(r)
  <2> DEFINE q == [rq[r] EXCEPT !.ok = rq[r].ok /\ rq[r].ret]
  <2> DEFINE f == Patching(q, "dec_note", "dec_note")
  <2>1. /\ q \in Frame /\ q.op = rq[r].op /\ q.a = rq[r].a /\ q.seen = rq[r].seen
        /\ q.todo = rq[r].todo /\ q.ok = (rq[r].ok /\ rq[r].ret)
    BY <1>2, <1>3 DEF Frame
  <2>2. rq'[r] = f /\ rq[r].pc = "dec_retire"
    BY <1>8 DEF DecommissionRetire, SendPatch, Become, AuthorityTypeOK
  <2> HIDE DEF q
  <2>3. /\ f.pc = "wait" /\ f.then = "dec_note" /\ f.orelse = "dec_note" /\ f.op = q.op
        /\ f.a = q.a /\ f.seen = q.seen /\ f.todo = q.todo /\ f.ok = q.ok
    BY <2>1 DEF Patching, Frame
  <2> HIDE DEF f
  <2>4. rq[r].todo = {}
    BY <1>2, <2>2 DEF Reaches
  <2>5. Reaches(f)
    BY <2>1, <2>3, <2>4
       DEF Reaches, DecommissionLabels, InDecommission, InRevoke, Revoking, InKill
  <2> QED BY <1>1, <1>3, <2>1, <2>2, <2>3, <2>5, DecommissionGoes
<1>9. CASE DecommissionNote(r)
  <2>1. PICK ok \in BOOLEAN : /\ Become(r, Resumed(rq[r], "done", ok))
                              /\ ok => rq[r].ok /\ rq[r].ret
    BY <1>3, <1>9 DEF DecommissionNote
  <2>2. rq[r].pc = "dec_note" /\ rq[r].todo = {}
    BY <1>2, <1>9 DEF DecommissionNote, Reaches
  <2> DEFINE f == Resumed(rq[r], "done", ok)
  <2>3. rq'[r] = f
    BY <2>1 DEF Become, AuthorityTypeOK
  <2>4. f.pc = "done" /\ f.ret = ok /\ f.a = rq[r].a /\ f.seen = rq[r].seen
    BY <1>2, ResumedFacts
  <2> HIDE DEF f
  <2>5. ok => /\ Retired(rq[r].a)
              /\ \A t \in rq[r].seen : token[t].st = "revoked"
    BY <1>1, <2>1, <2>2 DEF DecommissionSound, Excused, Revoked
  <2>6. Reaches(f)
    BY <2>4 DEF Reaches, DecommissionLabels, InDecommission, InRevoke, Revoking, InKill
  <2>7. ok => reg'[f.a].status = "retired"
    BY <2>4, <2>5 DEF Retired
  <2> QED BY <2>3, <2>4, <2>5, <2>6, <2>7 DEF DecommissionSound, Revoked, Retired
<1> QED BY <1>5, <1>6, <1>7, <1>8, <1>9 DEF LifecycleStep

\* An answer from the registry: the one it waits for is its retirement or its kill's.
LEMMA DecommissionAnswered ==
  ASSUME AuthorityTypeOK, PatchInv, NEW r \in Req, DecommissionSound(r),
         rq[r].op = "decommission", PatchReturn(r) \/ PatchTimeout(r), token' = token, reg' = reg
  PROVE  DecommissionSound(r)'
<1>1. rq[r].pc = "wait" /\ rq[r].pc \notin {"idle", "done", "dec_revoke"} \union InRevoke
  BY DEF PatchReturn, PatchTimeout, InRevoke, Revoking
<1>2. rq[r] \in Frame /\ Reaches(rq[r])
  BY <1>1, MadeFrame DEF DecommissionSound
<1>3. rq[r].seen \subseteq Token /\ rq[r].a \in Agents /\ rq[r].todo = {}
  BY <1>1, <1>2 DEF Frame, Reaches
<1>4. PICK ok \in BOOLEAN :
        /\ Become(r, Resumed(rq[r], IF ok THEN rq[r].then ELSE rq[r].orelse, ok))
        /\ ok => \E p \in patch : p.by = r /\ p.wait /\ p.st = "ok"
  BY DEF PatchReturn, PatchTimeout
<1> DEFINE l == IF ok THEN rq[r].then ELSE rq[r].orelse
<1> DEFINE f == Resumed(rq[r], l, ok)
<1>5. rq'[r] = f
  BY <1>4 DEF Become, AuthorityTypeOK
<1>6. \/ l = "dec_note"
      \/ l \in {"kill_signal", "dec_retire"} /\ rq[r].back = "dec_retire"
  BY <1>1, <1>2 DEF Reaches
<1> HIDE DEF l
<1>7. /\ f.pc = l /\ f.ret = ok /\ f.op = rq[r].op /\ f.a = rq[r].a /\ f.seen = rq[r].seen
      /\ f.todo = rq[r].todo /\ f.ok = rq[r].ok /\ f.back = rq[r].back
  <2>1. l # "done"
    BY <1>6
  <2> QED BY <1>2, <2>1, ResumedFacts
<1> HIDE DEF f
<1>8. Reaches(f)
  BY <1>3, <1>6, <1>7 DEF Reaches, DecommissionLabels, InDecommission, InRevoke, Revoking, InKill
<1>9. CASE l # "dec_note"
  <2>1. f.pc \notin {"dec_note", "done"}
    BY <1>6, <1>7, <1>9
  <2> QED BY <1>1, <1>3, <1>5, <1>7, <1>8, <2>1, DecommissionGoes
<1>10. CASE l = "dec_note"
  <2>1. ok => reg'[f.a].status = "retired"
    BY <1>10, <1>4, <1>7 DEF l, PatchInv, PatchSound, Retired
  <2>2. \A t \in f.seen : token'[t].st = "revoked" \/ Excused(f, t)
    BY <1>1, <1>7 DEF DecommissionSound, Excused, Revoked
  <2> QED BY <1>5, <1>7, <1>8, <1>10, <2>1, <2>2 DEF DecommissionSound, Revoked, Retired
<1> QED BY <1>9, <1>10

\* Whatever step a decommission takes.
LEMMA DecommissionStep ==
  ASSUME AuthorityTypeOK, LedgerFirst, PatchInv, NEW r \in Req, DecommissionSound(r), Step(r),
         \A t \in Token : token[t].st = "revoked" => token'[t].st = "revoked",
         rq'[r].op = rq[r].op
  PROVE  DecommissionSound(r)'
<1> SUFFICES ASSUME rq[r].op = "decommission"
             PROVE  DecommissionSound(r)'
  BY DEF DecommissionSound
<1>1. rq[r].pc \in DecommissionLabels
  BY DEF DecommissionSound, Reaches
<1>2. CASE rq[r].pc \in InRevoke
  BY <1>2, RevokeOutcome, DecommissionInRevoke DEF Return, Become, AuthorityTypeOK
<1>3. CASE rq[r].pc \notin InRevoke
  <2>1. CASE OperatorStep(r)
    <3>1. ~ Edit(r) /\ ~ Attest(r) /\ ~ AttestNote(r)
      BY <1>1 DEF Edit, Attest, AttestNote, DecommissionLabels, InDecommission, InRevoke, Revoking,
                  InKill
    <3>2. PatchReturn(r) \/ PatchTimeout(r)
      BY <2>1, <3>1 DEF OperatorStep
    <3>3. token' = token /\ reg' = reg
      BY <2>1, <3>2 DEF Step, dvars, PatchReturn, PatchTimeout, DelegationStep, MintRead,
           MintLedger, MintSave, RevokeRead, RevokeLock, RevokeLedger, RevokeSave,
           LifecycleStep, DecommissionRead, DecommissionList, DecommissionRevoke,
           DecommissionRetire, DecommissionNote, SentinelStep, CheckAgent, CheckToken, CheckAllow
    <3> QED BY <3>2, <3>3, DecommissionAnswered
  <2>2. CASE KillSwitchStep(r) /\ UNCHANGED dvars
    <3>1. /\ ~ DomainList(r) /\ ~ DomainNext(r) /\ ~ ReviveRead(r) /\ ~ ReviveNote(r)
          /\ ~ DrillRead(r) /\ ~ DrillConfirm(r) /\ ~ DrillBeat(r) /\ ~ DrillRestore(r)
          /\ ~ DrillVerify(r) /\ ~ DrillFailed(r) /\ ~ DrillReport(r)
      BY <1>1 DEF DomainList, DomainNext, ReviveRead, ReviveNote, DrillRead, DrillConfirm,
                  DrillBeat, DrillRestore, DrillVerify, DrillFailed, DrillReport,
                  DecommissionLabels, InDecommission, InRevoke, Revoking, InKill
    <3> QED BY <2>2, <3>1, DecommissionInKill DEF KillSwitchStep, dvars
  <2>3. CASE LifecycleStep(r)
    BY <2>3, RegKept, DecommissionInLoop DEF LifecycleStep, DecommissionRead, DecommissionList,
      DecommissionRevoke, DecommissionRetire, DecommissionNote, dvars
  <2>4. ~ DelegationStep(r)
    BY <1>1, <1>3 DEF DelegationStep, MintRead, MintLedger, MintSave, RevokeRead, RevokeLock,
                RevokeLedger, RevokeSave, DecommissionLabels, InDecommission, InRevoke, Revoking,
                InKill
  <2>5. ~ SentinelStep(r)
    BY <1>1 DEF SentinelStep, CheckAgent, CheckToken, CheckAllow, DecommissionLabels,
                InDecommission, InRevoke, Revoking, InKill
  <2> QED BY <2>1, <2>2, <2>3, <2>4, <2>5 DEF Step
<1> QED BY <1>2, <1>3

-----------------------------------------------------------------------------
(* Revokes and checks (RevokeSound, CheckSound).                            *)

\* A request for a revoke is in the handler until it is answered.
LEMMA RevokeStep ==
  ASSUME AuthorityTypeOK, LedgerFirst, NEW r \in Req, RevokeSound(r), rq'[r].op = rq[r].op,
         \/ Step(r)
         \/ rq[r].pc \in InRevoke /\ rq'[r] = Returned(rq[r], FALSE)
  PROVE  RevokeSound(r)'
<1> SUFFICES ASSUME rq[r].op = "revoke"
             PROVE  RevokeSound(r)'
  BY DEF RevokeSound
<1>1. /\ rq[r].pc \in InRevoke /\ rq[r].pc # "idle" /\ rq[r].back = "done"
      /\ rq[r].t \in Token
  BY StepsOfOpen DEF InRevoke, Revoking, RevokeSound
<1>2. rq[r] \in Frame
  BY <1>1, MadeFrame
<1>3. \/ \E l \in InRevoke : Goto(r, l)
      \/ rq'[r] = Resumed(rq[r], "done", FALSE)
      \/ rq'[r] = Resumed(rq[r], "done", TRUE) /\ token'[rq[r].t].st = "revoked"
  BY <1>1, RevokeOutcome DEF Return, Returned, Become, AuthorityTypeOK
<1>4. ASSUME NEW l \in InRevoke, Goto(r, l)
      PROVE  RevokeSound(r)'
  BY <1>4, <1>1, <1>2 DEF Goto, Become, AuthorityTypeOK, InRevoke, Revoking, Frame, RevokeSound
<1>5. ASSUME NEW ok \in BOOLEAN, rq'[r] = Resumed(rq[r], "done", ok),
             ok => token'[rq[r].t].st = "revoked"
      PROVE  RevokeSound(r)'
  <2> DEFINE f == Resumed(rq[r], "done", ok)
  <2>1. f.pc = "done" /\ f.back = "done" /\ f.ret = ok /\ f.t = rq[r].t
    BY DEF Resumed, Idle
  <2> HIDE DEF f
  <2>2. rq'[r] = f
    BY <1>5 DEF f
  <2> QED BY <1>5, <2>1, <2>2 DEF RevokeSound, Revoked
<1> QED BY <1>3, <1>4, <1>5

\* What holds of a revoke survives the steps of the others: a revoked token stays revoked.
LEMMA RevokeOther ==
  ASSUME NEW s \in Req, RevokeSound(s), rq'[s] = rq[s],
         \A t \in Token : token[t].st = "revoked" => token'[t].st = "revoked"
  PROVE  RevokeSound(s)'
BY DEF RevokeSound, Revoked

\* An answer stands: nothing touches an answered request.
LEMMA AnswersStand ==
  ASSUME \A d \in Req : rq[d].pc = "done" => rq'[d] = rq[d]
  PROVE  Succeeded \subseteq Succeeded'
BY DEF Succeeded

\* What holds of a check survives the steps of the others: an answer given stands.
LEMMA CheckOther ==
  ASSUME NEW s \in Req, CheckSound(s), rq'[s] = rq[s],
         \A d \in Req : rq[d].pc = "done" => rq'[d] = rq[d]
  PROVE  CheckSound(s)'
BY AnswersStand DEF CheckSound, Succeeded, PastAgent, PastToken

\* The registry has the agent active, so no answered decommission retired it; the
\* token is live, so no answered revoke revoked it.
LEMMA CheckStep ==
  ASSUME AuthorityTypeOK, LedgerFirst, NEW r \in Req, CheckSound(r), Step(r),
         \A d \in Req : DecommissionSound(d) /\ RevokeSound(d),
         \A s \in Req \ {r} : rq'[s] = rq[s], rq'[r].op = rq[r].op
  PROVE  CheckSound(r)'
<1> SUFFICES ASSUME rq[r].op = "check"
             PROVE  CheckSound(r)'
  BY DEF CheckSound
<1>1. rq[r].pc \in Checking \ {"done"} /\ rq[r].back = "done"
  BY StepsOfOpen DEF LedgerFirst, Ordered
<1>2. rq[r] \in Frame /\ rq[r].pc # "idle"
  BY <1>1, MadeFrame DEF Checking
<1>3. SentinelStep(r)
  <2>1. ~ OperatorStep(r)
    BY <1>1 DEF Checking, OperatorStep, PatchReturn, PatchTimeout, Edit, Attest, AttestNote
  <2>2. ~ KillSwitchStep(r)
    BY <1>1 DEF Checking, KillSwitchStep, KillRead, KillSignal, KillNote, DomainList,
           DomainNext, ReviveRead, ReviveNote, DrillRead, DrillConfirm, DrillBeat, DrillRestore,
           DrillVerify, DrillFailed, DrillReport
  <2>3. ~ LifecycleStep(r)
    BY <1>1 DEF Checking, LifecycleStep, DecommissionRead, DecommissionList,
           DecommissionRevoke, DecommissionRetire, DecommissionNote
  <2>4. ~ DelegationStep(r)
    BY <1>1 DEF Checking, DelegationStep, MintRead, MintLedger, MintSave, RevokeRead, RevokeLock,
           RevokeLedger, RevokeSave
  <2> QED BY <2>1, <2>2, <2>3, <2>4 DEF Step
<1>4. rq[r].seen \subseteq Succeeded /\ r \notin Succeeded
  BY <1>1 DEF CheckSound, Succeeded
<1>5. \A d \in rq[r].seen : d \in Req /\ rq'[d] = rq[d]
  BY <1>4 DEF Succeeded
<1>6. rq[r].seen \subseteq Succeeded'
  BY <1>4, <1>5 DEF Succeeded
<1>7. \A d \in rq[r].seen : rq[d].op = "decommission" => Retired(rq[d].a)
  BY <1>4 DEF Succeeded, DecommissionSound
<1>8. \A d \in rq[r].seen : rq[d].op = "revoke" => Revoked(rq[d].t)
  BY <1>4 DEF Succeeded, RevokeSound
<1>9. ASSUME NEW f, rq'[r] = f, f.seen = rq[r].seen, f.a = rq[r].a, f.t = rq[r].t,
             PastAgent(f) => PastAgent(rq[r]) \/ ~ Retired(rq[r].a),
             PastToken(f) => PastToken(rq[r]) \/ ~ Revoked(rq[r].t)
      PROVE  CheckSound(r)'
  BY <1>5, <1>6, <1>7, <1>8, <1>9 DEF CheckSound
<1>10. ASSUME Return(r, FALSE)
       PROVE  CheckSound(r)'
  <2> DEFINE f == Resumed(rq[r], "done", FALSE)
  <2>1. f.pc = "done" /\ ~ f.ret /\ f.seen = rq[r].seen /\ f.a = rq[r].a /\ f.t = rq[r].t
    BY DEF Resumed, Idle
  <2>2. rq'[r] = f
    BY <1>1, <1>10 DEF Return, Returned, Become, AuthorityTypeOK
  <2> HIDE DEF f
  <2>3. ~ PastAgent(f) /\ ~ PastToken(f)
    BY <2>1 DEF PastAgent, PastToken
  <2> QED BY <1>9, <2>1, <2>2, <2>3
<1>11. ASSUME NEW l \in {"check_token", "check_allow"}, Goto(r, l),
              l = "check_token" => ~ Retired(rq[r].a),
              l = "check_allow" => PastAgent(rq[r]) /\ ~ Revoked(rq[r].t)
       PROVE  CheckSound(r)'
  <2> DEFINE f == [rq[r] EXCEPT !.pc = l]
  <2>1. /\ f.pc = l /\ f.seen = rq[r].seen /\ f.a = rq[r].a /\ f.t = rq[r].t
        /\ rq'[r] = f
    BY <1>2, <1>11 DEF Frame, Goto, Become, AuthorityTypeOK
  <2> HIDE DEF f
  <2>2. PastAgent(f) => PastAgent(rq[r]) \/ ~ Retired(rq[r].a)
    BY <1>11
  <2>3. PastToken(f) => PastToken(rq[r]) \/ ~ Revoked(rq[r].t)
    BY <1>11, <2>1 DEF PastToken
  <2> QED BY <1>9, <2>1, <2>2, <2>3
<1>12. CASE CheckAgent(r)
  BY <1>10, <1>11, <1>12 DEF Retired, CheckAgent, Refuse
<1>13. CASE CheckToken(r)
  BY <1>13, <1>10, <1>11 DEF TokenLive, Revoked, CheckToken, PastAgent, Refuse
<1>14. CASE CheckAllow(r)
  <2>1. CASE Return(r, TRUE)
    <3> DEFINE f == Resumed(rq[r], "done", TRUE)
    <3>1. f.seen = rq[r].seen /\ f.a = rq[r].a /\ f.t = rq[r].t
      BY DEF Resumed, Idle
    <3>2. rq'[r] = f
      BY <1>1, <2>1 DEF Return, Returned, Become, AuthorityTypeOK
    <3> HIDE DEF f
    <3>3. PastAgent(rq[r]) /\ PastToken(rq[r])
      BY <1>14 DEF CheckAllow, PastAgent, PastToken
    <3> QED BY <1>9, <3>1, <3>2, <3>3
  <2> QED BY <1>10, <1>14, <2>1 DEF CheckAllow
<1> QED BY <1>3, <1>12, <1>13, <1>14 DEF SentinelStep

-----------------------------------------------------------------------------
(* StopInv is inductive.                                                    *)

\* The steps that touch one request or none leave the others' frames sound.
LEMMA OtherSound ==
  ASSUME AuthorityTypeOK, NEW s \in Req, Sound(s), rq'[s] = rq[s],
         \A d \in Req : rq[d].pc = "done" => rq'[d] = rq[d],
         \A t \in Token : token[t].st = "revoked" => token'[t].st = "revoked",
         \A a \in Agents : Retired(a) => Retired(a)',
         token[s].st = "none" => token'[s].st = "none"
  PROVE  Sound(s)'
BY DecommissionOther, RevokeOther, CheckOther DEF Sound, MintedOnce

\* Nothing is under way at first.
LEMMA StopInit == Init => StopInv
<1> SUFFICES ASSUME Init PROVE StopInv
  OBVIOUS
<1>1. patch = {} /\ rq = [r \in Req |-> Idle]
  BY DEF Init, InitRegistry
<1>2. PatchInv
  BY <1>1 DEF PatchInv, PatchIds
<1>3. ASSUME NEW r \in Req
      PROVE  Sound(r)
  <2>1. rq[r] = Idle /\ r \in Token /\ r \notin Agents
    BY <1>1, EstateAssumption DEF Token
  <2>2. OwnLabels(Idle)
    BY DEF OwnLabels, Mine, InDecommission, InRevoke, Revoking, Idle
  <2>3. token[r].st = "none"
    BY <2>1 DEF Init, InitDelegation, NoToken
  <2>4. Idle.op = "none"
    BY DEF Idle
  <2> QED BY <2>1, <2>2, <2>3, <2>4
          DEF Sound, MintedOnce, DecommissionSound, RevokeSound, CheckSound
<1> QED BY <1>2, <1>3 DEF StopInv

\* A request that is made has seen the answers given so far, if it is a check.
LEMMA StartSound ==
  ASSUME AuthorityTypeOK, StopInv, NEW r \in Req, Start(r)
  PROVE  StopInv'
<1>1. PICK op \in Asks[r], a \in Agents :
        \E t \in IF op \in {"revoke", "check"} THEN Token ELSE {"none"},
           w \in IF op \in {"mint", "revoke", "decommission"} THEN Workers ELSE {"none"} :
          Become(r, [Idle EXCEPT !.op = op, !.pc = op, !.a = a, !.t = t, !.w = w,
                                 !.seen = IF op = "check" THEN Succeeded ELSE {}])
  BY DEF Start
<1>2. PICK t \in IF op \in {"revoke", "check"} THEN Token ELSE {"none"},
           w \in IF op \in {"mint", "revoke", "decommission"} THEN Workers ELSE {"none"} :
          Become(r, [Idle EXCEPT !.op = op, !.pc = op, !.a = a, !.t = t, !.w = w,
                                 !.seen = IF op = "check" THEN Succeeded ELSE {}])
  BY <1>1
<1> DEFINE f == [Idle EXCEPT !.op = op, !.pc = op, !.a = a, !.t = t, !.w = w,
                             !.seen = IF op = "check" THEN Succeeded ELSE {}]
<1>3. op \in Operations
  BY AsksAssumption
<1>4. rq'[r] = f /\ \A s \in Req \ {r} : rq'[s] = rq[s]
  BY <1>2 DEF Become, AuthorityTypeOK
<1>5. /\ f.op = op /\ f.pc = op /\ f.t = t /\ f.back = "done" /\ f.then = "done"
      /\ f.orelse = "done" /\ f.n = 0 /\ f.todo = {}
      /\ f.seen = IF op = "check" THEN Succeeded ELSE {}
  BY DEF Idle
<1>6. /\ op = "revoke" => t \in Token
      /\ rq[r].pc = "idle" /\ reg' = reg /\ token' = token /\ patch' = patch
  BY DEF Start, dvars
<1> HIDE DEF f
<1>7. \A d \in Req : rq[d].pc = "done" => rq'[d] = rq[d]
  BY <1>4, <1>6
<1>8. op \notin {"idle", "wait", "done"} /\ (op \in InRevoke => op = "revoke")
      /\ (op \in InDecommission => op = "decommission")
  BY <1>3 DEF Operations, InRevoke, Revoking, InDecommission
<1>9. Sound(r)'
  <2>1. OwnLabels(f)
    BY <1>5, <1>8 DEF OwnLabels, Mine, InDecommission
  <2>2. MintedOnce(r)'
    BY <1>4, <1>5, <1>6 DEF StopInv, Sound, MintedOnce, Minting
  <2>3. DecommissionSound(r)'
    BY <1>5, <1>4 DEF Reaches, DecommissionLabels, InDecommission, InRevoke, Revoking, InKill,
      DecommissionSound
  <2>4. RevokeSound(r)'
    BY <1>4, <1>5, <1>6, <1>8 DEF RevokeSound, InRevoke
  <2>5. CheckSound(r)'
    BY <1>5, <1>7, AnswersStand, <1>4 DEF PastAgent, PastToken, CheckSound
  <2> QED BY <1>4, <2>1, <2>2, <2>3, <2>4, <2>5 DEF Sound
<1>10. \A s \in Req \ {r} : Sound(s)'
  BY <1>6, <1>4, <1>7, OtherSound DEF Retired, StopInv
<1>11. PatchInv'
  <2>1. rq[r].n = 0
    BY <1>6 DEF Frame, Label, InDelegation, AuthorityTypeOK, Idle
  <2>2. \A s \in Req : Calm(s)
    BY <1>4, <1>5, <1>6, <2>1 DEF Calm
  <2>3. \A b \in Agents : Retired(b) => Retired(b)'
    BY <1>6 DEF Retired
  <2> QED BY <1>6, <2>2, <2>3, PatchCalm DEF StopInv
<1> QED BY <1>9, <1>10, <1>11 DEF StopInv

\* A step of a request, whatever it is.
LEMMA StepSound ==
  ASSUME AuthorityTypeOK, LedgerFirst, StopInv, NEW r \in Req, Step(r), [Next]_avars
  PROVE  StopInv'
<1>1. Sound(r) /\ OwnLabels(rq[r]) /\ PatchInv /\ \A s \in Req : Sound(s)
  BY DEF StopInv, Sound
<1>2. Kept(r)
  BY <1>1, StepMoves
<1>3. \A s \in Req \ {r} : rq'[s] = rq[s]
  BY OthersKept
<1>4. \A a \in Agents : Retired(a) => Retired(a)'
  BY RetiredKept
<1>5. rq[r].pc \notin {"idle", "done"}
  BY StepsOfOpen
<1>6. /\ \A t \in Token : token[t].st = "revoked" => token'[t].st = "revoked"
      /\ \A s \in Req \ {r} : token[s].st = "none" => token'[s].st = "none"
  BY <1>1, TokenMoves DEF Sound
<1>7. rq'[r].op = rq[r].op /\ OwnLabels(rq'[r]) /\ (Moved(r) \/ Sent(r))
  BY <1>2 DEF Kept, Still, Sent, Answered, Moved
<1>8. PatchInv'
  <2>1. CASE Still(r)
    BY <1>3, <1>5, <2>1, <1>1, <1>4, PatchCalm DEF Calm, Still, Moved
  <2>2. CASE Sent(r)
    BY <1>1, <1>3, <1>4, <1>5, <2>2, PatchSent
  <2>3. CASE Answered(r)
    BY <1>1, <1>3, <1>4, <2>3, PatchAnswered
  <2> QED BY <1>2, <2>1, <2>2, <2>3 DEF Kept
<1>9. Sound(r)'
  <2>1. MintedOnce(r)'
    BY <1>1, <1>7, MintedStep DEF Sound
  <2>2. DecommissionSound(r)'
    BY <1>1, <1>6, <1>7, DecommissionStep DEF Sound
  <2>3. RevokeSound(r)'
    BY <1>1, <1>7, RevokeStep DEF Sound
  <2>4. CheckSound(r)'
    BY <1>1, <1>3, <1>7, CheckStep DEF Sound
  <2> QED BY <1>7, <2>1, <2>2, <2>3, <2>4 DEF Sound
<1>10. \A d \in Req : rq[d].pc = "done" => rq'[d] = rq[d]
  BY <1>3, <1>5
<1>11. ASSUME NEW s \in Req \ {r}
       PROVE  Sound(s)'
  BY <1>1, <1>3, <1>4, <1>6, <1>10, OtherSound
<1> QED BY <1>8, <1>9, <1>11 DEF StopInv

\* A killed process: its callers get an error, its store stays.
LEMMA CrashSound ==
  ASSUME AuthorityTypeOK, LedgerFirst, StopInv, NEW w \in Workers, DelegationCrash(w)
  PROVE  StopInv'
<1>1. reg' = reg /\ token' = token /\ patch' = patch
  BY DEF DelegationCrash
<1>2. \A s \in Req : rq'[s] = IF Serves(w, s) THEN Returned(rq[s], FALSE) ELSE rq[s]
  BY DEF DelegationCrash
<1>3. /\ \A a \in Agents : Retired(a) => Retired(a)'
      /\ \A t \in Token : token[t].st = "revoked" => token'[t].st = "revoked"
  BY <1>1 DEF Retired
<1>4. \A s \in Req : Serves(w, s) => rq[s].pc \notin {"idle", "done", "wait"}
  BY DEF Serves, InDelegation
<1>5. \A d \in Req : rq[d].pc = "done" => rq'[d] = rq[d]
  BY <1>2, <1>4
<1>6. ASSUME NEW s \in Req, Serves(w, s)
      PROVE  /\ rq'[s] = Returned(rq[s], FALSE) /\ rq'[s].op = rq[s].op
             /\ rq'[s].pc = "done" \/ rq'[s].n = rq[s].n
             /\ rq'[s].pc \notin Minting /\ OwnLabels(rq'[s])
  <2>1. rq[s] \in Frame /\ rq[s].back \in Resumes /\ OwnLabels(rq[s])
    BY <1>4, <1>6, MadeFrame DEF LedgerFirst, Ordered, StopInv, Sound
  <2> DEFINE f == Resumed(rq[s], rq[s].back, FALSE)
  <2>2. /\ f.op = rq[s].op /\ f.pc = rq[s].back
        /\ rq[s].back = "done" => f.back = "done" /\ f.then = "done" /\ f.orelse = "done"
        /\ rq[s].back # "done" => f.n = rq[s].n /\ f.back = rq[s].back /\ f.then = rq[s].then
                                  /\ f.orelse = rq[s].orelse
    BY <2>1 DEF Resumed, Idle, Frame
  <2>3. rq'[s] = f
    BY <1>2, <1>6 DEF Returned
  <2>4. rq'[s] = Returned(rq[s], FALSE)
    BY <1>2, <1>6
  <2> HIDE DEF f
  <2>5. rq[s].back \notin Minting \union InRevoke
    BY <2>1 DEF Resumes, Minting, InRevoke, Revoking
  <2>6. OwnLabels(f)
    BY <2>1, <2>2, <2>5 DEF OwnLabels, Mine, InDecommission
  <2> QED BY <2>2, <2>3, <2>4, <2>5, <2>6
<1>7. PatchInv'
  <2>1. \A s \in Req : Calm(s)
    BY <1>2, <1>4, <1>6 DEF Calm
  <2> QED BY <1>1, <1>3, <2>1, PatchCalm DEF StopInv
<1>8. ASSUME NEW s \in Req
      PROVE  Sound(s)'
  <2>1. Sound(s)
    BY DEF StopInv
  <2>2. CASE ~ Serves(w, s)
    <3>1. rq'[s] = rq[s]
      BY <1>2, <2>2
    <3> QED BY <1>1, <1>3, <1>5, <2>1, <3>1, OtherSound
  <2>3. CASE Serves(w, s)
    <3>1. MintedOnce(s)' /\ OwnLabels(rq[s])'
      BY <1>6, <2>3 DEF MintedOnce
    <3>2. DecommissionSound(s)'
      <4>1. CASE rq[s].op # "decommission"
        BY <1>6, <2>3, <4>1 DEF DecommissionSound
      <4>2. CASE rq[s].op = "decommission"
        BY <2>1, <2>3, <4>2, <1>3, <1>6, DecommissionInRevoke DEF Sound, DecommissionSound, Reaches,
          DecommissionLabels, InDecommission, InKill, InRevoke, Revoking, Serves, InDelegation
      <4> QED BY <4>1, <4>2
    <3>3. RevokeSound(s)'
      <4>1. CASE rq[s].op # "revoke"
        BY <1>6, <2>3, <4>1 DEF RevokeSound
      <4>2. CASE rq[s].op = "revoke"
        BY <1>4, <2>1, <2>3, <4>2, <1>6, RevokeStep DEF Sound, RevokeSound
      <4> QED BY <4>1, <4>2
    <3>4. CheckSound(s)'
      BY <2>3, <1>6 DEF LedgerFirst, Ordered, Serves, InDelegation, Checking, CheckSound
    <3> QED BY <3>1, <3>2, <3>3, <3>4 DEF Sound
  <2> QED BY <2>2, <2>3
<1> QED BY <1>7, <1>8 DEF StopInv

\* Each step keeps the agreement of PATCHes, answers and decommissions.
LEMMA StopStep == AuthorityTypeOK /\ LedgerFirst /\ StopInv /\ [Next]_avars => StopInv'
<1> SUFFICES ASSUME AuthorityTypeOK, LedgerFirst, StopInv, [Next]_avars
             PROVE  StopInv'
  OBVIOUS
<1>1. \A a \in Agents : Retired(a) => Retired(a)'
  BY RetiredKept
<1>2. ASSUME rq' = rq, token' = token, PatchInv'
      PROVE  StopInv'
  BY <1>1, <1>2, OtherSound DEF StopInv
<1>3. CASE UNCHANGED avars
  BY <1>3, <1>1, <1>2, PatchCalm DEF avars, rvars, dvars, Calm, StopInv
<1>4. ASSUME NEW r \in Req, Start(r) \/ Step(r)
      PROVE  StopInv'
  BY <1>4, StartSound, StepSound
<1>5. CASE ServePatch
  BY <1>5, <1>1, <1>2, PatchServed DEF ServePatch, RegistryStep, PatchGuard, PatchWrite, PatchNote, dvars,
    StopInv
<1>6. ASSUME NEW w \in Workers, DelegationCrash(w)
      PROVE  StopInv'
  BY <1>6, CrashSound
<1> QED BY <1>3, <1>4, <1>5, <1>6 DEF Next

\* Calls under way, their answers and the steps of a decommission and of a kill agree
\* with the registry in every behaviour (StopInv: the handlers of four services on one agent).
THEOREM StopsAlwaysSound == Spec => []StopInv
<1> QED BY StopInit, StopStep, AuthorityTypeCorrect, AlwaysLedgerFirst, PTL DEF Spec

\* A decommission that reports ok left nothing behind, whatever failed, was killed
\* or went on at the same time.
THEOREM DecommissionAlwaysComplete == Spec => []DecommissionComplete
<1>1. StopInv => DecommissionComplete
  BY DEF StopInv, Sound, DecommissionSound, DecommissionComplete, Retired, Revoked
<1> QED BY <1>1, StopsAlwaysSound, PTL

\* No check that began after a stop was answered with success is allowed.
THEOREM StopsStayFinal == Spec => []StopsAreFinal
<1>1. StopInv => StopsAreFinal
  BY DEF StopInv, Sound, CheckSound, PastAgent, PastToken, StopsAreFinal
<1> QED BY <1>1, StopsAlwaysSound, PTL

-----------------------------------------------------------------------------
(* What a step adds to the ledger.                                          *)

StatusEvents == {e \in ledger : e.type = "registry.status_changed"}
RevokeEvents == {e \in ledger : e.type = "delegation.revoke"}
SameCounts == StatusEvents' = StatusEvents /\ RevokeEvents' = RevokeEvents
Counted == {"registry.status_changed", "delegation.revoke"}

\* A lost note is counted, and the count never goes back.
GapsGrow == gaps'["registry"] = 0 => gaps["registry"] = 0

\* An event has the type it is made with.
LEMMA EventType ==
  \A type, about, by, detail : Event(type, about, by, detail).type = type
BY DEF Event

\* An event of another type is in neither count.
LEMMA OtherEvent ==
  ASSUME NEW e, e.type \notin Counted, Appended(e) \/ AppendFails(e)
  PROVE  SameCounts
BY DEF Appended, AppendFails, SameCounts, StatusEvents, RevokeEvents, Counted

\* A note of another type does not change the counts of the status trail.
LEMMA OtherNote ==
  ASSUME AuthorityTypeOK, NEW svc \in Services, NEW e, e.type \notin Counted, Note(svc, e)
  PROVE  SameCounts /\ GapsGrow
<1>1. SameCounts
  BY OtherEvent DEF Note
<1>2. gaps' = gaps \/ gaps' = [gaps EXCEPT ![svc] = @ + 1]
  BY DEF Note
<1>3. gaps \in [Services -> Nat] /\ "registry" \in Services
  BY DEF AuthorityTypeOK, Services
<1>4. GapsGrow
  BY <1>3, <1>2 DEF GapsGrow
<1> QED BY <1>1, <1>4

\* Nor does a step that appends nothing and loses nothing.
LEMMA NoEvent ==
  ASSUME UNCHANGED <<ledger, gaps>>
  PROVE  SameCounts /\ GapsGrow
BY DEF SameCounts, StatusEvents, RevokeEvents, GapsGrow

\* Of the steps of a request only the revoke's ledger call adds an event to a count.
LEMMA StepAdds ==
  ASSUME AuthorityTypeOK, NEW r \in Req, Start(r) \/ Step(r), ~ RevokeLedger(r)
  PROVE  SameCounts /\ GapsGrow
<1> DEFINE Uncounted == SameCounts /\ GapsGrow
<1> SUFFICES Uncounted
  OBVIOUS
<1>1. \A e : e.type \notin Counted /\ (Appended(e) \/ AppendFails(e)) /\ UNCHANGED gaps
              => Uncounted
  <2>1. UNCHANGED gaps => GapsGrow
    BY DEF GapsGrow
  <2> QED BY <2>1, OtherEvent
<1>2. \A svc \in Services : \A e : e.type \notin Counted /\ Note(svc, e) => Uncounted
  BY OtherNote
<1>3. UNCHANGED <<ledger, gaps>> => Uncounted
  BY NoEvent
<1>4. "registry" \in Services /\ "killswitch" \in Services
  BY DEF Services
<1> HIDE DEF Uncounted
<1>5. CASE Start(r)
  BY <1>3, <1>5 DEF Start
<1>6. CASE OperatorStep(r)
  <2>1. CASE AttestNote(r)
    BY EventType, <1>2, <1>4, <2>1 DEF AttestNote, Counted
  <2> QED BY <1>3, <1>6, <2>1 DEF OperatorStep, PatchReturn, PatchTimeout, Edit, Attest
<1>7. CASE KillSwitchStep(r)
  <2>1. CASE KillRead(r) \/ DomainList(r) \/ ReviveRead(r) \/ DrillConfirm(r) \/ DrillRestore(r)
    BY <1>3, <2>1 DEF KillRead, DomainList, ReviveRead, DrillConfirm, DrillRestore, Unreachable
  <2>2. CASE KillSignal(r)
    BY EventType, <1>2, <1>4, <2>2 DEF KillSignal, Counted
  <2>3. CASE KillNote(r)
    BY EventType, <1>2, <1>4, <2>3 DEF KillNote, Counted
  <2>4. CASE ReviveNote(r)
    BY EventType, <1>2, <1>4, <2>4 DEF ReviveNote, Counted
  <2>5. CASE DrillFailed(r)
    BY EventType, <1>2, <1>4, <2>5 DEF DrillFailed, Counted
  <2>6. CASE DomainNext(r)
    BY EventType, <1>2, <1>3, <1>4, <2>6 DEF DomainNext, Counted
  <2>7. CASE DrillRead(r)
    BY EventType, <1>2, <1>3, <1>4, <2>7 DEF DrillRead, Unreachable, Counted
  <2>8. CASE DrillBeat(r)
    BY EventType, <1>2, <1>3, <1>4, <2>8 DEF DrillBeat, Counted
  <2>9. \A restored : DrillEnd(r, restored) => Uncounted
    BY EventType, <1>2, <1>3, <1>4 DEF DrillEnd, Counted
  <2>10. CASE DrillVerify(r) \/ DrillReport(r)
    BY <1>3, <2>9, <2>10 DEF DrillVerify, DrillReport
  <2> QED BY <1>7, <2>1, <2>2, <2>3, <2>4, <2>5, <2>6, <2>7, <2>8, <2>10
          DEF KillSwitchStep
<1>8. CASE DelegationStep(r)
  BY EventType, <1>1, <1>3, <1>8 DEF MintLedger, MintEvent, Counted, DelegationStep, MintRead, MintSave,
    RevokeRead, RevokeLock, RevokeSave
<1>9. CASE LifecycleStep(r)
  BY EventType, <1>1, <1>3, <1>9 DEF DecommissionRead, Unreachable, Decommissioned, Counted, DecommissionNote,
    LifecycleStep, DecommissionList, DecommissionRevoke, DecommissionRetire
<1>10. CASE SentinelStep(r)
  BY EventType, <1>1, <1>3, <1>10 DEF Refuse, Refused, Counted, CheckAgent, CheckToken, CheckAllow, Allow,
    SentinelStep
<1> QED BY <1>5, <1>6, <1>7, <1>8, <1>9, <1>10 DEF Step

-----------------------------------------------------------------------------
(* The trail of status changes.                                             *)

Pending == {StatusChange(p) : p \in {p \in patch : p.st = "note" /\ Changed(p)}}
Statuses == \A a \in Agents : reg'[a].status = reg[a].status

\* A request goes on under a number that is not smaller, or is answered.
Onward(s) == rq'[s].pc # "done" => rq[s].pc # "done" /\ rq[s].n <= rq'[s].n

\* The trail is what the ledger holds and what is still to be noted.
LEMMA TrailedParts == Trailed = StatusEvents \union Pending
BY DEF Trailed, StatusEvents, Pending

\* A request that moves leaves every agent's status, or changes one through a PATCH.
LEMMA StatusesKept ==
  ASSUME AuthorityTypeOK, NEW r \in Req, Start(r) \/ Step(r)
  PROVE  Statuses
<1>1. CASE reg' = reg
  BY <1>1 DEF Statuses
<1>2. CASE Attest(r)
  <2>1. CASE reg' = [reg EXCEPT ![rq[r].a].attested = r]
    BY <2>1 DEF AuthorityTypeOK, Record, Statuses
  <2> QED BY <1>1, <1>2, <2>1 DEF Attest
<1>3. CASE OperatorStep(r)
  BY <1>1, <1>2, <1>3 DEF OperatorStep, PatchReturn, PatchTimeout, Edit, AttestNote
<1> QED BY <1>1, <1>3, RegKept DEF Step

\* Requests are numbered.
LEMMA NatNumbers ==
  ASSUME AuthorityTypeOK, NEW s \in Req
  PROVE  rq[s].n \in Nat
BY DEF AuthorityTypeOK, Frame, Idle

\* A step that adds nothing to the trail keeps it, if it keeps the statuses, or loses
\* a note and counts it.
LEMMA TrailKept ==
  ASSUME AuthorityTypeOK, AuthorityTypeOK', TrailInv, Trailed' \subseteq Trailed,
         gaps'["registry"] = 0 =>
           gaps["registry"] = 0 /\ Trailed' = Trailed /\ Statuses,
         \A s \in Req : Onward(s),
         \A p \in patch' : p.st \in {"guard", "write"} =>
           \A e \in Trailed : e.by # <<p.by, p.n>>
  PROVE  TrailInv'
<1>1. IsFiniteSet(Trailed')
  BY FS_Subset DEF TrailInv
<1>2. TrailFresh'
  <2>1. ASSUME NEW e \in Trailed'
        PROVE  /\ e.by \in Req \X Nat
               /\ rq'[e.by[1]].pc # "done" => e.by[2] <= rq'[e.by[1]].n
    <3>1. /\ e.by \in Req \X Nat
          /\ rq[e.by[1]].pc # "done" => e.by[2] <= rq[e.by[1]].n
      BY DEF TrailInv, TrailFresh
    <3>2. Onward(e.by[1]) /\ rq[e.by[1]].n \in Nat /\ e.by[2] \in Nat
      BY <3>1, NatNumbers
    <3>3. rq'[e.by[1]].n \in Nat
      <4>1. e.by[1] \in Req
        BY <3>1
      <4> QED BY <4>1 DEF AuthorityTypeOK, Frame, Idle
    <3> QED BY <3>1, <3>2, <3>3 DEF Onward
  <2> QED BY <2>1 DEF TrailFresh
<1>3. TrailBalanced'
  BY DEF TrailBalanced, Statuses, Turns, TrailInv
<1> QED BY <1>1, <1>2, <1>3 DEF TrailInv

\* What a request does leaves the notes still to come as they are: a new PATCH has
\* none yet, and an answer or a timeout takes none away.
LEMMA PendingKept ==
  ASSUME AuthorityTypeOK, NEW r \in Req, Kept(r)
  PROVE  Pending' = Pending
<1>1. CASE Still(r)
  BY <1>1 DEF Still, Pending
<1>2. CASE Sent(r)
  <2>1. PICK p : p.st = "guard" /\ patch' = patch \union {p}
    <3>1. PICK a, to : patch' = patch \union {[by |-> r, n |-> rq[r].n + 1, a |-> a, to |-> to,
                                              st |-> "guard", from |-> "none", wait |-> TRUE]}
      BY <1>2 DEF Sent
    <3> DEFINE new == [by |-> r, n |-> rq[r].n + 1, a |-> a, to |-> to,
                       st |-> "guard", from |-> "none", wait |-> TRUE]
    <3>2. new.st = "guard" /\ patch' = patch \union {new}
      BY <3>1
    <3> HIDE DEF new
    <3> QED BY <3>2
  <2>2. {q \in patch' : q.st = "note" /\ Changed(q)} = {q \in patch : q.st = "note" /\ Changed(q)}
    BY <2>1
  <2> QED BY <2>2 DEF Pending
<1>3. CASE Answered(r)
  <2>1. PICK p \in patch :
          \/ patch' = patch \ {p} /\ p.st # "note"
          \/ patch' = (patch \ {p}) \union {[p EXCEPT !.wait = FALSE]}
    BY <1>3 DEF Answered, PatchReturn, PatchTimeout
  <2>2. CASE patch' = patch \ {p} /\ p.st # "note"
    BY <2>2 DEF Pending
  <2>3. CASE patch' = (patch \ {p}) \union {[p EXCEPT !.wait = FALSE]}
    <3> DEFINE gone == [p EXCEPT !.wait = FALSE]
    <3>1. p \in Patch
      BY DEF AuthorityTypeOK
    <3>2. gone.by = p.by /\ gone.n = p.n /\ gone.a = p.a /\ gone.to = p.to /\ gone.st = p.st
          /\ gone.from = p.from
      BY <3>1 DEF Patch
    <3>3. patch' = (patch \ {p}) \union {gone}
      BY <2>3
    <3> HIDE DEF gone
    <3>4. StatusChange(gone) = StatusChange(p) /\ (Changed(gone) <=> Changed(p))
      BY <3>2 DEF StatusChange, Changed
    <3> QED BY <3>2, <3>3, <3>4 DEF Pending
  <2> QED BY <2>1, <2>2, <2>3
<1> QED BY <1>1, <1>2, <1>3 DEF Kept

\* A step of one request neither changes a status nor adds to the trail.
LEMMA TrailStep ==
  ASSUME AuthorityTypeOK, AuthorityTypeOK', LedgerFirst, StopInv, TrailInv,
         NEW r \in Req, Step(r)
  PROVE  TrailInv'
<1>1. Kept(r) /\ rq[r].pc \notin {"idle", "done"}
  BY StepMoves, StepsOfOpen DEF StopInv, Sound
<1>2. \A s \in Req \ {r} : rq'[s] = rq[s]
  BY OthersKept
<1>3. StatusEvents' = StatusEvents /\ GapsGrow
  <2>1. CASE RevokeLedger(r)
    <3>1. RevokeEvent(r).type = "delegation.revoke"
      BY DEF RevokeEvent, Event
    <3>2. ledger' \in {ledger, ledger \union {RevokeEvent(r)}} /\ gaps' = gaps
      BY <2>1 DEF RevokeLedger, Appended, AppendFails
    <3> QED BY <3>1, <3>2 DEF StatusEvents, GapsGrow
  <2>2. CASE ~ RevokeLedger(r)
    BY <2>2, StepAdds DEF SameCounts
  <2> QED BY <2>1, <2>2
<1>4. Trailed' = Trailed
  <2>1. Pending' = Pending
    BY <1>1, PendingKept
  <2>2. (Trailed = StatusEvents \union Pending)'
    BY TrailedParts, PTL
  <2> QED BY <1>3, <2>1, <2>2, TrailedParts
<1>5. rq'[r].pc # "done" => rq'[r].n = rq[r].n \/ rq'[r].n = rq[r].n + 1
  BY <1>1 DEF Kept, Still, Sent, Answered, Moved
<1>6. \A s \in Req : Onward(s)
  BY <1>1, <1>2, <1>5, NatNumbers DEF Onward
<1>7. ASSUME NEW p \in patch', p.st \in {"guard", "write"}, NEW e \in Trailed
      PROVE  e.by # <<p.by, p.n>>
  <2>1. CASE \E q \in patch : q.st = p.st /\ q.by = p.by /\ q.n = p.n
    BY <1>7, <2>1 DEF TrailInv, TrailFresh
  <2>2. CASE p.by = r /\ p.n = rq[r].n + 1
    BY NatNumbers, <1>1, <2>2 DEF TrailInv, TrailFresh
  <2>3. CASE Still(r)
    BY <2>1, <2>3 DEF Still
  <2>4. CASE Sent(r)
    BY <2>4, <2>1, <2>2 DEF Sent
  <2>5. CASE Answered(r)
    <3>1. PICK q \in patch :
            \/ patch' = patch \ {q}
            \/ patch' = (patch \ {q}) \union {[q EXCEPT !.wait = FALSE]}
      BY <2>5 DEF Answered, PatchReturn, PatchTimeout
    <3>2. p \in patch \/ p = [q EXCEPT !.wait = FALSE]
      BY <3>1
    <3>3. q \in Patch
      BY DEF AuthorityTypeOK
    <3>4. CASE p = [q EXCEPT !.wait = FALSE]
      BY <3>3, <3>4, <2>1 DEF Patch
    <3> QED BY <2>1, <3>2, <3>4
  <2> QED BY <1>1, <2>3, <2>4, <2>5 DEF Kept
<1>8. Statuses
  BY StatusesKept
<1> QED BY <1>3, <1>4, <1>6, <1>7, <1>8, TrailKept DEF GapsGrow

\* A request that begins leaves the trail alone.
LEMMA TrailStart ==
  ASSUME AuthorityTypeOK, AuthorityTypeOK', TrailInv, NEW r \in Req, Start(r)
  PROVE  TrailInv'
<1>1. patch' = patch /\ ledger' = ledger /\ gaps' = gaps /\ reg' = reg /\ rq[r].pc = "idle"
  BY DEF Start
<1>2. Trailed' = Trailed
  BY <1>1 DEF Trailed
<1>3. \A s \in Req \ {r} : rq'[s] = rq[s]
  BY OthersKept
<1>4. rq[r].n = 0 /\ rq'[r].n \in Nat
  <2>1. rq[r] \notin Frame
    BY <1>1 DEF Frame, Label, InDelegation
  <2>2. rq[r] = Idle
    BY <2>1 DEF AuthorityTypeOK
  <2>3. rq[r].n = 0
    BY <2>2 DEF Idle
  <2> QED BY <2>3 DEF AuthorityTypeOK, Frame, Idle
<1>5. \A s \in Req : Onward(s)
  BY <1>1, <1>3, <1>4, NatNumbers DEF Onward
<1>6. Statuses
  BY <1>1 DEF Statuses
<1>7. \A p \in patch' : p.st \in {"guard", "write"} =>
        \A e \in Trailed : e.by # <<p.by, p.n>>
  BY <1>1 DEF TrailInv, TrailFresh
<1> QED BY <1>1, <1>2, <1>5, <1>6, <1>7, TrailKept

\* A worker of the delegation authority that dies has no status note to lose.
LEMMA TrailCrash ==
  ASSUME AuthorityTypeOK, AuthorityTypeOK', LedgerFirst, TrailInv,
         NEW w \in Workers, DelegationCrash(w)
  PROVE  TrailInv'
<1>1. patch' = patch /\ ledger' = ledger /\ gaps' = gaps /\ reg' = reg
  BY DEF DelegationCrash
<1>2. Trailed' = Trailed
  BY <1>1 DEF Trailed
<1>3. ASSUME NEW s \in Req
      PROVE  Onward(s)
  <2>1. CASE rq'[s] = rq[s]
    BY <2>1, NatNumbers DEF Onward
  <2>2. CASE Serves(w, s)
    <3>1. rq[s] \in Frame /\ rq[s].pc # "done"
      BY <2>2, MadeFrame DEF Serves, InDelegation
    <3>2. rq'[s] = Resumed(rq[s], rq[s].back, FALSE)
      BY <2>2 DEF DelegationCrash, Returned
    <3> DEFINE f == Resumed(rq[s], rq[s].back, FALSE)
    <3>3. f.pc = "done" \/ f.n = rq[s].n
      BY <3>1 DEF Resumed, Idle, Frame
    <3>4. rq'[s] = f
      BY <3>2
    <3> HIDE DEF f
    <3> QED BY <3>1, <3>3, <3>4, NatNumbers DEF Onward
  <2> QED BY <2>1, <2>2 DEF DelegationCrash
<1>4. Statuses
  BY <1>1 DEF Statuses
<1>5. \A p \in patch' : p.st \in {"guard", "write"} =>
        \A e \in Trailed : e.by # <<p.by, p.n>>
  BY <1>1 DEF TrailInv, TrailFresh
<1> QED BY <1>1, <1>2, <1>3, <1>4, <1>5, TrailKept

\* Another answer than a note's, or none, neither writes a status nor the ledger.
LEMMA TrailRefused ==
  ASSUME AuthorityTypeOK, AuthorityTypeOK', TrailInv, NEW p \in patch, NEW next,
         next.by = p.by, next.n = p.n, next.st # "note", p.st # "note",
         next.st \in {"guard", "write"} => p.st \in {"guard", "write"},
         patch' \in {patch \ {p}, (patch \ {p}) \union {next}},
         UNCHANGED <<rq, ledger, gaps>>, Statuses
  PROVE  TrailInv'
<1>1. StatusEvents' = StatusEvents
  BY DEF StatusEvents
<1>2. Pending' = Pending
  BY DEF Pending
<1>3. Trailed' = Trailed
  <2>1. (Trailed = StatusEvents \union Pending)'
    BY TrailedParts, PTL
  <2> QED BY <1>1, <1>2, <2>1, TrailedParts
<1>4. \A s \in Req : Onward(s)
  BY NatNumbers DEF Onward
<1>5. ASSUME NEW q \in patch', q.st \in {"guard", "write"}, NEW e \in Trailed
      PROVE  e.by # <<q.by, q.n>>
  BY <1>5 DEF TrailInv, TrailFresh
<1> QED BY <1>3, <1>4, <1>5, TrailKept

\* The note of a PATCH takes its change from those to come into the ledger, or loses
\* it and counts that.
LEMMA TrailNote ==
  ASSUME AuthorityTypeOK, AuthorityTypeOK', TrailInv, NEW p \in patch, PatchNote(p)
  PROVE  TrailInv'
<1> DEFINE e == IF Changed(p) THEN StatusChange(p)
                ELSE Event("registry.updated", p.a, <<p.by, p.n>>, "none")
<1>1. /\ Note("registry", e) /\ rq' = rq /\ reg' = reg /\ p.st = "note"
      /\ patch' = (patch \ {p}) \union (IF p.wait THEN {[p EXCEPT !.st = "ok"]} ELSE {})
  BY DEF PatchNote, Answer
<1>2. /\ Changed(p) => e = StatusChange(p)
      /\ ~ Changed(p) => e.type # "registry.status_changed"
  BY DEF Event
<1>3. StatusChange(p).type = "registry.status_changed"
  BY DEF StatusChange, Event
<1> HIDE DEF e
<1>4. ledger' \in {ledger, ledger \union {e}}
  BY <1>1 DEF Note, Appended, AppendFails
<1>5. {q \in patch' : q.st = "note" /\ Changed(q)}
        = {q \in patch : q.st = "note" /\ Changed(q)} \ {p}
  <2>1. p \in Patch
    BY DEF AuthorityTypeOK
  <2>2. [p EXCEPT !.st = "ok"].st = "ok"
    BY <2>1 DEF Patch
  <2> HIDE DEF Changed
  <2> QED BY <1>1, <2>2
<1>6. Trailed' \subseteq Trailed
  <2>1. StatusEvents' \subseteq StatusEvents \union Pending
    BY <1>1, <1>2, <1>3, <1>4 DEF StatusEvents, Pending
  <2>2. Pending' \subseteq Pending
    BY <1>5 DEF Pending
  <2>3. (Trailed = StatusEvents \union Pending)'
    BY TrailedParts, PTL
  <2> QED BY <2>1, <2>2, <2>3, TrailedParts
<1>7. ASSUME gaps'["registry"] = 0
      PROVE  gaps["registry"] = 0 /\ Trailed' = Trailed
  <2>1. gaps \in [Services -> Nat] /\ "registry" \in Services
    BY DEF AuthorityTypeOK, Services
  <2>2. ledger' = ledger \union {e} /\ gaps' = gaps
    BY <1>1, <1>7, <2>1 DEF Note, Appended
  <2>3. StatusEvents \subseteq StatusEvents' /\ (Changed(p) => StatusChange(p) \in StatusEvents')
    BY <1>2, <1>3, <2>2 DEF StatusEvents
  <2>4. \A f \in Pending : f \in Pending' \/ (Changed(p) /\ f = StatusChange(p))
    BY <1>5 DEF Pending
  <2>5. (Trailed = StatusEvents \union Pending)'
    BY TrailedParts, PTL
  <2> QED BY <1>6, <1>7, <2>2, <2>3, <2>4, <2>5, TrailedParts
<1>8. \A s \in Req : Onward(s)
  BY <1>1, NatNumbers DEF Onward
<1>9. Statuses
  BY <1>1 DEF Statuses
<1>10. ASSUME NEW q \in patch', q.st \in {"guard", "write"}, NEW f \in Trailed
       PROVE  f.by # <<q.by, q.n>>
  BY <1>1, <1>10 DEF AuthorityTypeOK, Patch, TrailInv, TrailFresh
<1> QED BY <1>6, <1>7, <1>8, <1>9, <1>10, TrailKept

\* A write that changes the status adds the event of its note, which tells the status
\* it replaced and is of no earlier PATCH.
LEMMA TrailWrite ==
  ASSUME AuthorityTypeOK, AuthorityTypeOK', StopInv, TrailInv, NEW p \in patch,
         p.st = "write", reg' = Updated(p), Proceed(p, "note", reg[p.a].status),
         UNCHANGED <<rq, ledger, gaps>>
  PROVE  TrailInv'
<1> DEFINE q == [p EXCEPT !.st = "note", !.from = reg[p.a].status]
<1>1. p \in Patch /\ p.a \in Agents /\ p.by \in Req /\ p.n \in Nat
  BY DEF AuthorityTypeOK, Patch
<1>2. /\ q.st = "note" /\ q.by = p.by /\ q.n = p.n /\ q.a = p.a /\ q.to = p.to
      /\ q.from = reg[p.a].status
  BY <1>1 DEF Patch
<1>3. patch' = (patch \ {p}) \union {q}
  BY DEF Proceed
<1> HIDE DEF q
<1>4. StatusEvents' = StatusEvents
  BY DEF StatusEvents
<1>5. Pending' = IF Changed(q) THEN Pending \union {StatusChange(q)} ELSE Pending
  <2>1. {o \in patch' : o.st = "note" /\ Changed(o)}
          = {o \in patch : o.st = "note" /\ Changed(o)} \union (IF Changed(q) THEN {q} ELSE {})
    <3> HIDE DEF Changed
    <3> QED BY <1>2, <1>3
  <2> HIDE DEF Changed, StatusChange
  <2> QED BY <2>1 DEF Pending
<1>6. Trailed' = IF Changed(q) THEN Trailed \union {StatusChange(q)} ELSE Trailed
  <2>1. (Trailed = StatusEvents \union Pending)'
    BY TrailedParts, PTL
  <2> QED BY <1>4, <1>5, <2>1, TrailedParts
<1>7. \A s \in Req : Onward(s)
  BY NatNumbers DEF Onward
<1>8. \A o \in patch' : o.st \in {"guard", "write"} => o \in patch /\ o # p
  BY <1>2, <1>3
<1>9. /\ \A a \in Agents \ {p.a} : reg'[a].status = reg[a].status
      /\ reg'[p.a].status = IF p.to = "edit" THEN reg[p.a].status ELSE p.to
  <2>1. \A a \in Agents \ {p.a} : reg'[a] = reg[a]
    BY DEF Updated, AuthorityTypeOK
  <2>2. reg[p.a] \in Record
    BY <1>1 DEF AuthorityTypeOK
  <2>3. CASE p.to = "edit"
    BY <1>1, <2>3, <2>1, <2>2 DEF Updated, AuthorityTypeOK, Record
  <2>4. CASE p.to # "edit"
    BY <1>1, <2>4, <2>1, <2>2 DEF Updated, AuthorityTypeOK, Record
  <2> QED BY <2>3, <2>4
<1>10. CASE ~ Changed(q)
  BY <1>6, <1>10, <1>2, <1>9, <1>8, <1>7, TrailKept DEF Statuses, Changed, TrailInv, TrailFresh
<1>11. CASE Changed(q)
  <2> DEFINE e == StatusChange(q)
  <2>1. /\ e.type = "registry.status_changed" /\ e.about = p.a /\ e.by = <<p.by, p.n>>
        /\ e.detail[1] = reg[p.a].status /\ e.detail[2] = p.to
    BY <1>2 DEF StatusChange, Event
  <2>2. Trailed' = Trailed \union {e}
    BY <1>6, <1>11
  <2>3. /\ p.to \in Status /\ p.to # reg[p.a].status /\ reg'[p.a].status = p.to
        /\ p.to # "edit"
    BY <1>1, <1>2, <1>9, <1>11 DEF Changed, Patch
  <2> HIDE DEF e
  <2>4. e \notin Trailed
    BY <2>1 DEF TrailInv, TrailFresh
  <2>5. IsFiniteSet(Trailed')
    BY <2>2, FS_AddElement DEF TrailInv
  <2>6. TrailFresh'
    <3>1. ASSUME NEW f \in Trailed', NEW o \in patch', o.st \in {"guard", "write"}
          PROVE  f.by # <<o.by, o.n>>
      BY <1>8, <3>1, <2>1, <2>2 DEF AuthorityTypeOK, Patch, TrailInv, TrailFresh, StopInv, PatchInv, PatchIds
    <3>2. ASSUME NEW f \in Trailed'
          PROVE  /\ f.by \in Req \X Nat
                 /\ rq'[f.by[1]].pc # "done" => f.by[2] <= rq'[f.by[1]].n
      <4>1. CASE f \in Trailed
        BY <4>1 DEF TrailInv, TrailFresh
      <4>2. CASE f = e
        <5>1. f.by = <<p.by, p.n>> /\ f.by \in Req \X Nat /\ f.by[1] = p.by /\ f.by[2] = p.n
          BY <1>1, <2>1, <4>2
        <5>2. rq[p.by].pc # "done" => p.n <= rq[p.by].n
          BY DEF StopInv, PatchInv, PatchIds
        <5> QED BY <5>1, <5>2
      <4> QED BY <2>2, <4>1, <4>2
    <3> QED BY <3>1, <3>2 DEF TrailFresh
  <2>7. ASSUME gaps'["registry"] = 0, NEW a \in Agents, NEW s \in Status
        PROVE  Cardinality(Turns(a, 2, s)') + One(s = "active") =
                 Cardinality(Turns(a, 1, s)') + One(reg'[a].status = s)
    <3>1. Cardinality(Turns(a, 2, s)) + One(s = "active") =
            Cardinality(Turns(a, 1, s)) + One(reg[a].status = s)
      BY <2>7 DEF TrailInv, TrailBalanced
    <3>2. ASSUME NEW i \in {1, 2}
          PROVE  /\ Cardinality(Turns(a, i, s)) \in Nat
                 /\ Turns(a, i, s)' = IF a = p.a /\ e.detail[i] = s THEN Turns(a, i, s) \union {e}
                                      ELSE Turns(a, i, s)
                 /\ a = p.a /\ e.detail[i] = s =>
                      Cardinality(Turns(a, i, s)') = Cardinality(Turns(a, i, s)) + 1
      <4>1. Turns(a, i, s) \subseteq Trailed
        BY DEF Turns
      <4>2. IsFiniteSet(Turns(a, i, s)) /\ e \notin Turns(a, i, s)
        BY <2>4, <4>1, FS_Subset DEF TrailInv
      <4>3. Turns(a, i, s)' = {f \in Trailed' : f.about = a /\ f.detail[i] = s}
        BY DEF Turns
      <4>4. Turns(a, i, s)' = IF a = p.a /\ e.detail[i] = s THEN Turns(a, i, s) \union {e}
                              ELSE Turns(a, i, s)
        BY <2>1, <2>2, <4>3 DEF Turns
      <4>5. Cardinality(Turns(a, i, s)) \in Nat
        BY <4>2, FS_CardinalityType
      <4>6. Cardinality(Turns(a, i, s) \union {e}) = Cardinality(Turns(a, i, s)) + 1
        BY <4>2, FS_AddElement
      <4> QED BY <4>4, <4>5, <4>6
    <3>3. CASE a # p.a
      BY <1>9, <3>3, <3>1, <3>2
    <3>4. CASE a = p.a
      BY <2>1, <2>3, <3>1, <3>2, <3>4 DEF One
    <3> QED BY <3>3, <3>4
  <2>8. TrailBalanced'
    BY <2>7 DEF TrailBalanced
  <2> QED BY <2>5, <2>6, <2>8 DEF TrailInv
<1> QED BY <1>10, <1>11

\* Each of the registry's three steps of a PATCH.
LEMMA TrailServed ==
  ASSUME AuthorityTypeOK, AuthorityTypeOK', StopInv, TrailInv, NEW p \in patch, RegistryStep(p)
  PROVE  TrailInv'
<1>1. p \in Patch
  BY DEF AuthorityTypeOK
<1>2. \A st : LET f == [p EXCEPT !.st = st] IN f.st = st /\ f.by = p.by /\ f.n = p.n
  BY <1>1 DEF Patch
<1>3. \A st, from : LET f == [p EXCEPT !.st = st, !.from = from]
                    IN f.st = st /\ f.by = p.by /\ f.n = p.n
  BY <1>1 DEF Patch
<1>4. ASSUME p.st \in {"guard", "write"}, Answer(p, "refused"), UNCHANGED <<reg, rq, ledger, gaps>>
      PROVE  TrailInv'
  <2> DEFINE f == [p EXCEPT !.st = "refused"]
  <2>1. f.st = "refused" /\ f.by = p.by /\ f.n = p.n
    BY <1>2
  <2>2. patch' \in {patch \ {p}, (patch \ {p}) \union {f}}
    BY <1>4 DEF Answer
  <2>3. Statuses
    BY <1>4 DEF Statuses
  <2> HIDE DEF f
  <2> QED BY <1>4, <2>1, <2>2, <2>3, TrailRefused
<1>5. CASE PatchGuard(p)
  <2>1. CASE Answer(p, "refused")
    BY <1>4, <1>5, <2>1 DEF PatchGuard
  <2>2. CASE Proceed(p, "write", reg[p.a].status)
    <3> DEFINE f == [p EXCEPT !.st = "write", !.from = reg[p.a].status]
    <3>1. f.st = "write" /\ f.by = p.by /\ f.n = p.n
      BY <1>3
    <3>2. patch' = (patch \ {p}) \union {f}
      BY <2>2 DEF Proceed
    <3>3. Statuses /\ p.st = "guard" /\ UNCHANGED <<rq, ledger, gaps>>
      BY <1>5 DEF PatchGuard, Statuses
    <3> HIDE DEF f
    <3> QED BY <3>1, <3>2, <3>3, TrailRefused
  <2> QED BY <1>5, <2>1, <2>2 DEF PatchGuard
<1>6. CASE PatchWrite(p)
  BY <1>4, <1>6, TrailWrite DEF PatchWrite
<1>7. CASE PatchNote(p)
  BY <1>7, TrailNote
<1> QED BY <1>5, <1>6, <1>7 DEF RegistryStep

\* The trail starts empty, every agent active.
LEMMA TrailInit == Init => TrailInv
<1> SUFFICES ASSUME Init
             PROVE  TrailInv
  OBVIOUS
<1>1. patch = {} /\ reg = [a \in Agents |-> [status |-> "active", record |-> "none",
                                             attested |-> "none"]]
  BY DEF Init, InitRegistry
<1>2. \A e \in ledger : e.type = "delegation.mint"
  <2>1. ledger = {Event("delegation.mint", a, a, "none") : a \in Agents}
    BY DEF Init, InitDelegation
  <2> QED BY <2>1, EventType
<1>3. Trailed = {}
  BY <1>1, <1>2 DEF Trailed
<1>4. TrailFresh
  BY <1>3 DEF TrailFresh
<1>5. \A a, s : Turns(a, 1, s) = {} /\ Turns(a, 2, s) = {}
  BY <1>3 DEF Turns
<1>6. \A a \in Agents, s \in Status : One(reg[a].status = s) = One(s = "active")
  BY <1>1 DEF One
<1>7. Cardinality({}) = 0 /\ IsFiniteSet({})
  BY FS_EmptySet
<1>8. TrailBalanced
  BY <1>5, <1>6, <1>7 DEF TrailBalanced
<1> QED BY <1>3, <1>4, <1>7, <1>8 DEF TrailInv

\* Each step keeps the trail's account.
LEMMA TrailNext ==
  ASSUME AuthorityTypeOK, AuthorityTypeOK', LedgerFirst, StopInv, TrailInv, [Next]_avars
  PROVE  TrailInv'
<1>1. CASE UNCHANGED avars
  BY <1>1, NatNumbers, TrailKept DEF avars, rvars, Trailed, Onward, Statuses, TrailInv, TrailFresh
<1>2. ASSUME NEW r \in Req, Start(r) \/ Step(r)
      PROVE  TrailInv'
  BY <1>2, TrailStart, TrailStep
<1>3. CASE ServePatch
  BY <1>3, TrailServed DEF ServePatch
<1>4. ASSUME NEW w \in Workers, DelegationCrash(w)
      PROVE  TrailInv'
  BY <1>4, TrailCrash
<1> QED BY <1>1, <1>2, <1>3, <1>4 DEF Next

\* With the notes still to come counted in, the status changes of every agent balance
\* (TrailInv).
THEOREM TrailAlwaysSound == Spec => []TrailInv
<1>1. AuthorityTypeOK /\ AuthorityTypeOK' /\ LedgerFirst /\ StopInv /\ TrailInv /\ [Next]_avars
        => TrailInv'
  BY TrailNext
<1> QED BY <1>1, TrailInit, AuthorityTypeCorrect, AlwaysLedgerFirst, StopsAlwaysSound, PTL
        DEF Spec

\* With no note lost and none to come, the ledger's status changes of an agent lead
\* from active to its status, whoever patched it, timed out or retried (StatusTrail).
THEOREM TrailAlwaysTrue == Spec => []StatusTrail
<1>1. TrailInv => StatusTrail
  <2> SUFFICES ASSUME TrailInv, NEW a \in Agents, NEW s \in Status, gaps["registry"] = 0,
                      \A p \in patch : p.a = a => p.st # "note"
               PROVE  Cardinality(Changes(a, 2, s)) + One(s = "active") =
                        Cardinality(Changes(a, 1, s)) + One(reg[a].status = s)
    BY DEF StatusTrail
  <2>1. \A e \in Pending : e.about # a
    BY DEF StatusChange, Event, Pending
  <2>2. \A i \in {1, 2} : Turns(a, i, s) = Changes(a, i, s)
    BY <2>1, TrailedParts DEF Turns, Changes, StatusEvents
  <2>3. Cardinality(Turns(a, 2, s)) + One(s = "active") =
          Cardinality(Turns(a, 1, s)) + One(reg[a].status = s)
    BY DEF TrailInv, TrailBalanced
  <2> QED BY <2>2, <2>3
<1> QED BY <1>1, TrailAlwaysSound, PTL

\* A stop that was reported holds: the trail is true, a decommission that said ok is
\* complete, and what began after it is not allowed (StopsHold).
THEOREM StopsAlwaysHold == Spec => []StopsHold
<1>1. StatusTrail /\ DecommissionComplete /\ StopsAreFinal => StopsHold
  BY DEF StopsHold
<1> QED BY <1>1, TrailAlwaysTrue, DecommissionAlwaysComplete, StopsStayFinal, PTL

-----------------------------------------------------------------------------
(* Revokes are counted once (RevokedOnce).                                  *)

RevokeStepOf(r) == RevokeLock(r) \/ RevokeLedger(r) \/ RevokeSave(r)

\* The revoke steps find their token and, under the lock, their process.
LEMMA RevokeFrame ==
  ASSUME AuthorityTypeOK, LedgerFirst, StopInv, RevokeInv, NEW r \in Req, RevokeStepOf(r)
  PROVE  /\ rq[r] \in Frame /\ rq[r].t \in Token /\ rq[r].w \in Workers
         /\ rq[r].pc \in Revoking /\ rq[r].back \notin Locking
         /\ Resumed(rq[r], rq[r].back, TRUE).pc = rq[r].back
         /\ Resumed(rq[r], rq[r].back, FALSE).pc = rq[r].back
<1>1. rq[r].pc \in Revoking
  BY DEF RevokeStepOf, RevokeLock, RevokeLedger, RevokeSave, Revoking
<1>2. rq[r] \in Frame
  BY <1>1, MadeFrame DEF Revoking
<1>3. rq[r].t \in Token /\ rq[r].back \in Resumes
  BY <1>1 DEF LedgerFirst, Ordered
<1>4. rq[r].op \in {"revoke", "decommission"}
  BY <1>1 DEF StopInv, Sound, OwnLabels, InRevoke
<1>5. rq[r].w \in Workers
  BY <1>1, <1>4 DEF RevokeInv, LockHeld, Revoking
<1>6. rq[r].back \notin Locking
  BY <1>3 DEF Resumes, Locking
<1>7. \A ok : Resumed(rq[r], rq[r].back, ok).pc = rq[r].back
  BY <1>2 DEF Resumed, Idle, Frame
<1> QED BY <1>1, <1>2, <1>3, <1>5, <1>6, <1>7

\* Any other step of a request neither takes nor frees a lock nor enters the part of
\* a revoke that runs under it.
LEMMA OutsideLock ==
  ASSUME AuthorityTypeOK, LedgerFirst, StopInv, NEW r \in Req, Start(r) \/ Step(r),
         ~ RevokeStepOf(r)
  PROVE  /\ held' = held /\ rq[r].pc \notin Locking /\ rq'[r].pc \notin Locking
         /\ \A t \in Token : (token'[t].st = "revoked") <=> (token[t].st = "revoked")
<1>1. CASE Start(r)
  <2>1. held' = held /\ token' = token /\ rq[r].pc = "idle"
    BY <1>1 DEF Start, dvars
  <2>2. rq'[r].pc \in Operations
    <3>1. PICK op \in Asks[r], a \in Agents :
            \E t \in IF op \in {"revoke", "check"} THEN Token ELSE {"none"},
               w \in IF op \in {"mint", "revoke", "decommission"} THEN Workers ELSE {"none"} :
              Become(r, [Idle EXCEPT !.op = op, !.pc = op, !.a = a, !.t = t, !.w = w,
                                     !.seen = IF op = "check" THEN Succeeded ELSE {}])
      BY <1>1 DEF Start
    <3>2. op \in Operations
      BY AsksAssumption
    <3> QED BY <3>1, <3>2 DEF Become, AuthorityTypeOK, Idle
  <2> QED BY <2>1, <2>2 DEF Operations, Locking
<1>2. CASE Step(r)
  <2>1. rq[r].pc # "idle" /\ Kept(r) /\ Sound(r)
    BY <1>2, StepsOfOpen, StepMoves DEF StopInv, Sound
  <2>2. ASSUME rq[r].pc \in Revoking
        PROVE  FALSE
    <3>1. ~ OperatorStep(r)
      BY <2>2 DEF Revoking, OperatorStep, PatchReturn, PatchTimeout, Edit, Attest, AttestNote
    <3>2. ~ KillSwitchStep(r)
      BY <2>2 DEF Revoking, KillSwitchStep, KillRead, KillSignal, KillNote, DomainList,
             DomainNext, ReviveRead, ReviveNote, DrillRead, DrillConfirm, DrillBeat,
             DrillRestore, DrillVerify, DrillFailed, DrillReport
    <3>3. ~ LifecycleStep(r)
      BY <2>2 DEF Revoking, LifecycleStep, DecommissionRead, DecommissionList,
             DecommissionRevoke, DecommissionRetire, DecommissionNote
    <3>4. ~ SentinelStep(r)
      BY <2>2 DEF Revoking, SentinelStep, CheckAgent, CheckToken, CheckAllow
    <3>5. ~ MintRead(r) /\ ~ MintLedger(r) /\ ~ MintSave(r) /\ ~ RevokeRead(r)
      BY <2>2 DEF Revoking, MintRead, MintLedger, MintSave, RevokeRead
    <3> QED BY <1>2, <3>1, <3>2, <3>3, <3>4, <3>5 DEF Step, DelegationStep, RevokeStepOf
  <2>3. rq[r].pc \notin Locking /\ rq'[r].pc \notin Locking
    BY <2>1, <2>2 DEF Kept, Still, Sent, Answered, Moved, Locking, Revoking
  <2>4. held' = held /\ (token' = token \/ MintSave(r))
    BY <1>2 DEF Step, DelegationStep, LifecycleStep, SentinelStep, dvars, MintRead, MintLedger,
           MintSave, RevokeRead, RevokeStepOf, DecommissionRead, DecommissionList,
           DecommissionRevoke, DecommissionRetire, DecommissionNote, CheckAgent, CheckToken,
           CheckAllow
  <2>5. CASE MintSave(r)
    BY <2>1, <2>5, <2>3, <2>4 DEF MintSave, Sound, MintedOnce, Minting, AuthorityTypeOK
  <2> QED BY <2>3, <2>4, <2>5
<1> QED BY <1>1, <1>2

\* The workers that may still append are finitely many.
LEMMA MayAppendSet ==
  \A t : MayAppend(t) \subseteq Workers
           /\ IsFiniteSet(MayAppend(t)) /\ Cardinality(MayAppend(t)) \in Nat
BY EstateAssumption, FS_Subset, FS_CardinalityType DEF MayAppend

\* One event more, and one process less that may add one or one fault more; or one
\* process more and one fault more.
Budget(t) ==
  /\ IsFiniteSet(Revocations(t))
  /\ Cardinality(Revocations(t)) + Cardinality(MayAppend(t)) <= Cardinality(Workers) + faults

\* The budget of events holds where nothing is appended and nobody new may append.
LEMMA BudgetSame ==
  ASSUME AuthorityTypeOK, AuthorityTypeOK', NEW t \in Token, Budget(t),
         Revocations(t)' = Revocations(t), MayAppend(t)' \subseteq MayAppend(t),
         faults <= faults'
  PROVE  Budget(t)'
<1>1. /\ Cardinality(MayAppend(t)) \in Nat /\ IsFiniteSet(MayAppend(t))
      /\ Cardinality(Workers) \in Nat
  BY MayAppendSet, EstateAssumption, FS_CardinalityType
<1>2. Cardinality(MayAppend(t)') \in Nat /\ Cardinality(MayAppend(t)') <= Cardinality(MayAppend(t))
  BY <1>1, FS_Subset, FS_CardinalityType
<1>3. Cardinality(Revocations(t)) \in Nat /\ faults \in Nat /\ faults' \in Nat
  BY FS_CardinalityType DEF Budget, AuthorityTypeOK
<1> QED BY <1>1, <1>2, <1>3 DEF Budget

\* One event uses up its worker's turn, or a fault.
LEMMA BudgetEvent ==
  ASSUME AuthorityTypeOK, AuthorityTypeOK', NEW t \in Token, Budget(t), NEW e,
         Revocations(t)' \subseteq Revocations(t) \union {e},
         \/ /\ MayAppend(t)' \subseteq MayAppend(t) /\ faults' = faults + 1
         \/ /\ \E w \in MayAppend(t) : MayAppend(t)' \subseteq MayAppend(t) \ {w}
            /\ faults' = faults
  PROVE  Budget(t)'
<1>1. /\ Cardinality(MayAppend(t)) \in Nat /\ IsFiniteSet(MayAppend(t))
      /\ Cardinality(Workers) \in Nat
  BY MayAppendSet, EstateAssumption, FS_CardinalityType
<1>2. Cardinality(Revocations(t)) \in Nat /\ faults \in Nat
  BY FS_CardinalityType DEF Budget, AuthorityTypeOK
<1>3. /\ IsFiniteSet(Revocations(t)') /\ Cardinality(Revocations(t)') \in Nat
      /\ Cardinality(Revocations(t)') <= Cardinality(Revocations(t)) + 1
  <2> DEFINE more == Revocations(t) \union {e}
  <2>1. /\ IsFiniteSet(more) /\ Cardinality(more) \in Nat
        /\ Cardinality(more) <= Cardinality(Revocations(t)) + 1
    BY <1>2, FS_AddElement DEF Budget
  <2>2. Revocations(t)' \subseteq more
    OBVIOUS
  <2> HIDE DEF more
  <2>3. IsFiniteSet(Revocations(t)') /\ Cardinality(Revocations(t)') <= Cardinality(more)
    BY <2>1, <2>2, FS_Subset
  <2>4. Cardinality(Revocations(t)') \in Nat
    BY <2>3, FS_CardinalityType
  <2> QED BY <1>2, <2>1, <2>3, <2>4
<1>4. CASE MayAppend(t)' \subseteq MayAppend(t) /\ faults' = faults + 1
  BY <1>1, <1>4, FS_Subset, FS_CardinalityType, <1>2, <1>3 DEF Budget
<1>5. ASSUME NEW w \in MayAppend(t), MayAppend(t)' \subseteq MayAppend(t) \ {w},
             faults' = faults
      PROVE  Budget(t)'
  <2> DEFINE less == MayAppend(t) \ {w}
  <2>1. IsFiniteSet(less) /\ Cardinality(less) = Cardinality(MayAppend(t)) - 1
    BY <1>1, FS_RemoveElement
  <2>2. MayAppend(t)' \subseteq less
    BY <1>5
  <2> HIDE DEF less
  <2>3. Cardinality(MayAppend(t)') \in Nat /\ Cardinality(MayAppend(t)') <= Cardinality(less)
    BY <2>1, <2>2, FS_Subset, FS_CardinalityType
  <2> QED BY <1>1, <1>2, <1>3, <1>5, <2>1, <2>3 DEF Budget
<1> QED BY <1>4, <1>5

\* A crash gives one worker its turn again, and costs a fault.
LEMMA BudgetCrash ==
  ASSUME AuthorityTypeOK, AuthorityTypeOK', NEW t \in Token, Budget(t), NEW w,
         Revocations(t)' = Revocations(t), MayAppend(t)' \subseteq MayAppend(t) \union {w},
         faults' = faults + 1
  PROVE  Budget(t)'
<1>1. /\ Cardinality(MayAppend(t)) \in Nat /\ IsFiniteSet(MayAppend(t))
      /\ Cardinality(Workers) \in Nat
  BY MayAppendSet, EstateAssumption, FS_CardinalityType
<1>2. Cardinality(Revocations(t)) \in Nat /\ faults \in Nat
  BY FS_CardinalityType DEF Budget, AuthorityTypeOK
<1> DEFINE more == MayAppend(t) \union {w}
<1>3. /\ IsFiniteSet(more) /\ Cardinality(more) \in Nat
      /\ Cardinality(more) <= Cardinality(MayAppend(t)) + 1
  <2>1. /\ IsFiniteSet(more)
        /\ Cardinality(more) = IF w \in MayAppend(t) THEN Cardinality(MayAppend(t))
                               ELSE Cardinality(MayAppend(t)) + 1
    BY <1>1, FS_AddElement
  <2> HIDE DEF more
  <2> QED BY <1>1, <2>1
<1>4. MayAppend(t)' \subseteq more
  OBVIOUS
<1> HIDE DEF more
<1>5. Cardinality(MayAppend(t)') \in Nat /\ Cardinality(MayAppend(t)') <= Cardinality(more)
  BY <1>3, <1>4, FS_Subset, FS_CardinalityType
<1> QED BY <1>1, <1>2, <1>3, <1>5 DEF Budget

\* Faults are only ever counted up.
LEMMA FaultsGrow ==
  ASSUME AuthorityTypeOK, NEW r \in Req, Start(r) \/ Step(r)
  PROVE  faults <= faults'
<1> DEFINE Grow == faults' \in {faults, faults + 1}
<1> SUFFICES Grow
  BY DEF AuthorityTypeOK
<1>1. /\ \A e : Appended(e) \/ AppendFails(e) => Grow
      /\ \A svc, e : Note(svc, e) => Grow
      /\ Fault => Grow
      /\ faults' = faults => Grow
  BY DEF Note, Appended, AppendFails, Fault
<1> HIDE DEF Grow
<1>2. CASE Start(r)
  BY <1>1, <1>2 DEF Start
<1>3. CASE OperatorStep(r)
  BY <1>1, <1>3 DEF OperatorStep, PatchReturn, PatchTimeout, Edit, Attest, AttestNote
<1>4. CASE KillSwitchStep(r)
  <2>1. Unreachable(r) => Grow
    BY <1>1 DEF Unreachable
  <2>2. \A restored : DrillEnd(r, restored) => Grow
    BY <1>1 DEF DrillEnd
  <2> QED BY <1>1, <1>4, <2>1, <2>2 DEF KillSwitchStep, KillRead, KillSignal, KillNote,
             DomainList, DomainNext, ReviveRead, ReviveNote, DrillRead, DrillConfirm, DrillBeat,
             DrillRestore, DrillVerify, DrillFailed, DrillReport
<1>5. CASE DelegationStep(r)
  BY <1>1, <1>5 DEF DelegationStep, MintRead, MintLedger, MintSave, RevokeRead, RevokeLock,
                    RevokeLedger, RevokeSave
<1>6. CASE LifecycleStep(r)
  BY <1>1, <1>6 DEF LifecycleStep, DecommissionRead, DecommissionList, DecommissionRevoke,
                    DecommissionRetire, DecommissionNote, Unreachable
<1>7. CASE SentinelStep(r)
  BY <1>1, <1>7 DEF SentinelStep, CheckAgent, CheckToken, CheckAllow, Refuse
<1> QED BY <1>2, <1>3, <1>4, <1>5, <1>6, <1>7 DEF Step

\* The events of a token are among those that are counted.
LEMMA RevocationsParts == \A t : Revocations(t) = {e \in RevokeEvents : e.about = t}
BY DEF Revocations, RevokeEvents

\* Of RevokeInv all but the count.
Locked ==
  /\ \A r \in Req : LockHeld(r)
  /\ \A w \in Workers, t \in Token : Holder(w, t)
OneId == \A e \in RevokeEvents : e.detail = e.about

\* The invariant by its parts, for steps that disturb one of them.
LEMMA RevokeParts == RevokeInv <=> Locked /\ OneId /\ \A t \in Token : Budget(t)
BY DEF RevokeInv, Locked, OneId, Budget, RevokeEvents

\* The same after a step.
LEMMA RevokePartsLater ==
  Locked' /\ OneId' /\ (\A t \in Token : Budget(t))' => RevokeInv'
BY DEF RevokeInv, Locked, OneId, Budget, RevokeEvents

\* Away from the lock nothing of it changes.
LEMMA RevokeOutside ==
  ASSUME AuthorityTypeOK, AuthorityTypeOK', LedgerFirst, StopInv, RevokeInv,
         NEW r \in Req, Start(r) \/ Step(r), ~ RevokeStepOf(r)
  PROVE  RevokeInv'
<1>1. /\ held' = held /\ rq[r].pc \notin Locking /\ rq'[r].pc \notin Locking
      /\ \A t \in Token : Revoked(t)' <=> Revoked(t)
  BY OutsideLock DEF Revoked
<1>2. \A s \in Req \ {r} : rq'[s] = rq[s]
  BY OthersKept
<1>3. Locked /\ OneId /\ \A t \in Token : Budget(t)
  BY RevokeParts
<1>4. RevokeEvents' = RevokeEvents
  BY StepAdds DEF SameCounts, RevokeStepOf
<1>5. \A w \in Workers, t \in Token :
        held[w][t] # "none" => held[w][t] \in Req /\ held[w][t] # r
                               /\ rq'[held[w][t]] = rq[held[w][t]]
  BY <1>1, <1>2, <1>3 DEF Locked, Holder, AuthorityTypeOK, Null
<1>6. LockHeld(r)'
  <2>1. CASE Start(r)
    <3>1. PICK op \in Asks[r], a \in Agents :
            \E t \in IF op \in {"revoke", "check"} THEN Token ELSE {"none"},
               w \in IF op \in {"mint", "revoke", "decommission"} THEN Workers ELSE {"none"} :
              Become(r, [Idle EXCEPT !.op = op, !.pc = op, !.a = a, !.t = t, !.w = w,
                                     !.seen = IF op = "check" THEN Succeeded ELSE {}])
      BY <2>1 DEF Start
    <3>2. rq'[r].op = op /\ (op \in {"revoke", "decommission"} => rq'[r].w \in Workers)
      BY <3>1 DEF Become, AuthorityTypeOK, Idle
    <3> QED BY <1>1, <3>2 DEF LockHeld
  <2>2. CASE Step(r)
    BY <2>2, StepMoves, StepsOfOpen, <1>1, <1>3 DEF StopInv, Sound, Kept, Still, Sent, Answered, Moved,
      Locked, LockHeld
  <2> QED BY <2>1, <2>2
<1>7. \A s \in Req \ {r} : LockHeld(s)'
  BY <1>1, <1>2, <1>3 DEF Locked, LockHeld
<1>8. \A w \in Workers, t \in Token : Holder(w, t)'
  BY <1>1, <1>3, <1>5 DEF Locked, Holder
<1>9. ASSUME NEW t \in Token
      PROVE  Budget(t)'
  <2>1. Revocations(t)' = Revocations(t)
    BY <1>4, RevocationsParts DEF Revocations, RevokeEvents
  <2>2. MayAppend(t)' \subseteq MayAppend(t)
    BY <1>1, <1>5 DEF MayAppend
  <2>3. faults <= faults'
    BY FaultsGrow
  <2> QED BY <1>3, <2>1, <2>2, <2>3, BudgetSame
<1>10. OneId'
  BY <1>3, <1>4 DEF OneId
<1>11. Locked' /\ OneId' /\ (\A t \in Token : Budget(t))'
  BY <1>6, <1>7, <1>8, <1>9, <1>10 DEF Locked
<1> QED BY <1>11, RevokePartsLater

\* Who waits for a lock and takes it may add an event, as its process might before.
LEMMA RevokeLocks ==
  ASSUME AuthorityTypeOK, AuthorityTypeOK', LedgerFirst, StopInv, RevokeInv,
         NEW r \in Req, Step(r), RevokeLock(r)
  PROVE  RevokeInv'
<1> DEFINE w == rq[r].w
           t == rq[r].t
<1>1. /\ rq[r] \in Frame /\ t \in Token /\ w \in Workers /\ rq[r].back \notin Locking
      /\ Resumed(rq[r], rq[r].back, TRUE).pc = rq[r].back
  BY RevokeFrame DEF RevokeStepOf
<1>2. \A s \in Req \ {r} : rq'[s] = rq[s]
  BY OthersKept
<1>3. Locked /\ OneId /\ \A u \in Token : Budget(u)
  BY RevokeParts
<1>4. /\ rq[r].pc = "revoke_lock" /\ held[w][t] = "none" /\ ledger' = ledger
      /\ token' = token /\ faults' = faults
  BY DEF RevokeLock
<1>5. \A v \in Workers, u \in Token :
        held[v][u] # "none" => held[v][u] \in Req /\ held[v][u] # r
                               /\ rq'[held[v][u]] = rq[held[v][u]]
  BY <1>2, <1>3, <1>4 DEF Locked, Holder, AuthorityTypeOK, Null, Locking
<1>6. rq'[r].op = rq[r].op /\ (rq'[r].pc # "done" => rq'[r].w = rq[r].w)
  BY StepMoves DEF StopInv, Sound, Kept, Still, Sent, Answered, Moved
<1>7. /\ OneId'
      /\ \A u \in Token : Revocations(u)' = Revocations(u)
  BY <1>3, <1>4 DEF OneId, RevokeEvents, Revocations
<1>8. CASE Return(r, TRUE) /\ UNCHANGED held
  <2>1. rq'[r].pc \notin Locking
    BY <1>1, <1>8 DEF Return, Returned, Become, AuthorityTypeOK
  <2>2. \A s \in Req : LockHeld(s)'
    BY <1>3, <1>4, <1>6, <2>1, <1>2, <1>8 DEF Locked, LockHeld
  <2>3. \A v \in Workers, u \in Token : Holder(v, u)'
    BY <1>3, <1>5, <1>8 DEF Locked, Holder
  <2>4. \A u \in Token : MayAppend(u)' \subseteq MayAppend(u)
    BY <1>4, <1>5, <1>8 DEF MayAppend, Revoked
  <2>5. \A u \in Token : Budget(u)'
    <3>1. faults <= faults'
      BY <1>4 DEF AuthorityTypeOK
    <3> QED BY <1>3, <1>7, <2>4, <3>1, BudgetSame
  <2>6. Locked' /\ OneId' /\ (\A u \in Token : Budget(u))'
    BY <1>7, <2>2, <2>3, <2>5 DEF Locked
  <2> QED BY <2>6, RevokePartsLater
<1>9. CASE /\ token[rq[r].t].st # "revoked" /\ Goto(r, "revoke_ledger")
           /\ held' = [held EXCEPT ![rq[r].w][rq[r].t] = r]
  <2>1. /\ rq'[r].pc = "revoke_ledger" /\ rq'[r].w = w /\ rq'[r].t = t
    BY <1>1, <1>9 DEF Goto, Become, AuthorityTypeOK, Frame
  <2>2. \A v \in Workers, u \in Token : held'[v][u] = IF v = w /\ u = t THEN r ELSE held[v][u]
    <3>1. held' = [held EXCEPT ![w][t] = r]
      BY <1>9
    <3> HIDE DEF w, t
    <3> QED BY <1>1, <3>1 DEF AuthorityTypeOK
  <2> HIDE DEF w, t
  <2>3. r # "none"
    BY EstateAssumption
  <2>4. ASSUME NEW s \in Req
        PROVE  LockHeld(s)'
    <3>1. CASE s = r
      BY <1>1, <1>3, <1>4, <1>6, <2>1, <2>2, <3>1 DEF Locked, LockHeld
    <3>2. CASE s # r
      <4>1. LockHeld(s) /\ rq'[s] = rq[s]
        BY <1>2, <1>3, <3>2 DEF Locked
      <4>2. rq[s].pc \in Locking => rq[s].w \in Workers /\ rq[s].t \in Token
        BY <4>1 DEF Locking, Revoking, InRevoke, LedgerFirst, Ordered, StopInv, Sound, OwnLabels, LockHeld
      <4>3. rq[s].pc \in Locking => held[rq[s].w][rq[s].t] = s /\ s # "none"
        BY <4>1, EstateAssumption DEF LockHeld
      <4>4. rq[s].pc \in Locking => held'[rq[s].w][rq[s].t] = s
        BY <1>4, <2>2, <4>2, <4>3
      <4> QED BY <4>1, <4>4 DEF LockHeld
    <3> QED BY <3>1, <3>2
  <2>5. \A v \in Workers, u \in Token : Holder(v, u)'
    BY <1>3, <1>5, <2>1, <2>2 DEF Locked, Holder, Locking
  <2>6. \A u \in Token : MayAppend(u)' \subseteq MayAppend(u)
    <3>1. token[t].st # "revoked"
      BY <1>9 DEF t
    <3> QED BY <1>4, <1>5, <2>1, <2>2, <2>3, <3>1 DEF MayAppend, Revoked
  <2>7. \A u \in Token : Budget(u)'
    <3>1. faults <= faults'
      BY <1>4 DEF AuthorityTypeOK
    <3> QED BY <1>3, <1>7, <2>6, <3>1, BudgetSame
  <2>8. Locked' /\ OneId' /\ (\A u \in Token : Budget(u))'
    BY <1>7, <2>4, <2>5, <2>7 DEF Locked
  <2> QED BY <2>8, RevokePartsLater
<1> QED BY <1>8, <1>9 DEF RevokeLock

\* Whom the step of the lock's holder leaves alone: every other lock and its holder.
LEMMA OtherLocks ==
  ASSUME AuthorityTypeOK, LedgerFirst, StopInv, Locked, NEW r \in Req, rq[r].pc \in Locking,
         \A s \in Req \ {r} : rq'[s] = rq[s],
         NEW w, w = rq[r].w, NEW t, t = rq[r].t,
         NEW x \in {r, "none"},
         \A v \in Workers, u \in Token :
           held'[v][u] = IF v = w /\ u = t THEN x ELSE held[v][u],
         x = "none" => rq'[r].pc \notin Locking,
         x = r => rq'[r].pc \in Locking /\ rq'[r].w = w /\ rq'[r].t = t,
         rq'[r].op = rq[r].op, rq'[r].pc # "done" => rq'[r].w = rq[r].w
  PROVE  /\ Locked'
         /\ w \in Workers /\ t \in Token /\ held[w][t] = r /\ held'[w][t] = x
         /\ \A v \in Workers, u \in Token : v # w \/ u # t =>
              /\ held'[v][u] = held[v][u]
              /\ held[v][u] # "none" => rq'[held[v][u]] = rq[held[v][u]]
<1>1. ASSUME NEW s \in Req, rq[s].pc \in Locking
      PROVE  /\ rq[s].w \in Workers /\ rq[s].t \in Token
             /\ held[rq[s].w][rq[s].t] = s /\ s # "none"
  BY <1>1, EstateAssumption DEF Locking, Revoking, InRevoke, Locked, LedgerFirst, StopInv, Sound, LockHeld,
    Ordered, OwnLabels
<1>2. w \in Workers /\ t \in Token /\ held[w][t] = r /\ r # "none"
  BY <1>1
<1>3. \A v \in Workers, u \in Token :
        held'[v][u] = IF v = w /\ u = t THEN x ELSE held[v][u]
  OBVIOUS
<1>4. ASSUME NEW v \in Workers, NEW u \in Token, v # w \/ u # t, held[v][u] # "none"
      PROVE  held[v][u] \in Req \ {r}
  BY <1>4 DEF AuthorityTypeOK, Null, Locked, Holder
<1>5. \A v \in Workers, u \in Token : Holder(v, u)'
  <2> SUFFICES ASSUME NEW v \in Workers, NEW u \in Token
               PROVE  Holder(v, u)'
    OBVIOUS
  <2>1. CASE v = w /\ u = t
    BY <1>2, <1>3, <2>1 DEF Holder
  <2>2. CASE v # w \/ u # t
    BY <1>3, <2>2, <1>4 DEF Locked, Holder
  <2> QED BY <2>1, <2>2
<1>6. \A s \in Req : LockHeld(s)'
  <2> SUFFICES ASSUME NEW s \in Req
               PROVE  LockHeld(s)'
    OBVIOUS
  <2>1. CASE s = r
    BY <1>2, <1>3, <2>1 DEF Locked, Locking, LockHeld
  <2>2. CASE s # r
    BY <2>2, <1>1, <1>2, <1>3 DEF Locked, LockHeld
  <2> QED BY <2>1, <2>2
<1> QED BY <1>2, <1>3, <1>4, <1>5, <1>6 DEF Locked

\* The ledger's answer to the holder: one event more of its token, and its process
\* adds no other; or perhaps one more, and one fault.
LEMMA RevokeAppends ==
  ASSUME AuthorityTypeOK, AuthorityTypeOK', LedgerFirst, StopInv, RevokeInv,
         NEW r \in Req, Step(r), RevokeLedger(r),
         NEW w, w = rq[r].w, NEW t, t = rq[r].t, NEW e, e = RevokeEvent(r)
  PROVE  RevokeInv'
<1>1. /\ rq[r] \in Frame /\ t \in Token /\ w \in Workers /\ rq[r].back \notin Locking
      /\ Resumed(rq[r], rq[r].back, FALSE).pc = rq[r].back
  BY RevokeFrame DEF RevokeStepOf
<1>2. /\ \A s \in Req \ {r} : rq'[s] = rq[s]
      /\ rq'[r].op = rq[r].op /\ (rq'[r].pc # "done" => rq'[r].w = rq[r].w)
  BY OthersKept, StepMoves DEF StopInv, Sound, Kept, Still, Sent, Answered, Moved
<1>3. Locked /\ OneId /\ \A u \in Token : Budget(u)
  BY RevokeParts
<1>4. rq[r].pc = "revoke_ledger" /\ rq[r].pc \in Locking /\ token' = token
  BY DEF RevokeLedger, Locking
<1>5. e.type = "delegation.revoke" /\ e.about = t /\ e.detail = t
  BY DEF RevokeEvent, RevocationId, Event
<1>6. ledger' \in {ledger, ledger \union {e}}
  BY DEF RevokeLedger, Appended, AppendFails
<1>7. held[w][t] = r
  BY <1>1, <1>3, <1>4 DEF Locked, LockHeld
<1>8. OneId'
  BY <1>3, <1>5, <1>6 DEF OneId, RevokeEvents
<1>9. /\ Revocations(t)' \subseteq Revocations(t) \union {e}
      /\ \A u \in Token \ {t} : Revocations(u)' = Revocations(u)
  BY <1>5, <1>6 DEF Revocations
<1>10. faults <= faults'
  BY FaultsGrow
<1>11. r # "none" /\ held \in [Workers -> [Token -> Null(Req)]]
  BY EstateAssumption DEF AuthorityTypeOK
<1>12. CASE Goto(r, "revoke_save") /\ UNCHANGED <<held, faults>>
  <2>1. rq'[r].pc = "revoke_save" /\ rq'[r].w = w /\ rq'[r].t = t
    BY <1>1, <1>11, <1>12 DEF Goto, Become, AuthorityTypeOK, Frame
  <2>2. \A v \in Workers, u \in Token :
          held'[v][u] = IF v = w /\ u = t THEN r ELSE held[v][u]
    BY <1>7, <1>12
  <2>3. /\ Locked' /\ held'[w][t] = r
        /\ \A v \in Workers, u \in Token : v # w \/ u # t =>
             /\ held'[v][u] = held[v][u]
             /\ held[v][u] # "none" => rq'[held[v][u]] = rq[held[v][u]]
    BY <2>1, <1>2, <1>3, <1>4, <1>11, <2>2, OtherLocks DEF Locking
  <2>4. \A u \in Token \ {t} : MayAppend(u)' \subseteq MayAppend(u)
    BY <1>4, <2>3 DEF MayAppend, Revoked
  <2>5. w \in MayAppend(t) /\ MayAppend(t)' \subseteq MayAppend(t) \ {w}
    BY <1>1, <1>4, <1>7, <1>11, <2>1, <2>3 DEF MayAppend, Revoked
  <2>6. \A u \in Token : Budget(u)'
    <3>1. Budget(t)'
      BY <1>1, <1>3, <1>9, <1>12, <2>5, BudgetEvent
    <3>2. \A u \in Token \ {t} : Budget(u)'
      BY <1>3, <1>9, <1>10, <2>4, BudgetSame
    <3> QED BY <3>1, <3>2
  <2> QED BY <1>8, <2>3, <2>6, RevokePartsLater
<1>13. CASE Return(r, FALSE) /\ Free(r) /\ faults' = faults + 1
  <2>1. rq'[r].pc \notin Locking
    BY <1>1, <1>13 DEF Return, Returned, Become, AuthorityTypeOK
  <2>2. \A v \in Workers, u \in Token :
          held'[v][u] = IF v = w /\ u = t THEN "none" ELSE held[v][u]
    BY <1>1, <1>11, <1>13 DEF Free
  <2>3. /\ Locked' /\ held'[w][t] = "none"
        /\ \A v \in Workers, u \in Token : v # w \/ u # t =>
             /\ held'[v][u] = held[v][u]
             /\ held[v][u] # "none" => rq'[held[v][u]] = rq[held[v][u]]
    BY <1>2, <1>3, <1>4, <1>11, <2>1, <2>2, OtherLocks
  <2>4. \A u \in Token \ {t} : MayAppend(u)' \subseteq MayAppend(u)
    BY <1>4, <2>3 DEF MayAppend, Revoked
  <2>5. w \in MayAppend(t) /\ MayAppend(t)' \subseteq MayAppend(t)
    BY <1>1, <1>4, <1>7, <1>11, <2>3 DEF MayAppend, Revoked
  <2>6. \A u \in Token : Budget(u)'
    <3>1. Budget(t)'
      BY <1>1, <1>3, <1>9, <1>13, <2>5, BudgetEvent
    <3>2. \A u \in Token \ {t} : Budget(u)'
      BY <1>3, <1>9, <1>10, <2>4, BudgetSame
    <3> QED BY <3>1, <3>2
  <2> QED BY <1>8, <2>3, <2>6, RevokePartsLater
<1> QED BY <1>12, <1>13 DEF RevokeLedger, Appended, AppendFails, Fault

\* The store of the revoked token and the return: the process adds no event any more.
LEMMA RevokeSaves ==
  ASSUME AuthorityTypeOK, AuthorityTypeOK', LedgerFirst, StopInv, RevokeInv,
         NEW r \in Req, Step(r), RevokeSave(r),
         NEW w, w = rq[r].w, NEW t, t = rq[r].t
  PROVE  RevokeInv'
<1>1. /\ rq[r] \in Frame /\ t \in Token /\ w \in Workers /\ rq[r].back \notin Locking
      /\ Resumed(rq[r], rq[r].back, TRUE).pc = rq[r].back
  BY RevokeFrame DEF RevokeStepOf
<1>2. /\ \A s \in Req \ {r} : rq'[s] = rq[s]
      /\ rq'[r].op = rq[r].op /\ (rq'[r].pc # "done" => rq'[r].w = rq[r].w)
  BY OthersKept, StepMoves DEF StopInv, Sound, Kept, Still, Sent, Answered, Moved
<1>3. Locked /\ OneId /\ \A u \in Token : Budget(u)
  BY RevokeParts
<1>4. rq[r].pc = "revoke_save" /\ rq[r].pc \in Locking /\ ledger' = ledger /\ faults' = faults
  BY DEF RevokeSave, Locking
<1>5. held[w][t] = r /\ held \in [Workers -> [Token -> Null(Req)]] /\ r # "none"
  BY <1>1, <1>3, <1>4, EstateAssumption DEF Locked, LockHeld, AuthorityTypeOK
<1>6. token'[t].st = "revoked" /\ \A u \in Token \ {t} : token'[u] = token[u]
  <2>1. CASE token[t].st = "revoked"
    BY <2>1 DEF RevokeSave
  <2>2. CASE token[t].st # "revoked"
    BY <2>2, <1>1 DEF RevokeSave, AuthorityTypeOK, StoredToken
  <2> QED BY <2>1, <2>2
<1>7. rq'[r].pc \notin Locking
  BY <1>1 DEF RevokeSave, Return, Returned, Become, AuthorityTypeOK
<1>8. \A v \in Workers, u \in Token :
        held'[v][u] = IF v = w /\ u = t THEN "none" ELSE held[v][u]
  BY <1>1, <1>5 DEF RevokeSave, Free
<1>9. /\ Locked' /\ held'[w][t] = "none"
      /\ \A v \in Workers, u \in Token : v # w \/ u # t =>
           /\ held'[v][u] = held[v][u]
           /\ held[v][u] # "none" => rq'[held[v][u]] = rq[held[v][u]]
  BY <1>2, <1>3, <1>4, <1>5, <1>7, <1>8, OtherLocks
<1>10. /\ OneId'
       /\ \A u \in Token : Revocations(u)' = Revocations(u)
  BY <1>3, <1>4 DEF OneId, RevokeEvents, Revocations
<1>11. \A u \in Token \ {t} : MayAppend(u)' \subseteq MayAppend(u)
  BY <1>6, <1>9 DEF MayAppend, Revoked
<1>12. MayAppend(t)' \subseteq MayAppend(t)
  BY <1>1, <1>6, <1>9 DEF MayAppend, Revoked
<1>13. \A u \in Token : Budget(u)'
  <2>1. faults <= faults'
    BY <1>4 DEF AuthorityTypeOK
  <2> QED BY <1>3, <1>10, <1>11, <1>12, <2>1, BudgetSame
<1> QED BY <1>9, <1>10, <1>13, RevokePartsLater

\* A killed process lets go of its locks, and may do it all again: one fault.
LEMMA RevokeCrash ==
  ASSUME AuthorityTypeOK, AuthorityTypeOK', LedgerFirst, StopInv, RevokeInv,
         NEW w \in Workers, DelegationCrash(w)
  PROVE  RevokeInv'
<1>1. Locked /\ OneId /\ \A u \in Token : Budget(u)
  BY RevokeParts
<1>2. ledger' = ledger /\ token' = token /\ faults' = faults + 1
  BY DEF DelegationCrash, Fault
<1>3. \A s \in Req : rq'[s] = IF Serves(w, s) THEN Returned(rq[s], FALSE) ELSE rq[s]
  BY DEF DelegationCrash
<1>4. \A v \in Workers, u \in Token :
        held'[v][u] = IF v = w THEN "none" ELSE held[v][u]
  BY DEF AuthorityTypeOK, DelegationCrash
<1>5. ASSUME NEW s \in Req, Serves(w, s)
      PROVE  /\ rq'[s].pc \notin Locking /\ rq'[s].op = rq[s].op
             /\ rq'[s].pc # "done" => rq'[s].w = rq[s].w /\ rq[s].pc # "done"
  <2>1. rq[s].pc \notin {"idle", "done"}
    BY <1>5 DEF Serves, InDelegation
  <2>2. rq[s] \in Frame /\ rq[s].back \in Resumes
    BY <2>1, MadeFrame DEF LedgerFirst, Ordered
  <2> DEFINE f == Resumed(rq[s], rq[s].back, FALSE)
  <2>3. f.pc = rq[s].back /\ f.op = rq[s].op /\ (rq[s].back # "done" => f.w = rq[s].w)
    BY <2>2 DEF Resumed, Idle, Frame
  <2>4. rq'[s] = f
    BY <1>3, <1>5 DEF Returned
  <2> HIDE DEF f
  <2> QED BY <2>1, <2>2, <2>3, <2>4 DEF Resumes, Locking
<1>6. ASSUME NEW v \in Workers, v # w, NEW u \in Token, held[v][u] # "none"
      PROVE  rq'[held[v][u]] = rq[held[v][u]]
  <2>1. held[v][u] \in Req /\ Holder(v, u)
    BY <1>1, <1>6 DEF Locked, AuthorityTypeOK, Null
  <2>2. ~ Serves(w, held[v][u])
    BY <1>6, <2>1 DEF Holder, Serves
  <2> QED BY <1>3, <2>1, <2>2
<1>7. \A v \in Workers, u \in Token : Holder(v, u)'
  BY <1>1, <1>4, <1>6 DEF Locked, Holder
<1>8. ASSUME NEW s \in Req
      PROVE  LockHeld(s)'
  <2>1. LockHeld(s)
    BY <1>1 DEF Locked
  <2>2. CASE Serves(w, s)
    BY <1>5, <2>1, <2>2 DEF LockHeld
  <2>3. CASE ~ Serves(w, s)
    <3>1. rq'[s] = rq[s]
      BY <1>3, <2>3
    <3>2. ASSUME rq[s].pc \in Locking
          PROVE  held'[rq[s].w][rq[s].t] = s
      <4>1. rq[s].pc \in Revoking /\ rq[s].pc \in InRevoke /\ rq[s].pc \in InDelegation
            /\ rq[s].pc # "done"
        BY <3>2 DEF Locking, Revoking, InRevoke, InDelegation
      <4>2. rq[s].w \in Workers /\ rq[s].t \in Token /\ rq[s].w # w
        BY <2>1, <2>3, <4>1 DEF LockHeld, LedgerFirst, Ordered, StopInv, Sound, OwnLabels, Serves
      <4> QED BY <1>4, <2>1, <3>2, <4>2 DEF LockHeld
    <3> QED BY <2>1, <3>1, <3>2 DEF LockHeld
  <2> QED BY <2>2, <2>3
<1>9. /\ OneId'
      /\ \A u \in Token : Revocations(u)' = Revocations(u)
  BY <1>1, <1>2 DEF OneId, RevokeEvents, Revocations
<1>10. \A u \in Token : MayAppend(u)' \subseteq MayAppend(u) \union {w}
  BY <1>2, <1>4, <1>6 DEF MayAppend, Revoked
<1>11. \A u \in Token : Budget(u)'
  BY <1>1, <1>2, <1>9, <1>10, BudgetCrash
<1>12. Locked'
  BY <1>7, <1>8 DEF Locked
<1> QED BY <1>9, <1>11, <1>12, RevokePartsLater

\* No token is revoked at first.
LEMMA RevokeInit == Init => RevokeInv
<1> SUFFICES ASSUME Init
             PROVE  RevokeInv
  OBVIOUS
<1>1. \A r \in Req : rq[r] = Idle
  BY DEF Init, InitRegistry
<1>2. \A w \in Workers, t \in Token : held[w][t] = "none"
  BY DEF Init, InitDelegation
<1>3. \A e \in ledger : e.type = "delegation.mint"
  <2>1. ledger = {Event("delegation.mint", a, a, "none") : a \in Agents}
    BY DEF Init, InitDelegation
  <2> QED BY <2>1, EventType
<1>4. Locked
  BY <1>1, <1>2 DEF Idle, Locked, LockHeld, Holder, Locking
<1>5. OneId
  BY <1>3 DEF OneId, RevokeEvents
<1>6. ASSUME NEW t \in Token
      PROVE  Budget(t)
  BY <1>3, EstateAssumption, FS_Subset, FS_CardinalityType, FS_EmptySet DEF Revocations, MayAppend, Init,
    InitRegistry, Budget
<1> QED BY <1>4, <1>5, <1>6, RevokeParts

\* Each step keeps the lock, the one id and the budget of events.
LEMMA RevokeNext ==
  ASSUME AuthorityTypeOK, AuthorityTypeOK', LedgerFirst, StopInv, RevokeInv, [Next]_avars
  PROVE  RevokeInv'
<1>1. CASE UNCHANGED avars
  BY <1>1 DEF avars, rvars, dvars, RevokeInv, LockHeld, Holder, MayAppend, Revoked, Revocations
<1>2. ASSUME NEW r \in Req, Start(r) \/ Step(r)
      PROVE  RevokeInv'
  <2>1. CASE ~ RevokeStepOf(r)
    BY <1>2, <2>1, RevokeOutside
  <2>2. CASE RevokeStepOf(r)
    BY <2>2, <1>2, RevokeLocks, RevokeAppends, RevokeSaves DEF Start, RevokeStepOf, RevokeLock, RevokeLedger,
      RevokeSave
  <2> QED BY <2>1, <2>2
<1>3. CASE ServePatch
  <2>1. PICK p \in patch : RegistryStep(p) /\ UNCHANGED dvars
    BY <1>3 DEF ServePatch
  <2>2. rq' = rq /\ token' = token /\ held' = held
    BY <2>1 DEF RegistryStep, PatchGuard, PatchWrite, PatchNote, dvars
  <2>3. RevokeEvents' = RevokeEvents /\ faults <= faults'
    <3>1. CASE ledger' = ledger /\ faults' = faults
      BY <3>1 DEF RevokeEvents, AuthorityTypeOK
    <3>2. CASE PatchNote(p)
      <4>1. PICK e : Note("registry", e) /\ e.type # "delegation.revoke"
        <5> DEFINE e == IF Changed(p) THEN StatusChange(p)
                        ELSE Event("registry.updated", p.a, <<p.by, p.n>>, "none")
        <5>1. e.type # "delegation.revoke"
          BY EventType DEF StatusChange
        <5>2. Note("registry", e)
          BY <3>2 DEF PatchNote
        <5> HIDE DEF e
        <5> QED BY <5>1, <5>2
      <4>2. ledger' \in {ledger, ledger \union {e}} /\ faults' \in {faults, faults + 1}
        BY <4>1 DEF Note, Appended, AppendFails, Fault
      <4> QED BY <4>1, <4>2 DEF RevokeEvents, AuthorityTypeOK
    <3> QED BY <2>1, <3>1, <3>2 DEF RegistryStep, PatchGuard, PatchWrite
  <2>4. Locked /\ OneId /\ \A t \in Token : Budget(t)
    BY RevokeParts
  <2>5. Locked' /\ OneId'
    BY <2>2, <2>3, <2>4 DEF Locked, OneId, LockHeld, Holder
  <2>6. \A t \in Token : Revocations(t)' = Revocations(t) /\ MayAppend(t)' \subseteq MayAppend(t)
    BY <2>3, RevocationsParts, <2>2 DEF Revocations, RevokeEvents, MayAppend, Revoked
  <2>7. \A t \in Token : Budget(t)'
    BY <2>3, <2>4, <2>6, BudgetSame
  <2> QED BY <2>5, <2>7, RevokePartsLater
<1>4. ASSUME NEW w \in Workers, DelegationCrash(w)
      PROVE  RevokeInv'
  BY <1>4, RevokeCrash
<1> QED BY <1>1, <1>2, <1>3, <1>4 DEF Next

\* Who writes a revoke event holds its process's lock for the token, and each process
\* may add one event, and one more per fault (RevokeInv).
THEOREM RevokesAlwaysLocked == Spec => []RevokeInv
<1>1. AuthorityTypeOK /\ AuthorityTypeOK' /\ LedgerFirst /\ StopInv /\ RevokeInv
        /\ [Next]_avars => RevokeInv'
  BY RevokeNext
<1> QED BY <1>1, RevokeInit, AuthorityTypeCorrect, AlwaysLedgerFirst, StopsAlwaysSound, PTL
        DEF Spec

\* All revoke events of a token carry one id, and there are no more of them than
\* processes and faults, for any number of retries (RevokedOnce).
THEOREM RevokesOnce == Spec => []RevokedOnce
<1>1. AuthorityTypeOK /\ RevokeInv => RevokedOnce
  <2> SUFFICES ASSUME AuthorityTypeOK, RevokeInv, NEW t \in Token
               PROVE  /\ \A e, f \in Revocations(t) : e.detail = f.detail
                      /\ Cardinality(Revocations(t)) <= Cardinality(Workers) + faults
    BY DEF RevokedOnce
  <2>1. \A e \in Revocations(t) : e.detail = t
    BY DEF RevokeInv, Revocations
  <2>2. /\ Cardinality(MayAppend(t)) \in Nat /\ Cardinality(Workers) \in Nat
        /\ Cardinality(Revocations(t)) \in Nat /\ faults \in Nat
    BY MayAppendSet, EstateAssumption, FS_CardinalityType DEF RevokeInv, AuthorityTypeOK
  <2>3. Cardinality(Revocations(t)) + Cardinality(MayAppend(t)) <= Cardinality(Workers) + faults
    BY DEF RevokeInv
  <2> QED BY <2>1, <2>2, <2>3
<1> QED BY <1>1, AuthorityTypeCorrect, RevokesAlwaysLocked, PTL
=============================================================================
