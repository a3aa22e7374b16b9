------------------------------- MODULE Authority -------------------------------
(***************************************************************************)
(* The authority of an agent across the services: the registry says        *)
(* whether it is active, the delegation authority what it may do, the      *)
(* sentinel decides every action, the kill-switch and the lifecycle        *)
(* manager stop it.  Requests of all kinds overlap; calls between services *)
(* fail, time out and land late; the ledger answers or does not.           *)
(***************************************************************************)
EXTENDS KillSwitch, Delegation

-----------------------------------------------------------------------------
(***************************************************************************)
(* services/lifecycle-manager: decommission.  Every listed token is        *)
(* revoked at the delegation authority, an active agent is killed through  *)
(* the kill-switch, the registry is told to retire it, and the ledger      *)
(* gets a record; a failed step is reported and the run goes on.           *)
(***************************************************************************)
Decommissioned(r, noop) == Event("lifecycle.decommissioned", rq[r].a, r, noop)

\* An agent already retired is a recorded no-op.
DecommissionRead(r) ==
  /\ rq[r].pc = "decommission"
  /\ \/ Unreachable(r)
     \/ /\ StatusOf(r) = "retired"
        /\ Appended(Decommissioned(r, TRUE)) \/ AppendFails(Decommissioned(r, TRUE))
        /\ Return(r, TRUE)
     \/ /\ StatusOf(r) # "retired"
        /\ Become(r, [rq[r] EXCEPT !.pc = "dec_list", !.prev = StatusOf(r)])
        /\ UNCHANGED <<ledger, faults>>
  /\ UNCHANGED <<reg, patch, gaps, dvars>>

\* The tokens of the agent that are not revoked; seen keeps them for the report.
\* An outage is reported and the run goes on; an error answer, which is no list,
\* ends it here.
DecommissionList(r) ==
  LET mine == {t \in Token : token[t].agent = rq[r].a /\ token[t].st = "active"}
  IN /\ rq[r].pc = "dec_list"
     /\ \/ /\ Fault
           /\ Become(r, Resumed(rq[r], "dec_revoke", FALSE)) \/ Return(r, FALSE)
        \/ /\ Become(r, [rq[r] EXCEPT !.pc = "dec_revoke", !.todo = mine, !.seen = mine])
           /\ UNCHANGED faults
     /\ UNCHANGED <<reg, patch, ledger, gaps, dvars>>

\* Faulty variant: a revoke that failed is forgotten.
DecommissionRevokeForgiving(r) ==
  LET q == rq[r]
  IN /\ rq[r].pc = "dec_revoke"
     /\ IF q.todo = {} THEN Become(r, IF q.prev = "active"
                                      THEN [q EXCEPT !.pc = "kill", !.back = "dec_retire"]
                                      ELSE [q EXCEPT !.pc = "dec_retire", !.ret = TRUE])
        ELSE \E t \in q.todo : Become(r, [q EXCEPT !.pc = "revoke", !.back = "dec_revoke",
                                                   !.t = t, !.todo = @ \ {t}])
     /\ UNCHANGED <<reg, patch, ledger, gaps, faults, dvars>>

\* One token after the other, whatever became of the one before; then the kill,
\* of an agent that was active when the run began.
DecommissionRevoke(r) ==
  LET q == [rq[r] EXCEPT !.ok = rq[r].ok /\ rq[r].ret]
  IN /\ rq[r].pc = "dec_revoke"
     /\ IF q.todo = {} THEN Become(r, IF q.prev = "active"
                                      THEN [q EXCEPT !.pc = "kill", !.back = "dec_retire"]
                                      ELSE [q EXCEPT !.pc = "dec_retire", !.ret = TRUE])
        ELSE \E t \in q.todo : Become(r, [q EXCEPT !.pc = "revoke", !.back = "dec_revoke",
                                                   !.t = t, !.todo = @ \ {t}])
     /\ UNCHANGED <<reg, patch, ledger, gaps, faults, dvars>>

DecommissionRetire(r) ==
  /\ rq[r].pc = "dec_retire"
  /\ SendPatch(r, [rq[r] EXCEPT !.ok = rq[r].ok /\ rq[r].ret], rq[r].a, "retired",
               "dec_note", "dec_note")
  /\ UNCHANGED <<reg, ledger, gaps, faults, dvars>>

DecommissionNote(r) ==
  /\ rq[r].pc = "dec_note"
  /\ \/ /\ Appended(Decommissioned(r, FALSE))
        /\ Become(r, Resumed(rq[r], "done", rq[r].ok /\ rq[r].ret))
     \/ /\ AppendFails(Decommissioned(r, FALSE))
        /\ Become(r, Resumed(rq[r], "done", FALSE))
  /\ UNCHANGED <<reg, patch, gaps, dvars>>

LifecycleStep(r) ==
  \/ DecommissionRead(r) \/ DecommissionList(r) \/ DecommissionRevoke(r)
  \/ DecommissionRetire(r) \/ DecommissionNote(r)

-----------------------------------------------------------------------------
(***************************************************************************)
(* services/conformance-sentinel in ENFORCE mode: check decides one action *)
(* of one agent under one token.  It reads the registry, then introspects  *)
(* the token, then the rest (scope, irreversibility, triggers, spend) may  *)
(* still block or escalate; an allow counts only once it is in the ledger. *)
(***************************************************************************)
Allow(r) == Event("conformance.allow", rq[r].a, r, rq[r].t)

\* BLOCK or ESCALATE: its record is best-effort, and its loss is not counted.
Refused(r) == Event("conformance.refused", rq[r].a, r, rq[r].t)
Refuse(r) ==
  /\ Appended(Refused(r)) \/ AppendFails(Refused(r))
  /\ Return(r, FALSE)
  /\ UNCHANGED gaps

\* Faulty variant: the token alone decides.
CheckAgentBlind(r) ==
  /\ rq[r].pc = "check"
  /\ Goto(r, "check_token")
  /\ UNCHANGED <<reg, patch, ledger, gaps, faults, dvars>>

\* Steps 1 and 2 of _decide: the ledger and the registry answer, the agent is active.
CheckAgent(r) ==
  /\ rq[r].pc = "check"
  /\ \/ AppendFails(Refused(r)) /\ Return(r, FALSE) /\ UNCHANGED gaps
     \/ reg[rq[r].a].status # "active" /\ Refuse(r)
     \/ /\ reg[rq[r].a].status = "active" /\ Goto(r, "check_token")
        /\ UNCHANGED <<ledger, gaps, faults>>
  /\ UNCHANGED <<reg, patch, dvars>>

\* Steps 3 to 8: introspect the token, then every other clause.
TokenLive(r) == token[rq[r].t].st = "active" /\ token[rq[r].t].agent = rq[r].a
CheckToken(r) ==
  /\ rq[r].pc = "check_token"
  /\ \/ Refuse(r)
     \/ TokenLive(r) /\ Goto(r, "check_allow") /\ UNCHANGED <<ledger, gaps, faults>>
  /\ UNCHANGED <<reg, patch, dvars>>

\* _verdict: an allow whose record fails becomes BLOCK L.unreachable.
CheckAllow(r) ==
  /\ rq[r].pc = "check_allow"
  /\ \/ Appended(Allow(r)) /\ Return(r, TRUE)
     \/ AppendFails(Allow(r)) /\ Return(r, FALSE)
  /\ UNCHANGED <<reg, patch, gaps, dvars>>

SentinelStep(r) == CheckAgent(r) \/ CheckToken(r) \/ CheckAllow(r)

-----------------------------------------------------------------------------
(* Who asks, and what the services do with it.                              *)

CONSTANT Asks   \* Asks[r]: the operations request r may be

Operations == {"kill", "domain", "revive", "drill", "mint", "revoke", "decommission",
               "check", "edit", "attest"}

ASSUME AsksAssumption == Asks \in [Req -> SUBSET Operations]

avars == <<rvars, dvars>>

Init == InitRegistry /\ InitDelegation

\* Somebody makes request r.  A check keeps who had been answered 200 by then.
Succeeded == {d \in Req : rq[d].pc = "done" /\ rq[d].ret}
Start(r) ==
  /\ rq[r].pc = "idle"
  /\ \E op \in Asks[r], a \in Agents :
       \E t \in IF op \in {"revoke", "check"} THEN Token ELSE {"none"},
          w \in IF op \in {"mint", "revoke", "decommission"} THEN Workers ELSE {"none"} :
         Become(r, [Idle EXCEPT !.op = op, !.pc = op, !.a = a, !.t = t, !.w = w,
                                !.seen = IF op = "check" THEN Succeeded ELSE {}])
  /\ UNCHANGED <<reg, patch, ledger, gaps, faults, dvars>>

\* The next step of a request that has been made.
Step(r) ==
  \/ (OperatorStep(r) \/ KillSwitchStep(r)) /\ UNCHANGED dvars
  \/ DelegationStep(r) \/ LifecycleStep(r) \/ SentinelStep(r)
ServePatch == \E p \in patch : RegistryStep(p) /\ UNCHANGED dvars

Next ==
  \/ \E r \in Req : Start(r) \/ Step(r)
  \/ ServePatch
  \/ \E w \in Workers : DelegationCrash(w)

Spec == Init /\ [][Next]_avars

\* Every service goes on with what it was asked: each request has a thread of its
\* own, and the registry's workers serve every PATCH that arrived.
Fairness == (\A r \in Req : WF_avars(Step(r))) /\ WF_avars(ServePatch)
FairSpec == Spec /\ Fairness

-----------------------------------------------------------------------------
(* Correctness.                                                             *)

Null(S) == S \union {"none"}
Label == {"wait", "done", "edit", "attest", "attested", "kill", "kill_signal", "kill_note",
          "domain", "domain_next", "revive", "revive_note", "drill", "drill_confirm", "drill_beat",
          "drill_restore", "drill_verify", "drill_failed", "drill_report", "decommission",
          "dec_list", "dec_revoke", "dec_retire", "dec_note", "check", "check_token",
          "check_allow"} \union InDelegation
Record == [status : Status, record : Null(Req), attested : Null(Req)]
Patch == [by : Req, n : Nat, a : Agents, to : Status \union {"edit"},
          st : {"guard", "write", "note", "ok", "refused"}, from : Null(Status),
          wait : BOOLEAN]
Frame == [op : Operations, pc : Label, a : Agents, t : Null(Token), w : Null(Workers),
          prev : Status, todo : SUBSET Token, left : SUBSET Agents, ok : BOOLEAN,
          ret : BOOLEAN, back : Label, then : Label, orelse : Label, n : Nat, seen : SUBSET Token]
StoredToken == [agent : Null(Agents), st : {"none", "active", "revoked"}, rid : Null(Token)]

\* Every variable keeps its type; a request that was made is about an agent.
AuthorityTypeOK ==
  /\ reg \in [Agents -> Record]
  /\ patch \subseteq Patch
  /\ rq \in [Req -> {Idle} \union Frame]
  /\ token \in [Token -> StoredToken]
  /\ held \in [Workers -> [Token -> Null(Req)]]
  /\ gaps \in [Services -> Nat]
  /\ faults \in Nat

\* A retired agent's record never changes again: no status, no frozen column, no
\* attestation, whatever the callers had read before (update_with_previous and
\* attest check in the transaction that writes).
RetiredFrozen ==
  [][\A a \in Agents : reg[a].status = "retired" => reg'[a] = reg[a]]_avars

\* With no lost note and none still to come, the ledger's status changes of an
\* agent lead from active to its status now: as many end in a status as leave it,
\* so each was taken from the row it really replaced.
Changes(a, i, s) ==
  {e \in ledger : e.type = "registry.status_changed" /\ e.about = a /\ e.detail[i] = s}
One(b) == IF b THEN 1 ELSE 0
StatusTrail ==
  \A a \in Agents, s \in Status :
    gaps["registry"] = 0 /\ (\A p \in patch : p.a = a => p.st # "note") =>
      Cardinality(Changes(a, 2, s)) + One(s = "active") =
        Cardinality(Changes(a, 1, s)) + One(reg[a].status = s)

\* No authority exists that the ledger does not know of: every stored token has
\* its mint event, every revoked one an event with the revocation id it stores,
\* every allow its record.
TokensLedgered ==
  /\ \A t \in Token : token[t].st # "none" => Event("delegation.mint", t, t, "none") \in ledger
  /\ \A t \in Token : token[t].st = "revoked" =>
       \E e \in ledger : /\ e.type = "delegation.revoke"
                         /\ e.about = t /\ e.detail = token[t].rid
AllowLedgered(r) ==
  rq[r].op = "check" /\ rq[r].pc = "done" /\ rq[r].ret => Allow(r) \in ledger
AuthorityLedgered == TokensLedgered /\ \A r \in Req : AllowLedgered(r)

\* The order that makes it so: who is about to store a token has its mint event in
\* the ledger, who is about to store a revocation has that of a stored token, and
\* a check is left only through the ledger's answer.
Resumes == {"done", "domain_next", "dec_revoke", "dec_retire", "dec_note", "kill_signal",
            "revive_note", "drill_confirm", "drill_restore", "drill_verify", "drill_failed"}
Revoking == {"revoke_lock", "revoke_ledger", "revoke_save"}
Checking == {"check", "check_token", "check_allow", "done"}
Ordered(r) ==
  /\ {rq[r].back, rq[r].then, rq[r].orelse} \subseteq Resumes
  /\ rq[r].op = "check" => rq[r].pc \in Checking /\ rq[r].back = "done"
  /\ rq[r].pc \in Checking \ {"done"} => rq[r].op = "check"
  /\ rq[r].pc = "mint_save" => MintEvent(r) \in ledger
  /\ rq[r].pc = "revoke" => rq[r].t \in Token
  /\ rq[r].pc \in Revoking => rq[r].t \in Token /\ token[rq[r].t].st # "none"
  /\ rq[r].pc = "revoke_save" => RevokeEvent(r) \in ledger
LedgerFirst == AuthorityLedgered /\ \A r \in Req : Ordered(r)

\* All revoke events of a token carry one id, over retries, crashes and processes,
\* and without a fault each process writes at most one.
Revocations(t) == {e \in ledger : e.type = "delegation.revoke" /\ e.about = t}
RevokedOnce ==
  \A t \in Token :
    /\ \A e, f \in Revocations(t) : e.detail = f.detail
    /\ Cardinality(Revocations(t)) <= Cardinality(Workers) + faults

\* A check that begins after a decommission of the agent, or a revoke of the token,
\* was answered with success is never allowed, whoever else is at work on them.
StopsAreFinal ==
  \A r \in Req, d \in Req :
    rq[r].op = "check" /\ rq[r].pc = "done" /\ rq[r].ret /\ d \in rq[r].seen =>
      /\ rq[d].op = "decommission" => rq[d].a # rq[r].a
      /\ rq[d].op = "revoke" => rq[d].t # rq[r].t

\* A decommission that reports ok left nothing behind: the agent is retired and
\* stays it, and every token it listed is revoked.
DecommissionComplete ==
  \A r \in Req :
    rq[r].op = "decommission" /\ rq[r].pc = "done" /\ rq[r].ret =>
      reg[rq[r].a].status = "retired" /\ \A t \in rq[r].seen : token[t].st = "revoked"

\* A stop that was reported holds: the ledger's trail of an agent leads to its
\* status, a decommission that said ok is complete, and no check that began after
\* it, or after a revoke, allows.
StopsHold == StatusTrail /\ DecommissionComplete /\ StopsAreFinal

\* A check that begins after a kill of the agent was answered with success is not
\* allowed, unless somebody asked for a revive.
KillHeeded ==
  \A r \in Req, d \in Req :
    rq[r].op = "check" /\ rq[r].pc = "done" /\ rq[r].ret /\ d \in rq[r].seen
      /\ rq[d].op = "kill" /\ rq[d].a = rq[r].a =>
        \E v \in Req : rq[v].op = "revive" /\ rq[v].a = rq[r].a

\* Every request is answered: no lock is left behind, no handler waits for ever.
RequestsFinish == \A r \in Req : rq[r].pc # "idle" ~> rq[r].pc = "done"

-----------------------------------------------------------------------------
(* The inductive invariants behind the stops.                               *)

Retired(a) == reg[a].status = "retired"
Revoked(t) == token[t].st = "revoked"
InRevoke == {"revoke"} \union Revoking
InKill == {"kill", "kill_signal", "kill_note"}
Minting == {"idle", "mint", "mint_ledger", "mint_save"}

\* A PATCH has a number of its own among those of its request, somebody waits only
\* for the last one, and a retirement was written before it is answered.
PatchIds ==
  /\ \A p, q \in patch : p.by = q.by /\ p.n = q.n => p = q
  /\ \A p \in patch : rq[p.by].pc # "done" => p.n <= rq[p.by].n
PatchSound(p) ==
  /\ p.wait => rq[p.by].pc = "wait" /\ p.n = rq[p.by].n
  /\ p.wait /\ rq[p.by].then = "dec_note" => p.to = "retired" /\ p.a = rq[p.by].a
  /\ p.to = "retired" /\ p.st \in {"note", "ok"} => Retired(p.a)
PatchInv == PatchIds /\ \A p \in patch : PatchSound(p)

\* A token is stored once, by the mint that made its id.
MintedOnce(r) == rq[r].pc \in Minting => token[r].st = "none"

\* Only a decommission is at its labels or comes back to them, and only it and a
\* revoke are in the revoke handler.
InDecommission == {"decommission", "dec_list", "dec_revoke", "dec_retire", "dec_note"}
Mine(q, l) == l \in InDecommission => q.op = "decommission"
OwnLabels(q) ==
  /\ Mine(q, q.pc) /\ Mine(q, q.back) /\ Mine(q, q.then) /\ Mine(q, q.orelse)
  /\ q.pc \in InRevoke => q.op \in {"revoke", "decommission"}

\* A decommission calls revoke and kill and comes back to its own loop; what it
\* listed is revoked, still to do, or spoils its report.
DecommissionLabels ==
  InDecommission \union InRevoke \union InKill \union {"wait", "done"}
Reaches(q) ==
  /\ q.pc \in DecommissionLabels
  /\ q.pc \in {"decommission", "dec_list"} => q.back = "done" /\ q.seen = {}
  /\ q.pc \in InRevoke => q.back = "dec_revoke"
  /\ q.pc \in InKill => q.back = "dec_retire"
  /\ q.pc = "wait" => \/ q.then = "dec_note" /\ q.orelse = "dec_note"
                      \/ q.then = "kill_signal" /\ q.orelse = "dec_retire" /\ q.back = "dec_retire"
  /\ q.pc \in InKill \union {"wait", "dec_retire", "dec_note"} => q.todo = {}
Excused(q, t) ==
  \/ t \in q.todo \/ ~ q.ok
  \/ q.pc \in InRevoke /\ q.t = t
  \/ q.pc = "dec_revoke" /\ ~ q.ret
DecommissionSound(r) ==
  rq[r].op = "decommission" =>
    /\ Reaches(rq[r])
    /\ rq[r].pc \in {"dec_note", "done"} /\ rq[r].ret => Retired(rq[r].a)
    /\ \A t \in rq[r].seen : \/ Revoked(t)
                             \/ rq[r].pc = "done" /\ ~ rq[r].ret
                             \/ rq[r].pc # "done" /\ Excused(rq[r], t)

\* A revoke is answered with success only once the token is revoked.
RevokeSound(r) ==
  rq[r].op = "revoke" =>
    /\ rq[r].pc \in InRevoke \union {"done"} /\ rq[r].back = "done" /\ rq[r].t \in Token
    /\ rq[r].pc = "done" /\ rq[r].ret => Revoked(rq[r].t)

\* A check past the registry is of an agent no earlier answer had retired, past the
\* introspection of a token none had revoked.
PastAgent(q) == q.pc \in {"check_token", "check_allow"} \/ (q.pc = "done" /\ q.ret)
PastToken(q) == q.pc = "check_allow" \/ (q.pc = "done" /\ q.ret)
CheckSound(r) ==
  rq[r].op = "check" =>
    /\ rq[r].seen \subseteq Succeeded
    /\ \A d \in rq[r].seen :
         /\ rq[d].op = "decommission" /\ PastAgent(rq[r]) => rq[d].a # rq[r].a
         /\ rq[d].op = "revoke" /\ PastToken(rq[r]) => rq[d].t # rq[r].t
Sound(r) ==
  OwnLabels(rq[r]) /\ MintedOnce(r) /\ DecommissionSound(r) /\ RevokeSound(r) /\ CheckSound(r)
StopInv == PatchInv /\ \A r \in Req : Sound(r)

\* The trail counts the notes still to come as well; the change a PATCH may still
\* make is not in it.
Trailed ==
  {e \in ledger : e.type = "registry.status_changed"}
    \union {StatusChange(p) : p \in {p \in patch : p.st = "note" /\ Changed(p)}}
Turns(a, i, s) == {e \in Trailed : e.about = a /\ e.detail[i] = s}
TrailFresh ==
  /\ \A e \in Trailed, p \in patch : p.st \in {"guard", "write"} => e.by # <<p.by, p.n>>
  /\ \A e \in Trailed :
       /\ e.by \in Req \X Nat
       /\ rq[e.by[1]].pc # "done" => e.by[2] <= rq[e.by[1]].n
TrailBalanced ==
  gaps["registry"] = 0 =>
    \A a \in Agents, s \in Status :
      Cardinality(Turns(a, 2, s)) + One(s = "active") =
        Cardinality(Turns(a, 1, s)) + One(reg[a].status = s)
TrailInv == IsFiniteSet(Trailed) /\ TrailFresh /\ TrailBalanced

\* Who is between the ledger and the store of a revoke holds its process's lock,
\* and each process may add one event to a token, and one more per fault.
Locking == {"revoke_ledger", "revoke_save"}
LockHeld(r) ==
  /\ rq[r].op \in {"revoke", "decommission"} /\ rq[r].pc # "done" => rq[r].w \in Workers
  /\ rq[r].pc \in Locking => held[rq[r].w][rq[r].t] = r
Holder(w, t) ==
  held[w][t] # "none" =>
    rq[held[w][t]].pc \in Locking /\ rq[held[w][t]].w = w /\ rq[held[w][t]].t = t
MayAppend(t) ==
  {w \in Workers : IF held[w][t] = "none" THEN ~ Revoked(t)
                   ELSE rq[held[w][t]].pc = "revoke_ledger"}
RevokeInv ==
  /\ \A r \in Req : LockHeld(r)
  /\ \A w \in Workers, t \in Token : Holder(w, t)
  /\ \A e \in ledger : e.type = "delegation.revoke" => e.detail = e.about
  /\ \A t \in Token :
       /\ IsFiniteSet(Revocations(t))
       /\ Cardinality(Revocations(t)) + Cardinality(MayAppend(t)) <= Cardinality(Workers) + faults
=============================================================================
