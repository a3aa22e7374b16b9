------------------------------ MODULE Delegation ------------------------------
(***************************************************************************)
(* services/delegation-authority: mint and revoke, both ledger-first and   *)
(* fail-closed.  A revoke runs under a lock per token that is local to the *)
(* process serving it; there may be several.  The token minted by request  *)
(* r is called r; the token called a is one agent a has from the start.    *)
(***************************************************************************)
EXTENDS Registry

VARIABLES
  token,   \* the token store
  held     \* held[w][t]: the request that holds w's lock for t

dvars == <<token, held>>

Token == Agents \union Req

NoToken == [agent |-> "none", st |-> "none", rid |-> "none"]

InitDelegation ==
  /\ token = [t \in Token |-> IF t \in Agents THEN [NoToken EXCEPT !.agent = t, !.st = "active"]
                              ELSE NoToken]
  /\ held = [w \in Workers |-> [t \in Token |-> "none"]]
  /\ ledger = {Event("delegation.mint", a, a, "none") : a \in Agents}

Free(r) == held' = [held EXCEPT ![rq[r].w][rq[r].t] = "none"]

\* Faulty variant: every attempt makes an id of its own.
FreshRevocationId(r, t) == r
\* stable_revocation_id: a function of the token's id alone.
RevocationId(r, t) == t

MintEvent(r) == Event("delegation.mint", r, r, "none")
RevokeEvent(r) == Event("delegation.revoke", rq[r].t, r, RevocationId(r, rq[r].t))

-----------------------------------------------------------------------------
\* mint up to the ledger call: the agent must be active; expiry, roster, scope
\* and manifest may refuse as well.
MintRead(r) ==
  /\ rq[r].pc = "mint"
  /\ \/ Fault /\ Return(r, FALSE)
     \/ Return(r, FALSE) /\ UNCHANGED faults
     \/ reg[rq[r].a].status = "active" /\ Goto(r, "mint_ledger") /\ UNCHANGED faults
  /\ UNCHANGED <<reg, patch, ledger, gaps, dvars>>

\* Faulty variant: the token is handed out whether or not the ledger took it.
MintLedgerFailOpen(r) ==
  /\ rq[r].pc = "mint_ledger"
  /\ Appended(MintEvent(r)) \/ AppendFails(MintEvent(r))
  /\ Goto(r, "mint_save")
  /\ UNCHANGED <<reg, patch, gaps, dvars>>

MintLedger(r) ==
  /\ rq[r].pc = "mint_ledger"
  /\ \/ Appended(MintEvent(r)) /\ Goto(r, "mint_save")
     \/ AppendFails(MintEvent(r)) /\ Return(r, FALSE)
  /\ UNCHANGED <<reg, patch, gaps, dvars>>

MintSave(r) ==
  /\ rq[r].pc = "mint_save"
  /\ token' = [token EXCEPT ![r] = [agent |-> rq[r].a, st |-> "active", rid |-> "none"]]
  /\ Return(r, TRUE)
  /\ UNCHANGED <<reg, patch, ledger, gaps, faults, held>>

-----------------------------------------------------------------------------
\* revoke: 404 for an unknown token.
RevokeRead(r) ==
  /\ rq[r].pc = "revoke"
  /\ IF token[rq[r].t].st = "none" THEN Return(r, FALSE) ELSE Goto(r, "revoke_lock")
  /\ UNCHANGED <<reg, patch, ledger, gaps, faults, dvars>>

\* Faulty variant: the early return keeps the lock.
RevokeLockKept(r) ==
  LET q == rq[r]
  IN /\ q.pc = "revoke_lock" /\ held[q.w][q.t] = "none"
     /\ held' = [held EXCEPT ![q.w][q.t] = r]
     /\ IF token[q.t].st = "revoked" THEN Return(r, TRUE) ELSE Goto(r, "revoke_ledger")
     /\ UNCHANGED <<reg, patch, ledger, gaps, faults, token>>

\* Faulty variant: the token is not read again under the lock.
RevokeLockBlind(r) ==
  LET q == rq[r]
  IN /\ q.pc = "revoke_lock" /\ held[q.w][q.t] = "none"
     /\ held' = [held EXCEPT ![q.w][q.t] = r]
     /\ Goto(r, "revoke_ledger")
     /\ UNCHANGED <<reg, patch, ledger, gaps, faults, token>>

\* revoke_locks.hold(token_id), and the re-read under it: a token revoked by now
\* is returned as it is, with no second event.
RevokeLock(r) ==
  LET q == rq[r]
  IN /\ q.pc = "revoke_lock" /\ held[q.w][q.t] = "none"
     /\ \/ /\ token[q.t].st = "revoked"
           /\ Return(r, TRUE) /\ UNCHANGED held
        \/ /\ token[q.t].st # "revoked"
           /\ held' = [held EXCEPT ![q.w][q.t] = r]
           /\ Goto(r, "revoke_ledger")
     /\ UNCHANGED <<reg, patch, ledger, gaps, faults, token>>

\* Faulty variant: a revoke the ledger did not take is answered like a success.
RevokeLedgerSwallowed(r) ==
  /\ rq[r].pc = "revoke_ledger"
  /\ \/ Appended(RevokeEvent(r)) /\ Goto(r, "revoke_save") /\ UNCHANGED held
     \/ AppendFails(RevokeEvent(r)) /\ Return(r, TRUE) /\ Free(r)
  /\ UNCHANGED <<reg, patch, gaps, token>>

\* Faulty variant: the event is sent, its outcome not looked at.
RevokeLedgerFailOpen(r) ==
  /\ rq[r].pc = "revoke_ledger"
  /\ Appended(RevokeEvent(r)) \/ AppendFails(RevokeEvent(r))
  /\ Goto(r, "revoke_save")
  /\ UNCHANGED <<reg, patch, gaps, dvars>>

RevokeLedger(r) ==
  /\ rq[r].pc = "revoke_ledger"
  /\ \/ Appended(RevokeEvent(r)) /\ Goto(r, "revoke_save") /\ UNCHANGED held
     \/ AppendFails(RevokeEvent(r)) /\ Return(r, FALSE) /\ Free(r)
  /\ UNCHANGED <<reg, patch, gaps, token>>

\* save_revoked: only a row that is not revoked yet is written.
RevokeSave(r) ==
  LET t == rq[r].t
  IN /\ rq[r].pc = "revoke_save"
     /\ token' = IF token[t].st = "revoked" THEN token
                 ELSE [token EXCEPT ![t].st = "revoked", ![t].rid = RevocationId(r, t)]
     /\ Return(r, TRUE) /\ Free(r)
     /\ UNCHANGED <<reg, patch, ledger, gaps, faults>>

-----------------------------------------------------------------------------
\* A process of the authority is killed: what it was doing fails for its callers,
\* its locks are gone, its store is on disk.
InDelegation == {"mint", "mint_ledger", "mint_save", "revoke", "revoke_lock",
                 "revoke_ledger", "revoke_save"}
Serves(w, r) == rq[r].w = w /\ rq[r].pc \in InDelegation

DelegationCrash(w) ==
  /\ Fault
  /\ \E r \in Req : Serves(w, r)
  /\ rq' = [r \in Req |-> IF Serves(w, r) THEN Returned(rq[r], FALSE) ELSE rq[r]]
  /\ held' = [held EXCEPT ![w] = [t \in Token |-> "none"]]
  /\ UNCHANGED <<reg, patch, ledger, gaps, token>>

DelegationStep(r) ==
  \/ MintRead(r) \/ MintLedger(r) \/ MintSave(r)
  \/ RevokeRead(r) \/ RevokeLock(r) \/ RevokeLedger(r) \/ RevokeSave(r)
=============================================================================
