------------------------------ MODULE KillSwitch ------------------------------
(***************************************************************************)
(* services/kill-switch: kill, domain kill, revive and drill.  Each reads  *)
(* the agent's record, decides, and sends a PATCH to the registry: what it *)
(* read may be stale by then.  The signal to the agent's own endpoint is a *)
(* call to code outside the platform; of it only the ledger note remains.  *)
(***************************************************************************)
EXTENDS Registry

StatusOf(r) == reg[rq[r].a].status

\* registry.get_agent or list_agents fails: the handler answers an error.
Unreachable(r) == Fault /\ Return(r, FALSE) /\ UNCHANGED <<reg, patch, ledger, gaps>>

-----------------------------------------------------------------------------
\* _kill_one: read, refuse a retired agent, flip one that is not killed yet.
KillRead(r) ==
  /\ rq[r].pc = "kill"
  /\ \/ Unreachable(r)
     \/ /\ CASE StatusOf(r) = "retired" -> Return(r, FALSE) /\ UNCHANGED patch
             [] StatusOf(r) = "killed" -> Goto(r, "kill_signal") /\ UNCHANGED patch
             [] OTHER -> SendPatch(r, rq[r], rq[r].a, "killed", "kill_signal", rq[r].back)
        /\ UNCHANGED <<reg, ledger, gaps, faults>>

\* _signal_and_ledger: the signal's outcome is noted, then the kill itself.
KillSignal(r) ==
  /\ rq[r].pc = "kill_signal"
  /\ Note("killswitch", Event("kill.endpoint", rq[r].a, r, "none"))
  /\ Goto(r, "kill_note")
  /\ UNCHANGED <<reg, patch>>
KillNote(r) ==
  /\ rq[r].pc = "kill_note"
  /\ Note("killswitch", Event("kill.agent", rq[r].a, r, "none"))
  /\ Return(r, TRUE)
  /\ UNCHANGED <<reg, patch>>

-----------------------------------------------------------------------------
\* kill_domain: the agents listed as not retired, one after the other; an error
\* of one is recorded and the loop goes on.
DomainList(r) ==
  /\ rq[r].pc = "domain"
  /\ \/ Unreachable(r)
     \/ /\ LET live == {a \in Agents : reg[a].status # "retired"}
           IN Become(r, [rq[r] EXCEPT !.pc = "domain_next", !.left = live,
                                      !.ok = live = {}, !.ret = FALSE])
        /\ UNCHANGED <<reg, patch, ledger, gaps, faults>>

\* 200 if one attempt succeeded or none was made, else 502.
DomainNext(r) ==
  LET q == [rq[r] EXCEPT !.ok = rq[r].ok \/ rq[r].ret]
  IN /\ rq[r].pc = "domain_next"
     /\ \/ /\ q.left = {}
           /\ Note("killswitch", Event("kill.domain", "none", r, "none"))
           /\ Become(r, Resumed(q, "done", q.ok))
        \/ /\ \E a \in q.left :
                Become(r, [q EXCEPT !.pc = "kill", !.back = "domain_next", !.a = a,
                                    !.left = @ \ {a}])
           /\ UNCHANGED <<ledger, gaps, faults>>
     /\ UNCHANGED <<reg, patch>>

-----------------------------------------------------------------------------
ReviveRead(r) ==
  /\ rq[r].pc = "revive"
  /\ \/ Unreachable(r)
     \/ /\ IF StatusOf(r) = "retired" THEN Return(r, FALSE) /\ UNCHANGED patch
           ELSE SendPatch(r, rq[r], rq[r].a, "active", "revive_note", "done")
        /\ UNCHANGED <<reg, ledger, gaps, faults>>
ReviveNote(r) ==
  /\ rq[r].pc = "revive_note"
  /\ Note("killswitch", Event("kill.revive", rq[r].a, r, "none"))
  /\ Return(r, TRUE)
  /\ UNCHANGED <<reg, patch>>

-----------------------------------------------------------------------------
\* drill: a real kill, seen to propagate, and a restore of the status that was
\* read first.  ok stays TRUE while no exception was raised in the try block.
DrillRead(r) ==
  /\ rq[r].pc = "drill"
  /\ \/ Unreachable(r)
     \/ /\ StatusOf(r) = "retired"
        /\ Return(r, FALSE)
        /\ UNCHANGED <<reg, patch, ledger, gaps, faults>>
     \/ /\ StatusOf(r) # "retired"
        /\ Note("killswitch", Event("kill.drill.start", rq[r].a, r, "none"))
        /\ SendPatch(r, [rq[r] EXCEPT !.prev = StatusOf(r)], rq[r].a, "killed",
                     "drill_confirm", "drill_restore")
        /\ UNCHANGED reg

\* Reads until the record says killed: up to 100 times, then 500.
DrillConfirm(r) ==
  /\ rq[r].pc = "drill_confirm"
  /\ \/ Fault /\ Become(r, Resumed(rq[r], "drill_restore", FALSE))
     \/ /\ Become(r, IF StatusOf(r) = "killed" THEN [rq[r] EXCEPT !.pc = "drill_beat"]
                     ELSE Resumed(rq[r], "drill_restore", FALSE))
        /\ UNCHANGED faults
  /\ UNCHANGED <<reg, patch, ledger, gaps>>

\* The heartbeat must answer killed; then the endpoint signal and its note.
DrillBeat(r) ==
  /\ rq[r].pc = "drill_beat"
  /\ \/ /\ Fault /\ Become(r, Resumed(rq[r], "drill_restore", FALSE))
        /\ UNCHANGED <<ledger, gaps>>
     \/ /\ StatusOf(r) = "active"
        /\ Become(r, Resumed(rq[r], "drill_restore", FALSE))
        /\ UNCHANGED <<ledger, gaps, faults>>
     \/ /\ StatusOf(r) # "active"
        /\ Note("killswitch", Event("kill.endpoint", rq[r].a, r, "none"))
        /\ Goto(r, "drill_restore")
  /\ UNCHANGED <<reg, patch>>

\* finally: the status that was read first is written back.
DrillRestore(r) ==
  /\ rq[r].pc = "drill_restore"
  /\ SendPatch(r, [rq[r] EXCEPT !.ok = rq[r].ret], rq[r].a, rq[r].prev,
               "drill_verify", "drill_failed")
  /\ UNCHANGED <<reg, ledger, gaps, faults>>

\* After the restore: 200 only if it can be read back and nothing was raised.
DrillEnd(r, restored) ==
  /\ IF rq[r].ok THEN Note("killswitch", Event("kill.drill.complete", rq[r].a, r, restored))
     ELSE UNCHANGED <<ledger, gaps, faults>>
  /\ Become(r, Resumed(rq[r], "done", rq[r].ok /\ restored))
DrillVerify(r) ==
  /\ rq[r].pc = "drill_verify"
  /\ \/ DrillEnd(r, StatusOf(r) = rq[r].prev)
     \/ Fault /\ Goto(r, "drill_failed") /\ UNCHANGED <<ledger, gaps>>
  /\ UNCHANGED <<reg, patch>>
DrillFailed(r) ==
  /\ rq[r].pc = "drill_failed"
  /\ Note("killswitch", Event("kill.drill.restore_failed", rq[r].a, r, rq[r].prev))
  /\ Goto(r, "drill_report")
  /\ UNCHANGED <<reg, patch>>
DrillReport(r) ==
  /\ rq[r].pc = "drill_report"
  /\ DrillEnd(r, FALSE)
  /\ UNCHANGED <<reg, patch>>

KillSwitchStep(r) ==
  \/ KillRead(r) \/ KillSignal(r) \/ KillNote(r) \/ DomainList(r) \/ DomainNext(r)
  \/ ReviveRead(r) \/ ReviveNote(r)
  \/ DrillRead(r) \/ DrillConfirm(r) \/ DrillBeat(r) \/ DrillRestore(r)
  \/ DrillVerify(r) \/ DrillFailed(r) \/ DrillReport(r)
=============================================================================
