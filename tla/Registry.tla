------------------------------- MODULE Registry -------------------------------
(***************************************************************************)
(* services/agent-registry: the identity record of every agent, and the    *)
(* PATCH route through which the kill-switch, the lifecycle manager and    *)
(* operators change its status.  A PATCH is three steps at the registry:   *)
(* the route's own read, one atomic read-check-write in the store, and a   *)
(* best-effort ledger note.  The caller waits for it at most 5 s: it may   *)
(* give up while the PATCH is still under way.                             *)
(*                                                                         *)
(* Every HTTP request somebody makes is a slot of Req, with one frame:     *)
(* the handler it is in (pc), the handler to go back to (back), and what   *)
(* to do once the PATCH it waits for is answered (then, orelse).           *)
(* The sealed ledger is the set of events it accepted; LedgerStore shows   *)
(* that it loses none of them.                                             *)
(***************************************************************************)
EXTENDS Naturals, FiniteSets

CONSTANTS
  Agents,     \* registered agents
  Req,        \* requests that may be made
  Workers,    \* processes serving the delegation authority
  MaxFaults   \* bound: failed calls and crashed processes

ASSUME EstateAssumption ==
  /\ Agents \cap Req = {}
  /\ "none" \notin Agents \union Req \union Workers
  /\ IsFiniteSet(Workers)
  /\ MaxFaults \in Nat

VARIABLES
  reg,      \* the registry's table: agent -> record
  patch,    \* PATCH calls the registry is working on or has answered
  rq,       \* the frame of each request
  ledger,   \* events in the sealed ledger
  gaps,     \* ledger_appends_dropped, ledger_note_failures: lost notes, per service
  faults

rvars == <<reg, patch, rq, ledger, gaps, faults>>

Status == {"active", "killed", "retired"}
Services == {"registry", "killswitch"}

Event(type, about, by, detail) == [type |-> type, about |-> about, by |-> by, detail |-> detail]

Idle == [op |-> "none", pc |-> "idle", a |-> "none", t |-> "none", w |-> "none",
         prev |-> "active", todo |-> {}, left |-> {}, ok |-> TRUE, ret |-> TRUE,
         back |-> "done", then |-> "done", orelse |-> "done", n |-> 0, seen |-> {}]

InitRegistry ==
  /\ reg = [a \in Agents |-> [status |-> "active", record |-> "none", attested |-> "none"]]
  /\ patch = {}
  /\ rq = [r \in Req |-> Idle]
  /\ gaps = [s \in Services |-> 0]
  /\ faults = 0

-----------------------------------------------------------------------------
(* Calls and returns.                                                      *)

Become(r, frame) == rq' = [rq EXCEPT ![r] = frame]
Goto(r, l) == Become(r, [rq[r] EXCEPT !.pc = l])

\* The frame goes on at l with the outcome of a call.  Of a request that has been
\* answered (done), only what it was and its answer are kept.
Resumed(q, l, ok) ==
  IF l = "done" THEN [Idle EXCEPT !.op = q.op, !.a = q.a, !.t = q.t, !.seen = q.seen,
                                  !.pc = "done", !.ret = ok]
  ELSE [q EXCEPT !.pc = l, !.ret = ok]
\* A handler answers its caller: the HTTP client, or the handler that called it.
Returned(q, ok) == Resumed(q, q.back, ok)
Return(r, ok) == Become(r, Returned(rq[r], ok))

Fault == faults < MaxFaults /\ faults' = faults + 1

\* LedgerClient.append: accepted; or an error, and then the event may be in the
\* ledger all the same (the answer was lost).
Appended(e) == ledger' = ledger \union {e} /\ UNCHANGED faults
AppendFails(e) == Fault /\ ledger' \in {ledger, ledger \union {e}}

\* _ledger_note: the action already happened, a lost note is only counted.
Note(svc, e) ==
  \/ Appended(e) /\ UNCHANGED gaps
  \/ AppendFails(e) /\ gaps' = [gaps EXCEPT ![svc] = @ + 1]

\* RegistryClient.set_status (or an edit): the frame waits, then goes on at one
\* of two labels.
Patching(q, then, orelse) ==
  [q EXCEPT !.pc = "wait", !.then = then, !.orelse = orelse, !.n = @ + 1, !.ret = FALSE]
SendPatch(r, q, a, to, then, orelse) ==
  /\ Become(r, Patching(q, then, orelse))
  /\ patch' = patch \union {[by |-> r, n |-> q.n + 1, a |-> a, to |-> to, st |-> "guard",
                             from |-> "none", wait |-> TRUE]}

\* The answer arrives.
PatchReturn(r) ==
  /\ rq[r].pc = "wait"
  /\ \E p \in patch :
       /\ p.by = r /\ p.wait /\ p.st \in {"ok", "refused"}
       /\ patch' = patch \ {p}
       /\ Become(r, IF p.st = "ok" THEN Resumed(rq[r], rq[r].then, TRUE)
                    ELSE Resumed(rq[r], rq[r].orelse, FALSE))
  /\ UNCHANGED <<reg, ledger, gaps, faults>>

\* RegistryUnreachableError: the call never arrived, or it goes on without
\* anybody waiting for it.
PatchTimeout(r) ==
  /\ rq[r].pc = "wait" /\ Fault
  /\ \E p \in patch :
       /\ p.by = r /\ p.wait
       /\ \/ p.st = "guard" /\ patch' = patch \ {p}
          \/ patch' = (patch \ {p}) \union
                        (IF p.st \in {"ok", "refused"} THEN {} ELSE {[p EXCEPT !.wait = FALSE]})
       /\ Become(r, Resumed(rq[r], rq[r].orelse, FALSE))
  /\ UNCHANGED <<reg, ledger, gaps>>

-----------------------------------------------------------------------------
(* PATCH /agents/{id} at the registry.                                     *)

Answer(p, st) ==
  patch' = (patch \ {p}) \union (IF p.wait THEN {[p EXCEPT !.st = st]} ELSE {})
Proceed(p, st, from) == patch' = (patch \ {p}) \union {[p EXCEPT !.st = st, !.from = from]}

\* update_agent up to the store call: a status other than retired is refused for
\* an agent that is retired when the route looks.
PatchGuard(p) ==
  /\ p.st = "guard"
  /\ IF p.to \in {"active", "killed"} /\ reg[p.a].status = "retired"
     THEN Answer(p, "refused")
     ELSE Proceed(p, "write", reg[p.a].status)
  /\ UNCHANGED <<reg, rq, ledger, gaps, faults>>

\* update_with_previous: the rules that make retired terminal are in the same
\* transaction as the write.
RefusedWhenRetired(p) == reg[p.a].status = "retired" /\ p.to # "retired"
\* Faulty variant: whatever is patched goes to the status column.
UpdatedStatusOnly(p) == [reg EXCEPT ![p.a].status = p.to]
Updated(p) ==
  [reg EXCEPT ![p.a] = IF p.to = "edit" THEN [@ EXCEPT !.record = p.by]
                                        ELSE [@ EXCEPT !.status = p.to]]

\* Faulty variant: only the route's earlier read protects a retired agent.
PatchWriteUnguarded(p) ==
  /\ p.st = "write"
  /\ reg' = Updated(p) /\ Proceed(p, "note", reg[p.a].status)
  /\ UNCHANGED <<rq, ledger, gaps, faults>>

\* Faulty variant: the note will compare with the route's earlier read.
PatchWriteStaleBefore(p) ==
  /\ p.st = "write"
  /\ IF RefusedWhenRetired(p) THEN Answer(p, "refused") /\ UNCHANGED reg
     ELSE reg' = Updated(p) /\ Proceed(p, "note", p.from)
  /\ UNCHANGED <<rq, ledger, gaps, faults>>

PatchWrite(p) ==
  /\ p.st = "write"
  /\ IF RefusedWhenRetired(p) THEN Answer(p, "refused") /\ UNCHANGED reg
     ELSE reg' = Updated(p) /\ Proceed(p, "note", reg[p.a].status)
  /\ UNCHANGED <<rq, ledger, gaps, faults>>

\* The rest of update_agent: registry.status_changed from the row this write
\* replaced, or registry.updated.
Changed(p) == p.to # "edit" /\ p.from # p.to
StatusChange(p) == Event("registry.status_changed", p.a, <<p.by, p.n>>, <<p.from, p.to>>)
PatchNote(p) ==
  /\ p.st = "note"
  /\ Note("registry", IF Changed(p) THEN StatusChange(p)
                      ELSE Event("registry.updated", p.a, <<p.by, p.n>>, "none"))
  /\ Answer(p, "ok")
  /\ UNCHANGED <<reg, rq>>

RegistryStep(p) == PatchGuard(p) \/ PatchWrite(p) \/ PatchNote(p)

-----------------------------------------------------------------------------
(* An operator edits owner, domain or manifest_ref, or re-attests.         *)

Edit(r) ==
  /\ rq[r].pc = "edit"
  /\ SendPatch(r, rq[r], rq[r].a, "edit", "done", "done")
  /\ UNCHANGED <<reg, ledger, gaps, faults>>

\* attest_agent: RegistryStore.attest, then the note.
Attest(r) ==
  LET a == rq[r].a
  IN /\ rq[r].pc = "attest"
     /\ IF reg[a].status = "retired" THEN Return(r, FALSE) /\ UNCHANGED reg
        ELSE reg' = [reg EXCEPT ![a].attested = r] /\ Goto(r, "attested")
     /\ UNCHANGED <<patch, ledger, gaps, faults>>
AttestNote(r) ==
  /\ rq[r].pc = "attested"
  /\ Note("registry", Event("registry.attested", rq[r].a, r, "none"))
  /\ Return(r, TRUE)
  /\ UNCHANGED <<reg, patch>>

OperatorStep(r) == PatchReturn(r) \/ PatchTimeout(r) \/ Edit(r) \/ Attest(r) \/ AttestNote(r)
=============================================================================
