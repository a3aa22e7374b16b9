-------------------------------- MODULE Console --------------------------------
(***************************************************************************)
(* services/ops-console: a client of the services that own the actions.     *)
(* FLEET HALT names the domains of the agents it reads once and has the     *)
(* kill-switch halt them one after the other; a bulk action posts agent by  *)
(* agent; the page follows a stream of which only so many may be open.      *)
(* Meanwhile others register, move, revive and retire agents.               *)
(***************************************************************************)
EXTENDS Integers, Sequences, FiniteSets

CONSTANTS
  ConsoleAgents, Domains,
  Halts,             \* console requests that halt or act on many agents
  Streams,           \* GET /api/stream requests
  MaxStreams,        \* FIELD_CONSOLE_MAX_STREAMS
  ConsoleMode,       \* FIELD_OPERATOR_*: "off" or "enforce"
  ConsoleMaxEdits,   \* registrations, moves, revivals and retirements (bound)
  ConsoleFaults      \* upstream calls that fail (bound)

VARIABLES
  reg,               \* the registry: agent -> [status, domain]
  request,           \* the console's fleet halts and bulk actions
  touched,           \* request -> agents somebody else, another request too, changed since it started
  stream,            \* each stream: idle, admitted, open, closed, refused
  openStreams,       \* app.state.open_streams
  consoleEdits, consoleFaults

consoleVars == <<reg, request, touched, stream, openStreams, consoleEdits, consoleFaults>>

Unregistered == "unregistered"
ConsoleWaiting == [at |-> "waiting"]
ConsoleAlive(a) == reg[a].status \notin {Unregistered, "retired"}

ConsoleInit ==
  /\ reg \in [ConsoleAgents -> [status: {"active", Unregistered}, domain: Domains]]
  /\ request = [h \in Halts |-> ConsoleWaiting] /\ touched = [h \in Halts |-> {}]
  /\ stream = [s \in Streams |-> "idle"] /\ openStreams = 0
  /\ consoleEdits = 0 /\ consoleFaults = 0

StreamsSame == UNCHANGED <<stream, openStreams>>
ConsoleFault == consoleFaults < ConsoleFaults /\ consoleFaults' = consoleFaults + 1

-----------------------------------------------------------------------------
(* What others do to the registry meanwhile. *)

ConsoleEdit(a, record) ==
  /\ consoleEdits < ConsoleMaxEdits /\ consoleEdits' = consoleEdits + 1
  /\ reg' = [reg EXCEPT ![a] = record]
  /\ touched' = [h \in Halts |-> IF request[h] = ConsoleWaiting THEN {} ELSE touched[h] \cup {a}]
  /\ UNCHANGED <<request, consoleFaults>> /\ StreamsSame

Register(a) == reg[a].status = Unregistered /\ \E d \in Domains: ConsoleEdit(a, [status |-> "active", domain |-> d])
ReviveAgent(a) == reg[a].status = "killed" /\ ConsoleEdit(a, [reg[a] EXCEPT !.status = "active"])
Retire(a) == ConsoleAlive(a) /\ ConsoleEdit(a, [reg[a] EXCEPT !.status = "retired"])
ConsoleMove(a) == ConsoleAlive(a) /\ \E d \in Domains \ {reg[a].domain}: ConsoleEdit(a, [reg[a] EXCEPT !.domain = d])

-----------------------------------------------------------------------------
(* The console's requests. *)

Become(h, r) == request' = [request EXCEPT ![h] = r]

\* To the requests that are under way, h is one of the others.
SetStatus(h, a, status) ==
  /\ reg' = [reg EXCEPT ![a].status = status]
  /\ touched' = [g \in Halts |->
       IF g = h \/ request[g] = ConsoleWaiting \/ reg[a].status = status THEN touched[g] ELSE touched[g] \cup {a}]
StatusSame == UNCHANGED <<reg, touched>>
RegistrySame == UNCHANGED <<reg, consoleEdits>> /\ StreamsSame

\* _operator_kw: the human's headers are forwarded; under ENFORCE a request
\* without them stops here and the console never lends its own.
Forwards(human) == human \/ ConsoleMode # "enforce"

StartHalt(h) ==
  /\ request[h] = ConsoleWaiting
  /\ \E human \in BOOLEAN, given \in {{}} \cup {{d}: d \in Domains}:
       Become(h, IF ~Forwards(human) THEN [at |-> "refused", code |-> 401]
                 ELSE [at |-> IF given = {} THEN "enumerate" ELSE "halting", kind |-> "halt",
                       todo |-> given, left |-> {}, counts |-> [done |-> 0, error |-> 0],
                       asked |-> given, ok |-> TRUE])
  /\ UNCHANGED <<touched, consoleFaults>> /\ RegistrySame

\* Domains of the agents that are not retired, read once.
Enumerate(h) ==
  /\ request[h].at = "enumerate"
  /\ \/ LET domains == {reg[a].domain: a \in {x \in ConsoleAgents: ConsoleAlive(x)}}
        IN Become(h, [request[h] EXCEPT !.at = "halting", !.todo = domains, !.asked = domains])
        /\ UNCHANGED consoleFaults
     \/ ConsoleFault /\ Become(h, [at |-> "refused", code |-> 502])
  /\ UNCHANGED touched /\ RegistrySame

\* One row of the answer: halted only on a 2xx with no agent in error.
\* Faulty variant: a 2xx with agents in error counts as a halt.
RowOkByStatus(http, counts) == http
RowOk(http, counts) == http /\ counts.error = 0
CloseRow(h, http, counts) ==
  Become(h, [request[h] EXCEPT !.at = "halting", !.left = {}, !.counts = [done |-> 0, error |-> 0],
                               !.ok = @ /\ RowOk(http, counts)])

\* POST /kill/domain/{d}: the kill-switch lists the domain; an unreachable
\* registry, a domain without agents or a lost answer is no 2xx.
HaltDomain(h) ==
  /\ request[h].at = "halting" /\ request[h].todo # {}
  /\ \E d \in request[h].todo:
       LET members == {a \in ConsoleAgents: reg[a].status # Unregistered /\ reg[a].domain = d}
           rest == [request[h] EXCEPT !.todo = @ \ {d}]
           unstopped == [rest EXCEPT !.ok = FALSE]
       IN  \/ /\ members # {} /\ UNCHANGED consoleFaults
              /\ Become(h, [rest EXCEPT !.at = "killing", !.left = {a \in members: reg[a].status # "retired"}])
           \/ members = {} /\ Become(h, unstopped) /\ UNCHANGED consoleFaults
           \/ ConsoleFault /\ Become(h, unstopped)
  /\ UNCHANGED touched /\ RegistrySame

\* The kill-switch's _kill_one on the next of them: read, then flip; the flip
\* may be refused (retired meanwhile), fail, or fail after it was applied.
ConsoleKills(h, a, error) ==
  LET c == request[h].counts
  IN  Become(h, [request[h] EXCEPT !.left = @ \ {a},
                   !.counts = IF error THEN [c EXCEPT !.error = @ + 1] ELSE [c EXCEPT !.done = @ + 1]])
KillNext(h) ==
  /\ request[h].at = "killing"
  /\ \E a \in request[h].left:
       \/ /\ ConsoleAlive(a) /\ SetStatus(h, a, "killed")
          /\ \/ ConsoleKills(h, a, FALSE) /\ UNCHANGED consoleFaults
             \/ ConsoleFault /\ ConsoleKills(h, a, TRUE)
       \/ ~ConsoleAlive(a) /\ ConsoleKills(h, a, TRUE) /\ StatusSame /\ UNCHANGED consoleFaults
       \/ ConsoleFault /\ ConsoleKills(h, a, TRUE) /\ StatusSame
  /\ UNCHANGED consoleEdits /\ StreamsSame

\* 502 when every attempt errored, else 200; the answer can be lost on the way.
DomainDone(h) ==
  /\ request[h].at = "killing" /\ request[h].left = {}
  /\ LET c == request[h].counts
     IN  \/ CloseRow(h, c.done > 0 \/ c.error = 0, c) /\ UNCHANGED consoleFaults
         \/ ConsoleFault /\ CloseRow(h, FALSE, c)
  /\ UNCHANGED touched /\ RegistrySame

AnswerHalt(h) ==
  /\ request[h].at = "halting" /\ request[h].todo = {}
  /\ Become(h, [request[h] EXCEPT !.at = "answered"])
  /\ UNCHANGED <<touched, consoleFaults>> /\ RegistrySame

\* POST /api/agents/bulk: one kill, revive or drill per named agent, each row by
\* its own answer; the kill-switch refuses a retired or unregistered agent.
StartBulk(h) ==
  /\ request[h] = ConsoleWaiting
  /\ \E human \in BOOLEAN, ids \in SUBSET ConsoleAgents \ {{}}, action \in {"kill", "revive", "drill"}:
       Become(h, IF ~Forwards(human) THEN [at |-> "refused", code |-> 401]
                 ELSE [at |-> "bulk", kind |-> action, todo |-> ids, asked |-> ids, ok |-> TRUE])
  /\ UNCHANGED <<touched, consoleFaults>> /\ RegistrySame

After(action, before) == CASE action = "kill" -> "killed" [] action = "revive" -> "active" [] OTHER -> before

\* The call is answered; its answer is lost after it took effect; a drill leaves
\* the agent killed (its report is a failure, C-19); the call is refused or fails.
BulkNext(h) ==
  /\ request[h].at = "bulk" /\ request[h].todo # {}
  /\ \E a \in request[h].todo:
       LET row(ok) == Become(h, [request[h] EXCEPT !.todo = @ \ {a}, !.ok = @ /\ ok])
       IN  \/ /\ ConsoleAlive(a) /\ SetStatus(h, a, After(request[h].kind, reg[a].status))
              /\ \/ row(TRUE) /\ UNCHANGED consoleFaults
                 \/ ConsoleFault /\ row(FALSE)
           \/ ConsoleAlive(a) /\ request[h].kind = "drill" /\ ConsoleFault /\ SetStatus(h, a, "killed") /\ row(FALSE)
           \/ ~ConsoleAlive(a) /\ row(FALSE) /\ StatusSame /\ UNCHANGED consoleFaults
           \/ ConsoleFault /\ row(FALSE) /\ StatusSame
  /\ UNCHANGED consoleEdits /\ StreamsSame

AnswerBulk(h) ==
  /\ request[h].at = "bulk" /\ request[h].todo = {}
  /\ Become(h, [request[h] EXCEPT !.at = "answered"])
  /\ UNCHANGED <<touched, consoleFaults>> /\ RegistrySame

-----------------------------------------------------------------------------
(* Streams: admitted by the handler, counted when the generator starts. *)

OtherSame == UNCHANGED <<reg, request, touched, consoleEdits, consoleFaults>>
ToStream(s, to) == stream' = [stream EXCEPT ![s] = to]

AdmitStream(s) ==
  /\ stream[s] = "idle"
  /\ ToStream(s, IF openStreams >= MaxStreams THEN "refused" ELSE "admitted")
  /\ UNCHANGED openStreams /\ OtherSame

\* The client is gone before the generator ran: nothing was counted.
DropStream(s) == stream[s] = "admitted" /\ ToStream(s, "closed") /\ UNCHANGED openStreams /\ OtherSame

OpenStream(s) ==
  /\ stream[s] = "admitted"
  /\ ToStream(s, "open") /\ openStreams' = openStreams + 1 /\ OtherSame

\* Disconnected, out of frames, or an exception: the finally block runs.
CloseStream(s) ==
  /\ stream[s] = "open"
  /\ ToStream(s, "closed") /\ openStreams' = openStreams - 1 /\ OtherSame

ConsoleNext ==
  \/ \E a \in ConsoleAgents: Register(a) \/ ReviveAgent(a) \/ Retire(a) \/ ConsoleMove(a)
  \/ \E h \in Halts: \/ StartHalt(h) \/ Enumerate(h) \/ HaltDomain(h) \/ KillNext(h) \/ DomainDone(h)
                     \/ AnswerHalt(h) \/ StartBulk(h) \/ BulkNext(h) \/ AnswerBulk(h)
  \/ \E s \in Streams: AdmitStream(s) \/ DropStream(s) \/ OpenStream(s) \/ CloseStream(s)
ConsoleSpec == ConsoleInit /\ [][ConsoleNext]_consoleVars

-----------------------------------------------------------------------------
Stopped(a) == ~ConsoleAlive(a) \/ reg[a].status = "killed"
ConsoleAnswered(h, kind) == request[h].at = "answered" /\ request[h].kind = kind /\ request[h].ok

\* An answer that says all_ok is true of every agent nobody else touched since
\* the request began: after a fleet halt each agent of the halted domains is
\* stopped, after a bulk kill each named one, and after a bulk revive each is
\* active, whatever was lost on the way (api.py fleet_halt, _domain_outcomes,
\* bulk; the kill-switch's kill_domain answers 200 with agents in error).
AllOkMeansStopped ==
  \A h \in Halts, a \in ConsoleAgents: a \notin touched[h] =>
    /\ ConsoleAnswered(h, "halt") /\ reg[a].domain \in request[h].asked => Stopped(a)
    /\ ConsoleAnswered(h, "kill") /\ a \in request[h].asked => Stopped(a)
    /\ ConsoleAnswered(h, "revive") /\ a \in request[h].asked => reg[a].status = "active"
=============================================================================
