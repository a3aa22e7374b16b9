------------------------------- MODULE Gateway -------------------------------
(***************************************************************************)
(* The force-gateway: the proxy between agents and the model.  Who may call *)
(* is decided fail-closed (the sentinel must say ALLOW), everything the     *)
(* gateway does for its own telemetry fails open.  Requests are threads     *)
(* over one `app.state` without a lock, and the counters there are          *)
(* mirrored in a database a restart resumes from.                           *)
(***************************************************************************)
EXTENDS Integers, Sequences, FiniteSets, SequencesExt

CONSTANTS
  Calls,            \* requests to /v1/messages
  Shapes,           \* what a request's headers and body can be
  Postures,         \* settings the process may be started with
  Tools,            \* names of tools a response may ask to use
  StoredScores,     \* judged scores of earlier requests the store may start with
  Samples,          \* what one judgment can say: <<overall, sycophancy, judge>>
  SampleEvery, WindowSize, BaselineWindows, Band, Cooldown,
  MaxStoreFaults, MaxGatewayCrashes

VARIABLES
  posture,          \* enforce, toolCheck, secret, sentinel
  db,               \* telemetry.sqlite3: counters and drift_scores
  mem,              \* app.state: stride, coverage, bypass window, drift, store
  call,             \* the requests' frames
  stopped,          \* the agent may not act any more (registry, external)
  drifted,          \* drift alerts that are in the ledger: <<judge, fired, dimension>>
  metered,          \* calls reported to the governor
  shared,           \* two requests were in their instrumentation at once
  gfaults, gcrashes

gatewayVars == <<posture, db, mem, call, stopped, drifted, metered, shared, gfaults, gcrashes>>

Coverage == {"instrumented", "bypassed", "bypass_entries", "passthrough",
             "judged_samples", "judge_bypassed"}
Dimensions == <<"overall", "sycophancy">>
NoBaseline == -1

\* A stored score: the dimension it is of, its value, and the judge who gave it.
Scored == Range(Dimensions) \X Nat \X STRING

GatewayAssumption ==
  /\ StoredScores \subseteq Seq(Scored) /\ Samples \subseteq Nat \X Nat \X STRING
  /\ SampleEvery \in Nat \ {0} /\ WindowSize \in Nat \ {0}
  /\ BaselineWindows \in Nat \ {0} /\ Band \in Nat /\ Cooldown \in Nat
  /\ MaxStoreFaults \in Nat /\ MaxGatewayCrashes \in Nat
ASSUME GatewayAssumption

-----------------------------------------------------------------------------
(* The drift tracker.  Scores are whole numbers; a window is kept as the   *)
(* sum of its scores, the baseline as the sum over its windows, and the    *)
(* comparison of means is multiplied out.                                  *)

FreshSeries(judge) ==
  [scores |-> <<>>, windows |-> <<>>, baseline |-> NoBaseline,
   out |-> 0, active |-> FALSE, fired |-> 0, judge |-> judge]

NoDrift == [d \in {} |-> 0]

SumOf(s) == FoldSeq(LAMBDA x, y: x + y, 0, s)

Distance(a, b) == IF a > b THEN a - b ELSE b - a

\* One score into one series: the window closes, the baseline is fixed or compared with.
SeriesAfter(st, score) ==
  LET s == Append(st.scores, score)
      w == Append(st.windows, SumOf(s))
      closed == [st EXCEPT !.scores = <<>>, !.windows = w]
      inBand == Distance(BaselineWindows * SumOf(s), st.baseline)
                  <= Band * WindowSize * BaselineWindows
      fires == st.out + 1 >= 2 /\ ~st.active
  IN CASE Len(s) < WindowSize -> [st EXCEPT !.scores = s]
       [] Len(s) >= WindowSize /\ st.baseline = NoBaseline ->
            IF Len(w) < BaselineWindows THEN closed
            ELSE [closed EXCEPT !.baseline = SumOf(SubSeq(w, 1, BaselineWindows))]
       [] Len(s) >= WindowSize /\ st.baseline # NoBaseline /\ inBand ->
            [closed EXCEPT !.out = 0, !.active = FALSE]
       [] OTHER -> [closed EXCEPT !.out = @ + 1,
                                  !.active = @ \/ fires,
                                  !.fired = IF fires THEN @ + 1 ELSE @]

\* A change of judge starts every series of the route over (one route is modelled).
DriftRecord(drift, dim, score, judge) ==
  LET known == dim \in DOMAIN drift /\ drift[dim].judge = judge
      kept == [d \in DOMAIN drift \cup {dim} |->
                 IF d \in DOMAIN drift /\ drift[d].judge = judge THEN drift[d] ELSE FreshSeries(judge)]
      series == IF known THEN drift ELSE kept
  IN [series EXCEPT ![dim] = SeriesAfter(@, score)]

Fires(drift, dim, score, judge) ==
  DriftRecord(drift, dim, score, judge)[dim].fired
    > (IF dim \in DOMAIN drift /\ drift[dim].judge = judge THEN drift[dim].fired ELSE 0)

\* Every stored score, in the order it was committed, into a fresh tracker.
Replay(scores) ==
  LET fed[i \in 0..Len(scores)] ==
        IF i = 0 THEN NoDrift ELSE DriftRecord(fed[i - 1], scores[i][1], scores[i][2], scores[i][3])
  IN fed[Len(scores)]

-----------------------------------------------------------------------------
NoFrame == [pc |-> "idle", shape |-> 0, mode |-> "none", sent |-> FALSE, late |-> FALSE,
            lateTools |-> FALSE, tools |-> {}, out |-> {}, reg |-> 0, stride |-> 0, pending |-> {}, scores |-> <<>>]

FreshMemory(store) ==
  [stride |-> 0, cov |-> [k \in Coverage |-> 0], bypass |-> 0, drift |-> NoDrift, store |-> store]

GatewayInit ==
  /\ posture \in Postures
  /\ \E old \in StoredScores :
       /\ db = [stride |-> SampleEvery * (Len(old) \div 2), cov |-> [k \in Coverage |-> 0],
                scores |-> old]
       /\ mem = [FreshMemory(TRUE) EXCEPT !.stride = db.stride, !.drift = Replay(old)]
  /\ call = [c \in Calls |-> NoFrame]
  /\ stopped = FALSE /\ drifted = {} /\ metered = {} /\ shared = FALSE
  /\ gfaults = 0 /\ gcrashes = 0

At(c, label) == call[c].pc = label
Instrumenting == {"instrument", "load", "reserve", "stride", "judge", "commit", "feed",
                  "release", "unreserve"}
AtRest == \A c \in Calls : call[c].pc \in {"idle", "done", "lost"}

\* What is left of a request that was answered, or lost with its process.
Ended(f, label) ==
  [NoFrame EXCEPT !.pc = label, !.sent = f.sent, !.late = f.late, !.lateTools = f.lateTools,
                  !.out = f.out]

\* Move c to a label with some fields changed; note when two requests share app.state.
Goto(c, frame, label) ==
  /\ call' = [call EXCEPT ![c] = IF label = "done" THEN Ended(frame, label)
                                  ELSE [frame EXCEPT !.pc = label]]
  /\ shared' = (\/ shared
                \/ /\ label \in Instrumenting
                   /\ \E d \in Calls \ {c} : call[d].pc \in Instrumenting)

\* A store write goes through, or fails once more within the bound.
StoreOutcome(ok) ==
  /\ ok \/ gfaults < MaxStoreFaults
  /\ gfaults' = IF ok THEN gfaults ELSE gfaults + 1

Bump(cov, ks) == [k \in Coverage |-> IF k \in ks THEN cov[k] + 1 ELSE cov[k]]

\* _count outside a commit: memory now, the store best-effort.
Count(ks, m, ok) ==
  /\ StoreOutcome(ok)
  /\ mem' = [m EXCEPT !.cov = Bump(@, ks)]
  /\ db' = IF ok /\ mem.store THEN [db EXCEPT !.cov = Bump(@, ks)] ELSE db

\* The sentinel's answer: a stopped agent is not allowed; it may refuse or be away at any time.
Allows(allowed) == allowed => posture.sentinel /\ ~stopped

-----------------------------------------------------------------------------
(* messages: identity and authority *)

Arrive(c, s) ==
  /\ At(c, "idle")
  /\ LET f == [call[c] EXCEPT !.shape = s, !.late = stopped]
     IN IF posture.enforce /\ ~(s.agent # "none" /\ s.token) THEN Goto(c, f, "done")
        ELSE Goto(c, f, IF posture.enforce THEN "authorize" ELSE "route")
  /\ UNCHANGED <<posture, db, mem, stopped, drifted, metered, gfaults, gcrashes>>

Authorize(c) ==
  /\ At(c, "authorize")
  /\ \E allowed \in BOOLEAN :
       /\ Allows(allowed)
       /\ Goto(c, call[c], IF allowed THEN "route" ELSE "done")
  /\ UNCHANGED <<posture, db, mem, stopped, drifted, metered, gfaults, gcrashes>>

\* x-force-passthrough counts only with the perimeter's secret, and when enforcing only for
\* the platform's own agents.
Honoured(s) ==
  /\ s.judge
  /\ posture.secret => s.auth
  /\ posture.enforce => s.agent = "self"

Route(c) ==
  /\ At(c, "route")
  /\ LET s == call[c].shape
     IN \/ /\ Honoured(s)
           /\ \E ok \in BOOLEAN : Count({"passthrough"}, mem, ok)
           /\ Goto(c, [call[c] EXCEPT !.mode = "passthrough"], "upstream")
        \/ /\ ~Honoured(s)
           /\ IF mem.bypass > 0 THEN Goto(c, [call[c] EXCEPT !.mode = "bypass"], "window")
              ELSE Goto(c, [call[c] EXCEPT !.mode = "instrumented"],
                        IF s.preset THEN "upstream" ELSE "done")
           /\ UNCHANGED <<db, mem, gfaults>>
  /\ UNCHANGED <<posture, stopped, drifted, metered, gcrashes>>

\* `bypass_remaining -= 1` reads, then writes: two requests can read the same value.
WindowRead(c) ==
  /\ At(c, "window")
  /\ Goto(c, [call[c] EXCEPT !.reg = mem.bypass], "windowWrite")
  /\ UNCHANGED <<posture, db, mem, stopped, drifted, metered, gfaults, gcrashes>>

WindowWrite(c) ==
  /\ At(c, "windowWrite")
  /\ \E ok \in BOOLEAN : Count({"bypassed"}, [mem EXCEPT !.bypass = call[c].reg - 1], ok)
  /\ Goto(c, call[c], "upstream")
  /\ UNCHANGED <<posture, stopped, drifted, metered, gcrashes>>

\* What the model can answer: an error, or a message with tools it wants used.
UpstreamAnswers == [ok : {FALSE}, tools : {{}}] \cup [ok : {TRUE}, tools : SUBSET Tools]

\* An answer other than 200 ends the request.
Upstream(c) ==
  /\ At(c, "upstream")
  /\ \E a \in UpstreamAnswers :
       Goto(c, [call[c] EXCEPT !.sent = TRUE, !.tools = a.tools, !.lateTools = stopped],
            CASE ~a.ok -> "done"
              [] a.ok /\ call[c].mode = "passthrough" -> "meter"
              [] OTHER -> "tools")
  /\ UNCHANGED <<posture, db, mem, stopped, drifted, metered, gfaults, gcrashes>>

\* The tokens of a call that names an agent go to the governor.
MeterUsage(c) == IF call[c].shape.agent # "none" THEN metered \cup {c} ELSE metered

\* A passthrough that names an agent is metered like any call.
MeterPassthrough(c) ==
  /\ At(c, "meter")
  /\ metered' = MeterUsage(c)
  /\ Goto(c, call[c], "tools")
  /\ UNCHANGED <<posture, db, mem, stopped, drifted, gfaults, gcrashes>>

AfterTools(f) == IF f.mode = "instrumented" THEN "instrument" ELSE "done"

\* Each tool_use block is asked about on its own; a refused one is not delivered.
ToolBlock(c) ==
  /\ At(c, "tools")
  /\ LET f == call[c]
         checked == posture.enforce /\ posture.toolCheck
     IN \/ /\ f.tools = {} \/ ~checked
           /\ Goto(c, [f EXCEPT !.out = @ \cup f.tools, !.tools = {}], AfterTools(f))
        \/ \E t \in f.tools, allowed \in BOOLEAN :
             /\ checked /\ Allows(allowed)
             /\ Goto(c, [f EXCEPT !.tools = @ \ {t}, !.out = IF allowed THEN @ \cup {t} ELSE @], "tools")
  /\ UNCHANGED <<posture, db, mem, stopped, drifted, metered, gfaults, gcrashes>>

-----------------------------------------------------------------------------
(* messages: instrumentation, which must not fail the request *)

\* A fault or too much latency opens a bypass window; the counters are best-effort.
EnterBypass(ks, m, ok) == Count(ks \cup {"bypass_entries"}, [m EXCEPT !.bypass = Cooldown], ok)

\* The answer is parsed and the tokens reported; without a store nothing more is done.
Instrument(c) ==
  /\ At(c, "instrument")
  /\ \E parses \in BOOLEAN :
       /\ metered' = IF parses THEN MeterUsage(c) ELSE metered
       /\ IF parses /\ mem.store
          THEN /\ Goto(c, call[c], "load")
               /\ UNCHANGED <<db, mem, gfaults>>
          ELSE /\ \E ok \in BOOLEAN : EnterBypass({"instrumented"}, mem, ok)
               /\ Goto(c, call[c], "done")
  /\ UNCHANGED <<posture, stopped, drifted, gcrashes>>

\* `request_count += 1`, then the slot is read back: three accesses of shared memory.
StrideRead(c) ==
  /\ At(c, "load")
  /\ Goto(c, [call[c] EXCEPT !.reg = mem.stride], "reserve")
  /\ UNCHANGED <<posture, db, mem, stopped, drifted, metered, gfaults, gcrashes>>

StrideReserve(c) ==
  /\ At(c, "reserve")
  /\ mem' = [mem EXCEPT !.stride = call[c].reg + 1]
  /\ Goto(c, [call[c] EXCEPT !.reg = 0], "stride")
  /\ UNCHANGED <<posture, db, stopped, drifted, metered, gfaults, gcrashes>>

StrideSlot(c) ==
  /\ At(c, "stride")
  /\ Goto(c, [call[c] EXCEPT !.stride = mem.stride, !.pending = {"instrumented"}], "judge")
  /\ UNCHANGED <<posture, db, mem, stopped, drifted, metered, gfaults, gcrashes>>

\* One request in SampleEvery is judged, unless the spend gate or the judge says no.
MaybeJudge(c) ==
  /\ At(c, "judge")
  /\ LET f == call[c]
     IN IF f.stride % SampleEvery # 0 THEN Goto(c, f, "commit")
        ELSE \/ Goto(c, [f EXCEPT !.pending = @ \cup {"judge_bypassed"}], "commit")
             \/ \E s \in Samples :
                  Goto(c, [f EXCEPT !.pending = @ \cup {"judged_samples"},
                                    !.scores = <<<<Dimensions[1], s[1], s[3]>>,
                                                 <<Dimensions[2], s[2], s[3]>>>>], "commit")
  /\ UNCHANGED <<posture, db, mem, stopped, drifted, metered, gfaults, gcrashes>>

\* Coverage goes to memory only once the store holds it.
ApplyCommitted(m, pending) == [m EXCEPT !.cov = Bump(@, pending)]

\* One transaction: the row, the counters, the scores; then the counters in memory.
\* Where it fails, the write that counts the bypass may fail as well.
CommitRequest(c) ==
  /\ At(c, "commit")
  /\ LET f == call[c]
     IN \/ /\ db' = [stride |-> db.stride + 1, cov |-> Bump(db.cov, f.pending),
                     scores |-> db.scores \o f.scores]
           /\ mem' = ApplyCommitted(mem, f.pending)
           /\ Goto(c, f, "feed")
           /\ UNCHANGED gfaults
        \/ /\ gfaults < MaxStoreFaults
           /\ gfaults' = gfaults + 1
           /\ mem' = [mem EXCEPT !.cov = Bump(@, {"bypass_entries"}), !.bypass = Cooldown]
           /\ db' \in {db, [db EXCEPT !.cov = Bump(@, {"bypass_entries"})]}
           /\ Goto(c, f, "release")
  /\ UNCHANGED <<posture, stopped, drifted, metered, gcrashes>>

\* The tracker is told after the commit, score by score; an alert is ledgered.
FeedDrift(c) ==
  /\ At(c, "feed")
  /\ LET f == call[c]
     IN IF f.scores # <<>>
        THEN LET s == Head(f.scores)
                 after == DriftRecord(mem.drift, s[1], s[2], s[3])
             IN /\ mem' = [mem EXCEPT !.drift = after]
                /\ drifted' = IF Fires(mem.drift, s[1], s[2], s[3])
                              THEN drifted \cup {<<s[3], after[s[1]].fired, s[1]>>} ELSE drifted
                /\ Goto(c, [f EXCEPT !.scores = Tail(@)], "feed")
                /\ UNCHANGED <<db, gfaults>>
        ELSE /\ \/ UNCHANGED <<db, mem, gfaults>>
                \/ \E ok \in BOOLEAN : EnterBypass({}, mem, ok)
             /\ Goto(c, f, "done")
             /\ UNCHANGED drifted
  /\ UNCHANGED <<posture, stopped, metered, gcrashes>>

\* Nothing was committed: the slot is given back, again by a read and a write.
Release(c) ==
  /\ At(c, "release")
  /\ Goto(c, [call[c] EXCEPT !.reg = mem.stride], "unreserve")
  /\ UNCHANGED <<posture, db, mem, stopped, drifted, metered, gfaults, gcrashes>>

\* Faulty variant: the slot of a request that did not commit stays taken.
UnreserveKept(c) ==
  /\ At(c, "unreserve")
  /\ \E ok \in BOOLEAN : Count({"instrumented"}, mem, ok)
  /\ Goto(c, call[c], "done")
  /\ UNCHANGED <<posture, stopped, drifted, metered, gcrashes>>

Unreserve(c) ==
  /\ At(c, "unreserve")
  /\ \E ok \in BOOLEAN :
       Count({"instrumented"}, [mem EXCEPT !.stride = call[c].reg - 1], ok)
  /\ Goto(c, call[c], "done")
  /\ UNCHANGED <<posture, stopped, drifted, metered, gcrashes>>

-----------------------------------------------------------------------------
\* The process is killed and started again: _load_state reads all or nothing.
GatewayRestart(readable) ==
  /\ gcrashes < MaxGatewayCrashes
  /\ gcrashes' = gcrashes + 1
  /\ StoreOutcome(readable)
  /\ mem' = IF readable
            THEN [FreshMemory(TRUE) EXCEPT !.stride = db.stride, !.cov = db.cov,
                                           !.drift = Replay(db.scores)]
            ELSE FreshMemory(FALSE)
  /\ call' = [c \in Calls |-> IF call[c].pc \in {"idle", "done"} THEN call[c]
                              ELSE Ended(call[c], "lost")]
  /\ UNCHANGED <<posture, db, stopped, drifted, metered, shared>>

\* The agent is killed, paused or loses its token: external, once.
Stop ==
  /\ ~stopped /\ stopped' = TRUE
  /\ UNCHANGED <<posture, db, mem, call, drifted, metered, shared, gfaults, gcrashes>>

GatewayNext ==
  \/ \E c \in Calls :
       \/ \E s \in Shapes : Arrive(c, s)
       \/ Authorize(c) \/ Route(c) \/ WindowRead(c) \/ WindowWrite(c) \/ Upstream(c)
       \/ MeterPassthrough(c) \/ ToolBlock(c) \/ Instrument(c) \/ StrideRead(c)
       \/ StrideReserve(c) \/ StrideSlot(c) \/ MaybeJudge(c) \/ CommitRequest(c)
       \/ FeedDrift(c) \/ Release(c) \/ Unreserve(c)
  \/ \E readable \in BOOLEAN : GatewayRestart(readable)
  \/ Stop

GatewaySpec == GatewayInit /\ [][GatewayNext]_gatewayVars

-----------------------------------------------------------------------------
(* When enforcing, an agent that was stopped before its call arrived gets   *)
(* nothing upstream, and one stopped while the model was answering is not   *)
(* handed a tool, whichever way the call went: instrumented, as a judge's   *)
(* passthrough, or inside a bypass window another request's fault opened.   *)
EgressHeldClosed ==
  posture.enforce => \A c \in Calls :
    /\ call[c].late => ~call[c].sent
    /\ posture.toolCheck /\ call[c].lateTools => call[c].out = {}

(* While requests did not overlap, a process that is at rest holds what a   *)
(* restart would load: the stride, the series of the drift tracker, and     *)
(* the coverage but for counts whose own write failed.  This goes through   *)
(* kills, failed commits and bypass windows.                                *)
RestartChangesNothing ==
  (AtRest /\ ~shared /\ mem.store) =>
    /\ mem.stride = db.stride
    /\ mem.drift = Replay(db.scores)
    /\ \A k \in Coverage : mem.cov[k] >= db.cov[k]
    /\ gfaults = 0 => mem.cov = db.cov

(* "Replay only: a replayed alert was ledgered when it first fired."        *)
(* (_load_state): each alert the tracker has raised is in the ledger.       *)
(* The code does not keep this; no run asks for it (README, Divergences).   *)
AlertsWereLedgered ==
  AtRest => \A d \in DOMAIN mem.drift : \A n \in 1..mem.drift[d].fired :
              <<mem.drift[d].judge, n, d>> \in drifted
=============================================================================
