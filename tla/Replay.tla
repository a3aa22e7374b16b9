-------------------------------- MODULE Replay --------------------------------
(***************************************************************************)
(* services/incident-replay: a post-mortem is assembled from five answers   *)
(* taken one after the other: the ledger's verification, its health, the    *)
(* registry's record, the window's events and the agent's grants.  The      *)
(* estate goes on meanwhile: events are appended and archived, grants are   *)
(* minted, revoked and expire.  Who is Accountable is judged at the first   *)
(* failure's timestamp, from what the grants say at replay time.            *)
(***************************************************************************)
EXTENDS Naturals, Sequences, FiniteSets

CONSTANTS
  Grants,                              \* token ids
  Windows,                             \* [since, until] a replay may be asked for
  ReplayCap,                           \* max_timeline_events()
  Lifetime,                            \* a grant expires so long after it was issued
  MaxClock, MaxArchives, ReplayFaults  \* bounds

ASSUME ReplayAssumption == Windows \subseteq [since : Nat, until : Nat] /\ Lifetime \in Nat /\ ReplayCap \in Nat

VARIABLES
  clock,             \* each step of the estate happens at an instant of its own
  replayEvents,      \* the agent's ledger events, [ts, kind, covered]
  replayArchived,    \* how many of the oldest are no longer in the live ledger
  grant,             \* token -> [issued, revoked, covers]; issued = 0: not minted
  report,            \* the post-mortem in the making
  replayLate,        \* events were archived after /health was read
  replayFaults

replayVars == <<clock, replayEvents, replayArchived, grant, report, replayLate, replayFaults>>

Failures == {"block", "D.expired", "D.revoked"}   \* enforced, or a log-only shadow
ReplayKinds == Failures \cup {"other"}       \* another agent's event
NoGrant == [issued |-> 0, revoked |-> 0, covers |-> FALSE]
ReplayNobody == [grant |-> "none", source |-> "none"]
ReplayIdle == [at |-> "idle"]

ReplayInit ==
  /\ clock = 0 /\ replayEvents = <<>> /\ replayArchived = 0
  /\ grant = [g \in Grants |-> NoGrant]
  /\ report = ReplayIdle /\ replayLate = FALSE /\ replayFaults = 0

-----------------------------------------------------------------------------
(* Grants: DelegationToken.status as it was at an instant. *)

Expires(t) == t.issued + Lifetime
StatusAt(t, at) ==
  CASE t.issued = 0 \/ t.issued > at -> "none"
    [] t.revoked # 0 /\ t.revoked <= at -> "revoked"
    [] OTHER -> IF at >= Expires(t) THEN "expired" ELSE "active"
\* What the estate knew when the event was written (kept with it to compare).
Covering(at, status) == {g \in Grants: grant[g].covers /\ StatusAt(grant[g], at) = status}

-----------------------------------------------------------------------------
(* The estate. *)

ReplayTick == clock < MaxClock /\ clock' = clock + 1
EstateSame == UNCHANGED <<report, replayFaults>>

ReplayMint(g) ==
  /\ ReplayTick /\ grant[g].issued = 0
  /\ \E c \in BOOLEAN: grant' = [grant EXCEPT ![g] = [issued |-> clock', revoked |-> 0, covers |-> c]]
  /\ UNCHANGED <<replayEvents, replayArchived, replayLate>> /\ EstateSame
ReplayRevoke(g) ==
  /\ ReplayTick /\ grant[g].issued # 0 /\ grant[g].revoked = 0
  /\ grant' = [grant EXCEPT ![g].revoked = clock']
  /\ UNCHANGED <<replayEvents, replayArchived, replayLate>> /\ EstateSame
\* The sentinel gives D.expired and D.revoked only for a token that had lapsed so.
Append1(kind) ==
  /\ ReplayTick
  /\ kind = "D.expired" => Covering(clock', "expired") # {}
  /\ kind = "D.revoked" => Covering(clock', "revoked") # {}
  /\ replayEvents' = Append(replayEvents, [ts |-> clock', kind |-> kind, active |-> Covering(clock', "active"),
                                         lapsed |-> Covering(clock', IF kind = "D.expired" THEN "expired" ELSE "revoked")])
  /\ UNCHANGED <<replayArchived, grant, replayLate>> /\ EstateSame
Archive ==
  /\ ReplayTick /\ replayArchived < MaxArchives /\ replayArchived + 1 < Len(replayEvents)   \* the open segment stays
  /\ replayArchived' = replayArchived + 1
  /\ replayLate' = (replayLate \/ report.at \in {"agent", "events"})
  /\ UNCHANGED <<replayEvents, grant>> /\ EstateSame

-----------------------------------------------------------------------------
(* ReplayEngine.replay. *)

Reads == UNCHANGED <<clock, replayEvents, replayArchived, grant>>
ReplayGoes(r) == report' = r /\ UNCHANGED replayFaults /\ Reads
AnswerFails == replayFaults < ReplayFaults /\ replayFaults' = replayFaults + 1 /\ Reads
ReplayLive == replayArchived + 1..Len(replayEvents)    \* the numbers of the live events
EarliestLiveTs == replayEvents[replayArchived + 1].ts

\* /verify: intact, broken or busy; the report is assembled whatever it says.
AskVerify ==
  /\ report = ReplayIdle /\ replayLate' = FALSE
  /\ \E w \in Windows:
       ReplayGoes([at |-> "health", window |-> w, notes |-> {}, asked |-> Len(replayEvents),
                    timeline |-> {}, accountable |-> ReplayNobody])

\* Faulty variant: noted only when no live event lies in the window.
NotedWhole(w) == IF replayArchived > 0 /\ w.until < EarliestLiveTs THEN {"archived"} ELSE {}
\* _earliest_live_note: something was archived (index 0 is the first event ever
\* written) and the window starts before the ledger's earliest live event.
Noted(w) == IF replayArchived > 0 /\ w.since < EarliestLiveTs THEN {"archived"} ELSE {}
AskHealth ==
  /\ report.at = "health" /\ UNCHANGED replayLate
  /\ \/ ReplayGoes([report EXCEPT !.at = "agent", !.notes = IF ReplayLive = {} THEN {} ELSE Noted(report.window)])
     \/ AnswerFails /\ report' = [report EXCEPT !.at = "agent", !.notes = {"health unreadable"}]

\* A service that fails here fails the whole replay; no record is an answer.
AskAgent ==
  /\ report.at = "agent" /\ UNCHANGED replayLate
  /\ \/ ReplayGoes([report EXCEPT !.at = "events"])
     \/ AnswerFails /\ report' = ReplayIdle

\* The newest Cap of the agent's events in the window, as the numbers of the events
\* the timeline shows in their order; a note when more matched.
InWindow(e, w) == w.since <= e.ts /\ e.ts <= w.until /\ e.kind # "other"
Newest(found) ==
  IF Cardinality(found) > ReplayCap THEN {k \in found: Cardinality({j \in found: j > k}) < ReplayCap} ELSE found
AskEvents ==
  /\ report.at = "events" /\ UNCHANGED replayLate
  /\ LET found == {k \in ReplayLive: InWindow(replayEvents[k], report.window)}
     IN  \/ ReplayGoes([report EXCEPT !.at = "tokens", !.timeline = Newest(found),
                                      !.notes = @ \cup (IF Cardinality(found) > ReplayCap THEN {"truncated"} ELSE {})])
         \/ AnswerFails /\ report' = ReplayIdle

FirstFailure(timeline) ==
  LET failed == {k \in timeline: replayEvents[k].kind \in Failures}
  IN  IF failed = {} THEN <<>> ELSE <<replayEvents[CHOOSE k \in failed: \A j \in failed: k <= j]>>

Earliest(gs) == CHOOSE g \in gs: \A h \in gs: grant[g].issued <= grant[h].issued
Latest(gs) == CHOOSE g \in gs: \A h \in gs: grant[h].issued <= grant[g].issued
Overlapping(w) ==
  {g \in Grants: grant[g].issued # 0 /\ grant[g].issued <= w.until /\ Expires(grant[g]) > w.since}

\* _accountable: the latest grant that had lapsed so, else the earliest one in
\* force at the failure, else the earliest one that overlaps the window.
Lapsed(f) == IF f.kind = "D.expired" THEN "expired" ELSE "revoked"
Accountable(w, failure) ==
  LET overlapping == Overlapping(w)
      at(status, among) == {g \in among: grant[g].covers /\ StatusAt(grant[g], failure[1].ts) = status}
  IN  IF failure # <<>> /\ failure[1].kind \in {"D.expired", "D.revoked"} /\ at(Lapsed(failure[1]), Grants) # {}
      THEN [grant |-> Latest(at(Lapsed(failure[1]), Grants)), source |-> "lapsed"]
      ELSE IF failure # <<>> /\ at("active", overlapping) # {}
      THEN [grant |-> Earliest(at("active", overlapping)), source |-> "covering"]
      ELSE IF overlapping # {} THEN [grant |-> Earliest(overlapping), source |-> "overlapping"]
      ELSE [grant |-> "none", source |-> "none"]

AskTokens ==
  /\ report.at = "tokens" /\ UNCHANGED replayLate
  /\ \/ ReplayGoes([report EXCEPT !.at = "done", !.accountable = Accountable(report.window, FirstFailure(report.timeline))])
     \/ AnswerFails /\ report' = ReplayIdle

ReplayNext ==
  \/ \E g \in Grants: ReplayMint(g) \/ ReplayRevoke(g)
  \/ \E kind \in ReplayKinds: Append1(kind)
  \/ Archive
  \/ AskVerify \/ AskHealth \/ AskAgent \/ AskEvents \/ AskTokens
ReplaySpec == ReplayInit /\ [][ReplayNext]_replayVars

-----------------------------------------------------------------------------
ReplayDone == report.at = "done"

\* A post-mortem without a note shows every event of its window that was in the
\* ledger when it began, unless retention archived some between the answer of
\* /health and that of /events: a window over archived segments and a timeline
\* that was cut both say so (engine.py _earliest_live_note, replay).
ReportComplete ==
  ReplayDone /\ ~replayLate /\ report.notes = {} =>
    \A k \in 1..report.asked: InWindow(replayEvents[k], report.window) => k \in report.timeline

\* Who is Accountable is what the estate would have said when the failure was
\* written, whatever was revoked, minted or expired since: a grant that covered
\* the action and was in force then is named, the earliest of them, when the
\* window reaches it; and no grant is called covering that was not in force
\* (engine.py _accountable, AuthorityGrant.status_at).
BlameFits ==
  ReplayDone /\ FirstFailure(report.timeline) # <<>> =>
    LET f == FirstFailure(report.timeline)[1]  a == report.accountable
        inForce == f.active \cap Overlapping(report.window)
    IN  /\ f.kind = "block" /\ inForce # {} => a = [grant |-> Earliest(inForce), source |-> "covering"]
        /\ a.source = "covering" => a.grant \in f.active
        /\ a.source = "lapsed" => a.grant \in f.lapsed

\* _earliest_live_note's docstring: "A window that starts before the earliest
\* LIVE event cannot show the archived events, so the report says so."
\* The code does not keep this; no run asks for it (README, Divergences).
ArchivedIsNoted ==
  ReplayDone /\ report.notes = {} =>
    \A k \in 1..report.asked: InWindow(replayEvents[k], report.window) => k \in report.timeline
=============================================================================
