-------------------------------- MODULE Renewal --------------------------------
(***************************************************************************)
(* tools/renew_token: one agent's delegation token in a store file is       *)
(* replaced by a fresh one with the same grant.  A journal (minting,        *)
(* minted, verified) survives crashes; every call to the authority may      *)
(* fail or lose its answer; people revoke and mint tokens and edit the      *)
(* store while a renewal runs.                                              *)
(***************************************************************************)
EXTENDS Integers, FiniteSets

CONSTANTS
  Tokens,           \* token ids, 1 is the one the store starts with
  RenewalBudget     \* crashes, errors, odd answers and full disks, failed verifications, human deeds

VARIABLES
  token,            \* the authority's rows
  late,             \* a mint whose answer was lost and that may still be persisted
  store,            \* the value under the key and the revision of every other byte
  intent,           \* the journal file
  rn,               \* the running process; pc is "idle" between runs
  adopted,          \* ghost: tokens a finished renewal or a person put in use
  nleft

renewalVars == <<token, late, store, intent, rn, adopted, nleft>>

Ghost == 0
Torn == -1
Row(state, grant, agent, minter) ==
  [state |-> state, by |-> "nobody", grant |-> grant, agent |-> agent, minter |-> minter]
NoRow == Row("none", "same", "own", "nobody")
NoIntent == [phase |-> "none"]
Asleep == [pc |-> "idle"]

RenewalAssumption == Tokens \subseteq Nat \ {Ghost} /\ 1 \in Tokens
ASSUME RenewalAssumption

RenewalInit ==
  /\ token = [t \in Tokens |-> IF t = 1 THEN Row("active", "same", "own", "human") ELSE NoRow]
  /\ store = [value |-> 1, rest |-> 0]
  /\ late = FALSE /\ intent = NoIntent /\ rn = Asleep
  /\ adopted = {1} /\ nleft = RenewalBudget

SpendRenewal(kind) == nleft[kind] > 0 /\ nleft' = [nleft EXCEPT ![kind] = @ - 1]
Running(pc) == rn.pc = pc
Step(pc) == rn' = [rn EXCEPT !.pc = pc]
Exit == rn' = Asleep
Next0 == CHOOSE t \in Tokens : token[t].state = "none" /\ \A u \in Tokens : token[u].state = "none" => t <= u
Room == \E t \in Tokens : token[t].state = "none"

-----------------------------------------------------------------------------
(* Reading and revoking at the authority *)

\* token_state: a read may fail; an id never issued is missing.
TokenState(t) == (IF t \notin Tokens THEN {"missing"} ELSE {token[t].state}) \cup {"unreadable"}
ReadCost(t, s) == IF s = "unreadable" THEN SpendRenewal("errors") ELSE UNCHANGED nleft

\* GET /delegation/tokens lists the agent's own tokens.
ListTokens == {t \in Tokens : token[t].state # "none" /\ token[t].agent = "own"}

Killed(t) == [token EXCEPT ![t].state = "revoked", ![t].by = "tool"]

\* revoke: a token of the agent, confirmed; "refused" is another agent's token, "missing" no token.
RevokeToken(t) ==
  (IF t = Ghost THEN {[rows |-> token, answer |-> "missing"]}
   ELSE IF token[t].agent # "own" THEN {[rows |-> token, answer |-> "refused"]}
   ELSE IF token[t].state = "revoked" THEN {[rows |-> token, answer |-> "ok"]}
   ELSE {[rows |-> Killed(t), answer |-> "ok"], [rows |-> Killed(t), answer |-> "failed"]})
  \cup {[rows |-> token, answer |-> "failed"]}
RevokeCost(r) == IF r.answer = "failed" THEN SpendRenewal("errors") ELSE UNCHANGED nleft

\* The store as this step reads it; from now on only a later edit makes it stale.
Fresh0(r) == [r EXCEPT !.stale = FALSE]

-----------------------------------------------------------------------------
(* Steps 1-3: the store, the lock, the journal a dead run left *)

Awake(pc) ==
  [pc |-> pc, old |-> Ghost, new |-> Ghost, raw |-> store, known |-> {}, current |-> store.value,
   todo |-> {}, goal |-> "none", found |-> FALSE, clean |-> TRUE, keep |-> FALSE, rc |-> 0,
   stale |-> FALSE, force |-> FALSE, oldActive |-> FALSE, ok |-> TRUE]

\* Where a run starts: at the journal's phase, or at the decision.
Entry ==
  CASE intent.phase = "none" -> "decide"
    [] intent.phase = "minting" -> "sweep"
    [] intent.phase = "minted" -> IF store.value = intent.new THEN "recheck" ELSE "unstored"
    [] intent.phase = "verified" -> "recheck"

\* One run at a time, under the store's lock.  force is --renew-revoked, a person's choice.
\* A mint still on its way lands before the next scheduled run.
RunRenewal(force) ==
  /\ Running("idle") /\ ~late /\ store.value # Torn
  /\ IF force THEN SpendRenewal("human") ELSE UNCHANGED nleft
  /\ ~(intent.phase = "verified" /\ store.value # intent.new)
  /\ rn' = IF intent.phase = "none" THEN [Awake(Entry) EXCEPT !.force = force]
           ELSE [Awake(Entry) EXCEPT !.old = intent.old, !.known = intent.known, !.goal = "recover",
                                     !.new = IF intent.phase = "minting" THEN Ghost ELSE intent.new]
  /\ UNCHANGED <<token, late, store, intent, adopted>>

\* Minted but never in the store: revoked by its id, then the mint's window is swept again.
RevokeUnstored ==
  /\ Running("unstored")
  /\ \E r \in RevokeToken(rn.new) :
       /\ token' = r.rows /\ RevokeCost(r)
       /\ CASE r.answer = "ok" ->
                 rn' = [rn EXCEPT !.pc = "sweep", !.known = @ \cup {rn.new}, !.goal = "recover"]
            [] r.answer = "refused" ->
                 rn' = [rn EXCEPT !.pc = "sweep", !.known = @ \cup {rn.new}, !.goal = "refuse"]
            [] r.answer = "missing" -> rn' = [rn EXCEPT !.pc = "issued", !.goal = "recover"]
            [] r.answer = "failed" -> Exit
  /\ UNCHANGED <<late, store, intent, adopted>>

\* A second read, the list, must agree that the id was never issued.
NeverIssued ==
  /\ Running("issued")
  /\ \/ UNCHANGED nleft /\ Step("sweep")
     \/ SpendRenewal("errors") /\ Exit
  /\ UNCHANGED <<token, late, store, intent, adopted>>

-----------------------------------------------------------------------------
(* The sweep for tokens a lost answer may have created *)

\* Faulty variant: the sweep forgets which tokens were there before the mint.
OrphansAny == {t \in ListTokens : token[t].state # "revoked" /\ token[t].grant = "same" /\ t # rn.current}

\* Unrevoked, same grant, not the store's nor the old token, not in the snapshot.
Orphans ==
  {t \in ListTokens : /\ token[t].state # "revoked" /\ token[t].grant = "same"
                      /\ t \notin {rn.current, rn.old} /\ t \notin rn.known}

SweepTokens ==
  /\ Running("sweep")
  /\ \/ rn' = [rn EXCEPT !.pc = "orphans", !.todo = Orphans, !.found = FALSE, !.clean = TRUE] /\ UNCHANGED nleft
     \/ rn' = [rn EXCEPT !.pc = "swept", !.found = FALSE, !.clean = FALSE] /\ SpendRenewal("errors")
  /\ UNCHANGED <<token, late, store, intent, adopted>>

RevokeOrphan ==
  /\ Running("orphans")
  /\ IF rn.todo = {} THEN Step("swept") /\ UNCHANGED <<token, nleft>>
     ELSE LET t == CHOOSE u \in rn.todo : TRUE
          IN \E r \in RevokeToken(t) :
               /\ token' = r.rows /\ RevokeCost(r)
               /\ rn' = [rn EXCEPT !.todo = @ \ {t}, !.found = @ \/ r.answer = "ok",
                                   !.clean = @ /\ r.answer = "ok"]
  /\ UNCHANGED <<late, store, intent, adopted>>

\* After the sweep: is the journal kept for another sweep by the next run?
SweptKeeps(goal) ==
  CASE goal = "recover" -> ~rn.clean
    [] goal = "refuse" -> TRUE
    [] goal = "mint_failed" -> TRUE
    [] goal = "abandon_answer" -> ~rn.clean \/ rn.found
    [] goal = "abandon" -> TRUE

\* What the sweep was for goes on: a recovered run starts over, an abandoned id is revoked.
AfterSweep ==
  /\ Running("swept")
  /\ CASE rn.goal = "recover" /\ ~SweptKeeps("recover") -> intent' = NoIntent /\ Step("decide")
       [] rn.goal \in {"abandon", "abandon_answer"} ->
            rn' = [rn EXCEPT !.pc = "drop_new", !.keep = SweptKeeps(rn.goal)] /\ UNCHANGED intent
       [] OTHER -> Exit /\ intent' = IF SweptKeeps(rn.goal) THEN intent ELSE NoIntent
  /\ UNCHANGED <<token, late, store, adopted, nleft>>

-----------------------------------------------------------------------------
(* Steps 4-7: decide, mint, confirm, swap *)

\* The store's token is read; a revoked one is refused unless forced, one not due ends the run.
DecideRenewal ==
  /\ Running("decide")
  /\ \/ Exit /\ UNCHANGED nleft
     \/ \E s \in TokenState(store.value) :
          /\ store.value # Torn /\ ReadCost(store.value, s)
          /\ s \in {"active", "expired"} \/ (s = "revoked" /\ rn.force)
          /\ token[store.value].agent = "own" /\ Room
          /\ rn' = Fresh0([rn EXCEPT !.pc = "list", !.old = store.value, !.raw = store, !.current = store.value])
  /\ UNCHANGED <<token, late, store, intent, adopted>>

\* The snapshot of the agent's tokens, the old one always counted, then the intent on disk.
WriteIntent ==
  /\ Running("list")
  /\ LET known == ListTokens \cup {rn.old}
     IN \/ /\ intent' = [phase |-> "minting", old |-> rn.old, new |-> Ghost, known |-> known,
                         oldRevoked |-> token[rn.old].state = "revoked"]
           /\ rn' = [rn EXCEPT !.pc = "mint", !.known = known]
           /\ UNCHANGED nleft
        \/ SpendRenewal("odd") /\ Exit /\ UNCHANGED intent
  /\ UNCHANGED <<token, late, store, adopted>>

\* The minter of a row the tool's mint created; "misnamed" when the answer was another token's row.
MintedRows(minter) == [token EXCEPT ![Next0] = Row("active", "same", "own", minter)]

\* The mint call: answered, refused, lost with the token persisted now, later or not at all,
\* or answered with no new id, an id never issued, or the whole row of a token minted meanwhile.
MintToken ==
  /\ Running("mint")
  /\ \/ /\ Room /\ token' = MintedRows("tool") /\ rn' = [rn EXCEPT !.pc = "record", !.new = Next0, !.ok = TRUE]
        /\ UNCHANGED <<intent, late, nleft>>
     \/ /\ IF Room THEN SpendRenewal("errors") ELSE UNCHANGED nleft
        /\ intent' = NoIntent /\ Exit /\ UNCHANGED <<token, late>>
     \/ /\ Room /\ SpendRenewal("errors") /\ token' \in {token, MintedRows("tool")}
        /\ late' \in {FALSE, token' = token}
        /\ rn' = [rn EXCEPT !.pc = "sweep", !.goal = "mint_failed"] /\ UNCHANGED intent
     \/ /\ Room /\ SpendRenewal("odd") /\ token' = MintedRows("tool")
        /\ rn' = [rn EXCEPT !.pc = "record", !.new = Ghost, !.ok = TRUE]
        /\ UNCHANGED <<intent, late>>
     \/ /\ Room /\ SpendRenewal("odd") /\ token' = MintedRows("misnamed")
        /\ \E n \in {t \in Tokens \ rn.known : token[t].state = "active"} :
             rn' = [rn EXCEPT !.pc = "record", !.new = n, !.ok = FALSE]
        /\ UNCHANGED <<intent, late>>
  /\ UNCHANGED <<store, adopted>>

\* A token whose answer was lost is persisted after all.
PersistLate ==
  /\ late /\ late' = FALSE
  /\ IF Room THEN token' \in {token, MintedRows("tool")} ELSE UNCHANGED token
  /\ UNCHANGED <<store, intent, rn, adopted, nleft>>

\* The new id goes to disk before anything else; a disk that fails abandons it.
RecordMinted ==
  /\ Running("record")
  /\ \/ /\ intent' = [intent EXCEPT !.phase = "minted", !.new = rn.new]
        /\ IF rn.ok THEN Step("confirm")
           ELSE rn' = [rn EXCEPT !.pc = "sweep", !.goal = "abandon_answer", !.known = @ \cup {rn.new}]
        /\ UNCHANGED nleft
     \/ /\ SpendRenewal("odd") /\ UNCHANGED intent
        /\ rn' = [rn EXCEPT !.pc = "drop_new", !.keep = FALSE]
  /\ UNCHANGED <<token, late, store, adopted>>

\* same_grant: agent, grantor, scope and lifetime are the ones asked for.
SameGrant(t) == token[t].grant = "same" /\ token[t].agent = "own"

\* A fresh read must show the same grant, alive; a missing id is looked for in the list as well.
ConfirmMint ==
  /\ Running("confirm")
  /\ \E s \in TokenState(rn.new) :
       /\ ReadCost(rn.new, s)
       /\ CASE s = "missing" ->
                 /\ intent' = [intent EXCEPT !.phase = "minting", !.new = Ghost]
                 /\ rn' = [rn EXCEPT !.pc = "sweep", !.goal = "mint_failed", !.new = Ghost]
            [] s = "unreadable" -> rn' = [rn EXCEPT !.pc = "drop_new", !.keep = FALSE] /\ UNCHANGED intent
            [] s = "active" /\ SameGrant(rn.new) -> Step("swap") /\ UNCHANGED intent
            [] OTHER -> rn' = [rn EXCEPT !.pc = "sweep", !.goal = "abandon"] /\ UNCHANGED intent
  /\ UNCHANGED <<token, late, store, adopted>>

\* The store must be what was read; the swap is atomic, and a failed one puts the bytes back or not.
SwapStore ==
  /\ Running("swap")
  /\ \/ /\ store # rn.raw /\ rn' = [rn EXCEPT !.pc = "drop_new", !.keep = FALSE]
        /\ UNCHANGED <<store, nleft>>
     \/ /\ store = rn.raw /\ store' = [store EXCEPT !.value = rn.new]
        /\ rn' = Fresh0([rn EXCEPT !.pc = "verify"]) /\ UNCHANGED nleft
     \/ /\ store = rn.raw /\ SpendRenewal("errors")
        /\ store' \in {store, [store EXCEPT !.value = rn.new]}
        /\ rn' = [rn EXCEPT !.pc = "drop_new", !.keep = FALSE]
  /\ UNCHANGED <<token, late, intent, adopted>>

\* Faulty variant: an abandoned token is revoked without a look at the store.
MayDropAlways(t) == TRUE

\* revoke_unless_stored: the token the store holds, or may hold, is never revoked.
MayDrop(t) == store.value \notin {t, Torn}

\* abandon: revoke the new token, then clear the journal, keep it, or go back to the intent.
DropNew ==
  /\ Running("drop_new")
  /\ IF ~MayDrop(rn.new) THEN Exit /\ UNCHANGED <<token, nleft>>
     ELSE \E r \in RevokeToken(rn.new) :
            /\ token' = r.rows /\ RevokeCost(r)
            /\ IF r.answer = "ok" THEN rn' = Fresh0([rn EXCEPT !.pc = "dropped"]) ELSE Exit
  /\ UNCHANGED <<late, store, intent, adopted>>

AbandonEnds ==
  /\ Running("dropped")
  /\ \/ /\ intent' = IF rn.keep THEN [intent EXCEPT !.phase = "minting", !.new = Ghost] ELSE NoIntent
        /\ UNCHANGED nleft
     \/ rn.keep /\ SpendRenewal("odd") /\ UNCHANGED intent
  /\ Exit
  /\ UNCHANGED <<token, late, store, adopted>>

-----------------------------------------------------------------------------
(* Steps 8-10: verify, read both tokens again, finish or undo *)

\* The command proves something only while the token works; it may fail or time out anyway.
RunVerify ==
  /\ Running("verify")
  /\ \/ /\ token[rn.new].state = "active" /\ store.value = rn.new
        /\ rn' = [rn EXCEPT !.pc = "check", !.rc = 0] /\ UNCHANGED nleft
     \/ /\ IF token[rn.new].state = "active" /\ store.value = rn.new THEN SpendRenewal("verifies") ELSE UNCHANGED nleft
        /\ rn' = [rn EXCEPT !.pc = "check", !.rc = 1]
  /\ UNCHANGED <<token, late, store, intent, adopted>>

\* check_tokens: a dead new token, or an old one someone revoked meanwhile, is not worked around.
CheckTokens(go) ==
  \E n \in TokenState(rn.new), o \in TokenState(rn.old) :
    /\ ("unreadable" \in {n, o}) => SpendRenewal("errors")
    /\ ("unreadable" \notin {n, o}) => UNCHANGED nleft
    /\ CASE n \in {"revoked", "expired"} -> Exit
         [] o = "revoked" /\ n \notin {"revoked", "expired"} /\ ~intent.oldRevoked /\ intent.phase # "verified" ->
              Step("halted_new")
         [] n = "active" /\ o # "unreadable"
            /\ ~(o = "revoked" /\ ~intent.oldRevoked /\ intent.phase # "verified") ->
              rn' = [rn EXCEPT !.pc = go, !.oldActive = o = "active"]
         [] OTHER -> Exit

CheckAfterVerify ==
  /\ Running("check") /\ CheckTokens(IF rn.rc = 0 THEN "finish" ELSE "undo")
  /\ UNCHANGED <<token, late, store, intent, adopted>>

\* A recovered run whose new token is in the store: verified ones only retry the old one's revoke.
CheckRecovered ==
  /\ Running("recheck") /\ CheckTokens(IF intent.phase = "verified" THEN "close" ELSE "verify")
  /\ UNCHANGED <<token, late, store, intent, adopted>>

\* The old token was revoked under the renewal: the new one goes too, and the run refuses.
RevokedDuringRenewal ==
  /\ Running("halted_new")
  /\ \E r \in RevokeToken(rn.new) :
       /\ token' = r.rows /\ RevokeCost(r)
       /\ intent' = IF r.answer = "ok" THEN NoIntent ELSE intent
  /\ Exit
  /\ UNCHANGED <<late, store, adopted>>

\* The store must still hold the proven token; then the journal says verified.
Finish ==
  /\ Running("finish")
  /\ \/ /\ store.value # rn.new /\ Exit /\ UNCHANGED <<intent, nleft>>
     \/ /\ store.value = rn.new /\ intent' = [intent EXCEPT !.phase = "verified"]
        /\ rn' = Fresh0([rn EXCEPT !.pc = "close"]) /\ UNCHANGED nleft
     \/ store.value = rn.new /\ SpendRenewal("odd") /\ Exit /\ UNCHANGED intent
  /\ UNCHANGED <<token, late, store, adopted>>

\* The old token is revoked; only a confirmed revoke lets the journal go.
CloseRenewal ==
  /\ Running("close")
  /\ \E r \in RevokeToken(rn.old) :
       /\ token' = r.rows /\ RevokeCost(r)
       /\ IF r.answer = "ok" THEN Step("closed") ELSE Exit
  /\ UNCHANGED <<late, store, intent, adopted>>

ClearJournal ==
  /\ Running("closed") /\ intent' = NoIntent /\ adopted' = adopted \cup {rn.new} /\ Exit
  /\ UNCHANGED <<token, late, store, nleft>>

\* A failed verification goes back to the old token only while that one is active.
Undo ==
  /\ Running("undo")
  /\ \/ /\ ~rn.oldActive /\ Exit /\ UNCHANGED <<store, nleft>>
     \/ /\ rn.oldActive /\ store.value # rn.new /\ store.value # Torn
        /\ rn' = Fresh0([rn EXCEPT !.pc = "undo_new", !.ok = store.value = rn.old])
        /\ UNCHANGED <<store, nleft>>
     \/ /\ rn.oldActive /\ store.value = rn.new
        /\ store' = [store EXCEPT !.value = rn.old]
        /\ rn' = Fresh0([rn EXCEPT !.pc = "undo_new", !.ok = TRUE]) /\ UNCHANGED nleft
     \/ /\ rn.oldActive /\ store.value = rn.new /\ SpendRenewal("errors")
        /\ rn' = [rn EXCEPT !.pc = "undo_new", !.ok = FALSE] /\ UNCHANGED store
     \/ /\ rn.oldActive /\ store.value = Torn /\ Exit /\ UNCHANGED <<store, nleft>>
  /\ UNCHANGED <<token, late, intent, adopted>>

UndoNew ==
  /\ Running("undo_new")
  /\ IF ~MayDrop(rn.new) THEN Exit /\ UNCHANGED <<token, intent, nleft>>
     ELSE \E r \in RevokeToken(rn.new) :
            /\ token' = r.rows /\ RevokeCost(r)
            /\ intent' = IF rn.ok /\ r.answer = "ok" THEN NoIntent ELSE intent
            /\ Exit
  /\ UNCHANGED <<late, store, adopted>>

-----------------------------------------------------------------------------
(* Crashes and people *)

RenewalCrash ==
  /\ ~Running("idle") /\ SpendRenewal("crashes") /\ Exit
  /\ UNCHANGED <<token, late, store, intent, adopted>>

RevokeByHand(t) ==
  /\ token[t].state = "active" /\ SpendRenewal("human")
  /\ token' = [token EXCEPT ![t].state = "revoked", ![t].by = "human"]
  /\ UNCHANGED <<late, store, intent, rn, adopted>>
ExpireToken(t) ==
  /\ token[t].state = "active" /\ SpendRenewal("human")
  /\ token' = [token EXCEPT ![t].state = "expired"]
  /\ UNCHANGED <<late, store, intent, rn, adopted>>

\* Somebody mints: the same grant only while no renewal's mint window is open.
MintByHand(grant, agent) ==
  /\ Room /\ SpendRenewal("human")
  /\ grant = "same" => Running("idle") /\ intent.phase = "none" /\ ~late
  /\ token' = [token EXCEPT ![Next0] = Row("active", grant, agent, "human")]
  /\ UNCHANGED <<late, store, intent, rn, adopted>>

\* The store is edited: another token under the key, other bytes only, or something unreadable.
EditStore(v) ==
  /\ SpendRenewal("human") /\ v \in {Torn} \cup {t \in Tokens : token[t].state # "none"}
  /\ store' = [value |-> v, rest |-> 1 - store.rest]
  /\ rn' = IF Running("idle") THEN rn ELSE [rn EXCEPT !.stale = TRUE]
  /\ adopted' = adopted \cup {v}
  /\ UNCHANGED <<token, late, intent>>

RenewalStep ==
  \/ RevokeUnstored \/ NeverIssued \/ SweepTokens \/ RevokeOrphan \/ AfterSweep
  \/ DecideRenewal \/ WriteIntent \/ MintToken \/ RecordMinted \/ ConfirmMint \/ SwapStore
  \/ DropNew \/ AbandonEnds \/ RunVerify \/ CheckAfterVerify \/ CheckRecovered
  \/ RevokedDuringRenewal \/ Finish \/ CloseRenewal \/ ClearJournal \/ Undo \/ UndoNew

RenewalNext ==
  \/ RenewalStep \/ PersistLate \/ RenewalCrash
  \/ \E f \in BOOLEAN : RunRenewal(f)
  \/ \E t \in Tokens : RevokeByHand(t) \/ ExpireToken(t)
  \/ \E g \in {"same", "other"}, a \in {"own", "other"} : MintByHand(g, a)
  \/ \E v \in Tokens \cup {Torn} : EditStore(v)

\* The schedule keeps starting runs, a run keeps going, a late mint lands.
RenewalFairness ==
  WF_renewalVars(RenewalStep) /\ WF_renewalVars(RunRenewal(FALSE)) /\ WF_renewalVars(PersistLate)

RenewalSpec == RenewalInit /\ [][RenewalNext]_renewalVars /\ RenewalFairness

-----------------------------------------------------------------------------
(* Properties *)

\* The tool never revokes the token the store holds: only an edit after its last look at the
\* store, or a person's revocation of the old token under the renewal, explains one.
StoredTokenSpared ==
  [][\A t \in Tokens :
       (t = store.value /\ token[t].by # "tool" /\ token'[t].by = "tool") =>
         rn.stale \/ token[rn.old].by = "human"]_renewalVars

\* Once no run and no journal is left, no token this minter's mints created stays alive outside
\* the renewals that finished.
NoneLeft(minter) ==
  Running("idle") /\ intent.phase = "none" /\ ~late =>
    \A t \in Tokens : token[t].minter = minter /\ token[t].state = "active" => t \in adopted

\* Lost answers, answers without an id, late rows, full disks and crashes leave no token astray.
NoOrphanToken == NoneLeft("tool")

\* Nor does an answer that is another token's row, as long as nothing else odd happens to its run.
MisnamedSwept == NoneLeft("misnamed")

\* Of the tokens in the snapshot taken before a mint, that renewal only ever revokes the one it
\* set out to replace: not as its new token, not as an orphan, in whatever run.
SnapshotSpared ==
  [][\A t \in Tokens :
       (intent.phase # "none" /\ t \in intent.known /\ token[t].by # "tool" /\ token'[t].by = "tool") =>
         t = intent.old]_renewalVars

\* A journal is worked off, or the case is a person's: the store edited after the proof or torn,
\* the new token dead while the store holds it, or the journaled id another agent's.
RenewalSettles ==
  intent.phase # "none" ~>
    \/ intent.phase = "none" \/ store.value = Torn
    \/ intent.new # Ghost /\ (token[intent.new].state # "active" \/ token[intent.new].agent # "own")
    \/ intent.phase = "verified" /\ store.value # intent.new
=============================================================================
