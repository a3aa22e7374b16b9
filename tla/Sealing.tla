-------------------------------- MODULE Sealing --------------------------------
(***************************************************************************)
(* Who vouches for an event.  The ledger signs what it writes when it       *)
(* holds a key, and stores a caller's claim only after checking it against  *)
(* the caller's public key, looked up in a keyring directory through a      *)
(* cache of file times.  Stop-type events are written even when neither     *)
(* can be had.  `ledger verify` re-checks both kinds of signature later.    *)
(***************************************************************************)
EXTENDS Integers, Sequences, FiniteSets

CONSTANTS
  Appends,         \* served appends, each in a thread of the append lane
  CallerIds,       \* ids a claim may carry
  CallerKeys,      \* keys callers sign with
  SignKeys,        \* keys FIELD_LEDGER_SIGN_KEY may name
  SealingSettings, \* [keyring, requireSigning, requireCaller] a ledger may start with
  MaxChanges       \* changes of the keyring, of the sign key, and restarts (bound)

ASSUME SealingAssumption ==
  /\ {"none", "incomplete"} \cap CallerIds = {} /\ MaxChanges \in Nat
  /\ SealingSettings \subseteq [keyring : BOOLEAN, requireSigning : BOOLEAN, requireCaller : BOOLEAN]

VARIABLES
  signFile,        \* what the sign key's path holds: a key, "bad" or "unset"
  config,          \* the running ledger's SigningConfig and CallerPolicy
  keyring,         \* caller id -> its file [key, mtime]: a key, "bad" or "absent"
  cache,           \* CallerKeyring._cache: caller id -> [mtime, key]
  append,          \* each append: request, lookup and answer
  sealChain,       \* the events written
  verify,          \* a `ledger verify --event-pubkey --caller-keyring`
  sealChanges

sealingVars == <<signFile, config, keyring, cache, append, sealChain, verify, sealChanges>>

Types == {"start", "stop"}                      \* is_stop_type
Uncached == [mtime |-> -1, key |-> "absent"]
NoClaim == [caller |-> "none"]
Claims ==
  {NoClaim, [caller |-> "incomplete"]} \cup
  [caller: CallerIds, key: CallerKeys, fault: {"none", "stale", "other body"}]
Signed(e) == e.signature # "none"
SealWaiting == [at |-> "waiting"]
NoVerdict == [verdict |-> "none", pubkey |-> "none"]

\* load_signing_config: a missing or unusable key is a state, never an exit.
SigningConfig(file) == IF file \in SignKeys THEN file ELSE "none"
Loaded(settings) == [key |-> SigningConfig(signFile), keyring |-> settings.keyring,
  requireSigning |-> settings.requireSigning, requireCaller |-> settings.requireCaller]

SealingInit ==
  /\ signFile \in SignKeys \cup {"unset"}
  /\ \E settings \in SealingSettings: config = Loaded(settings)
  /\ keyring \in [CallerIds -> [key: CallerKeys \cup {"absent"}, mtime: {0}]]
  /\ cache = [c \in CallerIds |-> Uncached]
  /\ append = [a \in Appends |-> SealWaiting] /\ sealChain = <<>> /\ verify = NoVerdict /\ sealChanges = 0

-----------------------------------------------------------------------------
(* The world around the ledger. *)

Change == sealChanges < MaxChanges /\ sealChanges' = sealChanges + 1

InFlight(a) == append[a].at \in {"received", "reading", "sealing"}

\* A keyring file is imported, replaced, broken or removed; an append in
\* flight may have looked the file up before or after.
ImportKey(c) ==
  /\ Change
  /\ \E k \in (CallerKeys \cup {"bad", "absent"}) \ {keyring[c].key}:
       /\ keyring' = [keyring EXCEPT ![c] = [key |-> k, mtime |-> @.mtime + 1]]
       /\ append' = [a \in Appends |-> IF InFlight(a) /\ append[a].claim.caller = c
                                       THEN [append[a] EXCEPT !.seen = @ \cup {k}] ELSE append[a]]
  /\ UNCHANGED <<signFile, config, cache, sealChain, verify>>

ReplaceSignKey ==
  /\ Change
  /\ signFile' \in (SignKeys \cup {"bad", "unset"}) \ {signFile}
  /\ UNCHANGED <<config, keyring, cache, append, sealChain, verify>>

\* Settings are loaded once, at start; a restart empties the cache and loses
\* the appends in flight.
Restart ==
  /\ Change
  /\ config' = Loaded(config)
  /\ cache' = [c \in CallerIds |-> Uncached]
  /\ append' = [a \in Appends |-> IF InFlight(a) THEN [append[a] EXCEPT !.at = "answered", !.code = 0]
                                  ELSE append[a]]
  /\ UNCHANGED <<signFile, keyring, sealChain, verify>>

-----------------------------------------------------------------------------
(* POST /events. *)

SealGoto(a, at) == append' = [append EXCEPT ![a].at = at]
SealAnswer(a, code) == append' = [append EXCEPT ![a].at = "answered", ![a].code = code]

\* CallerPolicy.check on a body with no claim.
UnclaimedStamp(type) ==
  IF ~config.requireCaller THEN "none" ELSE IF type = "stop" THEN "caller_unsigned" ELSE "refused"

\* Faulty variant: a claim that does not verify refuses every type.
BadClaimStampRefused(type) == "refused"
\* A claim that does not verify: a stop lands without it where one is required.
BadClaimStamp(type) ==
  IF config.requireCaller /\ type = "stop" THEN "caller_unsigned" ELSE "refused"

Stamped(a, stamp) ==
  IF stamp = "refused" THEN SealAnswer(a, 403)
  ELSE append' = [append EXCEPT ![a].at = "sealing", ![a].stamp = stamp]

Receive(a) ==
  /\ append[a] = SealWaiting
  /\ \E type \in Types, claim \in Claims:
       LET req == [at |-> "received", type |-> type, claim |-> claim, stat |-> -1,
                   stamp |-> "none", code |-> 0,
                   seen |-> {keyring[c].key: c \in CallerIds \cap {claim.caller}}]
       IN  append' = [append EXCEPT ![a] = req]
  /\ UNCHANGED <<signFile, config, keyring, cache, sealChain, verify, sealChanges>>

CheckUnclaimed(a) ==
  /\ append[a].at = "received" /\ append[a].claim = NoClaim
  /\ Stamped(a, UnclaimedStamp(append[a].type))
  /\ UNCHANGED <<signFile, config, keyring, cache, sealChain, verify, sealChanges>>

Unverifiable(a) == append[a].claim.caller = "incomplete" \/ ~config.keyring

CheckUnverifiable(a) ==
  /\ append[a].at = "received" /\ append[a].claim # NoClaim /\ Unverifiable(a)
  /\ Stamped(a, BadClaimStamp(append[a].type))
  /\ UNCHANGED <<signFile, config, keyring, cache, sealChain, verify, sealChanges>>

\* The claim's remaining checks, once the caller's public key is known.
ClaimVerifies(claim, key) ==
  claim.fault = "none" /\ claim.key = key
SealDecide(a, key) ==
  Stamped(a, IF ClaimVerifies(append[a].claim, key) THEN "claim" ELSE BadClaimStamp(append[a].type))

\* public_pem: the file's times, then, unless the cache has them, its content.
\* Faulty variant: what was read once is never looked up again.
CacheAnswersAlways(c) == cache[c] # Uncached
CacheAnswers(c) == cache[c].mtime = keyring[c].mtime
StatKey(a) ==
  /\ append[a].at = "received" /\ append[a].claim # NoClaim /\ ~Unverifiable(a)
  /\ LET c == append[a].claim.caller
     IN  CASE keyring[c].key = "absent" -> Stamped(a, BadClaimStamp(append[a].type))
           [] keyring[c].key # "absent" /\ CacheAnswers(c) -> SealDecide(a, cache[c].key)
           [] OTHER -> append' = [append EXCEPT ![a].at = "reading", ![a].stat = keyring[c].mtime]
  /\ UNCHANGED <<signFile, config, keyring, cache, sealChain, verify, sealChanges>>

CacheEntry(a, c) == [mtime |-> append[a].stat, key |-> keyring[c].key]
ReadKey(a) ==
  /\ append[a].at = "reading"
  /\ LET c == append[a].claim.caller
     IN  IF keyring[c].key \in CallerKeys
         THEN SealDecide(a, keyring[c].key) /\ cache' = [cache EXCEPT ![c] = CacheEntry(a, c)]
         ELSE Stamped(a, BadClaimStamp(append[a].type)) /\ UNCHANGED cache
  /\ UNCHANGED <<signFile, config, keyring, sealChain, verify, sealChanges>>

\* _require_appendable, then _seal: hash first, sign second.
Appendable(type) == ~config.requireSigning \/ config.key # "none" \/ type = "stop"
SigningFailed == config.key = "none" /\ config.requireSigning

SealEvent(type, stamp, claim) ==
  [type |-> type, signature |-> config.key, signing_failed |-> SigningFailed,
   stamp |-> stamp, claim |-> IF stamp = "claim" THEN claim ELSE NoClaim, intact |-> TRUE]

Seal(a) ==
  /\ append[a].at = "sealing"
  /\ IF Appendable(append[a].type)
     THEN /\ sealChain' = Append(sealChain, SealEvent(append[a].type, append[a].stamp, append[a].claim))
          /\ SealAnswer(a, 201)
     ELSE SealAnswer(a, 503) /\ UNCHANGED sealChain
  /\ UNCHANGED <<signFile, config, keyring, cache, verify, sealChanges>>

\* The ledger's own events (hold, retention, rotation): no caller policy.
OwnAppend ==
  /\ sealChain = <<>> /\ Appendable("start")
  /\ sealChain' = Append(sealChain, SealEvent("start", "own", NoClaim))
  /\ UNCHANGED <<signFile, config, keyring, cache, append, verify, sealChanges>>

-----------------------------------------------------------------------------
(* ledger verify. *)

\* A stored event is altered and the chain rebuilt over it: only signatures tell.
AlterEvent ==
  /\ Change
  /\ \E i \in DOMAIN sealChain: sealChain' = [sealChain EXCEPT ![i].intact = FALSE]
  /\ UNCHANGED <<signFile, config, keyring, cache, append, verify>>

EventSignatureHolds(e, pubkey) == Signed(e) => e.signature = pubkey /\ e.intact
CallerSignatureHolds(e) ==
  e.claim # NoClaim => keyring[e.claim.caller].key = e.claim.key /\ e.intact

CheckSignatures(pubkey) ==
  CASE \E i \in DOMAIN sealChain: ~EventSignatureHolds(sealChain[i], pubkey) -> "SIGNATURE INVALID"
    [] \E i \in DOMAIN sealChain: /\ sealChain[i].claim # NoClaim
                                  /\ keyring[sealChain[i].claim.caller].key \notin CallerKeys -> "CALLER UNKNOWN"
    [] \E i \in DOMAIN sealChain: ~CallerSignatureHolds(sealChain[i]) -> "CALLER SIGNATURE INVALID"
    [] OTHER -> "OK"

Verify ==
  /\ verify = NoVerdict /\ sealChain # <<>>
  /\ \E k \in SignKeys: verify' = [verdict |-> CheckSignatures(k), pubkey |-> k]
  /\ UNCHANGED <<signFile, config, keyring, cache, append, sealChain, sealChanges>>

SealingNext ==
  \/ \E c \in CallerIds: ImportKey(c)
  \/ ReplaceSignKey \/ Restart \/ OwnAppend \/ AlterEvent \/ Verify
  \/ \E a \in Appends: \/ Receive(a) \/ CheckUnclaimed(a) \/ CheckUnverifiable(a)
                       \/ StatKey(a) \/ ReadKey(a) \/ Seal(a)
SealingSpec == SealingInit /\ [][SealingNext]_sealingVars
-----------------------------------------------------------------------------
\* A stored claim is its caller's: fresh, over this very body, and signed with
\* a key its file held while the append ran, however the cache, the file and
\* other appends interleave; and a verification of a chain nobody altered
\* objects only where a key was exchanged since (CallerKeyring.public_pem,
\* CallerPolicy._verify_claim, cli.py _check_caller_signatures).
ClaimsGenuine ==
  /\ \A a \in Appends: append[a].at \in {"sealing", "answered"} =>
       (append[a].stamp = "claim" => /\ append[a].claim.key \in append[a].seen
                                     /\ append[a].claim.fault = "none")
  /\ verify.verdict \notin {"none", "OK"} =>
       \/ \E i \in DOMAIN sealChain: ~sealChain[i].intact \/ sealChain[i].signature \notin {"none", verify.pubkey}
       \/ \E c \in CallerIds: keyring[c].mtime > 0

\* A stop is always written: with no claim, always; with a claim that does
\* not verify, wherever claims are required.  What is written without a
\* required signature is a stop and says so (store.py CallerPolicy.check,
\* _require_appendable and _seal).
StopsLand ==
  /\ \A a \in Appends:
       append[a].at = "answered" /\ append[a].type = "stop" /\ append[a].code \in {403, 503} =>
         append[a].claim # NoClaim /\ ~config.requireCaller
  /\ \A i \in DOMAIN sealChain: LET e == sealChain[i] IN
       /\ config.requireSigning /\ ~Signed(e) => e.type = "stop" /\ e.signing_failed
       /\ config.requireCaller /\ e.claim = NoClaim /\ e.stamp # "own" =>
            e.type = "stop" /\ e.stamp = "caller_unsigned"
=============================================================================
