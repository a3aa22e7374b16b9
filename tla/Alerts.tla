-------------------------------- MODULE Alerts --------------------------------
(***************************************************************************)
(* field_core/alerts.py and alert_senders.py: an event raises one alert of  *)
(* its class; the destination is read from files anew for every alert, each *)
(* attempt runs in a thread of its own that is abandoned at its deadline,   *)
(* and a send ends in exactly one of two counters.                          *)
(***************************************************************************)
EXTENDS Integers, FiniteSets

CONSTANTS
  Senders,          \* threads of one process, each with an alert to send
  MaxAttempts,
  AlertBudget       \* files rewritten while the process runs

VARIABLES
  topicFile,        \* what FIELD_NTFY_TOPIC_FILE holds
  tokenFile,
  send,             \* sender -> where its alert is
  posts,            \* <<sender, attempt>> -> what became of the request
  counters,         \* sent, failed, content_withheld
  abudget

alertVars == <<topicFile, tokenFile, send, posts, counters, abudget>>

\* A topic is long enough to be a secret of its own or not; "unset" has no
\* variable at all, "broken" is unreadable, empty, or no topic.
TopicFiles == {"long", "short", "broken", "unset"}
TokenFiles == {"token", "broken", "unset"}

EventClass == [failed |-> "rotation_failed", breakglass |-> "breakglass_used"]
EventTypes == DOMAIN EventClass \cup {"other"}

\* How many fields of an alert are outside the alert charset, look like a secret,
\* or hold the topic or token of its own destination.
WithheldFields == {0, 1}

AlertIdle == [at |-> "idle"]
NoPost == [got |-> FALSE, said |-> "nothing"]
NoCounters == [sent |-> 0, failed |-> 0, withheld |-> 0]

AlertsInit ==
  /\ topicFile \in TopicFiles /\ tokenFile \in TokenFiles
  /\ send = [s \in Senders |-> AlertIdle]
  /\ posts = [p \in Senders \X (1 .. MaxAttempts) |-> NoPost]
  /\ counters = NoCounters /\ abudget = AlertBudget

Move(s, c) == send' = [send EXCEPT ![s] = c]
Where(s, at) == send[s].at = at
Quiet == UNCHANGED <<topicFile, tokenFile, abudget>>

AlertsAssumption == IsFiniteSet(Senders) /\ MaxAttempts \in Nat \ {0}
ASSUME AlertsAssumption

-----------------------------------------------------------------------------
(* A send *)

\* alert_for_event: an event of no class raises nothing and counts nothing.
AlertForEvent(s) ==
  /\ Where(s, "idle")
  /\ \E e \in EventTypes : Move(s, [at |-> IF e \in DOMAIN EventClass THEN "topic" ELSE "none"])
  /\ UNCHANGED <<posts, counters>> /\ Quiet

SendFails(s, attempts) ==
  /\ counters' = [counters EXCEPT !.failed = @ + 1]
  /\ Move(s, [at |-> "done", ok |-> FALSE, attempts |-> attempts])

\* resolve_destination: the topic first, from its file if one is named, and never
\* from anywhere else when that file cannot be read.
ReadTopic(s) ==
  /\ Where(s, "topic")
  /\ IF topicFile \in {"unset", "broken"}
     THEN SendFails(s, 0)
     ELSE /\ Move(s, [at |-> "token", topic |-> topicFile])
          /\ UNCHANGED counters
  /\ UNCHANGED posts /\ Quiet

\* Without a token the topic is the only secret: a short one is refused.
ReadToken(s) ==
  /\ Where(s, "token")
  /\ IF tokenFile = "broken" \/ (tokenFile = "unset" /\ send[s].topic = "short")
     THEN SendFails(s, 0)
     ELSE /\ Move(s, [at |-> "render"])
          /\ UNCHANGED counters
  /\ UNCHANGED posts /\ Quiet

\* A field that fails the content check is withheld and the alert still goes.
AlertRender(s) ==
  /\ Where(s, "render")
  /\ \E n \in WithheldFields : counters' = [counters EXCEPT !.withheld = @ + n]
  /\ Move(s, [at |-> "start", attempt |-> 1])
  /\ UNCHANGED posts /\ Quiet

\* Each attempt, after its back-off, in a thread of its own.
StartAttempt(s) ==
  /\ Where(s, "start")
  /\ Move(s, [at |-> "join", attempt |-> send[s].attempt])
  /\ posts' = [posts EXCEPT ![<<s, send[s].attempt>>].said = "working"]
  /\ UNCHANGED counters /\ Quiet

\* What an attempt's answer means: 2xx, 429 and 5xx and the network, the rest.
Retryable == {"busy", "network", "timeout"}
AfterAttempt(s, said) ==
  LET n == send[s].attempt
  IN IF said = "ok"
     THEN /\ counters' = [counters EXCEPT !.sent = @ + 1]
          /\ Move(s, [at |-> "done", ok |-> TRUE, attempts |-> n])
     ELSE IF said \in Retryable /\ n < MaxAttempts
     THEN Move(s, [at |-> "start", attempt |-> n + 1]) /\ UNCHANGED counters
     ELSE SendFails(s, n)

Joins(s) ==
  /\ Where(s, "join") /\ posts[<<s, send[s].attempt>>].said \notin {"working", "nothing"}
  /\ AfterAttempt(s, posts[<<s, send[s].attempt>>].said)
  /\ UNCHANGED posts /\ Quiet

\* Faulty variant: an attempt past its deadline is waited for all the same, since
\* urllib has a timeout of its own.
GivesUpNever(s) == FALSE /\ Joins(s)

\* Faulty variant: a request that was on its way at the deadline counts as sent.
GivesUpSent(s) ==
  /\ Where(s, "join") /\ posts[<<s, send[s].attempt>>].said = "working"
  /\ AfterAttempt(s, "ok") /\ UNCHANGED posts /\ Quiet

\* Past the wall-clock deadline the attempt is a timeout and its thread abandoned.
GivesUp(s) ==
  /\ Where(s, "join") /\ posts[<<s, send[s].attempt>>].said = "working"
  /\ AfterAttempt(s, "timeout")
  /\ posts' = [posts EXCEPT ![<<s, send[s].attempt>>].said = "abandoned"]
  /\ Quiet

-----------------------------------------------------------------------------
(* An attempt's thread and the server, both free to take any time, or for ever *)

Accepts(p) ==
  /\ posts[p].said \in {"working", "abandoned"} /\ ~posts[p].got
  /\ posts' = [posts EXCEPT ![p].got = TRUE]
  /\ UNCHANGED <<send, counters>> /\ Quiet

\* The answer of a server that took the alert may be lost or replaced on the way
\* back; one that did not take it never says 2xx.  What an abandoned thread hears
\* nobody reads.
Answered(p) ==
  /\ posts[p].said = "working"
  /\ \E said \in {"busy", "network", "refused"} \cup (IF posts[p].got THEN {"ok"} ELSE {}) :
       posts' = [posts EXCEPT ![p].said = said]
  /\ UNCHANGED <<send, counters>> /\ Quiet

-----------------------------------------------------------------------------
\* write_topic_file and the operator's editor: the two files change one by one.
FilesChange ==
  /\ abudget > 0 /\ abudget' = abudget - 1
  /\ \/ topicFile' \in TopicFiles \ {topicFile, "unset"} /\ UNCHANGED tokenFile
     \/ tokenFile' \in TokenFiles \ {tokenFile, "unset"} /\ UNCHANGED topicFile
  /\ UNCHANGED <<send, posts, counters>>

SendStep(s) ==
  \/ AlertForEvent(s) \/ ReadTopic(s) \/ ReadToken(s) \/ AlertRender(s)
  \/ StartAttempt(s) \/ Joins(s) \/ GivesUp(s)

AlertsNext ==
  \/ \E s \in Senders : SendStep(s)
  \/ \E p \in DOMAIN posts : Accepts(p) \/ Answered(p)
  \/ FilesChange

\* The sending thread runs and its deadlines pass; nothing is assumed of the server
\* or of the attempts' threads.
AlertsSpec ==
  AlertsInit /\ [][AlertsNext]_alertVars /\ \A s \in Senders : WF_alertVars(SendStep(s))

-----------------------------------------------------------------------------
(* Properties *)

AlertEnded(ok) == {s \in Senders : Where(s, "done") /\ send[s].ok = ok}
Got(s) == \E n \in 1 .. MaxAttempts : posts[<<s, n>>].got

\* However the attempts of several threads, their late answers and changes of the
\* files interleave: a send is counted once and nobody is told an alert was
\* delivered that the server never took.
AlertsAccounted ==
  /\ counters.sent = Cardinality(AlertEnded(TRUE)) /\ counters.failed = Cardinality(AlertEnded(FALSE))
  /\ \A s \in AlertEnded(TRUE) : Got(s)

\* send blocks its caller for a bounded time, though the server never answers.
SendsReturn == \A s \in Senders : Where(s, "topic") ~> Where(s, "done")
=============================================================================
