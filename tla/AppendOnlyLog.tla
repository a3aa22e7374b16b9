---------------------------- MODULE AppendOnlyLog ----------------------------
(***************************************************************************)
(* What the sealed ledger promises: one log that only ever grows at its    *)
(* end, every entry chained to the one before it, and callers told only of *)
(* entries that are in it.                                                 *)
(***************************************************************************)
EXTENDS Naturals, Sequences

VARIABLES log,    \* the events, oldest first
          told    \* ids of the events some caller was told are sealed

lvars == <<log, told>>

Head0 == IF log = <<>> THEN 0 ELSE log[Len(log)].id
Ids == {log[i].id : i \in 1..Len(log)}

LogInit == log = <<>> /\ told = {}

\* An event is sealed at the end of the log.
Seal(e) == e.prev = Head0 /\ e.id \notin Ids /\ log' = Append(log, e)

\* A caller learns that some sealed events are in; possibly in the sealing step.
Tell == told \subseteq told' /\ told' \ told \subseteq Ids'

LogNext ==
  /\ UNCHANGED log \/ (Len(log') = Len(log) + 1 /\ Seal(log'[Len(log')]))
  /\ Tell

LogSpec == LogInit /\ [][LogNext]_lvars
=============================================================================
