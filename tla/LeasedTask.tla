----------------------------- MODULE LeasedTask -----------------------------
(***************************************************************************)
(* What a table of leased work promises: a task that is asked for is       *)
(* taken by one process at a time, only its holder ends it or returns it,  *)
(* its result is replaced only by whoever holds it, and only with one that *)
(* readers can rely on, and a task is taken away only from a holder whose  *)
(* process lease has expired.  WikiQueue and ReviewQueue implement it.     *)
(***************************************************************************)
CONSTANTS
  Task,
  Proc,
  None,
  Good      \* results that readers can rely on

VARIABLES
  status,   \* "idle", "waiting" for a process, or "held"
  holder,   \* the process that holds a held task
  result,   \* what is on display: a result and the process that made it
  live      \* processes with an unexpired lease

vars == <<status, holder, result, live>>

Init ==
  /\ status = [t \in Task |-> "idle"]
  /\ holder = [t \in Task |-> None]
  /\ result = [t \in Task |-> None]
  /\ live = {}

Ask(t) ==
  /\ status[t] # "held"
  /\ status' = [status EXCEPT ![t] = "waiting"]
  /\ UNCHANGED <<holder, result, live>>

\* Nobody took them for too long, or a person asks no more.
GiveUp(T) ==
  /\ \A t \in T : status[t] = "waiting"
  /\ status' = [t \in Task |-> IF t \in T THEN "idle" ELSE status[t]]
  /\ UNCHANGED <<holder, result, live>>

Take(t, p) ==
  /\ status[t] = "waiting"
  /\ status' = [status EXCEPT ![t] = "held"]
  /\ holder' = [holder EXCEPT ![t] = p]
  /\ UNCHANGED <<result, live>>

\* Done (with a new result), failed, or returned for another attempt.
Leave(t, p) ==
  /\ status[t] = "held"
  /\ holder[t] = p
  /\ \/ status' = [status EXCEPT ![t] = "idle"]
        /\ \/ UNCHANGED result
           \/ \E g \in Good : result' = [result EXCEPT ![t] = [made |-> g, by |-> p]]
     \/ status' = [status EXCEPT ![t] = "waiting"]
        /\ UNCHANGED result
  /\ holder' = [holder EXCEPT ![t] = None]
  /\ UNCHANGED live

\* A result that its holder, under its lease, puts on display before it leaves.
Publish(t, p) ==
  /\ status[t] = "held"
  /\ holder[t] = p
  /\ p \in live
  /\ \E g \in Good : result' = [result EXCEPT ![t] = [made |-> g, by |-> p]]
  /\ UNCHANGED <<status, holder, live>>

\* The holder ends t and asks for u in its place, in one transaction.
Replace(t, u, p) ==
  /\ status[t] = "held"
  /\ holder[t] = p
  /\ status[u] # "held"
  /\ status' = [status EXCEPT ![t] = "idle", ![u] = "waiting"]
  /\ holder' = [holder EXCEPT ![t] = None]
  /\ UNCHANGED <<result, live>>

\* Every task whose holder is not among the alive goes back, in one transaction.
Return(alive) ==
  LET lost == {t \in Task : status[t] = "held" /\ holder[t] \notin alive} IN
  /\ status' = [t \in Task |-> IF t \in lost THEN "waiting" ELSE status[t]]
  /\ holder' = [t \in Task |-> IF t \in lost THEN None ELSE holder[t]]

Recover == Return(live) /\ UNCHANGED <<result, live>>

\* A process starts: it leases itself, and recovers.
Join(p) ==
  /\ live' = live \cup {p}
  /\ Return(live')
  /\ UNCHANGED result

Renew(p) ==
  /\ live' = live \cup {p}
  /\ UNCHANGED <<status, holder, result>>

Expire(p) ==
  /\ live' = live \ {p}
  /\ UNCHANGED <<status, holder, result>>

Next ==
  \/ \E t \in Task : Ask(t)
  \/ \E T \in SUBSET Task : GiveUp(T)
  \/ \E t \in Task, p \in Proc :
       \/ Take(t, p) \/ Publish(t, p) \/ Leave(t, p)
       \/ \E u \in Task : Replace(t, u, p)
  \/ Recover
  \/ \E p \in Proc : Join(p) \/ Renew(p) \/ Expire(p)

Spec == Init /\ [][Next]_vars
=============================================================================
