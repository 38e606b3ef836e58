---------------------------- MODULE AsyncService ----------------------------
(***************************************************************************)
(* What xRunInferenceAsync promises its callers, whatever the threads,     *)
(* semaphores and models underneath do: every request that was accepted is *)
(* answered, once, and at most Limit requests are in flight.  The limit is *)
(* over when the service is shut down for the first time, and no start     *)
(* brings it back; the requests in flight are answered all the same.       *)
(***************************************************************************)
EXTENDS Integers, FiniteSets

CONSTANTS
  Requests,  \* the requests that may ever be accepted, a finite set
  Limit      \* ZHIO_CFG_MAX_ASYNC_INFERENCE, a positive number

VARIABLES
  active,    \* requests accepted and not answered
  answered,  \* requests whose callback has run and that are over
  limited    \* the service was never shut down

vars == <<active, answered, limited>>

Init == active = {} /\ answered = {} /\ limited = TRUE

Accept(r) ==
  /\ r \notin active \cup answered
  /\ limited => Cardinality(active) < Limit
  /\ active' = active \cup {r}
  /\ UNCHANGED <<answered, limited>>

Answer(r) ==
  /\ r \in active
  /\ active' = active \ {r}
  /\ answered' = answered \cup {r}
  /\ UNCHANGED limited

Shutdown ==
  /\ limited' = FALSE
  /\ UNCHANGED <<active, answered>>

Next == Shutdown \/ \E r \in Requests : Accept(r) \/ Answer(r)

Spec == Init /\ [][Next]_vars /\ \A r \in Requests : WF_vars(Answer(r))
=============================================================================
