--------------------------- MODULE OutageEpisodes ---------------------------
(***************************************************************************)
(* What reachability monitoring promises the owner of a server.            *)
(*                                                                         *)
(* A server is down from its Threshold-th unanswered check in a row until  *)
(* its first answer, and each of the two turns is told to the owner once.  *)
(***************************************************************************)
EXTENDS Naturals

CONSTANTS Servers, Threshold

VARIABLES
  misses,  \* checks in a row the server has not answered
  down,    \* is it known to be down
  told     \* how many notifications its owner got

vars == <<misses, down, told>>

Init ==
  /\ misses = [s \in Servers |-> 0]
  /\ down = [s \in Servers |-> FALSE]
  /\ told = [s \in Servers |-> 0]

\* The check that confirms an outage is told; the ones before and after are not.
Miss(s) ==
  /\ misses' = [misses EXCEPT ![s] = @ + 1]
  /\ down' = [down EXCEPT ![s] = @ \/ misses[s] + 1 >= Threshold]
  /\ told' = IF down'[s] # down[s] THEN [told EXCEPT ![s] = @ + 1] ELSE told

\* The first answer after an outage is told; any other answer is not.
Answer(s) ==
  /\ misses' = [misses EXCEPT ![s] = 0]
  /\ down' = [down EXCEPT ![s] = FALSE]
  /\ told' = IF down[s] THEN [told EXCEPT ![s] = @ + 1] ELSE told

\* The server is deleted.
Forget(s) ==
  /\ misses' = [misses EXCEPT ![s] = 0]
  /\ down' = [down EXCEPT ![s] = FALSE]
  /\ UNCHANGED told

Next == \E s \in Servers : Miss(s) \/ Answer(s) \/ Forget(s)

Spec == Init /\ [][Next]_vars
=============================================================================
