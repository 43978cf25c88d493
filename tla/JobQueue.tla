------------------------------ MODULE JobQueue ------------------------------
(***************************************************************************)
(* What the Redis list "risk-assessment" promises the risk pipeline, with  *)
(* gateways, workers, records and messages abstracted away: jobs numbered  *)
(* in order of arrival, each started at most once, in that order, and none *)
(* sure to be started.  RiskPipeline implements it: waiting are the jobs   *)
(* in the list, running those some worker has in hand.                     *)
(***************************************************************************)
EXTENDS Naturals

VARIABLES
  arrived,  \* how many jobs were pushed: the jobs are 1 .. arrived
  waiting,  \* jobs not started and not lost
  running   \* jobs a worker has in hand

jqVars == << arrived, waiting, running >>

\* j is the job that has waited longest.
Oldest(j) == j \in waiting /\ \A i \in waiting : j <= i

JQInit ==
  /\ arrived = 0
  /\ waiting = {}
  /\ running = {}

Arrive ==
  /\ arrived' = arrived + 1
  /\ waiting' = waiting \cup {arrived'}
  /\ UNCHANGED running

Start(j) ==
  /\ Oldest(j)
  /\ waiting' = waiting \ {j}
  /\ running' = running \cup {j}
  /\ UNCHANGED arrived

\* j is over: done, given up, or lost with its worker.
End(j) ==
  /\ j \in running
  /\ running' = running \ {j}
  /\ UNCHANGED << arrived, waiting >>

\* A reply of BRPOP is lost with the job it carries.
LoseOldest(j) ==
  /\ Oldest(j)
  /\ waiting' = waiting \ {j}
  /\ UNCHANGED << arrived, running >>

\* The whole list is evicted.
LoseAll ==
  /\ waiting' = {}
  /\ UNCHANGED << arrived, running >>

JQNext ==
  \/ Arrive
  \/ \E j \in waiting : Start(j) \/ LoseOldest(j)
  \/ \E j \in running : End(j)
  \/ LoseAll

JQSpec == JQInit /\ [][JQNext]_jqVars
=============================================================================
