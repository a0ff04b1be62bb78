---------------------------- MODULE MCWorkerScheduler ----------------------------
(***************************************************************************)
(* Three tasks of two campaigns on two workers.  The first task fills the  *)
(* large worker alone; the other two are small.                            *)
(***************************************************************************)
EXTENDS WorkerScheduler, TLC

CONSTANTS t1, t2, t3, w1, w2, a, b, mem

Small == [serves |-> {t2, t3}, capacity |-> [r \in {mem} |-> 1], concurrency |-> 2]
Large == [serves |-> {t1, t2, t3}, capacity |-> [r \in {mem} |-> 2], concurrency |-> 2]

MCProfile == {Small, Large}
MCBudget  == {[tasks |-> 1, concurrent |-> 2], [tasks |-> 2, concurrent |-> 1]}
MCCampaignOf  == t1 :> a @@ t2 :> a @@ t3 :> b
MCDemand      == t1 :> [r \in {mem} |-> 2] @@ t2 :> [r \in {mem} |-> 1]
                 @@ t3 :> [r \in {mem} |-> 1]
MCMaxAttempts == t1 :> 2 @@ t2 :> 1 @@ t3 :> 2
MCRank        == t1 :> 1 @@ t2 :> 2 @@ t3 :> 3
MCWorkerRank  == w1 :> 1 @@ w2 :> 2
=============================================================================
