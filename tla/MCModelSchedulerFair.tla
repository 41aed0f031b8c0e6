------------------------ MODULE MCModelSchedulerFair ------------------------
(***************************************************************************)
(* ModelScheduler with the history of who was started while whom waited.   *)
(***************************************************************************)
EXTENDS MCModelScheduler

OneJobEach == Restrict(MixedWorkloads, Jobs)

VARIABLE overtakers  \* overtakers[w]: the workloads started since w has waited

historyVars == <<vars, overtakers>>

HistoryInit == Init /\ overtakers = [w \in Workloads |-> {}]

Started(w) == \E j \in Jobs : workloadOf[j] = w /\ status[j] = "queued" /\ status'[j] = "running"

\* A workload that starts a second time while w waits is recorded as w itself.
HistoryNext ==
  /\ Next
  /\ overtakers' = [w \in Workloads |->
       IF Started(w) \/ lanes'[w] = <<>> THEN {}
       ELSE IF \E v \in overtakers[w] : Started(v) THEN overtakers[w] \cup {w}
       ELSE overtakers[w] \cup {v \in Workloads : Started(v)}]

HistorySpec == HistoryInit /\ [][HistoryNext]_historyVars

(* Fair rotation between the lanes, as docs/game-design/model-gateway.md   *)
(* line 76 states it: while a workload waits with a request that nothing   *)
(* but the global cap holds back, no other workload is started twice.      *)
FairRotation == \A w \in Workloads : w \notin overtakers[w]
=============================================================================
