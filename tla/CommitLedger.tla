---------------------------- MODULE CommitLedger ----------------------------
(***************************************************************************)
(* What the local database promises about executions and the instance they *)
(* advance: an execution begins once and ends once, and it is recorded as  *)
(* succeeded in the very step in which its version becomes durable.        *)
(***************************************************************************)
CONSTANT Executions

VARIABLES
  outcome,   \* the durable status of every execution
  committed  \* the executions that wrote a version of the instance

ledgerVars == <<outcome, committed>>

LedgerInit == outcome = [e \in Executions |-> "none"] /\ committed = {}

BeginOf(e) ==
  /\ outcome[e] = "none"
  /\ outcome' = [outcome EXCEPT ![e] = "running"]
  /\ UNCHANGED committed

CommitOf(e) ==
  /\ outcome[e] = "running"
  /\ outcome' = [outcome EXCEPT ![e] = "succeeded"]
  /\ committed' = committed \cup {e}

FailureOf(e) ==
  /\ outcome[e] = "running"
  /\ outcome' = [outcome EXCEPT ![e] = "failed"]
  /\ UNCHANGED committed

\* The instance is deleted; its executions stay in the ledger.
Forget == committed' = {} /\ UNCHANGED outcome

LedgerNext ==
  \/ \E e \in Executions : BeginOf(e) \/ CommitOf(e) \/ FailureOf(e)
  \/ Forget

LedgerSpec == LedgerInit /\ [][LedgerNext]_ledgerVars
=============================================================================
