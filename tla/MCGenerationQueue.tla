-------------------------- MODULE MCGenerationQueue --------------------------
(***************************************************************************)
(* Small instances of GenerationQueue.  The numbers of Tasks are the random *)
(* row ids, so their order is independent of the order of submission.      *)
(***************************************************************************)
EXTENDS GenerationQueue, TLC

CONSTANTS alice, draw

(* One model, every task of one user. *)
OneOwner == [t \in Tasks |-> alice]
OneModel == [t \in Tasks |-> draw]
LimitOne == [m \in Models |-> 1]

(* Balances for two submissions and for four. *)
CostTwo == [t \in Tasks |-> 2]
CreditsFour == [u \in Users |-> 4]
CreditsEight == [u \in Users |-> 8]

(* Bound on the runs that ask about accepted rows: before a row is saved    *)
(* nothing fails but a full queue.                                         *)
Admitted ==
  \A t \in Tasks :
    /\ pc'[t] = "refund" => pc[t] \in {"stored", "refund"}
    /\ pc'[t] \notin {"dropUnrefunded", "unrefunded"}

(* Bound on the runs with more submissions, which ask about the queue and  *)
(* not about the execution: no upstream answers.                           *)
QueueOnly ==
  Admitted /\ \A t \in Tasks : exec'[t] \in {"none", "reading", "done"}

(* Bound on the run about the order: task 4 is submitted first and fills    *)
(* the minute, so that those after it wait; no executing                    *)
(* row is recovered, which leaves positions as they are.                    *)
FillerFirst ==
  /\ QueueOnly
  /\ \A t \in Tasks \ {4} : pc[4] # "accepted" => pc'[t] = "idle"
  /\ \A w \in Workers : sched'[w] # "recover"

(* Bound on the run with two processes: task 1 only fills the minute.       *)
TaskOneHangs ==
  /\ Admitted
  /\ exec'[1] \in {"none", "reading"} /\ status'[1] # "failed"

(* Processes differ in nothing but their identity. *)
Symmetry == Permutations(Workers)
=============================================================================
