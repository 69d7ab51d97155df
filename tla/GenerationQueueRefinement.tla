---------------------- MODULE GenerationQueueRefinement ----------------------
(***************************************************************************)
(* GenerationQueue implements TaskLedger: whatever processes, races and     *)
(* failures do, a submission is charged once and its charge closed once.   *)
(***************************************************************************)
EXTENDS GenerationQueueProofs

(* Posting what is missing to b brings the account of t to b. *)
LEMMA Posting ==
  ASSUME paid \in [Tasks -> Int], NEW t \in Tasks, NEW a \in Int, NEW b \in Int,
         paid[t] - a = b
  PROVE  [paid EXCEPT ![t] = @ - a] = [paid EXCEPT ![t] = b]
OBVIOUS

(* A step that moves no money and closes no charge is no step of the ledger. *)
LEMMA LedgerStutters ==
  ASSUME UNCHANGED paid, \A t \in Tasks : Phase(t)' = Phase(t)
  PROVE  [Ledger!Next]_(Ledger!vars)
BY DEF Ledger!vars

(* One charge that closes at an amount the ledger allows is its settlement. *)
LEMMA LedgerSettles ==
  ASSUME NEW t \in Tasks, NEW kept \in {0, Cost[t]} \cup Usage,
         Phase(t) = "reserved", Phase(t)' = "closed",
         \A u \in Tasks \ {t} : Phase(u)' = Phase(u),
         paid' = [paid EXCEPT ![t] = kept]
  PROVE  [Ledger!Next]_(Ledger!vars)
<1>1. [u \in Tasks |-> Phase(u)]' =
        [[u \in Tasks |-> Phase(u)] EXCEPT ![t] = "closed"]
  OBVIOUS
<1>2. Ledger!Settle(t)
  BY <1>1 DEF Ledger!Settle
<1> QED BY <1>2 DEF Ledger!Next

(* The full refund of failExecutingTask settles the charge of a running     *)
(* task, and is nothing when the row was finished by somebody else.        *)
LEMMA FailSettles ==
  ASSUME TypeOK, Accounts, NEW t \in Tasks, NEW w, FailTask(t, w), UNCHANGED pc
  PROVE  [Ledger!Next]_(Ledger!vars)
<1>1. CASE UNCHANGED <<status, paid>>
  BY <1>1, LedgerStutters DEF Phase
<1>2. CASE ~UNCHANGED <<status, paid>>
  <2>1. /\ status[t] = "executing"
        /\ status' = [status EXCEPT ![t] = "failed"]
        /\ paid' = [paid EXCEPT ![t] = @ - Cost[t]]
    BY <1>2 DEF FailTask, Post, RowIs
  <2>2. paid[t] = Cost[t] /\ pc[t] = "accepted" /\ Cost[t] \in Int
    BY <2>1, TaskAssumption DEF Accounts, ChargeMatchesRow, Account
  <2>3. paid' = [paid EXCEPT ![t] = 0]
    <3>1. paid \in [Tasks -> Int] /\ paid[t] - Cost[t] = 0
      BY <2>2 DEF TypeOK
    <3> QED BY <2>1, <2>2, <3>1, Posting
  <2>4. Phase(t) = "reserved" /\ Phase(t)' = "closed"
    BY <2>1, <2>2 DEF Phase, TypeOK, InFlight
  <2>5. \A u \in Tasks \ {t} : Phase(u)' = Phase(u)
    BY <2>1 DEF Phase, TypeOK
  <2> QED BY <2>3, <2>4, <2>5, LedgerSettles
<1> QED BY <1>1, <1>2

(* Every step of the queue is a step of the ledger or none. *)
LEMMA LedgerStep ==
  ASSUME TypeOK, Accounts, [Next]_vars
  PROVE  [Ledger!Next]_(Ledger!vars)
<1>0. paid \in [Tasks -> Int] /\ Cost \in [Tasks -> Int]
  BY TaskAssumption DEF TypeOK
<1> USE DEF vars, moneyVars, rowVars, submitVars, TypeOK
<1>1. CASE UNCHANGED <<pc, status, paid>>
  BY <1>1, LedgerStutters DEF Phase
<1>2. ASSUME NEW t \in Tasks, SubmitStep(t)
      PROVE  [Ledger!Next]_(Ledger!vars)
  <2>1. CASE SubmitRefund(t)
    <3>1. /\ pc[t] = "refund" /\ paid[t] = Cost[t] /\ status[t] = "absent"
          /\ pc' \in {[pc EXCEPT ![t] = "drop"], [pc EXCEPT ![t] = "rejected"]}
          /\ paid' = [paid EXCEPT ![t] = @ - Cost[t]]
          /\ UNCHANGED status
      BY <2>1 DEF SubmitRefund, Post, Accounts, Account, InFlight
    <3>2. paid' = [paid EXCEPT ![t] = 0]
      <4>1. Cost[t] \in Int /\ paid[t] - Cost[t] = 0
        BY <1>0, <3>1
      <4> QED BY <1>0, <3>1, <4>1, Posting
    <3>3. Phase(t) = "reserved" /\ Phase(t)' = "closed"
      BY <3>1 DEF Phase, InFlight
    <3>4. \A u \in Tasks \ {t} : Phase(u)' = Phase(u)
      BY <3>1 DEF Phase
    <3> QED BY <3>2, <3>3, <3>4, LedgerSettles
  <2>2. CASE SubmitRefundFails(t)
    <3>1. /\ pc[t] = "refund" /\ paid[t] = Cost[t] /\ status[t] = "absent"
          /\ pc' \in {[pc EXCEPT ![t] = "dropUnrefunded"],
                      [pc EXCEPT ![t] = "unrefunded"]}
          /\ UNCHANGED <<status, paid>>
      BY <2>2 DEF SubmitRefundFails, Accounts, Account, InFlight
    <3>2. paid' = [paid EXCEPT ![t] = Cost[t]]
      BY <3>1
    <3>3. Phase(t) = "reserved" /\ Phase(t)' = "closed"
      BY <3>1 DEF Phase, InFlight
    <3>4. \A u \in Tasks \ {t} : Phase(u)' = Phase(u)
      BY <3>1 DEF Phase
    <3> QED BY <3>2, <3>3, <3>4, LedgerSettles
  <2>3. CASE SubmitLaunch(t) \/ SubmitEnqueue(t)
    <3>1. /\ pc[t] \in {"launch", "enqueue"}
          /\ pc' = [pc EXCEPT ![t] = "accepted"]
          /\ status' \in {[status EXCEPT ![t] = "executing"],
                          [status EXCEPT ![t] = "queued"]}
          /\ UNCHANGED paid
      BY <2>3 DEF SubmitLaunch, SubmitEnqueue
    <3> QED BY <3>1, LedgerStutters DEF Phase, InFlight
  <2>4. CASE SubmitDrop(t)
    <3>1. /\ pc[t] \in {"drop", "dropUnrefunded"} /\ status[t] = "absent"
          /\ pc' \in {[pc EXCEPT ![t] = "rejected"],
                      [pc EXCEPT ![t] = "unrefunded"]}
          /\ UNCHANGED <<status, paid>>
      BY <2>4 DEF SubmitDrop, Accounts, Account
    <3> QED BY <3>1, LedgerStutters DEF Phase, InFlight
  <2>5. CASE \/ SubmitStore(t) \/ SubmitLock(t) \/ SubmitQueueFull(t)
             \/ SubmitDecide(t) \/ SubmitCount(t) \/ SubmitError(t)
    <3>1. PICK p \in InFlight \ {"drop", "dropUnrefunded"} :
            /\ pc[t] \in InFlight \ {"drop", "dropUnrefunded"}
            /\ pc' = [pc EXCEPT ![t] = p]
            /\ UNCHANGED <<status, paid>>
      BY <2>5 DEF SubmitStore, SubmitLock, SubmitQueueFull, SubmitDecide,
                  SubmitCount, SubmitError, InFlight
    <3> QED BY <3>1, LedgerStutters DEF Phase, InFlight
  <2> QED BY <1>2, <2>1, <2>2, <2>3, <2>4, <2>5 DEF SubmitStep
<1>3. ASSUME NEW t \in Tasks, ExecStep(t)
      PROVE  [Ledger!Next]_(Ledger!vars)
  <2>1. CASE ExecRead(t) \/ ExecCall(t)
    BY <1>1, <2>1 DEF ExecRead, ExecCall
  <2>2. CASE ExecFail(t)
    BY <1>1, <2>2, FailSettles DEF ExecFail
  <2>3. CASE ExecFinish(t) /\ ~UNCHANGED <<status, paid>>
    <3>1. PICK actual \in Charges(t) :
            /\ status[t] = "executing"
            /\ status' = [status EXCEPT ![t] = "succeeded"]
            /\ paid' = [paid EXCEPT ![t] = @ - (Cost[t] - actual)]
            /\ UNCHANGED pc
      BY <2>3 DEF ExecFinish, Post, RowIs
    <3>2. paid[t] = Cost[t] /\ pc[t] = "accepted"
      BY <3>1 DEF Accounts, ChargeMatchesRow, Account
    <3>3. actual \in Int /\ Cost[t] \in Int /\ actual \in {0, Cost[t]} \cup Usage
      BY <1>0, TaskAssumption DEF Charges
    <3>4. paid' = [paid EXCEPT ![t] = actual]
      <4>1. Cost[t] - actual \in Int /\ paid[t] - (Cost[t] - actual) = actual
        BY <3>2, <3>3
      <4> QED BY <1>0, <3>1, <3>3, <4>1, Posting
    <3>5. Phase(t) = "reserved" /\ Phase(t)' = "closed"
      BY <3>1, <3>2 DEF Phase, InFlight
    <3>6. \A u \in Tasks \ {t} : Phase(u)' = Phase(u)
      BY <3>1 DEF Phase
    <3> QED BY <3>3, <3>4, <3>5, <3>6, LedgerSettles
  <2>4. CASE ExecFinish(t) /\ UNCHANGED <<status, paid>>
    BY <1>1, <2>4 DEF ExecFinish
  <2> QED BY <1>3, <2>1, <2>2, <2>3, <2>4 DEF ExecStep
<1>4. ASSUME NEW w \in Workers, NEW t \in Tasks, SubmitCharge(w, t)
      PROVE  [Ledger!Next]_(Ledger!vars)
  <2>1. /\ pc[t] = "idle" /\ paid[t] = 0 /\ status[t] = "absent"
        /\ pc' = [pc EXCEPT ![t] = "charged"]
        /\ paid' = [paid EXCEPT ![t] = @ - (-Cost[t])]
        /\ UNCHANGED status
    BY <1>4 DEF SubmitCharge, Post, Accounts, Account
  <2>2. paid' = [paid EXCEPT ![t] = Cost[t]]
    <3>1. -Cost[t] \in Int /\ Cost[t] \in Int /\ paid[t] - (-Cost[t]) = Cost[t]
      BY <1>0, <2>1
    <3> QED BY <1>0, <2>1, <3>1, Posting
  <2>3. Phase(t) = "idle" /\ Phase(t)' = "reserved"
    BY <2>1 DEF Phase, InFlight
  <2>4. \A u \in Tasks \ {t} : Phase(u)' = Phase(u)
    BY <2>1 DEF Phase
  <2>5. [u \in Tasks |-> Phase(u)]' =
          [[u \in Tasks |-> Phase(u)] EXCEPT ![t] = "reserved"]
    BY <2>3, <2>4
  <2>6. Ledger!Reserve(t)
    BY <2>2, <2>3, <2>5 DEF Ledger!Reserve
  <2> QED BY <2>6 DEF Ledger!Next
<1>5. ASSUME NEW w \in Workers, NEW t \in Tasks, SubmitRefused(w, t)
      PROVE  [Ledger!Next]_(Ledger!vars)
  <2>1. /\ pc[t] = "idle" /\ pc' = [pc EXCEPT ![t] = "refused"]
        /\ UNCHANGED <<status, paid>>
    BY <1>5 DEF SubmitRefused
  <2> QED BY <2>1, LedgerStutters DEF Phase
<1>6. ASSUME NEW w \in Workers, CancelStep(w)
      PROVE  [Ledger!Next]_(Ledger!vars)
  <2>1. CASE CancelFinish(w)
    <3>1. PICK t \in Tasks : t = target[w]
      BY <2>1 DEF CancelFinish, Accounts
    <3>2. /\ status[t] = "queued"
          /\ status' = [status EXCEPT ![t] = "canceled"]
          /\ paid' = [paid EXCEPT ![t] = @ - Cost[t]]
          /\ UNCHANGED pc
      BY <2>1, <3>1 DEF CancelFinish, Post, RowIs
    <3>3. paid[t] = Cost[t] /\ pc[t] = "accepted"
      BY <3>2 DEF Accounts, ChargeMatchesRow, Account
    <3>4. paid' = [paid EXCEPT ![t] = 0]
      <4>1. Cost[t] \in Int /\ paid[t] - Cost[t] = 0
        BY <1>0, <3>3
      <4> QED BY <1>0, <3>2, <4>1, Posting
    <3>5. Phase(t) = "reserved" /\ Phase(t)' = "closed"
      BY <3>2, <3>3 DEF Phase, InFlight
    <3>6. \A u \in Tasks \ {t} : Phase(u)' = Phase(u)
      BY <3>2 DEF Phase
    <3> QED BY <3>4, <3>5, <3>6, LedgerSettles
  <2>2. CASE CancelFails(w) \/ CancelRecalculate(w)
    BY <1>1, <2>2 DEF CancelFails, CancelRecalculate
  <2> QED BY <1>6, <2>1, <2>2 DEF CancelStep
<1>7. ASSUME NEW w \in Workers, NEW t \in Tasks, DispatchMark(w, t)
      PROVE  [Ledger!Next]_(Ledger!vars)
  <2>1. /\ UNCHANGED <<pc, paid>>
        /\ \/ UNCHANGED status
           \/ /\ status[t] = "queued"
              /\ status' = [status EXCEPT ![t] = "executing"]
    BY <1>7 DEF DispatchMark, StillQueued
  <2> QED BY <2>1, LedgerStutters DEF Phase
<1>8. ASSUME NEW w \in Workers, NEW t \in Tasks, RecoverTask(w, t)
      PROVE  [Ledger!Next]_(Ledger!vars)
  BY <1>8, FailSettles DEF RecoverTask, Recovered
<1>9. ASSUME NEW w \in Workers, PurgeRow(w)
      PROVE  [Ledger!Next]_(Ledger!vars)
  <2>1. /\ UNCHANGED <<pc, paid>> /\ sched[w] = "purge"
        /\ status' = [t \in Tasks |-> IF t \in work[w] THEN "purged"
                                                       ELSE status[t]]
    BY <1>9 DEF PurgeRow, PurgeEnd
  <2>3. \A t \in work[w] : status[t] \in Terminal \cup {"purged"}
    BY <2>1 DEF Accounts
  <2>2. \A t \in Tasks : status[t] \in Terminal \cup {"purged"} =>
                           pc[t] = "accepted"
    BY DEF Accounts, Account, Terminal
  <2> QED BY <2>1, <2>2, <2>3, LedgerStutters DEF Phase, InFlight, Terminal
<1>10. ASSUME NEW w \in Workers, Crash(w)
       PROVE  [Ledger!Next]_(Ledger!vars)
  <2> DEFINE S == {t \in Tasks : /\ host[t] = w
                                 /\ pc[t] \in InFlight \ {"drop", "dropUnrefunded"}}
  <2>1. /\ pc' = [t \in Tasks |-> IF host[t] = w /\ pc[t] \in InFlight
                                  THEN "crashed" ELSE pc[t]]
        /\ UNCHANGED <<status, paid>>
    BY <1>10 DEF Crash
  <2>2. \A t \in S : Phase(t) = "reserved" /\ Phase(t)' = "closed"
    BY <2>1 DEF Phase, InFlight, Accounts, Account
  <2>3. \A t \in Tasks \ S : Phase(t)' = Phase(t)
    BY <2>1 DEF Phase, InFlight, Accounts, Account
  <2>4. Ledger!Abandon(S)
    BY <2>1, <2>2, <2>3 DEF Ledger!Abandon
  <2> QED BY <2>4 DEF Ledger!Next
<1>11. ASSUME NEW w \in Workers, NEW t \in Tasks,
              CancelBegin(w, t) \/ PurgeFiles(w, t) \/ PurgeFails(w, t)
       PROVE  [Ledger!Next]_(Ledger!vars)
  BY <1>1, <1>11 DEF CancelBegin, PurgeFiles, PurgeFails
<1>12. ASSUME NEW w \in Workers, DispatchBegin(w) \/ DispatchStep(w)
       PROVE  [Ledger!Next]_(Ledger!vars)
  <2>1. CASE DispatchBegin(w)
    BY <1>1, <2>1 DEF DispatchBegin
  <2>2. CASE \E m \in Models : DispatchModel(w, m)
    BY <1>1, <2>2 DEF DispatchModel
  <2>3. CASE DispatchList(w) \/ DispatchStamp(w) \/ DispatchRecalculate(w)
    BY <1>1, <2>3 DEF DispatchList, DispatchStamp, DispatchRecalculate
  <2>4. CASE DispatchEnd(w) \/ DispatchError(w)
    BY <1>1, <2>4 DEF DispatchEnd, DispatchError, DispatchStop
  <2> QED BY <1>7, <1>12, <2>1, <2>2, <2>3, <2>4 DEF DispatchStep
<1>13. ASSUME NEW w \in Workers, RecoverStep(w) \/ PurgeStep(w)
       PROVE  [Ledger!Next]_(Ledger!vars)
  <2>1. CASE \E t \in Tasks : RecoverFails(w, t)
    BY <1>1, <2>1 DEF RecoverFails, Recovered
  <2>2. CASE PurgeRowFails(w)
    BY <1>1, <2>2 DEF PurgeRowFails, PurgeEnd
  <2> QED BY <1>8, <1>9, <1>13, <2>1, <2>2 DEF RecoverStep, PurgeStep
<1>14. ASSUME NEW w \in Workers,
              Start(w) \/ \E S \in SUBSET Tasks : RecoverList(w, S)
       PROVE  [Ledger!Next]_(Ledger!vars)
  BY <1>1, <1>14 DEF Start, RecoverList
<1>15. ASSUME \/ \E t \in Tasks : PayloadExpires(t)
              \/ \E u \in Users :
                    \/ SetUserStatus(u)
                    \/ \E c \in AdminCredits : AdjustCredits(u, c)
              \/ ToggleQueue \/ SecondPasses \/ MinutePasses
              \/ UNCHANGED vars
       PROVE  [Ledger!Next]_(Ledger!vars)
  BY <1>1, <1>15 DEF PayloadExpires, SetUserStatus, AdjustCredits, ToggleQueue,
                     SecondPasses, MinutePasses
<1> HIDE DEF vars, TypeOK
<1> QED
  BY <1>2, <1>3, <1>4, <1>5, <1>6, <1>10, <1>11, <1>12, <1>13, <1>14, <1>15
  DEF Next

(* The queue keeps the promise of the ledger in every behaviour. *)
THEOREM Refinement == Spec => LedgerSpec
<1>1. Init => Ledger!Init
  BY DEF Init, Ledger!Init, Phase
<1>2. TypeOK /\ Accounts /\ [Next]_vars => [Ledger!Next]_(Ledger!vars)
  BY LedgerStep
<1> QED BY Invariance, <1>1, <1>2, PTL DEF Spec, LedgerSpec, Ledger!Spec
-----------------------------------------------------------------------------
(* What the ledger allows, and the queue with it *)

(* What the ledger writes for a submission, it writes with the charge and   *)
(* with its end; between and after these nothing moves.                    *)
Entered(t) ==
  \/ Phase(t)' = Phase(t) /\ paid'[t] = paid[t]
  \/ Phase(t) = "idle" /\ Phase(t)' = "reserved"
  \/ Phase(t) = "reserved" /\ Phase(t)' = "closed"
EntriesOnce == [][\A t \in Tasks : Entered(t)]_vars
Bounded == \A t \in Tasks : paid[t] \in {0, Cost[t]} \cup Usage

(* The steps of the ledger in terms of the queue. *)
LEMMA LedgerFacts ==
  ASSUME TypeOK, [Ledger!Next]_(Ledger!vars), NEW t \in Tasks
  PROVE  Entered(t) /\ paid'[t] \in {0, Cost[t], paid[t]} \cup Usage
<1>0. paid \in [Tasks -> Int]
  BY DEF TypeOK
<1> DEFINE F == [u \in Tasks |-> Phase(u)]
<1>1. F[t] = Phase(t) /\ F'[t] = Phase(t)'
  OBVIOUS
<1>2. CASE UNCHANGED Ledger!vars
  BY <1>1, <1>2 DEF Ledger!vars, Entered
<1>3. ASSUME NEW u \in Tasks, Ledger!Reserve(u)
      PROVE  Entered(t) /\ paid'[t] \in {0, Cost[t], paid[t]} \cup Usage
  <2>1. /\ F[u] = "idle" /\ F' = [F EXCEPT ![u] = "reserved"]
        /\ paid' = [paid EXCEPT ![u] = Cost[u]]
    BY <1>3 DEF Ledger!Reserve
  <2>2. CASE u = t
    <3>1. F[t] = "idle" /\ F'[t] = "reserved" /\ paid'[t] = Cost[t]
      BY <1>0, <2>1, <2>2
    <3> QED BY <1>1, <3>1 DEF Entered
  <2>3. CASE u # t
    <3>1. F'[t] = F[t] /\ paid'[t] = paid[t]
      BY <1>0, <2>1, <2>3
    <3> QED BY <1>1, <3>1 DEF Entered
  <2> QED BY <2>2, <2>3
<1>4. ASSUME NEW u \in Tasks, Ledger!Settle(u)
      PROVE  Entered(t) /\ paid'[t] \in {0, Cost[t], paid[t]} \cup Usage
  <2>1. PICK kept \in {0, Cost[u]} \cup Usage :
          /\ F[u] = "reserved" /\ F' = [F EXCEPT ![u] = "closed"]
          /\ paid' = [paid EXCEPT ![u] = kept]
    BY <1>4 DEF Ledger!Settle
  <2>2. CASE u = t
    <3>1. F[t] = "reserved" /\ F'[t] = "closed" /\ paid'[t] = kept
      BY <1>0, <2>1, <2>2
    <3> QED BY <1>1, <2>2, <3>1 DEF Entered
  <2>3. CASE u # t
    <3>1. F'[t] = F[t] /\ paid'[t] = paid[t]
      BY <1>0, <2>1, <2>3
    <3> QED BY <1>1, <3>1 DEF Entered
  <2> QED BY <2>2, <2>3
<1>5. ASSUME NEW S \in SUBSET Tasks, Ledger!Abandon(S)
      PROVE  Entered(t) /\ paid'[t] \in {0, Cost[t], paid[t]} \cup Usage
  <2>1. /\ \A u \in S : F[u] = "reserved"
        /\ F' = [u \in Tasks |-> IF u \in S THEN "closed" ELSE F[u]]
        /\ UNCHANGED paid
    BY <1>5 DEF Ledger!Abandon
  <2>2. /\ F'[t] = IF t \in S THEN "closed" ELSE F[t]
        /\ t \in S => F[t] = "reserved"
        /\ paid'[t] = paid[t]
    BY <2>1
  <2> QED BY <1>1, <2>2 DEF Entered
<1> QED BY <1>2, <1>3, <1>4, <1>5 DEF Ledger!Next

(* A submission is charged by one ledger transaction and its charge closed   *)
(* by one, in this order: a charge that was refunded, kept or abandoned is *)
(* never touched again, whichever of a finish, a failure, a cancellation,  *)
(* a recovery and a refund of the submission come late (the WHERE clauses  *)
(* of FinishGenerationTask and the refund closure of SubmitAITask).        *)
THEOREM ChargedAndClosedOnce == Spec => EntriesOnce
<1>1. TypeOK /\ Accounts /\ [Next]_vars => \A t \in Tasks : Entered(t)
  BY LedgerStep, LedgerFacts
<1> QED BY <1>1, Invariance, PTL DEF Spec, EntriesOnce

(* Whatever was posted for a submission, its user is out of pocket by        *)
(* nothing, by the price asked at submission or by what a metered answer   *)
(* may cost: no sum of charges, extras and refunds leads elsewhere.        *)
THEOREM ChargesAreBounded == Spec => []Bounded
<1>1. Init => Bounded
  BY DEF Init, Bounded
<1>2. TypeOK /\ Accounts /\ Bounded /\ [Next]_vars => Bounded'
  <2>1. SUFFICES ASSUME TypeOK, Accounts, Bounded, [Next]_vars, NEW t \in Tasks
                 PROVE  paid'[t] \in {0, Cost[t]} \cup Usage
    BY DEF Bounded
  <2>2. paid'[t] \in {0, Cost[t], paid[t]} \cup Usage
    BY <2>1, LedgerStep, LedgerFacts
  <2> QED BY <2>1, <2>2 DEF Bounded
<1> QED BY <1>1, <1>2, Invariance, PTL DEF Spec
=============================================================================
