--------------------------- MODULE GenerationQueue ---------------------------
(***************************************************************************)
(* The AI generation queue: service/generation_queue.go over               *)
(* repository/generation_task.go, with the credit transactions of          *)
(* repository/user.go it calls.                                            *)
(*                                                                         *)
(* Every submission t is one call of SubmitAITask and becomes at most one  *)
(* row of generation_tasks.  A worker w is one process incarnation: it     *)
(* owns one queueMu, one queueWorkerID and one scheduler goroutine, and a  *)
(* restart is a new incarnation.  A database transaction is one step, and  *)
(* a process may die between any two steps.                                *)
(***************************************************************************)
EXTENDS Integers, FiniteSets

CONSTANTS
  Tasks,            (* submissions; the number is the random id of the row   *)
  Users, Models, Workers,
  None,             (* the empty string of worker_id and of idle registers   *)
  Owner, ModelOf,   (* the user and the model of each submission             *)
  Cost,             (* credits x request count, computed at submission       *)
  Metered,          (* submissions settled by token usage                    *)
  Usage,            (* credits a metered response may come to                *)
  Limit,            (* requests per minute of each model                     *)
  MaxQueuedPerUser,
  RecoverBatch,     (* LIMIT of ListExpiredExecutingTasks                    *)
  InitialCredits,
  Instances,        (* processes running at the same time                    *)
  AdminCredits,     (* bound: balances an administrator may set              *)
  MayDelete, MayBan,(* bound: users an administrator may delete or ban       *)
  MayToggle,        (* bound: may an administrator switch the queue          *)
  MayExpire, MayPurge (* bound: tasks whose payload expires, that grow old  *)

ASSUME TaskAssumption == /\ Tasks \subseteq Nat
                         /\ IsFiniteSet(Tasks)
                         /\ Owner \in [Tasks -> Users]
                         /\ ModelOf \in [Tasks -> Models]
                         /\ Cost \in [Tasks -> Nat]
                         /\ Metered \subseteq Tasks
                         /\ Usage \subseteq Nat
ASSUME SettingAssumption == /\ Limit \in [Models -> Nat \ {0}]
                            /\ MaxQueuedPerUser \in Nat \ {0}
                            /\ RecoverBatch \in Nat \ {0}
                            /\ Instances \in Nat
                            /\ InitialCredits \in [Users -> Nat]
                            /\ AdminCredits \subseteq Nat
                            /\ MayToggle \in BOOLEAN
ASSUME NoneAssumption == /\ None \notin Workers
                         /\ None \notin Models
                         /\ None \notin Tasks

VARIABLES
  (* database: users and credit_logs *)
  user, credits, paid,
  (* database: generation_tasks *)
  status, worker, position, created, price,
  (* object storage: request and response payloads *)
  req, resp,
  (* database: settings *)
  enabled,
  (* one SubmitAITask call: program counter, process, settings snapshot; the *)
  (* calls and the dispatchers that hold a time stamp of the current minute  *)
  pc, host, snap, fresh,
  (* one executeTask goroutine *)
  exec,
  (* processes, their mutex and their scheduler goroutine *)
  proc, lock, target, sched, todo, cur, room, work,
  (* time: current second, rows whose started_at is in this minute, and the  *)
  (* rate-limited launches really made in this minute                        *)
  second, recent, sent

moneyVars == <<user, credits, paid>>
rowVars == <<status, worker, position, created, price>>
fileVars == <<req, resp>>
submitVars == <<pc, host, snap, fresh>>
procVars == <<proc, lock, target>>
schedVars == <<sched, todo, cur, room, work>>
timeVars == <<second, recent, sent>>
vars == <<moneyVars, rowVars, fileVars, enabled, submitVars, exec,
          procVars, schedVars, timeVars>>

Terminal == {"succeeded", "failed", "canceled"}
(* A submission that a dying process takes with it. *)
InFlight == {"charged", "stored", "locked", "launch", "count", "enqueue",
             "refund", "drop", "dropUnrefunded"}
Running == {"reading", "calling", "finishing", "failing"}

Init ==
  /\ user = [u \in Users |-> "active"]
  /\ credits = InitialCredits
  /\ paid = [t \in Tasks |-> 0]
  /\ status = [t \in Tasks |-> "absent"]
  /\ worker = [t \in Tasks |-> None]
  /\ position = [t \in Tasks |-> 0]
  /\ created = [t \in Tasks |-> 0]
  /\ price = [t \in Tasks |-> 0]
  /\ req = [t \in Tasks |-> "none"]
  /\ resp = [t \in Tasks |-> "none"]
  /\ enabled = TRUE
  /\ pc = [t \in Tasks |-> "idle"]
  /\ host = [t \in Tasks |-> None]
  /\ snap = [t \in Tasks |-> FALSE]
  /\ fresh = {}
  /\ exec = [t \in Tasks |-> "none"]
  /\ proc = [w \in Workers |-> "new"]
  /\ lock = [w \in Workers |-> "free"]
  /\ target = [w \in Workers |-> None]
  /\ sched = [w \in Workers |-> "off"]
  /\ todo = [w \in Workers |-> {}]
  /\ cur = [w \in Workers |-> None]
  /\ room = [w \in Workers |-> 0]
  /\ work = [w \in Workers |-> {}]
  /\ second = 0
  /\ recent = {}
  /\ sent = [m \in Models |-> 0]

-----------------------------------------------------------------------------
(* Queries of repository/generation_task.go *)

Queued(m) == {t \in Tasks : ModelOf[t] = m /\ status[t] = "queued"}
QueuedBy(u) == {t \in Tasks : Owner[t] = u /\ status[t] = "queued"}

(* A fault to be caught: the comparison with the limit is off by one.      *)
Remaining_OffByOne(m) ==
  Limit[m] + 1 - Cardinality({t \in recent : ModelOf[t] = m})

Remaining(m) == Limit[m] - Cardinality({t \in recent : ModelOf[t] = m})

(* ORDER BY created_at, id: time stamps have seconds, ties go by id. *)
Before(t, u) == \/ created[t] < created[u]
                \/ created[t] = created[u] /\ t < u
Ahead(t) == {u \in Queued(ModelOf[t]) : Before(u, t)}

(* A fault to be caught: the rows are listed newest first.                 *)
FirstQueued_Newest(m, n) ==
  {t \in Queued(m) : Cardinality(Queued(m)) - Cardinality(Ahead(t)) <= n}

FirstQueued(m, n) == {t \in Queued(m) : Cardinality(Ahead(t)) < n}

Recalculated(m) ==
  [t \in Tasks |-> IF t \in Queued(m) THEN Cardinality(Ahead(t)) + 1
                                      ELSE position[t]]

(* One UPDATE per row, in order: a failure leaves the first k rewritten. *)
Recalculations(m) ==
  {[t \in Tasks |-> IF t \in FirstQueued(m, k) THEN Recalculated(m)[t]
                                              ELSE position[t]] :
     k \in 0..Cardinality(Queued(m))}

(* A fault to be caught: the new row does not count itself.                *)
NextPosition_NotCounted(m) == Cardinality(Queued(m))

NextPosition(m) == Cardinality(Queued(m)) + 1

(* A fault to be caught: the UPDATE compares the worker only.              *)
RowIs_NoStatus(t, s, w) == worker[t] = w

(* The WHERE clause of FinishGenerationTask for a caller that read row t   *)
(* with status s and worker w.                                             *)
RowIs(t, s, w) == status[t] = s /\ worker[t] = w

UserExists(u) == user[u] # "deleted"

(* The credit part of a ledger transaction on behalf of t: the balance and *)
(* the ledger move together.                                               *)
Post(t, amount) ==
  /\ credits' = [credits EXCEPT ![Owner[t]] = @ + amount]
  /\ paid' = [paid EXCEPT ![t] = @ - amount]

-----------------------------------------------------------------------------
(* SubmitAITask *)

Serving(t) == proc[host[t]] = "up"

LockFree(w) == lock[w] = "free"

(* The UPDATE ... WHERE credits >= amount of ApplyCreditLog. *)
CanAfford(t) == UserExists(Owner[t]) /\ credits[Owner[t]] >= Cost[t]

SubmitCharge(w, t) ==
  /\ pc[t] = "idle" /\ proc[w] = "up"
  /\ CanAfford(t)
  /\ Post(t, -Cost[t])
  /\ pc' = [pc EXCEPT ![t] = "charged"]
  /\ host' = [host EXCEPT ![t] = w]
  /\ snap' = [snap EXCEPT ![t] = enabled]
  /\ UNCHANGED <<user, rowVars, fileVars, enabled, fresh, exec, procVars,
                 schedVars, timeVars>>

SubmitRefused(w, t) ==
  /\ pc[t] = "idle" /\ proc[w] = "up"
  /\ ~CanAfford(t)
  /\ pc' = [pc EXCEPT ![t] = "refused"]
  /\ UNCHANGED <<moneyVars, rowVars, fileVars, enabled, host, snap, fresh,
                 exec, procVars, schedVars, timeVars>>

SubmitStore(t) ==
  /\ pc[t] = "charged" /\ Serving(t)
  /\ \/ /\ req' = [req EXCEPT ![t] = "stored"]
        /\ pc' = [pc EXCEPT ![t] = "stored"]
     \/ /\ pc' = [pc EXCEPT ![t] = "refund"]
        /\ UNCHANGED req
  /\ UNCHANGED <<moneyVars, rowVars, resp, enabled, host, snap, fresh, exec,
                 procVars, schedVars, timeVars>>

QueueFull(t) == snap[t] /\ Cardinality(QueuedBy(Owner[t])) >= MaxQueuedPerUser

(* queueMu.Lock, the per-user check, and "now", which stamps the row. *)
SubmitLock(t) ==
  /\ pc[t] = "stored" /\ Serving(t) /\ LockFree(host[t])
  /\ ~QueueFull(t)
  /\ lock' = [lock EXCEPT ![host[t]] = "submit"]
  /\ pc' = [pc EXCEPT ![t] = "locked"]
  /\ created' = [created EXCEPT ![t] = second]
  /\ fresh' = fresh \cup {t}
  /\ UNCHANGED <<moneyVars, status, worker, position, price, fileVars, enabled,
                 host, snap, exec, proc, target, schedVars, timeVars>>

SubmitQueueFull(t) ==
  /\ pc[t] = "stored" /\ Serving(t) /\ LockFree(host[t])
  /\ QueueFull(t)
  /\ pc' = [pc EXCEPT ![t] = "refund"]
  /\ UNCHANGED <<moneyVars, rowVars, fileVars, enabled, host, snap, fresh,
                 exec, procVars, schedVars, timeVars>>

(* canDispatchModel counts the rows of the minute that is current now. *)
SubmitDecide(t) ==
  /\ pc[t] = "locked" /\ Serving(t)
  /\ pc' = [pc EXCEPT ![t] = IF ~snap[t] \/ Remaining(ModelOf[t]) > 0
                             THEN "launch" ELSE "count"]
  /\ UNCHANGED <<moneyVars, rowVars, fileVars, enabled, host, snap, fresh,
                 exec, procVars, schedVars, timeVars>>

(* The row is saved as executing and its goroutine starts. *)
SubmitLaunch(t) ==
  /\ pc[t] = "launch" /\ Serving(t)
  /\ status' = [status EXCEPT ![t] = "executing"]
  /\ worker' = [worker EXCEPT ![t] = host[t]]
  /\ price' = [price EXCEPT ![t] = Cost[t]]
  /\ recent' = IF t \in fresh THEN recent \cup {t} ELSE recent
  /\ sent' = IF snap[t] THEN [sent EXCEPT ![ModelOf[t]] = @ + 1] ELSE sent
  /\ lock' = [lock EXCEPT ![host[t]] = "free"]
  /\ pc' = [pc EXCEPT ![t] = "accepted"]
  /\ fresh' = fresh \ {t}
  /\ exec' = [exec EXCEPT ![t] = "reading"]
  /\ UNCHANGED <<moneyVars, position, created, fileVars, enabled, host, snap,
                 proc, target, schedVars, second>>

SubmitCount(t) ==
  /\ pc[t] = "count" /\ Serving(t)
  /\ position' = [position EXCEPT ![t] = NextPosition(ModelOf[t])]
  /\ pc' = [pc EXCEPT ![t] = "enqueue"]
  /\ UNCHANGED <<moneyVars, status, worker, created, price, fileVars, enabled,
                 host, snap, fresh, exec, procVars, schedVars, timeVars>>

SubmitEnqueue(t) ==
  /\ pc[t] = "enqueue" /\ Serving(t)
  /\ status' = [status EXCEPT ![t] = "queued"]
  /\ price' = [price EXCEPT ![t] = Cost[t]]
  /\ lock' = [lock EXCEPT ![host[t]] = "free"]
  /\ pc' = [pc EXCEPT ![t] = "accepted"]
  /\ fresh' = fresh \ {t}
  /\ UNCHANGED <<moneyVars, worker, position, created, fileVars, enabled, host,
                 snap, exec, proc, target, schedVars, timeVars>>

(* A count or the save fails under the lock. *)
SubmitError(t) ==
  /\ pc[t] \in {"locked", "launch", "count", "enqueue"} /\ Serving(t)
  /\ lock' = [lock EXCEPT ![host[t]] = "free"]
  /\ pc' = [pc EXCEPT ![t] = "refund"]
  /\ fresh' = fresh \ {t}
  /\ UNCHANGED <<moneyVars, rowVars, fileVars, enabled, host, snap, exec, proc,
                 target, schedVars, timeVars>>

(* The refund closure; its own failure is only logged. *)
SubmitRefund(t) ==
  /\ pc[t] = "refund" /\ Serving(t)
  /\ Cost[t] = 0 \/ UserExists(Owner[t])
  /\ Post(t, Cost[t])
  /\ pc' = [pc EXCEPT ![t] = IF req[t] = "stored" THEN "drop" ELSE "rejected"]
  /\ UNCHANGED <<user, rowVars, fileVars, enabled, host, snap, fresh, exec,
                 procVars, schedVars, timeVars>>

SubmitRefundFails(t) ==
  /\ pc[t] = "refund" /\ Serving(t)
  /\ Cost[t] # 0
  /\ pc' = [pc EXCEPT ![t] = IF req[t] = "stored" THEN "dropUnrefunded"
                                                  ELSE "unrefunded"]
  /\ UNCHANGED <<moneyVars, rowVars, fileVars, enabled, host, snap, fresh,
                 exec, procVars, schedVars, timeVars>>

SubmitDrop(t) ==
  /\ pc[t] \in {"drop", "dropUnrefunded"} /\ Serving(t)
  /\ req' \in {req, [req EXCEPT ![t] = "deleted"]}
  /\ pc' = [pc EXCEPT ![t] = IF @ = "drop" THEN "rejected" ELSE "unrefunded"]
  /\ UNCHANGED <<moneyVars, rowVars, resp, enabled, host, snap, fresh, exec,
                 procVars, schedVars, timeVars>>

-----------------------------------------------------------------------------
(* executeTask, in the goroutine of the worker that launched the row *)

ExecRead(t) ==
  /\ exec[t] = "reading"
  /\ exec' \in {[exec EXCEPT ![t] = "failing"]} \cup
               (IF req[t] = "stored" THEN {[exec EXCEPT ![t] = "calling"]}
                                     ELSE {})
  /\ UNCHANGED <<moneyVars, rowVars, fileVars, enabled, submitVars, procVars,
                 schedVars, timeVars>>

(* The upstream call and the storing of its answer, both under the timeout *)
(* context: either may fail.                                               *)
ExecCall(t) ==
  /\ exec[t] = "calling"
  /\ \/ /\ exec' = [exec EXCEPT ![t] = "failing"]
        /\ UNCHANGED resp
     \/ /\ exec' = [exec EXCEPT ![t] = "finishing"]
        /\ resp' = [resp EXCEPT ![t] = "stored"]
  /\ UNCHANGED <<moneyVars, rowVars, req, enabled, submitVars, procVars,
                 schedVars, timeVars>>

(* What the answer of t costs: a metered one by its tokens, if it names any. *)
Charges(t) == IF t \in Metered THEN Usage \cup {Cost[t]} ELSE {Cost[t]}

(* A settlement entry can be posted: a refund needs the user row, an extra *)
(* charge an active user with the balance.                                 *)
CanSettle(t, amount) ==
  \/ amount = 0
  \/ amount > 0 /\ UserExists(Owner[t])
  \/ amount < 0 /\ user[Owner[t]] = "active" /\ credits[Owner[t]] >= -amount

(* FinishGenerationTask(succeeded): row, balance and ledger in one          *)
(* transaction; a lost race leaves everything alone, an error fails the    *)
(* task.                                                                    *)
ExecFinish(t) ==
  /\ exec[t] = "finishing"
  /\ \/ \E actual \in Charges(t) :
           /\ RowIs(t, "executing", worker[t]) /\ CanSettle(t, Cost[t] - actual)
           /\ status' = [status EXCEPT ![t] = "succeeded"]
           /\ price' = [price EXCEPT ![t] = actual]
           /\ Post(t, Cost[t] - actual)
           /\ exec' = [exec EXCEPT ![t] = "done"]
     \/ /\ ~RowIs(t, "executing", worker[t])
        /\ exec' = [exec EXCEPT ![t] = "done"]
        /\ UNCHANGED <<status, price, credits, paid>>
     \/ /\ exec' = [exec EXCEPT ![t] = "failing"]
        /\ UNCHANGED <<status, price, credits, paid>>
  /\ UNCHANGED <<user, worker, position, created, fileVars, enabled,
                 submitVars, procVars, schedVars, timeVars>>

(* failExecutingTask by a caller that saw the row executing on w.  Without *)
(* the user row the transaction rolls back and the row stays executing.    *)
FailTask(t, w) ==
  IF RowIs(t, "executing", w) /\ (Cost[t] = 0 \/ UserExists(Owner[t]))
  THEN /\ status' = [status EXCEPT ![t] = "failed"]
       /\ Post(t, Cost[t])
  ELSE UNCHANGED <<status, credits, paid>>

ExecFail(t) ==
  /\ exec[t] = "failing"
  /\ exec' = [exec EXCEPT ![t] = "done"]
  /\ FailTask(t, worker[t]) \/ UNCHANGED <<status, credits, paid>>
  /\ UNCHANGED <<user, worker, position, created, price, fileVars, enabled,
                 submitVars, procVars, schedVars, timeVars>>

-----------------------------------------------------------------------------
(* CancelGenerationTask *)

CancelBegin(w, t) ==
  /\ proc[w] = "up" /\ LockFree(w)
  /\ status[t] = "queued"
  /\ lock' = [lock EXCEPT ![w] = "cancel"]
  /\ target' = [target EXCEPT ![w] = t]
  /\ UNCHANGED <<moneyVars, rowVars, fileVars, enabled, submitVars, exec, proc,
                 schedVars, timeVars>>

CancelFinish(w) ==
  /\ lock[w] = "cancel"
  /\ LET t == target[w] IN
       /\ RowIs(t, "queued", None) /\ (Cost[t] = 0 \/ UserExists(Owner[t]))
       /\ status' = [status EXCEPT ![t] = "canceled"]
       /\ position' = [position EXCEPT ![t] = 0]
       /\ Post(t, Cost[t])
  /\ lock' = [lock EXCEPT ![w] = "canceled"]
  /\ UNCHANGED <<user, worker, created, price, fileVars, enabled, submitVars,
                 exec, proc, target, schedVars, timeVars>>

(* The row was dispatched meanwhile, or the transaction fails. *)
CancelFails(w) ==
  /\ lock[w] = "cancel"
  /\ lock' = [lock EXCEPT ![w] = "free"]
  /\ target' = [target EXCEPT ![w] = None]
  /\ UNCHANGED <<moneyVars, rowVars, fileVars, enabled, submitVars, exec, proc,
                 schedVars, timeVars>>

(* The request payload goes, the positions of the model are recalculated;  *)
(* either may fail without undoing the cancellation.                       *)
CancelRecalculate(w) ==
  /\ lock[w] = "canceled"
  /\ req' \in {req, [req EXCEPT ![target[w]] = "deleted"]}
  /\ position' \in Recalculations(ModelOf[target[w]])
  /\ lock' = [lock EXCEPT ![w] = "free"]
  /\ target' = [target EXCEPT ![w] = None]
  /\ UNCHANGED <<moneyVars, status, worker, created, price, resp, enabled,
                 submitVars, exec, proc, schedVars, timeVars>>

-----------------------------------------------------------------------------
(* The scheduler goroutine: dispatchQueuedTasks every second *)

DispatchBegin(w) ==
  /\ proc[w] = "up" /\ sched[w] = "idle" /\ LockFree(w)
  /\ enabled
  /\ \E m \in Models : Queued(m) # {}
  /\ lock' = [lock EXCEPT ![w] = "dispatch"]
  /\ sched' = [sched EXCEPT ![w] = "models"]
  /\ todo' = [todo EXCEPT ![w] = {m \in Models : Queued(m) # {}}]
  /\ UNCHANGED <<moneyVars, rowVars, fileVars, enabled, submitVars, exec, proc,
                 target, cur, room, work, timeVars>>

DispatchModel(w, m) ==
  /\ sched[w] = "models" /\ m \in todo[w]
  /\ todo' = [todo EXCEPT ![w] = @ \ {m}]
  /\ IF Remaining(m) <= 0
     THEN UNCHANGED <<sched, cur, room>>
     ELSE /\ sched' = [sched EXCEPT ![w] = "list"]
          /\ cur' = [cur EXCEPT ![w] = m]
          /\ room' = [room EXCEPT ![w] = Remaining(m)]
  /\ UNCHANGED <<moneyVars, rowVars, fileVars, enabled, submitVars, exec,
                 procVars, work, timeVars>>

DispatchList(w) ==
  /\ sched[w] = "list"
  /\ sched' = [sched EXCEPT ![w] = "mark"]
  /\ work' = [work EXCEPT ![w] = FirstQueued(cur[w], room[w])]
  /\ room' = [room EXCEPT ![w] = 0]
  /\ UNCHANGED <<moneyVars, rowVars, fileVars, enabled, submitVars, exec,
                 procVars, todo, cur, timeVars>>

(* A fault to be caught: the mark trusts the listing.                      *)
StillQueued_Unchecked(t) == TRUE

(* MarkQueuedTaskExecuting has its own WHERE status = queued. *)
StillQueued(t) == status[t] = "queued"

(* startedAt is read before the UPDATE that stores it. *)
DispatchStamp(w) ==
  /\ sched[w] = "mark" /\ work[w] # {}
  /\ sched' = [sched EXCEPT ![w] = "stamped"]
  /\ fresh' = fresh \cup {w}
  /\ UNCHANGED <<moneyVars, rowVars, fileVars, enabled, pc, host, snap, exec,
                 procVars, todo, cur, room, work, timeVars>>

DispatchMark(w, t) ==
  /\ sched[w] = "stamped" /\ t \in work[w]
  /\ \A u \in work[w] : u = t \/ Before(t, u)
  /\ sched' = [sched EXCEPT ![w] = "mark"]
  /\ work' = [work EXCEPT ![w] = @ \ {t}]
  /\ fresh' = fresh \ {w}
  /\ IF StillQueued(t)
     THEN /\ status' = [status EXCEPT ![t] = "executing"]
          /\ worker' = [worker EXCEPT ![t] = w]
          /\ position' = [position EXCEPT ![t] = 0]
          /\ exec' = [exec EXCEPT ![t] = "reading"]
          /\ recent' = IF w \in fresh THEN recent \cup {t} ELSE recent
          /\ sent' = [sent EXCEPT ![ModelOf[t]] = @ + 1]
     ELSE UNCHANGED <<status, worker, position, exec, recent, sent>>
  /\ UNCHANGED <<moneyVars, created, price, fileVars, enabled, pc, host, snap,
                 procVars, todo, cur, room, second>>

DispatchRecalculate(w) ==
  /\ sched[w] = "mark" /\ work[w] = {}
  /\ position' = Recalculated(cur[w])
  /\ sched' = [sched EXCEPT ![w] = "models"]
  /\ cur' = [cur EXCEPT ![w] = None]
  /\ UNCHANGED <<moneyVars, status, worker, created, price, fileVars, enabled,
                 submitVars, exec, procVars, todo, room, work, timeVars>>

DispatchStop(w) ==
  /\ sched' = [sched EXCEPT ![w] = "idle"]
  /\ lock' = [lock EXCEPT ![w] = "free"]
  /\ todo' = [todo EXCEPT ![w] = {}]
  /\ cur' = [cur EXCEPT ![w] = None]
  /\ room' = [room EXCEPT ![w] = 0]
  /\ work' = [work EXCEPT ![w] = {}]
  /\ fresh' = fresh \ {w}
  /\ UNCHANGED <<moneyVars, status, worker, created, price, fileVars, enabled,
                 pc, host, snap, exec, proc, target, timeVars>>

DispatchEnd(w) ==
  /\ sched[w] = "models" /\ todo[w] = {}
  /\ DispatchStop(w)
  /\ UNCHANGED position

(* A statement fails: the function returns, in the middle of the            *)
(* recalculation or without one.                                           *)
DispatchError(w) ==
  /\ sched[w] \in {"models", "list", "mark", "stamped"}
  /\ DispatchStop(w)
  /\ position' \in IF sched[w] = "mark" /\ work[w] = {}
                   THEN Recalculations(cur[w]) ELSE {position}

-----------------------------------------------------------------------------
(* The scheduler goroutine: recoverExecutingTasks at start and every 30 s, *)
(* cleanupOldGenerationTasks every 10 minutes; neither takes queueMu       *)

(* A fault to be caught: only rows of live processes are recovered.        *)
ListExpiredExecuting_OwnOnly(S) ==
  \A t \in S : status[t] = "executing" /\ proc[worker[t]] = "up"

(* S may be the answer of ListExpiredExecutingTasks: the lease of an        *)
(* executing row may have run out, its goroutine may still be at work.     *)
ListExpiredExecuting(S) == \A t \in S : status[t] = "executing"

RecoverList(w, S) ==
  /\ proc[w] = "up" /\ sched[w] \in {"boot", "idle"}
  /\ sched[w] = "idle" => S # {}
  /\ ListExpiredExecuting(S) /\ Cardinality(S) <= RecoverBatch
  /\ work' = [work EXCEPT ![w] = S]
  /\ sched' = [sched EXCEPT ![w] = IF S = {} THEN "idle" ELSE "recover"]
  /\ UNCHANGED <<moneyVars, rowVars, fileVars, enabled, submitVars, exec,
                 procVars, todo, cur, room, timeVars>>

Recovered(w, t) ==
  /\ sched[w] = "recover" /\ t \in work[w]
  /\ work' = [work EXCEPT ![w] = @ \ {t}]
  /\ sched' = [sched EXCEPT ![w] = IF work[w] = {t} THEN "idle" ELSE @]
  /\ UNCHANGED <<user, worker, position, created, price, fileVars, enabled,
                 submitVars, exec, procVars, todo, cur, room, timeVars>>

RecoverTask(w, t) == Recovered(w, t) /\ FailTask(t, worker[t])

(* A failing transaction is only logged. *)
RecoverFails(w, t) == Recovered(w, t) /\ UNCHANGED <<status, credits, paid>>

(* A fault to be caught: the cleanup forgets the status.                   *)
Purgeable_AnyStatus(t) == status[t] # "absent" /\ t \notin recent

(* Retention is hours, so an old row is never of the current minute.  The  *)
(* payloads go first; a failure there leaves the row for the next round.   *)
Purgeable(t) == status[t] \in Terminal /\ t \notin recent

(* Only a succeeded row names its response payload. *)
Deleted(t) == IF status[t] = "succeeded" THEN [resp EXCEPT ![t] = "deleted"]
                                         ELSE resp

PurgeFiles(w, t) ==
  /\ proc[w] = "up" /\ sched[w] = "idle"
  /\ t \in MayPurge /\ Purgeable(t)
  /\ req' = [req EXCEPT ![t] = "deleted"]
  /\ resp' = Deleted(t)
  /\ sched' = [sched EXCEPT ![w] = "purge"]
  /\ work' = [work EXCEPT ![w] = {t}]
  /\ UNCHANGED <<moneyVars, rowVars, enabled, submitVars, exec, procVars, todo,
                 cur, room, timeVars>>

(* Only the first of the two files is deleted. *)
PurgeFails(w, t) ==
  /\ proc[w] = "up" /\ sched[w] = "idle"
  /\ t \in MayPurge /\ Purgeable(t) /\ req[t] # "deleted"
  /\ req' = [req EXCEPT ![t] = "deleted"]
  /\ UNCHANGED <<moneyVars, rowVars, resp, enabled, submitVars, exec, procVars,
                 schedVars, timeVars>>

PurgeEnd(w) ==
  /\ sched[w] = "purge"
  /\ sched' = [sched EXCEPT ![w] = "idle"]
  /\ work' = [work EXCEPT ![w] = {}]
  /\ UNCHANGED <<moneyVars, worker, position, created, price, fileVars,
                 enabled, submitVars, exec, procVars, todo, cur, room,
                 timeVars>>

PurgeRow(w) ==
  /\ PurgeEnd(w)
  /\ status' = [t \in Tasks |-> IF t \in work[w] THEN "purged" ELSE status[t]]

PurgeRowFails(w) == PurgeEnd(w) /\ UNCHANGED status

-----------------------------------------------------------------------------
(* Processes, administrators and time *)

Start(w) ==
  /\ proc[w] = "new"
  /\ Cardinality({v \in Workers : proc[v] = "up"}) < Instances
  /\ proc' = [proc EXCEPT ![w] = "up"]
  /\ sched' = [sched EXCEPT ![w] = "boot"]
  /\ UNCHANGED <<moneyVars, rowVars, fileVars, enabled, submitVars, exec, lock,
                 target, todo, cur, room, work, timeVars>>

(* Bound: the last incarnation of Workers does not crash. *)
Crash(w) ==
  /\ proc[w] = "up"
  /\ \E v \in Workers : proc[v] = "new"
  /\ proc' = [proc EXCEPT ![w] = "down"]
  /\ lock' = [lock EXCEPT ![w] = "free"]
  /\ target' = [target EXCEPT ![w] = None]
  /\ sched' = [sched EXCEPT ![w] = "off"]
  /\ todo' = [todo EXCEPT ![w] = {}]
  /\ cur' = [cur EXCEPT ![w] = None]
  /\ room' = [room EXCEPT ![w] = 0]
  /\ work' = [work EXCEPT ![w] = {}]
  /\ pc' = [t \in Tasks |-> IF host[t] = w /\ pc[t] \in InFlight
                            THEN "crashed" ELSE pc[t]]
  /\ fresh' = fresh \ ({w} \cup {t \in Tasks : host[t] = w})
  /\ exec' = [t \in Tasks |-> IF worker[t] = w /\ exec[t] \in Running
                              THEN "done" ELSE exec[t]]
  /\ UNCHANGED <<moneyVars, rowVars, fileVars, enabled, host, snap, timeVars>>

ToggleQueue ==
  /\ MayToggle
  /\ enabled' = ~enabled
  /\ UNCHANGED <<moneyVars, rowVars, fileVars, submitVars, exec, procVars,
                 schedVars, timeVars>>

(* SetUserCredits: the ledger entry is the difference. *)
AdjustCredits(u, c) ==
  /\ UserExists(u) /\ credits[u] # c
  /\ credits' = [credits EXCEPT ![u] = c]
  /\ UNCHANGED <<user, paid, rowVars, fileVars, enabled, submitVars, exec,
                 procVars, schedVars, timeVars>>

(* SaveUser and DeleteUser of an administrator.  The queue itself looks at   *)
(* the status in one place only, when it charges a settlement extra.       *)
SetUserStatus(u) ==
  /\ user' \in {[user EXCEPT ![u] = s] : s \in
                  (IF u \in MayDelete THEN {"deleted"} ELSE {}) \cup
                  (IF u \in MayBan THEN {"active", "banned"} ELSE {})}
  /\ UserExists(u) /\ user' # user
  /\ UNCHANGED <<credits, paid, rowVars, fileVars, enabled, submitVars, exec,
                 procVars, schedVars, timeVars>>

(* Bound: seconds matter only between two rows created in the same one. *)
Stamped(t) == \/ pc[t] \in {"locked", "launch", "count", "enqueue"}
              \/ status[t] = "queued"
NextSecond == IF \E t \in Tasks : Stamped(t) /\ created[t] = second
              THEN second + 1 ELSE second

SecondPasses ==
  /\ NextSecond # second
  /\ second' = NextSecond
  /\ UNCHANGED <<moneyVars, rowVars, fileVars, enabled, submitVars, exec,
                 procVars, schedVars, recent, sent>>

MinutePasses ==
  /\ recent # {} \/ fresh # {} \/ \E m \in Models : sent[m] # 0
  /\ second' = NextSecond
  /\ recent' = {}
  /\ fresh' = {}
  /\ sent' = [m \in Models |-> 0]
  /\ UNCHANGED <<moneyVars, rowVars, fileVars, enabled, pc, host, snap, exec,
                 procVars, schedVars>>

(* CleanupExpiredCloudFiles: a payload lives TaskRetentionHours from its   *)
(* upload, whatever the task is still waiting for.                         *)
PayloadExpires(t) ==
  /\ t \in MayExpire
  /\ req[t] = "stored" /\ status[t] \in {"queued", "executing"}
  /\ req' = [req EXCEPT ![t] = "expired"]
  /\ UNCHANGED <<moneyVars, rowVars, resp, enabled, submitVars, exec, procVars,
                 schedVars, timeVars>>

-----------------------------------------------------------------------------
SubmitStep(t) ==
  \/ SubmitStore(t) \/ SubmitLock(t) \/ SubmitQueueFull(t) \/ SubmitDecide(t)
  \/ SubmitLaunch(t) \/ SubmitCount(t) \/ SubmitEnqueue(t) \/ SubmitError(t)
  \/ SubmitRefund(t) \/ SubmitRefundFails(t) \/ SubmitDrop(t)

ExecStep(t) == ExecRead(t) \/ ExecCall(t) \/ ExecFinish(t) \/ ExecFail(t)

CancelStep(w) == CancelFinish(w) \/ CancelFails(w) \/ CancelRecalculate(w)

DispatchStep(w) ==
  \/ \E m \in Models : DispatchModel(w, m)
  \/ DispatchList(w) \/ DispatchStamp(w)
  \/ \E t \in Tasks : DispatchMark(w, t)
  \/ DispatchRecalculate(w) \/ DispatchEnd(w) \/ DispatchError(w)

RecoverStep(w) == \E t \in Tasks : RecoverTask(w, t) \/ RecoverFails(w, t)

PurgeStep(w) == PurgeRow(w) \/ PurgeRowFails(w)

Next ==
  \/ \E t \in Tasks : SubmitStep(t) \/ ExecStep(t) \/ PayloadExpires(t)
  \/ \E w \in Workers, t \in Tasks :
        \/ SubmitCharge(w, t) \/ SubmitRefused(w, t) \/ CancelBegin(w, t)
        \/ PurgeFiles(w, t) \/ PurgeFails(w, t)
  \/ \E w \in Workers :
        \/ CancelStep(w) \/ DispatchBegin(w) \/ DispatchStep(w)
        \/ \E S \in SUBSET Tasks : RecoverList(w, S)
        \/ RecoverStep(w) \/ PurgeStep(w) \/ Start(w) \/ Crash(w)
  \/ \E u \in Users :
        SetUserStatus(u) \/ \E c \in AdminCredits : AdjustCredits(u, c)
  \/ ToggleQueue \/ SecondPasses \/ MinutePasses

Spec == Init /\ [][Next]_vars

(* A statement fails that the code will run again, and that an undisturbed *)
(* database would have let succeed: an error at the end of a dispatch, say, *)
(* changes nothing else than its regular end.                              *)
Outage ==
  \E w \in Workers :
    \/ DispatchError(w) /\ ~DispatchEnd(w)
    \/ /\ CancelFails(w) /\ RowIs(target[w], "queued", None)
       /\ Cost[target[w]] = 0 \/ UserExists(Owner[target[w]])
    \/ PurgeRowFails(w) /\ ~PurgeRow(w)
    \/ \E t \in Tasks : RecoverFails(w, t) /\ ~RecoverTask(w, t)

(***************************************************************************)
(* Fairness.  A goroutine that can take a step takes one (WF); sync.Mutex  *)
(* hands the lock to a waiter in the end (SF), though the scheduler takes  *)
(* it every second; the supervisor restarts a dead process; leases run     *)
(* out and minutes pass; the database is not down for ever.  Users,        *)
(* upstreams and administrators owe nothing.                               *)
(***************************************************************************)
Fairness ==
  /\ \A t \in Tasks : /\ WF_vars(SubmitStep(t)) /\ WF_vars(ExecStep(t))
                       /\ SF_vars(SubmitLock(t) \/ SubmitQueueFull(t))
  /\ \A w \in Workers :
        /\ WF_vars(Start(w)) /\ WF_vars(CancelStep(w))
        /\ WF_vars(DispatchBegin(w)) /\ WF_vars(DispatchStep(w))
        /\ WF_vars(RecoverList(w, {})) /\ WF_vars(RecoverStep(w))
        /\ \A t \in Tasks : WF_vars(RecoverList(w, {t}))
        /\ WF_vars(PurgeStep(w))
  /\ WF_vars(MinutePasses)
  /\ <>[][~Outage]_vars

FairSpec == Spec /\ Fairness

-----------------------------------------------------------------------------
(* Properties *)

(* Every register has its type.  The parts that could go wrong are the      *)
(* money: a balance never goes below zero, however submissions,            *)
(* settlements and administrators interleave (the WHERE credits >= amount  *)
(* of ApplyCreditLog and FinishGenerationTask).                            *)
TypeOK ==
  /\ user \in [Users -> {"active", "banned", "deleted"}]
  /\ credits \in [Users -> Nat] /\ paid \in [Tasks -> Int]
  /\ status \in [Tasks -> Terminal \cup
                         {"absent", "queued", "executing", "purged"}]
  /\ worker \in [Tasks -> Workers \cup {None}]
  /\ position \in [Tasks -> Nat] /\ created \in [Tasks -> Nat]
  /\ price \in [Tasks -> Nat]
  /\ req \in [Tasks -> {"none", "stored", "deleted", "expired"}]
  /\ resp \in [Tasks -> {"none", "stored", "deleted"}]
  /\ enabled \in BOOLEAN
  /\ pc \in [Tasks -> InFlight \cup {"idle", "refused", "accepted", "rejected",
                                     "unrefunded", "crashed"}]
  /\ host \in [Tasks -> Workers \cup {None}]
  /\ snap \in [Tasks -> BOOLEAN]
  /\ fresh \subseteq Tasks \cup Workers
  /\ exec \in [Tasks -> Running \cup {"none", "done"}]
  /\ proc \in [Workers -> {"new", "up", "down"}]
  /\ lock \in [Workers -> {"free", "submit", "cancel", "canceled", "dispatch"}]
  /\ target \in [Workers -> Tasks \cup {None}]
  /\ sched \in [Workers -> {"off", "boot", "idle", "models", "list", "mark",
                           "stamped", "recover", "purge"}]
  /\ todo \in [Workers -> SUBSET Models]
  /\ cur \in [Workers -> Models \cup {None}]
  /\ room \in [Workers -> Int] /\ work \in [Workers -> SUBSET Tasks]
  /\ second \in Nat /\ recent \subseteq Tasks
  /\ sent \in [Models -> Nat]

(* The ledger agrees with the rows: a task that waits or runs holds its     *)
(* reservation, a succeeded one the price its row shows, a failed or       *)
(* canceled one nothing, and a submission that was turned away nothing.    *)
(* A late finish after a recovery, a cancellation racing a dispatch and a  *)
(* failing refund all threaten it (FinishGenerationTask, SubmitAITask).    *)
ChargeMatchesRow ==
  \A t \in Tasks :
    /\ status[t] \in {"queued", "executing"} =>
         paid[t] = Cost[t] /\ price[t] = Cost[t]
    /\ status[t] = "succeeded" => paid[t] = price[t]
    /\ status[t] \in {"failed", "canceled"} => paid[t] = 0
    /\ pc[t] = "rejected" => paid[t] = 0 /\ status[t] = "absent"

(* ChargeMatchesRow, made inductive: where a submission stands determines   *)
(* what was paid for it and whether it has a row; a cancellation has its   *)
(* row at hand; what is about to be purged is at its end; nothing runs     *)
(* before its row says so.                                                 *)
Account(t) ==
  /\ pc[t] # "accepted" => status[t] = "absent"
  /\ pc[t] \in {"idle", "refused", "drop", "rejected"} => paid[t] = 0
  /\ pc[t] \in InFlight \ {"drop", "dropUnrefunded"} => paid[t] = Cost[t]
  /\ status[t] \in {"absent", "queued"} => exec[t] = "none"

Accounts ==
  /\ ChargeMatchesRow
  /\ \A t \in Tasks : Account(t)
  /\ \A w \in Workers :
        /\ lock[w] \in {"cancel", "canceled"} => target[w] \in Tasks
        /\ sched[w] = "purge" =>
              \A t \in work[w] : status[t] \in Terminal \cup {"purged"}

(* In one clock minute a model is launched at most once more often than its *)
(* limit says, whatever the scheduler and the submissions do around the    *)
(* turn of the minute.                                                     *)
MinuteLimitSlack == \A m \in Models : sent[m] <= Limit[m] + 1

(* The position shown to a waiting user is never better than the truth: it  *)
(* counts at least every waiting row of the model created before, also     *)
(* after a failed recalculation, a crash or a cancellation.                *)
PositionsNotUnderstated ==
  \A t \in Tasks : status[t] = "queued" =>
    position[t] >
      Cardinality({u \in Queued(ModelOf[t]) : created[u] < created[t]})

(* A task leaves the queue for execution only when nothing of its model     *)
(* that was created earlier is still waiting, although the rows are listed *)
(* once and marked one by one (dispatchQueuedTasks).                       *)
DispatchInOrder ==
  [][\A t, u \in Tasks :
       /\ status[t] = "queued" /\ status'[t] = "executing"
       /\ status'[u] = "queued" /\ ModelOf[u] = ModelOf[t]
       => ~Before(u, t)]_vars

(* No row is executed twice, by two schedulers or by a restarted one: the   *)
(* upstream is asked at most once for what the user paid once.             *)
ExecutesOnce ==
  [][\A t \in Tasks :
       exec'[t] = "reading" => exec[t] \in {"none", "reading"}]_vars

(* The cleanup, a cancellation and the error paths never take the request   *)
(* payload of a row that still has to be executed; only the payload's own  *)
(* expiry does.                                                            *)
RowsHavePayloads ==
  \A t \in Tasks :
    \/ status[t] = "queued"
    \/ status[t] = "executing" /\ exec[t] \in {"reading", "calling"}
    => req[t] \in {"stored", "expired"}

(* What the ledger sees of a submission. *)
Phase(t) ==
  IF pc[t] \in {"idle", "refused"} THEN "idle"
  ELSE IF \/ status[t] \in {"queued", "executing"}
          \/ pc[t] \in InFlight \ {"drop", "dropUnrefunded"}
       THEN "reserved" ELSE "closed"

(* The queue implements the ledger: one charge per submission and one       *)
(* settlement, whatever becomes of processes, leases and races.            *)
Ledger == INSTANCE TaskLedger WITH phase <- [t \in Tasks |-> Phase(t)]
LedgerSpec == Ledger!Spec

(* No charge stays open: after a submission is charged it is refused and    *)
(* refunded, or its row ends, or its process dies; crashes of the          *)
(* executing process included (the lease and recoverExecutingTasks).       *)
ChargesClose == \A t \in Tasks : pc[t] = "charged" ~> Phase(t) = "closed"

=============================================================================
