------------------------ MODULE GenerationQueueProofs ------------------------
(***************************************************************************)
(* Theorems of GenerationQueue for every value of the constants: any number *)
(* of users, tasks, models and processes, crashes and failures included.   *)
(* What queueMu guards (the order of dispatch, positions and the limit per *)
(* minute) is proved for one process at a time: Instances <= 1.  The mutex  *)
(* does not span processes; restarts are covered.                          *)
(***************************************************************************)
EXTENDS GenerationQueue, FiniteSetTheorems, TLAPS

(* Counting rows gives natural numbers. *)
LEMMA Counting ==
  ASSUME NEW S, S \subseteq Tasks
  PROVE  Cardinality(S) \in Nat
<1>1. IsFiniteSet(S)
  BY TaskAssumption, FS_Subset
<1> QED BY <1>1, FS_CardinalityType

(* Positions are natural numbers: the next one, and all of them after a     *)
(* complete or an interrupted recalculation.                               *)
LEMMA Positions ==
  ASSUME position \in [Tasks -> Nat], NEW m
  PROVE  /\ NextPosition(m) \in Nat
         /\ Recalculated(m) \in [Tasks -> Nat]
         /\ Recalculations(m) \subseteq [Tasks -> Nat]
<1>1. NextPosition(m) \in Nat
  BY Counting DEF NextPosition, Queued
<1>2. \A t \in Tasks : Cardinality(Ahead(t)) \in Nat
  BY Counting DEF Ahead, Queued
<1>3. Recalculated(m) \in [Tasks -> Nat]
  BY <1>2 DEF Recalculated
<1>4. Recalculations(m) \subseteq [Tasks -> Nat]
  BY <1>3 DEF Recalculations
<1> QED BY <1>1, <1>3, <1>4

(* The room in a minute is an integer; more launches than the limit make it *)
(* negative.                                                               *)
LEMMA Room ==
  ASSUME recent \subseteq Tasks, NEW m \in Models
  PROVE  Remaining(m) \in Int
<1>1. Cardinality({t \in recent : ModelOf[t] = m}) \in Nat
  BY Counting
<1> QED BY <1>1, SettingAssumption DEF Remaining

(* What the scheduler goroutine forgets when it gives up its round keeps    *)
(* the types of its registers.                                             *)
LEMMA StopTypes ==
  ASSUME TypeOK, NEW w \in Workers, DispatchStop(w),
         position' \in [Tasks -> Nat]
  PROVE  TypeOK'
<1>1. /\ sched' = [sched EXCEPT ![w] = "idle"]
      /\ lock' = [lock EXCEPT ![w] = "free"]
      /\ todo' = [todo EXCEPT ![w] = {}] /\ cur' = [cur EXCEPT ![w] = None]
      /\ room' = [room EXCEPT ![w] = 0] /\ work' = [work EXCEPT ![w] = {}]
      /\ fresh' = fresh \ {w}
  BY DEF DispatchStop
<1>2. /\ sched' \in [Workers -> {"off", "boot", "idle", "models", "list", "mark",
                                "stamped", "recover", "purge"}]
      /\ lock' \in [Workers -> {"free", "submit", "cancel", "canceled",
                               "dispatch"}]
  BY <1>1 DEF TypeOK
<1>3. /\ todo' \in [Workers -> SUBSET Models]
      /\ cur' \in [Workers -> Models \cup {None}]
      /\ room' \in [Workers -> Int] /\ work' \in [Workers -> SUBSET Tasks]
      /\ fresh' \subseteq Tasks \cup Workers
  BY <1>1 DEF TypeOK
<1>4. UNCHANGED <<user, credits, paid, status, worker, created, price, req,
                  resp, enabled, pc, host, snap, exec, proc, target, second,
                  recent, sent>>
  BY DEF DispatchStop, moneyVars, fileVars, timeVars
<1> QED BY <1>2, <1>3, <1>4 DEF TypeOK

(* TypeOK by the tables and the registers it speaks about: a step is typed   *)
(* part by part, and the parts it leaves alone keep their types.           *)
MoneyTypes == /\ user \in [Users -> {"active", "banned", "deleted"}]
              /\ credits \in [Users -> Nat] /\ paid \in [Tasks -> Int]
HolderTypes ==
  /\ status \in [Tasks -> Terminal \cup {"absent", "queued", "executing", "purged"}]
  /\ worker \in [Tasks -> Workers \cup {None}]
PlaceTypes == /\ position \in [Tasks -> Nat] /\ created \in [Tasks -> Nat]
              /\ price \in [Tasks -> Nat]
FileTypes == /\ req \in [Tasks -> {"none", "stored", "deleted", "expired"}]
             /\ resp \in [Tasks -> {"none", "stored", "deleted"}]
             /\ enabled \in BOOLEAN
SubmitTypes ==
  /\ pc \in [Tasks -> InFlight \cup {"idle", "refused", "accepted", "rejected",
                                     "unrefunded", "crashed"}]
  /\ host \in [Tasks -> Workers \cup {None}]
  /\ snap \in [Tasks -> BOOLEAN]
  /\ fresh \subseteq Tasks \cup Workers
ExecTypes == exec \in [Tasks -> Running \cup {"none", "done"}]
ProcTypes ==
  /\ proc \in [Workers -> {"new", "up", "down"}]
  /\ lock \in [Workers -> {"free", "submit", "cancel", "canceled", "dispatch"}]
  /\ target \in [Workers -> Tasks \cup {None}]
SchedTypes ==
  /\ sched \in [Workers -> {"off", "boot", "idle", "models", "list", "mark",
                            "stamped", "recover", "purge"}]
  /\ todo \in [Workers -> SUBSET Models]
  /\ cur \in [Workers -> Models \cup {None}]
  /\ room \in [Workers -> Int] /\ work \in [Workers -> SUBSET Tasks]
TimeTypes == /\ second \in Nat /\ recent \subseteq Tasks
             /\ sent \in [Models -> Nat]

LEMMA TypeParts ==
  /\ TypeOK => /\ MoneyTypes /\ HolderTypes /\ PlaceTypes /\ FileTypes
               /\ SubmitTypes /\ ExecTypes /\ ProcTypes /\ SchedTypes /\ TimeTypes
  /\ MoneyTypes' /\ HolderTypes' /\ PlaceTypes' /\ FileTypes' /\ SubmitTypes' /\ ExecTypes'
     /\ ProcTypes' /\ SchedTypes' /\ TimeTypes' => TypeOK'
BY DEF TypeOK, MoneyTypes, HolderTypes, PlaceTypes, FileTypes, SubmitTypes, ExecTypes,
       ProcTypes, SchedTypes, TimeTypes

LEMMA TypesKept ==
  /\ MoneyTypes /\ UNCHANGED moneyVars => MoneyTypes'
  /\ HolderTypes /\ UNCHANGED <<status, worker>> => HolderTypes'
  /\ PlaceTypes /\ UNCHANGED <<position, created, price>> => PlaceTypes'
  /\ FileTypes /\ UNCHANGED <<req, resp, enabled>> => FileTypes'
  /\ SubmitTypes /\ UNCHANGED submitVars => SubmitTypes'
  /\ ExecTypes /\ UNCHANGED exec => ExecTypes'
  /\ ProcTypes /\ UNCHANGED procVars => ProcTypes'
  /\ SchedTypes /\ UNCHANGED schedVars => SchedTypes'
  /\ TimeTypes /\ UNCHANGED timeVars => TimeTypes'
<1>1. /\ MoneyTypes /\ UNCHANGED moneyVars => MoneyTypes'
      /\ HolderTypes /\ UNCHANGED <<status, worker>> => HolderTypes'
      /\ PlaceTypes /\ UNCHANGED <<position, created, price>> => PlaceTypes'
  BY DEF MoneyTypes, HolderTypes, PlaceTypes, moneyVars
<1>2. /\ FileTypes /\ UNCHANGED <<req, resp, enabled>> => FileTypes'
      /\ SubmitTypes /\ UNCHANGED submitVars => SubmitTypes'
  BY DEF FileTypes, SubmitTypes, submitVars
<1>3. /\ ExecTypes /\ UNCHANGED exec => ExecTypes'
      /\ ProcTypes /\ UNCHANGED procVars => ProcTypes'
  BY DEF ExecTypes, ProcTypes, procVars
<1>4. /\ SchedTypes /\ UNCHANGED schedVars => SchedTypes'
      /\ TimeTypes /\ UNCHANGED timeVars => TimeTypes'
  BY DEF SchedTypes, TimeTypes, schedVars, timeVars
<1> QED BY <1>1, <1>2, <1>3, <1>4

(* A row is handed to a process, with its goroutine.                        *)
LEMMA LaunchTypes ==
  ASSUME TypeOK, NEW t \in Tasks, SubmitLaunch(t)
  PROVE  TypeOK'
<1>1. HolderTypes'
  <2>1. /\ status' = [status EXCEPT ![t] = "executing"]
        /\ worker' = [worker EXCEPT ![t] = host[t]]
    BY DEF SubmitLaunch
  <2> QED BY <2>1, TypeParts DEF HolderTypes, SubmitTypes
<1>2. PlaceTypes'
  <2>1. price' = [price EXCEPT ![t] = Cost[t]] /\ UNCHANGED <<position, created>>
    BY DEF SubmitLaunch
  <2> QED BY <2>1, TypeParts, TaskAssumption DEF PlaceTypes
<1>3. SubmitTypes'
  <2>1. /\ pc' = [pc EXCEPT ![t] = "accepted"] /\ fresh' = fresh \ {t}
        /\ UNCHANGED <<host, snap>>
    BY DEF SubmitLaunch
  <2> QED BY <2>1, TypeParts DEF SubmitTypes
<1>4. ExecTypes'
  <2>1. exec' = [exec EXCEPT ![t] = "reading"]
    BY DEF SubmitLaunch
  <2> QED BY <2>1, TypeParts DEF ExecTypes, Running
<1>5. ProcTypes'
  <2>1. lock' = [lock EXCEPT ![host[t]] = "free"] /\ UNCHANGED <<proc, target>>
    BY DEF SubmitLaunch
  <2> QED BY <2>1, TypeParts DEF ProcTypes
<1>6. TimeTypes'
  <2>1. /\ recent' \in {recent, recent \cup {t}} /\ UNCHANGED second
        /\ sent' \in {sent, [sent EXCEPT ![ModelOf[t]] = @ + 1]}
    BY DEF SubmitLaunch
  <2> QED BY <2>1, TypeParts DEF TimeTypes
<1>7. UNCHANGED <<moneyVars, req, resp, enabled, schedVars>>
  BY DEF SubmitLaunch, fileVars
<1> QED BY <1>1, <1>2, <1>3, <1>4, <1>5, <1>6, <1>7, TypeParts, TypesKept

(* The answer of the upstream is stored, or the goroutine fails.            *)
LEMMA CallTypes ==
  ASSUME TypeOK, NEW t \in Tasks, ExecCall(t)
  PROVE  TypeOK'
<1>1. /\ exec' \in {[exec EXCEPT ![t] = "failing"], [exec EXCEPT ![t] = "finishing"]}
      /\ resp' \in {resp, [resp EXCEPT ![t] = "stored"]}
      /\ UNCHANGED <<req, enabled>>
  BY DEF ExecCall
<1>2. ExecTypes'
  BY <1>1, TypeParts DEF ExecTypes, Running
<1>3. FileTypes'
  BY <1>1, TypeParts DEF FileTypes
<1>4. UNCHANGED <<moneyVars, status, worker, position, created, price, submitVars, procVars,
                  schedVars, timeVars>>
  BY DEF ExecCall, rowVars
<1> QED BY <1>2, <1>3, <1>4, TypeParts, TypesKept

(* A settlement is posted only when the balance bears it; a refund always.  *)
LEMMA PostTypes ==
  ASSUME TypeOK, NEW t \in Tasks, NEW a \in Int, Post(t, a),
         a >= 0 \/ credits[Owner[t]] >= -a
  PROVE  credits' \in [Users -> Nat] /\ paid' \in [Tasks -> Int]
<1>1. Owner[t] \in Users
  BY TaskAssumption
<1>2. credits[Owner[t]] \in Nat /\ paid[t] \in Int
  BY <1>1, TypeParts DEF MoneyTypes
<1>3. credits[Owner[t]] + a \in Nat /\ paid[t] - a \in Int
  BY <1>2
<1> QED BY <1>1, <1>3, TypeParts DEF Post, MoneyTypes

LEMMA FinishTypes ==
  ASSUME TypeOK, NEW t \in Tasks, ExecFinish(t)
  PROVE  TypeOK'
<1>1. /\ exec' \in {[exec EXCEPT ![t] = "failing"], [exec EXCEPT ![t] = "done"]}
      /\ UNCHANGED <<user, worker, position, created, fileVars, enabled, submitVars, procVars,
                     schedVars, timeVars>>
  BY DEF ExecFinish
<1>2. ExecTypes'
  BY <1>1, TypeParts DEF ExecTypes, Running
<1>3. CASE UNCHANGED <<status, price, credits, paid>>
  BY <1>1, <1>2, <1>3, TypeParts, TypesKept DEF moneyVars, fileVars
<1>4. CASE \E actual \in Charges(t) :
             /\ CanSettle(t, Cost[t] - actual)
             /\ status' = [status EXCEPT ![t] = "succeeded"]
             /\ price' = [price EXCEPT ![t] = actual]
             /\ Post(t, Cost[t] - actual)
  <2>1. PICK actual \in Charges(t) :
          /\ CanSettle(t, Cost[t] - actual)
          /\ status' = [status EXCEPT ![t] = "succeeded"]
          /\ price' = [price EXCEPT ![t] = actual]
          /\ Post(t, Cost[t] - actual)
    BY <1>4
  <2>2. actual \in Nat /\ Cost[t] - actual \in Int
    BY TaskAssumption DEF Charges
  <2>3. Cost[t] - actual >= 0 \/ credits[Owner[t]] >= -(Cost[t] - actual)
    BY <2>1, <2>2 DEF CanSettle
  <2>4. credits' \in [Users -> Nat] /\ paid' \in [Tasks -> Int]
    BY <2>1, <2>2, <2>3, PostTypes
  <2>5. MoneyTypes'
    BY <1>1, <2>4, TypeParts DEF MoneyTypes
  <2>6. HolderTypes'
    BY <1>1, <2>1, TypeParts DEF HolderTypes, Terminal
  <2>7. PlaceTypes'
    BY <1>1, <2>1, <2>2, TypeParts DEF PlaceTypes
  <2> QED BY <1>1, <1>2, <2>5, <2>6, <2>7, TypeParts, TypesKept DEF fileVars
<1> QED BY <1>3, <1>4 DEF ExecFinish

(* FailTask refunds the reservation, or leaves the row to a later recovery.  *)
LEMMA FailTypes ==
  ASSUME TypeOK, NEW t \in Tasks, NEW w, FailTask(t, w), UNCHANGED <<user, worker>>
  PROVE  MoneyTypes' /\ HolderTypes'
<1>1. CASE UNCHANGED <<status, credits, paid>>
  BY <1>1, TypeParts, TypesKept DEF moneyVars
<1>2. CASE status' = [status EXCEPT ![t] = "failed"] /\ Post(t, Cost[t])
  <2>1. credits' \in [Users -> Nat] /\ paid' \in [Tasks -> Int]
    BY <1>2, PostTypes, TaskAssumption
  <2>2. MoneyTypes'
    BY <2>1, TypeParts DEF MoneyTypes
  <2>3. HolderTypes'
    BY <1>2, TypeParts DEF HolderTypes, Terminal
  <2> QED BY <2>2, <2>3
<1> QED BY <1>1, <1>2 DEF FailTask

LEMMA ExecFailTypes ==
  ASSUME TypeOK, NEW t \in Tasks, ExecFail(t)
  PROVE  TypeOK'
<1>1. /\ exec' = [exec EXCEPT ![t] = "done"]
      /\ UNCHANGED <<user, worker, position, created, price, fileVars, enabled, submitVars,
                     procVars, schedVars, timeVars>>
  BY DEF ExecFail
<1>2. ExecTypes'
  BY <1>1, TypeParts DEF ExecTypes
<1>3. MoneyTypes' /\ HolderTypes'
  <2>1. CASE FailTask(t, worker[t])
    BY <1>1, <2>1, FailTypes
  <2>2. CASE UNCHANGED <<status, credits, paid>>
    BY <1>1, <2>2, TypeParts, TypesKept DEF moneyVars
  <2> QED BY <2>1, <2>2 DEF ExecFail
<1> QED BY <1>1, <1>2, <1>3, TypeParts, TypesKept DEF fileVars

(* The positions behind a canceled row move up, some of them or all.        *)
LEMMA CancelRecalculateTypes ==
  ASSUME TypeOK, NEW w \in Workers, CancelRecalculate(w)
  PROVE  TypeOK'
<1>1. /\ req' \in {req, [req EXCEPT ![target[w]] = "deleted"]} /\ UNCHANGED <<resp, enabled>>
      /\ position' \in Recalculations(ModelOf[target[w]]) /\ UNCHANGED <<created, price>>
      /\ lock' = [lock EXCEPT ![w] = "free"] /\ target' = [target EXCEPT ![w] = None]
      /\ UNCHANGED proc
  BY DEF CancelRecalculate
<1>2. FileTypes'
  BY <1>1, TypeParts DEF FileTypes
<1>3. PlaceTypes'
  <2>1. position \in [Tasks -> Nat]
    BY TypeParts DEF PlaceTypes
  <2>2. position' \in [Tasks -> Nat]
    BY <1>1, <2>1, Positions
  <2> QED BY <1>1, <2>2, TypeParts DEF PlaceTypes
<1>4. ProcTypes'
  BY <1>1, TypeParts DEF ProcTypes
<1>5. UNCHANGED <<moneyVars, status, worker, submitVars, exec, schedVars, timeVars>>
  BY DEF CancelRecalculate
<1> QED BY <1>2, <1>3, <1>4, <1>5, TypeParts, TypesKept

(* The scheduler reads the clock before it marks a row.                     *)
LEMMA StampTypes ==
  ASSUME TypeOK, NEW w \in Workers, DispatchStamp(w)
  PROVE  TypeOK'
<1>1. /\ sched' = [sched EXCEPT ![w] = "stamped"] /\ UNCHANGED <<todo, cur, room, work>>
      /\ fresh' = fresh \cup {w} /\ UNCHANGED <<pc, host, snap>>
  BY DEF DispatchStamp
<1>2. SchedTypes'
  BY <1>1, TypeParts DEF SchedTypes
<1>3. SubmitTypes'
  BY <1>1, TypeParts DEF SubmitTypes
<1>4. UNCHANGED <<moneyVars, status, worker, position, created, price, req, resp, enabled, exec,
                  procVars, timeVars>>
  BY DEF DispatchStamp, rowVars, fileVars
<1> QED BY <1>2, <1>3, <1>4, TypeParts, TypesKept

(* A recovery fails the row it was asked for, or loses the race.            *)
LEMMA RecoverTypes ==
  ASSUME TypeOK, NEW w \in Workers, NEW t \in Tasks, RecoverTask(w, t)
  PROVE  TypeOK'
<1>1. /\ work' = [work EXCEPT ![w] = @ \ {t}]
      /\ sched' \in {sched, [sched EXCEPT ![w] = "idle"], [sched EXCEPT ![w] = sched[w]]}
      /\ UNCHANGED <<todo, cur, room>>
  BY DEF RecoverTask, Recovered
<1>2. SchedTypes'
  BY <1>1, TypeParts DEF SchedTypes
<1>3. UNCHANGED <<user, worker, position, created, price, req, resp, enabled, submitVars, exec,
                  procVars, timeVars>>
  BY DEF RecoverTask, Recovered, fileVars
<1>4. MoneyTypes' /\ HolderTypes'
  BY <1>3, FailTypes DEF RecoverTask
<1> QED BY <1>2, <1>3, <1>4, TypeParts, TypesKept

(* Every step keeps the types.  Only CancelFinish needs more than the types: *)
(* the row it works on is at hand.                                         *)
LEMMA TypeStep ==
  ASSUME TypeOK, Accounts, [Next]_vars
  PROVE  TypeOK'
<1> USE TaskAssumption, SettingAssumption
    DEF TypeOK, vars, moneyVars, rowVars, fileVars, submitVars, procVars,
        schedVars, timeVars, Terminal, InFlight, Running
<1>1. ASSUME NEW t \in Tasks, SubmitStore(t) PROVE TypeOK'
  BY <1>1 DEF SubmitStore
<1>2. ASSUME NEW t \in Tasks, SubmitLock(t) PROVE TypeOK'
  BY <1>2, ZenonT(60) DEF SubmitLock
<1>3. ASSUME NEW t \in Tasks, SubmitQueueFull(t) PROVE TypeOK'
  BY <1>3 DEF SubmitQueueFull
<1>4. ASSUME NEW t \in Tasks, SubmitDecide(t) PROVE TypeOK'
  BY <1>4 DEF SubmitDecide
<1>5. ASSUME NEW t \in Tasks, SubmitLaunch(t) PROVE TypeOK'
  BY <1>5, LaunchTypes
<1>6. ASSUME NEW t \in Tasks, SubmitCount(t) PROVE TypeOK'
  BY <1>6, Positions DEF SubmitCount
<1>7. ASSUME NEW t \in Tasks, SubmitEnqueue(t) PROVE TypeOK'
  BY <1>7 DEF SubmitEnqueue
<1>8. ASSUME NEW t \in Tasks, SubmitError(t) PROVE TypeOK'
  BY <1>8 DEF SubmitError
<1>9. ASSUME NEW t \in Tasks, SubmitRefund(t) PROVE TypeOK'
  BY <1>9 DEF SubmitRefund, Post
<1>10. ASSUME NEW t \in Tasks, SubmitRefundFails(t) PROVE TypeOK'
  BY <1>10 DEF SubmitRefundFails
<1>11. ASSUME NEW t \in Tasks, SubmitDrop(t) PROVE TypeOK'
  BY <1>11 DEF SubmitDrop
<1>12. ASSUME NEW t \in Tasks, ExecRead(t) PROVE TypeOK'
  BY <1>12 DEF ExecRead
<1>13. ASSUME NEW t \in Tasks, ExecCall(t) PROVE TypeOK'
  BY <1>13, CallTypes
<1>14. ASSUME NEW t \in Tasks, ExecFinish(t) PROVE TypeOK'
  BY <1>14, FinishTypes
<1>15. ASSUME NEW t \in Tasks, ExecFail(t) PROVE TypeOK'
  BY <1>15, ExecFailTypes
<1>16. ASSUME NEW t \in Tasks, PayloadExpires(t) PROVE TypeOK'
  BY <1>16 DEF PayloadExpires
<1>17. ASSUME NEW w \in Workers, NEW t \in Tasks, SubmitCharge(w, t) PROVE TypeOK'
  BY <1>17 DEF SubmitCharge, CanAfford, Post
<1>18. ASSUME NEW w \in Workers, NEW t \in Tasks, SubmitRefused(w, t) PROVE TypeOK'
  BY <1>18 DEF SubmitRefused
<1>19. ASSUME NEW w \in Workers, NEW t \in Tasks, CancelBegin(w, t) PROVE TypeOK'
  BY <1>19 DEF CancelBegin
<1>20. ASSUME NEW w \in Workers, NEW t \in Tasks, PurgeFiles(w, t) PROVE TypeOK'
  BY <1>20 DEF PurgeFiles, Deleted
<1>21. ASSUME NEW w \in Workers, NEW t \in Tasks, PurgeFails(w, t) PROVE TypeOK'
  BY <1>21 DEF PurgeFails
<1>22. ASSUME NEW w \in Workers, CancelFinish(w) PROVE TypeOK'
  <2>1. PICK t \in Tasks : t = target[w]
    BY <1>22 DEF CancelFinish, Accounts
  <2>2. /\ credits' = [credits EXCEPT ![Owner[t]] = @ + Cost[t]]
        /\ paid' = [paid EXCEPT ![t] = @ - Cost[t]]
        /\ status' = [status EXCEPT ![t] = "canceled"]
        /\ position' = [position EXCEPT ![t] = 0]
        /\ lock' = [lock EXCEPT ![w] = "canceled"]
    BY <1>22, <2>1 DEF CancelFinish, Post
  <2>3. credits' \in [Users -> Nat] /\ paid' \in [Tasks -> Int]
    BY <2>2
  <2>4. UNCHANGED <<user, worker, created, price, fileVars, enabled, submitVars,
                    exec, proc, target, schedVars, timeVars>>
    BY <1>22 DEF CancelFinish
  <2> QED BY <2>2, <2>3, <2>4
<1>23. ASSUME NEW w \in Workers, CancelFails(w) PROVE TypeOK'
  BY <1>23 DEF CancelFails
<1>24. ASSUME NEW w \in Workers, CancelRecalculate(w) PROVE TypeOK'
  BY <1>24, CancelRecalculateTypes
<1>25. ASSUME NEW w \in Workers, DispatchBegin(w) PROVE TypeOK'
  BY <1>25 DEF DispatchBegin
<1>26. ASSUME NEW w \in Workers, NEW m \in Models, DispatchModel(w, m) PROVE TypeOK'
  BY <1>26, Room, SMTT(30) DEF DispatchModel
<1>27. ASSUME NEW w \in Workers, DispatchList(w) PROVE TypeOK'
  BY <1>27 DEF DispatchList, FirstQueued, Queued
<1>28. ASSUME NEW w \in Workers, DispatchStamp(w) PROVE TypeOK'
  BY <1>28, StampTypes
<1>29. ASSUME NEW w \in Workers, NEW t \in Tasks, DispatchMark(w, t) PROVE TypeOK'
  <2>1. /\ sched' = [sched EXCEPT ![w] = "mark"]
        /\ work' = [work EXCEPT ![w] = @ \ {t}]
        /\ fresh' = fresh \ {w}
        /\ UNCHANGED <<user, credits, paid, created, price, req, resp, enabled,
                       pc, host, snap, proc, lock, target, todo, cur, room,
                       second>>
    BY <1>29 DEF DispatchMark
  <2>2. /\ status' \in {status, [status EXCEPT ![t] = "executing"]}
        /\ worker' \in {worker, [worker EXCEPT ![t] = w]}
        /\ position' \in {position, [position EXCEPT ![t] = 0]}
        /\ exec' \in {exec, [exec EXCEPT ![t] = "reading"]}
        /\ recent' \in {recent, recent \cup {t}}
        /\ sent' \in {sent, [sent EXCEPT ![ModelOf[t]] = @ + 1]}
    BY <1>29 DEF DispatchMark
  <2>3. status' \in [Tasks -> Terminal \cup {"absent", "queued", "executing", "purged"}]
    <3>1. status \in [Tasks -> Terminal \cup {"absent", "queued", "executing", "purged"}]
      BY DEF TypeOK
    <3> QED BY <2>2, <3>1
  <2>9. worker' \in [Tasks -> Workers \cup {None}]
    <3>1. worker \in [Tasks -> Workers \cup {None}]
      BY DEF TypeOK
    <3> QED BY <2>2, <3>1
  <2>4. /\ position' \in [Tasks -> Nat]
        /\ exec' \in [Tasks -> Running \cup {"none", "done"}]
    BY <2>2
  <2>7. recent' \subseteq Tasks
    BY <2>2
  <2>8. sent' \in [Models -> Nat]
    BY <2>2
  <2>5. /\ work' \in [Workers -> SUBSET Tasks]
        /\ fresh' \subseteq Tasks \cup Workers
    BY <2>1
  <2>6. sched' \in [Workers -> {"off", "boot", "idle", "models", "list", "mark",
                               "stamped", "recover", "purge"}]
    BY <2>1
  <2> QED BY <2>1, <2>3, <2>4, <2>5, <2>6, <2>7, <2>8, <2>9
<1>30. ASSUME NEW w \in Workers, DispatchRecalculate(w) PROVE TypeOK'
  BY <1>30, Positions DEF DispatchRecalculate
<1>31. ASSUME NEW w \in Workers, DispatchEnd(w) PROVE TypeOK'
  BY <1>31, StopTypes DEF DispatchEnd
<1>32. ASSUME NEW w \in Workers, DispatchError(w) PROVE TypeOK'
  <2>1. position' \in [Tasks -> Nat]
    BY <1>32, Positions DEF DispatchError
  <2> QED BY <1>32, <2>1, StopTypes DEF DispatchError
<1>33. ASSUME NEW w \in Workers, NEW S \in SUBSET Tasks, RecoverList(w, S) PROVE TypeOK'
  BY <1>33 DEF RecoverList
<1>34. ASSUME NEW w \in Workers, NEW t \in Tasks, RecoverTask(w, t) PROVE TypeOK'
  BY <1>34, RecoverTypes
<1>35. ASSUME NEW w \in Workers, NEW t \in Tasks, RecoverFails(w, t) PROVE TypeOK'
  BY <1>35 DEF RecoverFails, Recovered
<1>36. ASSUME NEW w \in Workers, PurgeRow(w) PROVE TypeOK'
  BY <1>36 DEF PurgeRow, PurgeEnd
<1>37. ASSUME NEW w \in Workers, PurgeRowFails(w) PROVE TypeOK'
  BY <1>37 DEF PurgeRowFails, PurgeEnd
<1>38. ASSUME NEW w \in Workers, Start(w) PROVE TypeOK'
  BY <1>38 DEF Start
<1>39. ASSUME NEW w \in Workers, Crash(w) PROVE TypeOK'
  <2>1. /\ proc' \in [Workers -> {"new", "up", "down"}]
        /\ lock' \in [Workers -> {"free", "submit", "cancel", "canceled",
                                 "dispatch"}]
        /\ target' \in [Workers -> Tasks \cup {None}]
    BY <1>39 DEF Crash
  <2>2. /\ sched' \in [Workers -> {"off", "boot", "idle", "models", "list",
                                  "mark", "stamped", "recover", "purge"}]
        /\ todo' \in [Workers -> SUBSET Models]
        /\ cur' \in [Workers -> Models \cup {None}]
    BY <1>39 DEF Crash
  <2>3. room' \in [Workers -> Int] /\ work' \in [Workers -> SUBSET Tasks]
    BY <1>39 DEF Crash
  <2>7. fresh' \subseteq Tasks \cup Workers
    BY <1>39 DEF Crash
  <2>4. pc' \in [Tasks -> InFlight \cup {"idle", "refused", "accepted",
                                        "rejected", "unrefunded", "crashed"}]
    BY <1>39 DEF Crash
  <2>5. exec' \in [Tasks -> Running \cup {"none", "done"}]
    BY <1>39 DEF Crash
  <2>6. UNCHANGED <<user, credits, paid, status, worker, position, created,
                    price, req, resp, enabled, host, snap, second, recent,
                    sent>>
    BY <1>39 DEF Crash
  <2> QED BY <2>1, <2>2, <2>3, <2>4, <2>5, <2>6, <2>7
<1>40. ASSUME NEW u \in Users, SetUserStatus(u) PROVE TypeOK'
  BY <1>40 DEF SetUserStatus
<1>41. ASSUME NEW u \in Users, NEW c \in AdminCredits, AdjustCredits(u, c) PROVE TypeOK'
  BY <1>41 DEF AdjustCredits
<1>42. ASSUME ToggleQueue PROVE TypeOK'
  BY <1>42 DEF ToggleQueue
<1>43. ASSUME SecondPasses PROVE TypeOK'
  BY <1>43 DEF SecondPasses, NextSecond
<1>44. ASSUME MinutePasses PROVE TypeOK'
  BY <1>44 DEF MinutePasses, NextSecond
<1>45. CASE UNCHANGED vars
  BY <1>45
<1> QED
  BY <1>1, <1>2, <1>3, <1>4, <1>5, <1>6, <1>7, <1>8, <1>9, <1>10, <1>11, <1>12, <1>13, <1>14,
     <1>15, <1>16, <1>17, <1>18, <1>19, <1>20, <1>21, <1>22, <1>23, <1>24, <1>25, <1>26, <1>27,
     <1>28, <1>29, <1>30, <1>31, <1>32, <1>33, <1>34, <1>35, <1>36, <1>37, <1>38, <1>39, <1>40,
     <1>41, <1>42, <1>43, <1>44, <1>45
  DEF Next, SubmitStep, ExecStep, CancelStep, DispatchStep, RecoverStep, PurgeStep


(* Every step keeps the books: a step that moves money moves the row or the *)
(* submission with it, and no other step touches either.                   *)
LEMMA AccountStep ==
  ASSUME TypeOK, Accounts, [Next]_vars
  PROVE  Accounts'
<1> USE TaskAssumption
    DEF TypeOK, Accounts, ChargeMatchesRow, Account, vars, moneyVars, rowVars,
        fileVars, submitVars, procVars, schedVars, timeVars, Terminal, InFlight
<1>1. ASSUME NEW t \in Tasks, SubmitStore(t) PROVE Accounts'
  BY <1>1 DEF SubmitStore
<1>2. ASSUME NEW t \in Tasks, SubmitLock(t) PROVE Accounts'
  BY <1>2 DEF SubmitLock
<1>3. ASSUME NEW t \in Tasks, SubmitQueueFull(t) PROVE Accounts'
  BY <1>3 DEF SubmitQueueFull
<1>4. ASSUME NEW t \in Tasks, SubmitDecide(t) PROVE Accounts'
  BY <1>4 DEF SubmitDecide
<1>5. ASSUME NEW t \in Tasks, SubmitLaunch(t) PROVE Accounts'
  BY <1>5, SMTT(30) DEF SubmitLaunch
<1>6. ASSUME NEW t \in Tasks, SubmitCount(t) PROVE Accounts'
  BY <1>6 DEF SubmitCount
<1>7. ASSUME NEW t \in Tasks, SubmitEnqueue(t) PROVE Accounts'
  BY <1>7 DEF SubmitEnqueue
<1>8. ASSUME NEW t \in Tasks, SubmitError(t) PROVE Accounts'
  BY <1>8 DEF SubmitError
<1>9. ASSUME NEW t \in Tasks, SubmitRefund(t) PROVE Accounts'
  BY <1>9 DEF SubmitRefund, Post
<1>10. ASSUME NEW t \in Tasks, SubmitRefundFails(t) PROVE Accounts'
  BY <1>10 DEF SubmitRefundFails
<1>11. ASSUME NEW t \in Tasks, SubmitDrop(t) PROVE Accounts'
  BY <1>11 DEF SubmitDrop
<1>12. ASSUME NEW t \in Tasks, ExecRead(t) PROVE Accounts'
  BY <1>12 DEF ExecRead
<1>13. ASSUME NEW t \in Tasks, ExecCall(t) PROVE Accounts'
  BY <1>13 DEF ExecCall
<1>14. ASSUME NEW t \in Tasks, ExecFinish(t) PROVE Accounts'
  <2>1. CASE UNCHANGED <<status, price, credits, paid>>
    BY <1>14, <2>1 DEF ExecFinish
  <2>2. CASE ~UNCHANGED <<status, price, credits, paid>>
    <3>1. PICK actual \in Charges(t) :
            /\ status[t] = "executing"
            /\ status' = [status EXCEPT ![t] = "succeeded"]
            /\ price' = [price EXCEPT ![t] = actual]
            /\ paid' = [paid EXCEPT ![t] = @ - (Cost[t] - actual)]
      BY <1>14, <2>2 DEF ExecFinish, Post, RowIs
    <3>2. actual \in Int /\ Cost[t] \in Int
      BY DEF Charges
    <3>3. paid[t] = Cost[t] /\ pc[t] = "accepted"
      BY <3>1
    <3>4. paid'[t] = actual /\ price'[t] = actual /\ status'[t] = "succeeded"
      BY <3>1, <3>2, <3>3
    <3>5. \A u \in Tasks \ {t} : UNCHANGED <<status[u], price[u], paid[u]>>
      BY <3>1
    <3>6. /\ UNCHANGED <<pc, lock, target, sched, work>>
          /\ \A u \in Tasks \ {t} : UNCHANGED exec[u]
      BY <1>14 DEF ExecFinish
    <3> QED BY <3>1, <3>3, <3>4, <3>5, <3>6
  <2> QED BY <2>1, <2>2
<1>15. ASSUME NEW t \in Tasks, ExecFail(t) PROVE Accounts'
  BY <1>15 DEF ExecFail, FailTask, Post, RowIs
<1>16. ASSUME NEW t \in Tasks, PayloadExpires(t) PROVE Accounts'
  BY <1>16 DEF PayloadExpires
<1>17. ASSUME NEW w \in Workers, NEW t \in Tasks, SubmitCharge(w, t) PROVE Accounts'
  BY <1>17 DEF SubmitCharge, Post
<1>18. ASSUME NEW w \in Workers, NEW t \in Tasks, SubmitRefused(w, t) PROVE Accounts'
  BY <1>18 DEF SubmitRefused
<1>19. ASSUME NEW w \in Workers, NEW t \in Tasks, CancelBegin(w, t) PROVE Accounts'
  BY <1>19 DEF CancelBegin
<1>20. ASSUME NEW w \in Workers, NEW t \in Tasks, PurgeFiles(w, t) PROVE Accounts'
  BY <1>20 DEF PurgeFiles, Purgeable
<1>21. ASSUME NEW w \in Workers, NEW t \in Tasks, PurgeFails(w, t) PROVE Accounts'
  BY <1>21 DEF PurgeFails
<1>22. ASSUME NEW w \in Workers, CancelFinish(w) PROVE Accounts'
  BY <1>22 DEF CancelFinish, Post, RowIs
<1>23. ASSUME NEW w \in Workers, CancelFails(w) PROVE Accounts'
  BY <1>23 DEF CancelFails
<1>24. ASSUME NEW w \in Workers, CancelRecalculate(w) PROVE Accounts'
  BY <1>24 DEF CancelRecalculate
<1>25. ASSUME NEW w \in Workers, DispatchBegin(w) PROVE Accounts'
  BY <1>25 DEF DispatchBegin
<1>26. ASSUME NEW w \in Workers, NEW m \in Models, DispatchModel(w, m) PROVE Accounts'
  BY <1>26 DEF DispatchModel
<1>27. ASSUME NEW w \in Workers, DispatchList(w) PROVE Accounts'
  BY <1>27 DEF DispatchList
<1>28. ASSUME NEW w \in Workers, DispatchStamp(w) PROVE Accounts'
  BY <1>28 DEF DispatchStamp
<1>29. ASSUME NEW w \in Workers, NEW t \in Tasks, DispatchMark(w, t) PROVE Accounts'
  BY <1>29 DEF DispatchMark, StillQueued
<1>30. ASSUME NEW w \in Workers, DispatchRecalculate(w) PROVE Accounts'
  BY <1>30 DEF DispatchRecalculate
<1>31. ASSUME NEW w \in Workers, DispatchEnd(w) PROVE Accounts'
  BY <1>31 DEF DispatchEnd, DispatchStop
<1>32. ASSUME NEW w \in Workers, DispatchError(w) PROVE Accounts'
  BY <1>32 DEF DispatchError, DispatchStop
<1>33. ASSUME NEW w \in Workers, NEW S \in SUBSET Tasks, RecoverList(w, S) PROVE Accounts'
  BY <1>33 DEF RecoverList
<1>34. ASSUME NEW w \in Workers, NEW t \in Tasks, RecoverTask(w, t) PROVE Accounts'
  BY <1>34 DEF RecoverTask, Recovered, FailTask, Post, RowIs
<1>35. ASSUME NEW w \in Workers, NEW t \in Tasks, RecoverFails(w, t) PROVE Accounts'
  BY <1>35 DEF RecoverFails, Recovered
<1>36. ASSUME NEW w \in Workers, PurgeRow(w) PROVE Accounts'
  BY <1>36 DEF PurgeRow, PurgeEnd
<1>37. ASSUME NEW w \in Workers, PurgeRowFails(w) PROVE Accounts'
  BY <1>37 DEF PurgeRowFails, PurgeEnd
<1>38. ASSUME NEW w \in Workers, Start(w) PROVE Accounts'
  BY <1>38 DEF Start
<1>39. ASSUME NEW w \in Workers, Crash(w) PROVE Accounts'
  BY <1>39 DEF Crash, Running
<1>40. ASSUME NEW u \in Users, SetUserStatus(u) PROVE Accounts'
  BY <1>40 DEF SetUserStatus
<1>41. ASSUME NEW u \in Users, NEW c \in AdminCredits, AdjustCredits(u, c) PROVE Accounts'
  BY <1>41 DEF AdjustCredits
<1>42. ASSUME ToggleQueue PROVE Accounts'
  BY <1>42 DEF ToggleQueue
<1>43. ASSUME SecondPasses PROVE Accounts'
  BY <1>43 DEF SecondPasses
<1>44. ASSUME MinutePasses PROVE Accounts'
  BY <1>44 DEF MinutePasses
<1>45. CASE UNCHANGED vars
  BY <1>45
<1> QED
  BY <1>1, <1>2, <1>3, <1>4, <1>5, <1>6, <1>7, <1>8, <1>9, <1>10, <1>11, <1>12, <1>13, <1>14,
     <1>15, <1>16, <1>17, <1>18, <1>19, <1>20, <1>21, <1>22, <1>23, <1>24, <1>25, <1>26, <1>27,
     <1>28, <1>29, <1>30, <1>31, <1>32, <1>33, <1>34, <1>35, <1>36, <1>37, <1>38, <1>39, <1>40,
     <1>41, <1>42, <1>43, <1>44, <1>45
  DEF Next, SubmitStep, ExecStep, CancelStep, DispatchStep, RecoverStep, PurgeStep

(* Types and books are inductive together. *)
THEOREM Invariance == Spec => [](TypeOK /\ Accounts)
<1>1. Init => TypeOK /\ Accounts
  <2> SUFFICES ASSUME Init PROVE TypeOK /\ Accounts
    OBVIOUS
  <2>1. TypeOK
    BY TaskAssumption, SettingAssumption
    DEF Init, TypeOK, Terminal, InFlight, Running
  <2>2. Accounts
    BY NoneAssumption
    DEF Init, Accounts, ChargeMatchesRow, Account, Terminal, InFlight
  <2> QED BY <2>1, <2>2
<1>2. TypeOK /\ Accounts /\ [Next]_vars => (TypeOK /\ Accounts)'
  BY TypeStep, AccountStep
<1> QED BY <1>1, <1>2, PTL DEF Spec

(* A balance is never negative and every register keeps its type, in every  *)
(* interleaving of submissions, executions, schedulers and crashes.        *)
THEOREM TypeCorrect == Spec => []TypeOK
BY Invariance, PTL

(* The ledger agrees with the rows, for any number of processes: a task     *)
(* that waits or runs holds its reservation, one that ended what its row   *)
(* says, one that was turned away nothing.                                 *)
THEOREM ChargesMatch == Spec => []ChargeMatchesRow
<1>1. Accounts => ChargeMatchesRow
  BY DEF Accounts
<1> QED BY Invariance, <1>1, PTL
(* The upstream is asked at most once for a task, however many schedulers   *)
(* and restarts there are: execution starts from a row that waits or was   *)
(* just saved, and such a row has not been executed.                       *)
THEOREM ExecutedOnce == Spec => ExecutesOnce
<1> DEFINE Once == \A t \in Tasks :
                     exec'[t] = "reading" => exec[t] \in {"none", "reading"}
<1>1. TypeOK /\ Accounts /\ [Next]_vars => [Once]_vars
  <2> SUFFICES ASSUME TypeOK, Accounts, Next, NEW r \in Tasks,
                      exec'[r] = "reading", exec[r] # "reading"
               PROVE  exec[r] = "none"
    OBVIOUS
  <2>1. \A t \in Tasks : status[t] \in {"absent", "queued"} => exec[t] = "none"
    BY DEF Accounts, Account
  <2>2. exec \in [Tasks -> Running \cup {"none", "done"}]
    BY DEF TypeOK
  <2>3. ASSUME NEW t \in Tasks, SubmitStep(t) PROVE exec[r] = "none"
    <3>1. CASE SubmitLaunch(t)
      <4>1. pc[t] # "accepted" /\ exec' = [exec EXCEPT ![t] = "reading"]
        BY <3>1 DEF SubmitLaunch
      <4> QED BY <4>1, <2>1, <2>2 DEF Accounts, Account
    <3>2. CASE ~SubmitLaunch(t)
      BY <2>3, <3>2 DEF SubmitStep, SubmitStore, SubmitLock, SubmitQueueFull,
        SubmitDecide, SubmitCount, SubmitEnqueue, SubmitError, SubmitRefund,
        SubmitRefundFails, SubmitDrop
    <3> QED BY <3>1, <3>2
  <2>4. ASSUME NEW t \in Tasks, ExecStep(t) PROVE exec[r] = "none"
    <3>1. \E e \in {"calling", "failing", "finishing", "done"} :
            exec' = [exec EXCEPT ![t] = e]
      BY <2>4 DEF ExecStep, ExecRead, ExecCall, ExecFinish, ExecFail
    <3> QED BY <2>2, <3>1
  <2>5. ASSUME NEW w \in Workers, DispatchStep(w) PROVE exec[r] = "none"
    <3>1. CASE \E t \in Tasks : DispatchMark(w, t)
      <4>1. PICK t \in Tasks : \/ UNCHANGED exec
                               \/ /\ status[t] = "queued"
                                  /\ exec' = [exec EXCEPT ![t] = "reading"]
        BY <3>1 DEF DispatchMark, StillQueued
      <4> QED BY <2>1, <2>2, <4>1
    <3>2. CASE ~\E t \in Tasks : DispatchMark(w, t)
      BY <2>5, <3>2 DEF DispatchStep, DispatchModel, DispatchList,
        DispatchStamp, DispatchRecalculate, DispatchEnd, DispatchError,
        DispatchStop
    <3> QED BY <3>1, <3>2
  <2>6. ASSUME NEW w \in Workers, Crash(w) PROVE exec[r] = "none"
    BY <2>2, <2>6 DEF Crash
  <2>7. ASSUME NEW w \in Workers, NEW t \in Tasks,
               \/ SubmitCharge(w, t) \/ SubmitRefused(w, t) \/ CancelBegin(w, t)
               \/ PurgeFiles(w, t) \/ PurgeFails(w, t)
        PROVE  UNCHANGED exec
    BY <2>7 DEF SubmitCharge, SubmitRefused, CancelBegin, PurgeFiles,
                PurgeFails
  <2>8. ASSUME NEW w \in Workers, NEW S \in SUBSET Tasks,
               \/ CancelStep(w) \/ DispatchBegin(w) \/ RecoverList(w, S)
               \/ RecoverStep(w) \/ PurgeStep(w) \/ Start(w)
        PROVE  UNCHANGED exec
    BY <2>8 DEF CancelStep, CancelFinish, CancelFails, CancelRecalculate,
      DispatchBegin, RecoverList, RecoverStep, RecoverTask, RecoverFails,
      Recovered, PurgeStep, PurgeRow, PurgeRowFails, PurgeEnd, Start
  <2>9. ASSUME \/ \E t \in Tasks : PayloadExpires(t)
               \/ \E u \in Users :
                     \/ SetUserStatus(u)
                     \/ \E c \in AdminCredits : AdjustCredits(u, c)
               \/ ToggleQueue \/ SecondPasses \/ MinutePasses
        PROVE  UNCHANGED exec
    BY <2>9 DEF PayloadExpires, SetUserStatus, AdjustCredits, ToggleQueue,
                SecondPasses, MinutePasses
  <2> QED
    BY <2>3, <2>4, <2>5, <2>6, <2>7, <2>8, <2>9 DEF Next
<1> QED BY Invariance, <1>1, PTL DEF Spec, ExecutesOnce

-----------------------------------------------------------------------------
(* One process at a time *)

(* Who holds queueMu: the one submission between its count and its row, or  *)
(* the scheduler from its list of models to the end of its round.          *)
Locking == {"locked", "launch", "count", "enqueue"}
Dispatching == {"models", "list", "mark", "stamped"}
Listing == {"mark", "stamped"}
Alone ==
  /\ \A v, w \in Workers : proc[v] = "up" /\ proc[w] = "up" => v = w
  /\ \A w \in Workers : proc[w] # "up" => lock[w] = "free" /\ sched[w] = "off"
  /\ \A w \in Workers : sched[w] \in Dispatching => lock[w] = "dispatch"
  /\ \A t \in Tasks : pc[t] \in InFlight => host[t] \in Workers
  /\ \A t \in Tasks : pc[t] \in Locking => lock[host[t]] = "submit"
  /\ \A t, u \in Tasks : pc[t] \in Locking /\ pc[u] \in Locking => t = u

(* A process starts when none is up. *)
LEMMA StartsAlone ==
  ASSUME Alone, Instances <= 1, NEW w \in Workers, Start(w)
  PROVE  \A v \in Workers : proc[v] # "up"
<1> DEFINE Up == {v \in Workers : proc[v] = "up"}
<1>1. Cardinality(Up) < Instances
  BY DEF Start
<1>2. ASSUME NEW v \in Up PROVE FALSE
  <2>1. Up = {v}
    BY <1>2 DEF Alone
  <2> HIDE DEF Up
  <2>2. Cardinality(Up) = 1
    BY <2>1, FS_Singleton
  <2> QED BY <1>1, <2>2, SettingAssumption
<1> QED BY <1>2

(* A lock is held by the process that is up. *)
LEMMA HolderFacts ==
  ASSUME Alone, TypeOK
  PROVE  /\ \A v, w \in Workers : lock[v] # "free" /\ lock[w] # "free" => v = w
         /\ \A t \in Tasks, w \in Workers : pc[t] \in Locking /\ lock[w] # "free" => host[t] = w
         /\ \A t \in Tasks, w \in Workers : pc[t] \in Locking => sched[w] \notin Dispatching
<1>1. \A v, w \in Workers : lock[v] # "free" /\ lock[w] # "free" => v = w
  BY DEF Alone
<1>2. \A t \in Tasks : pc[t] \in Locking => host[t] \in Workers /\ lock[host[t]] = "submit"
  BY DEF Alone, Locking, InFlight
<1>3. \A t \in Tasks, w \in Workers : pc[t] \in Locking /\ lock[w] # "free" => host[t] = w
  BY <1>1, <1>2
<1>4. \A t \in Tasks, w \in Workers : pc[t] \in Locking => sched[w] \notin Dispatching
  BY <1>2, <1>3 DEF Alone
<1> QED BY <1>1, <1>3, <1>4

LEMMA AloneStep ==
  ASSUME Instances <= 1, TypeOK, Alone, [Next]_vars
  PROVE  Alone'
<1>0. /\ pc \in [Tasks -> InFlight \cup {"idle", "refused", "accepted", "rejected",
                                         "unrefunded", "crashed"}]
      /\ host \in [Tasks -> Workers \cup {None}] /\ proc \in [Workers -> {"new", "up", "down"}]
      /\ lock \in [Workers -> {"free", "submit", "cancel", "canceled", "dispatch"}]
      /\ sched \in [Workers -> {"off", "boot", "idle", "models", "list", "mark", "stamped",
                                "recover", "purge"}]
  BY DEF TypeOK
<1> USE <1>0 DEF Alone, InFlight, Locking, Dispatching, vars, moneyVars, rowVars, fileVars,
                 submitVars, procVars, schedVars, timeVars
<1>1. ASSUME NEW t \in Tasks, SubmitLock(t) PROVE Alone'
  <2>1. /\ pc' = [pc EXCEPT ![t] = "locked"] /\ lock' = [lock EXCEPT ![host[t]] = "submit"]
        /\ proc[host[t]] = "up" /\ lock[host[t]] = "free" /\ UNCHANGED <<proc, host, sched>>
    BY <1>1 DEF SubmitLock, Serving, LockFree
  <2>2. PICK w \in Workers : w = host[t]
    BY <1>1 DEF SubmitLock
  <2>3. \A u \in Tasks : pc[u] \notin Locking
    BY <2>1, <2>2
  <2>4. \A v \in Workers : v # w => proc[v] # "up" /\ lock[v] = "free"
    BY <2>1, <2>2
  <2>5. sched[w] \notin Dispatching
    BY <2>1, <2>2
  <2> QED BY <2>1, <2>2, <2>3, <2>4, <2>5
<1>2. ASSUME NEW t \in Tasks, SubmitDecide(t) \/ SubmitCount(t) PROVE Alone'
  BY <1>2 DEF SubmitDecide, SubmitCount
<1>3. ASSUME NEW t \in Tasks, SubmitLaunch(t) \/ SubmitEnqueue(t) \/ SubmitError(t)
      PROVE  Alone'
  <2>1. PICK w \in Workers : w = host[t] /\ lock[w] = "submit"
    BY <1>3 DEF SubmitLaunch, SubmitEnqueue, SubmitError
  <2> QED BY <1>3, <2>1, HolderFacts, SMTT(30) DEF SubmitLaunch, SubmitEnqueue, SubmitError
<1>4. ASSUME NEW t \in Tasks,
             \/ SubmitStore(t) \/ SubmitQueueFull(t) \/ SubmitRefund(t)
             \/ SubmitRefundFails(t) \/ SubmitDrop(t)
      PROVE  Alone'
  BY <1>4 DEF SubmitStore, SubmitQueueFull, SubmitRefund, SubmitRefundFails, SubmitDrop
<1>5. ASSUME NEW w \in Workers, NEW t \in Tasks, SubmitCharge(w, t) \/ SubmitRefused(w, t)
      PROVE  Alone'
  BY <1>5 DEF SubmitCharge, SubmitRefused
<1>6. ASSUME UNCHANGED <<proc, lock, sched, pc, host>> PROVE Alone'
  BY <1>6
<1>7. ASSUME NEW w \in Workers, NEW t \in Tasks, CancelBegin(w, t) PROVE Alone'
  BY <1>7, SMTT(30) DEF CancelBegin, LockFree
<1>8. ASSUME NEW w \in Workers, CancelStep(w) PROVE Alone'
  BY <1>8, SMTT(30) DEF CancelStep, CancelFinish, CancelFails, CancelRecalculate
<1>9. ASSUME NEW w \in Workers, DispatchBegin(w) PROVE Alone'
  BY <1>9, SMTT(30) DEF DispatchBegin, LockFree
<1>10. ASSUME NEW w \in Workers, sched[w] \in Dispatching,
              \E s \in Dispatching : sched' = [sched EXCEPT ![w] = s],
              UNCHANGED <<proc, lock, pc, host>>
       PROVE  Alone'
  BY <1>10
<1>11. ASSUME NEW w \in Workers, sched[w] \in Dispatching, DispatchStop(w) PROVE Alone'
  BY <1>11, SMTT(30) DEF DispatchStop
<1>12. ASSUME NEW w \in Workers, sched[w] \notin Dispatching, proc[w] = "up",
              \E s : s \notin Dispatching /\ sched' = [sched EXCEPT ![w] = s],
              UNCHANGED <<proc, lock, pc, host>>
       PROVE  Alone'
  BY <1>12
<1>13. ASSUME NEW w \in Workers, Start(w) PROVE Alone'
  <2>1. \A v \in Workers : proc[v] # "up"
    BY <1>13, StartsAlone
  <2>2. /\ proc' = [proc EXCEPT ![w] = "up"] /\ sched' = [sched EXCEPT ![w] = "boot"]
        /\ UNCHANGED <<lock, pc, host>>
    BY <1>13 DEF Start
  <2> QED BY <2>1, <2>2
<1>14. ASSUME NEW w \in Workers, Crash(w) PROVE Alone'
  <2>1. /\ proc' = [proc EXCEPT ![w] = "down"] /\ lock' = [lock EXCEPT ![w] = "free"]
        /\ sched' = [sched EXCEPT ![w] = "off"] /\ UNCHANGED host
        /\ pc' = [t \in Tasks |-> IF host[t] = w /\ pc[t] \in InFlight
                                  THEN "crashed" ELSE pc[t]]
    BY <1>14 DEF Crash
  <2>2. \A t \in Tasks : pc'[t] \in Locking => pc[t] \in Locking /\ host[t] # w
    BY <2>1 DEF InFlight
  <2> QED BY <2>1, <2>2, SMTT(30)
<1>15. ASSUME NEW t \in Tasks, SubmitStep(t) PROVE Alone'
  BY <1>1, <1>2, <1>3, <1>4, <1>15 DEF SubmitStep
<1>16. ASSUME NEW t \in Tasks, ExecStep(t) \/ PayloadExpires(t) PROVE Alone'
  BY <1>6, <1>16 DEF ExecStep, ExecRead, ExecCall, ExecFinish, ExecFail, PayloadExpires
<1>17. ASSUME NEW w \in Workers, DispatchStep(w) PROVE Alone'
  <2>1. CASE DispatchEnd(w) \/ DispatchError(w)
    BY <1>11, <2>1 DEF DispatchEnd, DispatchError
  <2>2. CASE ~(DispatchEnd(w) \/ DispatchError(w))
    <3>1. /\ sched[w] \in Dispatching /\ \E s \in Dispatching : sched' = [sched EXCEPT ![w] = s]
          /\ UNCHANGED <<proc, lock, pc, host>>
      <4>1. ASSUME NEW m \in Models, DispatchModel(w, m)
            PROVE  /\ sched[w] \in Dispatching /\ sched' \in {sched, [sched EXCEPT ![w] = "list"]}
                   /\ UNCHANGED <<proc, lock, pc, host>>
        BY <4>1 DEF DispatchModel
      <4>2. sched = [sched EXCEPT ![w] = sched[w]]
        OBVIOUS
      <4>3. ASSUME NEW m \in Models, DispatchModel(w, m) PROVE <3>1!2
        BY <4>1, <4>2, <4>3
      <4> QED BY <1>17, <2>2, <4>1, <4>3
           DEF DispatchStep, DispatchList, DispatchStamp, DispatchMark, DispatchRecalculate
    <3> QED BY <1>10, <3>1
  <2> QED BY <2>1, <2>2
<1>18. ASSUME NEW w \in Workers, NEW S \in SUBSET Tasks,
              RecoverList(w, S) \/ RecoverStep(w) \/ PurgeStep(w)
       PROVE  Alone'
  <2>1. sched[w] \in {"boot", "idle", "recover", "purge"} /\ UNCHANGED <<proc, lock, pc, host>>
    BY <1>18 DEF RecoverList, RecoverStep, RecoverTask, RecoverFails, Recovered, PurgeStep,
                 PurgeRow, PurgeRowFails, PurgeEnd
  <2>2. \E s \in {"idle", "recover"} : sched' = [sched EXCEPT ![w] = s]
    BY <1>18 DEF RecoverList, RecoverStep, RecoverTask, RecoverFails, Recovered, PurgeStep,
                 PurgeRow, PurgeRowFails, PurgeEnd
  <2> QED BY <1>12, <2>1, <2>2
<1>19. ASSUME NEW w \in Workers, NEW t \in Tasks, PurgeFiles(w, t) \/ PurgeFails(w, t)
       PROVE  Alone'
  BY <1>6, <1>12, <1>19 DEF PurgeFiles, PurgeFails
<1>20. ASSUME \/ \E u \in Users : SetUserStatus(u) \/ \E c \in AdminCredits : AdjustCredits(u, c)
              \/ ToggleQueue \/ SecondPasses \/ MinutePasses \/ UNCHANGED vars
       PROVE  Alone'
  BY <1>6, <1>20 DEF SetUserStatus, AdjustCredits, ToggleQueue, SecondPasses, MinutePasses
<1> QED
  BY <1>5, <1>7, <1>8, <1>9, <1>13, <1>14, <1>15, <1>16, <1>17, <1>18, <1>19, <1>20 DEF Next

-----------------------------------------------------------------------------
(* Payloads, for any number of processes *)

(* RowsHavePayloads, made inductive: a submission has stored its payload     *)
(* before it comes to the lock, and what a cancellation takes the payload  *)
(* of has been canceled.                                                   *)
Payloads ==
  /\ RowsHavePayloads
  /\ \A t \in Tasks : pc[t] \in {"stored"} \cup Locking => req[t] = "stored"
  /\ \A w \in Workers : lock[w] = "canceled" => status[target[w]] \in {"canceled", "purged"}

LEMMA PayloadStep ==
  ASSUME TypeOK, Accounts, Payloads, [Next]_vars
  PROVE  Payloads'
<1>0. /\ status \in [Tasks -> Terminal \cup {"absent", "queued", "executing", "purged"}]
      /\ pc \in [Tasks -> InFlight \cup {"idle", "refused", "accepted", "rejected",
                                         "unrefunded", "crashed"}]
      /\ req \in [Tasks -> {"none", "stored", "deleted", "expired"}]
      /\ exec \in [Tasks -> Running \cup {"none", "done"}]
      /\ lock \in [Workers -> {"free", "submit", "cancel", "canceled", "dispatch"}]
      /\ target \in [Workers -> Tasks \cup {None}]
  BY DEF TypeOK
<1> USE <1>0 DEF Payloads, RowsHavePayloads, Locking, Terminal
<1>1. \A t \in Tasks : pc[t] # "accepted" => status[t] = "absent"
  BY DEF Accounts, Account
<1>2. \A w \in Workers : lock[w] \in {"cancel", "canceled"} => target[w] \in Tasks
  BY DEF Accounts
<1>3. ASSUME UNCHANGED <<req, exec, lock, target, status>>,
             \A t \in Tasks : pc'[t] \in {"stored"} \cup Locking =>
               pc[t] \in {"stored"} \cup Locking
      PROVE  Payloads'
  BY <1>3
<1>4. ASSUME NEW t \in Tasks, SubmitStep(t) PROVE Payloads'
  <2>1. CASE SubmitStore(t)
    BY <1>1, <2>1 DEF SubmitStore, rowVars, procVars
  <2>2. CASE SubmitLock(t)
    BY <1>1, <1>2, <2>2, SMTT(30) DEF SubmitLock, Serving, LockFree, fileVars
  <2>3. CASE SubmitLaunch(t)
    BY <1>1, <1>2, <2>3, SMTT(30) DEF SubmitLaunch, fileVars
  <2>4. CASE SubmitEnqueue(t)
    BY <1>1, <1>2, <2>4, SMTT(30) DEF SubmitEnqueue, fileVars
  <2>5. CASE SubmitError(t)
    BY <2>5, SMTT(30) DEF SubmitError, fileVars, rowVars
  <2>6. CASE SubmitDrop(t)
    BY <1>1, <2>6 DEF SubmitDrop, rowVars, procVars
  <2>7. CASE SubmitQueueFull(t) \/ SubmitDecide(t) \/ SubmitRefund(t) \/ SubmitRefundFails(t)
    BY <1>3, <2>7 DEF SubmitQueueFull, SubmitDecide, SubmitRefund, SubmitRefundFails, rowVars,
                      fileVars, procVars
  <2>8. CASE SubmitCount(t)
    BY <1>3, <2>8 DEF SubmitCount, fileVars, procVars
  <2> QED BY <1>4, <2>1, <2>2, <2>3, <2>4, <2>5, <2>6, <2>7, <2>8 DEF SubmitStep
<1>5. ASSUME NEW t \in Tasks, ExecStep(t) PROVE Payloads'
  <2>1. /\ \A u \in Tasks : status'[u] # status[u] =>
             status[u] = "executing" /\ status'[u] \in Terminal
        /\ UNCHANGED <<req, pc, lock, target>>
    BY <1>5 DEF ExecStep, ExecRead, ExecCall, ExecFinish, ExecFail, FailTask, RowIs, rowVars,
                fileVars, submitVars, procVars
  <2>2. /\ \A u \in Tasks : u # t => exec'[u] = exec[u]
        /\ exec'[t] = "calling" => req[t] = "stored"
        /\ exec'[t] # "reading"
    BY <1>5 DEF ExecStep, ExecRead, ExecCall, ExecFinish, ExecFail
  <2> QED BY <1>2, <2>1, <2>2, SMTT(30)
<1>6. ASSUME NEW t \in Tasks, PayloadExpires(t) PROVE Payloads'
  BY <1>1, <1>6 DEF PayloadExpires, rowVars, submitVars, procVars
<1>7. ASSUME NEW w \in Workers, NEW t \in Tasks, SubmitCharge(w, t) \/ SubmitRefused(w, t)
      PROVE  Payloads'
  BY <1>3, <1>7 DEF SubmitCharge, SubmitRefused, rowVars, fileVars, procVars
<1>8. ASSUME NEW w \in Workers, NEW t \in Tasks, CancelBegin(w, t)
      PROVE  Payloads'
  BY <1>8 DEF CancelBegin, rowVars, fileVars, submitVars
<1>9. ASSUME NEW w \in Workers, CancelStep(w) PROVE Payloads'
  <2>1. CASE CancelFinish(w)
    <3>1. PICK t \in Tasks : t = target[w]
      BY <1>2, <2>1 DEF CancelFinish
    <3>2. /\ status[t] = "queued" /\ status' = [status EXCEPT ![t] = "canceled"]
          /\ lock' = [lock EXCEPT ![w] = "canceled"]
          /\ UNCHANGED <<req, exec, target, pc>>
      BY <2>1, <3>1 DEF CancelFinish, RowIs, fileVars, submitVars
    <3> QED BY <1>2, <3>1, <3>2, SMTT(30)
  <2>2. CASE CancelFails(w)
    BY <2>2 DEF CancelFails, rowVars, fileVars, submitVars
  <2>3. CASE CancelRecalculate(w)
    <3>1. PICK t \in Tasks : t = target[w] /\ status[t] \in {"canceled", "purged"}
      BY <1>2, <2>3 DEF CancelRecalculate
    <3>2. /\ req' \in {req, [req EXCEPT ![t] = "deleted"]}
          /\ lock' = [lock EXCEPT ![w] = "free"] /\ target' = [target EXCEPT ![w] = None]
          /\ UNCHANGED <<status, exec, pc>>
      BY <2>3, <3>1 DEF CancelRecalculate, submitVars
    <3> QED BY <1>1, <3>1, <3>2, SMTT(30)
  <2> QED BY <1>9, <2>1, <2>2, <2>3 DEF CancelStep
<1>10. ASSUME NEW w \in Workers, DispatchBegin(w) \/ DispatchStep(w) PROVE Payloads'
  <2>1. ASSUME NEW t \in Tasks, DispatchMark(w, t) PROVE Payloads'
    <3>1. UNCHANGED <<req, lock, target, pc>>
      BY <2>1 DEF DispatchMark, fileVars, procVars
    <3>2. \/ UNCHANGED <<status, exec>>
          \/ /\ status[t] = "queued" /\ status' = [status EXCEPT ![t] = "executing"]
             /\ exec' = [exec EXCEPT ![t] = "reading"]
      BY <2>1 DEF DispatchMark, StillQueued
    <3> QED BY <1>2, <3>1, <3>2, SMTT(30)
  <2>2. ASSUME \/ DispatchBegin(w) \/ \E m \in Models : DispatchModel(w, m)
               \/ DispatchList(w) \/ DispatchStamp(w) \/ DispatchRecalculate(w)
        PROVE  /\ UNCHANGED <<req, exec, target, status, pc>>
               /\ lock' \in {lock, [lock EXCEPT ![w] = "dispatch"]}
    BY <2>2 DEF DispatchBegin, DispatchModel, DispatchList, DispatchStamp, DispatchRecalculate,
                rowVars, fileVars, submitVars, procVars
  <2>3. ASSUME DispatchEnd(w) \/ DispatchError(w)
        PROVE  UNCHANGED <<req, exec, target, status, pc>> /\ lock' = [lock EXCEPT ![w] = "free"]
    BY <2>3 DEF DispatchEnd, DispatchError, DispatchStop, fileVars
  <2>4. ASSUME UNCHANGED <<req, exec, target, status, pc>>,
               lock' \in {lock, [lock EXCEPT ![w] = "dispatch"], [lock EXCEPT ![w] = "free"]}
        PROVE  Payloads'
    BY <2>4, SMTT(30)
  <2> QED BY <1>10, <2>1, <2>2, <2>3, <2>4 DEF DispatchStep
<1>11. ASSUME NEW w \in Workers, NEW S \in SUBSET Tasks,
              RecoverList(w, S) \/ RecoverStep(w) \/ PurgeStep(w)
       PROVE  Payloads'
  <2>1. UNCHANGED <<req, exec, lock, target, pc>>
    BY <1>11 DEF RecoverList, RecoverStep, RecoverTask, RecoverFails, Recovered, PurgeStep,
                 PurgeRow, PurgeRowFails, PurgeEnd, rowVars, fileVars, submitVars, procVars
  <2>2. \A u \in Tasks : \/ status'[u] = status[u]
                         \/ status[u] = "executing" /\ status'[u] = "failed"
                         \/ status'[u] = "purged"
    BY <1>11 DEF RecoverList, RecoverStep, RecoverTask, RecoverFails, Recovered, PurgeStep,
                 PurgeRow, PurgeRowFails, PurgeEnd, FailTask, RowIs, rowVars
  <2> QED BY <1>2, <2>1, <2>2, SMTT(30)
<1>12. ASSUME NEW w \in Workers, NEW t \in Tasks, PurgeFiles(w, t) \/ PurgeFails(w, t)
       PROVE  Payloads'
  <2>1. /\ status[t] \in Terminal /\ req' = [req EXCEPT ![t] = "deleted"]
        /\ UNCHANGED <<status, exec, lock, target, pc>>
    BY <1>12 DEF PurgeFiles, PurgeFails, Purgeable, rowVars, submitVars, procVars
  <2> QED BY <1>1, <2>1, SMTT(30)
<1>13. ASSUME NEW w \in Workers, Crash(w) PROVE Payloads'
  <2>1. /\ lock' = [lock EXCEPT ![w] = "free"] /\ target' = [target EXCEPT ![w] = None]
        /\ UNCHANGED <<req, status>>
        /\ \A t \in Tasks : pc'[t] = pc[t] \/ pc'[t] = "crashed"
        /\ \A t \in Tasks : exec'[t] = exec[t] \/ exec'[t] = "done"
    BY <1>13 DEF Crash, rowVars, fileVars
  <2> QED BY <2>1, SMTT(30)
<1>14. ASSUME \/ \E w \in Workers : Start(w)
              \/ \E u \in Users : SetUserStatus(u) \/ \E c \in AdminCredits : AdjustCredits(u, c)
              \/ ToggleQueue \/ SecondPasses \/ MinutePasses \/ UNCHANGED vars
       PROVE  Payloads'
  BY <1>3, <1>14 DEF Start, SetUserStatus, AdjustCredits, ToggleQueue, SecondPasses, MinutePasses,
                     vars, rowVars, fileVars, submitVars, procVars
<1> QED
  BY <1>4, <1>5, <1>6, <1>7, <1>8, <1>9, <1>10, <1>11, <1>12, <1>13, <1>14 DEF Next

(* The cleanup, a cancellation and the error paths of SubmitAITask never     *)
(* take the payload of a row that waits or whose goroutine still needs it, *)
(* for any number of processes; only its own expiry does.                  *)
THEOREM PayloadsStay == Spec => []RowsHavePayloads
<1>1. Init => Payloads
  BY DEF Init, Payloads, RowsHavePayloads, Locking
<1>2. TypeOK /\ Accounts /\ Payloads /\ [Next]_vars => Payloads'
  BY PayloadStep
<1>3. Payloads => RowsHavePayloads
  BY DEF Payloads
<1> QED BY <1>1, <1>2, <1>3, Invariance, PTL DEF Spec

-----------------------------------------------------------------------------
(* The order of dispatch, for one process at a time *)

(* The rows listed wait, and with a row every earlier one of its model is    *)
(* listed: nobody else changes the queue while the scheduler has the lock. *)
Lines ==
  \A w \in Workers :
    /\ sched[w] \in {"list"} \cup Listing => cur[w] \in Models
    /\ sched[w] \in Listing =>
         /\ work[w] \subseteq Queued(cur[w])
         /\ \A t \in work[w], u \in Queued(cur[w]) : Before(u, t) => u \in work[w]

LEMMA LinesKept ==
  ASSUME TypeOK, Lines,
         \A w \in Workers : sched'[w] \in {"list"} \cup Listing =>
           /\ sched[w] \in {"list"} \cup Listing /\ (sched'[w] \in Listing => sched[w] \in Listing)
           /\ cur'[w] = cur[w] /\ work'[w] = work[w],
         \A w \in Workers : sched'[w] \in Listing => \A t \in Tasks :
           /\ status'[t] = "queued" <=> status[t] = "queued"
           /\ status[t] = "queued" => created'[t] = created[t]
  PROVE  Lines'
BY DEF Lines, Queued, Before, TypeOK

(* The rows of a queue are in one order. *)
LEMMA BeforeOrder ==
  ASSUME TypeOK, NEW r \in Tasks, NEW t \in Tasks
  PROVE  /\ ~Before(t, t)
         /\ r = t \/ Before(r, t) \/ Before(t, r)
         /\ \A u \in Tasks : Before(r, t) /\ Before(t, u) => Before(r, u)
<1>1. Tasks \subseteq Nat /\ created \in [Tasks -> Nat]
  BY TaskAssumption DEF TypeOK
<1> QED BY <1>1 DEF Before

LEMMA AheadGrows ==
  ASSUME TypeOK, NEW u \in Tasks, NEW t \in Queued(ModelOf[u]), Before(t, u)
  PROVE  Ahead(t) \subseteq Ahead(u) \ {t} /\ t \in Ahead(u) /\ Ahead(t) \subseteq Ahead(u)
<1>1. t \in Tasks /\ ModelOf[t] = ModelOf[u] /\ t \in Ahead(u)
  BY DEF Queued, Ahead
<1>2. ASSUME NEW r \in Ahead(t) PROVE r \in Ahead(u) /\ r # t
  <2>1. r \in Tasks /\ r \in Queued(ModelOf[u]) /\ Before(r, t)
    BY <1>1 DEF Ahead, Queued
  <2>2. Before(r, u) /\ r # t
    BY <1>1, <2>1, BeforeOrder
  <2> QED BY <2>1, <2>2 DEF Ahead
<1> QED BY <1>1, <1>2

LEMMA LineStep ==
  ASSUME TypeOK, Accounts, Alone, Lines, [Next]_vars
  PROVE  Lines'
<1> USE DEF Listing, Dispatching
<1>0. /\ status \in [Tasks -> Terminal \cup {"absent", "queued", "executing", "purged"}]
      /\ created \in [Tasks -> Nat] /\ work \in [Workers -> SUBSET Tasks]
      /\ sched \in [Workers -> {"off", "boot", "idle", "models", "list", "mark", "stamped",
                                "recover", "purge"}]
      /\ cur \in [Workers -> Models \cup {None}] /\ lock \in [Workers -> {"free", "submit",
                                "cancel", "canceled", "dispatch"}]
  BY DEF TypeOK
<1>1. \A t \in Tasks : pc[t] # "accepted" => status[t] = "absent"
  BY DEF Accounts, Account
<1>2. \A w \in Workers : sched[w] \in Dispatching =>
        lock[w] = "dispatch" /\ \A v \in Workers : lock[v] # "free" => v = w
  BY HolderFacts DEF Alone
<1>3. ASSUME UNCHANGED <<sched, cur, work>>,
             \A t \in Tasks : /\ status'[t] = "queued" <=> status[t] = "queued"
                              /\ status[t] = "queued" => created'[t] = created[t]
      PROVE  Lines'
  BY <1>3, LinesKept
<1>4. ASSUME NEW t \in Tasks, SubmitStep(t) PROVE Lines'
  <2>1. CASE SubmitEnqueue(t)
    <3>1. pc[t] \in Locking /\ UNCHANGED <<sched, cur, work>>
      BY <2>1 DEF SubmitEnqueue, Locking, schedVars
    <3>2. \A w \in Workers : sched'[w] \notin Dispatching
      BY <3>1, HolderFacts
    <3> QED BY <3>2 DEF Lines
  <2>2. CASE SubmitLock(t)
    BY <1>0, <1>1, <1>3, <2>2 DEF SubmitLock, schedVars
  <2>3. CASE SubmitLaunch(t)
    BY <1>0, <1>1, <1>3, <2>3 DEF SubmitLaunch, schedVars
  <2>4. CASE ~(SubmitEnqueue(t) \/ SubmitLock(t) \/ SubmitLaunch(t))
    <3>1. UNCHANGED <<sched, cur, work, status, created>>
      BY <1>4, <2>4 DEF SubmitStep, SubmitStore, SubmitQueueFull, SubmitDecide, SubmitCount,
         SubmitError, SubmitRefund, SubmitRefundFails, SubmitDrop, rowVars, schedVars
    <3> QED BY <1>3, <3>1
  <2> QED BY <2>1, <2>2, <2>3, <2>4
<1>5. ASSUME NEW t \in Tasks, ExecStep(t) \/ PayloadExpires(t) PROVE Lines'
  <2>1. /\ UNCHANGED <<sched, cur, work, created>>
        /\ \A u \in Tasks : status'[u] # status[u] =>
             status[u] = "executing" /\ status'[u] \in {"succeeded", "failed"}
    BY <1>0, <1>5 DEF ExecStep, ExecRead, ExecCall, ExecFinish, ExecFail, FailTask, RowIs,
       PayloadExpires, rowVars, schedVars
  <2> QED BY <1>3, <2>1
<1>6. ASSUME NEW w \in Workers, NEW t \in Tasks,
             \/ SubmitCharge(w, t) \/ SubmitRefused(w, t) \/ CancelBegin(w, t) \/ PurgeFails(w, t)
      PROVE  Lines'
  BY <1>3, <1>6 DEF SubmitCharge, SubmitRefused, CancelBegin, PurgeFails, rowVars, schedVars
<1>7. ASSUME NEW w \in Workers, CancelStep(w) PROVE Lines'
  <2>1. CASE CancelFinish(w)
    <3>1. \A v \in Workers : sched'[v] \notin Dispatching
      BY <1>2, <2>1 DEF CancelFinish, schedVars
    <3> QED BY <3>1 DEF Lines
  <2>2. CASE CancelFails(w) \/ CancelRecalculate(w)
    BY <1>3, <2>2 DEF CancelFails, CancelRecalculate, rowVars, schedVars
  <2> QED BY <1>7, <2>1, <2>2 DEF CancelStep
<1>8. ASSUME NEW w \in Workers, sched'[w] \notin {"list"} \cup Listing,
             \A v \in Workers : v # w => /\ sched'[v] = sched[v] /\ cur'[v] = cur[v]
                                         /\ work'[v] = work[v],
             UNCHANGED created,
             \A t \in Tasks : status'[t] = "queued" <=> status[t] = "queued"
      PROVE  Lines'
  BY <1>8, LinesKept
<1>9. ASSUME NEW w \in Workers, DispatchBegin(w) PROVE Lines'
  BY <1>0, <1>8, <1>9 DEF DispatchBegin, rowVars
<1>10. ASSUME NEW w \in Workers, DispatchStep(w) PROVE Lines'
  <2>1. ASSUME NEW m \in Models, DispatchModel(w, m) PROVE Lines'
    BY <1>0, <2>1, SMTT(30) DEF DispatchModel, Lines, Queued, Before, rowVars
  <2>2. CASE DispatchList(w)
    <3>1. /\ cur[w] \in Models /\ UNCHANGED <<cur, status, created>>
          /\ sched' = [sched EXCEPT ![w] = "mark"]
          /\ work' = [work EXCEPT ![w] = FirstQueued(cur[w], room[w])]
      BY <2>2 DEF DispatchList, Lines, rowVars
    <3> DEFINE S == FirstQueued(cur[w], room[w])
    <3>2. S \subseteq Queued(cur[w])
      BY DEF FirstQueued
    <3>3. ASSUME NEW t \in S, NEW u \in Queued(cur[w]), Before(u, t) PROVE u \in S
      <4>1. /\ t \in Tasks /\ u \in Tasks /\ ModelOf[t] = cur[w] /\ ModelOf[u] = cur[w]
            /\ Cardinality(Ahead(t)) < room[w]
        BY DEF FirstQueued, Queued
      <4>2. Ahead(u) \subseteq Ahead(t)
        BY <3>3, <4>1, AheadGrows
      <4>3. IsFiniteSet(Ahead(t))
        <5>1. Ahead(t) \subseteq Tasks
          BY DEF Ahead, Queued
        <5> QED BY <5>1, TaskAssumption, FS_Subset
      <4>4. Cardinality(Ahead(u)) <= Cardinality(Ahead(t))
        BY <4>2, <4>3, FS_Subset
      <4>5. Cardinality(Ahead(u)) \in Nat /\ Cardinality(Ahead(t)) \in Nat /\ room[w] \in Int
        <5>1. Ahead(u) \subseteq Tasks /\ Ahead(t) \subseteq Tasks
          BY DEF Ahead, Queued
        <5> QED BY <5>1, Counting DEF TypeOK
      <4> HIDE DEF Ahead
      <4> QED BY <4>1, <4>4, <4>5 DEF FirstQueued
    <3> HIDE DEF S
    <3>4. PICK m \in Models : m = cur[w]
      BY <3>1
    <3>5. Queued(m)' = Queued(m) /\ \A t, u \in Tasks : Before(u, t)' <=> Before(u, t)
      BY <3>1 DEF Queued, Before
    <3>6. ASSUME NEW v \in Workers, v # w, sched'[v] \in {"list"} \cup Listing
          PROVE  FALSE
      BY <1>0, <1>2, <2>2, <3>1, <3>6 DEF DispatchList
    <3>7. work'[w] = S /\ cur'[w] = m /\ sched'[w] = "mark"
      BY <1>0, <3>1, <3>4 DEF S
    <3>8. \A t \in S, u \in Queued(m) : Before(u, t) => u \in S
      BY <3>3, <3>4
    <3>9. S \subseteq Queued(m) /\ Queued(m) \subseteq Tasks
      BY <3>2, <3>4 DEF Queued
    <3>10. \A t \in work'[w], u \in Queued(m)' : Before(u, t)' => u \in work'[w]
      BY <3>5, <3>7, <3>8, <3>9
    <3>11. work'[w] \subseteq Queued(m)'
      BY <3>5, <3>7, <3>9
    <3> QED BY <3>6, <3>7, <3>10, <3>11 DEF Lines, Queued
  <2>3. CASE DispatchStamp(w)
    BY <1>0, <2>3, LinesKept DEF DispatchStamp, rowVars
  <2>4. ASSUME NEW t \in Tasks, DispatchMark(w, t) PROVE Lines'
    <3>1. /\ sched[w] = "stamped" /\ t \in work[w] /\ sched' = [sched EXCEPT ![w] = "mark"]
          /\ work' = [work EXCEPT ![w] = @ \ {t}] /\ UNCHANGED <<cur, created>>
          /\ \A u \in Tasks : status'[u] = IF u = t THEN "executing" ELSE status[u]
      BY <1>0, <2>4 DEF DispatchMark, StillQueued, Lines, Queued
    <3>2. PICK m \in Models : m = cur[w]
      BY <3>1 DEF Lines
    <3>3. Queued(m)' = Queued(m) \ {t} /\ \A r, u \in Tasks : Before(u, r)' <=> Before(u, r)
      BY <3>1 DEF Queued, Before
    <3>4. /\ work[w] \subseteq Queued(m) /\ Queued(m) \subseteq Tasks
          /\ \A r \in work[w], u \in Queued(m) : Before(u, r) => u \in work[w]
      BY <3>1, <3>2 DEF Lines, Queued
    <3>5. ASSUME NEW v \in Workers, v # w, sched'[v] \in {"list"} \cup Listing
          PROVE  FALSE
      BY <1>0, <1>2, <3>1, <3>5
    <3>6. work'[w] = work[w] \ {t} /\ cur'[w] = m /\ sched'[w] = "mark"
      BY <1>0, <3>1, <3>2
    <3>7. \A r \in work'[w], u \in Queued(m)' : Before(u, r)' => u \in work'[w]
      BY <3>3, <3>4, <3>6
    <3>8. work'[w] \subseteq Queued(m)'
      BY <3>3, <3>4, <3>6
    <3> QED BY <3>5, <3>6, <3>7, <3>8 DEF Lines, Queued
  <2>5. CASE DispatchRecalculate(w)
    BY <1>0, <1>8, <2>5 DEF DispatchRecalculate
  <2>6. CASE DispatchEnd(w) \/ DispatchError(w)
    BY <1>0, <1>8, <2>6 DEF DispatchEnd, DispatchError, DispatchStop
  <2> QED BY <1>10, <2>1, <2>2, <2>3, <2>4, <2>5, <2>6 DEF DispatchStep
<1>11. ASSUME NEW w \in Workers, NEW S \in SUBSET Tasks,
              RecoverList(w, S) \/ RecoverStep(w) \/ PurgeStep(w)
       PROVE  Lines'
  <2>1. /\ sched' \in {[sched EXCEPT ![w] = "idle"], [sched EXCEPT ![w] = "recover"]}
        /\ \E x : work' = [work EXCEPT ![w] = x]
        /\ UNCHANGED <<cur, created>>
    BY <1>0, <1>11 DEF RecoverList, RecoverStep, RecoverTask, RecoverFails, Recovered, PurgeStep,
                 PurgeRow, PurgeRowFails, PurgeEnd, rowVars
  <2>2. \A t \in Tasks : status'[t] = "queued" <=> status[t] = "queued"
    <3>1. sched[w] = "purge" => \A t \in work[w] : status[t] \in Terminal \cup {"purged"}
      BY DEF Accounts
    <3> QED BY <1>0, <1>11, <3>1 DEF RecoverList, RecoverStep, RecoverTask, RecoverFails, Recovered,
                 PurgeStep, PurgeRow, PurgeRowFails, PurgeEnd, FailTask, RowIs, rowVars, Terminal
  <2> QED BY <1>0, <1>8, <2>1, <2>2
<1>12. ASSUME NEW w \in Workers, NEW t \in Tasks, PurgeFiles(w, t) PROVE Lines'
  BY <1>0, <1>8, <1>12 DEF PurgeFiles, rowVars
<1>13. ASSUME NEW w \in Workers, Start(w) \/ Crash(w) PROVE Lines'
  <2>1. /\ sched' \in {[sched EXCEPT ![w] = "boot"], [sched EXCEPT ![w] = "off"]}
        /\ cur' \in {cur, [cur EXCEPT ![w] = None]} /\ work' \in {work, [work EXCEPT ![w] = {}]}
        /\ UNCHANGED <<status, created>>
    BY <1>13 DEF Start, Crash, rowVars
  <2> QED BY <1>0, <1>8, <2>1
<1>14. ASSUME \/ \E u \in Users : SetUserStatus(u) \/ \E c \in AdminCredits : AdjustCredits(u, c)
              \/ ToggleQueue \/ SecondPasses \/ MinutePasses \/ UNCHANGED vars
       PROVE  Lines'
  BY <1>3, <1>14 DEF SetUserStatus, AdjustCredits, ToggleQueue, SecondPasses, MinutePasses, vars,
                     rowVars, schedVars
<1> QED
  BY <1>4, <1>5, <1>6, <1>7, <1>9, <1>10, <1>11, <1>12, <1>13, <1>14 DEF Next

LEMMA InitLines ==
  ASSUME Init
  PROVE  Alone /\ Lines
BY DEF Init, Alone, Lines, InFlight, Locking, Dispatching, Listing

(* With one process at a time queueMu does what it is for: between a count   *)
(* and the row that is saved by it, or between a listing and its marks,    *)
(* nobody else touches the queue (SubmitAITask, dispatchQueuedTasks).      *)
THEOREM AloneInvariance ==
  ASSUME Instances <= 1
  PROVE  Spec => [](TypeOK /\ Accounts /\ Alone /\ Lines)
<1>1. Init => Alone /\ Lines
  BY InitLines
<1>2. TypeOK /\ Accounts /\ Alone /\ Lines /\ [Next]_vars => (Alone /\ Lines)'
  BY AloneStep, LineStep
<1> QED BY <1>1, <1>2, Invariance, PTL DEF Spec

(* A row leaves the queue for execution by the scheduler's mark only. *)
LEMMA OnlyMarks ==
  ASSUME TypeOK, Accounts, [Next]_vars, NEW t \in Tasks,
         status[t] = "queued", status'[t] = "executing"
  PROVE  \E w \in Workers : DispatchMark(w, t)
<1>0. /\ status \in [Tasks -> Terminal \cup {"absent", "queued", "executing", "purged"}]
      /\ \A r \in Tasks : pc[r] # "accepted" => status[r] = "absent"
  BY DEF TypeOK, Accounts, Account
<1>1. ASSUME NEW r \in Tasks, SubmitStep(r) \/ ExecStep(r) \/ PayloadExpires(r) PROVE FALSE
  <2>1. CASE SubmitLaunch(r) \/ SubmitEnqueue(r)
    <3>1. r # t
      BY <1>0, <2>1 DEF SubmitLaunch, SubmitEnqueue
    <3> QED BY <1>0, <2>1, <3>1 DEF SubmitLaunch, SubmitEnqueue
  <2>2. CASE ~(SubmitLaunch(r) \/ SubmitEnqueue(r))
    BY <1>0, <1>1, <2>2 DEF SubmitStep, SubmitStore, SubmitLock, SubmitQueueFull, SubmitDecide,
       SubmitCount, SubmitError, SubmitRefund, SubmitRefundFails, SubmitDrop, ExecStep, ExecRead,
       ExecCall, ExecFinish, ExecFail, FailTask, RowIs, PayloadExpires, rowVars
  <2> QED BY <2>1, <2>2
<1>2. ASSUME NEW w \in Workers, NEW r \in Tasks,
             \/ SubmitCharge(w, r) \/ SubmitRefused(w, r) \/ CancelBegin(w, r)
             \/ PurgeFiles(w, r) \/ PurgeFails(w, r)
      PROVE  FALSE
  BY <1>2 DEF SubmitCharge, SubmitRefused, CancelBegin, PurgeFiles, PurgeFails, rowVars
<1>3. ASSUME NEW w \in Workers, CancelStep(w) \/ DispatchBegin(w) PROVE FALSE
  BY <1>0, <1>3 DEF CancelStep, CancelFinish, CancelFails, CancelRecalculate, DispatchBegin, rowVars
<1>4. ASSUME NEW w \in Workers, DispatchStep(w) PROVE DispatchMark(w, t)
  <2>1. ASSUME NEW r \in Tasks, DispatchMark(w, r) PROVE r = t
    BY <1>0, <2>1 DEF DispatchMark
  <2>2. CASE ~\E r \in Tasks : DispatchMark(w, r)
    BY <1>4, <2>2 DEF DispatchStep, DispatchModel, DispatchList, DispatchStamp,
       DispatchRecalculate, DispatchEnd, DispatchError, DispatchStop, rowVars
  <2> QED BY <2>1, <2>2
<1>5. ASSUME NEW w \in Workers, NEW S \in SUBSET Tasks,
             RecoverList(w, S) \/ RecoverStep(w) \/ PurgeStep(w) \/ Start(w) \/ Crash(w)
      PROVE  FALSE
  BY <1>0, <1>5 DEF RecoverList, RecoverStep, RecoverTask, RecoverFails, Recovered, PurgeStep,
     PurgeRow, PurgeRowFails, PurgeEnd, FailTask, RowIs, Start, Crash, rowVars
<1>6. ASSUME \/ \E u \in Users : SetUserStatus(u) \/ \E c \in AdminCredits : AdjustCredits(u, c)
             \/ ToggleQueue \/ SecondPasses \/ MinutePasses \/ UNCHANGED vars
      PROVE  FALSE
  BY <1>6 DEF SetUserStatus, AdjustCredits, ToggleQueue, SecondPasses, MinutePasses, vars, rowVars
<1> QED BY <1>1, <1>2, <1>3, <1>4, <1>5, <1>6 DEF Next

(* With one process at a time a row is started only when nothing of its      *)
(* model that was created before it waits: dispatchQueuedTasks lists the   *)
(* rows once and marks them one by one, and all the while it has queueMu.  *)
THEOREM DispatchedInOrder ==
  ASSUME Instances <= 1
  PROVE  Spec => DispatchInOrder
<1>1. TypeOK /\ Accounts /\ Lines /\ [Next]_vars
        => [\A t, u \in Tasks :
              /\ status[t] = "queued" /\ status'[t] = "executing"
              /\ status'[u] = "queued" /\ ModelOf[u] = ModelOf[t]
              => ~Before(u, t)]_vars
  <2> SUFFICES ASSUME TypeOK, Accounts, Lines, [Next]_vars, NEW t \in Tasks, NEW u \in Tasks,
                      status[t] = "queued", status'[t] = "executing",
                      status'[u] = "queued", ModelOf[u] = ModelOf[t], Before(u, t)
               PROVE  FALSE
    OBVIOUS
  <2>1. PICK w \in Workers : DispatchMark(w, t)
    BY OnlyMarks
  <2>2. sched[w] \in Listing /\ t \in work[w] /\ \A r \in work[w] : r = t \/ Before(t, r)
    BY <2>1 DEF DispatchMark, Listing
  <2>3. status[u] = "queued" /\ u # t
    BY <2>1 DEF DispatchMark, TypeOK
  <2>4. t \in Queued(cur[w]) /\ u \in Queued(cur[w])
    BY <2>2, <2>3 DEF Lines, Queued
  <2>5. u \in work[w]
    BY <2>2, <2>4 DEF Lines
  <2>6. Before(t, u)
    BY <2>2, <2>3, <2>5
  <2> QED BY <2>6, TaskAssumption DEF Before, TypeOK
<1> QED BY <1>1, AloneInvariance, PTL DEF Spec, DispatchInOrder

-----------------------------------------------------------------------------
(* Positions, for one process at a time *)

Older(t) == {u \in Queued(ModelOf[t]) : created[u] < created[t]}

(* PositionsNotUnderstated, made inductive: time stamps grow in the order of *)
(* the lock, and a row about to be saved has counted the queue as it is.   *)
Placed ==
  /\ \A t \in Tasks : created[t] <= second
  /\ \A t, u \in Tasks : pc[t] \in Locking /\ status[u] = "queued" => created[u] <= created[t]
  /\ \A t \in Tasks : pc[t] = "enqueue" => position[t] = NextPosition(ModelOf[t])
  /\ \A t \in Tasks : status[t] = "queued" => position[t] > Cardinality(Older(t))

LEMMA OlderFacts ==
  /\ \A t : IsFiniteSet(Older(t)) /\ Cardinality(Older(t)) \in Nat
  /\ \A m : IsFiniteSet(Queued(m)) /\ Cardinality(Queued(m)) \in Nat
  /\ \A t : IsFiniteSet(Ahead(t)) /\ Cardinality(Ahead(t)) \in Nat
<1>1. \A S : S \subseteq Tasks => IsFiniteSet(S) /\ Cardinality(S) \in Nat
  BY TaskAssumption, FS_Subset, Counting
<1>2. /\ \A t : Older(t) \subseteq Tasks
      /\ \A m : Queued(m) \subseteq Tasks
      /\ \A t : Ahead(t) \subseteq Tasks
  BY DEF Older, Queued, Ahead
<1> QED BY <1>1, <1>2

(* The queue stays as it is. *)
LEMMA PlacedKept ==
  ASSUME TypeOK, TypeOK', Placed, second <= second',
         \A t \in Tasks : /\ created'[t] = created[t]
                          /\ status'[t] = "queued" <=> status[t] = "queued"
                          /\ pc'[t] \in Locking => pc[t] \in Locking
                          /\ pc'[t] = "enqueue" => pc[t] = "enqueue"
                          /\ status[t] = "queued" \/ pc'[t] = "enqueue" =>
                               position'[t] = position[t]
  PROVE  Placed'
<1>1. \A m : Queued(m)' = Queued(m)
  BY DEF Queued
<1>2. \A t \in Tasks : Older(t)' = Older(t)
  BY <1>1 DEF Older, Queued
<1>3. \A m : NextPosition(m)' = NextPosition(m)
  BY <1>1 DEF NextPosition
<1>4. \A t \in Tasks : created'[t] <= second'
  BY DEF Placed, TypeOK
<1> QED BY <1>2, <1>3, <1>4 DEF Placed

(* Rows leave the queue, and positions are counted anew. *)
LEMMA PlacedShrinks ==
  ASSUME TypeOK, Placed, UNCHANGED <<created, second>>,
         \A t \in Tasks : pc'[t] # "enqueue",
         \A t \in Tasks : pc'[t] \in Locking => pc[t] \in Locking,
         \A t \in Tasks : status'[t] = "queued" =>
           /\ status[t] = "queued"
           /\ position'[t] = position[t] \/ position'[t] = Cardinality(Ahead(t)) + 1
  PROVE  Placed'
<1>1. ASSUME NEW t \in Tasks, status'[t] = "queued" PROVE position'[t] > Cardinality(Older(t))'
  <2>1. Older(t)' \subseteq Older(t) /\ Older(t) \subseteq Ahead(t)
    BY DEF Older, Ahead, Queued, Before
  <2>2. Cardinality(Older(t)') <= Cardinality(Older(t))
    BY <2>1, OlderFacts, FS_Subset
  <2>3. Cardinality(Older(t)) <= Cardinality(Ahead(t))
    BY <2>1, OlderFacts, FS_Subset
  <2>4. Cardinality(Older(t)') \in Nat
    BY <2>1, OlderFacts, FS_Subset, FS_CardinalityType
  <2>5. position[t] > Cardinality(Older(t)) /\ position[t] \in Nat
    BY <1>1 DEF Placed, TypeOK
  <2> QED BY <1>1, <2>2, <2>3, <2>4, <2>5, OlderFacts
<1> QED BY <1>1 DEF Placed

(* A recalculation, whole or cut short, leaves a row its position or counts *)
(* what is ahead of it.                                                    *)
LEMMA RecalculationFacts ==
  ASSUME TypeOK, NEW m, position' \in Recalculations(m) \cup {Recalculated(m), position},
         NEW t \in Tasks
  PROVE  position'[t] = position[t] \/ position'[t] = Cardinality(Ahead(t)) + 1
<1>1. \A r \in Tasks : \/ Recalculated(m)[r] = position[r]
                       \/ Recalculated(m)[r] = Cardinality(Ahead(r)) + 1
  BY DEF Recalculated
<1>2. CASE position' \in Recalculations(m)
  BY <1>1, <1>2 DEF Recalculations
<1> QED BY <1>1, <1>2

LEMMA PlacedStep ==
  ASSUME TypeOK, TypeOK', Accounts, Alone, Placed, [Next]_vars
  PROVE  Placed'
<1>0. /\ status \in [Tasks -> Terminal \cup {"absent", "queued", "executing", "purged"}]
      /\ created \in [Tasks -> Nat] /\ position \in [Tasks -> Nat] /\ second \in Nat
      /\ pc \in [Tasks -> InFlight \cup {"idle", "refused", "accepted", "rejected",
                                         "unrefunded", "crashed"}]
  BY DEF TypeOK
<1>1. \A t \in Tasks : pc[t] # "accepted" => status[t] = "absent"
  BY DEF Accounts, Account
<1>2. ASSUME NEW t \in Tasks, SubmitStep(t) PROVE Placed'
  <2>1. CASE SubmitLock(t)
    <3>1. /\ status[t] = "absent" /\ pc' = [pc EXCEPT ![t] = "locked"]
          /\ created' = [created EXCEPT ![t] = second]
          /\ UNCHANGED <<status, position, second>>
      BY <1>1, <2>1 DEF SubmitLock, timeVars
    <3>2. \A m : Queued(m)' = Queued(m)
      BY <3>1 DEF Queued
    <3>3. \A u \in Tasks : u # t => created'[u] = created[u]
      BY <1>0, <3>1
    <3>4. \A u \in Tasks : status[u] = "queued" => Older(u)' = Older(u)
      BY <3>1, <3>2, <3>3 DEF Older, Queued
    <3>5. \A m : NextPosition(m)' = NextPosition(m)
      BY <3>2 DEF NextPosition
    <3>6. \A u \in Tasks : created'[u] <= second' /\ (pc'[u] = "enqueue" => pc[u] = "enqueue")
      BY <1>0, <3>1 DEF Placed
    <3>7. ASSUME NEW r \in Tasks, NEW u \in Tasks, pc'[r] \in Locking, status'[u] = "queued"
          PROVE  created'[u] <= created'[r]
      <4>1. created'[u] = created[u] /\ created[u] <= second
        BY <3>1, <3>3, <3>7 DEF Placed
      <4>2. CASE r = t
        BY <1>0, <3>1, <4>1, <4>2
      <4>3. CASE r # t
        BY <1>0, <3>1, <3>3, <3>7, <4>1, <4>3 DEF Placed
      <4> QED BY <4>2, <4>3
    <3> QED BY <3>1, <3>4, <3>5, <3>6, <3>7 DEF Placed
  <2>2. CASE SubmitCount(t)
    <3>1. /\ pc[t] \in Locking /\ status[t] = "absent" /\ pc' = [pc EXCEPT ![t] = "enqueue"]
          /\ position' = [position EXCEPT ![t] = NextPosition(ModelOf[t])]
          /\ UNCHANGED <<status, created, second>>
      BY <1>1, <2>2 DEF SubmitCount, timeVars, Locking
    <3>2. \A m : Queued(m)' = Queued(m) /\ NextPosition(m)' = NextPosition(m)
      BY <3>1 DEF Queued, NextPosition
    <3>3. \A u \in Tasks : Older(u)' = Older(u)
      BY <3>1, <3>2 DEF Older
    <3>4. \A u \in Tasks : pc'[u] \in Locking => pc[u] \in Locking
      BY <1>0, <3>1
    <3>5. \A u \in Tasks : pc'[u] = "enqueue" => position'[u] = NextPosition(ModelOf[u])'
      BY <1>0, <3>1, <3>2 DEF Placed
    <3>6. \A u \in Tasks : status'[u] = "queued" => position'[u] > Cardinality(Older(u))'
      BY <1>0, <3>1, <3>3 DEF Placed
    <3> QED BY <3>1, <3>4, <3>5, <3>6 DEF Placed
  <2>3. CASE SubmitEnqueue(t)
    <3>1. /\ pc[t] = "enqueue" /\ status[t] = "absent" /\ pc' = [pc EXCEPT ![t] = "accepted"]
          /\ status' = [status EXCEPT ![t] = "queued"]
          /\ UNCHANGED <<position, created, second>>
      BY <1>1, <2>3 DEF SubmitEnqueue, timeVars
    <3>2. \A u \in Tasks : pc'[u] \notin Locking
      BY <1>0, <3>1 DEF Alone, Locking
    <3>3. ASSUME NEW u \in Tasks, status'[u] = "queued", u # t
          PROVE  position'[u] > Cardinality(Older(u))'
      <4>1. status[u] = "queued" /\ created[u] <= created[t]
        BY <1>0, <3>1, <3>3 DEF Placed, Locking
      <4>2. Older(u)' = Older(u)
        <5>1. \A r \in Tasks : created[r] < created[u] => r # t
          BY <1>0, <4>1
        <5> QED BY <1>0, <3>1, <5>1 DEF Older, Queued
      <4> QED BY <3>1, <4>1, <4>2 DEF Placed
    <3>4. position'[t] > Cardinality(Older(t))'
      <4>1. Older(t)' \subseteq Queued(ModelOf[t])
        BY <1>0, <3>1 DEF Older, Queued
      <4>2. Cardinality(Older(t)') <= Cardinality(Queued(ModelOf[t]))
        BY <4>1, OlderFacts, FS_Subset
      <4>3. Cardinality(Older(t)') \in Nat
        BY <4>1, OlderFacts, FS_Subset, FS_CardinalityType
      <4>4. position'[t] = Cardinality(Queued(ModelOf[t])) + 1
        BY <3>1 DEF Placed, NextPosition
      <4> QED BY <4>2, <4>3, <4>4, OlderFacts
    <3> QED BY <3>1, <3>2, <3>3, <3>4, <1>0 DEF Placed, Locking
  <2>4. CASE SubmitLaunch(t)
    <3>1. /\ pc' = [pc EXCEPT ![t] = "accepted"] /\ status[t] = "absent"
          /\ status' = [status EXCEPT ![t] = "executing"]
          /\ UNCHANGED <<position, created, second>>
      BY <1>1, <2>4 DEF SubmitLaunch
    <3> QED BY <1>0, <3>1, PlacedKept DEF Locking
  <2>5. CASE ~(SubmitLock(t) \/ SubmitCount(t) \/ SubmitEnqueue(t) \/ SubmitLaunch(t))
    <3>1. /\ UNCHANGED <<status, position, created, second>>
          /\ \E s \in {"stored", "refund", "launch", "count", "drop", "rejected",
                       "dropUnrefunded", "unrefunded"} : pc' = [pc EXCEPT ![t] = s]
          /\ pc'[t] \in Locking => pc[t] \in Locking
      BY <1>0, <1>2, <2>5 DEF SubmitStep, SubmitStore, SubmitQueueFull, SubmitDecide, SubmitError,
         SubmitRefund, SubmitRefundFails, SubmitDrop, rowVars, timeVars, Locking
    <3>2. \A u \in Tasks : /\ pc'[u] \in Locking => pc[u] \in Locking
                           /\ pc'[u] = "enqueue" => pc[u] = "enqueue"
      BY <1>0, <3>1
    <3> QED BY <1>0, <3>1, <3>2, PlacedKept
  <2> QED BY <2>1, <2>2, <2>3, <2>4, <2>5
<1>3. ASSUME UNCHANGED <<created, position, pc>>, second <= second',
             \A t \in Tasks : status'[t] = "queued" <=> status[t] = "queued"
      PROVE  Placed'
  BY <1>3, PlacedKept
<1>4. ASSUME NEW t \in Tasks, ExecStep(t) \/ PayloadExpires(t) PROVE Placed'
  <2>1. /\ UNCHANGED <<created, position, pc, second>>
        /\ \A u \in Tasks : status'[u] = "queued" <=> status[u] = "queued"
    BY <1>0, <1>4 DEF ExecStep, ExecRead, ExecCall, ExecFinish, ExecFail, FailTask, RowIs,
       PayloadExpires, rowVars, submitVars, timeVars
  <2> QED BY <1>0, <1>3, <2>1
<1>5. ASSUME NEW w \in Workers, NEW t \in Tasks,
             \/ SubmitCharge(w, t) \/ SubmitRefused(w, t)
      PROVE  Placed'
  <2>1. /\ UNCHANGED <<status, position, created, second>>
        /\ \E s \in {"charged", "refused"} : pc' = [pc EXCEPT ![t] = s]
    BY <1>5 DEF SubmitCharge, SubmitRefused, rowVars, timeVars
  <2>2. \A u \in Tasks : /\ pc'[u] \in Locking => pc[u] \in Locking
                         /\ pc'[u] = "enqueue" => pc[u] = "enqueue"
    BY <1>0, <2>1 DEF Locking
  <2> QED BY <1>0, <2>1, <2>2, PlacedKept
<1>6. ASSUME NEW w \in Workers, NEW t \in Tasks,
             CancelBegin(w, t) \/ PurgeFiles(w, t) \/ PurgeFails(w, t)
      PROVE  Placed'
  <2>1. UNCHANGED <<status, position, created, second, pc>>
    BY <1>6 DEF CancelBegin, PurgeFiles, PurgeFails, rowVars, submitVars, timeVars
  <2> QED BY <1>0, <1>3, <2>1
<1>7. ASSUME NEW w \in Workers, lock[w] \in {"cancel", "canceled", "dispatch"}
      PROVE  \A t \in Tasks : pc[t] \notin Locking
  BY <1>7, HolderFacts DEF Alone
<1>8. ASSUME NEW w \in Workers, CancelStep(w) PROVE Placed'
  <2>0. \A t \in Tasks : pc[t] \notin Locking
    BY <1>7, <1>8 DEF CancelStep, CancelFinish, CancelFails, CancelRecalculate
  <2>1. CASE CancelFinish(w)
    <3>1. PICK t \in Tasks : t = target[w]
      BY <2>1 DEF CancelFinish, Accounts
    <3>2. /\ status' = [status EXCEPT ![t] = "canceled"]
          /\ position' = [position EXCEPT ![t] = 0] /\ UNCHANGED <<created, second, pc>>
      BY <2>1, <3>1 DEF CancelFinish, submitVars, timeVars
    <3>3. \A u \in Tasks : status'[u] = "queued" => u # t /\ status[u] = "queued"
      BY <1>0, <3>2
    <3> QED BY <1>0, <2>0, <3>2, <3>3, PlacedShrinks DEF Locking
  <2>2. CASE CancelFails(w)
    BY <1>0, <1>3, <2>2 DEF CancelFails, rowVars, submitVars, timeVars
  <2>3. CASE CancelRecalculate(w)
    <3>1. /\ UNCHANGED <<status, created, second, pc>>
          /\ position' \in Recalculations(ModelOf[target[w]])
      BY <2>3 DEF CancelRecalculate, submitVars, timeVars
    <3> QED BY <2>0, <3>1, RecalculationFacts, PlacedShrinks DEF Locking
  <2> QED BY <1>8, <2>1, <2>2, <2>3 DEF CancelStep
<1>9. ASSUME NEW w \in Workers, DispatchBegin(w) PROVE Placed'
  BY <1>0, <1>3, <1>9 DEF DispatchBegin, rowVars, submitVars, timeVars
<1>10. ASSUME NEW w \in Workers, DispatchStep(w) PROVE Placed'
  <2>0. \A t \in Tasks : pc[t] \notin Locking
    <3>1. sched[w] \in Dispatching
      BY <1>10 DEF DispatchStep, DispatchModel, DispatchList, DispatchStamp, DispatchMark,
         DispatchRecalculate, DispatchEnd, DispatchError, Dispatching
    <3> QED BY <1>7, <3>1 DEF Alone
  <2>1. ASSUME NEW t \in Tasks, DispatchMark(w, t) PROVE Placed'
    <3>1. /\ UNCHANGED <<created, second, pc>>
          /\ \/ UNCHANGED <<status, position>>
             \/ /\ status' = [status EXCEPT ![t] = "executing"]
                /\ position' = [position EXCEPT ![t] = 0]
      BY <2>1 DEF DispatchMark
    <3>2. \A u \in Tasks : status'[u] = "queued" =>
            status[u] = "queued" /\ position'[u] = position[u]
      BY <1>0, <3>1
    <3> QED BY <2>0, <3>1, <3>2, PlacedShrinks DEF Locking
  <2>2. CASE DispatchRecalculate(w) \/ DispatchEnd(w) \/ DispatchError(w)
    <3>1. /\ UNCHANGED <<status, created, second, pc>>
          /\ position' \in Recalculations(cur[w]) \cup {Recalculated(cur[w]), position}
      BY <2>2 DEF DispatchRecalculate, DispatchEnd, DispatchError, DispatchStop, submitVars, timeVars
    <3> QED BY <2>0, <3>1, RecalculationFacts, PlacedShrinks DEF Locking
  <2>3. CASE (\E m \in Models : DispatchModel(w, m)) \/ DispatchList(w) \/ DispatchStamp(w)
    <3>1. UNCHANGED <<status, position, created, second, pc>>
      BY <2>3 DEF DispatchModel, DispatchList, DispatchStamp, rowVars, submitVars, timeVars
    <3> QED BY <1>0, <1>3, <3>1
  <2> QED BY <1>10, <2>1, <2>2, <2>3 DEF DispatchStep
<1>11. ASSUME NEW w \in Workers, NEW S \in SUBSET Tasks,
              RecoverList(w, S) \/ RecoverStep(w) \/ PurgeStep(w)
       PROVE  Placed'
  <2>1. UNCHANGED <<created, position, second, pc>>
    BY <1>11 DEF RecoverList, RecoverStep, RecoverTask, RecoverFails, Recovered, PurgeStep,
                 PurgeRow, PurgeRowFails, PurgeEnd, rowVars, submitVars, timeVars
  <2>2. \A t \in Tasks : status'[t] = "queued" <=> status[t] = "queued"
    <3>1. sched[w] = "purge" => \A t \in work[w] : status[t] \in Terminal \cup {"purged"}
      BY DEF Accounts
    <3> QED BY <1>0, <1>11, <3>1 DEF RecoverList, RecoverStep, RecoverTask, RecoverFails, Recovered,
                 PurgeStep, PurgeRow, PurgeRowFails, PurgeEnd, FailTask, RowIs, rowVars, Terminal
  <2> QED BY <1>0, <1>3, <2>1, <2>2
<1>12. ASSUME NEW w \in Workers, Start(w) \/ Crash(w) PROVE Placed'
  <2>1. UNCHANGED <<created, position, second, status>>
    BY <1>12 DEF Start, Crash, rowVars, timeVars
  <2>2. \A t \in Tasks : pc'[t] = pc[t] \/ pc'[t] = "crashed"
    BY <1>12 DEF Start, Crash, submitVars
  <2>3. \A t \in Tasks : /\ pc'[t] \in Locking => pc[t] \in Locking
                         /\ pc'[t] = "enqueue" => pc[t] = "enqueue"
    BY <2>2 DEF Locking
  <2> QED BY <1>0, <2>1, <2>3, PlacedKept
<1>13. ASSUME \/ \E u \in Users : SetUserStatus(u) \/ \E c \in AdminCredits : AdjustCredits(u, c)
              \/ ToggleQueue \/ SecondPasses \/ MinutePasses \/ UNCHANGED vars
       PROVE  Placed'
  <2>1. UNCHANGED <<status, position, created, pc>>
    BY <1>13 DEF SetUserStatus, AdjustCredits, ToggleQueue, SecondPasses, MinutePasses, vars,
       rowVars, submitVars
  <2>2. second <= second'
    BY <1>0, <1>13 DEF SetUserStatus, AdjustCredits, ToggleQueue, SecondPasses, MinutePasses, vars,
       timeVars, NextSecond
  <2> QED BY <1>3, <2>1, <2>2
<1> QED
  BY <1>2, <1>4, <1>5, <1>6, <1>8, <1>9, <1>10, <1>11, <1>12, <1>13 DEF Next

LEMMA InitPlaced ==
  ASSUME Init
  PROVE  Placed
BY DEF Init, Placed, Locking

(* With one process at a time the position shown to a waiting user counts at *)
(* least the waiting rows of the model created before: NextPosition and    *)
(* the recalculations run under queueMu, and one that fails half-way       *)
(* leaves the rows behind it what they had.                                *)
THEOREM PositionsHold ==
  ASSUME Instances <= 1
  PROVE  Spec => []PositionsNotUnderstated
<1>1. Init => Placed
  BY InitPlaced
<1>2. /\ TypeOK /\ Accounts /\ Alone /\ Placed /\ [Next]_vars
      /\ TypeOK'
      => Placed'
  BY PlacedStep
<1>3. Placed => PositionsNotUnderstated
  BY DEF Placed, PositionsNotUnderstated, Older
<1> QED BY <1>1, <1>2, <1>3, AloneInvariance, PTL DEF Spec

-----------------------------------------------------------------------------
(* The limit per minute, for one process at a time *)

(* A time stamp is stale when the minute has turned since it was taken: the  *)
(* row it goes to counts for the minute before.                            *)
Stale ==
  \/ \E t \in Tasks : pc[t] \in Locking /\ t \notin fresh
  \/ \E w \in Workers : sched[w] = "stamped" /\ w \notin fresh

Started(m) == Cardinality({t \in recent : ModelOf[t] = m})

(* MinuteLimitSlack, made inductive.  The launches of a minute are the rows  *)
(* stamped in it and at most one more, whose stamp was taken just before:  *)
(* nobody launched yet in a minute into which a stamp is carried.  What the *)
(* holder of the lock is about to launch fits into the minute.              *)
Rated ==
  /\ \A t \in recent : status[t] \notin {"absent", "queued"}
  /\ Stale => \A m \in Models : sent[m] = 0
  /\ \A m \in Models : sent[m] <= Started(m) + 1
  /\ MinuteLimitSlack
  /\ \A t \in Tasks : pc[t] = "launch" /\ snap[t] => Remaining(ModelOf[t]) > 0
  /\ \A w \in Workers, m \in Models : cur[w] = m =>
       /\ sched[w] = "list" => 0 < room[w] /\ room[w] <= Remaining(m)
       /\ sched[w] \in Listing => Cardinality(work[w]) <= Remaining(m)

(* The first n rows of a queue are at most n: each has a rank of its own.    *)
LEMMA FirstFew ==
  ASSUME TypeOK, NEW m, NEW n \in Int, n > 0
  PROVE  Cardinality(FirstQueued(m, n)) <= n
<1> DEFINE Few == FirstQueued(m, n)
           rank == [t \in Few |-> Cardinality(Ahead(t))]
<1>1. \A t \in Few : /\ t \in Tasks /\ t \in Nat /\ ModelOf[t] = m /\ status[t] = "queued"
                     /\ Cardinality(Ahead(t)) < n /\ created[t] \in Nat
  BY TaskAssumption DEF FirstQueued, Queued, TypeOK
<1>2. ASSUME NEW t \in Few, NEW u \in Few, Before(t, u)
      PROVE  Cardinality(Ahead(t)) < Cardinality(Ahead(u))
  <2>1. Ahead(t) \subseteq Ahead(u) \ {t} /\ t \in Ahead(u)
    <3>1. t \in Queued(ModelOf[u]) /\ u \in Tasks
      BY <1>1 DEF Queued
    <3> HIDE DEF Few
    <3> QED BY <1>2, <3>1, AheadGrows
  <2> DEFINE A == Ahead(t)
             B == Ahead(u)
  <2>2. /\ IsFiniteSet(A) /\ IsFiniteSet(B) /\ Cardinality(A) \in Nat /\ Cardinality(B) \in Nat
    BY OlderFacts
  <2>3. A \subseteq B \ {t} /\ t \in B
    BY <2>1
  <2> HIDE DEF A, B
  <2>4. IsFiniteSet(B \ {t}) /\ Cardinality(B \ {t}) = Cardinality(B) - 1
    BY <2>2, <2>3, FS_RemoveElement
  <2>5. Cardinality(A) <= Cardinality(B \ {t})
    BY <2>3, <2>4, FS_Subset
  <2>6. Cardinality(A) < Cardinality(B)
    BY <2>2, <2>4, <2>5
  <2> QED BY <2>6 DEF A, B
<1>3. ASSUME NEW t \in Few, NEW u \in Few, t # u
      PROVE  Cardinality(Ahead(t)) # Cardinality(Ahead(u))
  <2>1. Before(t, u) \/ Before(u, t)
    <3> HIDE DEF Few
    <3> QED BY <1>1, <1>3, BeforeOrder
  <2>2. Cardinality(Ahead(t)) \in Nat /\ Cardinality(Ahead(u)) \in Nat
    BY OlderFacts
  <2> HIDE DEF Few
  <2> QED BY <1>2, <2>1, <2>2
<1>4. Few \subseteq Tasks /\ IsFiniteSet(Few)
  BY <1>1, TaskAssumption, FS_Subset
<1>5. IsFiniteSet(0..(n - 1)) /\ Cardinality(0..(n - 1)) = n
  BY FS_Interval
<1>6. \A t \in Few : Cardinality(Ahead(t)) \in 0..(n - 1)
  BY <1>1, OlderFacts
<1> HIDE DEF Few
<1>7. rank \in [Few -> 0..(n - 1)] /\ \A t, u \in Few : rank[t] = rank[u] => t = u
  BY <1>3, <1>6
<1> HIDE DEF rank
<1>8. ASSUME n < Cardinality(Few) PROVE FALSE
  <2>1. \E t, u \in Few : t # u /\ rank[t] = rank[u]
    BY <1>4, <1>5, <1>7, <1>8, FS_PigeonHole
  <2> QED BY <1>7, <2>1
<1>9. Cardinality(Few) \in Nat
  BY <1>4, Counting
<1>10. Cardinality(Few) <= n
  BY <1>8, <1>9
<1> QED BY <1>10 DEF Few

(* The rows of the minute, and what is left of it.                           *)
LEMMA MinuteFacts ==
  ASSUME TypeOK, NEW m
  PROVE  /\ Started(m) \in Nat
         /\ m \in Models => Limit[m] \in Nat /\ Limit[m] > 0 /\ Remaining(m) = Limit[m] - Started(m)
<1>1. Started(m) \in Nat
  BY Counting DEF Started, TypeOK
<1>2. m \in Models => Limit[m] \in Nat /\ Limit[m] > 0
  BY SettingAssumption
<1> QED BY <1>1, <1>2 DEF Started, Remaining

(* One more row of the minute. *)
LEMMA OneStarted ==
  ASSUME TypeOK, TypeOK', NEW t \in Tasks, t \notin recent, recent' = recent \cup {t}, NEW m
  PROVE  Started(m)' = IF ModelOf[t] = m THEN Started(m) + 1 ELSE Started(m)
<1> DEFINE R == {r \in recent : ModelOf[r] = m}
<1>1. IsFiniteSet(R)
  <2>1. R \subseteq Tasks
    BY DEF TypeOK
  <2> QED BY <2>1, TaskAssumption, FS_Subset
<1>2. R' = IF ModelOf[t] = m THEN R \cup {t} ELSE R
  OBVIOUS
<1>3. t \notin R
  OBVIOUS
<1>4. Started(m) = Cardinality(R) /\ Started(m)' = Cardinality(R')
  BY DEF Started
<1>5. ASSUME NEW S, S = R \cup {t} PROVE Cardinality(S) = Cardinality(R) + 1
  <2> HIDE DEF R
  <2> QED BY <1>1, <1>3, <1>5, FS_AddElement
<1> HIDE DEF R
<1> QED BY <1>2, <1>4, <1>5

(* Nothing is launched, and no stamp grows stale.                            *)
LEMMA RatedKept ==
  ASSUME TypeOK, Rated, UNCHANGED <<sent, recent>>, Stale' => Stale,
         \A t \in recent : status'[t] \notin {"absent", "queued"},
         \A t \in Tasks : pc'[t] = "launch" /\ snap'[t] =>
           (pc[t] = "launch" /\ snap[t]) \/ Remaining(ModelOf[t]) > 0,
         \A w \in Workers : sched'[w] \in {"list"} \cup Listing =>
           /\ sched'[w] \in Listing => sched[w] \in Listing
           /\ sched'[w] = "list" => sched[w] = "list"
           /\ cur'[w] = cur[w] /\ room'[w] = room[w] /\ work'[w] = work[w]
  PROVE  Rated'
<1>1. \A m : Started(m)' = Started(m) /\ Remaining(m)' = Remaining(m)
  BY DEF Started, Remaining
<1> QED BY <1>1, SMTT(30) DEF Rated, MinuteLimitSlack

(* A row of the model m is launched, for which there is room.                *)
LEMMA RatedLaunch ==
  ASSUME TypeOK, TypeOK', Rated, NEW t \in Tasks, status[t] \in {"absent", "queued"},
         status' = [status EXCEPT ![t] = "executing"],
         Remaining(ModelOf[t]) > 0 \/ sent' = sent,
         \/ sent' = sent
         \/ sent' = [sent EXCEPT ![ModelOf[t]] = @ + 1],
         \/ recent' = recent \cup {t}
         \/ recent' = recent /\ (Stale \/ sent' = sent),
         ~Stale'
  PROVE  /\ \A r \in recent' : status'[r] \notin {"absent", "queued"}
         /\ \A m \in Models : sent'[m] <= Started(m)' + 1
         /\ MinuteLimitSlack'
<1> DEFINE n == ModelOf[t]
<1>0. n \in Models /\ t \notin recent
  BY TaskAssumption DEF Rated
<1>1. \A r \in recent' : status'[r] \notin {"absent", "queued"}
  BY <1>0 DEF Rated, TypeOK
<1> HIDE DEF n
<1>2. ASSUME NEW m \in Models PROVE sent'[m] <= Started(m)' + 1 /\ sent'[m] <= Limit[m] + 1
  <2>1. /\ Started(m) \in Nat /\ Limit[m] \in Nat /\ Remaining(m) = Limit[m] - Started(m)
        /\ sent[m] \in Nat /\ sent[m] <= Started(m) + 1 /\ sent[m] <= Limit[m] + 1
    BY MinuteFacts DEF Rated, TypeOK, MinuteLimitSlack
  <2>2. Started(m)' \in {Started(m), Started(m) + 1}
    BY <1>0, OneStarted DEF Started
  <2>3. CASE sent'[m] = sent[m]
    BY <2>1, <2>2, <2>3
  <2>4. CASE sent'[m] # sent[m]
    <3>1. m = n /\ sent'[m] = sent[m] + 1 /\ Remaining(m) > 0
      BY <2>4 DEF n, TypeOK
    <3>2. CASE recent' = recent \cup {t}
      <4>1. Started(m)' = Started(m) + 1
        BY <1>0, <3>1, <3>2, OneStarted DEF n
      <4> QED BY <2>1, <3>1, <4>1
    <3>3. CASE recent' = recent /\ Stale
      <4>1. sent[m] = 0
        BY <3>3 DEF Rated
      <4> QED BY <2>1, <2>2, <3>1, <4>1
    <3> QED BY <2>4, <3>2, <3>3
  <2> QED BY <2>3, <2>4
<1> QED BY <1>1, <1>2 DEF MinuteLimitSlack

LEMMA RatedStep ==
  ASSUME TypeOK, TypeOK', Accounts, Alone, Alone', Lines, Lines', Rated, [Next]_vars
  PROVE  Rated'
<1>0. /\ status \in [Tasks -> Terminal \cup {"absent", "queued", "executing", "purged"}]
      /\ pc \in [Tasks -> InFlight \cup {"idle", "refused", "accepted", "rejected",
                                         "unrefunded", "crashed"}]
      /\ sched \in [Workers -> {"off", "boot", "idle", "models", "list", "mark", "stamped",
                                "recover", "purge"}]
      /\ work \in [Workers -> SUBSET Tasks] /\ room \in [Workers -> Int] /\ recent \subseteq Tasks
      /\ snap \in [Tasks -> BOOLEAN] /\ cur \in [Workers -> Models \cup {None}]
  BY DEF TypeOK
<1>1. \A t \in Tasks : pc[t] # "accepted" => status[t] = "absent"
  BY DEF Accounts, Account
<1>2. \A t \in recent : t \in Tasks /\ status[t] \notin {"absent", "queued"}
  BY <1>0 DEF Rated
<1>3. ASSUME UNCHANGED <<sent, recent, fresh, sched, cur, room, work, snap>>,
             \A t \in recent : status'[t] \notin {"absent", "queued"},
             \A t \in Tasks : /\ pc'[t] \in Locking => pc[t] \in Locking
                              /\ pc'[t] = "launch" => pc[t] = "launch"
      PROVE  Rated'
  <2>1. Stale' => Stale
    BY <1>3 DEF Stale
  <2> QED BY <1>3, <2>1, RatedKept
<1>4. ASSUME UNCHANGED <<sent, recent, fresh, pc, snap>>,
             \A t \in recent : status'[t] \notin {"absent", "queued"},
             \A w \in Workers : sched'[w] \in {"list"} \cup Listing =>
               /\ sched'[w] = sched[w] /\ cur'[w] = cur[w]
               /\ room'[w] = room[w] /\ work'[w] = work[w]
      PROVE  Rated'
  <2>1. Stale' => Stale
    BY <1>4 DEF Stale, Listing
  <2> QED BY <1>4, <2>1, RatedKept
<1>5. ASSUME NEW t \in Tasks, pc[t] \in Locking
      PROVE  /\ \A u \in Tasks : u # t => pc[u] \notin Locking
             /\ \A w \in Workers : sched[w] \notin Dispatching
  BY <1>5, HolderFacts DEF Alone
<1>6. ASSUME NEW w \in Workers, sched[w] \in Dispatching
      PROVE  /\ \A t \in Tasks : pc[t] \notin Locking
             /\ \A v \in Workers : v # w => sched[v] \notin Dispatching
  BY <1>6, HolderFacts DEF Alone
<1>7. ASSUME NEW t \in Tasks, SubmitStep(t) PROVE Rated'
  <2>1. CASE SubmitLock(t)
    <3>1. /\ pc' = [pc EXCEPT ![t] = "locked"] /\ fresh' = fresh \cup {t}
          /\ UNCHANGED <<sent, recent, sched, cur, room, work, snap, status>>
      BY <2>1 DEF SubmitLock, schedVars, timeVars
    <3>2. Stale' => Stale
      BY <1>0, <3>1 DEF Stale
    <3> QED BY <1>0, <1>2, <3>1, <3>2, RatedKept
  <2>2. CASE SubmitDecide(t)
    <3>1. /\ pc[t] \in Locking /\ UNCHANGED <<sent, recent, fresh, sched, cur, room, work, snap, status>>
          /\ \/ pc' = [pc EXCEPT ![t] = "count"]
             \/ /\ pc' = [pc EXCEPT ![t] = "launch"]
                /\ ~snap[t] \/ Remaining(ModelOf[t]) > 0
      BY <2>2 DEF SubmitDecide, schedVars, timeVars, rowVars, Locking
    <3>2. Stale' => Stale
      BY <1>0, <3>1 DEF Stale
    <3> QED BY <1>0, <1>2, <3>1, <3>2, RatedKept
  <2>3. CASE SubmitLaunch(t)
    <3>1. /\ pc[t] \in Locking /\ pc[t] = "launch" /\ status[t] = "absent"
          /\ pc' = [pc EXCEPT ![t] = "accepted"]
          /\ status' = [status EXCEPT ![t] = "executing"]
          /\ recent' = IF t \in fresh THEN recent \cup {t} ELSE recent
          /\ sent' = IF snap[t] THEN [sent EXCEPT ![ModelOf[t]] = @ + 1] ELSE sent
          /\ UNCHANGED sched
      BY <1>1, <2>3 DEF SubmitLaunch, schedVars, Locking
    <3>2. /\ \A u \in Tasks : pc'[u] \notin Locking
          /\ \A w \in Workers : sched'[w] \notin Dispatching
      BY <1>0, <1>5, <3>1 DEF Locking
    <3>3. ~Stale'
      BY <3>2 DEF Stale, Dispatching
    <3>4. Remaining(ModelOf[t]) > 0 \/ sent' = sent
      BY <3>1 DEF Rated
    <3>5. \/ recent' = recent \cup {t}
          \/ recent' = recent /\ (Stale \/ sent' = sent)
      BY <3>1 DEF Stale
    <3>6. sent' = sent \/ sent' = [sent EXCEPT ![ModelOf[t]] = @ + 1]
      BY <3>1
    <3>7. /\ \A r \in recent' : status'[r] \notin {"absent", "queued"}
          /\ \A m \in Models : sent'[m] <= Started(m)' + 1
          /\ MinuteLimitSlack'
      BY <3>1, <3>3, <3>4, <3>5, <3>6, RatedLaunch
    <3> QED BY <3>2, <3>3, <3>7 DEF Rated, Locking, Dispatching, Listing
  <2>4. CASE SubmitEnqueue(t) \/ SubmitError(t)
    <3>1. /\ pc[t] \in Locking /\ \E s \in {"accepted", "refund"} : pc' = [pc EXCEPT ![t] = s]
          /\ UNCHANGED <<sent, recent, sched, cur, room, work, snap>>
          /\ \A u \in Tasks : u # t => status'[u] = status[u]
          /\ status[t] = "absent"
      BY <1>0, <1>1, <2>4 DEF SubmitEnqueue, SubmitError, schedVars, timeVars, rowVars, Locking
    <3>2. /\ \A u \in Tasks : pc'[u] \notin Locking
          /\ \A w \in Workers : sched'[w] \notin Dispatching
      BY <1>0, <1>5, <3>1 DEF Locking
    <3>3. ~Stale'
      BY <3>2 DEF Stale, Dispatching
    <3>4. \A u \in recent : status'[u] \notin {"absent", "queued"}
      BY <1>2, <3>1
    <3> QED BY <3>1, <3>2, <3>3, <3>4, RatedKept DEF Locking, Dispatching, Listing
  <2>5. CASE ~(\/ SubmitLock(t) \/ SubmitDecide(t) \/ SubmitLaunch(t) \/ SubmitEnqueue(t)
               \/ SubmitError(t))
    <3>1. /\ UNCHANGED <<sent, recent, fresh, sched, cur, room, work, snap, status>>
          /\ \E s \in {"stored", "refund", "enqueue", "drop", "rejected", "dropUnrefunded",
                       "unrefunded"} : pc' = [pc EXCEPT ![t] = s]
          /\ pc'[t] \in Locking => pc[t] \in Locking
      BY <1>0, <1>7, <2>5 DEF SubmitStep, SubmitStore, SubmitQueueFull, SubmitCount,
         SubmitRefund, SubmitRefundFails, SubmitDrop, rowVars, schedVars, timeVars, Locking
    <3>2. \A u \in Tasks : /\ pc'[u] \in Locking => pc[u] \in Locking
                           /\ pc'[u] = "launch" => pc[u] = "launch"
      BY <1>0, <3>1
    <3> QED BY <1>2, <1>3, <3>1, <3>2
  <2> QED BY <2>1, <2>2, <2>3, <2>4, <2>5
<1>8. ASSUME NEW t \in Tasks, ExecStep(t) \/ PayloadExpires(t) PROVE Rated'
  <2>1. /\ UNCHANGED <<sent, recent, fresh, sched, cur, room, work, snap, pc>>
        /\ \A u \in Tasks : status'[u] \in {"absent", "queued"} => status'[u] = status[u]
    BY <1>0, <1>8 DEF ExecStep, ExecRead, ExecCall, ExecFinish, ExecFail, FailTask, RowIs,
       PayloadExpires, rowVars, submitVars, schedVars, timeVars
  <2> QED BY <1>2, <1>3, <2>1
<1>9. ASSUME NEW w \in Workers, NEW t \in Tasks, SubmitCharge(w, t) \/ SubmitRefused(w, t)
      PROVE  Rated'
  <2>1. /\ UNCHANGED <<sent, recent, fresh, sched, cur, room, work, status>>
        /\ \E s \in {"charged", "refused"} : pc' = [pc EXCEPT ![t] = s]
        /\ \A u \in Tasks : u # t => snap'[u] = snap[u]
    BY <1>0, <1>9 DEF SubmitCharge, SubmitRefused, rowVars, schedVars, timeVars
  <2>2. \A u \in Tasks : pc'[u] \in Locking => u # t /\ pc[u] \in Locking /\ pc'[u] = pc[u]
    BY <1>0, <2>1 DEF Locking
  <2>3. Stale' => Stale
    BY <2>1, <2>2 DEF Stale
  <2>4. \A u \in Tasks : pc'[u] = "launch" /\ snap'[u] => pc[u] = "launch" /\ snap[u]
    BY <2>1, <2>2 DEF Locking
  <2> QED BY <1>2, <2>1, <2>3, <2>4, RatedKept
<1>10. ASSUME NEW w \in Workers, NEW t \in Tasks,
              CancelBegin(w, t) \/ PurgeFiles(w, t) \/ PurgeFails(w, t)
       PROVE  Rated'
  <2>1. UNCHANGED <<sent, recent, fresh, snap, pc, status, cur, room>>
    BY <1>10 DEF CancelBegin, PurgeFiles, PurgeFails, rowVars, submitVars, schedVars, timeVars
  <2>2. \A v \in Workers : sched'[v] \in {"list"} \cup Listing =>
          sched'[v] = sched[v] /\ work'[v] = work[v]
    BY <1>0, <1>10 DEF CancelBegin, PurgeFiles, PurgeFails, schedVars, Listing
  <2> QED BY <1>2, <1>4, <2>1, <2>2
<1>11. ASSUME NEW w \in Workers, CancelStep(w) PROVE Rated'
  <2>1. /\ UNCHANGED <<sent, recent, fresh, sched, cur, room, work, snap, pc>>
        /\ \A u \in Tasks : status'[u] \in {"absent", "queued"} => status'[u] = status[u]
    BY <1>0, <1>11 DEF CancelStep, CancelFinish, CancelFails, CancelRecalculate, RowIs, rowVars,
       submitVars, schedVars, timeVars
  <2> QED BY <1>2, <1>3, <2>1
<1>12. ASSUME NEW w \in Workers, DispatchBegin(w) PROVE Rated'
  <2>1. /\ UNCHANGED <<sent, recent, fresh, cur, room, work, snap, pc, status>>
        /\ sched' = [sched EXCEPT ![w] = "models"]
    BY <1>12 DEF DispatchBegin, rowVars, submitVars, timeVars
  <2>2. \A v \in Workers : sched'[v] \in {"list"} \cup Listing => sched'[v] = sched[v]
    BY <1>0, <2>1 DEF Listing
  <2> QED BY <1>2, <1>4, <2>1, <2>2
<1>13. ASSUME NEW w \in Workers, DispatchStep(w) PROVE Rated'
  <2>0. /\ sched[w] \in Dispatching /\ \A t \in Tasks : pc[t] \notin Locking
        /\ \A v \in Workers : v # w => sched[v] \notin Dispatching
    <3>1. sched[w] \in Dispatching
      BY <1>13 DEF DispatchStep, DispatchModel, DispatchList, DispatchStamp, DispatchMark,
         DispatchRecalculate, DispatchEnd, DispatchError, Dispatching
    <3> QED BY <1>6, <3>1
  <2>1. ASSUME NEW m \in Models, DispatchModel(w, m) PROVE Rated'
    <3>1. UNCHANGED <<sent, recent, fresh, work, snap, pc, status>>
      BY <2>1 DEF DispatchModel, rowVars, submitVars, timeVars
    <3>2. CASE Remaining(m) <= 0
      <4>1. UNCHANGED <<sched, cur, room>>
        BY <2>1, <3>2 DEF DispatchModel
      <4> QED BY <1>2, <1>3, <3>1, <4>1
    <3>3. CASE ~(Remaining(m) <= 0)
      <4>1. /\ sched' = [sched EXCEPT ![w] = "list"] /\ cur' = [cur EXCEPT ![w] = m]
            /\ room' = [room EXCEPT ![w] = Remaining(m)]
        BY <2>1, <3>3 DEF DispatchModel
      <4>2. \A n : Started(n)' = Started(n) /\ Remaining(n)' = Remaining(n)
        BY <3>1 DEF Started, Remaining
      <4>3. Remaining(m) > 0
        BY <3>3, MinuteFacts
      <4>4. \A v \in Workers : v # w => sched'[v] \notin Dispatching
        BY <2>0, <4>1
      <4>5. sched'[w] = "list" /\ room'[w] = Remaining(m) /\ cur'[w] = m
        BY <1>0, <4>1 DEF TypeOK
      <4>6. \A v \in Workers, k \in Models : cur'[v] = k =>
              /\ sched'[v] = "list" => 0 < room'[v] /\ room'[v] <= Remaining(k)'
              /\ sched'[v] \in Listing => Cardinality(work'[v]) <= Remaining(k)'
        <5>1. Remaining(m) <= Remaining(m) /\ 0 < Remaining(m)
          BY <4>3, MinuteFacts
        <5> QED BY <4>2, <4>4, <4>5, <5>1 DEF Dispatching, Listing
      <4>7. ~Stale'
        BY <2>0, <3>1, <4>4, <4>5 DEF Stale, Dispatching
      <4> QED BY <1>2, <2>0, <3>1, <4>2, <4>6, <4>7 DEF Rated, MinuteLimitSlack, Locking
    <3> QED BY <3>2, <3>3
  <2>2. CASE DispatchList(w)
    <3>1. /\ sched[w] = "list" /\ sched' = [sched EXCEPT ![w] = "mark"]
          /\ work' = [work EXCEPT ![w] = FirstQueued(cur[w], room[w])]
          /\ UNCHANGED <<sent, recent, fresh, cur, snap, pc, status>>
      BY <2>2 DEF DispatchList, rowVars, submitVars, timeVars
    <3>2. PICK n \in Int : n = room[w]
      BY <1>0
    <3>3. PICK m \in Models : m = cur[w]
      BY <3>1 DEF Lines
    <3>4. 0 < n /\ n <= Remaining(m)
      BY <3>1, <3>2, <3>3 DEF Rated
    <3>5. Cardinality(FirstQueued(m, n)) <= n
      BY <3>4, FirstFew
    <3>6. Cardinality(FirstQueued(m, n)) \in Nat /\ Remaining(m) \in Int
      <4>1. FirstQueued(m, n) \subseteq Tasks
        BY DEF FirstQueued, Queued
      <4> QED BY <4>1, Counting, MinuteFacts
    <3> DEFINE C == Cardinality(FirstQueued(m, n))
    <3>7. C <= Remaining(m)
      <4> HIDE DEF C
      <4>1. C \in Nat /\ C <= n
        BY <3>5, <3>6 DEF C
      <4> QED BY <3>4, <3>6, <4>1
    <3>8. \A k : Started(k)' = Started(k) /\ Remaining(k)' = Remaining(k)
      BY <3>1 DEF Started, Remaining
    <3>9. /\ sched'[w] = "mark" /\ cur'[w] = m /\ work'[w] = FirstQueued(m, n)
          /\ \A v \in Workers : v # w => sched'[v] \notin Dispatching
      BY <1>0, <2>0, <3>1, <3>2, <3>3
    <3>10. Cardinality(work'[w]) <= Remaining(m)
      BY <3>7, <3>9
    <3>11. \A v \in Workers, k \in Models : cur'[v] = k =>
             /\ sched'[v] = "list" => 0 < room'[v] /\ room'[v] <= Remaining(k)'
             /\ sched'[v] \in Listing => Cardinality(work'[v]) <= Remaining(k)'
      <4> HIDE DEF C
      <4> QED BY <3>8, <3>9, <3>10 DEF Dispatching, Listing
    <3>12. ~Stale'
      BY <2>0, <3>1, <3>9 DEF Stale, Dispatching
    <3> QED BY <1>2, <2>0, <3>1, <3>8, <3>11, <3>12 DEF Rated, MinuteLimitSlack, Locking
  <2>3. CASE DispatchStamp(w)
    <3>1. /\ sched[w] = "mark" /\ sched' = [sched EXCEPT ![w] = "stamped"] /\ fresh' = fresh \cup {w}
          /\ UNCHANGED <<sent, recent, cur, room, work, snap, pc, status>>
      BY <2>3 DEF DispatchStamp, rowVars, timeVars
    <3>2. Stale' => Stale
      BY <1>0, <2>0, <3>1 DEF Stale
    <3> QED BY <1>0, <1>2, <3>1, <3>2, RatedKept DEF Listing
  <2>4. ASSUME NEW t \in Tasks, DispatchMark(w, t) PROVE Rated'
    <3>1. PICK m \in Models : m = cur[w]
      BY <2>4 DEF DispatchMark, Lines, Listing
    <3>2. /\ sched[w] = "stamped" /\ t \in work[w] /\ work[w] \subseteq Queued(m)
          /\ status[t] = "queued" /\ ModelOf[t] = m
      BY <2>4, <3>1 DEF DispatchMark, Lines, Listing, Queued
    <3>3. /\ sched' = [sched EXCEPT ![w] = "mark"] /\ work' = [work EXCEPT ![w] = @ \ {t}]
          /\ status' = [status EXCEPT ![t] = "executing"]
          /\ recent' = IF w \in fresh THEN recent \cup {t} ELSE recent
          /\ sent' = [sent EXCEPT ![ModelOf[t]] = @ + 1]
          /\ UNCHANGED <<cur, snap, pc>>
      BY <2>4, <3>2 DEF DispatchMark, StillQueued
    <3>4. /\ \A v \in Workers : v # w => sched'[v] \notin Dispatching
          /\ sched'[w] = "mark" /\ cur'[w] = m /\ work'[w] = work[w] \ {t}
      BY <1>0, <2>0, <3>1, <3>3
    <3>5. ~Stale'
      BY <2>0, <3>3, <3>4 DEF Stale, Dispatching
    <3> DEFINE W == work[w]
    <3>6. /\ IsFiniteSet(W) /\ t \in W /\ Cardinality(W) \in Nat
          /\ Cardinality(W) <= Remaining(m)
      <4>1. W \subseteq Tasks
        BY <1>0
      <4>2. Cardinality(W) <= Remaining(m)
        BY <3>1, <3>2 DEF Rated, Listing
      <4> QED BY <3>2, <4>1, <4>2, TaskAssumption, FS_Subset, Counting
    <3> HIDE DEF W
    <3>7. Cardinality(W \ {t}) = Cardinality(W) - 1 /\ Cardinality(W \ {t}) \in Nat
      BY <3>6, FS_RemoveElement, FS_CardinalityType
    <3>8. Remaining(m) \in Int /\ Remaining(m) = Limit[m] - Started(m) /\ Limit[m] \in Nat
          /\ Started(m) \in Nat
      BY MinuteFacts
    <3>9. Remaining(m) > 0
      BY <3>6, <3>7, <3>8
    <3>10. \/ recent' = recent \cup {t}
           \/ recent' = recent /\ Stale
      BY <3>2, <3>3 DEF Stale
    <3>11. /\ \A r \in recent' : status'[r] \notin {"absent", "queued"}
           /\ \A n \in Models : sent'[n] <= Started(n)' + 1
           /\ MinuteLimitSlack'
      BY <3>2, <3>3, <3>5, <3>9, <3>10, RatedLaunch
    <3>12. Cardinality(W \ {t}) <= Remaining(m)'
      <4>1. t \notin recent
        BY <1>2, <3>2
      <4>2. Started(m)' \in {Started(m), Started(m) + 1}
        BY <3>10, <4>1, OneStarted DEF Started
      <4>3. Remaining(m)' = Limit[m] - Started(m)'
        BY MinuteFacts DEF Remaining, Started
      <4> QED BY <3>6, <3>7, <3>8, <4>2, <4>3
    <3>13. \A v \in Workers, k \in Models : cur'[v] = k =>
             /\ sched'[v] = "list" => 0 < room'[v] /\ room'[v] <= Remaining(k)'
             /\ sched'[v] \in Listing => Cardinality(work'[v]) <= Remaining(k)'
      BY <3>4, <3>12 DEF W, Dispatching, Listing
    <3>14. \A u \in Tasks : pc'[u] # "launch"
      BY <2>0, <3>3 DEF Locking
    <3> QED BY <3>5, <3>11, <3>13, <3>14 DEF Rated
  <2>5. CASE DispatchRecalculate(w) \/ DispatchEnd(w) \/ DispatchError(w)
    <3>1. /\ UNCHANGED <<sent, recent, snap, pc, status>>
          /\ \E s \in {"models", "idle"} : sched' = [sched EXCEPT ![w] = s]
      BY <2>5 DEF DispatchRecalculate, DispatchEnd, DispatchError, DispatchStop, submitVars, timeVars
    <3>2. \A v \in Workers : sched'[v] \notin {"list"} \cup Listing
      BY <1>0, <2>0, <3>1 DEF Dispatching, Listing
    <3>3. ~Stale'
      BY <2>0, <3>1, <3>2 DEF Stale, Listing
    <3> QED BY <1>2, <3>1, <3>2, <3>3, RatedKept
  <2> QED BY <1>13, <2>1, <2>2, <2>3, <2>4, <2>5 DEF DispatchStep
<1>14. ASSUME NEW w \in Workers, NEW S \in SUBSET Tasks,
              RecoverList(w, S) \/ RecoverStep(w) \/ PurgeStep(w)
       PROVE  Rated'
  <2>1. /\ UNCHANGED <<sent, recent, fresh, snap, pc, cur, room>>
        /\ \E s \in {"idle", "recover"} : sched' = [sched EXCEPT ![w] = s]
        /\ \E x : work' = [work EXCEPT ![w] = x]
    BY <1>14 DEF RecoverList, RecoverStep, RecoverTask, RecoverFails, Recovered, PurgeStep,
                 PurgeRow, PurgeRowFails, PurgeEnd, submitVars, timeVars
  <2>2. \A u \in Tasks : status'[u] \in {"absent", "queued"} => status'[u] = status[u]
    BY <1>0, <1>14 DEF RecoverList, RecoverStep, RecoverTask, RecoverFails, Recovered, PurgeStep,
                 PurgeRow, PurgeRowFails, PurgeEnd, FailTask, RowIs, rowVars
  <2>3. \A v \in Workers : sched'[v] \in {"list"} \cup Listing =>
          sched'[v] = sched[v] /\ work'[v] = work[v]
    BY <1>0, <2>1 DEF Listing
  <2> QED BY <1>2, <1>4, <2>1, <2>2, <2>3
<1>15. ASSUME NEW w \in Workers, Start(w) PROVE Rated'
  <2>1. /\ UNCHANGED <<sent, recent, fresh, snap, pc, status, cur, room, work>>
        /\ sched' = [sched EXCEPT ![w] = "boot"]
    BY <1>15 DEF Start, rowVars, submitVars, timeVars
  <2>2. \A v \in Workers : sched'[v] \in {"list"} \cup Listing => sched'[v] = sched[v]
    BY <1>0, <2>1 DEF Listing
  <2> QED BY <1>2, <1>4, <2>1, <2>2
<1>16. ASSUME NEW w \in Workers, Crash(w) PROVE Rated'
  <2>1. /\ UNCHANGED <<sent, recent, snap, status, host>> /\ sched' = [sched EXCEPT ![w] = "off"]
        /\ pc' = [t \in Tasks |-> IF host[t] = w /\ pc[t] \in InFlight THEN "crashed" ELSE pc[t]]
        /\ proc[w] = "up"
    BY <1>16 DEF Crash, rowVars, timeVars
  <2>2. \A v \in Workers : v # w => lock[v] = "free" /\ sched[v] = "off"
    BY <2>1 DEF Alone
  <2>3. \A v \in Workers : sched'[v] \notin Dispatching
    BY <1>0, <2>1, <2>2 DEF Dispatching
  <2>4. \A t \in Tasks : pc'[t] \notin Locking
    <3>1. ASSUME NEW t \in Tasks, pc[t] \in Locking PROVE host[t] = w
      <4>1. host[t] \in Workers /\ lock[host[t]] = "submit"
        BY <3>1 DEF Alone, Locking, InFlight
      <4> QED BY <2>2, <4>1
    <3> QED BY <2>1, <3>1 DEF Locking, InFlight
  <2>5. ~Stale'
    BY <2>3, <2>4 DEF Stale, Dispatching
  <2> QED BY <1>2, <2>1, <2>3, <2>4, <2>5, RatedKept DEF Locking, Dispatching, Listing
<1>17. CASE MinutePasses
  <2>1. /\ recent' = {} /\ sent' = [m \in Models |-> 0]
        /\ UNCHANGED <<pc, snap, status, sched, cur, room, work>>
    BY <1>17 DEF MinutePasses, rowVars, schedVars
  <2>2. \A m \in Models : Remaining(m)' = Limit[m] /\ Started(m)' = 0 /\ Remaining(m) <= Limit[m]
                          /\ Limit[m] \in Nat /\ Limit[m] > 0 /\ Remaining(m) \in Int
    <3>1. \A m : {t \in recent' : ModelOf[t] = m} = {}
      BY <2>1
    <3>2. \A m : Started(m)' = 0
      BY <3>1, FS_EmptySet DEF Started
    <3>3. \A m \in Models : Limit[m] \in Nat /\ Limit[m] > 0 /\ Remaining(m) = Limit[m] - Started(m)
                            /\ Started(m) \in Nat
      BY MinuteFacts
    <3>4. \A m : Remaining(m)' = Limit[m] - Started(m)'
      BY DEF Remaining, Started
    <3> QED BY <3>2, <3>3, <3>4
  <2>3. \A w \in Workers : sched[w] \in {"list"} \cup Listing =>
          /\ cur[w] \in Models
          /\ room[w] \in Int /\ Cardinality(work[w]) \in Nat
    BY <1>0, Counting DEF Lines
  <2>4. \A w \in Workers, m \in Models : cur'[w] = m =>
          /\ sched'[w] = "list" => 0 < room'[w] /\ room'[w] <= Remaining(m)'
          /\ sched'[w] \in Listing => Cardinality(work'[w]) <= Remaining(m)'
    <3> SUFFICES ASSUME NEW w \in Workers, NEW m \in Models, cur[w] = m,
                        sched[w] \in {"list"} \cup Listing
                 PROVE  /\ sched[w] = "list" => 0 < room[w] /\ room[w] <= Limit[m]
                        /\ sched[w] \in Listing => Cardinality(work[w]) <= Limit[m]
      BY <2>1, <2>2
    <3>1. /\ sched[w] = "list" => 0 < room[w] /\ room[w] <= Remaining(m)
          /\ sched[w] \in Listing => Cardinality(work[w]) <= Remaining(m)
      BY DEF Rated
    <3> QED BY <2>2, <2>3, <3>1
  <2>5. \A t \in Tasks : Remaining(ModelOf[t])' > 0
    BY <2>2, TaskAssumption
  <2>6. \A m \in Models : sent'[m] = 0 /\ sent'[m] <= Started(m)' + 1 /\ sent'[m] <= Limit[m] + 1
    BY <2>1, <2>2
  <2> QED BY <2>1, <2>4, <2>5, <2>6 DEF Rated, MinuteLimitSlack
<1>18. ASSUME \/ \E u \in Users : SetUserStatus(u) \/ \E c \in AdminCredits : AdjustCredits(u, c)
              \/ ToggleQueue \/ SecondPasses \/ UNCHANGED vars
       PROVE  Rated'
  <2>1. UNCHANGED <<sent, recent, fresh, sched, cur, room, work, snap, pc, status>>
    BY <1>18 DEF SetUserStatus, AdjustCredits, ToggleQueue, SecondPasses, vars, rowVars,
       submitVars, schedVars, timeVars
  <2> QED BY <1>2, <1>3, <2>1
<1> QED
  BY <1>7, <1>8, <1>9, <1>10, <1>11, <1>12, <1>13, <1>14, <1>15, <1>16, <1>17, <1>18 DEF Next

LEMMA InitRated ==
  ASSUME Init
  PROVE  Rated
<1>1. \A m : Started(m) = 0
  <2>1. \A m : {t \in recent : ModelOf[t] = m} = {}
    BY DEF Init
  <2> QED BY <2>1, FS_EmptySet DEF Started
<1>2. \A m \in Models : sent[m] = 0 /\ Limit[m] \in Nat
  BY SettingAssumption DEF Init
<1> QED BY <1>1, <1>2 DEF Init, Rated, MinuteLimitSlack, Stale, Locking, Listing

(* With one process at a time a model is launched in a clock minute at most  *)
(* once more often than its limit says: what is counted in                 *)
(* canDispatchModel and dispatchQueuedTasks is the started_at of the rows,  *)
(* which is taken before the row is saved, and the minute may turn between. *)
THEOREM MinuteLimitHolds ==
  ASSUME Instances <= 1
  PROVE  Spec => []MinuteLimitSlack
<1>1. Init => Rated
  BY InitRated
<1>2. /\ TypeOK /\ Accounts /\ Alone /\ Lines /\ Rated /\ [Next]_vars
      /\ TypeOK' /\ Alone' /\ Lines'
      => Rated'
  BY RatedStep
<1>3. Rated => MinuteLimitSlack
  BY DEF Rated
<1> QED BY <1>1, <1>2, <1>3, AloneInvariance, PTL DEF Spec
-----------------------------------------------------------------------------
(* The mutex, for any number of processes *)

(* queueMu is nobody's business but its holder's: it is locked in a process  *)
(* exactly while one submission of that process stands between its count   *)
(* and its row, or its scheduler is in a round, or a cancellation is under *)
(* way; and what is locked, in flight or at work is so in a live process.  *)
HeldLocks ==
  /\ \A w \in Workers : lock[w] # "free" \/ sched[w] # "off" => proc[w] = "up"
  /\ \A t \in Tasks : pc[t] \in InFlight => host[t] \in Workers /\ proc[host[t]] = "up"
  /\ \A w \in Workers :
       lock[w] = "submit" <=> \E t \in Tasks : pc[t] \in Locking /\ host[t] = w
  /\ \A t, u \in Tasks :
       pc[t] \in Locking /\ pc[u] \in Locking /\ host[t] = host[u] => t = u
  /\ \A w \in Workers : lock[w] = "dispatch" <=> sched[w] \in Dispatching

(* A step that keeps the locks, and who stands inside of them. *)
LEMMA LocksKept ==
  ASSUME HeldLocks, UNCHANGED <<lock, proc, host>>,
         \A t \in Tasks : pc'[t] \in InFlight => pc[t] \in InFlight,
         \A t \in Tasks : pc'[t] \in Locking <=> pc[t] \in Locking,
         \A w \in Workers : sched'[w] # "off" => proc[w] = "up",
         \A w \in Workers : sched'[w] \in Dispatching <=> sched[w] \in Dispatching
  PROVE  HeldLocks'
<1>1. \A w \in Workers : lock'[w] # "free" \/ sched'[w] # "off" => proc'[w] = "up"
  BY DEF HeldLocks
<1>2. \A t \in Tasks : pc'[t] \in InFlight => host'[t] \in Workers /\ proc'[host'[t]] = "up"
  BY DEF HeldLocks
<1>3. \A w \in Workers :
        lock'[w] = "submit" <=> \E t \in Tasks : pc'[t] \in Locking /\ host'[t] = w
  BY DEF HeldLocks
<1>4. \A t, u \in Tasks :
        pc'[t] \in Locking /\ pc'[u] \in Locking /\ host'[t] = host'[u] => t = u
  BY DEF HeldLocks
<1>5. \A w \in Workers : lock'[w] = "dispatch" <=> sched'[w] \in Dispatching
  BY DEF HeldLocks
<1> QED BY <1>1, <1>2, <1>3, <1>4, <1>5 DEF HeldLocks

(* The lock of one process changes hands between others than submissions. *)
LEMMA LockPasses ==
  ASSUME HeldLocks, TypeOK, NEW w \in Workers, NEW l, lock' = [lock EXCEPT ![w] = l],
         lock[w] # "submit", l # "submit", proc[w] = "up", UNCHANGED <<proc, pc, host>>,
         \A v \in Workers : v # w => sched'[v] = sched[v],
         l = "dispatch" <=> sched'[w] \in Dispatching
  PROVE  HeldLocks'
<1>0. \A v \in Workers : lock'[v] = IF v = w THEN l ELSE lock[v]
  BY DEF TypeOK
<1>1. \A v \in Workers : lock'[v] # "free" \/ sched'[v] # "off" => proc'[v] = "up"
  BY <1>0 DEF HeldLocks
<1>2. \A t \in Tasks : pc'[t] \in InFlight => host'[t] \in Workers /\ proc'[host'[t]] = "up"
  BY DEF HeldLocks
<1>3. \A v \in Workers :
        lock'[v] = "submit" <=> \E t \in Tasks : pc'[t] \in Locking /\ host'[t] = v
  BY <1>0 DEF HeldLocks
<1>4. \A t, u \in Tasks :
        pc'[t] \in Locking /\ pc'[u] \in Locking /\ host'[t] = host'[u] => t = u
  BY DEF HeldLocks
<1>5. \A v \in Workers : lock'[v] = "dispatch" <=> sched'[v] \in Dispatching
  BY <1>0 DEF HeldLocks
<1> QED BY <1>1, <1>2, <1>3, <1>4, <1>5 DEF HeldLocks

(* The submission inside of the lock leaves it. *)
LEMMA LockLeft ==
  ASSUME HeldLocks, TypeOK, NEW t \in Tasks, pc[t] \in Locking,
         lock' = [lock EXCEPT ![host[t]] = "free"],
         pc' \in {[pc EXCEPT ![t] = "accepted"], [pc EXCEPT ![t] = "refund"]},
         UNCHANGED <<proc, host, sched>>
  PROVE  HeldLocks'
<1>0. PICK w \in Workers : w = host[t]
  BY DEF HeldLocks, Locking, InFlight
<1>1. \A v \in Workers : lock'[v] = IF v = w THEN "free" ELSE lock[v]
  BY <1>0 DEF TypeOK
<1>2. \A u \in Tasks : u # t => pc'[u] = pc[u]
  BY DEF TypeOK
<1>3. pc'[t] \notin Locking /\ pc[t] \in InFlight /\ lock[w] = "submit"
  BY <1>0 DEF TypeOK, Locking, InFlight, HeldLocks
<1>4. \A v \in Workers : lock'[v] # "free" \/ sched'[v] # "off" => proc'[v] = "up"
  BY <1>1 DEF HeldLocks
<1>5. \A u \in Tasks : pc'[u] \in InFlight => host'[u] \in Workers /\ proc'[host'[u]] = "up"
  BY <1>2, <1>3 DEF HeldLocks
<1>6. ASSUME NEW v \in Workers
      PROVE  lock'[v] = "submit" <=> \E u \in Tasks : pc'[u] \in Locking /\ host'[u] = v
  <2>1. CASE v = w
    <3>1. \A u \in Tasks : ~(pc'[u] \in Locking /\ host'[u] = v)
      BY <1>0, <1>2, <1>3, <2>1 DEF HeldLocks
    <3> QED BY <1>1, <2>1, <3>1
  <2>2. CASE v # w
    <3>1. \A u \in Tasks : host[u] = v => (pc'[u] \in Locking <=> pc[u] \in Locking)
      BY <1>0, <1>2, <2>2
    <3>2. lock'[v] = lock[v]
      BY <1>1, <2>2
    <3> QED BY <3>1, <3>2 DEF HeldLocks
  <2> QED BY <2>1, <2>2
<1>7. \A u, v \in Tasks :
        pc'[u] \in Locking /\ pc'[v] \in Locking /\ host'[u] = host'[v] => u = v
  BY <1>2, <1>3 DEF HeldLocks
<1>8. \A v \in Workers : lock'[v] = "dispatch" <=> sched'[v] \in Dispatching
  BY <1>1, <1>3 DEF HeldLocks
<1> QED BY <1>4, <1>5, <1>6, <1>7, <1>8 DEF HeldLocks

(* A submission takes the lock: it was free, so nobody of its process was   *)
(* inside.                                                                  *)
LEMMA LockTaken ==
  ASSUME HeldLocks, TypeOK, NEW t \in Tasks, SubmitLock(t)
  PROVE  HeldLocks'
<1>1. /\ pc[t] = "stored" /\ proc[host[t]] = "up" /\ lock[host[t]] = "free"
      /\ pc' = [pc EXCEPT ![t] = "locked"] /\ lock' = [lock EXCEPT ![host[t]] = "submit"]
      /\ UNCHANGED <<proc, host, sched>>
  BY DEF SubmitLock, Serving, LockFree, schedVars
<1>2. PICK w \in Workers : w = host[t]
  BY <1>1 DEF HeldLocks, InFlight
<1>3. \A v \in Workers : lock'[v] = IF v = w THEN "submit" ELSE lock[v]
  BY <1>1, <1>2 DEF TypeOK
<1>4. \A u \in Tasks : pc'[u] = IF u = t THEN "locked" ELSE pc[u]
  BY <1>1 DEF TypeOK
<1>5. \A u \in Tasks : host[u] = w => pc[u] \notin Locking
  BY <1>1, <1>2 DEF HeldLocks
<1>6. "locked" \in Locking
  BY DEF Locking
<1>7. \A v \in Workers : lock'[v] # "free" \/ sched'[v] # "off" => proc'[v] = "up"
  BY <1>1, <1>2, <1>3 DEF HeldLocks
<1>8. \A u \in Tasks : pc'[u] \in InFlight => host'[u] \in Workers /\ proc'[host'[u]] = "up"
  BY <1>1, <1>2, <1>4 DEF HeldLocks
<1>9. ASSUME NEW v \in Workers
      PROVE  lock'[v] = "submit" <=> \E u \in Tasks : pc'[u] \in Locking /\ host'[u] = v
  <2>1. CASE v = w
    BY <1>1, <1>2, <1>3, <1>4, <1>6, <2>1
  <2>2. CASE v # w
    <3>1. \A u \in Tasks : host[u] = v => pc'[u] = pc[u]
      BY <1>2, <1>4, <2>2
    <3>2. lock'[v] = lock[v]
      BY <1>3, <2>2
    <3> QED BY <1>1, <3>1, <3>2 DEF HeldLocks
  <2> QED BY <2>1, <2>2
<1>10. \A u, v \in Tasks :
         pc'[u] \in Locking /\ pc'[v] \in Locking /\ host'[u] = host'[v] => u = v
  BY <1>1, <1>2, <1>4, <1>5 DEF HeldLocks
<1>11. \A v \in Workers : lock'[v] = "dispatch" <=> sched'[v] \in Dispatching
  BY <1>1, <1>2, <1>3 DEF HeldLocks
<1> QED BY <1>7, <1>8, <1>9, <1>10, <1>11 DEF HeldLocks

(* A process dies with its lock, its round and its calls. *)
LEMMA LocksDie ==
  ASSUME HeldLocks, TypeOK, NEW w \in Workers, Crash(w)
  PROVE  HeldLocks'
<1>1. \A v \in Workers :
        /\ proc'[v] = IF v = w THEN "down" ELSE proc[v]
        /\ lock'[v] = IF v = w THEN "free" ELSE lock[v]
        /\ sched'[v] = IF v = w THEN "off" ELSE sched[v]
  BY DEF Crash, TypeOK
<1>2. \A t \in Tasks : /\ pc'[t] \in InFlight => pc[t] \in InFlight /\ host[t] # w
                       /\ host[t] # w => pc'[t] = pc[t]
  BY DEF Crash, InFlight
<1>3. UNCHANGED host /\ \A p \in Locking : p \in InFlight
  BY DEF Crash, Locking, InFlight
<1>4. \A v \in Workers : lock'[v] # "free" \/ sched'[v] # "off" => proc'[v] = "up"
  BY <1>1 DEF HeldLocks
<1>5. \A t \in Tasks : pc'[t] \in InFlight => host'[t] \in Workers /\ proc'[host'[t]] = "up"
  BY <1>1, <1>2, <1>3 DEF HeldLocks
<1>6. ASSUME NEW v \in Workers
      PROVE  lock'[v] = "submit" <=> \E t \in Tasks : pc'[t] \in Locking /\ host'[t] = v
  <2>1. CASE v = w
    BY <1>1, <1>2, <1>3, <2>1
  <2>2. CASE v # w
    <3>1. \A t \in Tasks : host[t] = v => pc'[t] = pc[t]
      BY <1>2, <2>2
    <3>2. lock'[v] = lock[v]
      BY <1>1, <2>2
    <3> QED BY <1>3, <3>1, <3>2 DEF HeldLocks
  <2> QED BY <2>1, <2>2
<1>7. \A t, u \in Tasks :
        pc'[t] \in Locking /\ pc'[u] \in Locking /\ host'[t] = host'[u] => t = u
  BY <1>2, <1>3 DEF HeldLocks
<1>8. \A v \in Workers : lock'[v] = "dispatch" <=> sched'[v] \in Dispatching
  BY <1>1 DEF HeldLocks, Dispatching
<1> QED BY <1>4, <1>5, <1>6, <1>7, <1>8 DEF HeldLocks

(* A call begins in a process that is up; it holds no lock yet. *)
LEMMA CallBegins ==
  ASSUME HeldLocks, TypeOK, NEW w \in Workers, NEW t \in Tasks, SubmitCharge(w, t)
  PROVE  HeldLocks'
<1>1. /\ pc[t] = "idle" /\ proc[w] = "up" /\ UNCHANGED <<lock, proc, sched>>
      /\ \A u \in Tasks : /\ pc'[u] = IF u = t THEN "charged" ELSE pc[u]
                          /\ host'[u] = IF u = t THEN w ELSE host[u]
  BY DEF SubmitCharge, TypeOK, procVars, schedVars
<1>2. pc[t] \notin Locking /\ pc'[t] \notin Locking
  BY <1>1 DEF Locking
<1>3. \A v \in Workers : lock'[v] # "free" \/ sched'[v] # "off" => proc'[v] = "up"
  BY <1>1 DEF HeldLocks
<1>4. \A u \in Tasks : pc'[u] \in InFlight => host'[u] \in Workers /\ proc'[host'[u]] = "up"
  BY <1>1 DEF HeldLocks
<1>5. \A u \in Tasks : /\ pc'[u] \in Locking <=> pc[u] \in Locking
                       /\ pc[u] \in Locking => host'[u] = host[u]
  BY <1>1, <1>2
<1>6. \A v \in Workers :
        lock'[v] = "submit" <=> \E u \in Tasks : pc'[u] \in Locking /\ host'[u] = v
  BY <1>1, <1>5 DEF HeldLocks
<1>7. \A u, v \in Tasks :
        pc'[u] \in Locking /\ pc'[v] \in Locking /\ host'[u] = host'[v] => u = v
  BY <1>5 DEF HeldLocks
<1>8. \A v \in Workers : lock'[v] = "dispatch" <=> sched'[v] \in Dispatching
  BY <1>1 DEF HeldLocks
<1> QED BY <1>3, <1>4, <1>6, <1>7, <1>8 DEF HeldLocks

(* A process comes up with a free lock and no call. *)
LEMMA LocksStart ==
  ASSUME HeldLocks, TypeOK, NEW w \in Workers, Start(w)
  PROVE  HeldLocks'
<1>1. /\ proc[w] = "new" /\ UNCHANGED <<lock, pc, host>>
      /\ \A v \in Workers : /\ proc'[v] = IF v = w THEN "up" ELSE proc[v]
                            /\ sched'[v] = IF v = w THEN "boot" ELSE sched[v]
  BY DEF Start, TypeOK, submitVars
<1>2. lock[w] = "free" /\ sched[w] = "off"
  BY <1>1 DEF HeldLocks
<1>3. \A v \in Workers : lock'[v] # "free" \/ sched'[v] # "off" => proc'[v] = "up"
  BY <1>1 DEF HeldLocks
<1>4. \A t \in Tasks : pc'[t] \in InFlight => host'[t] \in Workers /\ proc'[host'[t]] = "up"
  BY <1>1 DEF HeldLocks
<1>5. \A v \in Workers :
        lock'[v] = "submit" <=> \E t \in Tasks : pc'[t] \in Locking /\ host'[t] = v
  BY <1>1 DEF HeldLocks
<1>6. \A t, u \in Tasks :
        pc'[t] \in Locking /\ pc'[u] \in Locking /\ host'[t] = host'[u] => t = u
  BY <1>1 DEF HeldLocks
<1>7. \A v \in Workers : lock'[v] = "dispatch" <=> sched'[v] \in Dispatching
  BY <1>1, <1>2 DEF HeldLocks, Dispatching
<1> QED BY <1>3, <1>4, <1>5, <1>6, <1>7 DEF HeldLocks

LEMMA HeldStep ==
  ASSUME TypeOK, HeldLocks, [Next]_vars
  PROVE  HeldLocks'
<1>1. ASSUME UNCHANGED <<lock, proc, host, pc>>, NEW w \in Workers, proc[w] = "up",
             \A v \in Workers : v # w => sched'[v] = sched[v],
             sched'[w] \in Dispatching <=> sched[w] \in Dispatching
      PROVE  HeldLocks'
  <2>1. \A v \in Workers : sched'[v] # "off" => proc[v] = "up"
    BY <1>1 DEF HeldLocks
  <2> QED BY <1>1, <2>1, LocksKept
<1>2. ASSUME UNCHANGED <<lock, proc, host, pc, sched>> PROVE HeldLocks'
  BY <1>2 DEF HeldLocks
<1>3. ASSUME NEW t \in Tasks, UNCHANGED <<lock, proc, host, sched>>,
             NEW p, pc' = [pc EXCEPT ![t] = p],
             p \in InFlight => pc[t] \in InFlight,
             p \in Locking <=> pc[t] \in Locking
      PROVE  HeldLocks'
  <2>1. \A u \in Tasks : pc'[u] = IF u = t THEN p ELSE pc[u]
    BY <1>3 DEF TypeOK
  <2>2. \A u \in Tasks : /\ pc'[u] \in InFlight => pc[u] \in InFlight
                         /\ pc'[u] \in Locking <=> pc[u] \in Locking
    BY <1>3, <2>1
  <2>3. \A v \in Workers : sched'[v] # "off" => proc[v] = "up"
    BY <1>3 DEF HeldLocks
  <2> QED BY <1>3, <2>2, <2>3, LocksKept
<1>4. ASSUME NEW t \in Tasks, SubmitStep(t) PROVE HeldLocks'
  <2>1. CASE SubmitLock(t)
    BY <2>1, LockTaken
  <2>2. CASE SubmitLaunch(t) \/ SubmitEnqueue(t) \/ SubmitError(t)
    <3>1. /\ pc[t] \in Locking /\ lock' = [lock EXCEPT ![host[t]] = "free"]
          /\ pc' \in {[pc EXCEPT ![t] = "accepted"], [pc EXCEPT ![t] = "refund"]}
          /\ UNCHANGED <<proc, host, sched>>
      BY <2>2 DEF SubmitLaunch, SubmitEnqueue, SubmitError, Locking, schedVars
    <3> QED BY <3>1, LockLeft
  <2>3. CASE SubmitDecide(t) \/ SubmitCount(t)
    <3>1. /\ pc[t] \in Locking /\ UNCHANGED <<lock, proc, host, sched>>
          /\ \E p \in Locking : pc' = [pc EXCEPT ![t] = p]
      BY <2>3 DEF SubmitDecide, SubmitCount, Locking, procVars, schedVars
    <3>2. \A p \in Locking : p \in InFlight
      BY DEF Locking, InFlight
    <3> QED BY <1>3, <3>1, <3>2
  <2>4. CASE \/ SubmitStore(t) \/ SubmitQueueFull(t) \/ SubmitRefund(t)
             \/ SubmitRefundFails(t) \/ SubmitDrop(t)
    <3>1. /\ pc[t] \in InFlight \ Locking /\ UNCHANGED <<lock, proc, host, sched>>
          /\ \E p \in {"stored", "refund", "drop", "rejected", "dropUnrefunded",
                       "unrefunded"} : pc' = [pc EXCEPT ![t] = p]
      BY <2>4 DEF SubmitStore, SubmitQueueFull, SubmitRefund, SubmitRefundFails, SubmitDrop,
                  InFlight, Locking, procVars, schedVars
    <3>2. \A p \in {"stored", "refund", "drop", "rejected", "dropUnrefunded", "unrefunded"} :
            p \notin Locking
      BY DEF Locking
    <3> QED BY <1>3, <3>1, <3>2
  <2> QED BY <1>4, <2>1, <2>2, <2>3, <2>4 DEF SubmitStep
<1>5. ASSUME NEW t \in Tasks, ExecStep(t) \/ PayloadExpires(t) PROVE HeldLocks'
  BY <1>2, <1>5 DEF ExecStep, ExecRead, ExecCall, ExecFinish, ExecFail, PayloadExpires,
                    submitVars, procVars, schedVars
<1>6. ASSUME NEW w \in Workers, NEW t \in Tasks, SubmitRefused(w, t) PROVE HeldLocks'
  <2>1. pc[t] = "idle" /\ pc' = [pc EXCEPT ![t] = "refused"]
    BY <1>6 DEF SubmitRefused
  <2>2. UNCHANGED <<lock, proc, host, sched>>
    BY <1>6 DEF SubmitRefused, procVars, schedVars
  <2> QED BY <1>3, <2>1, <2>2 DEF Locking, InFlight
<1>7. ASSUME NEW w \in Workers, NEW t \in Tasks, CancelBegin(w, t) PROVE HeldLocks'
  <2>1. /\ lock' = [lock EXCEPT ![w] = "cancel"] /\ lock[w] = "free" /\ proc[w] = "up"
        /\ UNCHANGED <<proc, pc, host, sched>>
    BY <1>7 DEF CancelBegin, LockFree, submitVars, schedVars
  <2>2. sched[w] \notin Dispatching
    BY <2>1 DEF HeldLocks
  <2> QED BY <2>1, <2>2, LockPasses
<1>8. ASSUME NEW w \in Workers, CancelStep(w) PROVE HeldLocks'
  <2>1. /\ lock[w] \in {"cancel", "canceled"} /\ UNCHANGED <<proc, pc, host, sched>>
        /\ \E l \in {"canceled", "free"} : lock' = [lock EXCEPT ![w] = l]
    BY <1>8 DEF CancelStep, CancelFinish, CancelFails, CancelRecalculate, submitVars, schedVars
  <2>2. proc[w] = "up" /\ sched[w] \notin Dispatching
    BY <2>1 DEF HeldLocks
  <2> QED BY <2>1, <2>2, LockPasses
<1>9. ASSUME NEW w \in Workers, DispatchBegin(w) PROVE HeldLocks'
  <2>1. /\ lock' = [lock EXCEPT ![w] = "dispatch"] /\ lock[w] = "free" /\ proc[w] = "up"
        /\ sched' = [sched EXCEPT ![w] = "models"] /\ UNCHANGED <<proc, pc, host>>
    BY <1>9 DEF DispatchBegin, LockFree, submitVars
  <2>2. \A v \in Workers : sched'[v] = IF v = w THEN "models" ELSE sched[v]
    BY <2>1 DEF TypeOK
  <2>3. "models" \in Dispatching
    BY DEF Dispatching
  <2> QED BY <2>1, <2>2, <2>3, LockPasses
<1>10. ASSUME NEW w \in Workers, DispatchStep(w) PROVE HeldLocks'
  <2>1. CASE DispatchEnd(w) \/ DispatchError(w)
    <3>1. /\ sched[w] \in Dispatching /\ lock' = [lock EXCEPT ![w] = "free"]
          /\ sched' = [sched EXCEPT ![w] = "idle"] /\ UNCHANGED <<proc, pc, host>>
      BY <2>1 DEF DispatchEnd, DispatchError, DispatchStop, Dispatching
    <3>2. lock[w] = "dispatch" /\ proc[w] = "up"
      BY <3>1 DEF HeldLocks
    <3>3. \A v \in Workers : sched'[v] = IF v = w THEN "idle" ELSE sched[v]
      BY <3>1 DEF TypeOK
    <3>4. "idle" \notin Dispatching
      BY DEF Dispatching
    <3> QED BY <3>1, <3>2, <3>3, <3>4, LockPasses
  <2>2. CASE ~(DispatchEnd(w) \/ DispatchError(w))
    <3>1. ASSUME NEW m \in Models, DispatchModel(w, m)
          PROVE  /\ sched[w] = "models" /\ sched' \in {sched, [sched EXCEPT ![w] = "list"]}
                 /\ UNCHANGED <<lock, proc, pc, host>>
      BY <3>1 DEF DispatchModel, submitVars, procVars
    <3>2. \/ \E m \in Models : DispatchModel(w, m)
          \/ /\ sched[w] \in Dispatching /\ UNCHANGED <<lock, proc, pc, host>>
             /\ \E s \in Dispatching : sched' = [sched EXCEPT ![w] = s]
      BY <1>10, <2>2 DEF DispatchStep, DispatchList, DispatchStamp, DispatchMark,
                         DispatchRecalculate, Dispatching, submitVars, procVars
    <3>3. sched[w] \in Dispatching /\ UNCHANGED <<lock, proc, pc, host>>
      BY <3>1, <3>2 DEF Dispatching
    <3>4. \A v \in Workers : v # w => sched'[v] = sched[v]
      BY <3>1, <3>2 DEF TypeOK
    <3>5. sched'[w] \in Dispatching
      BY <3>1, <3>2 DEF TypeOK, Dispatching
    <3>6. proc[w] = "up"
      BY <3>3 DEF HeldLocks, Dispatching
    <3> QED BY <1>1, <3>3, <3>4, <3>5, <3>6
  <2> QED BY <2>1, <2>2
<1>11. ASSUME NEW w \in Workers, NEW S \in SUBSET Tasks,
              RecoverList(w, S) \/ RecoverStep(w) \/ PurgeStep(w)
       PROVE  HeldLocks'
  <2>1. /\ sched[w] \in {"boot", "idle", "recover", "purge"}
        /\ UNCHANGED <<lock, proc, pc, host>>
    BY <1>11 DEF RecoverList, RecoverStep, RecoverTask, RecoverFails, Recovered, PurgeStep,
                 PurgeRow, PurgeRowFails, PurgeEnd, submitVars, procVars
  <2>2. \E s \in {"idle", "recover"} : sched' = [sched EXCEPT ![w] = s]
    <3>1. CASE RecoverList(w, S) \/ PurgeStep(w)
      BY <3>1 DEF RecoverList, PurgeStep, PurgeRow, PurgeRowFails, PurgeEnd
    <3>2. ASSUME NEW t \in Tasks, Recovered(w, t) PROVE <2>2
      BY <3>2 DEF Recovered
    <3> QED BY <1>11, <3>1, <3>2 DEF RecoverStep, RecoverTask, RecoverFails
  <2>3. proc[w] = "up"
    BY <2>1 DEF HeldLocks
  <2>4. \A v \in Workers : v # w => sched'[v] = sched[v]
    BY <2>2 DEF TypeOK
  <2>5. sched'[w] \notin Dispatching /\ sched[w] \notin Dispatching
    BY <2>1, <2>2 DEF TypeOK, Dispatching
  <2> QED BY <1>1, <2>1, <2>3, <2>4, <2>5
<1>12. ASSUME NEW w \in Workers, NEW t \in Tasks, PurgeFiles(w, t) \/ PurgeFails(w, t)
       PROVE  HeldLocks'
  <2>1. /\ proc[w] = "up" /\ sched[w] = "idle" /\ UNCHANGED <<lock, proc, pc, host>>
        /\ sched' \in {sched, [sched EXCEPT ![w] = "purge"]}
    BY <1>12 DEF PurgeFiles, PurgeFails, submitVars, procVars, schedVars
  <2>2. \A v \in Workers : v # w => sched'[v] = sched[v]
    BY <2>1 DEF TypeOK
  <2>3. sched'[w] \notin Dispatching /\ sched[w] \notin Dispatching
    BY <2>1 DEF TypeOK, Dispatching
  <2> QED BY <1>1, <2>1, <2>2, <2>3
<1>13. ASSUME \/ \E u \in Users : SetUserStatus(u) \/ \E c \in AdminCredits : AdjustCredits(u, c)
              \/ ToggleQueue \/ SecondPasses \/ MinutePasses \/ UNCHANGED vars
       PROVE  HeldLocks'
  BY <1>2, <1>13 DEF SetUserStatus, AdjustCredits, ToggleQueue, SecondPasses, MinutePasses,
                     vars, submitVars, procVars, schedVars
<1> QED
  BY <1>4, <1>5, <1>6, <1>7, <1>8, <1>9, <1>10, <1>11, <1>12, <1>13,
     CallBegins, LocksStart, LocksDie DEF Next

(* queueMu is locked exactly while a submission, a cancellation or a round   *)
(* of the scheduler of a live process is inside: no path of SubmitAITask,  *)
(* CancelGenerationTask or dispatchQueuedTasks leaves it locked, none      *)
(* works without it, and two submissions of a process never count and save *)
(* at the same time, however many processes share the database.            *)
THEOREM LocksAreHeld == Spec => []HeldLocks
<1>1. Init => HeldLocks
  BY DEF Init, HeldLocks, Locking, InFlight, Dispatching
<1>2. TypeOK /\ HeldLocks /\ [Next]_vars => HeldLocks'
  BY HeldStep
<1> QED BY <1>1, <1>2, Invariance, PTL DEF Spec

-----------------------------------------------------------------------------
(* Nothing is done twice: every register of a submission only advances *)

(* How far the call, the row and the goroutine of a submission are. *)
Submitted(p) ==
  CASE p = "idle" -> 0 [] p = "charged" -> 1 [] p = "stored" -> 2
    [] p = "locked" -> 3 [] p \in {"launch", "count"} -> 4 [] p = "enqueue" -> 5
    [] p = "refund" -> 6 [] p \in {"drop", "dropUnrefunded"} -> 7 [] OTHER -> 8
Lived(s) ==
  CASE s = "absent" -> 0 [] s = "queued" -> 1 [] s = "executing" -> 2
    [] s \in Terminal -> 3 [] OTHER -> 4
Executed(e) ==
  CASE e = "none" -> 0 [] e = "reading" -> 1 [] e = "calling" -> 2
    [] e = "finishing" -> 3 [] e = "failing" -> 4 [] OTHER -> 5

(* The registers of t stay or get further. *)
Advances(t) ==
  /\ pc'[t] # pc[t] => Submitted(pc[t]) < Submitted(pc'[t])
  /\ status'[t] # status[t] => Lived(status[t]) < Lived(status'[t])
  /\ exec'[t] # exec[t] => Executed(exec[t]) < Executed(exec'[t])

(* No retry, recovery, cancellation or restart takes a submission back to   *)
(* where it was: its call, its row and its goroutine only move forward.    *)
TasksAdvance == [][\A t \in Tasks : Advances(t)]_vars

(* The three registers of t stay or move ahead, to p, s and e. *)
Moves(t, p, s, e) ==
  /\ \/ UNCHANGED pc
     \/ pc' = [pc EXCEPT ![t] = p] /\ Submitted(pc[t]) < Submitted(p)
  /\ \/ UNCHANGED status
     \/ status' = [status EXCEPT ![t] = s] /\ Lived(status[t]) < Lived(s)
  /\ \/ UNCHANGED exec
     \/ exec' = [exec EXCEPT ![t] = e] /\ Executed(exec[t]) < Executed(e)

LEMMA OneAdvances ==
  ASSUME TypeOK, NEW t \in Tasks, NEW p, NEW s, NEW e, Moves(t, p, s, e)
  PROVE  \A u \in Tasks : Advances(u)
<1>1. ASSUME NEW u \in Tasks, u # t PROVE Advances(u)
  <2>1. pc'[u] = pc[u] /\ status'[u] = status[u] /\ exec'[u] = exec[u]
    BY <1>1 DEF TypeOK, Moves
  <2> QED BY <2>1 DEF Advances
<1>2. pc'[t] # pc[t] => Submitted(pc[t]) < Submitted(pc'[t])
  BY DEF TypeOK, Moves
<1>3. status'[t] # status[t] => Lived(status[t]) < Lived(status'[t])
  BY DEF TypeOK, Moves
<1>4. exec'[t] # exec[t] => Executed(exec[t]) < Executed(exec'[t])
  BY DEF TypeOK, Moves
<1> QED BY <1>1, <1>2, <1>3, <1>4 DEF Advances

LEMMA AdvanceStep ==
  ASSUME TypeOK, Accounts, [Next]_vars
  PROVE  \A t \in Tasks : Advances(t)
<1>0. \A t \in Tasks : /\ pc[t] # "accepted" => status[t] = "absent"
                       /\ status[t] \in {"absent", "queued"} => exec[t] = "none"
  BY DEF Accounts, Account
<1>1. ASSUME UNCHANGED <<pc, status, exec>> PROVE \A t \in Tasks : Advances(t)
  BY <1>1 DEF Advances
<1>2. ASSUME NEW t \in Tasks, NEW p, pc' = [pc EXCEPT ![t] = p],
             Submitted(pc[t]) < Submitted(p), UNCHANGED <<status, exec>>
      PROVE  \A u \in Tasks : Advances(u)
  <2>1. Moves(t, p, status[t], exec[t])
    BY <1>2 DEF Moves
  <2> QED BY <2>1, OneAdvances
<1>3. ASSUME NEW t \in Tasks, NEW e, exec' = [exec EXCEPT ![t] = e],
             Executed(exec[t]) < Executed(e),
             \/ UNCHANGED status
             \/ status[t] = "executing" /\ \E s \in Terminal : status' = [status EXCEPT ![t] = s],
             UNCHANGED pc
      PROVE  \A u \in Tasks : Advances(u)
  <2>1. \A s \in Terminal : Lived("executing") < Lived(s)
    BY DEF Lived, Terminal
  <2>2. \E s : Moves(t, pc[t], s, e)
    BY <1>3, <2>1 DEF Moves
  <2> QED BY <2>2, OneAdvances
<1>4. ASSUME NEW t \in Tasks, UNCHANGED <<pc, exec>>,
             \/ UNCHANGED status
             \/ /\ status[t] \in {"queued", "executing"}
                /\ \E s \in Terminal : status' = [status EXCEPT ![t] = s]
      PROVE  \A u \in Tasks : Advances(u)
  <2>1. \A s \in Terminal : Lived("executing") < Lived(s) /\ Lived("queued") < Lived(s)
    BY DEF Lived, Terminal
  <2>2. \E s : Moves(t, pc[t], s, exec[t])
    BY <1>4, <2>1 DEF Moves
  <2> QED BY <2>2, OneAdvances
<1>5. ASSUME NEW t \in Tasks, NEW w, FailTask(t, w)
      PROVE  \/ UNCHANGED status
             \/ status[t] = "executing" /\ \E s \in Terminal : status' = [status EXCEPT ![t] = s]
  BY <1>5 DEF FailTask, RowIs, Terminal
<1>6. ASSUME NEW t \in Tasks, SubmitStep(t) PROVE \A u \in Tasks : Advances(u)
  <2>1. CASE SubmitLaunch(t)
    <3>1. /\ pc[t] = "launch" /\ pc' = [pc EXCEPT ![t] = "accepted"]
          /\ status' = [status EXCEPT ![t] = "executing"] /\ exec' = [exec EXCEPT ![t] = "reading"]
      BY <2>1 DEF SubmitLaunch
    <3>2. status[t] = "absent" /\ exec[t] = "none"
      BY <1>0, <3>1
    <3>3. /\ Submitted(pc[t]) < Submitted("accepted") /\ Lived(status[t]) < Lived("executing")
          /\ Executed(exec[t]) < Executed("reading")
      BY <3>1, <3>2 DEF Submitted, Lived, Executed, Terminal
    <3>4. Moves(t, "accepted", "executing", "reading")
      BY <3>1, <3>3 DEF Moves
    <3> QED BY <3>4, OneAdvances
  <2>2. CASE SubmitEnqueue(t)
    <3>1. /\ pc[t] = "enqueue" /\ pc' = [pc EXCEPT ![t] = "accepted"]
          /\ status' = [status EXCEPT ![t] = "queued"] /\ UNCHANGED exec
      BY <2>2 DEF SubmitEnqueue
    <3>2. status[t] = "absent"
      BY <1>0, <3>1
    <3>3. Submitted(pc[t]) < Submitted("accepted") /\ Lived(status[t]) < Lived("queued")
      BY <3>1, <3>2 DEF Submitted, Lived, Terminal
    <3>4. Moves(t, "accepted", "queued", exec[t])
      BY <3>1, <3>3 DEF Moves
    <3> QED BY <3>4, OneAdvances
  <2>3. CASE ~(SubmitLaunch(t) \/ SubmitEnqueue(t))
    <3>1. UNCHANGED <<status, exec>>
      BY <1>6, <2>3 DEF SubmitStep, SubmitStore, SubmitLock, SubmitQueueFull, SubmitDecide,
                        SubmitCount, SubmitError, SubmitRefund, SubmitRefundFails, SubmitDrop,
                        rowVars
    <3>2. CASE SubmitStore(t) \/ SubmitLock(t) \/ SubmitQueueFull(t)
      <4>1. \/ pc[t] = "charged" /\ \E p \in {"stored", "refund"} : pc' = [pc EXCEPT ![t] = p]
            \/ pc[t] = "stored" /\ \E p \in {"locked", "refund"} : pc' = [pc EXCEPT ![t] = p]
        BY <3>2 DEF SubmitStore, SubmitLock, SubmitQueueFull
      <4>2. PICK p : pc' = [pc EXCEPT ![t] = p] /\ Submitted(pc[t]) < Submitted(p)
        BY <4>1 DEF Submitted
      <4> QED BY <1>2, <3>1, <4>2
    <3>3. CASE SubmitDecide(t) \/ SubmitCount(t) \/ SubmitError(t)
      <4>1. \/ pc[t] = "locked" /\ \E p \in {"launch", "count"} : pc' = [pc EXCEPT ![t] = p]
            \/ pc[t] = "count" /\ pc' = [pc EXCEPT ![t] = "enqueue"]
            \/ /\ pc[t] \in {"locked", "launch", "count", "enqueue"}
               /\ pc' = [pc EXCEPT ![t] = "refund"]
        BY <3>3 DEF SubmitDecide, SubmitCount, SubmitError
      <4>2. PICK p : pc' = [pc EXCEPT ![t] = p] /\ Submitted(pc[t]) < Submitted(p)
        BY <4>1 DEF Submitted
      <4> QED BY <1>2, <3>1, <4>2
    <3>4. CASE SubmitRefund(t) \/ SubmitRefundFails(t) \/ SubmitDrop(t)
      <4>1. \/ /\ pc[t] = "refund"
               /\ \E p \in {"drop", "rejected", "dropUnrefunded", "unrefunded"} :
                    pc' = [pc EXCEPT ![t] = p]
            \/ /\ pc[t] \in {"drop", "dropUnrefunded"}
               /\ \E p \in {"rejected", "unrefunded"} : pc' = [pc EXCEPT ![t] = p]
        BY <3>4 DEF SubmitRefund, SubmitRefundFails, SubmitDrop
      <4>2. PICK p : pc' = [pc EXCEPT ![t] = p] /\ Submitted(pc[t]) < Submitted(p)
        BY <4>1 DEF Submitted
      <4> QED BY <1>2, <3>1, <4>2
    <3> QED BY <1>6, <2>3, <3>2, <3>3, <3>4 DEF SubmitStep
  <2> QED BY <2>1, <2>2, <2>3
<1>7. ASSUME NEW t \in Tasks, ExecStep(t) PROVE \A u \in Tasks : Advances(u)
  <2>1. UNCHANGED pc
    BY <1>7 DEF ExecStep, ExecRead, ExecCall, ExecFinish, ExecFail, submitVars
  <2>2. \/ UNCHANGED status
        \/ status[t] = "executing" /\ \E s \in Terminal : status' = [status EXCEPT ![t] = s]
    <3>1. CASE ExecRead(t) \/ ExecCall(t)
      BY <3>1 DEF ExecRead, ExecCall, rowVars
    <3>2. CASE ExecFinish(t)
      BY <3>2 DEF ExecFinish, RowIs, Terminal
    <3>3. CASE ExecFail(t)
      BY <1>5, <3>3 DEF ExecFail
    <3> QED BY <1>7, <3>1, <3>2, <3>3 DEF ExecStep
  <2>3. \/ exec[t] = "reading" /\ \E e \in {"calling", "failing"} : exec' = [exec EXCEPT ![t] = e]
        \/ /\ exec[t] = "calling"
           /\ \E e \in {"finishing", "failing"} : exec' = [exec EXCEPT ![t] = e]
        \/ exec[t] = "finishing" /\ \E e \in {"done", "failing"} : exec' = [exec EXCEPT ![t] = e]
        \/ exec[t] = "failing" /\ exec' = [exec EXCEPT ![t] = "done"]
    BY <1>7 DEF ExecStep, ExecRead, ExecCall, ExecFinish, ExecFail
  <2>4. PICK e : exec' = [exec EXCEPT ![t] = e] /\ Executed(exec[t]) < Executed(e)
    BY <2>3 DEF Executed
  <2> QED BY <1>3, <2>1, <2>2, <2>4
<1>8. ASSUME NEW w \in Workers, NEW t \in Tasks, SubmitCharge(w, t) \/ SubmitRefused(w, t)
      PROVE  \A u \in Tasks : Advances(u)
  <2>1. /\ pc[t] = "idle" /\ UNCHANGED <<status, exec>>
        /\ \E p \in {"charged", "refused"} : pc' = [pc EXCEPT ![t] = p]
    BY <1>8 DEF SubmitCharge, SubmitRefused, rowVars
  <2>2. \A p \in {"charged", "refused"} : Submitted("idle") < Submitted(p)
    BY DEF Submitted
  <2> QED BY <1>2, <2>1, <2>2
<1>9. ASSUME NEW w \in Workers, CancelStep(w) PROVE \A u \in Tasks : Advances(u)
  <2>1. CASE CancelFinish(w)
    <3>1. PICK t \in Tasks : t = target[w]
      BY <2>1 DEF CancelFinish, Accounts
    <3> QED BY <1>4, <2>1, <3>1 DEF CancelFinish, RowIs, Terminal, submitVars
  <2>2. CASE CancelFails(w) \/ CancelRecalculate(w)
    BY <1>1, <2>2 DEF CancelFails, CancelRecalculate, rowVars, submitVars
  <2> QED BY <1>9, <2>1, <2>2 DEF CancelStep
<1>10. ASSUME NEW w \in Workers, NEW t \in Tasks, DispatchMark(w, t)
       PROVE  \A u \in Tasks : Advances(u)
  <2>1. CASE status[t] = "queued"
    <3>1. /\ status' = [status EXCEPT ![t] = "executing"] /\ exec' = [exec EXCEPT ![t] = "reading"]
          /\ UNCHANGED pc /\ exec[t] = "none"
      BY <1>0, <1>10, <2>1 DEF DispatchMark, StillQueued
    <3>2. Lived(status[t]) < Lived("executing") /\ Executed(exec[t]) < Executed("reading")
      BY <2>1, <3>1 DEF Lived, Executed, Terminal
    <3>3. Moves(t, pc[t], "executing", "reading")
      BY <3>1, <3>2 DEF Moves
    <3> QED BY <3>3, OneAdvances
  <2>2. CASE status[t] # "queued"
    BY <1>1, <1>10, <2>2 DEF DispatchMark, StillQueued
  <2> QED BY <2>1, <2>2
<1>11. ASSUME NEW w \in Workers, PurgeRow(w) PROVE \A u \in Tasks : Advances(u)
  <2>1. /\ UNCHANGED <<pc, exec>> /\ sched[w] = "purge"
        /\ \A t \in Tasks : status'[t] = IF t \in work[w] THEN "purged" ELSE status[t]
    BY <1>11 DEF PurgeRow, PurgeEnd, submitVars
  <2>2. \A t \in work[w] : status[t] \in Terminal \cup {"purged"}
    BY <2>1 DEF Accounts
  <2>3. ASSUME NEW t \in Tasks, status'[t] # status[t] PROVE Lived(status[t]) < Lived(status'[t])
    <3>1. status[t] \in Terminal /\ status'[t] = "purged"
      BY <2>1, <2>2, <2>3
    <3> QED BY <3>1 DEF Lived, Terminal
  <2> QED BY <2>1, <2>3 DEF Advances
<1>12. ASSUME NEW w \in Workers, Crash(w) PROVE \A u \in Tasks : Advances(u)
  <2>1. /\ UNCHANGED status
        /\ \A t \in Tasks :
             /\ pc'[t] = IF host[t] = w /\ pc[t] \in InFlight THEN "crashed" ELSE pc[t]
             /\ exec'[t] = IF worker[t] = w /\ exec[t] \in Running THEN "done" ELSE exec[t]
    BY <1>12 DEF Crash, rowVars
  <2>2. \A p \in InFlight : Submitted(p) < Submitted("crashed")
    BY DEF Submitted, InFlight
  <2>3. \A e \in Running : Executed(e) < Executed("done")
    BY DEF Executed, Running
  <2> QED BY <2>1, <2>2, <2>3 DEF Advances
<1>13. ASSUME NEW w \in Workers, RecoverStep(w) \/ PurgeRowFails(w)
       PROVE  \A u \in Tasks : Advances(u)
  <2>1. ASSUME NEW t \in Tasks, Recovered(w, t) PROVE UNCHANGED <<pc, exec>>
    BY <2>1 DEF Recovered, submitVars
  <2>2. ASSUME NEW t \in Tasks, RecoverTask(w, t) \/ RecoverFails(w, t)
        PROVE  \A u \in Tasks : Advances(u)
    BY <1>4, <1>5, <2>1, <2>2 DEF RecoverTask, RecoverFails
  <2>3. CASE PurgeRowFails(w)
    BY <1>1, <2>3 DEF PurgeRowFails, PurgeEnd, submitVars
  <2> QED BY <1>13, <2>2, <2>3 DEF RecoverStep
<1>14. ASSUME NEW w \in Workers, DispatchStep(w), ~\E t \in Tasks : DispatchMark(w, t)
       PROVE  \A u \in Tasks : Advances(u)
  <2>1. UNCHANGED <<pc, status, exec>>
    BY <1>14 DEF DispatchStep, DispatchModel, DispatchList, DispatchStamp, DispatchRecalculate,
                 DispatchEnd, DispatchError, DispatchStop, rowVars, submitVars
  <2> QED BY <1>1, <2>1
<1>15. ASSUME NEW w \in Workers, NEW t \in Tasks,
              CancelBegin(w, t) \/ PurgeFiles(w, t) \/ PurgeFails(w, t)
       PROVE  UNCHANGED <<pc, status, exec>>
  BY <1>15 DEF CancelBegin, PurgeFiles, PurgeFails, rowVars, submitVars
<1>16. ASSUME NEW w \in Workers,
              DispatchBegin(w) \/ (\E S \in SUBSET Tasks : RecoverList(w, S)) \/ Start(w)
       PROVE  UNCHANGED <<pc, status, exec>>
  BY <1>16 DEF DispatchBegin, RecoverList, Start, rowVars, submitVars
<1>17. ASSUME \/ \E t \in Tasks : PayloadExpires(t)
              \/ \E u \in Users : SetUserStatus(u) \/ \E c \in AdminCredits : AdjustCredits(u, c)
              \/ ToggleQueue \/ SecondPasses \/ MinutePasses \/ UNCHANGED vars
       PROVE  UNCHANGED <<pc, status, exec>>
  BY <1>17 DEF PayloadExpires, SetUserStatus, AdjustCredits, ToggleQueue, SecondPasses,
               MinutePasses, vars, rowVars, submitVars
<1> QED
  BY <1>1, <1>6, <1>7, <1>8, <1>9, <1>10, <1>11, <1>12, <1>13, <1>14, <1>15, <1>16, <1>17
  DEF Next, PurgeStep

(* A submission is charged, locked, launched and settled in one pass: no     *)
(* retry, lease, cancellation or restart moves its call, its row or its    *)
(* goroutine back, so that it takes a bounded number of steps, whatever     *)
(* the interleaving.  It is the measure behind ChargesClose: what remains  *)
(* for the fairness of the code is that a step is taken.                   *)
THEOREM SubmissionsAdvance == Spec => TasksAdvance
<1>1. TypeOK /\ Accounts /\ [Next]_vars => \A t \in Tasks : Advances(t)
  BY AdvanceStep
<1> QED BY <1>1, Invariance, PTL DEF Spec, TasksAdvance
=============================================================================
