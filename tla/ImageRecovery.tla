---------------------------- MODULE ImageRecovery ----------------------------
(***************************************************************************)
(* The image workbench of the web client, (user)/image/page.tsx, and the   *)
(* polling of services/api/image.ts: a batch of generations submitted to   *)
(* the queue, the record in the browser's storage by which they are found  *)
(* again, and the entry of the generation history written when all of the  *)
(* batch have ended.                                                       *)
(*                                                                         *)
(* generate and restoreGeneration are chains of promises.  A chain goes on *)
(* when the page is left inside the application and dies when the browser  *)
(* loads the page anew; what it shows goes to the mount it began in.  The  *)
(* slots of a chain run beside each other and change the record by reading *)
(* it, then writing it.                                                    *)
(***************************************************************************)
EXTENDS Naturals, FiniteSets, SequencesExt

CONSTANTS
  Count,          (* images of a batch                                      *)
  BatchBound,     (* bound: batches submitted                               *)
  MountBound,     (* bound: times the page is shown                         *)
  FailBound,      (* bound: requests that fail                              *)
  ChainBound,     (* bound: chains at work beside each other                *)
  None,           (* nothing: no task, no record, an empty slot             *)
  Pending, Failed (* what a slot shows of a task without an image           *)

ASSUME CountAssumption == Count \in Nat \ {0}
ASSUME BoundAssumption ==
  /\ BatchBound \in Nat /\ MountBound \in Nat
  /\ FailBound \in Nat /\ ChainBound \in Nat

Slots == 1..Count
(* The task submitted for a slot of a batch. *)
Tasks == (1..BatchBound) \X Slots

VARIABLES
  task,           (* the server's view of a task                            *)
  history,        (* entries saved: [tasks, images]                         *)
  record,         (* RECOVERY_KEY: the batch and taskIds as written, in order *)
  open, mount,    (* whether the page is shown, for the how manieth time    *)
  screen,         (* results: what each slot shows                          *)
  running, submitting, restoring,
  chains,
  batches, fails, (* counted for the bounds                                 *)
  (* history: the record lost something when it was written or removed; a   *)
  (* chain began beside another; a task of the record was not found; a task *)
  (* was given up with an error                                             *)
  noted, raced, beside, shifted, givenUp

pageVars == <<open, mount, running, submitting, restoring>>
ghostVars == <<noted, raced, beside, shifted, givenUp>>
vars == <<task, history, record, pageVars, screen, chains, batches, fails, ghostVars>>

(* The batch of a record, and the slots it names with their tasks. *)
Records == [batch : 1..BatchBound, ids : Seq([slot : Slots, task : Tasks])]

ASSUME NoneAssumption == None \notin Tasks /\ None \notin Records
ASSUME ShownAssumption ==
  {Pending, Failed} \cap Tasks = {} /\ None \notin {Pending, Failed} /\ Pending # Failed

(* A slot of a chain: how far it is, its task and what it last heard of it, *)
(* the record it read, the slot of the screen it shows itself in.          *)
Entries == [at : {"off", "post", "note", "write", "poll", "result", "done", "error"},
            task : Tasks \cup {None}, heard : {"active", "succeeded", "failed"},
            read : Records \cup {None}, place : Slots]
Off == [at |-> "off", task |-> None, heard |-> "active", read |-> None, place |-> 1]
Shown == {None, Pending, Failed} \cup Tasks
Chains == [kind : {"generate", "restore", "over"}, mount : 0..MountBound, batch : 0..BatchBound,
           at : {"record", "histories", "tasks", "slots", "saving", "saved", "over"},
           entry : [Slots -> Entries], pending : Seq([slot : Slots, task : Tasks]),
           ids : SUBSET Tasks]
Over == [kind |-> "over", mount |-> 0, at |-> "over", batch |-> 0,
         entry |-> [i \in Slots |-> Off], pending |-> <<>>, ids |-> {}]

Init ==
  /\ task = [t \in Tasks |-> "none"]
  /\ history = <<>> /\ record = None
  /\ open = FALSE /\ mount = 0
  /\ screen = [i \in Slots |-> None]
  /\ running = FALSE /\ submitting = FALSE /\ restoring = FALSE
  /\ chains = <<>> /\ batches = 0 /\ fails = 0
  /\ noted = {} /\ raced = FALSE /\ beside = FALSE /\ shifted = FALSE /\ givenUp = {}

Here(k) == open /\ chains[k].mount = mount
Of(k, i) == chains[k].entry[i].task
Working == {k \in DOMAIN chains : chains[k].kind # "over"}
(* setResults of a page that is gone changes nothing. *)
Show(k, i, v) ==
  screen' = IF Here(k) /\ screen[i] # None THEN [screen EXCEPT ![i] = v] ELSE screen
Put(k, i, e) == chains' = [chains EXCEPT ![k].entry[i] = e]
Step(k, i, at) == Put(k, i, [chains[k].entry[i] EXCEPT !.at = at])
Fail == fails < FailBound /\ fails' = fails + 1

-----------------------------------------------------------------------------
(* The server *)

TaskEnds(t, s) ==
  /\ task[t] = "active"
  /\ task' = [task EXCEPT ![t] = s]
  /\ UNCHANGED <<history, record, pageVars, screen, chains, batches, fails, ghostVars>>

-----------------------------------------------------------------------------
(* The page *)

(* generate: the record of the new batch takes the place of any other. *)
Generate ==
  /\ open /\ ~running /\ ~submitting
  /\ batches < BatchBound /\ Cardinality(Working) < ChainBound
  /\ batches' = batches + 1
  /\ running' = TRUE /\ submitting' = TRUE
  /\ screen' = [i \in Slots |-> Pending]
  /\ record' = [batch |-> batches', ids |-> <<>>]
  /\ raced' = (raced \/ record # None)
  /\ beside' = (beside \/ Working # {})
  /\ LET posted(i) == [Off EXCEPT !.at = "post", !.task = <<batches', i>>, !.place = i]
     IN chains' = Append(chains, [Over EXCEPT !.kind = "generate", !.mount = mount, !.at = "slots",
                                              !.batch = batches',
                                              !.entry = [i \in Slots |-> posted(i)]])
  /\ UNCHANGED <<task, history, open, mount, restoring, fails, noted, shifted, givenUp>>

(* Another page of the application: the chains go on. *)
Leave ==
  /\ open
  /\ open' = FALSE
  /\ screen' = [i \in Slots |-> None]
  /\ running' = FALSE /\ submitting' = FALSE /\ restoring' = FALSE
  /\ UNCHANGED <<task, history, record, mount, chains, batches, fails, ghostVars>>

(* The browser leaves the application or loads it anew. *)
Reload ==
  /\ open' = FALSE
  /\ screen' = [i \in Slots |-> None]
  /\ running' = FALSE /\ submitting' = FALSE /\ restoring' = FALSE
  /\ Working # {}
  /\ chains' = [k \in DOMAIN chains |-> Over]
  /\ UNCHANGED <<task, history, record, mount, batches, fails, ghostVars>>

(* The page is shown: once the user is known, restoreGeneration begins. *)
Open ==
  /\ ~open /\ mount < MountBound /\ Cardinality(Working) < ChainBound
  /\ open' = TRUE /\ mount' = mount + 1
  /\ restoring' = TRUE
  /\ beside' = (beside \/ Working # {})
  /\ chains' = Append(chains, [Over EXCEPT !.kind = "restore", !.mount = mount', !.at = "record"])
  /\ UNCHANGED <<task, history, record, screen, running, submitting, batches, fails, noted,
                 raced, shifted, givenUp>>

(* cancelQueuedResult, answered. *)
Cancel(k, i) ==
  /\ k \in Working /\ Here(k) /\ chains[k].entry[i].at \in {"note", "write", "poll"}
  /\ screen[chains[k].entry[i].place] = Pending
  /\ task[Of(k, i)] = "active"
  /\ task' = [task EXCEPT ![Of(k, i)] = "failed"]
  /\ Show(k, chains[k].entry[i].place, Failed)
  /\ UNCHANGED <<history, record, pageVars, chains, batches, fails, ghostVars>>

-----------------------------------------------------------------------------
(* A slot: runGenerationSlot and, in a restore, resumeGenerationTask *)

Running(k, i, at) == k \in Working /\ chains[k].at = "slots" /\ chains[k].entry[i].at = at

Submitted(k, i) ==
  /\ Running(k, i, "post")
  /\ task' = [task EXCEPT ![Of(k, i)] = "active"]
  /\ Step(k, i, "note")
  /\ UNCHANGED <<history, record, pageVars, screen, batches, fails, ghostVars>>

(* The update of the record over, by what the poll before it heard. *)
After(e) ==
  CASE e.heard = "active" -> "poll"
    [] e.heard = "succeeded" -> "result"
    [] e.heard = "failed" -> "error"
(* A fault to be caught: a task that failed is not shown as such. *)
Outcome_Pending(e) == Pending

(* onQueue: what the screen shows of a task. *)
Outcome(e) == IF e.heard = "failed" THEN Failed ELSE Pending

Heard(k, i, e) ==
  /\ Put(k, i, [e EXCEPT !.at = After(e), !.heard = "active", !.read = None])
  /\ Show(k, e.place, Outcome(e))

(* updateRecovery reads; without a record there is nothing to update.      *)
NoteRead(k, i) ==
  /\ Running(k, i, "note")
  /\ LET e == chains[k].entry[i]
     IN IF record = None THEN Heard(k, i, e)
        ELSE /\ Put(k, i, [e EXCEPT !.at = "write", !.read = record])
             /\ UNCHANGED screen
  /\ UNCHANGED <<task, history, record, pageVars, batches, fails, ghostVars>>

(* A fault to be caught: a slot writes only its own task. *)
With_Alone(ids, i, t) == <<[slot |-> i, task |-> t]>>

(* taskIds[resultIds[index]] = taskId, be the record this batch's or not. *)
With(ids, i, t) ==
  LET its == [slot |-> i, task |-> t]
  IN IF \E n \in DOMAIN ids : ids[n].slot = i
     THEN [n \in DOMAIN ids |-> IF ids[n].slot = i THEN its ELSE ids[n]]
     ELSE Append(ids, its)

Named(ids) == {e.task : e \in ToSet(ids)}
Held == IF record = None THEN {} ELSE Named(record.ids)

NoteWrite(k, i) ==
  /\ Running(k, i, "write")
  /\ LET e == chains[k].entry[i]
     IN /\ record' = [e.read EXCEPT !.ids = With(@, i, e.task)]
        /\ raced' = (raced \/ record # e.read \/ e.read.batch # chains[k].batch)
        /\ Heard(k, i, e)
  /\ noted' = noted \cup {Of(k, i)}
  /\ UNCHANGED <<task, history, pageVars, batches, fails, beside, shifted, givenUp>>

(* The task is asked for every two seconds.  A restore has no record to     *)
(* update.                                                                 *)
Poll(k, i) ==
  /\ Running(k, i, "poll")
  /\ LET e == [chains[k].entry[i] EXCEPT !.heard = task[Of(k, i)]]
     IN IF chains[k].kind = "generate"
        THEN Put(k, i, [e EXCEPT !.at = "note"]) /\ UNCHANGED screen
        ELSE Heard(k, i, e)
  /\ UNCHANGED <<task, history, record, pageVars, batches, fails, ghostVars>>

Result(k, i) ==
  /\ Running(k, i, "result")
  /\ Step(k, i, "done")
  /\ Show(k, chains[k].entry[i].place, Of(k, i))
  /\ UNCHANGED <<task, history, record, pageVars, batches, fails, ghostVars>>

(* Any of these requests fails: the slot is given up, whatever becomes of   *)
(* its task; a restore does not even show it.                              *)
SlotFails(k, i) ==
  /\ \E at \in {"post", "poll", "result"} : Running(k, i, at)
  /\ Fail
  /\ Step(k, i, "error")
  /\ givenUp' = givenUp \cup {Of(k, i)}
  /\ IF chains[k].kind = "generate" THEN Show(k, i, Failed) ELSE UNCHANGED screen
  /\ UNCHANGED <<task, history, record, pageVars, batches, noted, raced, beside, shifted>>

-----------------------------------------------------------------------------
(* The end of a chain *)

Ended(k) == \A i \in Slots : chains[k].entry[i].at \in {"off", "done", "error"}
Images(k) == {Of(k, i) : i \in {j \in Slots : chains[k].entry[j].at = "done"}}

(* Promise.allSettled: what is saved is listed with the tasks the record    *)
(* names by then, or those restored.                                       *)
Settle(k) ==
  /\ k \in Working /\ chains[k].at = "slots" /\ Ended(k)
  /\ chains' = [chains EXCEPT
       ![k].at = IF Images(k) = {} THEN "saved" ELSE "saving",
       ![k].ids = IF chains[k].kind = "generate" THEN Held
                  ELSE {Of(k, i) : i \in {j \in Slots : chains[k].entry[j].at # "off"}}]
  /\ UNCHANGED <<task, history, record, pageVars, screen, batches, fails, ghostVars>>

Saved(k) ==
  /\ k \in Working /\ chains[k].at = "saving"
  /\ history' = Append(history, [tasks |-> chains[k].ids, images |-> Images(k)])
  /\ chains' = [chains EXCEPT ![k].at = "saved"]
  /\ UNCHANGED <<task, record, pageVars, screen, batches, fails, ghostVars>>

(* The error is shown, and the record removed all the same. *)
SaveFails(k) ==
  /\ k \in Working /\ chains[k].at = "saving"
  /\ Fail
  /\ chains' = [chains EXCEPT ![k].at = "saved"]
  /\ givenUp' = givenUp \cup Images(k)
  /\ UNCHANGED <<task, history, record, pageVars, screen, batches, noted, raced, beside, shifted>>

Finish(k) ==
  /\ chains' = [chains EXCEPT ![k] = Over]
  /\ running' = IF Here(k) THEN FALSE ELSE running
  /\ IF chains[k].kind = "generate"
     THEN submitting' = (submitting /\ ~Here(k)) /\ UNCHANGED restoring
     ELSE restoring' = (restoring /\ ~Here(k)) /\ UNCHANGED submitting
  /\ UNCHANGED <<open, mount>>

(* removeItem: whosever record it is. *)
Forget(k) ==
  /\ k \in Working /\ chains[k].at = "saved"
  /\ record' = None
  /\ raced' = (raced \/ (record # None /\ record.batch # chains[k].batch))
  /\ Finish(k)
  /\ UNCHANGED <<task, history, screen, batches, fails, noted, beside, shifted, givenUp>>

-----------------------------------------------------------------------------
(* restoreGeneration *)

Restoring(k, at) == k \in Working /\ chains[k].kind = "restore" /\ chains[k].at = at
Listed == UNION {h.tasks : h \in ToSet(history)}

ReadRecord(k) ==
  /\ Restoring(k, "record")
  /\ IF record = None \/ record.ids = <<>>
     THEN Finish(k)
     ELSE /\ chains' = [chains EXCEPT ![k].at = "histories", ![k].batch = record.batch,
                                      ![k].pending = record.ids]
          /\ UNCHANGED pageVars
  /\ UNCHANGED <<task, history, record, screen, batches, fails, ghostVars>>

(* A fault to be caught: what was saved before is not looked for. *)
Unsaved_All(ids) == ids

(* The entries of ids that are in kept, in the order of ids. *)
Kept(ids, kept) ==
  LET at == {n \in DOMAIN ids : ids[n] \in kept}
      rank(n) == Cardinality({j \in at : j <= n})
  IN [m \in 1..Cardinality(at) |-> ids[CHOOSE n \in at : rank(n) = m]]

(* Of the record, what no entry of the history names. *)
Unsaved(ids) == Kept(ids, {e \in ToSet(ids) : e.task \notin Listed})

ReadHistories(k) ==
  /\ Restoring(k, "histories")
  /\ LET pending == Unsaved(chains[k].pending)
     IN chains' = [chains EXCEPT ![k].at = IF pending = <<>> THEN "saved" ELSE "tasks",
                                 ![k].pending = pending]
  /\ UNCHANGED <<task, history, record, pageVars, screen, batches, fails, ghostVars>>

(* The histories cannot be read, or none of the tasks: the record stays.   *)
RestoreFails(k) ==
  /\ \E at \in {"histories", "tasks"} : Restoring(k, at)
  /\ Fail
  /\ Finish(k)
  /\ UNCHANGED <<task, history, record, screen, batches, noted, raced, beside, shifted, givenUp>>

(* A fault to be caught: the slots are filled from the last. *)
Place_Last(pending, active, e) ==
  pending[Len(pending) + 1 - (CHOOSE n \in DOMAIN active : active[n] = e)].slot

(* The i-th of the tasks that could be read is resumed into the slot of    *)
(* the i-th that was asked for.                                            *)
Place(pending, active, e) == pending[CHOOSE n \in DOMAIN active : active[n] = e].slot

(* The tasks that could be read, in the order of the record.                *)
ReadTasks(k, found) ==
  /\ Restoring(k, "tasks")
  /\ found # {} /\ found \subseteq ToSet(chains[k].pending)
  /\ IF found = ToSet(chains[k].pending) THEN fails' = fails ELSE Fail
  /\ LET pending == chains[k].pending
         active == Kept(pending, found)
         place(e) == Place(pending, active, e)
         resumed(e) == [Off EXCEPT !.at = "poll", !.task = e.task, !.place = place(e)]
         waits(i) ==
           \E e \in found :
             /\ task[e.task] # "failed"
             /\ place(e) = i \/ (e.slot = i /\ \A o \in found : place(o) # i)
     IN /\ chains' = [chains EXCEPT ![k].at = "slots", ![k].pending = <<>>,
             ![k].entry = [i \in Slots |-> IF \E e \in found : e.slot = i
                             THEN resumed(CHOOSE e \in found : e.slot = i) ELSE Off]]
        /\ screen' = IF ~Here(k) THEN screen
                     ELSE [i \in Slots |-> IF waits(i) THEN Pending ELSE Failed]
        /\ running' = IF Here(k) THEN \E e \in found : task[e.task] = "active" ELSE running
        /\ shifted' = (shifted \/ active # pending)
  /\ givenUp' = givenUp \cup {e.task : e \in ToSet(chains[k].pending) \ found}
  /\ UNCHANGED <<task, history, record, open, mount, submitting, restoring, batches, noted,
                 raced, beside>>

-----------------------------------------------------------------------------
Server == \E t \in Tasks, s \in {"succeeded", "failed"} : TaskEnds(t, s)
User == Generate \/ Leave \/ Reload \/ Open
        \/ \E k \in DOMAIN chains, i \in Slots : Cancel(k, i)
Slot(k, i) ==
  Submitted(k, i) \/ NoteRead(k, i) \/ NoteWrite(k, i) \/ Poll(k, i) \/ Result(k, i)
  \/ SlotFails(k, i)
Chain(k) ==
  \/ \E i \in Slots : Slot(k, i)
  \/ Settle(k) \/ Saved(k) \/ SaveFails(k) \/ Forget(k)
  \/ ReadRecord(k) \/ ReadHistories(k) \/ RestoreFails(k)
  \/ \E found \in SUBSET ToSet(chains[k].pending) : ReadTasks(k, found)
Next == Server \/ User \/ \E k \in DOMAIN chains : Chain(k)

Spec == Init /\ [][Next]_vars

-----------------------------------------------------------------------------
(* Properties *)

TypeOK ==
  /\ task \in [Tasks -> {"none", "active", "succeeded", "failed"}]
  /\ history \in Seq([tasks : SUBSET Tasks, images : SUBSET Tasks])
  /\ record \in Records \cup {None}
  /\ open \in BOOLEAN /\ mount \in 0..MountBound
  /\ screen \in [Slots -> Shown]
  /\ running \in BOOLEAN /\ submitting \in BOOLEAN /\ restoring \in BOOLEAN
  /\ chains \in Seq(Chains)
  /\ batches \in 0..BatchBound /\ fails \in 0..FailBound
  /\ noted \subseteq Tasks /\ givenUp \subseteq Tasks
  /\ raced \in BOOLEAN /\ beside \in BOOLEAN /\ shifted \in BOOLEAN

Entered(t) == {n \in DOMAIN history : t \in history[n].images}
(* docs/pending-test.md:73: what is in the history is not saved again.     *)
SavedOnce == \A t \in Tasks : Cardinality(Entered(t)) <= 1
SavedOnceAlone == ~beside => SavedOnce

(* docs/pending-test.md:73: after a reload the tasks of a batch go on and   *)
(* their results get into the history.  A task the record has named stays  *)
(* in it until it is in the history, has failed or was given up with an    *)
(* error, whenever the browser stops.                                      *)
TasksAreKept ==
  \A t \in noted : t \in Held \/ Entered(t) # {} \/ task[t] = "failed" \/ t \in givenUp
TasksAreKeptUnraced == beside \/ raced \/ TasksAreKept

(* An image is shown in the slot its task was submitted for. *)
ImagesInPlace == ~shifted => \A i \in Slots : screen[i] \in Tasks => screen[i][2] = i

(* When nothing runs no slot shows a generation. *)
NothingWaitsForNothing ==
  open /\ (\A k \in Working : ~Here(k)) /\ ~shifted /\ givenUp = {}
    => \A i \in Slots : screen[i] # Pending
=============================================================================
