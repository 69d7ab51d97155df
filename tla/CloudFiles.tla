------------------------------ MODULE CloudFiles ------------------------------
(***************************************************************************)
(* Stored files: service/cloud_storage.go over repository/cloud_file.go,   *)
(* repository/file_reference.go and repository/storage_limits.go, with the *)
(* callers that retain and release files: assets, workflows, shares,       *)
(* community posts, generation histories and task payloads.                *)
(*                                                                         *)
(* A file f is one call of storeObject: it reserves quota, writes an       *)
(* object outside every transaction and saves a row of cloud_files.  A     *)
(* holder h is one scope (kind, owner id) of cloud_file_references.  A     *)
(* deleter d is one goroutine inside DeleteCloudFiles: a request, or the   *)
(* hourly cleanup.  A database transaction is one step, but for            *)
(* ReserveStorage, whose sums are two statements; and every goroutine may  *)
(* die between any two of its steps.                                       *)
(***************************************************************************)
EXTENDS Naturals, Sequences, SequencesExt, FiniteSets, FiniteSetsExt

CONSTANTS
  Files, Users, Holders, Requests,
  Cleaner,          (* the goroutine of StartCloudStorageCleanupScheduler    *)
  None,
  Owner, Size,      (* of each file                                          *)
  Kind,             (* of each file: "media", "task" payload or "avatar"     *)
  Quota,            (* MaxUserStorageBytes                                   *)
  UserOf,           (* user_id of each holder's references                   *)
  RightsOf,         (* the other user whose rights may be checked: a copy of *)
                    (* a share is made and updated with those of its owner   *)
  Histories,        (* holders that are generation histories                 *)
  Batch,            (* LIMIT of the two cleanup queries                      *)
  ReadCommitted,    (* PostgreSQL: a snapshot for each statement, where the  *)
                    (* other databases have one for the whole transaction    *)
  Undeletable       (* files whose object every removal fails to delete      *)

Deleters == Requests \cup {Cleaner}

ASSUME FileAssumption == /\ IsFiniteSet(Files)
                         /\ Owner \in [Files -> Users]
                         /\ Size \in [Files -> Nat]
                         /\ Kind \in [Files -> {"media", "task", "avatar"}]
                         /\ Quota \in Nat
                         /\ ReadCommitted \in BOOLEAN
                         /\ Undeletable \subseteq Files
ASSUME HolderAssumption == /\ UserOf \in [Holders -> Users]
                           /\ RightsOf \in [Holders -> Users]
                           /\ Histories \subseteq Holders
                           /\ None \notin Holders
                           /\ Batch \in Nat \ {0}
ASSUME DeleterAssumption == Cleaner \notin Requests

VARIABLES
  (* database: storage_reservations and cloud_files; when a file expires it *)
  (* gets the next number, so the numbers are in the order of expires_at    *)
  reservation, row, place, expired,
  (* database: the rows that own references, and cloud_file_references      *)
  holder, refs, lapsed,
  (* local directory and bucket *)
  objects,
  (* one storeObject call: its counter, the files its reservation counted *)
  up, seen,
  (* one DeleteCloudFiles call: counter, files left, the history it is for; *)
  (* the expired histories the hourly round still has to delete             *)
  act, todo, scope, due,
  (* history: files that came to count without passing the quota check, and *)
  (* objects that a fault left behind                                       *)
  excess, leaked

rowVars == <<reservation, row, place, expired>>
refVars == <<holder, refs, lapsed>>
deleteVars == <<act, todo, scope, due>>
upVars == <<up, seen>>
faultVars == <<excess, leaked>>
vars == <<rowVars, refVars, objects, upVars, deleteVars, faultVars>>

Places == {"local", "bucket"}
(* Uploads that hold a reservation and have not saved a row yet, those with *)
(* an object, and those before either.                                     *)
Uploading == {"reserved", "bucket", "bucketPut", "local", "localPut"}
Written == {"bucketPut", "localPut"}
Waiting == {"idle", "counting"}
PutIn(s) == IF s = "bucketPut" THEN "bucket" ELSE "local"

Init ==
  /\ reservation = [f \in Files |-> "none"]
  /\ row = [f \in Files |-> "none"]
  /\ place = [f \in Files |-> "local"]
  /\ expired = [f \in Files |-> 0]
  /\ holder = [h \in Holders |-> "absent"]
  /\ refs = [h \in Holders |-> {}]
  /\ lapsed = {}
  /\ objects = {}
  /\ up = [f \in Files |-> "idle"]
  /\ seen = [f \in Files |-> {}]
  /\ act = [d \in Deleters |-> "idle"]
  /\ todo = [d \in Deleters |-> <<>>]
  /\ scope = [d \in Deleters |-> None]
  /\ due = {}
  /\ excess = {}
  /\ leaked = {}

-----------------------------------------------------------------------------
(* Queries *)

SizeOf(S) == MapThenSumSet(LAMBDA f : Size[f], S)
FilesOf(u) == {f \in Files : Owner[f] = u}
Stored(u) == {f \in FilesOf(u) : row[f] = "live"}
Pending(u) == {f \in FilesOf(u) : reservation[f] # "none"}

(* The stored files that the second sum of ReserveStorage is added to. *)
Counted(f) == IF ReadCommitted THEN seen[f] ELSE Stored(Owner[f])

(* A fault to be caught: only stored files count.                          *)
RoomFor_NoPending(f) == SizeOf(Counted(f)) + Size[f] <= Quota

RoomFor(f) == SizeOf(Counted(f)) + SizeOf(Pending(Owner[f])) + Size[f] <= Quota

(* A fault to be caught: references of other users are not looked at.      *)
Referenced_ByOwner(f) ==
  \E h \in Holders \ lapsed : f \in refs[h] /\ UserOf[h] = Owner[f]

(* A reference row whose expires_at is empty or ahead. *)
Referenced(f) == \E h \in Holders \ lapsed : f \in refs[h]

IsExpired(f) == expired[f] > 0

CanReference(u, f) ==
  /\ row[f] = "live"
  /\ Kind[f] # "task"
  /\ IsExpired(f) => Referenced(f)
  /\ \/ Owner[f] = u
     \/ \E h \in Holders \ lapsed : f \in refs[h] /\ UserOf[h] = u

(* A fault to be caught: the deletion mark is not compared.                *)
Claimable_Twice(f) ==
  row[f] # "none" /\ Kind[f] # "avatar" /\ ~Referenced(f)

(* The conditions of ClaimCloudFileDeletion. *)
Claimable(f) == row[f] = "live" /\ Kind[f] # "avatar" /\ ~Referenced(f)

(* The condition of ListExpiredCloudFiles. *)
Garbage(f) == row[f] = "live" /\ IsExpired(f) /\ ~Referenced(f)

(* A fault to be caught: files that are still referenced are listed too.   *)
FirstGarbage_Referenced ==
  LET listed == {f \in Files : row[f] = "live" /\ IsExpired(f)}
  IN {f \in listed :
        Cardinality({g \in listed : expired[g] < expired[f]}) < Batch}

(* Its ORDER BY expires_at and its LIMIT. *)
FirstGarbage ==
  LET listed == {f \in Files : Garbage(f)}
  IN {f \in listed :
        Cardinality({g \in listed : expired[g] < expired[f]}) < Batch}
ExpiryOrder(s) ==
  \A i, j \in 1..Len(s) : i < j => expired[s[i]] <= expired[s[j]]

-----------------------------------------------------------------------------
(* storeObject *)

(* ReserveStorage under the lock on the user's row: the lapsed reservations *)
(* go and the stored files are summed.                                     *)
CountStored(f) ==
  /\ up[f] = "idle"
  /\ \A g \in FilesOf(Owner[f]) : up[g] # "counting"
  /\ reservation' = [g \in Files |->
                        IF Owner[g] = Owner[f] /\ reservation[g] = "lapsed"
                        THEN "none" ELSE reservation[g]]
  /\ seen' = [seen EXCEPT ![f] = Stored(Owner[f])]
  /\ up' = [up EXCEPT ![f] = "counting"]
  /\ UNCHANGED <<row, place, expired, refVars, objects, deleteVars, faultVars>>

(* The reservations are summed, and the new one is made if there is room. *)
Reserve(f) ==
  /\ up[f] = "counting"
  /\ \/ /\ RoomFor(f)
        /\ reservation' = [reservation EXCEPT ![f] = "held"]
        /\ up' = [up EXCEPT ![f] = "reserved"]
     \/ /\ ~RoomFor(f)
        /\ reservation' = reservation
        /\ up' = [up EXCEPT ![f] = "done"]
  /\ seen' = [seen EXCEPT ![f] = {}]
  /\ UNCHANGED <<row, place, expired, refVars, objects, deleteVars, faultVars>>

(* storeReservedObject reads the storage mode, which an administrator may  *)
(* change at any time, and writes to the local directory or to the bucket. *)
Route(f) ==
  /\ up[f] = "reserved"
  /\ up' \in {[up EXCEPT ![f] = s] : s \in {"bucket", "local"}}
  /\ UNCHANGED <<rowVars, refVars, objects, seen, deleteVars, faultVars>>

(* UploadObject: the request ends at the deadline of the context, a minute *)
(* before the reservation does.                                            *)
PutBucket(f) ==
  /\ up[f] = "bucket" /\ reservation[f] = "held"
  /\ objects' = objects \cup {<<f, "bucket">>}
  /\ up' = [up EXCEPT ![f] = "bucketPut"]
  /\ UNCHANGED <<rowVars, refVars, seen, deleteVars, faultVars>>

(* storeLocalObject, which no deadline ends. *)
PutLocal(f) ==
  /\ up[f] = "local"
  /\ objects' = objects \cup {<<f, "local">>}
  /\ up' = [up EXCEPT ![f] = "localPut"]
  /\ UNCHANGED <<rowVars, refVars, seen, deleteVars, faultVars>>

(* SaveCloudFile at the end of either function. *)
SaveFile(f) ==
  /\ up[f] \in Written
  /\ row' = [row EXCEPT ![f] = "live"]
  /\ place' = [place EXCEPT ![f] = PutIn(up[f])]
  /\ up' = [up EXCEPT ![f] = "release"]
  /\ excess' = IF reservation[f] = "held" THEN excess ELSE excess \cup {f}
  /\ UNCHANGED <<reservation, expired, refVars, objects, seen, deleteVars,
                 leaked>>

(* An error before the row is saved.  A bucket upload falls back to the    *)
(* local directory when the mode says so.  A write that fails, or whose    *)
(* row is not saved, may leave its object behind.                          *)
UploadFails(f) ==
  /\ up[f] \in Uploading
  /\ up' \in {[up EXCEPT ![f] = s] :
                s \in {"release"} \cup
                      IF up[f] \in {"bucket", "bucketPut"} THEN {"local"}
                                                           ELSE {}}
  /\ LET left == CASE up[f] \in {"bucket", "bucketPut"} -> {<<f, "bucket">>}
                   [] up[f] \in {"local", "localPut"} -> {<<f, "local">>}
                   [] OTHER -> {}
     IN /\ objects' \in {objects, objects \cup left}
        /\ leaked' = leaked \cup (left \cap objects')
  /\ UNCHANGED <<rowVars, refVars, seen, deleteVars, excess>>

(* The deferred ReleaseStorageReservation. *)
ReleaseReservation(f) ==
  /\ up[f] = "release"
  /\ reservation' = [reservation EXCEPT ![f] = "none"]
  /\ up' = [up EXCEPT ![f] = "done"]
  /\ UNCHANGED <<row, place, expired, refVars, objects, seen, deleteVars,
                 faultVars>>

(* The goroutine dies, or the deferred release or the reservation itself   *)
(* fails: no code runs for this upload any more.                           *)
UploadDies(f) ==
  /\ up[f] # "done"
  /\ up' = [up EXCEPT ![f] = "done"]
  /\ seen' = [seen EXCEPT ![f] = {}]
  /\ leaked' = leaked \cup
       (IF up[f] \in Written THEN {<<f, PutIn(up[f])>>} ELSE {})
  /\ UNCHANGED <<rowVars, refVars, objects, deleteVars, excess>>

ReservationLapses(f) ==
  /\ reservation[f] = "held"
  /\ reservation' = [reservation EXCEPT ![f] = "lapsed"]
  /\ UNCHANGED <<row, place, expired, refVars, objects, upVars, deleteVars,
                 faultVars>>

(* The clock reaches expires_at, which an avatar does not have. *)
Expire(f) ==
  /\ row[f] # "none" /\ Kind[f] # "avatar" /\ ~IsExpired(f)
  /\ expired' = [expired EXCEPT ![f] =
                   Cardinality({g \in Files : IsExpired(g)}) + 1]
  /\ UNCHANGED <<reservation, row, place, refVars, objects, upVars, deleteVars,
                 faultVars>>

-----------------------------------------------------------------------------
(* Holders *)

(* One transaction checks every file and replaces the references of the    *)
(* scope; its owning row is written in the same transaction.  A history is *)
(* written once, with at least one file; the others are created and edited *)
(* until they are deleted.                                                 *)
Retain(h, S) ==
  /\ IF h \in Histories THEN holder[h] = "absent" /\ S # {}
                        ELSE holder[h] # "gone"
  /\ \E u \in {UserOf[h], RightsOf[h]} : \A f \in S : CanReference(u, f)
  /\ holder' = [holder EXCEPT ![h] = "present"]
  /\ refs' = [refs EXCEPT ![h] = S]
  /\ UNCHANGED <<rowVars, lapsed, objects, upVars, deleteVars, faultVars>>

(* expires_at of a history and of its references; other holders have none. *)
HolderLapses(h) ==
  /\ h \in Histories \ lapsed /\ holder[h] = "present"
  /\ lapsed' = lapsed \cup {h}
  /\ UNCHANGED <<rowVars, holder, refs, objects, upVars, deleteVars,
                 faultVars>>

(* ReleaseCloudFileReferencesTx for deleter d: lists the files of scopes   *)
(* and drops their references.  All but a history are gone with them.      *)
ReleaseScopes(d, H) ==
  /\ \E s \in SetToSeqs({f \in UNION {refs[h] : h \in H} : row[f] = "live"}) :
       todo' = [todo EXCEPT ![d] = s]
  /\ refs' = [h \in Holders |-> IF h \in H THEN {} ELSE refs[h]]
  /\ holder' = [h \in Holders |-> IF h \in H \ Histories THEN "gone"
                                                         ELSE holder[h]]
  /\ act' = [act EXCEPT ![d] = "next"]

(* ReleaseAssetFiles, RevokeWorkflowShare, DeleteCommunityWorkflow (for    *)
(* banned posts the hourly round calls it) and DeleteWorkflowWithInput,    *)
(* which takes the shares and posts of the workflow along.                 *)
DeleteHolders(d, H) ==
  /\ act[d] = "idle"
  /\ H # {} /\ H \subseteq Holders \ Histories
  /\ \A h \in H : holder[h] = "present"
  /\ \A g, h \in H : UserOf[g] = UserOf[h]
  /\ ReleaseScopes(d, H)
  /\ UNCHANGED <<rowVars, lapsed, objects, upVars, scope, due, faultVars>>

(* DeleteGenerationHistory, or the pruning of a history without media. *)
DeleteHistory(d, h) ==
  /\ act[d] = "idle"
  /\ h \in Histories /\ holder[h] = "present"
  /\ ReleaseScopes(d, {h})
  /\ scope' = [scope EXCEPT ![d] = h]
  /\ UNCHANGED <<rowVars, lapsed, objects, upVars, due, faultVars>>

(* The payload of a refused task, or those of a task that grew old. *)
DropPayloads(d, S) ==
  /\ act[d] = "idle"
  /\ S # {} /\ Cardinality(S) <= 2
  /\ \A f \in S : Kind[f] = "task" /\ row[f] = "live"
  /\ \E s \in SetToSeqs(S) : todo' = [todo EXCEPT ![d] = s]
  /\ act' = [act EXCEPT ![d] = "next"]
  /\ UNCHANGED <<rowVars, refVars, objects, upVars, scope, due, faultVars>>

-----------------------------------------------------------------------------
(* DeleteCloudFiles; the file in hand is the first of todo[d] *)

File(d) == Head(todo[d])
Deleting(d) == act[d] \in {"remove", "restore"}

(* What the caller does when the list is done: a history still has its row. *)
WhenDone(d) == IF scope[d] \in Histories THEN "row" ELSE "idle"

(* What the caller does on an error: the hourly round goes on from the     *)
(* histories to the files.                                                 *)
WhenFailed(d) == IF d = Cleaner /\ scope[d] \in Histories THEN "list"
                                                          ELSE "idle"

Stop(d) ==
  /\ act' = [act EXCEPT ![d] = WhenFailed(d)]
  /\ todo' = [todo EXCEPT ![d] = <<>>]
  /\ scope' = [scope EXCEPT ![d] = None]
  /\ due' = IF d = Cleaner THEN {} ELSE due

Finish(d) ==
  /\ act[d] = "next" /\ todo[d] = <<>>
  /\ act' = [act EXCEPT ![d] = WhenDone(d)]
  /\ UNCHANGED <<rowVars, refVars, objects, upVars, todo, scope, due, faultVars>>

(* ClaimCloudFileDeletion: the mark is set, or the file is passed over. *)
Claim(d) ==
  /\ act[d] = "next" /\ todo[d] # <<>>
  /\ \/ /\ Claimable(File(d))
        /\ row' = [row EXCEPT ![File(d)] = "deleted"]
        /\ act' = [act EXCEPT ![d] = "remove"]
        /\ UNCHANGED todo
     \/ /\ ~Claimable(File(d))
        /\ todo' = [todo EXCEPT ![d] = Tail(@)]
        /\ UNCHANGED <<row, act>>
  /\ UNCHANGED <<reservation, place, expired, refVars, objects, upVars, scope,
                 due, faultVars>>

(* The settings cannot be read, or a claim fails. *)
ClaimFails(d) ==
  /\ act[d] = "next"
  /\ Stop(d)
  /\ UNCHANGED <<rowVars, refVars, objects, upVars, faultVars>>

(* A fault to be caught: the object of the other provider is removed.      *)
RemoveObject_Local(d) ==
  /\ act[d] = "remove" /\ File(d) \notin Undeletable
  /\ objects' = objects \ {<<File(d), "local">>}
  /\ todo' = [todo EXCEPT ![d] = Tail(@)]
  /\ act' = [act EXCEPT ![d] = "next"]
  /\ UNCHANGED <<rowVars, refVars, upVars, scope, due, faultVars>>

(* deleteStoredFile; an object that is not there is no error. *)
RemoveObject(d) ==
  /\ act[d] = "remove" /\ File(d) \notin Undeletable
  /\ objects' = objects \ {<<File(d), place[File(d)]>>}
  /\ todo' = [todo EXCEPT ![d] = Tail(@)]
  /\ act' = [act EXCEPT ![d] = "next"]
  /\ UNCHANGED <<rowVars, refVars, upVars, scope, due, faultVars>>

(* The local directory reports an error only if the file is still there; a *)
(* bucket may have removed the object although the answer was an error.    *)
RemoveFails(d) ==
  /\ act[d] = "remove"
  /\ objects' \in {objects} \cup
       (IF place[File(d)] = "bucket" /\ File(d) \notin Undeletable
        THEN {objects \ {<<File(d), "bucket">>}} ELSE {})
  /\ act' = [act EXCEPT ![d] = "restore"]
  /\ UNCHANGED <<rowVars, refVars, upVars, todo, scope, due, faultVars>>

(* MarkCloudFileDeleted(id, ""), and the error ends the list. *)
RestoreRow(d) ==
  /\ act[d] = "restore"
  /\ row' = [row EXCEPT ![File(d)] = "live"]
  /\ excess' = excess \cup {File(d)}
  /\ Stop(d)
  /\ UNCHANGED <<reservation, place, expired, refVars, objects, upVars,
                 leaked>>

(* The object of a deletion that is given up while the row is deleted. *)
Orphan(d) == IF Deleting(d) THEN objects \cap {<<File(d), place[File(d)]>>}
                            ELSE {}

RestoreFails(d) ==
  /\ act[d] = "restore"
  /\ leaked' = leaked \cup Orphan(d)
  /\ Stop(d)
  /\ UNCHANGED <<rowVars, refVars, objects, upVars, excess>>

DeleterDies(d) ==
  /\ act[d] # "idle"
  /\ leaked' = leaked \cup Orphan(d)
  /\ act' = [act EXCEPT ![d] = "idle"]
  /\ todo' = [todo EXCEPT ![d] = <<>>]
  /\ scope' = [scope EXCEPT ![d] = None]
  /\ due' = IF d = Cleaner THEN {} ELSE due
  /\ UNCHANGED <<rowVars, refVars, objects, upVars, excess>>

(* DeleteGenerationHistory of the repository, after its files. *)
DeleteRow(d) ==
  /\ act[d] = "row"
  /\ holder' = [holder EXCEPT ![scope[d]] = "gone"]
  /\ lapsed' = lapsed \ {scope[d]}
  /\ act' = [act EXCEPT ![d] = IF d = Cleaner THEN "histories" ELSE "idle"]
  /\ scope' = [scope EXCEPT ![d] = None]
  /\ UNCHANGED <<rowVars, refs, objects, upVars, todo, due, faultVars>>

DeleteRowFails(d) ==
  /\ act[d] = "row"
  /\ Stop(d)
  /\ UNCHANGED <<rowVars, refVars, objects, upVars, faultVars>>

-----------------------------------------------------------------------------
(* The hourly round of StartCloudStorageCleanupScheduler *)

(* ListExpiredGenerationHistories, at most Batch of them, whichever. *)
WakeCleaner ==
  /\ act[Cleaner] = "idle"
  /\ \E S \in SUBSET lapsed :
        /\ Cardinality(S) <= Batch
        /\ Cardinality(S) = Batch \/ S = lapsed
        /\ due' = S
  /\ act' = [act EXCEPT ![Cleaner] = "histories"]
  /\ UNCHANGED <<rowVars, refVars, objects, upVars, todo, scope, faultVars>>

(* DeleteHistoryCloudFiles of the next expired history. *)
CleanHistory(h) ==
  /\ act[Cleaner] = "histories" /\ h \in due
  /\ ReleaseScopes(Cleaner, {h})
  /\ scope' = [scope EXCEPT ![Cleaner] = h]
  /\ due' = due \ {h}
  /\ UNCHANGED <<rowVars, lapsed, objects, upVars, faultVars>>

(* The histories are done, or one of their statements failed. *)
EndHistories ==
  /\ act[Cleaner] = "histories"
  /\ due = {}
  /\ act' = [act EXCEPT ![Cleaner] = "list"]
  /\ UNCHANGED <<rowVars, refVars, objects, upVars, todo, scope, due,
                 faultVars>>

HistoriesFail ==
  /\ act[Cleaner] = "histories"
  /\ due' = {}
  /\ act' = [act EXCEPT ![Cleaner] = "list"]
  /\ UNCHANGED <<rowVars, refVars, objects, upVars, todo, scope, faultVars>>

(* CleanupExpiredCloudFiles. *)
ListGarbage ==
  /\ act[Cleaner] = "list"
  /\ \E s \in SetToSeqs(FirstGarbage) :
        /\ ExpiryOrder(s)
        /\ todo' = [todo EXCEPT ![Cleaner] = s]
  /\ act' = [act EXCEPT ![Cleaner] = "next"]
  /\ UNCHANGED <<rowVars, refVars, objects, upVars, scope, due, faultVars>>

(* The cleanup is switched off, or its settings or its list cannot be read. *)
ListFails ==
  /\ act[Cleaner] = "list"
  /\ act' = [act EXCEPT ![Cleaner] = "idle"]
  /\ UNCHANGED <<rowVars, refVars, objects, upVars, todo, scope, due,
                 faultVars>>

-----------------------------------------------------------------------------
UploadNext == \E f \in Files :
  \/ CountStored(f) \/ Reserve(f) \/ Route(f) \/ PutBucket(f) \/ PutLocal(f)
  \/ SaveFile(f) \/ UploadFails(f) \/ ReleaseReservation(f) \/ UploadDies(f)

ClockNext == \/ \E f \in Files : ReservationLapses(f) \/ Expire(f)
             \/ \E h \in Holders : HolderLapses(h)

UserNext == \/ \E h \in Holders, S \in SUBSET Files : Retain(h, S)
            \/ \E d \in Requests :
                  \/ \E H \in SUBSET Holders : DeleteHolders(d, H)
                  \/ \E h \in Holders : DeleteHistory(d, h)
                  \/ \E S \in SUBSET Files : DropPayloads(d, S)

DeleterStep(d) ==
  \/ Finish(d) \/ Claim(d) \/ RemoveObject(d) \/ RestoreRow(d) \/ DeleteRow(d)

CleanerStep == WakeCleaner \/ EndHistories \/ ListGarbage
               \/ \E h \in Holders : CleanHistory(h)

DeleterFault(d) == ClaimFails(d) \/ RemoveFails(d) \/ RestoreFails(d)
                   \/ DeleterDies(d) \/ DeleteRowFails(d)
CleanerFault == HistoriesFail \/ ListFails

Next == \/ UploadNext \/ ClockNext \/ UserNext
        \/ \E d \in Deleters : DeleterStep(d) \/ DeleterFault(d)
        \/ CleanerStep \/ CleanerFault

Spec == Init /\ [][Next]_vars

(* A step that only a passing fault takes: an error at the end of a list,  *)
(* say, changes nothing else than its regular end, and the removal of an   *)
(* undeletable object fails for good.                                      *)
Fault ==
  /\ CleanerFault \/ \E d \in Deleters : DeleterFault(d)
  /\ ~CleanerStep
  /\ \A d \in Deleters : ~DeleterStep(d)
                        /\ ~(RemoveFails(d) /\ File(d) \in Undeletable)

(* A goroutine in a deletion and the hourly timer go on, and the database, *)
(* the process and the storage do not fail for ever.  Users and uploads    *)
(* owe nothing.                                                            *)
FairSpec == /\ Spec
            /\ \A d \in Deleters : WF_vars(DeleterStep(d) \/ DeleterFault(d))
            /\ WF_vars(CleanerStep \/ CleanerFault)
            /\ <>[][~Fault]_vars

-----------------------------------------------------------------------------
(* Properties *)

(* The registers keep their types; the numbers of expired files are ranks. *)
TypeOK ==
  /\ reservation \in [Files -> {"none", "held", "lapsed"}]
  /\ row \in [Files -> {"none", "live", "deleted"}]
  /\ place \in [Files -> Places]
  /\ expired \in [Files -> Nat]
  /\ holder \in [Holders -> {"absent", "present", "gone"}]
  /\ refs \in [Holders -> SUBSET Files]
  /\ lapsed \subseteq Histories
  /\ objects \subseteq Files \X Places
  /\ up \in [Files -> {"release", "done"} \cup Waiting \cup Uploading]
  /\ seen \in [Files -> SUBSET Files]
  /\ act \in [Deleters -> {"idle", "next", "remove", "restore", "row",
                           "histories", "list"}]
  /\ todo \in [Deleters -> Seq(Files)]
  /\ scope \in [Deleters -> Holders \cup {None}]
  /\ due \subseteq Holders
  /\ excess \subseteq Files
  /\ leaked \subseteq Files \X Places

(* A file that somebody was allowed to keep is not deleted: a holder's     *)
(* references, until it lets go of them or they expire, name rows that are *)
(* not marked deleted, whatever cleanups and deletions of other holders    *)
(* run meanwhile (CanReferenceCloudFileTx against ClaimCloudFileDeletion). *)
RetainedFilesKept ==
  \A h \in Holders \ lapsed : \A f \in refs[h] : row[f] = "live"

(* A row that can be read has its object: no deletion removes the object   *)
(* of a row that another one has put back, and an upload names the place   *)
(* it wrote to.  An object in the bucket may be gone after a removal whose *)
(* answer was lost, so this is about the local directory.                  *)
RowsHaveObjects ==
  \A f \in Files :
    row[f] = "live" /\ place[f] = "local" => <<f, "local">> \in objects

(* Concurrent uploads of a user do not pass the quota together             *)
(* (docs/canvas-data-structure.md:88): what is stored and what is reserved, *)
(* each file once, fits in it, leaving aside the two ways around            *)
(* ReserveStorage: a row put back by a failed deletion and an upload that   *)
(* outlives its reservation.                                               *)
QuotaHeld ==
  \A u \in Users :
    SizeOf({f \in FilesOf(u) \ excess :
              row[f] = "live" \/ reservation[f] = "held"}) <= Quota

(* Nothing is left in storage without a row that leads to it, except by an *)
(* upload that failed or died after its write and a deletion that died or  *)
(* could not put its row back: an object belongs to its live row, to an    *)
(* upload about to save its row or to a deletion at work on it.            *)
ObjectsAccounted ==
  \A f \in Files, p \in Places :
    <<f, p>> \in objects \ leaked =>
    \/ row[f] = "live" /\ place[f] = p
    \/ up[f] \in Written /\ PutIn(up[f]) = p
    \/ \E d \in Deleters : Deleting(d) /\ File(d) = f /\ place[f] = p

(* What keeps RetainedFilesKept: a history is never written again once a   *)
(* deletion works on its files, so that its references stay dropped.       *)
ScopesReleased ==
  /\ \A h \in Holders : holder[h] = "absent" =>
                         h \notin lapsed \cup due /\ refs[h] = {}
  /\ \A d \in Deleters : scope[d] \in Histories =>
                         holder[scope[d]] # "absent" /\ refs[scope[d]] = {}

(* What keeps RowsHaveObjects: an object is there before its row and as    *)
(* long as its row may come back, and a file is in one deletion at a time. *)
DeletionsApart ==
  /\ \A f \in Files :
        /\ up[f] \in Uploading \cup Waiting => row[f] = "none"
        /\ up[f] \in Written => <<f, PutIn(up[f])>> \in objects
  /\ \A d \in Deleters : Deleting(d) =>
        /\ todo[d] # <<>> /\ row[File(d)] = "deleted"
        /\ place[File(d)] = "local" => <<File(d), "local">> \in objects
  /\ \A d, e \in Deleters :
        Deleting(d) /\ Deleting(e) /\ File(d) = File(e) => d = e

(* A file that is expired and unreferenced is marked deleted for good in   *)
(* the end, and its object removed if no fault left it behind, provided it *)
(* can be deleted at all (docs/canvas-data-structure.md:86).               *)
GarbageReclaimed ==
  \A f \in Files \ Undeletable :
    Garbage(f) ~> [](row[f] = "deleted"
                     /\ <<f, place[f]>> \notin objects \ leaked)
=============================================================================
