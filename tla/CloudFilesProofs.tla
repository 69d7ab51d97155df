-------------------------- MODULE CloudFilesProofs --------------------------
(***************************************************************************)
(* Theorems of CloudFiles for every number of files, holders, users and    *)
(* deletions at work, with every goroutine allowed to die at any point.    *)
(* The quota holds where a transaction has one snapshot (~ReadCommitted).   *)
(***************************************************************************)
EXTENDS CloudFiles, FiniteSetTheorems, WellFoundedInduction, TLAPS

(* The orders in which a set of files may be listed are sequences of them.  *)
LEMMA Listings ==
  ASSUME NEW S, S \subseteq Files
  PROVE  SetToSeqs(S) \subseteq Seq(Files)
<1>1. Cardinality(S) \in Nat
  BY FileAssumption, FS_Subset, FS_CardinalityType
<1>2. SetToSeqs(S) \subseteq [1..Cardinality(S) -> S]
  BY DEF SetToSeqs
<1> QED BY <1>1, <1>2

(* Expired files are counted by a natural number. *)
LEMMA Ranks ==
  Cardinality({g \in Files : IsExpired(g)}) + 1 \in Nat
<1>1. IsFiniteSet({g \in Files : IsExpired(g)})
  BY FileAssumption, FS_Subset
<1> QED BY <1>1, FS_CardinalityType

(* Giving up a list keeps the types of the registers of the deletion. *)
LEMMA StopTypes ==
  ASSUME TypeOK, NEW d \in Deleters,
         todo' = [todo EXCEPT ![d] = <<>>],
         scope' = [scope EXCEPT ![d] = None],
         due' = IF d = Cleaner THEN {} ELSE due,
         \/ act' = [act EXCEPT ![d] = WhenFailed(d)]
         \/ act' = [act EXCEPT ![d] = "idle"]
  PROVE  /\ act' \in [Deleters -> {"idle", "next", "remove", "restore", "row",
                                   "histories", "list"}]
         /\ todo' \in [Deleters -> Seq(Files)]
         /\ scope' \in [Deleters -> Holders \cup {None}]
         /\ due' \subseteq Holders
<1>1. WhenFailed(d) \in {"idle", "list"}
  BY DEF WhenFailed
<1>2. PICK a \in {"idle", "list"} : act' = [act EXCEPT ![d] = a]
  BY <1>1
<1>3. act' \in [Deleters -> {"idle", "next", "remove", "restore", "row",
                            "histories", "list"}]
  BY <1>2 DEF TypeOK
<1>4. todo' \in [Deleters -> Seq(Files)]
  <2>1. <<>> \in Seq(Files)
    OBVIOUS
  <2> QED BY <2>1 DEF TypeOK
<1>5. /\ scope' \in [Deleters -> Holders \cup {None}]
      /\ due' \subseteq Holders
  BY DEF TypeOK
<1> QED BY <1>3, <1>4, <1>5

(* The rest of a list is a list, and its first element is a file. *)
LEMMA Rest ==
  ASSUME TypeOK, NEW d \in Deleters, todo[d] # <<>>
  PROVE  [todo EXCEPT ![d] = Tail(@)] \in [Deleters -> Seq(Files)]
<1>1. todo[d] \in Seq(Files)
  BY DEF TypeOK
<1>2. Tail(todo[d]) \in Seq(Files)
  BY <1>1
<1> QED BY <1>2 DEF TypeOK

LEMMA FirstFile ==
  ASSUME TypeOK, NEW d \in Deleters, todo[d] # <<>>
  PROVE  File(d) \in Files
<1>1. todo[d] \in Seq(Files)
  BY DEF TypeOK
<1>2. Head(todo[d]) \in Files
  BY <1>1
<1> QED BY <1>2 DEF File

(* Every step keeps the types.  A deletion has a file at hand, which is all *)
(* that DeletionsApart is needed for.                                      *)
LEMMA TypeStep ==
  ASSUME TypeOK, DeletionsApart, [Next]_vars
  PROVE  TypeOK'
<1> USE FileAssumption, HolderAssumption
    DEF TypeOK, vars, rowVars, refVars, upVars, deleteVars, faultVars,
        Places, Uploading, Waiting, Written
<1>0. ASSUME NEW f \in Files, CountStored(f) PROVE TypeOK'
  <2>1. reservation' \in [Files -> {"none", "held", "lapsed"}]
    BY <1>0 DEF CountStored
  <2>2. Stored(Owner[f]) \subseteq Files
    BY DEF Stored, FilesOf
  <2>3. up' = [up EXCEPT ![f] = "counting"]
        /\ seen' = [seen EXCEPT ![f] = Stored(Owner[f])]
        /\ UNCHANGED <<row, place, expired, refVars, objects, deleteVars,
                       faultVars>>
    BY <1>0 DEF CountStored
  <2> QED BY <2>1, <2>2, <2>3
<1>1. ASSUME NEW f \in Files, Reserve(f) PROVE TypeOK'
  <2>1. PICK s \in {"reserved", "done"} : up' = [up EXCEPT ![f] = s]
    BY <1>1 DEF Reserve
  <2>2. reservation' \in [Files -> {"none", "held", "lapsed"}]
    BY <1>1, ZenonT(60) DEF Reserve
  <2> QED BY <1>1, <2>1, <2>2 DEF Reserve
<1>2. ASSUME NEW f \in Files, Route(f) PROVE TypeOK'
  <2>1. PICK s \in {"bucket", "local"} : up' = [up EXCEPT ![f] = s]
    BY <1>2 DEF Route
  <2> QED BY <1>2, <2>1 DEF Route
<1>3. ASSUME NEW f \in Files, PutBucket(f) PROVE TypeOK'
  BY <1>3 DEF PutBucket
<1>4. ASSUME NEW f \in Files, PutLocal(f) PROVE TypeOK'
  BY <1>4 DEF PutLocal
<1>5. ASSUME NEW f \in Files, SaveFile(f) PROVE TypeOK'
  BY <1>5 DEF SaveFile, PutIn
<1>6. ASSUME NEW f \in Files, UploadFails(f) PROVE TypeOK'
  <2>1. PICK s \in {"release", "local"} : up' = [up EXCEPT ![f] = s]
    BY <1>6 DEF UploadFails
  <2>2. /\ leaked' \subseteq Files \X Places
        /\ objects' \subseteq Files \X Places
    BY <1>6 DEF UploadFails
  <2> QED BY <1>6, <2>1, <2>2 DEF UploadFails
<1>7. ASSUME NEW f \in Files, ReleaseReservation(f) PROVE TypeOK'
  BY <1>7 DEF ReleaseReservation
<1>8. ASSUME NEW f \in Files, UploadDies(f) PROVE TypeOK'
  BY <1>8 DEF UploadDies, PutIn
<1>9. ASSUME NEW f \in Files, ReservationLapses(f) PROVE TypeOK'
  BY <1>9 DEF ReservationLapses
<1>10. ASSUME NEW f \in Files, Expire(f) PROVE TypeOK'
  BY <1>10, Ranks DEF Expire
<1>11. ASSUME NEW h \in Holders, HolderLapses(h) PROVE TypeOK'
  BY <1>11 DEF HolderLapses
<1>12. ASSUME NEW h \in Holders, NEW S \in SUBSET Files, Retain(h, S)
       PROVE  TypeOK'
  BY <1>12 DEF Retain
<1>13. ASSUME NEW d \in Deleters, NEW H \in SUBSET Holders, ReleaseScopes(d, H)
       PROVE  /\ todo' \in [Deleters -> Seq(Files)]
              /\ refs' \in [Holders -> SUBSET Files]
              /\ holder' \in [Holders -> {"absent", "present", "gone"}]
              /\ act' \in [Deleters -> {"idle", "next", "remove", "restore",
                                        "row", "histories", "list"}]
  <2>1. UNION {refs[h] : h \in H} \subseteq Files
    OBVIOUS
  <2>2. SetToSeqs({f \in UNION {refs[h] : h \in H} : row[f] = "live"})
          \subseteq Seq(Files)
    BY <2>1, Listings
  <2>3. PICK s \in SetToSeqs({f \in UNION {refs[h] : h \in H} : row[f] = "live"}) :
          todo' = [todo EXCEPT ![d] = s]
    BY <1>13 DEF ReleaseScopes
  <2>4. todo' \in [Deleters -> Seq(Files)]
    BY <2>2, <2>3
  <2>5. /\ refs' = [h \in Holders |-> IF h \in H THEN {} ELSE refs[h]]
        /\ holder' = [h \in Holders |-> IF h \in H \ Histories THEN "gone" ELSE holder[h]]
        /\ act' = [act EXCEPT ![d] = "next"]
    BY <1>13 DEF ReleaseScopes
  <2>6. refs' \in [Holders -> SUBSET Files]
    BY <2>5
  <2>7. holder' \in [Holders -> {"absent", "present", "gone"}]
    BY <2>5
  <2>8. act' \in [Deleters -> {"idle", "next", "remove", "restore", "row", "histories", "list"}]
    BY <2>5
  <2> QED BY <2>4, <2>6, <2>7, <2>8
<1>14. ASSUME NEW d \in Requests,
              \/ \E H \in SUBSET Holders : DeleteHolders(d, H)
              \/ \E h \in Holders : DeleteHistory(d, h)
       PROVE  TypeOK'
  <2> d \in Deleters
    BY DEF Deleters
  <2>1. CASE \E H \in SUBSET Holders : DeleteHolders(d, H)
    BY <2>1, <1>13 DEF DeleteHolders
  <2>2. ASSUME NEW h \in Holders, DeleteHistory(d, h) PROVE TypeOK'
    <3>1. ReleaseScopes(d, {h})
      BY <2>2 DEF DeleteHistory
    <3> QED BY <2>2, <3>1, <1>13 DEF DeleteHistory
  <2> QED BY <1>14, <2>1, <2>2
<1>15. ASSUME NEW d \in Requests, NEW S \in SUBSET Files, DropPayloads(d, S)
       PROVE  TypeOK'
  <2>1. SetToSeqs(S) \subseteq Seq(Files)
    BY Listings
  <2> QED BY <1>15, <2>1 DEF DropPayloads, Deleters
<1>16. ASSUME NEW d \in Deleters, Finish(d) PROVE TypeOK'
  BY <1>16 DEF Finish, WhenDone
<1>17. ASSUME NEW d \in Deleters, Claim(d) PROVE TypeOK'
  <2>1. /\ \/ row' = [row EXCEPT ![File(d)] = "deleted"] /\ UNCHANGED todo
           \/ todo' = [todo EXCEPT ![d] = Tail(@)] /\ UNCHANGED row
        /\ act' \in {act, [act EXCEPT ![d] = "remove"]}
        /\ todo[d] # <<>>
    BY <1>17 DEF Claim
  <2>2. todo' \in [Deleters -> Seq(Files)]
    <3>1. CASE UNCHANGED todo
      BY <3>1
    <3>2. CASE todo' = [todo EXCEPT ![d] = Tail(@)]
      BY <2>1, <3>2, Rest
    <3> QED BY <2>1, <3>1, <3>2
  <2>3. row' \in [Files -> {"none", "live", "deleted"}]
    BY <2>1
  <2>4. act' \in [Deleters -> {"idle", "next", "remove", "restore", "row",
                              "histories", "list"}]
    BY <2>1, ZenonT(60)
  <2>5. UNCHANGED <<reservation, place, expired, refVars, objects, upVars,
                    scope, due, faultVars>>
    BY <1>17 DEF Claim
  <2> QED BY <2>2, <2>3, <2>4, <2>5
<1>18. ASSUME NEW d \in Deleters, RemoveObject(d) PROVE TypeOK'
  <2>1. todo[d] # <<>>
    BY <1>18 DEF DeletionsApart, Deleting, RemoveObject
  <2>2. todo' \in [Deleters -> Seq(Files)]
    BY <1>18, <2>1, Rest DEF RemoveObject
  <2> QED BY <1>18, <2>2 DEF RemoveObject
<1>19. ASSUME NEW d \in Deleters, RestoreRow(d) PROVE TypeOK'
  <2>1. todo[d] # <<>> /\ todo[d] \in Seq(Files)
    BY <1>19 DEF DeletionsApart, Deleting, RestoreRow
  <2>2. File(d) \in Files
    BY <2>1 DEF File
  <2> QED BY <1>19, <2>2, StopTypes DEF RestoreRow, Stop
<1>20. ASSUME NEW d \in Deleters, DeleteRow(d) PROVE TypeOK'
  BY <1>20 DEF DeleteRow
<1>21. ASSUME NEW d \in Deleters, ClaimFails(d) PROVE TypeOK'
  BY <1>21, StopTypes DEF ClaimFails, Stop
<1>22. ASSUME NEW d \in Deleters, RemoveFails(d) PROVE TypeOK'
  BY <1>22 DEF RemoveFails
<1>23. ASSUME NEW d \in Deleters, RestoreFails(d) PROVE TypeOK'
  <2>1. Orphan(d) \subseteq Files \X Places
    BY DEF Orphan
  <2> QED BY <1>23, <2>1, StopTypes DEF RestoreFails, Stop
<1>24. ASSUME NEW d \in Deleters, DeleterDies(d) PROVE TypeOK'
  <2>1. Orphan(d) \subseteq Files \X Places
    BY DEF Orphan
  <2> QED BY <1>24, <2>1, StopTypes DEF DeleterDies
<1>25. ASSUME NEW d \in Deleters, DeleteRowFails(d) PROVE TypeOK'
  BY <1>25, StopTypes DEF DeleteRowFails, Stop
<1>26. ASSUME CleanerStep PROVE TypeOK'
  <2>1. CASE WakeCleaner
    BY <2>1 DEF WakeCleaner, Deleters
  <2>2. CASE EndHistories
    BY <2>2 DEF EndHistories, Deleters
  <2>3. CASE ListGarbage
    <3>1. SetToSeqs(FirstGarbage) \subseteq Seq(Files)
      BY Listings DEF FirstGarbage
    <3> QED BY <2>3, <3>1 DEF ListGarbage, Deleters
  <2>4. ASSUME NEW h \in Holders, CleanHistory(h) PROVE TypeOK'
    <3>1. ReleaseScopes(Cleaner, {h}) /\ Cleaner \in Deleters
      BY <2>4 DEF CleanHistory, Deleters
    <3> QED BY <2>4, <3>1, <1>13 DEF CleanHistory
  <2> QED BY <1>26, <2>1, <2>2, <2>3, <2>4 DEF CleanerStep
<1>27. ASSUME CleanerFault PROVE TypeOK'
  BY <1>27 DEF CleanerFault, HistoriesFail, ListFails, Deleters
<1>28. CASE UNCHANGED vars
  BY <1>28
<1>29. CASE UploadNext
  BY <1>0, <1>1, <1>2, <1>3, <1>4, <1>5, <1>6, <1>7, <1>8, <1>29
  DEF UploadNext
<1>30. CASE ClockNext
  BY <1>9, <1>10, <1>11, <1>30 DEF ClockNext
<1>31. CASE UserNext
  BY <1>12, <1>14, <1>15, <1>31 DEF UserNext
<1>32. ASSUME NEW d \in Deleters, DeleterStep(d) \/ DeleterFault(d) PROVE TypeOK'
  BY <1>16, <1>17, <1>18, <1>19, <1>20, <1>21, <1>22, <1>23, <1>24, <1>25,
     <1>32 DEF DeleterStep, DeleterFault
<1> QED
  BY <1>26, <1>27, <1>28, <1>29, <1>30, <1>31, <1>32 DEF Next

-----------------------------------------------------------------------------
(* Holders and their files *)

(* What leaves the holders alone, takes no history into a round or a        *)
(* deletion and marks only files that nobody references keeps the files of  *)
(* every holder.                                                            *)
LEMMA HoldersKept ==
  ASSUME TypeOK, ScopesReleased, RetainedFilesKept, UNCHANGED refVars,
         due' \subseteq due,
         \A d \in Deleters : scope'[d] \in {scope[d], None},
         \A f \in Files : row[f] = "live" => row'[f] = "live" \/ ~Referenced(f)
  PROVE  ScopesReleased' /\ RetainedFilesKept'
<1>1. ScopesReleased'
  <2>1. UNCHANGED <<holder, refs, lapsed>>
    BY DEF refVars
  <2>2. ASSUME NEW h \in Holders, holder'[h] = "absent"
        PROVE  h \notin lapsed' \cup due' /\ refs'[h] = {}
    BY <2>1, <2>2 DEF ScopesReleased
  <2>3. ASSUME NEW d \in Deleters, scope'[d] \in Histories
        PROVE  holder'[scope'[d]] # "absent" /\ refs'[scope'[d]] = {}
    <3>1. scope'[d] = scope[d]
      BY <2>3, HolderAssumption
    <3> QED BY <2>1, <2>3, <3>1 DEF ScopesReleased
  <2> QED BY <2>2, <2>3 DEF ScopesReleased
<1>2. RetainedFilesKept'
  BY DEF TypeOK, RetainedFilesKept, refVars, Referenced
<1> QED BY <1>1, <1>2

(* Scopes are released only of holders that have been written. *)
LEMMA ScopesDropped ==
  ASSUME TypeOK, ScopesReleased, RetainedFilesKept,
         NEW d \in Deleters, NEW H \in SUBSET Holders,
         \A h \in H : holder[h] # "absent",
         ReleaseScopes(d, H), UNCHANGED <<row, lapsed>>, due' \subseteq due,
         \/ scope' = scope
         \/ \E h \in H : scope' = [scope EXCEPT ![d] = h]
  PROVE  ScopesReleased' /\ RetainedFilesKept'
<1>1. /\ refs' = [h \in Holders |-> IF h \in H THEN {} ELSE refs[h]]
      /\ holder' = [h \in Holders |-> IF h \in H \ Histories THEN "gone"
                                                             ELSE holder[h]]
  BY DEF ReleaseScopes
<1>2. \A h \in Holders :
        holder'[h] = "absent" => h \notin lapsed' \cup due' /\ refs'[h] = {}
  BY <1>1 DEF ScopesReleased
<1>3. \A e \in Deleters : scope'[e] = scope[e] \/ scope'[e] \in H
  BY DEF TypeOK
<1>4. \A e \in Deleters : scope'[e] \in Histories =>
        holder'[scope'[e]] # "absent" /\ refs'[scope'[e]] = {}
  BY <1>1, <1>3, HolderAssumption DEF ScopesReleased
<1>5. RetainedFilesKept'
  BY <1>1 DEF TypeOK, RetainedFilesKept
<1> QED BY <1>2, <1>4, <1>5 DEF ScopesReleased

(* A file that is referenced is not claimed, and a file that is deleted is  *)
(* not referenced any more.                                                *)
LEMMA HolderStep ==
  ASSUME TypeOK, ScopesReleased, RetainedFilesKept, [Next]_vars
  PROVE  ScopesReleased' /\ RetainedFilesKept'
<1> USE DEF vars, rowVars, refVars, upVars, deleteVars, faultVars
<1>1. CASE UploadNext
  <2>1. PICK f \in Files :
          \/ CountStored(f) \/ Reserve(f) \/ Route(f) \/ PutBucket(f)
          \/ PutLocal(f) \/ SaveFile(f) \/ UploadFails(f)
          \/ ReleaseReservation(f) \/ UploadDies(f)
    BY <1>1 DEF UploadNext
  <2>2. UNCHANGED <<refVars, deleteVars>>
    BY <2>1 DEF CountStored, Reserve, Route, PutBucket, PutLocal, SaveFile, UploadFails,
                ReleaseReservation, UploadDies
  <2>3. row' = row \/ row' = [row EXCEPT ![f] = "live"]
    BY <2>1 DEF CountStored, Reserve, Route, PutBucket, PutLocal, SaveFile, UploadFails,
                ReleaseReservation, UploadDies
  <2> QED BY <2>2, <2>3, HoldersKept DEF TypeOK
<1>2. CASE ClockNext
  <2>1. CASE \E f \in Files : ReservationLapses(f) \/ Expire(f)
    BY <2>1, HoldersKept DEF ReservationLapses, Expire
  <2>2. ASSUME NEW h \in Holders, HolderLapses(h)
        PROVE  ScopesReleased' /\ RetainedFilesKept'
    BY <2>2 DEF HolderLapses, TypeOK, ScopesReleased, RetainedFilesKept
  <2> QED BY <1>2, <2>1, <2>2 DEF ClockNext
<1>3. CASE UserNext
  <2>1. ASSUME NEW h \in Holders, NEW S \in SUBSET Files, Retain(h, S)
        PROVE  ScopesReleased' /\ RetainedFilesKept'
    <3>1. /\ h \in Histories => holder[h] = "absent"
          /\ \A f \in S : row[f] = "live"
          /\ holder' = [holder EXCEPT ![h] = "present"]
          /\ refs' = [refs EXCEPT ![h] = S]
          /\ UNCHANGED <<row, lapsed, scope, due>>
      BY <2>1 DEF Retain, CanReference
    <3>2. ScopesReleased'
      BY <3>1, HolderAssumption DEF TypeOK, ScopesReleased
    <3>3. RetainedFilesKept'
      BY <3>1 DEF TypeOK, RetainedFilesKept
    <3> QED BY <3>2, <3>3
  <2>2. ASSUME NEW d \in Requests, NEW H \in SUBSET Holders, DeleteHolders(d, H)
        PROVE  ScopesReleased' /\ RetainedFilesKept'
    BY <2>2, ScopesDropped DEF DeleteHolders, Deleters
  <2>3. ASSUME NEW d \in Requests, NEW h \in Holders, DeleteHistory(d, h)
        PROVE  ScopesReleased' /\ RetainedFilesKept'
    <3>1. \A g \in {h} : holder[g] # "absent"
      BY <2>3 DEF DeleteHistory
    <3> QED BY <2>3, <3>1, ScopesDropped DEF DeleteHistory, Deleters
  <2>4. ASSUME NEW d \in Requests, NEW S \in SUBSET Files, DropPayloads(d, S)
        PROVE  ScopesReleased' /\ RetainedFilesKept'
    BY <2>4, HoldersKept DEF DropPayloads
  <2> QED BY <1>3, <2>1, <2>2, <2>3, <2>4 DEF UserNext
<1>4. ASSUME NEW d \in Deleters, DeleterStep(d) \/ DeleterFault(d)
      PROVE  ScopesReleased' /\ RetainedFilesKept'
  <2>1. CASE Claim(d)
    <3>1. /\ UNCHANGED refVars /\ UNCHANGED <<scope, due>>
          /\ \/ row' = row
             \/ row' = [row EXCEPT ![File(d)] = "deleted"] /\ ~Referenced(File(d))
      BY <2>1 DEF Claim, Claimable
    <3>2. \A f \in Files : row[f] = "live" => row'[f] = "live" \/ ~Referenced(f)
      BY <3>1 DEF TypeOK
    <3> QED BY <3>1, <3>2, HoldersKept
  <2>2. CASE DeleteRow(d)
    <3>1. /\ holder' = [holder EXCEPT ![scope[d]] = "gone"]
          /\ lapsed' = lapsed \ {scope[d]}
          /\ scope' = [scope EXCEPT ![d] = None]
          /\ UNCHANGED <<row, refs, due>>
      BY <2>2 DEF DeleteRow
    <3>2. ScopesReleased'
      BY <3>1, HolderAssumption DEF TypeOK, ScopesReleased
    <3>3. RetainedFilesKept'
      BY <3>1 DEF TypeOK, RetainedFilesKept, ScopesReleased
    <3> QED BY <3>2, <3>3
  <2>3. CASE RestoreRow(d)
    <3>1. /\ UNCHANGED refVars /\ row' = [row EXCEPT ![File(d)] = "live"]
          /\ scope' = [scope EXCEPT ![d] = None] /\ due' \in {due, {}}
      BY <2>3 DEF RestoreRow, Stop
    <3> QED BY <3>1, HoldersKept DEF TypeOK
  <2>4. ASSUME \/ Finish(d) \/ RemoveObject(d) \/ RemoveFails(d) \/ ClaimFails(d)
               \/ RestoreFails(d) \/ DeleterDies(d) \/ DeleteRowFails(d)
        PROVE  ScopesReleased' /\ RetainedFilesKept'
    <3>1. /\ UNCHANGED refVars /\ UNCHANGED row
          /\ due' \in {due, {}}
          /\ scope' = scope \/ \E x \in {scope[d], None} :
                                  scope' = [scope EXCEPT ![d] = x]
      BY <2>4 DEF Finish, RemoveObject, RemoveFails, ClaimFails, RestoreFails,
                  DeleterDies, DeleteRowFails, Stop
    <3> QED BY <3>1, HoldersKept DEF TypeOK
  <2> QED BY <1>4, <2>1, <2>2, <2>3, <2>4 DEF DeleterStep, DeleterFault
<1>5. CASE CleanerStep \/ CleanerFault
  <2>1. ASSUME NEW h \in Holders, CleanHistory(h)
        PROVE  ScopesReleased' /\ RetainedFilesKept'
    <3>1. \A g \in {h} : holder[g] # "absent"
      BY <2>1 DEF CleanHistory, ScopesReleased
    <3> QED BY <2>1, <3>1, ScopesDropped DEF CleanHistory, Deleters
  <2>2. CASE WakeCleaner
    <3>1. due' \subseteq lapsed /\ UNCHANGED <<row, holder, refs, lapsed, scope>>
      BY <2>2 DEF WakeCleaner
    <3> QED BY <3>1 DEF ScopesReleased, RetainedFilesKept
  <2>3. CASE EndHistories \/ ListGarbage \/ HistoriesFail \/ ListFails
    <3>1. UNCHANGED refVars /\ UNCHANGED <<row, scope>> /\ due' \subseteq due
      BY <2>3 DEF EndHistories, ListGarbage, HistoriesFail, ListFails
    <3> QED BY <3>1, HoldersKept
  <2> QED BY <1>5, <2>1, <2>2, <2>3 DEF CleanerStep, CleanerFault
<1>6. CASE UNCHANGED vars
  BY <1>6, HoldersKept
<1> QED BY <1>1, <1>2, <1>3, <1>4, <1>5, <1>6 DEF Next

-----------------------------------------------------------------------------
(* Rows and their objects *)

(* The steps that neither storage nor a file in deletion takes part in. *)
Quiet ==
  /\ UNCHANGED <<row, place, objects, up, leaked>>
  /\ \A d \in Deleters : /\ Deleting(d)' = Deleting(d)
                         /\ Deleting(d) => todo'[d] = todo[d]

UploadStep(f) ==
  /\ \/ CountStored(f) \/ Reserve(f) \/ Route(f) \/ PutBucket(f) \/ PutLocal(f)
     \/ SaveFile(f) \/ UploadFails(f) \/ ReleaseReservation(f) \/ UploadDies(f)
  /\ UNCHANGED deleteVars

RemovalStep(d) == \/ Claim(d) \/ RemoveObject(d) \/ RestoreRow(d)
                  \/ RemoveFails(d) \/ RestoreFails(d) \/ DeleterDies(d)

(* A goroutine that is not at work on a file changes its own registers. *)
LEMMA QuietStop ==
  ASSUME TypeOK, NEW d \in Deleters, ~Deleting(d),
         NEW a \in {"idle", "next", "row", "histories", "list"},
         act' = [act EXCEPT ![d] = a],
         todo' = todo \/ \E s \in Seq(Files) : todo' = [todo EXCEPT ![d] = s],
         UNCHANGED <<row, place, objects, up, leaked>>
  PROVE  Quiet
<1>1. ASSUME NEW e \in Deleters
      PROVE  /\ Deleting(e)' = Deleting(e)
             /\ Deleting(e) => todo'[e] = todo[e]
  <2>1. CASE e = d
    BY <2>1 DEF Deleting, TypeOK
  <2>2. CASE e # d
    BY <2>2 DEF Deleting, TypeOK
  <2> QED BY <2>1, <2>2
<1> QED BY <1>1 DEF Quiet

(* Every step is quiet, or a step of one upload or of one removal. *)
LEMMA StorageSteps ==
  ASSUME TypeOK, [Next]_vars
  PROVE  \/ Quiet
         \/ \E f \in Files : UploadStep(f)
         \/ \E d \in Deleters : RemovalStep(d)
<1> USE DEF vars, rowVars, refVars, upVars, deleteVars, faultVars
<1>1. ASSUME NEW d \in Deleters, NEW H \in SUBSET Holders, ReleaseScopes(d, H),
             act[d] \in {"idle", "histories"},
             UNCHANGED <<row, place, objects, up, leaked>>
      PROVE  Quiet
  <2>1. UNION {refs[h] : h \in H} \subseteq Files
    BY DEF TypeOK
  <2>2. SetToSeqs({f \in UNION {refs[h] : h \in H} : row[f] = "live"})
          \subseteq Seq(Files)
    BY <2>1, Listings
  <2> QED BY <1>1, <2>2, QuietStop DEF ReleaseScopes, Deleting
<1>2. CASE UploadNext
  BY <1>2 DEF UploadNext, UploadStep, CountStored, Reserve, Route, PutBucket, PutLocal,
              SaveFile, UploadFails, ReleaseReservation, UploadDies
<1>3. CASE ClockNext
  BY <1>3 DEF ClockNext, ReservationLapses, Expire, HolderLapses, Quiet, Deleting
<1>4. CASE UserNext
  <2>1. CASE \E h \in Holders, S \in SUBSET Files : Retain(h, S)
    BY <2>1 DEF Retain, Quiet, Deleting
  <2>2. ASSUME NEW d \in Requests,
               \/ \E H \in SUBSET Holders : DeleteHolders(d, H)
               \/ \E h \in Holders : DeleteHistory(d, h)
        PROVE  Quiet
    <3>1. PICK H \in SUBSET Holders : ReleaseScopes(d, H)
      BY <2>2 DEF DeleteHolders, DeleteHistory
    <3> QED BY <2>2, <3>1, <1>1 DEF DeleteHolders, DeleteHistory, Deleters
  <2>3. ASSUME NEW d \in Requests, NEW S \in SUBSET Files, DropPayloads(d, S)
        PROVE  Quiet
    <3>1. SetToSeqs(S) \subseteq Seq(Files)
      BY Listings
    <3> QED BY <2>3, <3>1, QuietStop DEF DropPayloads, Deleters, Deleting
  <2> QED BY <1>4, <2>1, <2>2, <2>3 DEF UserNext
<1>5. ASSUME NEW d \in Deleters, DeleterStep(d) \/ DeleterFault(d)
      PROVE  Quiet \/ RemovalStep(d)
  <2>1. CASE Finish(d)
    BY <2>1, QuietStop DEF Finish, WhenDone, Deleting
  <2>2. CASE ClaimFails(d) \/ DeleteRowFails(d)
    <3>1. <<>> \in Seq(Files) /\ WhenFailed(d) \in {"idle", "list"}
      BY DEF WhenFailed
    <3> QED BY <2>2, <3>1, QuietStop DEF ClaimFails, DeleteRowFails, Stop, Deleting
  <2>3. CASE DeleteRow(d)
    BY <2>3, QuietStop DEF DeleteRow, Deleting
  <2> QED BY <1>5, <2>1, <2>2, <2>3 DEF DeleterStep, DeleterFault, RemovalStep
<1>6. CASE CleanerStep \/ CleanerFault
  <2> Cleaner \in Deleters
    BY DEF Deleters
  <2>1. ASSUME NEW h \in Holders, CleanHistory(h)
        PROVE  Quiet
    <3>1. ReleaseScopes(Cleaner, {h})
      BY <2>1 DEF CleanHistory
    <3> QED BY <2>1, <3>1, <1>1 DEF CleanHistory
  <2>2. CASE ListGarbage
    <3>1. SetToSeqs(FirstGarbage) \subseteq Seq(Files)
      BY Listings DEF FirstGarbage
    <3> QED BY <2>2, <3>1, QuietStop DEF ListGarbage, Deleting
  <2>3. CASE WakeCleaner \/ EndHistories \/ HistoriesFail \/ ListFails
    BY <2>3, QuietStop DEF WakeCleaner, EndHistories, HistoriesFail, ListFails,
                           Deleting
  <2> QED BY <1>6, <2>1, <2>2, <2>3 DEF CleanerStep, CleanerFault
<1>7. CASE UNCHANGED vars
  BY <1>7 DEF Quiet, Deleting
<1> QED BY <1>2, <1>3, <1>4, <1>5, <1>6, <1>7 DEF Next

(* A step of an upload that has not saved its row leaves removals alone. *)
LEMMA ObjectStep ==
  ASSUME TypeOK, DeletionsApart, RowsHaveObjects, [Next]_vars
  PROVE  DeletionsApart' /\ RowsHaveObjects'
<1> USE DEF rowVars, refVars, upVars, deleteVars, faultVars, Uploading, Written,
            Waiting
<1>1. CASE Quiet
  BY <1>1 DEF Quiet, DeletionsApart, RowsHaveObjects, Deleting, File
<1>2. ASSUME NEW f \in Files, UploadStep(f)
      PROVE  DeletionsApart' /\ RowsHaveObjects'
  <2>1. \A d \in Deleters : Deleting(d)' = Deleting(d) /\ File(d)' = File(d)
    BY <1>2 DEF UploadStep, Deleting, File
  <2>2. CASE SaveFile(f)
    <3>1. /\ up[f] \in Written /\ row[f] = "none"
          /\ row' = [row EXCEPT ![f] = "live"]
          /\ place' = [place EXCEPT ![f] = PutIn(up[f])]
          /\ up' = [up EXCEPT ![f] = "release"]
          /\ objects' = objects /\ todo' = todo
          /\ <<f, PutIn(up[f])>> \in objects
      BY <1>2, <2>2 DEF SaveFile, DeletionsApart, UploadStep
    <3>2. \A d \in Deleters : Deleting(d) => File(d) # f /\ File(d) \in Files
      BY <3>1, FirstFile DEF DeletionsApart
    <3>3. RowsHaveObjects'
      BY <3>1 DEF RowsHaveObjects, TypeOK
    <3>4. \A g \in Files : /\ up'[g] \in Uploading \cup Waiting => row'[g] = "none"
                           /\ up'[g] \in Written => <<g, PutIn(up'[g])>> \in objects'
      BY <3>1 DEF DeletionsApart, TypeOK
    <3>5. \A d \in Deleters : Deleting(d) =>
            /\ todo'[d] # <<>> /\ row'[File(d)] = "deleted"
            /\ place'[File(d)] = "local" => <<File(d), "local">> \in objects'
      BY <3>1, <3>2 DEF DeletionsApart, TypeOK
    <3> QED BY <2>1, <3>3, <3>4, <3>5 DEF DeletionsApart
  <2>3. CASE ~SaveFile(f)
    <3>1. /\ objects \subseteq objects'
          /\ UNCHANGED <<row, place, todo>>
          /\ up'[f] \in Uploading \cup Waiting => up[f] \in Uploading \cup Waiting
          /\ up'[f] \in Written => <<f, PutIn(up'[f])>> \in objects'
          /\ \A g \in Files \ {f} : up'[g] = up[g]
      BY <1>2, <2>3 DEF UploadStep, CountStored, Reserve, Route, PutBucket, PutLocal,
                        UploadFails, ReleaseReservation, UploadDies, PutIn, TypeOK
    <3>2. \A g \in Files : /\ up'[g] \in Uploading \cup Waiting => row'[g] = "none"
                           /\ up'[g] \in Written => <<g, PutIn(up'[g])>> \in objects'
      BY <3>1 DEF DeletionsApart
    <3>3. RowsHaveObjects'
      BY <3>1 DEF RowsHaveObjects
    <3>4. \A d \in Deleters : Deleting(d) =>
            /\ todo'[d] # <<>> /\ row'[File(d)] = "deleted"
            /\ place'[File(d)] = "local" => <<File(d), "local">> \in objects'
      BY <3>1 DEF DeletionsApart
    <3> QED BY <2>1, <3>2, <3>3, <3>4 DEF DeletionsApart
  <2> QED BY <2>2, <2>3
<1>3. ASSUME NEW d \in Deleters, RemovalStep(d)
      PROVE  DeletionsApart' /\ RowsHaveObjects'
  <2>1. \A e \in Deleters \ {d} : Deleting(e)' = Deleting(e) /\ File(e)' = File(e)
    BY <1>3 DEF RemovalStep, Claim, RemoveObject, RestoreRow, RemoveFails,
                RestoreFails, DeleterDies, Stop, Deleting, File, TypeOK
  <2>2. \A e \in Deleters : Deleting(e) => File(e) \in Files
    BY FirstFile DEF DeletionsApart
  <2>3. CASE Claim(d)
    <3>1. CASE Claimable(File(d))
      <4>1. /\ row[File(d)] = "live" /\ row' = [row EXCEPT ![File(d)] = "deleted"]
            /\ act' = [act EXCEPT ![d] = "remove"]
            /\ todo[d] # <<>> /\ UNCHANGED <<todo, place, objects, up>>
            /\ File(d) \in Files
        BY <2>3, <3>1 DEF Claim, Claimable, File, TypeOK
      <4>2. \A e \in Deleters : Deleting(e) => File(e) # File(d)
        BY <4>1 DEF DeletionsApart
      <4>3. Deleting(d)' /\ File(d)' = File(d)
        BY <4>1 DEF Deleting, File, TypeOK
      <4>4. \A e \in Deleters : Deleting(e)' =>
              /\ todo'[e] # <<>> /\ row'[File(e)] = "deleted"
              /\ place'[File(e)] = "local" => <<File(e), "local">> \in objects'
              /\ File(e)' = File(e)
        BY <2>1, <2>2, <4>1, <4>2, <4>3 DEF DeletionsApart, RowsHaveObjects, TypeOK
      <4>5. \A a, b \in Deleters :
              Deleting(a)' /\ Deleting(b)' /\ File(a)' = File(b)' => a = b
        BY <2>1, <4>2, <4>3 DEF DeletionsApart
      <4>6. \A g \in Files :
              /\ up'[g] \in Uploading \cup Waiting => row'[g] = "none"
              /\ up'[g] \in Written => <<g, PutIn(up'[g])>> \in objects'
        BY <4>1 DEF DeletionsApart, TypeOK
      <4>7. RowsHaveObjects'
        BY <4>1 DEF RowsHaveObjects, TypeOK
      <4> QED BY <4>4, <4>5, <4>6, <4>7 DEF DeletionsApart
    <3>2. CASE ~Claimable(File(d))
      <4>1. UNCHANGED <<row, place, objects, up, act>> /\ ~Deleting(d)
        BY <2>3, <3>2 DEF Claim, Deleting
      <4>2. ~Deleting(d)'
        BY <4>1 DEF Deleting
      <4>3. \A e \in Deleters \ {d} : todo'[e] = todo[e]
        BY <2>3, <3>2 DEF Claim, TypeOK
      <4> QED BY <2>1, <4>1, <4>2, <4>3 DEF DeletionsApart, RowsHaveObjects
    <3> QED BY <3>1, <3>2
  <2>4. CASE RemoveFails(d)
    <3>1. /\ UNCHANGED <<row, place, up, todo>>
          /\ \/ objects' = objects
             \/ /\ place[File(d)] = "bucket"
                /\ objects' = objects \ {<<File(d), "bucket">>}
          /\ Deleting(d) /\ File(d)' = File(d)
      BY <2>4 DEF RemoveFails, Deleting, File
    <3>2. \A g \in Files : up[g] \in Written =>
             <<g, PutIn(up[g])>> \in objects /\ g # File(d)
      BY <3>1 DEF DeletionsApart
    <3>3. \A g \in Files : up'[g] \in Written => <<g, PutIn(up'[g])>> \in objects'
      BY <3>1, <3>2
    <3>4. \A g \in Files : <<g, "local">> \in objects => <<g, "local">> \in objects'
      BY <3>1
    <3>5. \A e \in Deleters : Deleting(e)' => Deleting(e) /\ File(e)' = File(e)
      BY <2>1, <3>1
    <3> QED BY <2>2, <3>1, <3>3, <3>4, <3>5 DEF DeletionsApart, RowsHaveObjects
  <2>5. CASE \/ RemoveObject(d) \/ RestoreRow(d) \/ RestoreFails(d)
             \/ DeleterDies(d)
    <3>1. ~Deleting(d)' /\ UNCHANGED <<place, up>>
      BY <2>5 DEF RemoveObject, RestoreRow, RestoreFails, DeleterDies, Stop,
                  WhenFailed, Deleting, TypeOK
    <3>2. \A e \in Deleters \ {d} : todo'[e] = todo[e]
      BY <2>5 DEF RemoveObject, RestoreRow, RestoreFails, DeleterDies, Stop, TypeOK
    <3>3. \/ UNCHANGED <<row, objects>>
          \/ Deleting(d) /\ UNCHANGED row
             /\ objects' = objects \ {<<File(d), place[File(d)]>>}
          \/ Deleting(d) /\ UNCHANGED objects /\ row' = [row EXCEPT ![File(d)] = "live"]
      BY <2>5 DEF RemoveObject, RestoreRow, RestoreFails, DeleterDies, Deleting
    <3>4. \A e \in Deleters \ {d} :
             Deleting(e) /\ Deleting(d) => File(e) # File(d)
      BY DEF DeletionsApart
    <3>5. \A g \in Files : Deleting(d) /\ g = File(d) =>
             /\ row[g] = "deleted" /\ up[g] \notin Uploading \cup Waiting
             /\ place[g] = "local" => <<g, "local">> \in objects
      BY DEF DeletionsApart
    <3>6. \A g \in Files :
            /\ up'[g] \in Uploading \cup Waiting => row'[g] = "none"
            /\ up'[g] \in Written => <<g, PutIn(up'[g])>> \in objects'
      BY <2>2, <3>1, <3>3, <3>5, ZenonT(60) DEF DeletionsApart, TypeOK
    <3>7. RowsHaveObjects'
      BY <2>2, <3>1, <3>3, <3>5 DEF RowsHaveObjects, TypeOK
    <3>8. \A e \in Deleters \ {d} : Deleting(e) =>
            /\ todo'[e] # <<>> /\ row'[File(e)] = "deleted"
            /\ place'[File(e)] = "local" => <<File(e), "local">> \in objects'
      BY <2>2, <3>1, <3>2, <3>3, <3>4 DEF DeletionsApart, TypeOK
    <3> QED BY <2>1, <3>1, <3>6, <3>7, <3>8 DEF DeletionsApart
  <2> QED BY <1>3, <2>3, <2>4, <2>5 DEF RemovalStep
<1> QED BY <1>1, <1>2, <1>3, StorageSteps

(* Every object outside leaked stays with its row, its upload or its        *)
(* deletion, one after the other.                                           *)
LEMMA AccountedStep ==
  ASSUME TypeOK, DeletionsApart, ObjectsAccounted, [Next]_vars
  PROVE  ObjectsAccounted'
<1> USE DEF rowVars, refVars, upVars, deleteVars, faultVars, Uploading, Written,
            Waiting
<1>1. CASE Quiet
  BY <1>1 DEF Quiet, ObjectsAccounted, Deleting, File
<1>2. ASSUME NEW f \in Files, UploadStep(f)
      PROVE  ObjectsAccounted'
  <2>1. \A d \in Deleters : Deleting(d)' = Deleting(d) /\ File(d)' = File(d)
    BY <1>2 DEF UploadStep, Deleting, File
  <2>2. \A g \in Files \ {f} : /\ up'[g] = up[g] /\ row'[g] = row[g]
                               /\ place'[g] = place[g]
    BY <1>2 DEF UploadStep, CountStored, Reserve, Route, PutBucket, PutLocal, SaveFile,
                UploadFails, ReleaseReservation, UploadDies, TypeOK
  <2>3. \A g \in Files \ {f}, p \in Places :
           <<g, p>> \in objects' \ leaked' => <<g, p>> \in objects \ leaked
    BY <1>2 DEF UploadStep, CountStored, Reserve, Route, PutBucket, PutLocal, SaveFile,
                UploadFails, ReleaseReservation, UploadDies
  <2>4. \A g \in Files \ {f}, p \in Places :
          <<g, p>> \in objects' \ leaked' =>
          \/ row'[g] = "live" /\ place'[g] = p
          \/ up'[g] \in Written /\ PutIn(up'[g]) = p
          \/ \E d \in Deleters : Deleting(d)' /\ File(d)' = g /\ place'[g] = p
    BY <2>1, <2>2, <2>3 DEF ObjectsAccounted
  <2>5. ASSUME NEW p \in Places, <<f, p>> \in objects' \ leaked'
        PROVE  \/ row'[f] = "live" /\ place'[f] = p
               \/ up'[f] \in Written /\ PutIn(up'[f]) = p
               \/ \E d \in Deleters : Deleting(d)' /\ File(d)' = f /\ place'[f] = p
    <3>1. CASE PutBucket(f) \/ PutLocal(f)
      <4>1. UNCHANGED <<row, place, leaked>> /\ up[f] \notin Written
        BY <3>1 DEF PutBucket, PutLocal
      <4>2. CASE up'[f] \in Written /\ PutIn(up'[f]) = p
        BY <4>2
      <4>3. CASE ~(up'[f] \in Written /\ PutIn(up'[f]) = p)
        <5>1. <<f, p>> \in objects \ leaked
          BY <2>5, <3>1, <4>3 DEF PutBucket, PutLocal, PutIn, TypeOK
        <5> QED BY <2>1, <4>1, <5>1 DEF ObjectsAccounted
      <4> QED BY <4>2, <4>3
    <3>2. CASE SaveFile(f)
      <4>1. /\ up[f] \in Written /\ row[f] = "none"
            /\ row'[f] = "live" /\ place'[f] = PutIn(up[f])
            /\ <<f, p>> \in objects \ leaked
        BY <2>5, <3>2 DEF SaveFile, DeletionsApart, TypeOK
      <4>2. \A d \in Deleters : Deleting(d) => File(d) # f
        BY <4>1 DEF DeletionsApart
      <4> QED BY <4>1, <4>2 DEF ObjectsAccounted
    <3>3. CASE UploadFails(f) \/ UploadDies(f)
      <4>1. /\ UNCHANGED <<row, place>>
            /\ <<f, p>> \in objects \ leaked
            /\ ~(up[f] \in Written /\ PutIn(up[f]) = p)
        BY <2>5, <3>3 DEF UploadFails, UploadDies, PutIn, TypeOK
      <4> QED BY <2>1, <4>1 DEF ObjectsAccounted
    <3>4. CASE \/ CountStored(f) \/ Reserve(f) \/ Route(f)
             \/ ReleaseReservation(f)
      <4>1. /\ UNCHANGED <<row, place>> /\ up[f] \notin Written
            /\ <<f, p>> \in objects \ leaked
        BY <2>5, <3>4 DEF CountStored, Reserve, Route, ReleaseReservation
      <4> QED BY <2>1, <4>1 DEF ObjectsAccounted
    <3> QED BY <1>2, <3>1, <3>2, <3>3, <3>4 DEF UploadStep
  <2> QED BY <2>4, <2>5 DEF ObjectsAccounted
<1>3. ASSUME NEW d \in Deleters, RemovalStep(d)
      PROVE  ObjectsAccounted'
  <2>1. \A e \in Deleters \ {d} : Deleting(e)' = Deleting(e) /\ File(e)' = File(e)
    BY <1>3 DEF RemovalStep, Claim, RemoveObject, RestoreRow, RemoveFails,
                RestoreFails, DeleterDies, Stop, Deleting, File, TypeOK
  <2>2. UNCHANGED <<place, up>> /\ objects' \ leaked' \subseteq objects \ leaked
    BY <1>3 DEF RemovalStep, Claim, RemoveObject, RestoreRow, RemoveFails,
                RestoreFails, DeleterDies
  <2>3. SUFFICES ASSUME NEW f \in Files, NEW p \in Places,
                        <<f, p>> \in objects' \ leaked'
                 PROVE  \/ row'[f] = "live" /\ place[f] = p
                        \/ up[f] \in Written /\ PutIn(up[f]) = p
                        \/ \E e \in Deleters :
                              Deleting(e)' /\ File(e)' = f /\ place[f] = p
    BY <2>2 DEF ObjectsAccounted
  <2>4. CASE row[f] = "live" /\ place[f] = p
    <3>1. CASE row'[f] = "live"
      BY <2>4, <3>1
    <3>2. CASE row'[f] # "live"
      <4>1. /\ Claim(d) /\ File(d) = f
            /\ Deleting(d)' /\ File(d)' = File(d)
        BY <1>3, <2>4, <3>2 DEF RemovalStep, Claim, RemoveObject, RestoreRow,
             RemoveFails, RestoreFails, DeleterDies, Deleting, File, TypeOK
      <4> QED BY <2>4, <4>1
    <3> QED BY <3>1, <3>2
  <2>5. ASSUME NEW e \in Deleters, Deleting(e), File(e) = f, place[f] = p
        PROVE  \/ row'[f] = "live" /\ place[f] = p
               \/ \E x \in Deleters :
                     Deleting(x)' /\ File(x)' = f /\ place[f] = p
    <3>1. CASE e # d
      BY <2>1, <2>5, <3>1
    <3>2. CASE e = d
      <4>1. CASE RestoreRow(d)
        BY <2>5, <3>2, <4>1 DEF RestoreRow, TypeOK
      <4>2. CASE RemoveFails(d)
        BY <2>5, <3>2, <4>2 DEF RemoveFails, Deleting, File, TypeOK
      <4>3. CASE RemoveObject(d) \/ RestoreFails(d) \/ DeleterDies(d)
        BY <2>3, <2>5, <3>2, <4>3 DEF RemoveObject, RestoreFails, DeleterDies, Orphan
      <4>4. ~Claim(d)
        BY <2>5, <3>2 DEF Claim, Deleting
      <4> QED BY <1>3, <4>1, <4>2, <4>3, <4>4 DEF RemovalStep
    <3> QED BY <3>1, <3>2
  <2>6. <<f, p>> \in objects \ leaked
    BY <2>2, <2>3
  <2> QED BY <2>4, <2>5, <2>6 DEF ObjectsAccounted
<1> QED BY <1>1, <1>2, <1>3, StorageSteps

-----------------------------------------------------------------------------
(* Theorems *)

(* The inductive invariant: references are only ever dropped from a holder  *)
(* that was written, a removal has its file to itself, and on these rest    *)
(* the kept files, the objects of the rows and the owners of the objects.   *)
THEOREM Invariance ==
  Spec => [](/\ TypeOK /\ ScopesReleased /\ RetainedFilesKept
             /\ DeletionsApart /\ RowsHaveObjects /\ ObjectsAccounted)
<1>1. Init => /\ TypeOK /\ ScopesReleased /\ RetainedFilesKept
              /\ DeletionsApart /\ RowsHaveObjects /\ ObjectsAccounted
  <2> SUFFICES ASSUME Init
               PROVE  /\ TypeOK /\ ScopesReleased /\ RetainedFilesKept
                      /\ DeletionsApart /\ RowsHaveObjects /\ ObjectsAccounted
    OBVIOUS
  <2> USE DEF Init
  <2>1. TypeOK
    BY DEF TypeOK, Places, Waiting
  <2>2. ScopesReleased /\ RetainedFilesKept
    BY HolderAssumption DEF ScopesReleased, RetainedFilesKept
  <2>3. DeletionsApart
    BY DEF DeletionsApart, Deleting, Written
  <2>4. RowsHaveObjects /\ ObjectsAccounted
    BY DEF RowsHaveObjects, ObjectsAccounted
  <2> QED BY <2>1, <2>2, <2>3, <2>4
<1>2. /\ TypeOK /\ ScopesReleased /\ RetainedFilesKept
      /\ DeletionsApart /\ RowsHaveObjects /\ ObjectsAccounted
      /\ [Next]_vars
      => (/\ TypeOK /\ ScopesReleased /\ RetainedFilesKept
          /\ DeletionsApart /\ RowsHaveObjects /\ ObjectsAccounted)'
  BY TypeStep, HolderStep, ObjectStep, AccountedStep
<1> QED BY <1>1, <1>2, PTL DEF Spec

(* The registers of uploads, rows and deletions keep their types. *)
THEOREM TypeCorrect == Spec => []TypeOK
  BY Invariance, PTL

(* Whatever deletions and cleanups run, no file that a holder was allowed   *)
(* to keep is marked deleted before the holder lets go of it.               *)
THEOREM KeptFiles == Spec => []RetainedFilesKept
  BY Invariance, PTL

(* Whatever uploads and deletions die or fail, a live row of the local      *)
(* directory has its object.                                                *)
THEOREM ObjectsOfRows == Spec => []RowsHaveObjects
  BY Invariance, PTL

(* Only the faults named by leaked leave an object without row, upload or   *)
(* deletion.                                                                *)
THEOREM OwnersOfObjects == Spec => []ObjectsAccounted
  BY Invariance, PTL

-----------------------------------------------------------------------------
(* Sums of sizes.  SizeOf is a fold: it takes the files of a set one by one, *)
(* in an order nobody knows.  Its facts are proved by the least set that   *)
(* could violate them.                                                     *)

(* Among sets of files there is one with the fewest. *)
LEMMA FewestFiles ==
  ASSUME NEW B \in SUBSET (SUBSET Files), B # {}
  PROVE  \E s \in B : \A r \in B : Cardinality(s) <= Cardinality(r)
<1> DEFINE R == {ss \in Nat \X Nat : ss[1] < ss[2]}
           N == {Cardinality(s) : s \in B}
<1>1. IsWellFoundedOn(R, Nat)
  BY NatLessThanWellFounded DEF OpToRel
<1>2. N \subseteq Nat /\ N # {}
  <2>1. \A s \in B : Cardinality(s) \in Nat
    BY FileAssumption, FS_Subset, FS_CardinalityType
  <2> QED BY <2>1
<1>3. PICK x \in N : \A y \in N : <<y, x>> \notin R
  <2> HIDE DEF R, N
  <2> QED BY <1>1, <1>2, WFMin
<1>4. \A y \in N : ~(y < x)
  <2> SUFFICES ASSUME NEW y \in N, y < x PROVE <<y, x>> \in R
    BY <1>3
  <2>1. <<y, x>> \in Nat \X Nat
    BY <1>2
  <2> QED BY <2>1
<1>5. \A y \in N : x <= y
  BY <1>2, <1>4
<1>6. PICK s \in B : x = Cardinality(s)
  OBVIOUS
<1> QED BY <1>5, <1>6

LEMMA OneFewer ==
  ASSUME NEW s \in SUBSET Files, NEW f \in s
  PROVE  /\ s \ {f} \in SUBSET Files /\ Cardinality(s) \in Nat /\ Cardinality(s \ {f}) \in Nat
         /\ Cardinality(s \ {f}) < Cardinality(s)
<1>1. IsFiniteSet(s) /\ Cardinality(s) \in Nat
  BY FileAssumption, FS_Subset, FS_CardinalityType
<1>2. IsFiniteSet(s \ {f}) /\ Cardinality(s \ {f}) = Cardinality(s) - 1
  BY <1>1, FS_RemoveElement
<1>3. Cardinality(s \ {f}) \in Nat
  BY <1>2, FS_CardinalityType
<1> QED BY <1>1, <1>2, <1>3

(* The file that a sum takes first, and the function that it computes.       *)
Taken(s) == CHOOSE x \in s : TRUE
Step(g, s) == IF s = {} THEN 0 ELSE Size[Taken(s)] + g[s \ {Taken(s)}]
Adds(g, S) == g = [s \in SUBSET S |-> Step(g, s)]
Sum(S) == CHOOSE g : Adds(g, S)

LEMMA SizeUnfolds ==
  ASSUME NEW S
  PROVE  SizeOf(S) = Sum(S)[S]
BY Zenon DEF SizeOf, MapThenSumSet, MapThenFoldSet, Sum, Adds, Step, Taken

LEMMA TakenOf ==
  ASSUME NEW s, s # {}
  PROVE  Taken(s) \in s
BY DEF Taken

(* The function exists: it is known for the empty set, and for the sets of n *)
(* files if it is for those of fewer.                                      *)
LEMMA SumExists ==
  ASSUME NEW S \in SUBSET Files
  PROVE  Adds(Sum(S), S)
<1> DEFINE Up(n) == {s \in SUBSET S : Cardinality(s) <= n}
           Adding(g, n) == g = [s \in Up(n) |-> Step(g, s)]
           Bad == {s \in SUBSET S : ~\E g : Adding(g, Cardinality(s))}
<1>1. \A s \in SUBSET S : s \in SUBSET Files /\ Cardinality(s) \in Nat
  BY FileAssumption, FS_Subset, FS_CardinalityType
<1>2. ASSUME Bad # {} PROVE FALSE
  <2>1. Bad \in SUBSET (SUBSET Files)
    BY <1>1
  <2>2. PICK b \in Bad : \A r \in Bad : Cardinality(b) <= Cardinality(r)
    <3> HIDE DEF Bad
    <3> QED BY <1>2, <2>1, FewestFiles
  <2>3. b \in SUBSET S /\ ~\E g : Adding(g, Cardinality(b))
    OBVIOUS
  <2> DEFINE n == Cardinality(b)
  <2>4. n \in Nat
    BY <1>1, <2>3
  <2>5. CASE b = {}
    <3> DEFINE g == [s \in Up(n) |-> 0]
    <3>1. \A s \in Up(n) : s = {}
      <4>1. n = 0
        BY <2>5, FS_EmptySet
      <4> SUFFICES ASSUME NEW s \in Up(n), s # {} PROVE FALSE
        OBVIOUS
      <4>2. PICK f \in s : TRUE
        OBVIOUS
      <4>3. s \in SUBSET Files /\ Cardinality(s) <= n
        BY <1>1
      <4> HIDE DEF Up, n
      <4>4. /\ Cardinality(s \ {f}) \in Nat /\ Cardinality(s) \in Nat
            /\ Cardinality(s \ {f}) < Cardinality(s)
        BY <4>2, <4>3, OneFewer
      <4> QED BY <4>1, <4>3, <4>4
    <3>2. \A s \in Up(n) : Step(g, s) = 0
      <4> HIDE DEF Up, g
      <4> QED BY <3>1 DEF Step
    <3>3. Adding(g, n)
      <4> HIDE DEF Up, n
      <4> QED BY <3>2
    <3> QED BY <2>3, <3>3
  <2>6. CASE b # {}
    <3>1. PICK f \in b : TRUE
      BY <2>6
    <3> DEFINE c == b \ {f}
    <3>2. c \in SUBSET S /\ Cardinality(c) \in Nat /\ Cardinality(c) < n
      BY <1>1, <2>3, <3>1, OneFewer
    <3>3. c \notin Bad
      <4> HIDE DEF Bad, c, n
      <4>1. ~(n <= Cardinality(c))
        BY <2>4, <3>2
      <4> QED BY <2>2, <4>1 DEF n
    <3>4. PICK g : Adding(g, Cardinality(c))
      BY <3>2, <3>3
    <3> DEFINE k == Cardinality(c)
               h == [s \in Up(n) |-> Step(g, s)]
    <3>5. Cardinality(c) = n - 1
      <4>1. IsFiniteSet(b)
        BY <1>1, <2>3, FileAssumption, FS_Subset
      <4> QED BY <3>1, <4>1, FS_RemoveElement
    <3>6. \A s \in Up(n) : s # {} => s \ {Taken(s)} \in Up(k) /\ s \ {Taken(s)} \in Up(n)
      <4> SUFFICES ASSUME NEW s \in Up(n), s # {}
                   PROVE  s \ {Taken(s)} \in Up(k) /\ s \ {Taken(s)} \in Up(n)
        OBVIOUS
      <4> DEFINE r == s \ {Taken(s)}
      <4>1. s \in SUBSET S /\ s \in SUBSET Files /\ Cardinality(s) <= n
        BY <1>1
      <4>2. r \in SUBSET S /\ Cardinality(r) \in Nat /\ Cardinality(s) \in Nat
            /\ Cardinality(r) < Cardinality(s)
        BY <4>1, TakenOf, OneFewer
      <4>3. k = n - 1
        BY <3>5
      <4> HIDE DEF r, n, k
      <4>4. Cardinality(r) <= k /\ Cardinality(r) <= n
        BY <2>4, <4>1, <4>2, <4>3
      <4> QED BY <4>2, <4>4 DEF r
    <3>7. \A r \in Up(k) : r \in Up(n) /\ h[r] = g[r]
      <4>1. g = [s \in Up(k) |-> Step(g, s)]
        BY <3>4
      <4> SUFFICES ASSUME NEW r \in Up(k) PROVE r \in Up(n) /\ h[r] = g[r]
        OBVIOUS
      <4>2. r \in Up(n)
        <5>1. r \in SUBSET S /\ Cardinality(r) \in Nat /\ Cardinality(r) <= k
          BY <1>1
        <5>2. k \in Nat /\ k < n
          BY <3>2
        <5> HIDE DEF k, n
        <5>3. Cardinality(r) <= n
          BY <2>4, <5>1, <5>2
        <5> QED BY <5>1, <5>3
      <4> HIDE DEF Up, k, n
      <4>3. g[r] = Step(g, r)
        BY <4>1
      <4>4. h[r] = Step(g, r)
        BY <4>2
      <4> QED BY <4>2, <4>3, <4>4
    <3>8. \A s \in Up(n) : Step(h, s) = Step(g, s)
      <4> HIDE DEF Up, h, n, k
      <4> QED BY <3>6, <3>7 DEF Step
    <3>9. Adding(h, n)
      <4> HIDE DEF Up, n
      <4> QED BY <3>8
    <3> QED BY <2>3, <3>9
  <2> QED BY <2>5, <2>6
<1>3. \E g : Adding(g, Cardinality(S))
  BY <1>2
<1>4. Up(Cardinality(S)) = SUBSET S
  <2> SUFFICES ASSUME NEW s \in SUBSET S PROVE Cardinality(s) <= Cardinality(S)
    OBVIOUS
  <2> QED BY FileAssumption, FS_Subset
<1>5. \E g : Adds(g, S)
  <2>1. PICK g : Adding(g, Cardinality(S))
    BY <1>3
  <2>2. g = [s \in SUBSET S |-> Step(g, s)]
    <3> HIDE DEF Up
    <3> QED BY <1>4, <2>1
  <2> QED BY <2>2 DEF Adds
<1> QED BY <1>5 DEF Sum

(* The files summed from a smaller set come to the same. *)
LEMMA SumsAgree ==
  ASSUME NEW S \in SUBSET Files
  PROVE  Sum(S)[S] = Sum(Files)[S]
<1> DEFINE Bad == {s \in SUBSET S : Sum(S)[s] # Sum(Files)[s]}
<1>1. Adds(Sum(S), S) /\ Adds(Sum(Files), Files)
  BY SumExists
<1>2. ASSUME Bad # {} PROVE FALSE
  <2>1. PICK b \in Bad : \A r \in Bad : Cardinality(b) <= Cardinality(r)
    <3>1. Bad \in SUBSET (SUBSET Files)
      OBVIOUS
    <3> HIDE DEF Bad
    <3> QED BY <1>2, <3>1, FewestFiles
  <2>2. b \in SUBSET S /\ b \in SUBSET Files /\ Sum(S)[b] # Sum(Files)[b]
    OBVIOUS
  <2>3. Sum(S)[b] = Step(Sum(S), b) /\ Sum(Files)[b] = Step(Sum(Files), b)
    BY <1>1, <2>2 DEF Adds
  <2>4. b # {}
    BY <2>2, <2>3 DEF Step
  <2> DEFINE r == b \ {Taken(b)}
  <2>5. r \in SUBSET S /\ Cardinality(r) \in Nat /\ Cardinality(b) \in Nat
        /\ Cardinality(r) < Cardinality(b)
    BY <2>2, <2>4, TakenOf, OneFewer
  <2>6. r \notin Bad
    <3> HIDE DEF Bad, r
    <3>1. ~(Cardinality(b) <= Cardinality(r))
      BY <2>5
    <3> QED BY <2>1, <3>1
  <2>7. Sum(S)[r] = Sum(Files)[r]
    BY <2>5, <2>6
  <2> QED BY <2>2, <2>3, <2>4, <2>7 DEF Step
<1> QED BY <1>2

(* So a set has a size, which is computed from one function for all.         *)
LEMMA SizeFacts ==
  /\ SizeOf({}) = 0
  /\ \A s \in SUBSET Files :
       /\ SizeOf(s) \in Nat
       /\ s # {} => SizeOf(s) = Size[Taken(s)] + SizeOf(s \ {Taken(s)})
<1>1. \A s \in SUBSET Files : SizeOf(s) = Sum(Files)[s]
  BY SizeUnfolds, SumsAgree
<1>2. \A s \in SUBSET Files : Sum(Files)[s] = Step(Sum(Files), s)
  <2>1. Adds(Sum(Files), Files)
    BY SumExists
  <2> QED BY <2>1 DEF Adds
<1>3. SizeOf({}) = 0
  BY <1>1, <1>2 DEF Step
<1>4. ASSUME NEW s \in SUBSET Files, s # {}
      PROVE  SizeOf(s) = Size[Taken(s)] + SizeOf(s \ {Taken(s)})
  <2>1. s \ {Taken(s)} \in SUBSET Files
    OBVIOUS
  <2> QED BY <1>1, <1>2, <1>4, <2>1 DEF Step
<1> DEFINE Bad == {s \in SUBSET Files : SizeOf(s) \notin Nat}
<1>5. ASSUME Bad # {} PROVE FALSE
  <2>1. PICK b \in Bad : \A r \in Bad : Cardinality(b) <= Cardinality(r)
    <3>1. Bad \in SUBSET (SUBSET Files)
      OBVIOUS
    <3> HIDE DEF Bad
    <3> QED BY <1>5, <3>1, FewestFiles
  <2>2. b \in SUBSET Files /\ SizeOf(b) \notin Nat
    OBVIOUS
  <2>3. b # {}
    BY <1>3, <2>2
  <2> DEFINE r == b \ {Taken(b)}
  <2>4. r \in SUBSET Files /\ Cardinality(r) \in Nat /\ Cardinality(b) \in Nat
        /\ Cardinality(r) < Cardinality(b)
    BY <2>2, <2>3, TakenOf, OneFewer
  <2>5. r \notin Bad
    <3> HIDE DEF Bad, r
    <3>1. ~(Cardinality(b) <= Cardinality(r))
      BY <2>4
    <3> QED BY <2>1, <3>1
  <2>6. SizeOf(r) \in Nat
    BY <2>4, <2>5
  <2>7. Size[Taken(b)] \in Nat
    BY <2>2, <2>3, TakenOf, FileAssumption
  <2> QED BY <1>4, <2>2, <2>3, <2>6, <2>7
<1> QED BY <1>3, <1>4, <1>5

(* One more file. *)
LEMMA SizeAdds ==
  ASSUME NEW S \in SUBSET Files, NEW f \in Files, f \notin S
  PROVE  SizeOf(S \cup {f}) = SizeOf(S) + Size[f]
<1> DEFINE Bad == {s \in SUBSET Files :
                     \E g \in Files : g \notin s /\ SizeOf(s \cup {g}) # SizeOf(s) + Size[g]}
<1>1. ASSUME Bad # {} PROVE FALSE
  <2>1. PICK b \in Bad : \A r \in Bad : Cardinality(b) <= Cardinality(r)
    <3>1. Bad \in SUBSET (SUBSET Files)
      OBVIOUS
    <3> HIDE DEF Bad
    <3> QED BY <1>1, <3>1, FewestFiles
  <2>2. b \in SUBSET Files
    OBVIOUS
  <2>3. PICK g \in Files : g \notin b /\ SizeOf(b \cup {g}) # SizeOf(b) + Size[g]
    OBVIOUS
  <2> DEFINE c == b \cup {g}
             x == Taken(c)
  <2>4. c \in SUBSET Files /\ c # {} /\ x \in c /\ x \in Files
    BY <2>2, TakenOf
  <2>5. SizeOf(c) = Size[x] + SizeOf(c \ {x})
    BY <2>4, SizeFacts
  <2>6. CASE x = g
    <3>1. c \ {x} = b
      BY <2>3, <2>6
    <3>2. SizeOf(b) \in Nat /\ Size[g] \in Nat
      BY <2>2, SizeFacts, FileAssumption
    <3> HIDE DEF x
    <3>3. SizeOf(c) = Size[g] + SizeOf(b)
      BY <2>5, <2>6, <3>1
    <3> QED BY <2>3, <3>2, <3>3
  <2>7. CASE x # g
    <3> DEFINE r == b \ {x}
    <3>1. x \in b
      BY <2>4, <2>7
    <3>2. r \in SUBSET Files /\ Cardinality(r) \in Nat /\ Cardinality(b) \in Nat
          /\ Cardinality(r) < Cardinality(b)
      <4> HIDE DEF x
      <4> QED BY <2>2, <3>1, OneFewer
    <3>3. r \notin Bad
      <4> HIDE DEF Bad, r
      <4>1. ~(Cardinality(b) <= Cardinality(r))
        BY <3>2
      <4> QED BY <2>1, <4>1
    <3>4. \A e \in Files : e \notin r => SizeOf(r \cup {e}) = SizeOf(r) + Size[e]
      BY <3>2, <3>3
    <3> HIDE DEF x
    <3>5. c \ {x} = r \cup {g} /\ b = r \cup {x} /\ g \notin r /\ x \notin r
      BY <2>3, <2>7, <3>1
    <3>6. SizeOf(c \ {x}) = SizeOf(r) + Size[g] /\ SizeOf(b) = SizeOf(r) + Size[x]
      BY <2>4, <3>4, <3>5
    <3>7. SizeOf(r) \in Nat /\ Size[x] \in Nat /\ Size[g] \in Nat
      BY <2>4, <3>2, SizeFacts, FileAssumption
    <3> QED BY <2>3, <2>5, <3>6, <3>7
  <2> QED BY <2>6, <2>7
<1> QED BY <1>1

(* A part is no larger than the whole, and two parts no smaller.             *)
LEMMA SizeBounds ==
  ASSUME NEW S \in SUBSET Files, NEW T \in SUBSET Files
  PROVE  /\ S \subseteq T => SizeOf(S) <= SizeOf(T)
         /\ SizeOf(S \cup T) <= SizeOf(S) + SizeOf(T)
<1> DEFINE Large(s) == SizeOf(S \cup s) > SizeOf(S) + SizeOf(s) \/ SizeOf(S \cup s) < SizeOf(S)
           Bad == {s \in SUBSET Files : Large(s)}
<1>0. \A s \in SUBSET Files : SizeOf(s) \in Nat
  BY SizeFacts
<1>1. ASSUME Bad # {} PROVE FALSE
  <2>1. PICK b \in Bad : \A r \in Bad : Cardinality(b) <= Cardinality(r)
    <3>1. Bad \in SUBSET (SUBSET Files)
      OBVIOUS
    <3> HIDE DEF Bad
    <3> QED BY <1>1, <3>1, FewestFiles
  <2>2. b \in SUBSET Files /\ Large(b)
    OBVIOUS
  <2>3. b # {}
    <3>1. ASSUME b = {} PROVE FALSE
      <4>1. S \cup b = S /\ SizeOf(b) = 0 /\ SizeOf(S) \in Nat
        BY <1>0, <3>1, SizeFacts
      <4> QED BY <2>2, <4>1
    <3> QED BY <3>1
  <2>4. PICK f \in b : TRUE
    BY <2>3
  <2> DEFINE r == b \ {f}
  <2>5. r \in SUBSET Files /\ Cardinality(r) \in Nat /\ Cardinality(b) \in Nat
        /\ Cardinality(r) < Cardinality(b)
    BY <2>2, <2>4, OneFewer
  <2>6. r \notin Bad
    <3> HIDE DEF Bad, r
    <3>1. ~(Cardinality(b) <= Cardinality(r))
      BY <2>5
    <3> QED BY <2>1, <3>1
  <2>7. ~Large(r)
    BY <2>5, <2>6
  <2>8. f \in Files /\ Size[f] \in Nat /\ f \notin r /\ b = r \cup {f}
        /\ S \cup b = (S \cup r) \cup {f} /\ S \cup r \in SUBSET Files /\ S \cup b \in SUBSET Files
    BY <2>2, <2>4, <2>5, FileAssumption
  <2> HIDE DEF r
  <2>9. SizeOf(b) = SizeOf(r) + Size[f]
    BY <2>5, <2>8, SizeAdds
  <2>10. SizeOf(S \cup b) \in {SizeOf(S \cup r), SizeOf(S \cup r) + Size[f]}
    <3>1. CASE f \in S \cup r
      <4>1. S \cup b = S \cup r
        BY <2>8, <3>1
      <4> QED BY <4>1
    <3>2. CASE f \notin S \cup r
      <4>1. SizeOf((S \cup r) \cup {f}) = SizeOf(S \cup r) + Size[f]
        BY <2>8, <3>2, SizeAdds
      <4> QED BY <2>8, <4>1
    <3> QED BY <3>1, <3>2
  <2>11. /\ SizeOf(S) \in Nat /\ SizeOf(r) \in Nat /\ SizeOf(S \cup r) \in Nat
         /\ SizeOf(S \cup b) \in Nat /\ SizeOf(b) \in Nat
    BY <1>0, <2>2, <2>5, <2>8
  <2> DEFINE sS == SizeOf(S)
             sr == SizeOf(r)
             sSr == SizeOf(S \cup r)
             sSb == SizeOf(S \cup b)
             sb == SizeOf(b)
  <2>12. ~(sSb > sS + sb \/ sSb < sS)
    <3>1. ~(sSr > sS + sr \/ sSr < sS)
      BY <2>7
    <3>2. sS \in Nat /\ sr \in Nat /\ sSr \in Nat /\ sSb \in Nat /\ sb \in Nat
      BY <2>11
    <3>3. sb = sr + Size[f] /\ sSb \in {sSr, sSr + Size[f]} /\ Size[f] \in Nat
      BY <2>8, <2>9, <2>10
    <3> HIDE DEF sS, sr, sSr, sSb, sb
    <3> QED BY <3>1, <3>2, <3>3
  <2> QED BY <2>2, <2>12
<1>2. ~Large(T)
  BY <1>1
<1>3. SizeOf(S) \in Nat /\ SizeOf(T) \in Nat /\ SizeOf(S \cup T) \in Nat
  BY <1>0
<1>4. S \subseteq T => S \cup T = T
  OBVIOUS
<1>5. ~(SizeOf(S \cup T) > SizeOf(S) + SizeOf(T)) /\ ~(SizeOf(S \cup T) < SizeOf(S))
  BY <1>2
<1>6. SizeOf(S \cup T) <= SizeOf(S) + SizeOf(T) /\ SizeOf(S) <= SizeOf(S \cup T)
  BY <1>3, <1>5
<1> QED BY <1>4, <1>6

(* What QuotaHeld counts of a user. *)
Charged(u) == {f \in FilesOf(u) \ excess : row[f] = "live" \/ reservation[f] = "held"}

(* Whoever is not let in by ReserveStorage adds nothing. *)
LEMMA ChargedShrinks ==
  ASSUME QuotaHeld, \A u \in Users : Charged(u)' \subseteq Charged(u)
  PROVE  QuotaHeld'
<1> SUFFICES ASSUME NEW u \in Users PROVE SizeOf(Charged(u)') <= Quota
  BY DEF QuotaHeld, Charged
<1> DEFINE C == Charged(u)
<1>1. C \in SUBSET Files /\ C' \in SUBSET Files /\ C' \subseteq C
  BY DEF Charged, FilesOf
<1>2. SizeOf(C) <= Quota
  BY DEF QuotaHeld, Charged
<1> HIDE DEF C
<1>3. SizeOf(C') <= SizeOf(C) /\ SizeOf(C) \in Nat /\ SizeOf(C') \in Nat
  BY <1>1, SizeBounds, SizeFacts
<1>4. SizeOf(C') <= Quota
  BY <1>2, <1>3, FileAssumption
<1> QED BY <1>4 DEF C

LEMMA QuotaStep ==
  ASSUME ~ReadCommitted, TypeOK, QuotaHeld, [Next]_vars
  PROVE  QuotaHeld'
<1>0. /\ row \in [Files -> {"none", "live", "deleted"}]
      /\ reservation \in [Files -> {"none", "held", "lapsed"}] /\ excess \subseteq Files
  BY DEF TypeOK
<1>1. ASSUME \A f \in Files \ excess' :
                row'[f] = "live" \/ reservation'[f] = "held" =>
                row[f] = "live" \/ reservation[f] = "held",
             excess \subseteq excess'
      PROVE  QuotaHeld'
  BY <1>1, ChargedShrinks DEF Charged, FilesOf
<1>2. ASSUME NEW f \in Files, Reserve(f) PROVE QuotaHeld'
  <2>1. CASE RoomFor(f) /\ reservation' = [reservation EXCEPT ![f] = "held"]
    <3>1. UNCHANGED <<row, excess>>
      BY <1>2 DEF Reserve, faultVars
    <3> SUFFICES ASSUME NEW u \in Users PROVE SizeOf(Charged(u)') <= Quota
      BY DEF QuotaHeld, Charged
    <3>2. CASE u # Owner[f]
      <4>1. Charged(u)' = Charged(u)
        BY <1>0, <2>1, <3>1, <3>2 DEF Charged, FilesOf
      <4> QED BY <4>1 DEF QuotaHeld, Charged
    <3>3. CASE u = Owner[f]
      <4> DEFINE S == Stored(u)
                 P == Pending(u)
                 C == Charged(u)'
      <4>1. SizeOf(S) + SizeOf(P) + Size[f] <= Quota
        BY <2>1, <3>3 DEF RoomFor, Counted
      <4>2. C \subseteq (S \cup P) \cup {f}
        BY <1>0, <2>1, <3>1 DEF Charged, Stored, Pending, FilesOf
      <4>3. S \in SUBSET Files /\ P \in SUBSET Files /\ C \in SUBSET Files
        BY DEF Charged, Stored, Pending, FilesOf
      <4> HIDE DEF S, P, C
      <4>4. /\ S \cup P \in SUBSET Files /\ (S \cup P) \cup {f} \in SUBSET Files
            /\ {f} \in SUBSET Files /\ {} \in SUBSET Files
        BY <4>3
      <4>5. SizeOf({f}) = Size[f]
        <5>1. SizeOf({} \cup {f}) = SizeOf({}) + Size[f]
          BY SizeAdds
        <5>2. {} \cup {f} = {f} /\ SizeOf({}) = 0 /\ Size[f] \in Nat
          BY SizeFacts, FileAssumption
        <5> QED BY <5>1, <5>2
      <4>6. /\ SizeOf(C) <= SizeOf((S \cup P) \cup {f})
            /\ SizeOf((S \cup P) \cup {f}) <= SizeOf(S \cup P) + SizeOf({f})
            /\ SizeOf(S \cup P) <= SizeOf(S) + SizeOf(P)
        BY <4>2, <4>3, <4>4, SizeBounds
      <4> DEFINE sC == SizeOf(C)
                 sAll == SizeOf((S \cup P) \cup {f})
                 sSP == SizeOf(S \cup P)
                 sS == SizeOf(S)
                 sP == SizeOf(P)
      <4>7. sC \in Nat /\ sAll \in Nat /\ sSP \in Nat /\ sS \in Nat /\ sP \in Nat
        BY <4>3, <4>4, SizeFacts
      <4>8. /\ sC <= sAll /\ sAll <= sSP + Size[f] /\ sSP <= sS + sP /\ sS + sP + Size[f] <= Quota
            /\ Size[f] \in Nat /\ Quota \in Nat
        BY <4>1, <4>5, <4>6, FileAssumption
      <4> HIDE DEF sC, sAll, sSP, sS, sP
      <4>9. sC <= Quota
        BY <4>7, <4>8
      <4> QED BY <4>9 DEF sC, C
    <3> QED BY <3>2, <3>3
  <2>2. CASE reservation' = reservation
    BY <1>1, <1>2, <2>2 DEF Reserve, faultVars
  <2> QED BY <1>2, <2>1, <2>2 DEF Reserve
<1>3. ASSUME NEW f \in Files,
             \/ CountStored(f) \/ Route(f) \/ PutBucket(f) \/ PutLocal(f) \/ SaveFile(f)
             \/ UploadFails(f) \/ ReleaseReservation(f) \/ UploadDies(f)
      PROVE  QuotaHeld'
  <2>1. CASE SaveFile(f)
    BY <1>0, <1>1, <2>1 DEF SaveFile
  <2>2. CASE CountStored(f) \/ ReleaseReservation(f)
    BY <1>0, <1>1, <2>2 DEF CountStored, ReleaseReservation, faultVars
  <2>3. CASE Route(f) \/ PutBucket(f) \/ PutLocal(f) \/ UploadFails(f) \/ UploadDies(f)
    BY <1>1, <2>3 DEF Route, PutBucket, PutLocal, UploadFails, UploadDies, rowVars, faultVars
  <2> QED BY <1>3, <2>1, <2>2, <2>3
<1>4. CASE ClockNext \/ UserNext
  <2>1. ASSUME NEW f \in Files, ReservationLapses(f) PROVE QuotaHeld'
    BY <1>0, <1>1, <2>1 DEF ReservationLapses, faultVars
  <2>2. ASSUME NEW f \in Files, Expire(f) PROVE QuotaHeld'
    BY <1>1, <2>2 DEF Expire, faultVars
  <2>3. ASSUME NEW h \in Holders, HolderLapses(h) PROVE QuotaHeld'
    BY <1>1, <2>3 DEF HolderLapses, rowVars, faultVars
  <2>4. CASE UserNext
    BY <1>1, <2>4 DEF UserNext, Retain, DeleteHolders, DeleteHistory, DropPayloads, rowVars,
       faultVars
  <2> QED BY <1>4, <2>1, <2>2, <2>3, <2>4 DEF ClockNext
<1>5. ASSUME NEW d \in Deleters, DeleterStep(d) \/ DeleterFault(d) PROVE QuotaHeld'
  <2>1. CASE Claim(d)
    <3>1. excess' = excess /\ reservation' = reservation
      BY <2>1 DEF Claim, faultVars
    <3>2. \A f \in Files : row'[f] = "live" => row[f] = "live"
      BY <1>0, <2>1 DEF Claim
    <3> QED BY <1>1, <3>1, <3>2
  <2>2. CASE RestoreRow(d)
    <3>1. excess' = excess \cup {File(d)} /\ reservation' = reservation
          /\ row' = [row EXCEPT ![File(d)] = "live"]
      BY <2>2 DEF RestoreRow
    <3> QED BY <1>0, <1>1, <3>1
  <2>3. CASE Finish(d) \/ RemoveObject(d) \/ DeleteRow(d)
    BY <1>1, <2>3 DEF Finish, RemoveObject, DeleteRow, rowVars, faultVars
  <2>4. CASE DeleterFault(d)
    BY <1>1, <2>4 DEF DeleterFault, ClaimFails, RemoveFails, RestoreFails, DeleterDies,
       DeleteRowFails, rowVars, faultVars
  <2> QED BY <1>5, <2>1, <2>2, <2>3, <2>4 DEF DeleterStep
<1>6. CASE CleanerStep \/ CleanerFault \/ UNCHANGED vars
  BY <1>1, <1>6 DEF CleanerStep, WakeCleaner, EndHistories, ListGarbage, CleanHistory, CleanerFault,
     HistoriesFail, ListFails, vars, rowVars, faultVars
<1> QED BY <1>2, <1>3, <1>4, <1>5, <1>6 DEF Next, UploadNext

(* Where a transaction has one snapshot (SQLite, MySQL), the concurrent      *)
(* uploads of a user never pass the quota together, whatever the sizes:    *)
(* ReserveStorage counts each stored and each reserved file, and a row     *)
(* takes the place of its reservation.  PostgreSQL, which takes a snapshot *)
(* for each of the two sums, is left out.                                  *)
THEOREM QuotaIsHeld ==
  ASSUME ~ReadCommitted
  PROVE  Spec => []QuotaHeld
<1>1. Init => QuotaHeld
  <2> SUFFICES ASSUME Init, NEW u \in Users PROVE SizeOf(Charged(u)) <= Quota
    BY DEF QuotaHeld, Charged
  <2>1. Charged(u) = {}
    BY DEF Init, Charged, FilesOf
  <2> QED BY <2>1, SizeFacts, FileAssumption
<1>2. TypeOK /\ QuotaHeld /\ [Next]_vars => QuotaHeld'
  BY QuotaStep
<1> QED BY <1>1, <1>2, TypeCorrect, PTL DEF Spec
-----------------------------------------------------------------------------
(* What is reclaimed stays reclaimed *)

(* The deletion of f is over: its row is marked and nobody works on it.      *)
Reclaimed(f) ==
  row[f] = "deleted" /\ \A d \in Deleters : ~(Deleting(d) /\ File(d) = f)

(* No holder keeps f, and what is left of it a fault has left.               *)
Swept(f) ==
  /\ Reclaimed(f)
  /\ \A h \in Holders \ lapsed : f \notin refs[h]
  /\ \A p \in Places : <<f, p>> \notin objects \ leaked

(* A file whose deletion is over never comes back: no late error of another *)
(* deletion restores its row, no upload saves it, nobody retains it.       *)
ReclaimedForGood == [][\A f \in Files : Reclaimed(f) => Swept(f) /\ Swept(f)']_vars

LEMMA ReclaimedSwept ==
  ASSUME DeletionsApart, RetainedFilesKept, ObjectsAccounted, NEW f \in Files, Reclaimed(f)
  PROVE  Swept(f)
<1>1. \A h \in Holders \ lapsed : f \notin refs[h]
  BY DEF Reclaimed, RetainedFilesKept
<1>2. up[f] \notin Written
  BY DEF Reclaimed, DeletionsApart, Uploading, Written
<1>3. \A p \in Places : <<f, p>> \notin objects \ leaked
  BY <1>2 DEF Reclaimed, ObjectsAccounted
<1> QED BY <1>1, <1>3 DEF Swept

(* The end of a removal lets go of its file, and of no other.                *)
LEMMA ReclaimedStep ==
  ASSUME TypeOK, DeletionsApart, [Next]_vars, NEW f \in Files, Reclaimed(f)
  PROVE  Reclaimed(f)'
<1>1. CASE Quiet
  BY <1>1 DEF Quiet, Reclaimed, Deleting, File
<1>2. ASSUME NEW g \in Files, UploadStep(g)
      PROVE  Reclaimed(f)'
  <2>1. UNCHANGED <<act, todo>>
    BY <1>2 DEF UploadStep, deleteVars
  <2>2. row' = row \/ (row[g] = "none" /\ row' = [row EXCEPT ![g] = "live"])
    BY <1>2 DEF UploadStep, CountStored, Reserve, Route, PutBucket, PutLocal, SaveFile,
                UploadFails, ReleaseReservation, UploadDies, rowVars, Written, Uploading,
                DeletionsApart
  <2>3. row'[f] = "deleted"
    BY <2>2 DEF Reclaimed, TypeOK
  <2> QED BY <2>1, <2>3 DEF Reclaimed, Deleting, File
<1>3. ASSUME NEW d \in Deleters, RemovalStep(d)
      PROVE  Reclaimed(f)'
  <2>1. \A e \in Deleters \ {d} : act'[e] = act[e] /\ todo'[e] = todo[e]
    BY <1>3 DEF RemovalStep, Claim, RemoveObject, RestoreRow, RemoveFails, RestoreFails,
                DeleterDies, Stop, TypeOK
  <2>2. \A e \in Deleters \ {d} : ~(Deleting(e) /\ File(e) = f)'
    BY <2>1 DEF Reclaimed, Deleting, File
  <2>3. CASE Claim(d)
    <3>1. \/ ~Deleting(d)' /\ row' = row
          \/ /\ row[File(d)] = "live" /\ row' = [row EXCEPT ![File(d)] = "deleted"]
             /\ todo' = todo
      BY <2>3 DEF Claim, Claimable, Deleting, TypeOK
    <3>2. row'[f] = "deleted"
      BY <3>1 DEF Reclaimed, TypeOK
    <3>3. ~(Deleting(d) /\ File(d) = f)'
      BY <3>1 DEF Reclaimed, File
    <3> QED BY <2>2, <3>2, <3>3 DEF Reclaimed
  <2>4. CASE RemoveFails(d)
    <3>1. Deleting(d) /\ todo' = todo /\ row' = row
      BY <2>4 DEF RemoveFails, Deleting, rowVars
    <3> QED BY <2>2, <3>1 DEF Reclaimed, File
  <2>5. CASE RestoreRow(d)
    <3>1. /\ Deleting(d) /\ row' = [row EXCEPT ![File(d)] = "live"]
          /\ act'[d] = WhenFailed(d)
      BY <2>5 DEF RestoreRow, Stop, Deleting, TypeOK
    <3>2. File(d) # f /\ ~Deleting(d)'
      BY <3>1 DEF Reclaimed, Deleting, WhenFailed
    <3> QED BY <2>2, <3>1, <3>2 DEF Reclaimed, TypeOK
  <2>6. CASE RemoveObject(d) \/ RestoreFails(d) \/ DeleterDies(d)
    <3>1. row' = row /\ act'[d] \in {"next", "idle", "list"}
      BY <2>6 DEF RemoveObject, RestoreFails, DeleterDies, Stop, WhenFailed, rowVars, TypeOK
    <3> QED BY <2>2, <3>1 DEF Reclaimed, Deleting
  <2> QED BY <1>3, <2>3, <2>4, <2>5, <2>6 DEF RemovalStep
<1> QED BY <1>1, <1>2, <1>3, StorageSteps

(* What GarbageReclaimed promises to last does last: once the deletion of a  *)
(* file is over, no step of an upload, a holder, a second deletion or the  *)
(* hourly round brings its row back, gives it a reference or an object     *)
(* (DeleteCloudFiles, whose restore after an error of deleteStoredFile     *)
(* does not ask who marked the row).                                       *)
THEOREM ReclaimedStaysSo == Spec => ReclaimedForGood
<1> DEFINE I == /\ TypeOK /\ ScopesReleased /\ RetainedFilesKept
                /\ DeletionsApart /\ RowsHaveObjects /\ ObjectsAccounted
<1>1. I /\ I' /\ [Next]_vars => \A f \in Files : Reclaimed(f) => Swept(f) /\ Swept(f)'
  <2> SUFFICES ASSUME I, I', [Next]_vars, NEW f \in Files, Reclaimed(f)
               PROVE  Swept(f) /\ Swept(f)'
    OBVIOUS
  <2>1. Swept(f)
    BY ReclaimedSwept
  <2>2. Reclaimed(f)'
    BY ReclaimedStep
  <2>3. \A h \in Holders \ lapsed' : f \notin refs'[h]
    BY <2>2 DEF Reclaimed, RetainedFilesKept
  <2>4. up'[f] \notin Written
    BY <2>2 DEF Reclaimed, DeletionsApart, Uploading, Written
  <2>5. \A p \in Places : <<f, p>> \notin objects' \ leaked'
    BY <2>2, <2>4 DEF Reclaimed, ObjectsAccounted
  <2> QED BY <2>1, <2>2, <2>3, <2>5 DEF Swept
<1> HIDE DEF I
<1>2. Spec => []I
  BY Invariance DEF I
<1> QED BY <1>1, <1>2, PTL DEF Spec, ReclaimedForGood
-----------------------------------------------------------------------------
(* Every list of a deletion, and every round, comes to its end *)

(* How far deleter d has to go: the parts of a round (the histories, the     *)
(* list of expired files, its files), and what is left of a file.          *)
Part(d) ==
  IF act[d] = "idle" THEN 0
  ELSE IF act[d] = "list" THEN 2
  ELSE IF act[d] = "histories" \/ (d = Cleaner /\ scope[d] \in Histories) THEN 3
  ELSE 1
Stage(a) ==
  CASE a = "next" -> 3 [] a = "remove" -> 2 [] a \in {"restore", "row"} -> 1 [] OTHER -> 0

(* It gets nearer to its end: in the order of the parts, then of the         *)
(* histories left, the files left and the stages.                          *)
Shorter(d) ==
  \/ Len(todo'[d]) < Len(todo[d])
  \/ Len(todo'[d]) = Len(todo[d]) /\ Stage(act'[d]) < Stage(act[d])
Nearer(d) ==
  \/ Part(d)' < Part(d)
  \/ Part(d)' = Part(d) /\ d = Cleaner /\ due' \subseteq due /\ due' # due
  \/ Part(d)' = Part(d) /\ (d = Cleaner => due' = due) /\ Shorter(d)
Stays(d) ==
  /\ act'[d] = act[d] /\ todo'[d] = todo[d] /\ scope'[d] = scope[d]
  /\ d = Cleaner => due' = due

(* A deletion that is under way is only ever moved towards its end, by its  *)
(* regular steps and by its errors, and by nobody else.                    *)
DeletionsEnd == [][\A d \in Deleters : act[d] = "idle" \/ Stays(d) \/ Nearer(d)]_vars

(* Where the hourly round is, and for which history a deletion works.        *)
Settled(d) ==
  /\ act[d] \in {"histories", "list"} => d = Cleaner
  /\ act[d] \in {"idle", "histories", "list"} => scope[d] \notin Histories
  /\ act[d] = "row" => scope[d] \in Histories
InOrder == due \subseteq Histories /\ \A d \in Deleters : Settled(d)

(* A step in which nobody but d deletes; it may take up what has lapsed.     *)
Alone(d) ==
  /\ \A e \in Deleters \ {d} : act'[e] = act[e] /\ todo'[e] = todo[e] /\ scope'[e] = scope[e]
  /\ due' \subseteq due \cup lapsed
  /\ d # Cleaner => due' = due

(* What a step has to be for InOrder and DeletionsEnd.                       *)
Ordered == InOrder' /\ \A d \in Deleters : act[d] = "idle" \/ Stays(d) \/ Nearer(d)

LEMMA NobodyDeletes ==
  ASSUME InOrder, UNCHANGED deleteVars
  PROVE  Ordered
BY DEF InOrder, Settled, Ordered, Stays, deleteVars

LEMMA OneDeletes ==
  ASSUME TypeOK, InOrder, NEW d \in Deleters, Alone(d), Settled(d)',
         act[d] = "idle" \/ Nearer(d)
  PROVE  Ordered
<1>1. ASSUME NEW e \in Deleters, e # d PROVE Settled(e)' /\ Stays(e)
  <2>1. act'[e] = act[e] /\ todo'[e] = todo[e] /\ scope'[e] = scope[e]
    BY <1>1 DEF Alone
  <2>2. e = Cleaner => due' = due
    BY <1>1 DEF Alone
  <2>3. Settled(e)
    BY DEF InOrder
  <2> QED BY <2>1, <2>2, <2>3 DEF Settled, Stays
<1>2. due' \subseteq Histories
  BY DEF Alone, InOrder, TypeOK
<1> QED BY <1>1, <1>2 DEF Ordered, InOrder

(* A list that is given up.                                                  *)
LEMMA GivenUp ==
  ASSUME TypeOK, InOrder, NEW d \in Deleters, act[d] # "idle", act[d] # "list",
         act[d] # "histories",
         \/ act' = [act EXCEPT ![d] = WhenFailed(d)]
         \/ act' = [act EXCEPT ![d] = "idle"],
         todo' = [todo EXCEPT ![d] = <<>>],
         scope' = [scope EXCEPT ![d] = None],
         due' = IF d = Cleaner THEN {} ELSE due
  PROVE  Ordered
<1>1. Alone(d)
  BY DEF Alone, TypeOK
<1>2. scope'[d] = None /\ None \notin Histories
  BY HolderAssumption DEF TypeOK
<1>3. act'[d] = "idle" \/ (act'[d] = "list" /\ d = Cleaner /\ scope[d] \in Histories)
  BY DEF WhenFailed, TypeOK
<1>4. Settled(d)'
  BY <1>2, <1>3 DEF Settled
<1>5. Part(d)' < Part(d)
  BY <1>3 DEF Part
<1> QED BY <1>1, <1>4, <1>5, OneDeletes DEF Nearer

LEMMA OrderStep ==
  ASSUME TypeOK, DeletionsApart, InOrder, [Next]_vars
  PROVE  Ordered
<1> Cleaner \in Deleters
  BY DEF Deleters
<1>1. CASE UploadNext
  <2>1. UNCHANGED deleteVars
    BY <1>1 DEF UploadNext, CountStored, Reserve, Route, PutBucket, PutLocal, SaveFile,
                UploadFails, ReleaseReservation, UploadDies
  <2> QED BY <2>1, NobodyDeletes
<1>2. CASE ClockNext
  <2>1. UNCHANGED deleteVars
    BY <1>2 DEF ClockNext, ReservationLapses, Expire, HolderLapses
  <2> QED BY <2>1, NobodyDeletes
<1>3. CASE UserNext
  <2>1. ASSUME NEW h \in Holders, NEW S \in SUBSET Files, Retain(h, S) PROVE Ordered
    BY <2>1, NobodyDeletes DEF Retain
  <2>2. ASSUME NEW d \in Deleters, act[d] = "idle", \E s : todo' = [todo EXCEPT ![d] = s],
               act' = [act EXCEPT ![d] = "next"], due' = due,
               scope' = scope \/ \E h : scope' = [scope EXCEPT ![d] = h]
        PROVE  Ordered
    <3>1. Alone(d)
      BY <2>2 DEF Alone, TypeOK
    <3>2. Settled(d)'
      BY <2>2 DEF Settled, TypeOK
    <3> QED BY <2>2, <3>1, <3>2, OneDeletes
  <2>3. ASSUME NEW d \in Requests, NEW H \in SUBSET Holders, DeleteHolders(d, H) PROVE Ordered
    BY <2>2, <2>3 DEF DeleteHolders, ReleaseScopes, Deleters
  <2>4. ASSUME NEW d \in Requests, NEW h \in Holders, DeleteHistory(d, h) PROVE Ordered
    BY <2>2, <2>4 DEF DeleteHistory, ReleaseScopes, Deleters
  <2>5. ASSUME NEW d \in Requests, NEW S \in SUBSET Files, DropPayloads(d, S) PROVE Ordered
    BY <2>2, <2>5 DEF DropPayloads, Deleters
  <2> QED BY <1>3, <2>1, <2>3, <2>4, <2>5 DEF UserNext
<1>4. ASSUME NEW d \in Deleters, DeleterStep(d) \/ DeleterFault(d) PROVE Ordered
  <2> Settled(d)
    BY DEF InOrder
  <2>1. CASE Finish(d)
    <3>1. /\ act[d] = "next" /\ act'[d] = WhenDone(d) /\ UNCHANGED <<todo, scope, due>>
          /\ Alone(d)
      BY <2>1 DEF Finish, Alone, TypeOK
    <3>2. CASE scope[d] \in Histories
      <4>1. act'[d] = "row" /\ scope'[d] = scope[d] /\ todo'[d] = todo[d]
        BY <3>1, <3>2 DEF WhenDone
      <4>2. Settled(d)'
        BY <3>2, <4>1 DEF Settled
      <4>3. Part(d)' = Part(d) /\ Stage(act'[d]) < Stage(act[d])
        BY <3>1, <4>1 DEF Part, Stage
      <4> QED BY <3>1, <4>1, <4>2, <4>3, OneDeletes DEF Nearer, Shorter
    <3>3. CASE scope[d] \notin Histories
      <4>1. act'[d] = "idle" /\ scope'[d] = scope[d]
        BY <3>1, <3>3 DEF WhenDone
      <4>2. Settled(d)' /\ Part(d)' < Part(d)
        BY <3>1, <3>3, <4>1 DEF Settled, Part
      <4> QED BY <3>1, <4>2, OneDeletes DEF Nearer
    <3> QED BY <3>2, <3>3
  <2>2. CASE Claim(d) \/ RemoveObject(d) \/ RemoveFails(d)
    <3>1. /\ UNCHANGED <<scope, due>> /\ act[d] \in {"next", "remove"}
          /\ act'[d] \in {"next", "remove", "restore"} /\ Alone(d)
      BY <2>2 DEF Claim, RemoveObject, RemoveFails, Alone, TypeOK
    <3>2. Settled(d)' /\ Part(d)' = Part(d)
      BY <3>1 DEF Settled, Part
    <3>3. \/ todo'[d] = todo[d] /\ Stage(act'[d]) < Stage(act[d])
          \/ todo[d] # <<>> /\ todo'[d] = Tail(todo[d])
      <4>1. CASE Claim(d)
        BY <4>1 DEF Claim, Stage, TypeOK
      <4>2. CASE RemoveObject(d)
        <5>1. Deleting(d) /\ todo' = [todo EXCEPT ![d] = Tail(@)]
          BY <4>2 DEF RemoveObject, Deleting
        <5>2. todo[d] # <<>>
          BY <5>1 DEF DeletionsApart
        <5> QED BY <5>1, <5>2 DEF TypeOK
      <4>3. CASE RemoveFails(d)
        BY <4>3 DEF RemoveFails, Stage, TypeOK
      <4> QED BY <2>2, <4>1, <4>2, <4>3
    <3>4. Shorter(d)
      <4>1. todo[d] \in Seq(Files)
        BY DEF TypeOK
      <4>2. todo[d] # <<>> => Len(Tail(todo[d])) < Len(todo[d])
        BY <4>1
      <4> QED BY <3>3, <4>2 DEF Shorter
    <3> QED BY <3>1, <3>2, <3>4, OneDeletes DEF Nearer
  <2>3. CASE ClaimFails(d) \/ RestoreRow(d) \/ RestoreFails(d) \/ DeleteRowFails(d)
    <3>1. Stop(d) /\ act[d] \in {"next", "restore", "row"}
      BY <2>3 DEF ClaimFails, RestoreRow, RestoreFails, DeleteRowFails
    <3> QED BY <3>1, GivenUp DEF Stop
  <2>4. CASE DeleterDies(d)
    <3>1. CASE act[d] \in {"list", "histories"}
      <4>1. /\ d = Cleaner /\ act'[d] = "idle" /\ scope'[d] = None /\ Alone(d)
        BY <2>4, <3>1 DEF DeleterDies, Alone, Settled, TypeOK
      <4>2. Settled(d)' /\ Part(d)' < Part(d)
        BY <3>1, <4>1, HolderAssumption DEF Settled, Part
      <4> QED BY <4>1, <4>2, OneDeletes DEF Nearer
    <3> QED BY <2>4, <3>1, GivenUp DEF DeleterDies
  <2>5. CASE DeleteRow(d)
    <3>1. /\ act[d] = "row" /\ scope[d] \in Histories /\ scope'[d] = None
          /\ act'[d] = (IF d = Cleaner THEN "histories" ELSE "idle")
          /\ UNCHANGED <<todo, due>> /\ Alone(d)
      BY <2>5 DEF DeleteRow, Alone, Settled, TypeOK
    <3>2. Settled(d)'
      BY <3>1, HolderAssumption DEF Settled
    <3>3. CASE d = Cleaner
      <4>1. Part(d)' = Part(d) /\ Stage(act'[d]) < Stage(act[d])
        BY <3>1, <3>3 DEF Part, Stage
      <4> QED BY <3>1, <3>2, <4>1, OneDeletes DEF Nearer, Shorter
    <3>4. CASE d # Cleaner
      <4>1. Part(d)' < Part(d)
        BY <3>1, <3>4 DEF Part
      <4> QED BY <3>1, <3>2, <4>1, OneDeletes DEF Nearer
    <3> QED BY <3>3, <3>4
  <2> QED BY <1>4, <2>1, <2>2, <2>3, <2>4, <2>5 DEF DeleterStep, DeleterFault
<1>5. CASE WakeCleaner
  <2>1. Alone(Cleaner) /\ act[Cleaner] = "idle" /\ scope' = scope /\ act'[Cleaner] = "histories"
    BY <1>5 DEF WakeCleaner, Alone, TypeOK
  <2>2. Settled(Cleaner)'
    BY <2>1 DEF InOrder, Settled
  <2> QED BY <2>1, <2>2, OneDeletes
<1>6. ASSUME NEW h \in Holders, CleanHistory(h) PROVE Ordered
  <2>1. /\ Alone(Cleaner) /\ act[Cleaner] = "histories" /\ act'[Cleaner] = "next"
        /\ h \in due /\ due' = due \ {h} /\ scope'[Cleaner] = h
    BY <1>6 DEF CleanHistory, ReleaseScopes, Alone, TypeOK
  <2>2. h \in Histories
    BY <2>1 DEF InOrder
  <2>3. Settled(Cleaner)' /\ Part(Cleaner)' = Part(Cleaner)
    BY <2>1, <2>2 DEF Settled, Part
  <2> QED BY <2>1, <2>3, OneDeletes DEF Nearer
<1>7. CASE EndHistories \/ HistoriesFail
  <2>1. /\ Alone(Cleaner) /\ act[Cleaner] = "histories" /\ act'[Cleaner] = "list"
        /\ scope' = scope
    BY <1>7 DEF EndHistories, HistoriesFail, Alone, TypeOK
  <2>2. Settled(Cleaner)' /\ Part(Cleaner)' < Part(Cleaner)
    BY <2>1 DEF InOrder, Settled, Part
  <2> QED BY <2>1, <2>2, OneDeletes DEF Nearer
<1>8. CASE ListGarbage \/ ListFails
  <2>1. /\ Alone(Cleaner) /\ act[Cleaner] = "list" /\ act'[Cleaner] \in {"next", "idle"}
        /\ scope' = scope
    BY <1>8 DEF ListGarbage, ListFails, Alone, TypeOK
  <2>2. Settled(Cleaner)' /\ Part(Cleaner)' < Part(Cleaner)
    BY <2>1 DEF InOrder, Settled, Part
  <2> QED BY <2>1, <2>2, OneDeletes DEF Nearer
<1>9. CASE UNCHANGED vars
  BY <1>9, NobodyDeletes DEF vars
<1> QED
  BY <1>1, <1>2, <1>3, <1>4, <1>5, <1>6, <1>7, <1>8, <1>9
  DEF Next, CleanerStep, CleanerFault

(* Every deletion ends: whichever of its statements fail and whatever        *)
(* uploads, holders and other deletions do meanwhile, each step of a       *)
(* DeleteCloudFiles or of an hourly round leaves less to do, no error is   *)
(* retried within it, and a round lists histories and files once.  (due    *)
(* and todo are finite, so that the order is well-founded.)                *)
THEOREM EveryDeletionEnds == Spec => DeletionsEnd
<1>1. Init => InOrder
  BY HolderAssumption DEF Init, InOrder, Settled
<1>2. TypeOK /\ DeletionsApart /\ InOrder /\ [Next]_vars => Ordered
  BY OrderStep
<1>3. Ordered => InOrder' /\ \A d \in Deleters : act[d] = "idle" \/ Stays(d) \/ Nearer(d)
  BY DEF Ordered
<1>4. Spec => [](TypeOK /\ DeletionsApart)
  BY Invariance, PTL
<1>5. Spec => []InOrder
  BY <1>1, <1>2, <1>3, <1>4, PTL DEF Spec
<1> QED BY <1>2, <1>3, <1>4, <1>5, PTL DEF Spec, DeletionsEnd
=============================================================================
