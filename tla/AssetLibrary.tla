---------------------------- MODULE AssetLibrary ----------------------------
(***************************************************************************)
(* "My assets" of the web client: stores/use-asset-store.ts beside the     *)
(* session it follows.  Each account has a list in the browser's storage;  *)
(* the server only registers which files an asset holds.  Changes run one  *)
(* after the other, each a request, a write of the whole list and, when    *)
(* something fails, a request that takes the first one back; the account   *)
(* may change between any two of these.  One tab is modelled.              *)
(***************************************************************************)
EXTENDS WebSession, Sequences

CONSTANTS
  AssetBound,     (* bound: assets ever added                               *)
  ChangeBound,    (* bound: changes ever asked for                          *)
  Files, NoFile   (* the file an asset holds; a text asset holds none       *)

ASSUME FileAssumption == NoFile \notin Files
ASSUME LibraryAssumption == AssetBound \in Nat /\ ChangeBound \in Nat

VARIABLES
  owner, loaded, assets,   (* ownerId, isReady, assets                      *)
  loading, ahead,          (* the last loadAssets; the changes it waits for *)
  changes,                 (* assetChanges: the running one first           *)
  (* how far the running change is; what it read first: ownerId, whether    *)
  (* there was a token, the file of the asset; the list it writes           *)
  step, own, signed, was, next,
  stored,                  (* localforage, a list for each account          *)
  refs,                    (* the server's registrations of assets          *)
  made, asked,             (* counted for the bounds                        *)
  (* history: another account was shown while the running change ran; a     *)
  (* change ended with its registration and its list apart                  *)
  switched, torn

changeVars == <<step, own, signed, was, next, switched>>
libraryVars == <<owner, loaded, assets, loading, ahead, changes, changeVars, stored, refs,
                 made, asked, torn>>
vars == <<sessionVars, libraryVars>>

Ids == 1..AssetBound
Held == Files \cup {NoFile}
(* by is the account on the screen when the user saved the asset. *)
Assets == [id : Ids, file : Held, by : Accounts]
Changes == [op : {"add", "update", "remove"}, id : Ids, file : Held, by : Accounts, live : BOOLEAN]
Unregistered == [acct |-> Guest, file |-> NoFile]

Init ==
  /\ SessionInit
  /\ owner = Guest /\ loaded = FALSE /\ assets = {}
  /\ loading = FALSE /\ ahead = 0 /\ changes = <<>>
  /\ step = "idle" /\ own = Guest /\ signed = FALSE /\ was = NoFile /\ next = {}
  /\ stored = [o \in Accounts |-> {}]
  /\ refs = [i \in Ids |-> Unregistered]
  /\ made = 0 /\ asked = 0 /\ switched = FALSE /\ torn = FALSE

-----------------------------------------------------------------------------
(* The list *)

(* loadVersion++: no change asked for before will start any more. *)
Outlived(q) == [i \in DOMAIN q |-> [q[i] EXCEPT !.live = FALSE]]

(* A fault to be caught: the empty list counts as loaded meanwhile. *)
Unloaded_Kept == loaded
Unloaded == FALSE

LoadAssets(o) ==
  /\ owner' = o /\ assets' = {} /\ loaded' = Unloaded
  /\ loading' = TRUE /\ ahead' = Len(changes)
  /\ changes' = Outlived(changes)
  /\ switched' = (step # "idle")
  /\ UNCHANGED <<step, own, signed, was, next, stored, refs, made, asked, torn>>

(* The subscription to the session. *)
Subscribed ==
  IF ready' /\ (~ready \/ user' # user) THEN LoadAssets(user') ELSE UNCHANGED libraryVars

(* The list is read when the changes asked for before are over, well or not. *)
LoadDone ==
  /\ loading /\ ahead = 0
  /\ loading' = FALSE
  /\ assets' = stored[owner] /\ loaded' = TRUE
  /\ UNCHANGED <<sessionVars, owner, ahead, changes, changeVars, stored, refs, made, asked, torn>>
LoadFailed ==
  /\ loading /\ ahead = 0
  /\ loading' = FALSE
  /\ UNCHANGED <<sessionVars, owner, loaded, assets, ahead, changes, changeVars, stored, refs,
                 made, asked, torn>>

(* The page is loaded anew in the middle of whatever was done. *)
ReloadLibrary ==
  /\ Reload
  /\ owner' = Guest /\ loaded' = FALSE /\ assets' = {}
  /\ loading' = FALSE /\ ahead' = 0 /\ changes' = <<>>
  /\ step' = "idle" /\ own' = Guest /\ signed' = FALSE /\ was' = NoFile /\ next' = {}
  /\ stored' \in {stored} \cup (IF step = "writing" THEN {[stored EXCEPT ![own] = next]} ELSE {})
  /\ switched' = FALSE /\ torn' = (torn \/ step # "idle")
  /\ UNCHANGED <<refs, made, asked>>

-----------------------------------------------------------------------------
(* Changes *)

Ask(change) ==
  /\ asked < ChangeBound /\ asked' = asked + 1
  /\ changes' = Append(changes, change)
  /\ UNCHANGED <<sessionVars, owner, loaded, assets, loading, ahead, changeVars, stored, refs, torn>>

AddAsset(f) ==
  /\ made < AssetBound /\ made' = made + 1
  /\ Ask([op |-> "add", id |-> made + 1, file |-> f, by |-> owner, live |-> TRUE])
UpdateAsset(a, f) ==
  /\ a \in assets /\ made' = made
  /\ Ask([op |-> "update", id |-> a.id, file |-> f, by |-> owner, live |-> TRUE])
RemoveAsset(a) ==
  /\ a \in assets /\ made' = made
  /\ Ask([op |-> "remove", id |-> a.id, file |-> a.file, by |-> owner, live |-> TRUE])

Change == Head(changes)

(* The list as the running change leaves it: of what is shown by then. *)
Changed ==
  LET others == {a \in assets : a.id # Change.id}
      its == [id |-> Change.id, file |-> Change.file,
              by |-> IF Change.op = "add" THEN Change.by
                     ELSE (CHOOSE a \in assets : a.id = Change.id).by]
  IN CASE Change.op = "add" -> others \cup {its}
       [] Change.op = "update" -> IF others = assets THEN assets ELSE others \cup {its}
       [] Change.op = "remove" -> others

Awaited == IF ahead > 0 THEN ahead - 1 ELSE 0

(* The running change is over, with success or an error. *)
Over ==
  /\ step' = "idle" /\ own' = Guest /\ signed' = FALSE /\ was' = NoFile /\ next' = {}
  /\ changes' = Tail(changes)
  /\ ahead' = Awaited
  /\ switched' = FALSE

(* A fault to be caught: a change runs on a list that is not loaded yet. *)
Refused_Unready ==
  \/ ~Change.live \/ owner # user
  \/ Change.op = "add" /\ Change.file # NoFile /\ user = Guest
  \/ Change.op = "update" /\ \A a \in assets : a.id # Change.id
Refused ==
  \/ ~Change.live \/ ~loaded \/ owner # user
  \/ Change.op = "add" /\ Change.file # NoFile /\ user = Guest
  \/ Change.op = "update" /\ \A a \in assets : a.id # Change.id

Dismiss ==
  /\ step = "idle" /\ changes # <<>> /\ Refused
  /\ Over
  /\ UNCHANGED <<sessionVars, owner, loaded, assets, loading, stored, refs, made, asked, torn>>

(* Without a token there is nothing to ask the server. *)
Start ==
  /\ step = "idle" /\ changes # <<>> /\ ~Refused
  /\ own' = owner /\ signed' = (user # Guest)
  /\ was' = IF Change.op = "update" THEN (CHOOSE a \in assets : a.id = Change.id).file ELSE NoFile
  /\ IF signed' THEN step' = "asked" /\ next' = next
                ELSE step' = "writing" /\ next' = Changed
  /\ UNCHANGED <<sessionVars, owner, loaded, assets, loading, ahead, changes, switched, stored,
                 refs, made, asked, torn>>

(* retainAssetFiles and releaseAssetFiles at the server, which knows the    *)
(* account by the cookie: a new id is registered, that of another account   *)
(* is refused, and releasing one releases nothing.                          *)
Registered(op, i, f) ==
  CASE op = "add" -> [refs EXCEPT ![i] = [acct |-> cookie, file |-> f]]
    [] op = "update" -> [refs EXCEPT ![i] = [acct |-> cookie, file |-> f]]
    [] op = "remove" -> IF refs[i].acct = cookie THEN [refs EXCEPT ![i] = Unregistered] ELSE refs
Admitted(op, i) == cookie # Guest /\ (op = "update" => refs[i].acct = cookie)

HandleChange ==
  /\ step = "asked" /\ Admitted(Change.op, Change.id)
  /\ step' = "handled"
  /\ refs' = Registered(Change.op, Change.id, Change.file)
  /\ torn' = (torn \/ cookie # own)
  /\ UNCHANGED <<sessionVars, owner, loaded, assets, loading, ahead, changes, own, signed, was,
                 next, switched, stored, made, asked>>

(* An error, or no answer: nothing is taken back. *)
RequestFailed ==
  /\ step \in {"asked", "handled"}
  /\ torn' = (torn \/ step = "handled")
  /\ Over
  /\ UNCHANGED <<sessionVars, owner, loaded, assets, loading, stored, refs, made, asked>>

(* The account is compared after the answer; the list is the one of now.   *)
Proceed ==
  /\ step = "handled"
  /\ IF owner = own
     THEN /\ step' = "writing" /\ next' = Changed
          /\ UNCHANGED <<ahead, changes, own, signed, was, switched, torn>>
     ELSE IF Change.op = "remove"
     THEN Over /\ torn' = TRUE
     ELSE /\ step' = "undo"
          /\ UNCHANGED <<ahead, changes, own, signed, was, next, switched, torn>>
  /\ UNCHANGED <<sessionVars, owner, loaded, assets, loading, stored, refs, made, asked>>

(* A fault to be caught: the list is shown whoever is signed in by now. *)
ShowsList_Anyone == TRUE
ShowsList == owner = own

Written ==
  /\ step = "writing"
  /\ stored' = [stored EXCEPT ![own] = next]
  /\ assets' = IF ShowsList THEN next ELSE assets
  /\ torn' = (torn \/ switched)
  /\ Over
  /\ UNCHANGED <<sessionVars, owner, loaded, loading, refs, made, asked>>

(* A fault to be caught: a list that was not written leaves its registration. *)
TakesBack_Never == FALSE
TakesBack == signed /\ Change.op # "remove"

WriteFailed ==
  /\ step = "writing"
  /\ IF TakesBack
     THEN step' = "undo" /\ UNCHANGED <<ahead, changes, own, signed, was, next, switched, torn>>
     ELSE Over /\ torn' = (torn \/ (signed /\ Change.op = "remove"))
  /\ UNCHANGED <<sessionVars, owner, loaded, assets, loading, stored, refs, made, asked>>

(* The registration is taken back, if the cookie is still its account's. *)
Undo ==
  /\ step = "undo"
  /\ LET op == IF Change.op = "add" THEN "remove" ELSE "update"
     IN /\ refs' = IF Admitted(op, Change.id) THEN Registered(op, Change.id, was) ELSE refs
        /\ torn' = (torn \/ refs[Change.id].acct # cookie)
  /\ Over
  /\ UNCHANGED <<sessionVars, owner, loaded, assets, loading, stored, made, asked>>
UndoLost ==
  /\ step = "undo"
  /\ torn' = TRUE
  /\ Over
  /\ UNCHANGED <<sessionVars, owner, loaded, assets, loading, stored, refs, made, asked>>

-----------------------------------------------------------------------------
Session == SessionStep /\ Subscribed
User ==
  \/ \E f \in Held : AddAsset(f)
  \/ \E a \in assets : RemoveAsset(a) \/ \E f \in Held : UpdateAsset(a, f)
Running == Dismiss \/ Start \/ HandleChange \/ RequestFailed \/ Proceed \/ Written
           \/ WriteFailed \/ Undo \/ UndoLost
Next == Session \/ ReloadLibrary \/ LoadDone \/ LoadFailed \/ User \/ Running

Spec == Init /\ [][Next]_vars

-----------------------------------------------------------------------------
(* Properties *)

TypeOK ==
  /\ SessionTypeOK
  /\ owner \in Accounts /\ loaded \in BOOLEAN /\ assets \subseteq Assets
  /\ loading \in BOOLEAN /\ ahead \in 0..ChangeBound
  /\ changes \in Seq(Changes) /\ ahead <= Len(changes)
  /\ step \in {"idle", "asked", "handled", "writing", "undo"}
  /\ (step # "idle" => changes # <<>>)
  /\ own \in Accounts /\ signed \in BOOLEAN /\ was \in Held /\ next \subseteq Assets
  /\ stored \in [Accounts -> SUBSET Assets]
  /\ refs \in [Ids -> [acct : Accounts, file : Held]]
  /\ made \in 0..AssetBound /\ asked \in 0..ChangeBound
  /\ switched \in BOOLEAN /\ torn \in BOOLEAN

(* docs/pending-test.md:145: lists are apart.  An asset saved while one     *)
(* account was on the screen is in no other account's list and never shown *)
(* with it, however late its change ran.                                   *)
ListsApart ==
  /\ \A o \in Accounts : \A a \in stored[o] : a.by = o
  /\ \A a \in assets : a.by = owner

(* What is shown as loaded is what the next visit will load: no request,    *)
(* failed write or change of account leaves the two apart.                 *)
ShownIsStored == loaded => assets = stored[owner]

(* docs/canvas-data-structure.md:85: what fails is taken back.  The server  *)
(* keeps the files of exactly the assets in the lists, but for the change   *)
(* under way and for what torn says.                                       *)
RegisteredAreListed ==
  ~torn =>
    \A i \in Ids : step = "idle" \/ i # Change.id =>
      {[acct |-> p[1], file |-> p[2].file] :
         p \in {q \in Users \X Assets : q[2] \in stored[q[1]] /\ q[2].id = i}}
      = {refs[i]} \ {Unregistered}

(* docs/pending-test.md:145: an old request does not overwrite the list an  *)
(* account has been given back.  As long as no other account was shown      *)
(* while a change ran, an asset leaves its list by being removed only.      *)
Gone(a) == step = "writing" /\ Change.op = "remove" /\ Change.id = a.id
AssetsSurviveUnswitched ==
  [][~switched => \A o \in Accounts : \A a \in stored[o] :
       (\E b \in stored'[o] : b.id = a.id) \/ Gone(a)]_vars
=============================================================================
