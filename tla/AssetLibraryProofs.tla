------------------------- MODULE AssetLibraryProofs -------------------------
(***************************************************************************)
(* Theorems of AssetLibrary for every set of accounts and files and any    *)
(* number of calls, changes and assets.                                    *)
(***************************************************************************)
EXTENDS AssetLibrary, SequenceTheorems, TLAPS

-----------------------------------------------------------------------------
(* The session under the library *)

LEMMA AccountFacts == Guest \in Accounts /\ Users \subseteq Accounts
BY DEF Accounts

LEMMA PlaceType ==
  ASSUME NEW c \in Calls, NEW f \in [Calls -> CallType], NEW kind \in Kinds,
         NEW at \in {"waiting", "asked", "handled"}, NEW who \in Accounts
  PROVE  Place(c, f, kind, at, who) \in [Calls -> CallType]
BY DEF Place, CallType

LEMMA OutdatedType ==
  ASSUME calls \in [Calls -> CallType], NEW kinds
  PROVE  Outdated(kinds) \in [Calls -> CallType]
BY DEF Outdated, CallType

LEMMA ReleasedType ==
  ASSUME NEW f \in [Calls -> CallType]
  PROVE  Released(f) \in [Calls -> CallType]
<1>1. NoCall \in CallType
  BY AccountFacts DEF NoCall, CallType, Kinds
<1>2. \A d \in Calls : [f[d] EXCEPT !.at = "asked"] \in CallType
  BY DEF CallType
<1> QED BY <1>1, <1>2 DEF Released

LEMMA BegunType ==
  ASSUME SessionTypeOK, Begun
  PROVE  begun' \in 0..SessionBound
BY SessionAssumption DEF SessionTypeOK, Begun

(* Calls begun. *)
LEMMA BeginType ==
  ASSUME SessionTypeOK, NEW c \in Calls,
         \/ Hydrate(c) \/ LoginPage(c) \/ SaveProfile(c) \/ ClearSession(c)
         \/ \E u \in Users : LogIn(c, u)
  PROVE  SessionTypeOK'
<1>1. Patience \in {"waiting", "asked", "handled"} /\ calls \in [Calls -> CallType]
  BY DEF Patience, SessionTypeOK
<1>2. \A kinds : Outdated(kinds) \in [Calls -> CallType]
  BY <1>1, OutdatedType
<1>3. calls' \in [Calls -> CallType]
  <2>1. CASE Hydrate(c)
    BY <1>1, <1>2, <2>1, AccountFacts, PlaceType DEF Hydrate, Kinds
  <2>2. CASE LoginPage(c)
    BY <1>1, <2>2, AccountFacts, PlaceType DEF LoginPage, Kinds
  <2>3. CASE SaveProfile(c)
    BY <1>1, <2>3, AccountFacts, PlaceType DEF SaveProfile, Kinds
  <2>4. CASE ClearSession(c)
    <3>1. cookie \in Accounts
      BY DEF SessionTypeOK
    <3> QED BY <1>2, <2>4, <3>1, PlaceType DEF ClearSession, Kinds
  <2>5. ASSUME NEW u \in Users, LogIn(c, u)
        PROVE  calls' \in [Calls -> CallType]
    BY <1>1, <1>2, <2>5, AccountFacts, PlaceType DEF LogIn, Kinds
  <2> QED BY <2>1, <2>2, <2>3, <2>4, <2>5
<1>4. begun' \in 0..SessionBound
  BY BegunType DEF Hydrate, LoginPage, SaveProfile, ClearSession, LogIn
<1>5. /\ cookie' \in Accounts /\ user' \in Accounts /\ ready' \in BOOLEAN
      /\ pendingLogout' \subseteq Calls
  BY AccountFacts DEF Hydrate, LoginPage, SaveProfile, ClearSession, LogIn, SessionTypeOK
<1>6. stray' \in BOOLEAN
  BY DEF Hydrate, LoginPage, SaveProfile, ClearSession, LogIn, SessionTypeOK, During
<1> QED BY <1>3, <1>4, <1>5, <1>6 DEF SessionTypeOK

(* Calls handled, answered or lost. *)
LEMMA AnswerType ==
  ASSUME SessionTypeOK, NEW c \in Calls,
         \/ Handle(c) \/ AnswerHydrate(c) \/ AnswerLogIn(c) \/ AnswerLogout(c)
         \/ AnswerSetSession(c) \/ Lost(c)
  PROVE  SessionTypeOK'
<1>1. /\ calls \in [Calls -> CallType] /\ calls[c] \in CallType /\ calls[c].who \in Accounts
      /\ calls[c].live \in BOOLEAN /\ cookie \in Accounts
  BY DEF SessionTypeOK, CallType
<1>2. NoCall \in CallType
  BY AccountFacts DEF NoCall, CallType, Kinds
<1>3. [calls EXCEPT ![c] = NoCall] \in [Calls -> CallType]
  BY <1>1, <1>2
<1>4. Released([calls EXCEPT ![c] = NoCall]) \in [Calls -> CallType]
  BY <1>3, ReleasedType
<1>5. CASE Handle(c)
  <2> DEFINE who == IF calls[c].kind \in {"hydrate", "me", "profile"} THEN cookie ELSE calls[c].who
  <2>1. calls' = [calls EXCEPT ![c] = [calls[c] EXCEPT !.at = "handled", !.who = who]]
    BY <1>1, <1>5 DEF Handle
  <2>2. [calls[c] EXCEPT !.at = "handled", !.who = who] \in CallType
    BY <1>1 DEF CallType
  <2>3. calls' \in [Calls -> CallType]
    BY <1>1, <2>1, <2>2
  <2>4. cookie' \in Accounts
    BY <1>1, <1>5, AccountFacts DEF Handle
  <2> QED BY <1>5, <2>3, <2>4 DEF Handle, SessionTypeOK
<1>6. CASE AnswerHydrate(c)
  BY <1>1, <1>3, <1>6 DEF AnswerHydrate, Shows, SessionTypeOK
<1>7. CASE AnswerLogIn(c)
  BY <1>1, <1>3, <1>7 DEF AnswerLogIn, Shows, SessionTypeOK
<1>8. CASE AnswerLogout(c)
  BY <1>1, <1>3, <1>4, <1>8, AccountFacts DEF AnswerLogout, SessionTypeOK
<1>9. CASE AnswerSetSession(c)
  <2>1. [Outdated(Versioned) EXCEPT ![c] = NoCall] \in [Calls -> CallType]
    BY <1>1, <1>2, OutdatedType
  <2> QED BY <1>1, <1>3, <1>9, <2>1 DEF AnswerSetSession, Shows, SessionTypeOK
<1>10. CASE Lost(c)
  <2>1. calls' \in [Calls -> CallType]
    BY <1>3, <1>4, <1>10 DEF Lost
  <2>2. user' \in Accounts /\ ready' \in BOOLEAN
    BY <1>10, AccountFacts DEF Lost, Shows, SessionTypeOK
  <2>3. stray' \in BOOLEAN /\ pendingLogout' \subseteq Calls
    BY <1>10 DEF Lost, SessionTypeOK
  <2> QED BY <1>10, <2>1, <2>2, <2>3 DEF Lost, SessionTypeOK
<1> QED BY <1>5, <1>6, <1>7, <1>8, <1>9, <1>10

LEMMA SessionStepType ==
  ASSUME SessionTypeOK, SessionStep
  PROVE  SessionTypeOK'
BY BeginType, AnswerType DEF SessionStep

LEMMA ReloadType ==
  ASSUME SessionTypeOK, Reload
  PROVE  SessionTypeOK'
<1>1. \A c \in Calls : calls[c].who \in Accounts
  BY DEF SessionTypeOK, CallType
<1>2. cookie' \in Accounts
  BY <1>1, AccountFacts DEF Reload, SessionTypeOK
<1>3. calls' \in [Calls -> CallType]
  BY AccountFacts DEF Reload, NoCall, CallType, Kinds
<1> QED BY <1>2, <1>3, BegunType, AccountFacts DEF Reload, SessionTypeOK

-----------------------------------------------------------------------------
(* The queue of changes and the list one of them makes *)

LEMMA OutlivedFacts ==
  ASSUME changes \in Seq(Changes)
  PROVE  /\ Outlived(changes) \in Seq(Changes)
         /\ Len(Outlived(changes)) = Len(changes)
         /\ \A i \in 1..Len(changes) : ~Outlived(changes)[i].live
         /\ changes # <<>> => /\ Head(Outlived(changes)).op = Change.op
                              /\ Head(Outlived(changes)).by = Change.by
                              /\ Head(Outlived(changes)).id = Change.id
                              /\ Outlived(changes) # <<>>
<1>1. \A i \in 1..Len(changes) : changes[i] \in Changes
  BY ElementOfSeq
<1>2. DOMAIN changes = 1..Len(changes) /\ Len(changes) \in Nat
  BY LenProperties
<1>3. \A i \in 1..Len(changes) :
        /\ Outlived(changes)[i] \in Changes /\ ~Outlived(changes)[i].live
        /\ Outlived(changes)[i].op = changes[i].op /\ Outlived(changes)[i].by = changes[i].by
        /\ Outlived(changes)[i].id = changes[i].id
  BY <1>1, <1>2 DEF Outlived, Changes
<1>4. DOMAIN Outlived(changes) = 1..Len(changes)
  BY <1>2 DEF Outlived
<1>5. Outlived(changes) \in [1..Len(changes) -> Changes]
  BY <1>2, <1>3 DEF Outlived
<1>6. Outlived(changes) \in Seq(Changes)
  BY <1>2, <1>5, SMT
<1>7. Len(Outlived(changes)) = Len(changes)
  BY <1>2, <1>4, <1>6, LenProperties
<1>8. ASSUME changes # <<>>
      PROVE  /\ 1 \in 1..Len(changes) /\ Outlived(changes) # <<>>
             /\ Change = changes[1] /\ Head(Outlived(changes)) = Outlived(changes)[1]
  <2>1. Len(changes) # 0
    BY <1>8, EmptySeq
  <2>2. Outlived(changes) # <<>>
    BY <1>7, <2>1, EmptySeq
  <2> QED BY <1>2, <1>6, <1>8, <2>1, <2>2 DEF Change
<1> QED BY <1>3, <1>6, <1>7, <1>8

LEMMA AppendFacts ==
  ASSUME changes \in Seq(Changes), NEW e \in Changes
  PROVE  /\ Append(changes, e) \in Seq(Changes)
         /\ Len(Append(changes, e)) = Len(changes) + 1
         /\ \A i \in 1..Len(changes) : Append(changes, e)[i] = changes[i]
         /\ Append(changes, e)[Len(changes) + 1] = e
         /\ Append(changes, e) # <<>>
         /\ changes # <<>> => Head(Append(changes, e)) = Change
<1>1. /\ Append(changes, e) \in Seq(Changes)
      /\ Len(Append(changes, e)) = Len(changes) + 1
      /\ \A i \in 1..Len(changes) : Append(changes, e)[i] = changes[i]
      /\ Append(changes, e)[Len(changes) + 1] = e
      /\ Append(changes, e) # <<>>
  <2>1. Len(changes) \in Nat
    BY LenProperties
  <2> QED BY <2>1, AppendProperties, EmptySeq
<1>2. ASSUME changes # <<>>
      PROVE  Head(Append(changes, e)) = Change
  <2>1. Len(changes) \in Nat /\ Len(changes) # 0
    BY <1>2, EmptySeq, LenProperties
  <2>2. 1 \in 1..Len(changes)
    BY <2>1
  <2> QED BY <1>1, <1>2, <2>2 DEF Change
<1> QED BY <1>1, <1>2

LEMMA TailFacts ==
  ASSUME changes \in Seq(Changes), changes # <<>>
  PROVE  /\ Tail(changes) \in Seq(Changes)
         /\ Len(changes) \in Nat /\ Len(changes) >= 1
         /\ Len(Tail(changes)) = Len(changes) - 1
         /\ \A i \in 1..Len(Tail(changes)) : Tail(changes)[i] = changes[i + 1]
         /\ Change = changes[1] /\ Change \in Changes
<1>1. Len(changes) \in Nat /\ Len(changes) # 0
  BY EmptySeq, LenProperties
<1>2. Tail(changes) \in Seq(Changes) /\ Len(Tail(changes)) = Len(changes) - 1
  BY HeadTailProperties
<1>3. \A i \in 1..Len(Tail(changes)) : Tail(changes)[i] = changes[i + 1]
  BY <1>2, HeadTailProperties
<1>4. Change \in Changes
  BY HeadTailProperties DEF Change
<1> QED BY <1>1, <1>2, <1>3, <1>4 DEF Change

(* What a change makes of the list on the screen. *)
LEMMA ChangedFacts ==
  ASSUME assets \subseteq Assets, Change \in Changes, NEW o,
         Change.op = "add" => Change.by = o, \A a \in assets : a.by = o
  PROVE  /\ Changed \subseteq Assets
         /\ \A a \in Changed : a.by = o
         /\ \A a \in assets : (\E b \in Changed : b.id = a.id)
                              \/ (Change.op = "remove" /\ Change.id = a.id)
<1> DEFINE others == {a \in assets : a.id # Change.id}
           its == [id |-> Change.id, file |-> Change.file,
                   by |-> IF Change.op = "add" THEN Change.by
                          ELSE (CHOOSE a \in assets : a.id = Change.id).by]
<1>1. others \subseteq assets
  OBVIOUS
<1>2. /\ Change.op \in {"add", "update", "remove"}
      /\ Change.id \in Ids /\ Change.file \in Held /\ Change.by \in Accounts
  BY DEF Changes
<1>3. CASE Change.op = "remove"
  <2>1. Changed = others
    BY <1>3 DEF Changed
  <2> QED BY <1>1, <1>3, <2>1
<1>4. CASE Change.op = "update" /\ others = assets
  <2>1. Changed = assets
    BY <1>4 DEF Changed
  <2> QED BY <2>1
<1>5. CASE Change.op = "add" \/ (Change.op = "update" /\ others # assets)
  <2>1. Changed = others \cup {its}
    BY <1>5 DEF Changed
  <2>2. its.by = o /\ its.id = Change.id
    <3>1. CASE Change.op = "add"
      BY <3>1
    <3>2. CASE Change.op = "update" /\ others # assets
      <4>1. PICK a \in assets : a.id = Change.id
        BY <3>2
      <4>2. (CHOOSE b \in assets : b.id = Change.id) \in assets
        BY <4>1
      <4> QED BY <3>2, <4>2
    <3> QED BY <1>5, <3>1, <3>2
  <2>3. o \in Accounts => its \in Assets
    BY <1>2, <2>2 DEF Assets
  <2>4. o \in Accounts
    <3>1. CASE Change.op = "add"
      BY <1>2, <3>1
    <3>2. CASE Change.op = "update" /\ others # assets
      <4>1. PICK a \in assets : a.id = Change.id
        BY <3>2
      <4>2. a \in Assets
        BY <4>1
      <4>3. a.by \in Accounts
        BY <4>2 DEF Assets
      <4> QED BY <4>1, <4>3
    <3> QED BY <1>5, <3>1, <3>2
  <2>5. Changed \subseteq Assets
    BY <1>1, <2>1, <2>3, <2>4
  <2>6. \A a \in Changed : a.by = o
    BY <1>1, <2>1, <2>2
  <2>7. ASSUME NEW a \in assets
        PROVE  \E b \in Changed : b.id = a.id
    <3>1. CASE a.id = Change.id
      BY <2>1, <2>2, <3>1
    <3>2. CASE a.id # Change.id
      BY <2>1, <3>2
    <3> QED BY <3>1, <3>2
  <2> QED BY <2>5, <2>6, <2>7
<1> QED BY <1>2, <1>3, <1>4, <1>5

-----------------------------------------------------------------------------
(* The inductive invariant *)

(* The lists: nothing counts as loaded while a list is loaded. *)
Listed == ListsApart /\ ShownIsStored /\ (loading => ~loaded)

(* The changes that wait: those that may still start were asked for by the  *)
(* account on the screen.                                                  *)
Queued ==
  /\ Len(changes) <= asked
  /\ \A i \in 1..Len(changes) : changes[i].live => changes[i].by = owner

(* The running change: it adds what its own account saved; until another    *)
(* account is shown the list on the screen is that account's; and the list  *)
(* it is about to write has only that account's assets, all that were.     *)
Kept ==
  \A a \in stored[own] :
    (\E b \in next : b.id = a.id) \/ (Change.op = "remove" /\ Change.id = a.id)
Runs ==
  /\ step # "idle" /\ Change.op = "add" => Change.by = own
  /\ step # "idle" /\ ~switched => owner = own /\ loaded
  /\ step = "writing" => (\A a \in next : a.by = own) /\ (~switched => Kept)

Inv == TypeOK /\ Listed /\ Queued /\ Runs

(* Initially nobody's list is on the screen and nothing is stored. *)
LEMMA InitInv == Init => Inv
<1> SUFFICES ASSUME Init PROVE Inv
  OBVIOUS
<1>1. SessionTypeOK
  <2>1. NoCall \in CallType
    BY AccountFacts DEF NoCall, CallType, Kinds
  <2>2. SessionInit
    BY DEF Init
  <2>3. calls \in [Calls -> CallType]
    BY <2>1, <2>2 DEF SessionInit
  <2>4. ready \in BOOLEAN /\ stray \in BOOLEAN
    BY <2>2 DEF SessionInit
  <2>5. begun \in 0..SessionBound
    BY <2>2, SessionAssumption DEF SessionInit
  <2> QED BY <2>2, <2>3, <2>4, <2>5, AccountFacts DEF SessionInit, SessionTypeOK
<1>2. <<>> \in Seq(Changes) /\ Len(<<>>) = 0
  BY EmptySeq
<1>3. Unregistered \in [acct : Accounts, file : Held]
  BY AccountFacts DEF Unregistered, Held
<1>4. NoFile \in Held
  BY DEF Held
<1>5. TypeOK
  <2>1. /\ changes \in Seq(Changes) /\ ahead \in 0..ChangeBound /\ ahead <= Len(changes)
        /\ asked \in 0..ChangeBound /\ made \in 0..AssetBound
    BY <1>2, LibraryAssumption DEF Init
  <2>2. /\ stored \in [Accounts -> SUBSET Assets]
        /\ refs \in [Ids -> [acct : Accounts, file : Held]]
    BY <1>3 DEF Init
  <2> QED BY <1>1, <1>4, <2>1, <2>2, AccountFacts DEF Init, TypeOK
<1>6. Listed /\ Queued /\ Runs
  BY <1>2 DEF Init, Listed, ListsApart, ShownIsStored, Queued, Runs
<1> QED BY <1>5, <1>6 DEF Inv

LEMMA SessionUnchanged ==
  ASSUME SessionTypeOK, UNCHANGED sessionVars
  PROVE  SessionTypeOK'
BY DEF SessionTypeOK, sessionVars

(* The end of a change, well or not. *)
LEMMA OverFacts ==
  ASSUME Inv, changes # <<>>, Over, owner' = owner, asked' = asked
  PROVE  /\ changes' \in Seq(Changes) /\ ahead' \in 0..ChangeBound /\ ahead' <= Len(changes')
         /\ step' = "idle" /\ own' \in Accounts /\ signed' \in BOOLEAN /\ was' \in Held
         /\ next' \subseteq Assets /\ switched' \in BOOLEAN
         /\ Queued' /\ Runs'
<1>1. changes \in Seq(Changes) /\ ahead \in 0..ChangeBound /\ ahead <= Len(changes)
  BY DEF Inv, TypeOK
<1>2. /\ Tail(changes) \in Seq(Changes) /\ Len(changes) \in Nat /\ Len(changes) >= 1
      /\ Len(Tail(changes)) = Len(changes) - 1
      /\ \A i \in 1..Len(Tail(changes)) : Tail(changes)[i] = changes[i + 1]
  BY <1>1, TailFacts
<1>3. changes' = Tail(changes) /\ ahead' = Awaited
  BY DEF Over
<1>4. ahead' \in 0..ChangeBound /\ ahead' <= Len(changes')
  BY <1>1, <1>2, <1>3, LibraryAssumption DEF Awaited
<1>5. Queued'
  <2>1. Len(changes) <= asked /\ asked \in Nat
    BY DEF Inv, TypeOK, Queued
  <2>2. Len(changes') <= asked'
    BY <1>2, <1>3, <2>1
  <2>3. ASSUME NEW i \in 1..Len(changes'), changes'[i].live
        PROVE  changes'[i].by = owner'
    <3>1. i + 1 \in 1..Len(changes) /\ changes'[i] = changes[i + 1]
      BY <1>2, <1>3
    <3> QED BY <2>3, <3>1 DEF Inv, Queued
  <2> QED BY <2>2, <2>3 DEF Queued
<1>6. Runs'
  BY DEF Over, Runs
<1> QED BY <1>2, <1>3, <1>4, <1>5, <1>6, AccountFacts DEF Over, Held

(* Another account, or none, is shown: its list is loaded. *)
LEMMA LoadAssetsInv ==
  ASSUME Inv, SessionTypeOK', NEW o \in Accounts, LoadAssets(o)
  PROVE  Inv'
<1>1. /\ changes \in Seq(Changes) /\ (step # "idle" => changes # <<>>)
      /\ asked \in 0..ChangeBound
  BY DEF Inv, TypeOK
<1>2. changes' = Outlived(changes) /\ ahead' = Len(changes)
  BY DEF LoadAssets
<1>3. /\ Outlived(changes) \in Seq(Changes)
      /\ Len(Outlived(changes)) = Len(changes)
      /\ \A i \in 1..Len(changes) : ~Outlived(changes)[i].live
      /\ changes # <<>> => /\ Head(Outlived(changes)).op = Change.op
                           /\ Head(Outlived(changes)).by = Change.by
                           /\ Head(Outlived(changes)).id = Change.id
                           /\ Outlived(changes) # <<>>
  BY <1>1, OutlivedFacts
<1>4. Len(changes) \in Nat /\ Len(changes) <= asked
  BY <1>1, LenProperties DEF Inv, Queued
<1>5. ahead' \in 0..ChangeBound /\ ahead' <= Len(changes')
  BY <1>1, <1>2, <1>3, <1>4, LibraryAssumption
<1>6. loaded' = FALSE /\ loaded' \in BOOLEAN /\ switched' \in BOOLEAN /\ assets' = {}
  BY DEF LoadAssets, Unloaded
<1>7. TypeOK'
  BY <1>1, <1>2, <1>3, <1>5, <1>6 DEF LoadAssets, Inv, TypeOK
<1>8. Listed'
  BY <1>6 DEF LoadAssets, Inv, Listed, ListsApart, ShownIsStored
<1>9. Queued'
  BY <1>2, <1>3, <1>4 DEF LoadAssets, Queued
<1>10. Runs'
  <2>1. step' = step /\ own' = own /\ next' = next /\ switched' = (step # "idle")
    BY DEF LoadAssets
  <2>2. step # "idle" => Change'.op = Change.op /\ Change'.by = Change.by
    BY <1>1, <1>2, <1>3 DEF Change
  <2> QED BY <2>1, <2>2 DEF Inv, Runs
<1> QED BY <1>7, <1>8, <1>9, <1>10 DEF Inv

LEMMA LibraryUnchanged ==
  ASSUME Inv, SessionTypeOK', UNCHANGED libraryVars
  PROVE  Inv'
<1>1. TypeOK'
  BY DEF Inv, TypeOK, libraryVars, changeVars
<1>2. Listed' /\ Queued' /\ Runs'
  BY DEF Inv, Listed, ListsApart, ShownIsStored, Queued, Runs, Kept, Change,
         libraryVars, changeVars
<1> QED BY <1>1, <1>2 DEF Inv

LEMMA SubscribedInv ==
  ASSUME Inv, SessionTypeOK', Subscribed
  PROVE  Inv'
<1>1. user' \in Accounts
  BY DEF SessionTypeOK
<1> QED BY <1>1, LoadAssetsInv, LibraryUnchanged DEF Subscribed

LEMMA ReloadLibraryInv ==
  ASSUME Inv, ReloadLibrary
  PROVE  Inv'
<1>1. SessionTypeOK'
  BY ReloadType DEF ReloadLibrary, Inv, TypeOK
<1>2. <<>> \in Seq(Changes) /\ Len(<<>>) = 0
  BY EmptySeq
<1>3. stored' = stored \/ (step = "writing" /\ stored' = [stored EXCEPT ![own] = next])
  BY DEF ReloadLibrary
<1>4. /\ stored \in [Accounts -> SUBSET Assets] /\ own \in Accounts /\ next \subseteq Assets
      /\ asked \in Nat
  BY DEF Inv, TypeOK
<1>5. stored' \in [Accounts -> SUBSET Assets]
  BY <1>3, <1>4
<1>6. NoFile \in Held
  BY DEF Held
<1>7. TypeOK'
  <2>1. changes' \in Seq(Changes) /\ ahead' \in 0..ChangeBound /\ ahead' <= Len(changes')
    BY <1>2, LibraryAssumption DEF ReloadLibrary
  <2>2. /\ refs' \in [Ids -> [acct : Accounts, file : Held]]
        /\ made' \in 0..AssetBound /\ asked' \in 0..ChangeBound
    BY DEF ReloadLibrary, Inv, TypeOK
  <2>3. switched' \in BOOLEAN /\ torn' \in BOOLEAN
    BY DEF ReloadLibrary, Inv, TypeOK
  <2> QED BY <1>1, <1>5, <1>6, <2>1, <2>2, <2>3, AccountFacts DEF ReloadLibrary, TypeOK
<1>8. \A o \in Accounts : \A a \in stored'[o] : a.by = o
  BY <1>3, <1>4 DEF Inv, Listed, ListsApart, Runs
<1>9. Listed'
  BY <1>8 DEF ReloadLibrary, Listed, ListsApart, ShownIsStored
<1>10. Queued' /\ Runs'
  BY <1>2, <1>4 DEF ReloadLibrary, Queued, Runs
<1> QED BY <1>7, <1>9, <1>10 DEF Inv

LEMMA LoadDoneInv ==
  ASSUME Inv, LoadDone
  PROVE  Inv'
<1>1. SessionTypeOK'
  BY SessionUnchanged DEF LoadDone, Inv, TypeOK
<1>2. /\ stored \in [Accounts -> SUBSET Assets] /\ owner \in Accounts
      /\ loading /\ ~loaded
  BY DEF LoadDone, Inv, TypeOK, Listed
<1>3. stored[owner] \subseteq Assets /\ \A a \in stored[owner] : a.by = owner
  BY <1>2 DEF Inv, Listed, ListsApart
<1>4. TypeOK'
  BY <1>1, <1>3 DEF LoadDone, changeVars, Inv, TypeOK
<1>5. Listed'
  BY <1>3 DEF LoadDone, Inv, Listed, ListsApart, ShownIsStored
<1>6. Queued' /\ Runs'
  BY <1>2 DEF LoadDone, changeVars, Inv, Queued, Runs, Kept, Change
<1> QED BY <1>4, <1>5, <1>6 DEF Inv

LEMMA LoadFailedInv ==
  ASSUME Inv, LoadFailed
  PROVE  Inv'
<1>1. SessionTypeOK'
  BY SessionUnchanged DEF LoadFailed, Inv, TypeOK
<1>2. TypeOK'
  BY <1>1 DEF LoadFailed, changeVars, Inv, TypeOK
<1>3. Listed' /\ Queued' /\ Runs'
  BY DEF LoadFailed, changeVars, Inv, Listed, ListsApart, ShownIsStored, Queued, Runs, Kept, Change
<1> QED BY <1>2, <1>3 DEF Inv

(* A change is asked for by the account on the screen. *)
LEMMA AskInv ==
  ASSUME Inv, NEW e \in Changes, e.by = owner, Ask(e), made' \in 0..AssetBound
  PROVE  Inv'
<1>1. /\ changes \in Seq(Changes) /\ (step # "idle" => changes # <<>>)
      /\ asked \in 0..ChangeBound /\ ahead \in 0..ChangeBound /\ ahead <= Len(changes)
  BY DEF Inv, TypeOK
<1>2. changes' = Append(changes, e) /\ asked' = asked + 1 /\ asked < ChangeBound
  BY DEF Ask
<1>3. /\ Append(changes, e) \in Seq(Changes)
      /\ Len(Append(changes, e)) = Len(changes) + 1
      /\ \A i \in 1..Len(changes) : Append(changes, e)[i] = changes[i]
      /\ Append(changes, e)[Len(changes) + 1] = e
      /\ Append(changes, e) # <<>>
      /\ changes # <<>> => Head(Append(changes, e)) = Change
  BY <1>1, AppendFacts
<1>4. Len(changes) \in Nat /\ Len(changes) <= asked
  BY <1>1, LenProperties DEF Inv, Queued
<1>5. SessionTypeOK'
  BY SessionUnchanged DEF Ask, Inv, TypeOK
<1>6. TypeOK'
  <2>1. changes' \in Seq(Changes) /\ (step' # "idle" => changes' # <<>>)
    BY <1>2, <1>3
  <2>2. asked' \in 0..ChangeBound /\ ahead' \in 0..ChangeBound /\ ahead' <= Len(changes')
    BY <1>1, <1>2, <1>3, <1>4, LibraryAssumption DEF Ask
  <2> QED BY <1>5, <2>1, <2>2 DEF Ask, changeVars, Inv, TypeOK
<1>7. Listed'
  BY DEF Ask, Inv, Listed, ListsApart, ShownIsStored
<1>8. Queued'
  <2>1. Len(changes') <= asked'
    BY <1>1, <1>2, <1>3, <1>4
  <2>2. ASSUME NEW i \in 1..Len(changes'), changes'[i].live
        PROVE  changes'[i].by = owner'
    <3>1. i \in 1..Len(changes) \/ i = Len(changes) + 1
      BY <1>2, <1>3, <1>4
    <3> QED BY <1>2, <1>3, <2>2, <3>1 DEF Ask, Inv, Queued
  <2> QED BY <2>1, <2>2 DEF Queued
<1>9. Runs'
  <2>1. step # "idle" => Change' = Change
    BY <1>1, <1>2, <1>3 DEF Change
  <2>2. UNCHANGED <<step, own, next, switched, owner, loaded, stored>>
    BY DEF Ask, changeVars
  <2> QED BY <2>1, <2>2 DEF Inv, Runs, Kept
<1> QED BY <1>6, <1>7, <1>8, <1>9 DEF Inv

LEMMA UserInv ==
  ASSUME Inv, User
  PROVE  Inv'
<1>1. owner \in Accounts /\ assets \subseteq Assets /\ made \in 0..AssetBound
  BY DEF Inv, TypeOK
<1>2. ASSUME NEW f \in Held, AddAsset(f)
      PROVE  Inv'
  <2> DEFINE e == [op |-> "add", id |-> made + 1, file |-> f, by |-> owner, live |-> TRUE]
  <2>1. made < AssetBound /\ made' = made + 1 /\ Ask(e)
    BY <1>2 DEF AddAsset
  <2>2. made + 1 \in Ids /\ made' \in 0..AssetBound
    BY <1>1, <2>1, LibraryAssumption DEF Ids
  <2>3. e \in Changes /\ e.by = owner
    BY <1>1, <2>2 DEF Changes
  <2> HIDE DEF e
  <2> QED BY <2>1, <2>2, <2>3, AskInv
<1>3. ASSUME NEW a \in assets, RemoveAsset(a)
      PROVE  Inv'
  <2> DEFINE e == [op |-> "remove", id |-> a.id, file |-> a.file, by |-> owner, live |-> TRUE]
  <2>1. made' = made /\ Ask(e)
    BY <1>3 DEF RemoveAsset
  <2>2. e \in Changes /\ e.by = owner
    BY <1>1 DEF Changes, Assets
  <2> HIDE DEF e
  <2> QED BY <1>1, <2>1, <2>2, AskInv
<1>4. ASSUME NEW a \in assets, NEW f \in Held, UpdateAsset(a, f)
      PROVE  Inv'
  <2> DEFINE e == [op |-> "update", id |-> a.id, file |-> f, by |-> owner, live |-> TRUE]
  <2>1. made' = made /\ Ask(e)
    BY <1>4 DEF UpdateAsset
  <2>2. e \in Changes /\ e.by = owner
    BY <1>1 DEF Changes, Assets
  <2> HIDE DEF e
  <2> QED BY <1>1, <2>1, <2>2, AskInv
<1> QED BY <1>2, <1>3, <1>4 DEF User

-----------------------------------------------------------------------------
(* The running change *)

(* A change that ends without writing the list. *)
LEMMA EndInv ==
  ASSUME Inv, changes # <<>>, Over,
         UNCHANGED <<sessionVars, owner, loaded, assets, loading, stored, made, asked>>,
         refs' \in [Ids -> [acct : Accounts, file : Held]], torn' \in BOOLEAN
  PROVE  Inv'
<1>1. SessionTypeOK'
  BY SessionUnchanged DEF Inv, TypeOK
<1>2. /\ changes' \in Seq(Changes) /\ ahead' \in 0..ChangeBound /\ ahead' <= Len(changes')
      /\ step' = "idle" /\ own' \in Accounts /\ signed' \in BOOLEAN /\ was' \in Held
      /\ next' \subseteq Assets /\ switched' \in BOOLEAN
      /\ Queued' /\ Runs'
  BY OverFacts
<1>3. TypeOK'
  BY <1>1, <1>2 DEF Inv, TypeOK
<1>4. Listed'
  BY DEF Inv, Listed, ListsApart, ShownIsStored
<1> QED BY <1>2, <1>3, <1>4 DEF Inv

LEMMA RegisteredType ==
  ASSUME Inv, NEW op \in {"add", "update", "remove"}, NEW i \in Ids, NEW f \in Held
  PROVE  Registered(op, i, f) \in [Ids -> [acct : Accounts, file : Held]]
<1>1. refs \in [Ids -> [acct : Accounts, file : Held]] /\ cookie \in Accounts
  BY DEF Inv, TypeOK, SessionTypeOK
<1>2. Unregistered \in [acct : Accounts, file : Held]
  BY AccountFacts DEF Unregistered, Held
<1>3. [acct |-> cookie, file |-> f] \in [acct : Accounts, file : Held]
  BY <1>1
<1>4. CASE op = "remove"
  BY <1>1, <1>2, <1>4 DEF Registered
<1>5. CASE op # "remove"
  <2>1. Registered(op, i, f) = [refs EXCEPT ![i] = [acct |-> cookie, file |-> f]]
    BY <1>5 DEF Registered
  <2> QED BY <1>1, <1>3, <2>1
<1> QED BY <1>4, <1>5

(* A running change is the first of the queue. *)
LEMMA RunningFacts ==
  ASSUME Inv, step # "idle"
  PROVE  /\ changes # <<>> /\ Change \in Changes
         /\ Change.op \in {"add", "update", "remove"} /\ Change.id \in Ids
         /\ Change.file \in Held
<1>1. changes \in Seq(Changes) /\ changes # <<>>
  BY DEF Inv, TypeOK
<1>2. Change \in Changes
  BY <1>1, TailFacts
<1> QED BY <1>1, <1>2 DEF Changes

(* The list is made: it keeps what is on the screen. *)
LEMMA WritingFacts ==
  ASSUME Inv, Change \in Changes, own' = owner, next' = Changed,
         Change.op = "add" => Change.by = own',
         UNCHANGED <<changes, owner, loaded, stored, switched>>,
         ~switched => loaded
  PROVE  /\ next' \subseteq Assets
         /\ \A a \in next' : a.by = own'
         /\ ~switched' => Kept'
<1>1. /\ Change' = Change
      /\ assets \subseteq Assets /\ \A a \in assets : a.by = owner
  BY DEF Change, Inv, TypeOK, Listed, ListsApart
<1>2. ~switched => stored'[own'] = assets
  BY DEF Inv, Listed, ShownIsStored
<1> QED BY <1>1, <1>2, ChangedFacts DEF Kept

LEMMA StartInv ==
  ASSUME Inv, Start
  PROVE  Inv'
<1>1. /\ changes \in Seq(Changes) /\ changes # <<>> /\ ~Refused
      /\ owner \in Accounts /\ assets \subseteq Assets /\ next \subseteq Assets
  BY DEF Start, Inv, TypeOK
<1>2. /\ Change \in Changes /\ Change = changes[1] /\ Len(changes) \in Nat /\ Len(changes) >= 1
  BY <1>1, TailFacts
<1>3. Change.live /\ loaded
  BY <1>1 DEF Refused
<1>4. Change.by = owner
  BY <1>2, <1>3 DEF Inv, Queued
<1>5. own' = owner /\ signed' \in BOOLEAN
  BY DEF Start
<1>6. was' \in Held
  <2>1. CASE Change.op = "update"
    <3>1. PICK a \in assets : a.id = Change.id
      BY <1>1, <2>1 DEF Refused
    <3>2. (CHOOSE b \in assets : b.id = Change.id) \in assets
      BY <3>1
    <3>3. (CHOOSE b \in assets : b.id = Change.id) \in Assets
      BY <1>1, <3>2
    <3> QED BY <2>1, <3>3 DEF Start, Assets
  <2>2. CASE Change.op # "update"
    BY <2>2 DEF Start, Held
  <2> QED BY <2>1, <2>2
<1>7. SessionTypeOK'
  BY SessionUnchanged DEF Start, Inv, TypeOK
<1>8. Change' = Change
  BY DEF Start, Change
<1>9. \/ step' = "asked" /\ next' = next
      \/ step' = "writing" /\ next' = Changed
  BY DEF Start
<1>10. step' = "writing" => /\ next' \subseteq Assets
                            /\ \A a \in next' : a.by = own'
                            /\ ~switched' => Kept'
  <2>1. UNCHANGED <<changes, owner, loaded, stored, switched>>
    BY DEF Start
  <2> QED BY <1>2, <1>3, <1>4, <1>5, <1>9, <2>1, WritingFacts
<1>11. TypeOK'
  <2>1. next' \subseteq Assets
    BY <1>1, <1>9, <1>10
  <2>2. step' \in {"asked", "writing"} /\ changes' = changes
    BY <1>9 DEF Start
  <2> QED BY <1>1, <1>5, <1>6, <1>7, <2>1, <2>2 DEF Start, Inv, TypeOK
<1>12. Listed' /\ Queued'
  BY DEF Start, Inv, Listed, ListsApart, ShownIsStored, Queued
<1>13. Runs'
  <2>1. owner' = owner /\ loaded' = loaded
    BY DEF Start
  <2> QED BY <1>3, <1>4, <1>5, <1>8, <1>10, <2>1 DEF Runs
<1> QED BY <1>11, <1>12, <1>13 DEF Inv

LEMMA HandleChangeInv ==
  ASSUME Inv, HandleChange
  PROVE  Inv'
<1>1. step = "asked" /\ step' = "handled"
  BY DEF HandleChange
<1>2. refs' \in [Ids -> [acct : Accounts, file : Held]]
  BY <1>1, RunningFacts, RegisteredType DEF HandleChange
<1>3. SessionTypeOK'
  BY SessionUnchanged DEF HandleChange, Inv, TypeOK
<1>4. torn' \in BOOLEAN
  BY DEF HandleChange, Inv, TypeOK
<1>5. TypeOK'
  BY <1>1, <1>2, <1>3, <1>4 DEF HandleChange, Inv, TypeOK
<1>6. Listed' /\ Queued'
  BY DEF HandleChange, Inv, Listed, ListsApart, ShownIsStored, Queued
<1>7. Runs'
  BY <1>1 DEF HandleChange, Inv, Runs, Change
<1> QED BY <1>5, <1>6, <1>7 DEF Inv

LEMMA ProceedInv ==
  ASSUME Inv, Proceed
  PROVE  Inv'
<1>1. step = "handled" /\ changes # <<>> /\ Change \in Changes
  BY RunningFacts DEF Proceed
<1>2. /\ refs' \in [Ids -> [acct : Accounts, file : Held]]
      /\ UNCHANGED <<sessionVars, owner, loaded, assets, loading, stored, made, asked>>
  BY DEF Proceed, Inv, TypeOK
<1>3. SessionTypeOK'
  BY <1>2, SessionUnchanged DEF Inv, TypeOK
<1>4. CASE owner = own
  <2>1. /\ step' = "writing" /\ next' = Changed
        /\ UNCHANGED <<ahead, changes, own, signed, was, switched, torn>>
    BY <1>4 DEF Proceed
  <2>2. own' = owner /\ (Change.op = "add" => Change.by = own') /\ (~switched => loaded)
    BY <1>1, <1>4, <2>1 DEF Inv, Runs
  <2>3. /\ next' \subseteq Assets
        /\ \A a \in next' : a.by = own'
        /\ ~switched' => Kept'
    BY <1>1, <1>2, <2>1, <2>2, WritingFacts
  <2>4. TypeOK'
    BY <1>1, <1>2, <1>3, <2>1, <2>3 DEF Inv, TypeOK
  <2>5. Listed' /\ Queued'
    BY <1>2, <2>1 DEF Inv, Listed, ListsApart, ShownIsStored, Queued
  <2>6. Runs'
    <3>1. Change' = Change
      BY <2>1 DEF Change
    <3> QED BY <1>2, <1>4, <2>1, <2>2, <2>3, <3>1 DEF Runs
  <2> QED BY <2>4, <2>5, <2>6 DEF Inv
<1>5. CASE owner # own /\ Change.op = "remove"
  <2>1. Over /\ torn' = TRUE
    BY <1>5 DEF Proceed
  <2> QED BY <1>1, <1>2, <2>1, EndInv
<1>6. CASE owner # own /\ Change.op # "remove"
  <2>1. /\ step' = "undo"
        /\ UNCHANGED <<ahead, changes, own, signed, was, next, switched, torn>>
    BY <1>6 DEF Proceed
  <2>2. TypeOK'
    BY <1>1, <1>2, <1>3, <2>1 DEF Inv, TypeOK
  <2>3. Listed' /\ Queued'
    BY <1>2, <2>1 DEF Inv, Listed, ListsApart, ShownIsStored, Queued
  <2>4. Runs'
    BY <1>1, <1>2, <2>1 DEF Inv, Runs, Change
  <2> QED BY <2>2, <2>3, <2>4 DEF Inv
<1> QED BY <1>4, <1>5, <1>6

LEMMA WrittenInv ==
  ASSUME Inv, Written
  PROVE  Inv'
<1>1. step = "writing" /\ changes # <<>>
  BY RunningFacts DEF Written
<1>2. /\ stored \in [Accounts -> SUBSET Assets] /\ own \in Accounts /\ owner \in Accounts
      /\ next \subseteq Assets /\ assets \subseteq Assets
  BY DEF Inv, TypeOK
<1>3. stored' = [stored EXCEPT ![own] = next]
  BY DEF Written
<1>4. assets' = IF owner = own THEN next ELSE assets
  BY DEF Written, ShowsList
<1>5. SessionTypeOK'
  BY SessionUnchanged DEF Written, Inv, TypeOK
<1>6. /\ changes' \in Seq(Changes) /\ ahead' \in 0..ChangeBound /\ ahead' <= Len(changes')
      /\ step' = "idle" /\ own' \in Accounts /\ signed' \in BOOLEAN /\ was' \in Held
      /\ next' \subseteq Assets /\ switched' \in BOOLEAN
      /\ Queued' /\ Runs'
  BY <1>1, OverFacts DEF Written
<1>7. TypeOK'
  <2>1. stored' \in [Accounts -> SUBSET Assets] /\ assets' \subseteq Assets
    BY <1>2, <1>3, <1>4
  <2>2. torn' \in BOOLEAN
    BY DEF Written, Inv, TypeOK
  <2> QED BY <1>5, <1>6, <2>1, <2>2 DEF Written, Inv, TypeOK
<1>8. Listed'
  <2>1. \A a \in next : a.by = own
    BY <1>1 DEF Inv, Runs
  <2>2. ListsApart'
    BY <1>2, <1>3, <1>4, <2>1 DEF Written, Inv, Listed, ListsApart
  <2>3. ShownIsStored'
    BY <1>2, <1>3, <1>4 DEF Written, Inv, Listed, ShownIsStored
  <2> QED BY <2>2, <2>3 DEF Written, Inv, Listed
<1> QED BY <1>6, <1>7, <1>8 DEF Inv

LEMMA WriteFailedInv ==
  ASSUME Inv, WriteFailed
  PROVE  Inv'
<1>1. step = "writing" /\ changes # <<>>
  BY RunningFacts DEF WriteFailed
<1>2. /\ refs' \in [Ids -> [acct : Accounts, file : Held]]
      /\ UNCHANGED <<sessionVars, owner, loaded, assets, loading, stored, made, asked>>
  BY DEF WriteFailed, Inv, TypeOK
<1>3. CASE TakesBack
  <2>1. /\ step' = "undo"
        /\ UNCHANGED <<ahead, changes, own, signed, was, next, switched, torn>>
    BY <1>3 DEF WriteFailed
  <2>2. SessionTypeOK'
    BY <1>2, SessionUnchanged DEF Inv, TypeOK
  <2>3. TypeOK'
    BY <1>1, <1>2, <2>1, <2>2 DEF Inv, TypeOK
  <2>4. Listed' /\ Queued'
    BY <1>2, <2>1 DEF Inv, Listed, ListsApart, ShownIsStored, Queued
  <2>5. Runs'
    BY <1>1, <1>2, <2>1 DEF Inv, Runs, Change
  <2> QED BY <2>3, <2>4, <2>5 DEF Inv
<1>4. CASE ~TakesBack
  <2>1. Over /\ torn' = (torn \/ (signed /\ Change.op = "remove"))
    BY <1>4 DEF WriteFailed
  <2>2. torn' \in BOOLEAN
    BY <2>1 DEF Inv, TypeOK
  <2> QED BY <1>1, <1>2, <2>1, <2>2, EndInv
<1> QED BY <1>3, <1>4

LEMMA UndoInv ==
  ASSUME Inv, Undo
  PROVE  Inv'
<1>1. step = "undo" /\ changes # <<>> /\ Change.id \in Ids /\ was \in Held
  BY RunningFacts DEF Undo, Inv, TypeOK
<1>2. refs' \in [Ids -> [acct : Accounts, file : Held]]
  <2> DEFINE op == IF Change.op = "add" THEN "remove" ELSE "update"
  <2>1. Registered(op, Change.id, was) \in [Ids -> [acct : Accounts, file : Held]]
    BY <1>1, RegisteredType
  <2>2. refs' = refs \/ refs' = Registered(op, Change.id, was)
    BY DEF Undo
  <2>3. refs \in [Ids -> [acct : Accounts, file : Held]]
    BY DEF Inv, TypeOK
  <2> QED BY <2>1, <2>2, <2>3
<1>3. torn' \in BOOLEAN
  BY DEF Undo, Inv, TypeOK
<1> QED BY <1>1, <1>2, <1>3, EndInv DEF Undo

(* A change that is refused, or whose request or whose taking back is lost. *)
LEMMA StoppedInv ==
  ASSUME Inv, Dismiss \/ RequestFailed \/ UndoLost
  PROVE  Inv'
<1>1. changes # <<>> /\ Over
  BY RunningFacts DEF Dismiss, RequestFailed, UndoLost
<1>2. /\ refs' \in [Ids -> [acct : Accounts, file : Held]]
      /\ UNCHANGED <<sessionVars, owner, loaded, assets, loading, stored, made, asked>>
  BY DEF Dismiss, RequestFailed, UndoLost, Inv, TypeOK
<1>3. torn' \in BOOLEAN
  BY DEF Dismiss, RequestFailed, UndoLost, Inv, TypeOK
<1> QED BY <1>1, <1>2, <1>3, EndInv

-----------------------------------------------------------------------------
(* The theorems *)

LEMMA StepInv == Inv /\ [Next]_vars => Inv'
<1> SUFFICES ASSUME Inv, [Next]_vars PROVE Inv'
  OBVIOUS
<1>1. CASE Session
  <2>1. SessionTypeOK'
    BY <1>1, SessionStepType DEF Session, Inv, TypeOK
  <2> QED BY <1>1, <2>1, SubscribedInv DEF Session
<1>2. CASE ReloadLibrary
  BY <1>2, ReloadLibraryInv
<1>3. CASE LoadDone \/ LoadFailed
  BY <1>3, LoadDoneInv, LoadFailedInv
<1>4. CASE User
  BY <1>4, UserInv
<1>5. CASE Running
  BY <1>5, StartInv, HandleChangeInv, ProceedInv, WrittenInv, WriteFailedInv, UndoInv,
     StoppedInv DEF Running
<1>6. CASE UNCHANGED vars
  <2>1. SessionTypeOK'
    BY <1>6, SessionUnchanged DEF vars, Inv, TypeOK
  <2> QED BY <1>6, <2>1, LibraryUnchanged DEF vars
<1> QED BY <1>1, <1>2, <1>3, <1>4, <1>5, <1>6 DEF Next

(* The inductive invariant holds of every behaviour. *)
THEOREM Invariance == Spec => []Inv
BY InitInv, StepInv, PTL DEF Spec

(* Every state is of its type: the queue of changes stays within its bound  *)
(* and a running change is the first of it.                                *)
THEOREM TypeCorrect == Spec => []TypeOK
<1>1. Inv => TypeOK
  BY DEF Inv
<1> QED BY <1>1, Invariance, PTL

(* changeAssets of use-asset-store.ts: the lists of the accounts are apart, *)
(* for any number of accounts, changes, requests, failures and reloads.    *)
THEOREM AccountsApart == Spec => []ListsApart
<1>1. Inv => ListsApart
  BY DEF Inv, Listed
<1> QED BY <1>1, Invariance, PTL

(* loadAssets and changeAssets: a list shown as loaded is the stored one.   *)
THEOREM LoadedIsStored == Spec => []ShownIsStored
<1>1. Inv => ShownIsStored
  BY DEF Inv, Listed
<1> QED BY <1>1, Invariance, PTL

(* changeAssets: a list that is written holds every asset that was stored   *)
(* but the one removed, unless another account was shown while it ran.     *)
THEOREM AssetsSurvive == Spec => AssetsSurviveUnswitched
<1>1. ASSUME Inv, [Next]_vars
      PROVE  [~switched => \A o \in Accounts : \A a \in stored[o] :
                (\E b \in stored'[o] : b.id = a.id) \/ Gone(a)]_vars
  <2> SUFFICES ASSUME ~switched, NEW o \in Accounts, NEW a \in stored[o]
               PROVE  (\E b \in stored'[o] : b.id = a.id) \/ Gone(a)
    OBVIOUS
  <2>1. /\ stored \in [Accounts -> SUBSET Assets] /\ own \in Accounts
    BY <1>1 DEF Inv, TypeOK
  <2>2. stored' = stored \/ (step = "writing" /\ stored' = [stored EXCEPT ![own] = next])
    <3>1. CASE Session
      BY <3>1 DEF Session, Subscribed, LoadAssets, libraryVars
    <3>2. CASE ReloadLibrary
      BY <3>2 DEF ReloadLibrary
    <3>3. CASE LoadDone \/ LoadFailed
      BY <3>3 DEF LoadDone, LoadFailed
    <3>4. CASE User
      BY <3>4 DEF User, AddAsset, UpdateAsset, RemoveAsset, Ask
    <3>5. CASE Running
      BY <3>5 DEF Running, Dismiss, Start, HandleChange, RequestFailed, Proceed, Written,
                  WriteFailed, Undo, UndoLost
    <3>6. CASE UNCHANGED vars
      BY <3>6 DEF vars, libraryVars
    <3> QED BY <1>1, <3>1, <3>2, <3>3, <3>4, <3>5, <3>6 DEF Next
  <2>3. CASE stored' = stored \/ o # own
    BY <2>1, <2>2, <2>3
  <2>4. CASE step = "writing" /\ stored' = [stored EXCEPT ![own] = next] /\ o = own
    <3>1. Kept
      BY <1>1, <2>4 DEF Inv, Runs
    <3>2. stored'[o] = next
      BY <2>1, <2>4
    <3> QED BY <2>4, <3>1, <3>2 DEF Kept, Gone
  <2> QED BY <2>2, <2>3, <2>4
<1> QED BY <1>1, Invariance, PTL DEF Spec, AssetsSurviveUnswitched

-----------------------------------------------------------------------------
(* Whom the session shows *)

Is(c, kind) == calls[c].kind = kind
Moot(c) == calls[c].live => calls[c].at = "waiting"

(* While an account is left: one logout, which nothing else overtakes.     *)
Leaving ==
  \A c \in Calls : Is(c, "logout") =>
    /\ pendingLogout = {c} /\ user = Guest
    /\ \A d \in Calls : calls[d].kind \in {"me", "profile"} => ~calls[d].live
    /\ \A d \in Calls : Is(d, "hydrate") => Moot(d)
    /\ \A d \in Calls : Is(d, "login") => calls[d].at = "waiting"

(* While an account is entered: one login, and what asked before is dead.  *)
Entering ==
  \A c \in Calls : Is(c, "login") =>
    /\ user = Guest
    /\ \A d \in Calls : Is(d, "login") => d = c
    /\ \A d \in Calls : calls[d].kind \in {"hydrate", "me", "profile"} => ~calls[d].live

(* An answer that will be shown names the account the server serves.       *)
Looking ==
  \A c \in Calls :
    calls[c].kind \in {"hydrate", "me", "profile"} /\ calls[c].live /\ calls[c].at = "handled"
      => calls[c].who = cookie

Served == ready /\ (\A c \in Calls : ~Is(c, "logout")) => user = cookie

SessionInv == ~stray => Leaving /\ Entering /\ Looking /\ Served

LEMMA OutdatedFacts ==
  ASSUME calls \in [Calls -> CallType], NEW kinds, NEW d \in Calls
  PROVE  /\ Outdated(kinds)[d].kind = calls[d].kind
         /\ Outdated(kinds)[d].at = calls[d].at
         /\ Outdated(kinds)[d].who = calls[d].who
         /\ Outdated(kinds)[d].live <=> (calls[d].live /\ calls[d].kind \notin kinds)
BY DEF Outdated, CallType

LEMMA ReleasedFacts ==
  ASSUME NEW f \in [Calls -> CallType], NEW d \in Calls
  PROVE  /\ f[d].at # "waiting" => Released(f)[d] = f[d]
         /\ f[d].at = "waiting" /\ ~f[d].live => Released(f)[d] = NoCall
         /\ f[d].at = "waiting" /\ f[d].live =>
              /\ Released(f)[d].kind = f[d].kind
              /\ Released(f)[d].at = "asked"
              /\ Released(f)[d].who = f[d].who
              /\ Released(f)[d].live
BY DEF Released, CallType

(* A call that ends: of the others, those that waited may go on or end.    *)
Ended(c) ==
  \A d \in Calls :
    \/ calls'[d] = NoCall
    \/ d # c /\ calls'[d] = calls[d]
    \/ /\ d # c /\ c \in pendingLogout
       /\ calls'[d].kind = calls[d].kind /\ calls'[d].at = "asked"
       /\ calls[d].at = "waiting" /\ calls[d].live

LEMMA EndedFacts ==
  ASSUME SessionTypeOK, NEW c \in Calls,
         calls' = LET f == [calls EXCEPT ![c] = NoCall]
                  IN IF c \in pendingLogout THEN Released(f) ELSE f
  PROVE  Ended(c)
<1>1. calls \in [Calls -> CallType] /\ NoCall \in CallType
  BY AccountFacts DEF SessionTypeOK, NoCall, CallType, Kinds
<1> DEFINE f == [calls EXCEPT ![c] = NoCall]
<1>2. f \in [Calls -> CallType] /\ f[c] = NoCall /\ \A d \in Calls : d # c => f[d] = calls[d]
  BY <1>1
<1>3. calls' = IF c \in pendingLogout THEN Released(f) ELSE f
  OBVIOUS
<1> HIDE DEF f
<1>4. CASE c \notin pendingLogout
  BY <1>2, <1>3, <1>4 DEF Ended
<1>5. CASE c \in pendingLogout
  <2> SUFFICES ASSUME NEW d \in Calls
               PROVE  \/ calls'[d] = NoCall
                      \/ d # c /\ calls'[d] = calls[d]
                      \/ /\ d # c /\ c \in pendingLogout
                         /\ calls'[d].kind = calls[d].kind /\ calls'[d].at = "asked"
                         /\ calls[d].at = "waiting" /\ calls[d].live
    BY DEF Ended
  <2>1. calls'[d] = Released(f)[d]
    BY <1>3, <1>5
  <2>2. CASE f[d].at # "waiting"
    BY <1>2, <2>1, <2>2, ReleasedFacts
  <2>3. CASE f[d].at = "waiting" /\ ~f[d].live
    BY <1>2, <2>1, <2>3, ReleasedFacts
  <2>4. CASE f[d].at = "waiting" /\ f[d].live
    <3>1. d # c
      BY <1>2, <2>4 DEF NoCall
    <3> QED BY <1>2, <1>5, <2>1, <2>4, <3>1, ReleasedFacts
  <2> QED BY <2>2, <2>3, <2>4
<1> QED BY <1>4, <1>5

LEMMA NoCallFacts == NoCall.kind = "none" /\ ~NoCall.live /\ NoCall.at = "asked"
BY DEF NoCall

(* Calls begun. *)
LEMMA HydrateServed ==
  ASSUME SessionTypeOK, SessionInv, NEW c \in Calls, Hydrate(c)
  PROVE  SessionInv'
<1> SUFFICES ASSUME ~stray' PROVE Leaving' /\ Entering' /\ Looking' /\ Served'
  BY DEF SessionInv
<1>1. /\ calls \in [Calls -> CallType] /\ Patience \in {"asked", "waiting"}
      /\ UNCHANGED <<cookie, user, ready, pendingLogout>>
  BY DEF SessionTypeOK, Hydrate, Patience
<1>2. /\ ~stray /\ \A d \in Calls : ~Is(d, "login")
      /\ Leaving /\ Entering /\ Looking /\ Served
  BY DEF Hydrate, During, SessionInv, Is
<1>3. Outdated({"hydrate"}) \in [Calls -> CallType]
  BY <1>1, OutdatedType
<1>4. /\ calls'[c].kind = "hydrate" /\ calls'[c].at = Patience
      /\ \A d \in Calls : d # c => calls'[d] = Outdated({"hydrate"})[d]
  BY <1>3 DEF Hydrate, Place
<1>5. ASSUME NEW d \in Calls, d # c
      PROVE  /\ calls'[d].kind = calls[d].kind /\ calls'[d].at = calls[d].at
             /\ calls'[d].who = calls[d].who
             /\ calls'[d].live => (calls[d].live /\ calls[d].kind # "hydrate")
  BY <1>1, <1>4, <1>5, OutdatedFacts
<1>6. calls[c].kind = "none"
  BY NoCallFacts DEF Hydrate
<1>7. (\E d \in Calls : Is(d, "logout")) => Patience = "waiting"
  BY <1>2 DEF Leaving, Patience
<1>8. Leaving'
  BY <1>1, <1>2, <1>4, <1>5, <1>7 DEF Leaving, Is, Moot
<1>9. Entering'
  BY <1>2, <1>4, <1>5 DEF Entering, Is
<1>10. Looking'
  BY <1>1, <1>2, <1>4, <1>5 DEF Looking
<1>11. Served'
  BY <1>1, <1>2, <1>4, <1>5, <1>6 DEF Served, Is
<1> QED BY <1>8, <1>9, <1>10, <1>11

LEMMA LogInServed ==
  ASSUME SessionTypeOK, SessionInv, NEW c \in Calls, NEW u \in Users, LogIn(c, u)
  PROVE  SessionInv'
<1> SUFFICES ASSUME ~stray' PROVE Leaving' /\ Entering' /\ Looking' /\ Served'
  BY DEF SessionInv
<1>1. /\ calls \in [Calls -> CallType] /\ user = Guest /\ calls[c].kind = "none"
      /\ \A d \in Calls : ~Is(d, "login")
      /\ UNCHANGED <<cookie, user, ready, pendingLogout>>
  BY NoCallFacts DEF SessionTypeOK, LogIn, Is
<1>2. Leaving /\ Entering /\ Looking /\ Served
  BY DEF LogIn, SessionInv
<1>3. Outdated(Versioned) \in [Calls -> CallType]
  BY <1>1, OutdatedType
<1>4. /\ calls'[c].kind = "login" /\ calls'[c].at = Patience
      /\ \A d \in Calls : d # c => calls'[d] = Outdated(Versioned)[d]
  BY <1>3 DEF LogIn, Place
<1>5. ASSUME NEW d \in Calls, d # c
      PROVE  /\ calls'[d].kind = calls[d].kind /\ calls'[d].at = calls[d].at
             /\ calls'[d].live =>
                  (calls[d].live /\ calls[d].kind \notin {"hydrate", "me", "profile"})
  BY <1>1, <1>4, <1>5, OutdatedFacts DEF Versioned
<1>6. (\E d \in Calls : Is(d, "logout")) => Patience = "waiting"
  BY <1>2 DEF Leaving, Patience
<1>7. Leaving'
  BY <1>1, <1>2, <1>4, <1>5, <1>6 DEF Leaving, Is, Moot
<1>8. Entering'
  BY <1>1, <1>4, <1>5 DEF Entering, Is
<1>9. Looking'
  BY <1>4, <1>5 DEF Looking
<1>10. Served'
  BY <1>1, <1>2, <1>4, <1>5 DEF Served, Is
<1> QED BY <1>7, <1>8, <1>9, <1>10

(* The pages that will call setSession ask. *)
LEMMA AskSessionServed ==
  ASSUME SessionTypeOK, SessionInv, NEW c \in Calls, LoginPage(c) \/ SaveProfile(c)
  PROVE  SessionInv'
<1> SUFFICES ASSUME ~stray' PROVE Leaving' /\ Entering' /\ Looking' /\ Served'
  BY DEF SessionInv
<1>1. /\ calls \in [Calls -> CallType] /\ calls[c].kind = "none" /\ ~stray
      /\ \A d \in Calls : ~Is(d, "login") /\ ~Is(d, "logout")
      /\ UNCHANGED <<cookie, user, ready, pendingLogout>>
  BY NoCallFacts DEF SessionTypeOK, LoginPage, SaveProfile, During, Is
<1>2. Leaving /\ Entering /\ Looking /\ Served
  BY <1>1 DEF SessionInv
<1>3. /\ calls'[c].kind \in {"me", "profile"} /\ calls'[c].at = "asked"
      /\ \A d \in Calls : d # c => calls'[d] = calls[d]
  BY <1>1 DEF LoginPage, SaveProfile, Place
<1>4. Leaving' /\ Entering'
  BY <1>1, <1>3 DEF Leaving, Entering, Is
<1>5. Looking'
  BY <1>1, <1>2, <1>3 DEF Looking
<1>6. Served'
  BY <1>1, <1>2, <1>3 DEF Served, Is
<1> QED BY <1>4, <1>5, <1>6

LEMMA ClearSessionServed ==
  ASSUME SessionTypeOK, SessionInv, NEW c \in Calls, ClearSession(c)
  PROVE  SessionInv'
<1> SUFFICES ASSUME ~stray' PROVE Leaving' /\ Entering' /\ Looking' /\ Served'
  BY DEF SessionInv
<1>1. /\ calls \in [Calls -> CallType] /\ user # Guest
      /\ user' = Guest /\ pendingLogout' = {c}
  BY DEF SessionTypeOK, ClearSession
<1>2. Leaving /\ Entering
  BY DEF ClearSession, SessionInv
<1>3. \A d \in Calls : ~Is(d, "login") /\ ~Is(d, "logout")
  BY <1>1, <1>2 DEF Leaving, Entering
<1>4. Outdated(Versioned) \in [Calls -> CallType]
  BY <1>1, OutdatedType
<1>5. /\ calls'[c].kind = "logout"
      /\ \A d \in Calls : d # c => calls'[d] = Outdated(Versioned)[d]
  BY <1>4 DEF ClearSession, Place
<1>6. ASSUME NEW d \in Calls, d # c
      PROVE  /\ calls'[d].kind = calls[d].kind
             /\ calls'[d].live => calls[d].kind \notin {"hydrate", "me", "profile"}
  BY <1>1, <1>5, <1>6, OutdatedFacts DEF Versioned
<1>7. Leaving'
  BY <1>1, <1>3, <1>5, <1>6 DEF Leaving, Is, Moot
<1>8. Entering'
  BY <1>3, <1>5, <1>6 DEF Entering, Is
<1>9. Looking'
  BY <1>5, <1>6 DEF Looking
<1>10. Served'
  BY <1>5 DEF Served, Is
<1> QED BY <1>7, <1>8, <1>9, <1>10

(* Calls handled. *)
LEMMA HandleServed ==
  ASSUME SessionTypeOK, SessionInv, NEW c \in Calls, Handle(c)
  PROVE  SessionInv'
<1> SUFFICES ASSUME ~stray' PROVE Leaving' /\ Entering' /\ Looking' /\ Served'
  BY DEF SessionInv
<1>1. /\ calls \in [Calls -> CallType] /\ calls[c].at = "asked"
      /\ UNCHANGED <<user, ready, pendingLogout>>
  BY DEF SessionTypeOK, Handle
<1>2. Leaving /\ Entering /\ Looking /\ Served
  BY DEF Handle, SessionInv
<1>3. /\ calls'[c].kind = calls[c].kind /\ calls'[c].live = calls[c].live
      /\ calls'[c].at = "handled"
      /\ calls[c].kind \in {"hydrate", "me", "profile"} => calls'[c].who = cookie
      /\ \A d \in Calls : d # c => calls'[d] = calls[d]
  BY <1>1 DEF Handle, CallType
<1>4. calls[c].kind # "logout" => cookie' = cookie
  BY DEF Handle
<1>5. \A d \in Calls : calls'[d].kind = calls[d].kind /\ calls'[d].live = calls[d].live
  BY <1>3
<1>6. Leaving'
  BY <1>1, <1>2, <1>3, <1>5 DEF Leaving, Is, Moot
<1>7. Entering'
  BY <1>1, <1>2, <1>5 DEF Entering, Is
<1>8. Looking'
  <2>1. CASE calls[c].kind = "logout"
    BY <1>2, <1>3, <2>1 DEF Leaving, Looking, Is, Moot
  <2>2. CASE calls[c].kind # "logout"
    BY <1>2, <1>3, <1>4, <2>2 DEF Looking
  <2> QED BY <2>1, <2>2
<1>9. Served'
  <2>1. CASE calls[c].kind = "logout"
    BY <1>5, <2>1 DEF Served, Is
  <2>2. CASE calls[c].kind # "logout"
    BY <1>1, <1>2, <1>4, <1>5, <2>2 DEF Served, Is
  <2> QED BY <2>1, <2>2
<1> QED BY <1>6, <1>7, <1>8, <1>9

(* Calls answered or lost. *)
LEMMA AnswerHydrateServed ==
  ASSUME SessionTypeOK, SessionInv, NEW c \in Calls, AnswerHydrate(c)
  PROVE  SessionInv'
<1> SUFFICES ASSUME ~stray' PROVE Leaving' /\ Entering' /\ Looking' /\ Served'
  BY DEF SessionInv
<1>1. /\ calls \in [Calls -> CallType] /\ calls[c].kind = "hydrate" /\ calls[c].at = "handled"
      /\ UNCHANGED <<cookie, pendingLogout>>
  BY DEF SessionTypeOK, AnswerHydrate
<1>2. Leaving /\ Entering /\ Looking /\ Served
  BY DEF AnswerHydrate, SessionInv
<1>3. calls'[c] = NoCall /\ \A d \in Calls : d # c => calls'[d] = calls[d]
  BY <1>1 DEF AnswerHydrate
<1>4. CASE calls[c].live
  <2>1. \A d \in Calls : ~Is(d, "login") /\ ~Is(d, "logout")
    BY <1>1, <1>2, <1>4 DEF Leaving, Entering, Is, Moot
  <2>2. user' = cookie
    BY <1>1, <1>2, <1>4 DEF AnswerHydrate, Applies, Shows, Looking
  <2>3. Leaving' /\ Entering'
    BY <1>3, <2>1, NoCallFacts DEF Leaving, Entering, Is
  <2>4. Looking'
    BY <1>1, <1>2, <1>3, NoCallFacts DEF Looking
  <2> QED BY <1>1, <2>2, <2>3, <2>4 DEF Served
<1>5. CASE ~calls[c].live
  <2>1. UNCHANGED <<user, ready>>
    BY <1>5 DEF AnswerHydrate, Applies
  <2>2. Leaving' /\ Entering'
    BY <1>1, <1>2, <1>3, <2>1, NoCallFacts DEF Leaving, Entering, Is, Moot
  <2>3. Looking'
    BY <1>1, <1>2, <1>3, NoCallFacts DEF Looking
  <2>4. Served'
    BY <1>1, <1>2, <1>3, <2>1 DEF Served, Is
  <2> QED BY <2>2, <2>3, <2>4
<1> QED BY <1>4, <1>5

LEMMA AnswerLogInServed ==
  ASSUME SessionTypeOK, SessionInv, NEW c \in Calls, AnswerLogIn(c)
  PROVE  SessionInv'
<1> SUFFICES ASSUME ~stray' PROVE Leaving' /\ Entering' /\ Looking' /\ Served'
  BY DEF SessionInv
<1>1. /\ calls \in [Calls -> CallType] /\ Is(c, "login") /\ calls[c].at = "handled"
      /\ cookie' = calls[c].who
  BY DEF SessionTypeOK, AnswerLogIn, Is
<1>2. ~stray /\ calls[c].live /\ user' = calls[c].who
  BY DEF AnswerLogIn, Shows
<1>3. Leaving /\ Entering
  BY <1>2 DEF SessionInv
<1>4. calls'[c] = NoCall /\ \A d \in Calls : d # c => calls'[d] = calls[d]
  BY <1>1 DEF AnswerLogIn
<1>5. /\ \A d \in Calls : ~Is(d, "logout")
      /\ \A d \in Calls : Is(d, "login") => d = c
      /\ \A d \in Calls : calls[d].kind \in {"hydrate", "me", "profile"} => ~calls[d].live
  BY <1>1, <1>3 DEF Leaving, Entering
<1>6. Leaving' /\ Entering'
  BY <1>4, <1>5, NoCallFacts DEF Leaving, Entering, Is
<1>7. Looking'
  BY <1>4, <1>5, NoCallFacts DEF Looking
<1>8. Served'
  BY <1>1, <1>2 DEF Served
<1> QED BY <1>6, <1>7, <1>8

LEMMA AnswerSetSessionServed ==
  ASSUME SessionTypeOK, SessionInv, NEW c \in Calls, AnswerSetSession(c)
  PROVE  SessionInv'
<1> SUFFICES ASSUME ~stray' PROVE Leaving' /\ Entering' /\ Looking' /\ Served'
  BY DEF SessionInv
<1>1. /\ calls \in [Calls -> CallType] /\ calls[c].kind \in {"me", "profile"}
      /\ calls[c].at = "handled" /\ UNCHANGED <<cookie, pendingLogout>>
  BY DEF SessionTypeOK, AnswerSetSession
<1>2. ~stray /\ Leaving /\ Entering /\ Looking /\ Served
  BY DEF AnswerSetSession, SessionInv
<1>3. CASE calls[c].who = Guest
  <2>1. UNCHANGED <<user, ready>>
    BY <1>3 DEF AnswerSetSession
  <2>2. calls'[c] = NoCall /\ \A d \in Calls : d # c => calls'[d] = calls[d]
    BY <1>1, <1>3 DEF AnswerSetSession
  <2>3. Leaving' /\ Entering'
    BY <1>1, <1>2, <2>1, <2>2, NoCallFacts DEF Leaving, Entering, Is, Moot
  <2>4. Looking'
    BY <1>1, <1>2, <2>2, NoCallFacts DEF Looking
  <2>5. Served'
    BY <1>1, <1>2, <2>1, <2>2 DEF Served, Is
  <2> QED BY <2>3, <2>4, <2>5
<1>4. CASE calls[c].who # Guest
  <2>1. calls[c].live /\ user' = calls[c].who
    BY <1>4 DEF AnswerSetSession, Shows
  <2>2. \A d \in Calls : ~Is(d, "login") /\ ~Is(d, "logout")
    BY <1>1, <1>2, <2>1 DEF Leaving, Entering
  <2>3. calls[c].who = cookie
    BY <1>1, <1>2, <2>1 DEF Looking
  <2>4. Outdated(Versioned) \in [Calls -> CallType]
    BY <1>1, OutdatedType
  <2>5. calls'[c] = NoCall /\ \A d \in Calls : d # c => calls'[d] = Outdated(Versioned)[d]
    BY <1>4, <2>4 DEF AnswerSetSession
  <2>6. ASSUME NEW d \in Calls, d # c
        PROVE  /\ calls'[d].kind = calls[d].kind
               /\ calls'[d].live => calls[d].kind \notin {"hydrate", "me", "profile"}
    BY <1>1, <2>5, <2>6, OutdatedFacts DEF Versioned
  <2>7. Leaving' /\ Entering'
    BY <2>2, <2>5, <2>6, NoCallFacts DEF Leaving, Entering, Is
  <2>8. Looking'
    BY <2>5, <2>6, NoCallFacts DEF Looking
  <2> QED BY <1>1, <2>1, <2>3, <2>7, <2>8 DEF Served
<1> QED BY <1>3, <1>4

LEMMA AnswerLogoutServed ==
  ASSUME SessionTypeOK, SessionInv, NEW c \in Calls, AnswerLogout(c)
  PROVE  SessionInv'
<1> SUFFICES ASSUME ~stray' PROVE Leaving' /\ Entering' /\ Looking' /\ Served'
  BY DEF SessionInv
<1>1. /\ Is(c, "logout") /\ cookie' = Guest /\ UNCHANGED <<user, ready>>
      /\ calls[c].kind \notin {"hydrate", "login", "me", "profile"}
  BY DEF AnswerLogout, Is
<1>2. Leaving /\ Entering
  BY DEF AnswerLogout, SessionInv
<1>3. Ended(c)
  BY EndedFacts DEF AnswerLogout
<1>4. /\ \A d \in Calls : Is(d, "logout") => d = c
      /\ \A d \in Calls : calls[d].kind \in {"me", "profile"} => ~calls[d].live
      /\ \A d \in Calls : Is(d, "hydrate") => Moot(d)
      /\ user = Guest
  BY <1>1, <1>2 DEF Leaving
<1>5. \A d \in Calls : ~Is(d, "logout")'
  BY <1>3, <1>4, NoCallFacts DEF Ended, Is
<1>6. Leaving'
  BY <1>5 DEF Leaving
<1>7. Entering'
  BY <1>1, <1>2, <1>3, NoCallFacts DEF Entering, Ended, Is
<1>8. Looking'
  BY <1>3, <1>4, NoCallFacts DEF Looking, Ended, Is, Moot
<1>9. Served'
  BY <1>1, <1>4 DEF Served
<1> QED BY <1>6, <1>7, <1>8, <1>9

LEMMA LostServed ==
  ASSUME SessionTypeOK, SessionInv, NEW c \in Calls, Lost(c)
  PROVE  SessionInv'
<1> SUFFICES ASSUME ~stray' PROVE Leaving' /\ Entering' /\ Looking' /\ Served'
  BY DEF SessionInv
<1>1. /\ calls[c].kind \notin {"hydrate", "logout"}
      /\ UNCHANGED <<cookie, user, ready>> /\ pendingLogout' = pendingLogout \ {c}
  BY DEF Lost
<1>2. Leaving /\ Entering /\ Looking /\ Served
  BY DEF Lost, SessionInv
<1>3. Ended(c)
  BY EndedFacts DEF Lost
<1>4. ASSUME NEW d \in Calls, Is(d, "logout")'
      PROVE  c \notin pendingLogout /\ Is(d, "logout") /\ d # c
  <2>1. Is(d, "logout") /\ d # c
    BY <1>1, <1>3, <1>4, NoCallFacts DEF Ended, Is
  <2> QED BY <1>2, <2>1 DEF Leaving
<1>5. Leaving'
  <2> SUFFICES ASSUME NEW d \in Calls, Is(d, "logout")'
               PROVE  /\ pendingLogout' = {d} /\ user' = Guest
                      /\ \A e \in Calls : calls'[e].kind \in {"me", "profile"} => ~calls'[e].live
                      /\ \A e \in Calls : Is(e, "hydrate")' => Moot(e)'
                      /\ \A e \in Calls : Is(e, "login")' => calls'[e].at = "waiting"
    BY DEF Leaving
  <2>1. c \notin pendingLogout /\ Is(d, "logout")
    BY <1>4
  <2>2. \A e \in Calls : calls'[e] = NoCall \/ calls'[e] = calls[e]
    BY <1>3, <2>1 DEF Ended
  <2>3. pendingLogout' = {d} /\ user' = Guest
    BY <1>1, <1>2, <2>1 DEF Leaving
  <2> QED BY <1>2, <2>1, <2>2, <2>3, NoCallFacts DEF Leaving, Is, Moot
<1>6. Entering'
  BY <1>1, <1>2, <1>3, NoCallFacts DEF Entering, Ended, Is
<1>7. Looking'
  BY <1>1, <1>2, <1>3, NoCallFacts DEF Looking, Ended
<1>8. Served'
  <2>1. ASSUME NEW d \in Calls, Is(d, "logout")
        PROVE  Is(d, "logout")'
    <3>1. d # c /\ pendingLogout = {d}
      BY <1>1, <1>2, <2>1 DEF Leaving, Is
    <3>2. calls'[d] = calls[d] \/ calls'[d] = NoCall
      BY <1>3, <3>1 DEF Ended
    <3>3. calls'[d] = calls[d]
      BY <3>1, <3>2 DEF Lost
    <3> QED BY <2>1, <3>3 DEF Is
  <2> QED BY <1>1, <1>2, <2>1 DEF Served
<1> QED BY <1>5, <1>6, <1>7, <1>8

LEMMA ReloadServed ==
  ASSUME Reload
  PROVE  SessionInv'
<1>1. /\ ready' = FALSE /\ \A c \in Calls : calls'[c] = NoCall
  BY DEF Reload
<1>2. Leaving' /\ Entering' /\ Looking' /\ Served'
  BY <1>1, NoCallFacts DEF Leaving, Entering, Looking, Served, Is
<1> QED BY <1>2 DEF SessionInv

LEMMA InitServed == Init => SessionInv
<1> SUFFICES ASSUME Init PROVE SessionInv
  OBVIOUS
<1>1. ready = FALSE /\ \A c \in Calls : calls[c] = NoCall
  BY DEF Init, SessionInit
<1>2. Leaving /\ Entering /\ Looking /\ Served
  BY <1>1, NoCallFacts DEF Leaving, Entering, Looking, Served, Is
<1> QED BY <1>2 DEF SessionInv

LEMMA StepServed == SessionTypeOK /\ SessionInv /\ [Next]_vars => SessionInv'
<1> SUFFICES ASSUME SessionTypeOK, SessionInv, [Next]_vars PROVE SessionInv'
  OBVIOUS
<1>1. CASE SessionStep
  BY <1>1, HydrateServed, LogInServed, AskSessionServed, ClearSessionServed, HandleServed,
     AnswerHydrateServed, AnswerLogInServed, AnswerLogoutServed, AnswerSetSessionServed,
     LostServed DEF SessionStep
<1>2. CASE Reload
  BY <1>2, ReloadServed
<1>3. CASE UNCHANGED sessionVars
  BY <1>3 DEF sessionVars, SessionInv, Leaving, Entering, Looking, Served, Is, Moot
<1>4. SessionStep \/ Reload \/ UNCHANGED sessionVars
  <2>1. CASE Session
    BY <2>1 DEF Session
  <2>2. CASE ReloadLibrary
    BY <2>2 DEF ReloadLibrary
  <2>3. CASE LoadDone \/ LoadFailed
    BY <2>3 DEF LoadDone, LoadFailed
  <2>4. CASE User
    BY <2>4 DEF User, AddAsset, UpdateAsset, RemoveAsset, Ask
  <2>5. CASE Running
    BY <2>5 DEF Running, Dismiss, Start, HandleChange, RequestFailed, Proceed, Written,
                WriteFailed, Undo, UndoLost
  <2>6. CASE UNCHANGED vars
    BY <2>6 DEF vars
  <2> QED BY <2>1, <2>2, <2>3, <2>4, <2>5, <2>6 DEF Next
<1> QED BY <1>1, <1>2, <1>3, <1>4

(* use-user-store.ts: the account on the screen is the one the server       *)
(* serves, whatever calls overtake one another, but for an account being   *)
(* left and what stray says.                                               *)
THEOREM ShownServed == Spec => []ShownIsServed
<1>1. SessionInv => ShownIsServed
  BY DEF SessionInv, Served, Is, ShownIsServed
<1>2. Inv => SessionTypeOK
  BY DEF Inv, TypeOK
<1> QED BY <1>1, <1>2, InitServed, StepServed, Invariance, PTL DEF Spec

-----------------------------------------------------------------------------
(* Which assets the server keeps the files of *)

(* An id is given once: it names one asset of one list, and while it is     *)
(* being added no list has it.  What is shown is of the list stored.       *)
Numbered ==
  /\ \A o, p \in Accounts : \A a \in stored[o], b \in stored[p] : a.id = b.id => o = p /\ a = b
  /\ \A o \in Accounts : \A a \in stored[o] : a.id <= made
  /\ \A i \in 1..Len(changes) : changes[i].op = "add" =>
       /\ changes[i].id <= made
       /\ \A o \in Accounts : \A a \in stored[o] : a.id # changes[i].id
       /\ \A j \in 1..Len(changes) :
            changes[j].op = "add" /\ changes[j].id = changes[i].id => j = i
  /\ assets \subseteq stored[owner]

(* The list about to be written is the stored one but for the one asset     *)
(* the change is about.                                                    *)
Makes ==
  step = "writing" =>
    /\ \A b, c \in next : b.id = c.id => b = c
    /\ \A b \in next : b.id # Change.id => b \in stored[own]
    /\ \A b \in next : b.id = Change.id =>
         /\ Change.op # "remove" /\ b.file = Change.file
         /\ Change.op = "add" \/ \E a \in stored[own] : a.id = Change.id
    /\ ~switched =>
         /\ \A a \in stored[own] : a.id # Change.id => a \in next
         /\ Change.op # "remove" => \E b \in next : b.id = Change.id

(* What the running change read first is still so. *)
Reads ==
  step # "idle" =>
    /\ signed <=> own # Guest
    /\ step # "writing" => signed
    /\ Change.op = "update" => \E a \in stored[own] : a.id = Change.id /\ a.file = was
    /\ step = "undo" => Change.op # "remove"

(* The assets of these accounts are registered, and what is registered is   *)
(* an asset; but for the asset whose change the server has handled and the *)
(* list does not show yet.                                                 *)
Owned(i, A) ==
  \A o \in A : \A a \in stored[o] : a.id = i => refs[i] = [acct |-> o, file |-> a.file]
Backed(i) ==
  refs[i] # Unregistered =>
    refs[i].acct \in Users /\ \E a \in stored[refs[i].acct] : a.id = i /\ a.file = refs[i].file
Apart == step \in {"handled", "undo"} \/ (step = "writing" /\ signed)
Matched ==
  ~torn =>
    /\ \A i \in Ids : (step = "idle" \/ i # Change.id \/ ~Apart) => Owned(i, Users) /\ Backed(i)
    /\ Apart => IF Change.op = "remove"
                THEN /\ Owned(Change.id, Users \ {own}) /\ Backed(Change.id)
                     /\ refs[Change.id].acct # own
                ELSE refs[Change.id] = [acct |-> own, file |-> Change.file]

RegInv == Numbered /\ Makes /\ Reads /\ Matched

(* A step that leaves the running change and what it is about alone. *)
LEMMA SteadyReg ==
  ASSUME Makes, Reads, Matched,
         UNCHANGED <<stored, refs, step, own, signed, was, next, torn>>,
         step # "idle" => /\ Change'.op = Change.op /\ Change'.id = Change.id
                          /\ Change'.file = Change.file
                          /\ switched => switched'
  PROVE  Makes' /\ Reads' /\ Matched'
<1>1. Makes'
  BY DEF Makes
<1>2. Reads'
  BY DEF Reads
<1>3. Apart' <=> Apart
  BY DEF Apart
<1>4. \A i \in Ids : (Owned(i, Users)' <=> Owned(i, Users)) /\ (Backed(i)' <=> Backed(i))
  BY DEF Owned, Backed
<1>5. Apart => step # "idle"
  BY DEF Apart
<1>6. ASSUME ~torn'
      PROVE  \A i \in Ids : (step' = "idle" \/ i # Change'.id \/ ~Apart')
                             => Owned(i, Users)' /\ Backed(i)'
  BY <1>3, <1>4, <1>5, <1>6 DEF Matched
<1>7. ASSUME ~torn', Apart'
      PROVE  IF Change'.op = "remove"
             THEN /\ Owned(Change.id, Users \ {own})' /\ Backed(Change.id)'
                  /\ refs'[Change'.id].acct # own'
             ELSE refs'[Change'.id] = [acct |-> own', file |-> Change'.file]
  <2>1. /\ Change'.op = Change.op /\ Change'.id = Change.id /\ Change'.file = Change.file
        /\ refs' = refs /\ own' = own /\ stored' = stored
    BY <1>3, <1>5, <1>7
  <2>2. IF Change.op = "remove"
        THEN /\ Owned(Change.id, Users \ {own}) /\ Backed(Change.id)
             /\ refs[Change.id].acct # own
        ELSE refs[Change.id] = [acct |-> own, file |-> Change.file]
    BY <1>3, <1>7 DEF Matched
  <2> QED BY <2>1, <2>2 DEF Owned, Backed
<1> QED BY <1>1, <1>2, <1>6, <1>7 DEF Matched

(* When no change runs, all that matters is that every asset is matched. *)
LEMMA SettledReg ==
  ASSUME step' = "idle", ~torn' => \A i \in Ids : Owned(i, Users)' /\ Backed(i)'
  PROVE  Makes' /\ Reads' /\ Matched'
BY DEF Makes, Reads, Matched, Apart

(* The first change leaves the queue and no list is written. *)
LEMMA OverNumbered ==
  ASSUME Inv, Numbered, changes # <<>>, Over, UNCHANGED <<stored, made, owner, assets>>
  PROVE  Numbered'
<1>1. changes \in Seq(Changes)
  BY DEF Inv, TypeOK
<1>2. /\ changes' = Tail(changes) /\ Len(changes) \in Nat
      /\ Len(changes') = Len(changes) - 1
      /\ \A i \in 1..Len(changes') : changes'[i] = changes[i + 1]
  BY <1>1, TailFacts DEF Over
<1> DEFINE n == Len(changes)  m == Len(changes')
<1>3. n \in Nat /\ m = n - 1
  BY <1>2
<1>4. \A i \in 1..m : changes'[i] = changes[i + 1]
  BY <1>2
<1>5. ASSUME NEW i \in 1..m, changes'[i].op = "add"
      PROVE  /\ changes'[i].id <= made
             /\ \A o \in Accounts : \A a \in stored[o] : a.id # changes'[i].id
             /\ \A j \in 1..m : changes'[j].op = "add" /\ changes'[j].id = changes'[i].id => j = i
  <2> HIDE DEF n, m
  <2>1. i + 1 \in 1..n /\ \A j \in 1..m : j + 1 \in 1..n
    BY <1>3
  <2>2. changes'[i] = changes[i + 1]
    BY <1>4
  <2>3. /\ changes[i + 1].id <= made
        /\ \A o \in Accounts : \A a \in stored[o] : a.id # changes[i + 1].id
        /\ \A j \in 1..n : changes[j].op = "add" /\ changes[j].id = changes[i + 1].id => j = i + 1
    BY <1>5, <2>1, <2>2 DEF Numbered, n
  <2>4. ASSUME NEW j \in 1..m, changes'[j].op = "add", changes'[j].id = changes'[i].id
        PROVE  j = i
    <3>1. j + 1 = i + 1
      BY <1>4, <2>1, <2>2, <2>3, <2>4
    <3> QED BY <1>3, <3>1
  <2> QED BY <2>2, <2>3, <2>4
<1> QED BY <1>5 DEF Numbered

(* The account shown changes: the changes that wait will not start, and the *)
(* screen is empty.                                                        *)
LEMMA OutlivedSame ==
  ASSUME changes \in Seq(Changes)
  PROVE  /\ Len(Outlived(changes)) = Len(changes)
         /\ \A i \in 1..Len(changes) : /\ Outlived(changes)[i].op = changes[i].op
                                      /\ Outlived(changes)[i].id = changes[i].id
                                      /\ Outlived(changes)[i].file = changes[i].file
         /\ changes # <<>> => /\ Head(Outlived(changes)).op = Change.op
                              /\ Head(Outlived(changes)).id = Change.id
                              /\ Head(Outlived(changes)).file = Change.file
<1>1. /\ DOMAIN changes = 1..Len(changes) /\ Len(changes) \in Nat
      /\ \A i \in 1..Len(changes) : changes[i] \in Changes
  BY ElementOfSeq, LenProperties
<1>2. Len(Outlived(changes)) = Len(changes) /\ Outlived(changes) \in Seq(Changes)
  BY OutlivedFacts
<1>3. \A i \in 1..Len(changes) :
        /\ Outlived(changes)[i].op = changes[i].op
        /\ Outlived(changes)[i].id = changes[i].id
        /\ Outlived(changes)[i].file = changes[i].file
  BY <1>1 DEF Outlived, Changes
<1>4. ASSUME changes # <<>>
      PROVE  /\ 1 \in 1..Len(changes)
             /\ Change = changes[1] /\ Head(Outlived(changes)) = Outlived(changes)[1]
  <2>1. Len(changes) # 0
    BY <1>4, EmptySeq
  <2>2. Outlived(changes) # <<>>
    BY <1>2, <2>1, EmptySeq
  <2> QED BY <1>1, <1>2, <1>4, <2>1, <2>2 DEF Change
<1> QED BY <1>2, <1>3, <1>4

LEMMA LoadAssetsReg ==
  ASSUME Inv, RegInv, NEW o, LoadAssets(o)
  PROVE  RegInv'
<1>1. /\ changes \in Seq(Changes) /\ (step # "idle" => changes # <<>>)
      /\ switched \in BOOLEAN
  BY DEF Inv, TypeOK
<1>2. /\ changes' = Outlived(changes) /\ assets' = {}
      /\ switched' = (step # "idle")
      /\ UNCHANGED <<step, own, signed, was, next, stored, refs, made, torn>>
  BY DEF LoadAssets
<1>3. /\ Len(changes') = Len(changes)
      /\ \A i \in 1..Len(changes) : changes'[i].op = changes[i].op /\ changes'[i].id = changes[i].id
      /\ step # "idle" => /\ Change'.op = Change.op /\ Change'.id = Change.id
                          /\ Change'.file = Change.file
  BY <1>1, <1>2, OutlivedSame DEF Change
<1>4. Makes' /\ Reads' /\ Matched'
  BY <1>2, <1>3, SteadyReg DEF RegInv
<1>5. Numbered'
  <2>1. \A i \in 1..Len(changes') : i \in 1..Len(changes) /\ changes'[i].op = changes[i].op
                                     /\ changes'[i].id = changes[i].id
    BY <1>3
  <2> QED BY <1>2, <1>3, <2>1 DEF RegInv, Numbered
<1> QED BY <1>4, <1>5 DEF RegInv

LEMMA LibraryUnchangedReg ==
  ASSUME RegInv, UNCHANGED libraryVars
  PROVE  RegInv'
<1>1. UNCHANGED <<owner, assets, changes, step, own, signed, was, next, switched, stored, refs,
                  made, torn>>
  BY DEF libraryVars, changeVars
<1>2. Makes' /\ Reads' /\ Matched'
  BY <1>1, SteadyReg DEF RegInv, Change
<1>3. Numbered'
  BY <1>1 DEF RegInv, Numbered
<1> QED BY <1>2, <1>3 DEF RegInv

LEMMA LoadEndReg ==
  ASSUME RegInv, LoadDone \/ LoadFailed
  PROVE  RegInv'
<1>1. /\ assets' = assets \/ assets' = stored[owner]
      /\ UNCHANGED <<owner, changes, step, own, signed, was, next, switched, stored, refs, made,
                     torn>>
  BY DEF LoadDone, LoadFailed, changeVars
<1>2. Makes' /\ Reads' /\ Matched'
  BY <1>1, SteadyReg DEF RegInv, Change
<1>3. Numbered'
  BY <1>1 DEF RegInv, Numbered
<1> QED BY <1>2, <1>3 DEF RegInv

(* A change is asked for: it is the last of the queue, and an added asset   *)
(* is given an id no other has.                                            *)
LEMMA AskReg ==
  ASSUME Inv, RegInv, NEW e \in Changes, Ask(e), made' \in Nat,
         \/ made' = made /\ e.op # "add"
         \/ made' = made + 1 /\ e.id = made + 1
  PROVE  RegInv'
<1>1. /\ changes \in Seq(Changes) /\ (step # "idle" => changes # <<>>) /\ made \in Nat
  BY LibraryAssumption DEF Inv, TypeOK
<1>2. /\ changes' = Append(changes, e)
      /\ UNCHANGED <<owner, assets, step, own, signed, was, next, switched, stored, refs, torn>>
  BY DEF Ask, changeVars
<1>3. /\ Len(changes') = Len(changes) + 1 /\ Len(changes) \in Nat
      /\ \A i \in 1..Len(changes) : changes'[i] = changes[i]
      /\ changes'[Len(changes) + 1] = e
      /\ step # "idle" => Change' = Change
  BY <1>1, <1>2, AppendFacts, LenProperties DEF Change
<1>4. Makes' /\ Reads' /\ Matched'
  BY <1>2, <1>3, SteadyReg DEF RegInv
<1>5. \A o \in Accounts : \A a \in stored[o] : a.id \in Nat /\ a.id <= made /\ a.id <= made'
  <2> SUFFICES ASSUME NEW o \in Accounts, NEW a \in stored[o]
               PROVE  a.id \in Nat /\ a.id <= made /\ a.id <= made'
    OBVIOUS
  <2>1. a \in Assets
    BY DEF Inv, TypeOK
  <2>2. a.id \in Nat
    BY <2>1, LibraryAssumption DEF Assets, Ids
  <2>3. a.id <= made
    BY DEF RegInv, Numbered
  <2> QED BY <1>1, <2>2, <2>3
<1>6. \A i \in 1..Len(changes) : changes[i].op = "add" =>
        changes[i].id \in Nat /\ changes[i].id <= made /\ changes[i].id <= made'
  <2> SUFFICES ASSUME NEW i \in 1..Len(changes), changes[i].op = "add"
               PROVE  changes[i].id \in Nat /\ changes[i].id <= made /\ changes[i].id <= made'
    OBVIOUS
  <2>1. changes[i] \in Changes
    BY <1>1, ElementOfSeq
  <2>2. changes[i].id \in Nat
    BY <2>1, LibraryAssumption DEF Changes, Ids
  <2>3. changes[i].id <= made
    BY DEF RegInv, Numbered
  <2> QED BY <1>1, <2>2, <2>3
<1>7. Numbered'
  <2> DEFINE n == Len(changes)
  <2>1. n \in Nat /\ Len(changes') = n + 1 /\ changes'[n + 1] = e
        /\ \A i \in 1..n : changes'[i] = changes[i]
    BY <1>3
  <2>2. \A i \in 1..n : changes[i].op = "add" =>
          /\ \A o \in Accounts : \A a \in stored[o] : a.id # changes[i].id
          /\ \A j \in 1..n : changes[j].op = "add" /\ changes[j].id = changes[i].id => j = i
    BY DEF RegInv, Numbered
  <2>3. \A i \in 1..n : changes[i].op = "add" =>
          changes[i].id \in Nat /\ changes[i].id <= made /\ changes[i].id <= made'
    BY <1>6
  <2> HIDE DEF n
  <2>4. \A i \in 1..(n + 1) : i \in 1..n \/ i = n + 1
    BY <2>1
  <2>5. ASSUME NEW i \in 1..(n + 1), changes'[i].op = "add"
        PROVE  /\ changes'[i].id <= made'
               /\ \A o \in Accounts : \A a \in stored[o] : a.id # changes'[i].id
    <3>1. CASE i \in 1..n
      BY <2>1, <2>2, <2>3, <2>5, <3>1
    <3>2. CASE i = n + 1
      <4>1. made' = made + 1 /\ e.id = made + 1 /\ changes'[i] = e
        BY <2>1, <2>5, <3>2
      <4> QED BY <1>1, <1>5, <4>1
    <3> QED BY <2>4, <3>1, <3>2
  <2>6. ASSUME NEW i \in 1..(n + 1), NEW j \in 1..(n + 1),
               changes'[i].op = "add", changes'[j].op = "add", changes'[j].id = changes'[i].id
        PROVE  j = i
    <3>1. CASE i \in 1..n /\ j \in 1..n
      BY <2>1, <2>2, <2>6, <3>1
    <3>2. CASE i = n + 1 /\ j = n + 1
      BY <3>2
    <3>3. CASE i = n + 1 /\ j \in 1..n
      BY <1>1, <2>1, <2>3, <2>6, <3>3
    <3>4. CASE j = n + 1 /\ i \in 1..n
      BY <1>1, <2>1, <2>3, <2>6, <3>4
    <3> QED BY <2>4, <3>1, <3>2, <3>3, <3>4
  <2>7. \A o, p \in Accounts : \A a \in stored[o], b \in stored[p] :
          a.id = b.id => o = p /\ a = b
    BY DEF RegInv, Numbered
  <2>8. assets \subseteq stored[owner]
    BY DEF RegInv, Numbered
  <2> QED BY <1>2, <1>5, <2>1, <2>5, <2>6, <2>7, <2>8 DEF Numbered
<1> QED BY <1>4, <1>7 DEF RegInv

LEMMA UserReg ==
  ASSUME Inv, RegInv, User
  PROVE  RegInv'
<1>1. /\ assets \subseteq Assets /\ owner \in Accounts /\ made \in Nat /\ AssetBound \in Nat
  BY LibraryAssumption DEF Inv, TypeOK
<1>2. ASSUME NEW f \in Held, AddAsset(f)
      PROVE  RegInv'
  <2> DEFINE e == [op |-> "add", id |-> made + 1, file |-> f, by |-> owner, live |-> TRUE]
  <2>1. made < AssetBound /\ made' = made + 1 /\ Ask(e)
    BY <1>2 DEF AddAsset
  <2>2. made + 1 \in Ids
    BY <1>1, <2>1 DEF Ids
  <2>3. e \in Changes /\ e.id = made + 1
    BY <1>1, <2>2 DEF Changes
  <2> HIDE DEF e
  <2> QED BY <1>1, <2>1, <2>3, AskReg
<1>3. ASSUME NEW a \in assets, RemoveAsset(a)
      PROVE  RegInv'
  <2> DEFINE e == [op |-> "remove", id |-> a.id, file |-> a.file, by |-> owner, live |-> TRUE]
  <2>1. made' = made /\ Ask(e)
    BY <1>3 DEF RemoveAsset
  <2>2. e \in Changes /\ e.op = "remove"
    BY <1>1 DEF Changes, Assets
  <2> HIDE DEF e
  <2> QED BY <1>1, <2>1, <2>2, AskReg
<1>4. ASSUME NEW a \in assets, NEW f \in Held, UpdateAsset(a, f)
      PROVE  RegInv'
  <2> DEFINE e == [op |-> "update", id |-> a.id, file |-> f, by |-> owner, live |-> TRUE]
  <2>1. made' = made /\ Ask(e)
    BY <1>4 DEF UpdateAsset
  <2>2. e \in Changes /\ e.op = "update"
    BY <1>1 DEF Changes, Assets
  <2> HIDE DEF e
  <2> QED BY <1>1, <2>1, <2>2, AskReg
<1> QED BY <1>2, <1>3, <1>4 DEF User

(* The list made of what is shown differs from it in one asset. *)
LEMMA ChangedMakes ==
  ASSUME Change \in Changes,
         \A a, b \in assets : a.id = b.id => a = b
  PROVE  /\ \A b, c \in Changed : b.id = c.id => b = c
         /\ \A b \in Changed : b.id # Change.id => b \in assets
         /\ \A b \in Changed : b.id = Change.id =>
              /\ Change.op # "remove" /\ b.file = Change.file
              /\ Change.op = "add" \/ \E a \in assets : a.id = Change.id
         /\ \A a \in assets : a.id # Change.id => a \in Changed
         /\ Change.op = "add" \/ (Change.op = "update" /\ \E a \in assets : a.id = Change.id)
              => \E b \in Changed : b.id = Change.id
<1> DEFINE others == {a \in assets : a.id # Change.id}
           its == [id |-> Change.id, file |-> Change.file,
                   by |-> IF Change.op = "add" THEN Change.by
                          ELSE (CHOOSE a \in assets : a.id = Change.id).by]
<1>1. Change.op \in {"add", "update", "remove"}
  BY DEF Changes
<1>2. \A a : a \in others <=> a \in assets /\ a.id # Change.id
  OBVIOUS
<1>3. others = assets <=> \A a \in assets : a.id # Change.id
  OBVIOUS
<1>4. its.id = Change.id /\ its.file = Change.file
  OBVIOUS
<1>5. CASE Change.op = "remove"
  <2>1. Changed = others
    BY <1>5 DEF Changed
  <2> HIDE DEF others
  <2> QED BY <1>2, <1>5, <2>1
<1>6. CASE Change.op = "update" /\ others = assets
  <2>1. Changed = assets
    BY <1>6 DEF Changed
  <2>2. \A a \in assets : a.id # Change.id
    BY <1>3, <1>6
  <2> HIDE DEF others
  <2> QED BY <1>6, <2>1, <2>2
<1>7. CASE Change.op = "add" \/ (Change.op = "update" /\ others # assets)
  <2>1. Changed = others \cup {its}
    BY <1>7 DEF Changed
  <2>2. Change.op # "remove" /\ (Change.op = "add" \/ \E a \in assets : a.id = Change.id)
    BY <1>3, <1>7
  <2> HIDE DEF others, its
  <2>3. \A b : b \in Changed <=> (b \in assets /\ b.id # Change.id) \/ b = its
    BY <1>2, <2>1
  <2> QED BY <1>4, <2>2, <2>3
<1> QED BY <1>1, <1>5, <1>6, <1>7

LEMMA WritingMakes ==
  ASSUME Inv, Numbered, Change \in Changes, own' = owner, next' = Changed,
         UNCHANGED <<changes, stored, switched>>,
         ~switched => loaded,
         Change.op = "update" => \E a \in stored[owner] : a.id = Change.id
  PROVE  Makes'
<1>1. Change' = Change /\ owner \in Accounts /\ Change.op \in {"add", "update", "remove"}
  BY DEF Change, Inv, TypeOK, Changes
<1>2. assets \subseteq stored[owner]
  BY DEF Numbered
<1>3. \A a, b \in assets : a.id = b.id => a = b
  BY <1>1, <1>2 DEF Numbered
<1>4. /\ \A b, c \in next' : b.id = c.id => b = c
      /\ \A b \in next' : b.id # Change.id => b \in assets
      /\ \A b \in next' : b.id = Change.id =>
           /\ Change.op # "remove" /\ b.file = Change.file
           /\ Change.op = "add" \/ \E a \in assets : a.id = Change.id
      /\ \A a \in assets : a.id # Change.id => a \in next'
      /\ Change.op = "add" \/ (Change.op = "update" /\ \E a \in assets : a.id = Change.id)
           => \E b \in next' : b.id = Change.id
  BY <1>3, ChangedMakes
<1>5. ~switched => assets = stored[owner]
  BY DEF Inv, Listed, ShownIsStored
<1>6. own' = owner /\ stored'[own'] = stored[owner] /\ switched' = switched
  OBVIOUS
<1>7. /\ \A b \in next' : b.id # Change.id => b \in stored[owner]
      /\ \A b \in next' : b.id = Change.id =>
           /\ Change.op # "remove" /\ b.file = Change.file
           /\ Change.op = "add" \/ \E a \in stored[owner] : a.id = Change.id
  BY <1>2, <1>4
<1>8. ~switched =>
        /\ \A a \in stored[owner] : a.id # Change.id => a \in next'
        /\ Change.op # "remove" => \E b \in next' : b.id = Change.id
  BY <1>1, <1>4, <1>5
<1> QED BY <1>1, <1>4, <1>6, <1>7, <1>8 DEF Makes

LEMMA StartReg ==
  ASSUME Inv, RegInv, Start
  PROVE  RegInv'
<1>1. /\ changes \in Seq(Changes) /\ changes # <<>> /\ step = "idle" /\ ~Refused
      /\ owner \in Accounts
      /\ UNCHANGED <<owner, assets, changes, switched, stored, refs, made, torn>>
      /\ own' = owner /\ signed' = (user # Guest)
      /\ \/ step' = "asked" /\ signed'
         \/ step' = "writing" /\ ~signed' /\ next' = Changed
  BY DEF Start, Inv, TypeOK
<1>2. Change \in Changes /\ Change' = Change /\ Change.op \in {"add", "update", "remove"}
  BY <1>1, TailFacts DEF Change, Changes
<1>3. /\ loaded /\ owner = user
      /\ Change.op = "update" => \E a \in assets : a.id = Change.id
  BY <1>1 DEF Refused
<1>4. assets = stored[owner]
  BY <1>3 DEF Inv, Listed, ShownIsStored
<1>5. Change.op = "update" => \E a \in stored[owner] : a.id = Change.id /\ a.file = was'
  <2> SUFFICES ASSUME Change.op = "update"
               PROVE  \E a \in stored[owner] : a.id = Change.id /\ a.file = was'
    OBVIOUS
  <2> DEFINE it == CHOOSE a \in assets : a.id = Change.id
  <2>1. it \in assets /\ it.id = Change.id
    BY <1>3
  <2>2. was' = it.file
    BY DEF Start
  <2> QED BY <1>4, <2>1, <2>2
<1>6. Numbered'
  BY <1>1 DEF RegInv, Numbered
<1>7. Makes'
  <2>1. CASE step' = "asked"
    BY <2>1 DEF Makes
  <2>2. CASE next' = Changed
    BY <1>1, <1>2, <1>3, <1>5, <2>2, WritingMakes DEF RegInv
  <2> QED BY <1>1, <2>1, <2>2
<1>8. Reads'
  BY <1>1, <1>2, <1>3, <1>5 DEF Reads
<1>9. ~Apart'
  BY <1>1 DEF Apart
<1>10. ~torn => \A i \in Ids : Owned(i, Users)' /\ Backed(i)'
  BY <1>1 DEF RegInv, Matched, Owned, Backed
<1>11. Matched'
  BY <1>1, <1>9, <1>10 DEF Matched
<1> QED BY <1>6, <1>7, <1>8, <1>11 DEF RegInv

(* The request is handled by the server for the account it was made for:    *)
(* from here on the registration is ahead of the list.                     *)
LEMMA HandleChangeReg ==
  ASSUME Inv, RegInv, HandleChange
  PROVE  RegInv'
<1>1. /\ step = "asked" /\ step' = "handled" /\ Admitted(Change.op, Change.id)
      /\ refs' = Registered(Change.op, Change.id, Change.file)
      /\ torn' = (torn \/ cookie # own)
      /\ UNCHANGED <<owner, assets, changes, own, signed, was, next, switched, stored, made>>
  BY DEF HandleChange
<1>2. /\ Change' = Change /\ Change \in Changes
      /\ Change.op \in {"add", "update", "remove"} /\ Change.id \in Ids
      /\ refs \in [Ids -> [acct : Accounts, file : Held]]
      /\ stored \in [Accounts -> SUBSET Assets]
  BY <1>1, RunningFacts DEF Change, Inv, TypeOK
<1>3. Numbered' /\ Makes'
  BY <1>1 DEF RegInv, Numbered, Makes
<1>4. Reads'
  BY <1>1, <1>2 DEF RegInv, Reads
<1>5. ASSUME ~torn'
      PROVE  /\ \A i \in Ids : i # Change.id => Owned(i, Users)' /\ Backed(i)'
             /\ IF Change.op = "remove"
                THEN /\ Owned(Change.id, Users \ {own})' /\ Backed(Change.id)'
                     /\ refs'[Change.id].acct # own
                ELSE refs'[Change.id] = [acct |-> own, file |-> Change.file]
  <2>1. ~torn /\ cookie = own /\ own # Guest
    BY <1>1, <1>5 DEF Admitted
  <2>2. \A i \in Ids : Owned(i, Users) /\ Backed(i)
    BY <1>1, <2>1 DEF RegInv, Matched, Apart
  <2>3. \A i \in Ids : i # Change.id => refs'[i] = refs[i]
    BY <1>1, <1>2 DEF Registered
  <2>4. \A i \in Ids : i # Change.id => Owned(i, Users)' /\ Backed(i)'
    BY <1>1, <2>2, <2>3 DEF Owned, Backed
  <2>5. CASE Change.op # "remove"
    <3>1. refs' = [refs EXCEPT ![Change.id] = [acct |-> cookie, file |-> Change.file]]
      BY <1>1, <1>2, <2>5 DEF Registered
    <3>2. refs'[Change.id] = [acct |-> own, file |-> Change.file]
      BY <1>2, <2>1, <3>1
    <3> QED BY <2>4, <2>5, <3>2
  <2>6. CASE Change.op = "remove" /\ refs[Change.id].acct = own
    <3>1. refs' = [refs EXCEPT ![Change.id] = Unregistered]
      BY <1>1, <1>2, <2>1, <2>6 DEF Registered
    <3>2. refs'[Change.id] = Unregistered
      BY <1>2, <3>1
    <3>3. Unregistered.acct # own
      BY <2>1 DEF Unregistered
    <3>4. Backed(Change.id)'
      BY <1>2, <3>2 DEF Backed
    <3>5. Owned(Change.id, Users)
      BY <1>2, <2>2
    <3>6. ASSUME NEW o \in Users \ {own}, NEW a \in stored[o], a.id = Change.id
          PROVE  FALSE
      <4>1. refs[Change.id] = [acct |-> o, file |-> a.file]
        BY <3>5, <3>6 DEF Owned
      <4>2. refs[Change.id].acct = o
        BY <4>1
      <4> QED BY <2>6, <3>6, <4>2
    <3>7. Owned(Change.id, Users \ {own})'
      BY <1>1, <1>2, <3>6 DEF Owned
    <3> QED BY <2>4, <2>6, <3>2, <3>3, <3>4, <3>7
  <2>7. CASE Change.op = "remove" /\ refs[Change.id].acct # own
    <3>1. refs' = refs
      BY <1>1, <1>2, <2>1, <2>7 DEF Registered
    <3>2. Owned(Change.id, Users)' /\ Backed(Change.id)'
      BY <1>1, <1>2, <2>2, <3>1 DEF Owned, Backed
    <3>3. Owned(Change.id, Users \ {own})'
      BY <3>2 DEF Owned
    <3> QED BY <2>4, <2>7, <3>1, <3>2, <3>3
  <2> QED BY <2>5, <2>6, <2>7
<1>6. Matched'
  BY <1>1, <1>2, <1>5 DEF Matched, Apart
<1> QED BY <1>3, <1>4, <1>6 DEF RegInv

(* A change that ends when its registration is as the list has it. *)
LEMMA EndReg ==
  ASSUME Inv, RegInv, changes # <<>>, Over,
         UNCHANGED <<stored, refs, made, owner, assets>>,
         ~torn' => ~torn /\ (step = "idle" \/ ~Apart)
  PROVE  RegInv'
<1>1. Numbered'
  BY OverNumbered DEF RegInv
<1>2. ~torn' => \A i \in Ids : Owned(i, Users) /\ Backed(i)
  BY DEF RegInv, Matched
<1>3. ~torn' => \A i \in Ids : Owned(i, Users)' /\ Backed(i)'
  BY <1>2 DEF Owned, Backed
<1>4. Makes' /\ Reads' /\ Matched'
  BY <1>3, SettledReg DEF Over
<1> QED BY <1>1, <1>4 DEF RegInv

LEMMA StoppedReg ==
  ASSUME Inv, RegInv, Dismiss \/ RequestFailed \/ UndoLost
  PROVE  RegInv'
<1>1. /\ changes # <<>> /\ Over
      /\ UNCHANGED <<stored, refs, made, owner, assets>>
  BY RunningFacts DEF Dismiss, RequestFailed, UndoLost
<1>2. ~torn' => ~torn /\ (step = "idle" \/ ~Apart)
  BY DEF Dismiss, RequestFailed, UndoLost, Apart
<1> QED BY <1>1, <1>2, EndReg

LEMMA ProceedReg ==
  ASSUME Inv, RegInv, Proceed
  PROVE  RegInv'
<1>1. /\ step = "handled" /\ changes # <<>> /\ Change \in Changes
      /\ UNCHANGED <<owner, assets, stored, refs, made>>
  BY RunningFacts DEF Proceed
<1>2. CASE owner # own /\ Change.op = "remove"
  BY <1>1, <1>2, EndReg DEF Proceed
<1>3. CASE owner = own \/ Change.op # "remove"
  <2>1. /\ UNCHANGED <<changes, own, signed, was, switched, torn>> /\ Change' = Change
        /\ \/ step' = "writing" /\ next' = Changed /\ owner = own
           \/ step' = "undo" /\ Change.op # "remove"
    BY <1>3 DEF Proceed, Change
  <2>2. Numbered'
    BY <1>1, <2>1 DEF RegInv, Numbered
  <2>3. signed /\ (Change.op = "update" => \E a \in stored[own] : a.id = Change.id /\ a.file = was)
    BY <1>1 DEF RegInv, Reads
  <2>4. Makes'
    <3>1. CASE step' = "undo"
      BY <3>1 DEF Makes
    <3>2. CASE next' = Changed /\ owner = own
      <4>1. ~switched => loaded
        BY <1>1 DEF Inv, Runs
      <4> QED BY <1>1, <2>1, <2>3, <3>2, <4>1, WritingMakes DEF RegInv
    <3> QED BY <2>1, <3>1, <3>2
  <2>5. Reads'
    BY <1>1, <2>1, <2>3 DEF RegInv, Reads
  <2>6. Matched'
    <3>1. Apart /\ Apart'
      BY <1>1, <2>1, <2>3 DEF Apart
    <3>2. \A i \in Ids : (Owned(i, Users)' <=> Owned(i, Users)) /\ (Backed(i)' <=> Backed(i))
      BY <1>1 DEF Owned, Backed
    <3>3. Owned(Change.id, Users \ {own}) => Owned(Change.id, Users \ {own})'
      BY <1>1, <2>1 DEF Owned
    <3>4. Backed(Change.id) => Backed(Change.id)'
      BY <1>1, <2>1 DEF Backed
    <3>5. step # "idle" /\ step' # "idle"
      BY <1>1, <2>1
    <3> QED BY <1>1, <2>1, <3>1, <3>2, <3>3, <3>4, <3>5 DEF RegInv, Matched
  <2> QED BY <2>2, <2>4, <2>5, <2>6 DEF RegInv
<1> QED BY <1>2, <1>3

LEMMA WriteFailedReg ==
  ASSUME Inv, RegInv, WriteFailed
  PROVE  RegInv'
<1>1. /\ step = "writing" /\ changes # <<>> /\ Change \in Changes
      /\ UNCHANGED <<owner, assets, stored, refs, made>>
  BY RunningFacts DEF WriteFailed
<1>2. CASE ~TakesBack
  <2>1. Over /\ (~torn' => ~torn /\ ~Apart)
    BY <1>1, <1>2 DEF WriteFailed, TakesBack, Apart
  <2> QED BY <1>1, <2>1, EndReg
<1>3. CASE TakesBack
  <2>1. /\ UNCHANGED <<changes, own, signed, was, switched, torn>> /\ Change' = Change
        /\ step' = "undo" /\ signed /\ Change.op # "remove"
    BY <1>3 DEF WriteFailed, Change, TakesBack
  <2>2. Numbered' /\ Makes'
    BY <1>1, <2>1 DEF RegInv, Numbered, Makes
  <2>3. Reads'
    BY <1>1, <2>1 DEF RegInv, Reads
  <2>4. Matched'
    <3>1. Apart /\ Apart'
      BY <1>1, <2>1 DEF Apart
    <3>2. \A i \in Ids : (Owned(i, Users)' <=> Owned(i, Users)) /\ (Backed(i)' <=> Backed(i))
      BY <1>1 DEF Owned, Backed
    <3>3. step # "idle" /\ step' # "idle"
      BY <1>1, <2>1
    <3> QED BY <1>1, <2>1, <3>1, <3>2, <3>3 DEF RegInv, Matched
  <2> QED BY <2>2, <2>3, <2>4 DEF RegInv
<1> QED BY <1>2, <1>3

(* The registration is taken back: the list never had the change. *)
LEMMA UndoReg ==
  ASSUME Inv, RegInv, Undo
  PROVE  RegInv'
<1>1. /\ step = "undo" /\ changes # <<>> /\ Change \in Changes /\ Change.id \in Ids
      /\ Change.op \in {"add", "update", "remove"}
      /\ own \in Accounts /\ stored \in [Accounts -> SUBSET Assets]
      /\ refs \in [Ids -> [acct : Accounts, file : Held]]
  BY RunningFacts DEF Undo, Inv, TypeOK
<1>2. /\ Over /\ UNCHANGED <<owner, assets, stored, made>>
      /\ torn' = (torn \/ refs[Change.id].acct # cookie)
  BY DEF Undo
<1>3. Numbered'
  BY <1>1, <1>2, OverNumbered DEF RegInv
<1>4. ASSUME ~torn'
      PROVE  \A i \in Ids : Owned(i, Users)' /\ Backed(i)'
  <2>1. Apart /\ ~torn /\ refs[Change.id].acct = cookie
    BY <1>1, <1>2, <1>4 DEF Apart
  <2>2. /\ own # Guest /\ Change.op \in {"add", "update"}
        /\ Change.op = "update" => \E a \in stored[own] : a.id = Change.id /\ a.file = was
    BY <1>1 DEF RegInv, Reads
  <2>3. refs[Change.id] = [acct |-> own, file |-> Change.file] /\ cookie = own
    BY <2>1, <2>2 DEF RegInv, Matched
  <2>4. \A i \in Ids : i # Change.id => Owned(i, Users) /\ Backed(i)
    BY <2>1 DEF RegInv, Matched
  <2>5. own \in Users /\ Users \subseteq Accounts
    BY <1>1, <2>2 DEF Accounts
  <2>6. CASE Change.op = "add"
    <3>1. refs' = [refs EXCEPT ![Change.id] = Unregistered]
      BY <1>1, <2>2, <2>3, <2>6 DEF Undo, Admitted, Registered
    <3>2. /\ refs'[Change.id] = Unregistered
          /\ \A i \in Ids : i # Change.id => refs'[i] = refs[i]
      BY <1>1, <3>1
    <3>3. \A o \in Accounts : \A a \in stored[o] : a.id # Change.id
      <4>1. /\ changes \in Seq(Changes) /\ Len(changes) \in Nat /\ Len(changes) >= 1
            /\ Change = changes[1]
        BY <1>1, TailFacts DEF Inv, TypeOK
      <4>2. 1 \in 1..Len(changes)
        BY <4>1
      <4> QED BY <2>6, <4>1, <4>2 DEF RegInv, Numbered
    <3>4. \A i \in Ids : i # Change.id => Owned(i, Users)' /\ Backed(i)'
      BY <1>2, <2>4, <3>2 DEF Owned, Backed
    <3>5. ASSUME NEW i \in Ids, i = Change.id
          PROVE  Owned(i, Users)' /\ Backed(i)'
      <4>1. refs'[i] = Unregistered
        BY <3>2, <3>5
      <4>2. \A o \in Users : \A a \in stored'[o] : a.id # i
        BY <1>2, <2>5, <3>3, <3>5
      <4> QED BY <4>1, <4>2 DEF Owned, Backed
    <3> QED BY <3>4, <3>5
  <2>7. CASE Change.op = "update"
    <3>1. refs' = [refs EXCEPT ![Change.id] = [acct |-> own, file |-> was]]
      BY <1>1, <2>2, <2>3, <2>7 DEF Undo, Admitted, Registered
    <3>2. /\ refs'[Change.id] = [acct |-> own, file |-> was]
          /\ \A i \in Ids : i # Change.id => refs'[i] = refs[i]
      BY <1>1, <3>1
    <3>3. PICK b \in stored[own] : b.id = Change.id /\ b.file = was
      BY <2>2, <2>7
    <3>4. \A o \in Users : \A a \in stored[o] : a.id = Change.id => o = own /\ a = b
      BY <1>1, <2>5, <3>3 DEF RegInv, Numbered
    <3>5. \A i \in Ids : i # Change.id => Owned(i, Users)' /\ Backed(i)'
      BY <1>2, <2>4, <3>2 DEF Owned, Backed
    <3>6. ASSUME NEW i \in Ids, i = Change.id
          PROVE  Owned(i, Users)' /\ Backed(i)'
      <4>1. /\ refs'[i] = [acct |-> own, file |-> was] /\ b \in stored'[own]
            /\ b.id = i /\ b.file = was
        BY <1>2, <3>2, <3>3, <3>6
      <4>2. \A o \in Users : \A a \in stored'[o] : a.id = i => o = own /\ a = b
        BY <1>2, <3>4, <3>6
      <4> QED BY <2>5, <4>1, <4>2 DEF Owned, Backed
    <3> QED BY <3>5, <3>6
  <2> QED BY <2>2, <2>6, <2>7
<1>5. Makes' /\ Reads' /\ Matched'
  BY <1>2, <1>4, SettledReg DEF Over
<1> QED BY <1>3, <1>5 DEF RegInv

(* A list is written: its ids are those it had, and the added one. *)
LEMMA WriteNumbered ==
  ASSUME Inv, Numbered, Makes, step = "writing", stored' = [stored EXCEPT ![own] = next]
  PROVE  /\ \A o, p \in Accounts : \A a \in stored'[o], b \in stored'[p] :
              a.id = b.id => o = p /\ a = b
         /\ \A o \in Accounts : \A a \in stored'[o] : a.id <= made
         /\ \A i \in 1..Len(changes) : i # 1 /\ changes[i].op = "add" =>
              \A o \in Accounts : \A a \in stored'[o] : a.id # changes[i].id
<1>1. /\ changes \in Seq(Changes) /\ changes # <<>> /\ own \in Accounts
      /\ stored \in [Accounts -> SUBSET Assets]
  BY DEF Inv, TypeOK
<1>2. Change = changes[1] /\ 1 \in 1..Len(changes)
  <2>1. Len(changes) \in Nat /\ Len(changes) >= 1 /\ Change = changes[1]
    BY <1>1, TailFacts
  <2> QED BY <2>1
<1>3. stored'[own] = next /\ \A o \in Accounts : o # own => stored'[o] = stored[o]
  BY <1>1
<1>4. \A b \in next : \/ \E a \in stored[own] : a.id = b.id
                      \/ Change.op = "add" /\ b.id = Change.id
  BY DEF Makes
<1>5. Change.op = "add" => /\ Change.id <= made
                          /\ \A o \in Accounts : \A a \in stored[o] : a.id # Change.id
  BY <1>2 DEF Numbered
<1>6. \A o, p \in Accounts : \A a \in stored[o], b \in stored[p] : a.id = b.id => o = p /\ a = b
  BY DEF Numbered
<1>7. \A b, c \in next : b.id = c.id => b = c
  BY DEF Makes
<1>8. \A p \in Accounts : \A a \in next, b \in stored[p] : a.id = b.id => p = own
  BY <1>1, <1>4, <1>5, <1>6
<1>9. ASSUME NEW o \in Accounts, NEW p \in Accounts, NEW a \in stored'[o], NEW b \in stored'[p],
             a.id = b.id
      PROVE  o = p /\ a = b
  <2>1. CASE o = own /\ p = own
    BY <1>3, <1>7, <1>9, <2>1
  <2>2. CASE o = own /\ p # own
    BY <1>3, <1>8, <1>9, <2>2
  <2>3. CASE o # own /\ p = own
    BY <1>3, <1>8, <1>9, <2>3
  <2>4. CASE o # own /\ p # own
    BY <1>3, <1>6, <1>9, <2>4
  <2> QED BY <2>1, <2>2, <2>3, <2>4
<1>10. ASSUME NEW o \in Accounts, NEW a \in stored'[o]
       PROVE  \/ \E b \in stored[o] : b.id = a.id
              \/ Change.op = "add" /\ a.id = Change.id
  BY <1>3, <1>4, <1>10
<1>11. \A o \in Accounts : \A a \in stored'[o] : a.id <= made
  BY <1>5, <1>10 DEF Numbered
<1>12. ASSUME NEW i \in 1..Len(changes), i # 1, changes[i].op = "add",
              NEW o \in Accounts, NEW a \in stored'[o]
       PROVE  a.id # changes[i].id
  <2>1. \A b \in stored[o] : b.id # changes[i].id
    BY <1>12 DEF Numbered
  <2>2. Change.op = "add" => Change.id # changes[i].id
    BY <1>2, <1>12 DEF Numbered
  <2> QED BY <1>10, <2>1, <2>2
<1> QED BY <1>9, <1>11, <1>12

LEMMA WrittenReg ==
  ASSUME Inv, RegInv, Written
  PROVE  RegInv'
<1>1. /\ step = "writing" /\ changes # <<>> /\ Change \in Changes /\ Change.id \in Ids
      /\ Change.op \in {"add", "update", "remove"}
      /\ changes \in Seq(Changes) /\ own \in Accounts /\ owner \in Accounts
      /\ stored \in [Accounts -> SUBSET Assets]
  BY RunningFacts DEF Written, Inv, TypeOK
<1>2. /\ Over /\ stored' = [stored EXCEPT ![own] = next]
      /\ assets' = (IF owner = own THEN next ELSE assets)
      /\ torn' = (torn \/ switched) /\ UNCHANGED <<owner, refs, made>>
  BY DEF Written, ShowsList
<1>3. stored'[own] = next /\ \A o \in Accounts : o # own => stored'[o] = stored[o]
  BY <1>1, <1>2
<1>4. /\ changes' = Tail(changes) /\ Len(changes) \in Nat
      /\ Len(changes') = Len(changes) - 1 /\ Change = changes[1] /\ Len(changes) >= 1
      /\ \A i \in 1..Len(changes') : changes'[i] = changes[i + 1]
  BY <1>1, <1>2, TailFacts DEF Over
<1>5. Change.op = "add" => \A o \in Accounts : \A a \in stored[o] : a.id # Change.id
  <2>1. 1 \in 1..Len(changes)
    BY <1>4
  <2> QED BY <1>4, <2>1 DEF RegInv, Numbered
<1>6. Numbered'
  <2> DEFINE n == Len(changes)  m == Len(changes')
  <2>1. n \in Nat /\ m = n - 1 /\ \A i \in 1..m : changes'[i] = changes[i + 1]
    BY <1>4
  <2>2. /\ \A o, p \in Accounts : \A a \in stored'[o], b \in stored'[p] :
             a.id = b.id => o = p /\ a = b
        /\ \A o \in Accounts : \A a \in stored'[o] : a.id <= made
        /\ \A i \in 1..n : i # 1 /\ changes[i].op = "add" =>
             \A o \in Accounts : \A a \in stored'[o] : a.id # changes[i].id
    BY <1>1, <1>2, WriteNumbered DEF RegInv
  <2>3. \A i \in 1..n : changes[i].op = "add" =>
          /\ changes[i].id <= made
          /\ \A j \in 1..n : changes[j].op = "add" /\ changes[j].id = changes[i].id => j = i
    BY DEF RegInv, Numbered
  <2> HIDE DEF n, m
  <2>4. \A i \in 1..m : i + 1 \in 1..n /\ i + 1 # 1
    BY <2>1
  <2>5. ASSUME NEW i \in 1..m, changes'[i].op = "add"
        PROVE  /\ changes'[i].id <= made
               /\ \A o \in Accounts : \A a \in stored'[o] : a.id # changes'[i].id
    <3>1. i + 1 \in 1..n /\ i + 1 # 1 /\ changes'[i] = changes[i + 1]
      BY <2>1, <2>4
    <3> QED BY <2>2, <2>3, <2>5, <3>1
  <2>6. ASSUME NEW i \in 1..m, NEW j \in 1..m, changes'[i].op = "add",
               changes'[j].op = "add", changes'[j].id = changes'[i].id
        PROVE  j = i
    <3>1. /\ i + 1 \in 1..n /\ j + 1 \in 1..n
          /\ changes'[i] = changes[i + 1] /\ changes'[j] = changes[j + 1]
      BY <2>1, <2>4
    <3>2. j + 1 = i + 1
      BY <2>3, <2>6, <3>1
    <3> QED BY <2>1, <3>2
  <2>7. assets' \subseteq stored'[owner']
    BY <1>1, <1>2, <1>3 DEF RegInv, Numbered
  <2> QED BY <1>2, <2>2, <2>5, <2>6, <2>7 DEF Numbered, m
<1>7. ASSUME ~torn', NEW i \in Ids
      PROVE  Owned(i, Users)' /\ Backed(i)'
  <2>1. ~torn /\ ~switched /\ refs' = refs /\ Users \subseteq Accounts
    BY <1>2, <1>7 DEF Accounts
  <2>2. /\ \A b \in next : b.id # Change.id => b \in stored[own]
        /\ \A b \in next : b.id = Change.id =>
             Change.op # "remove" /\ b.file = Change.file
        /\ \A a \in stored[own] : a.id # Change.id => a \in next
        /\ Change.op # "remove" => \E b \in next : b.id = Change.id
    BY <1>1, <2>1 DEF RegInv, Makes
  <2>3. /\ signed <=> own # Guest
        /\ Change.op = "update" => \E a \in stored[own] : a.id = Change.id /\ a.file = was
    BY <1>1 DEF RegInv, Reads
  <2>4. CASE i # Change.id
    <3>1. Owned(i, Users) /\ Backed(i)
      BY <2>1, <2>4 DEF RegInv, Matched
    <3>2. \A o \in Accounts :
            \A a : (a \in stored'[o] /\ a.id = i) <=> (a \in stored[o] /\ a.id = i)
      BY <1>3, <2>2, <2>4
    <3> QED BY <2>1, <3>1, <3>2 DEF Owned, Backed
  <2>5. CASE i = Change.id /\ ~signed
    <3>1. Owned(i, Users) /\ Backed(i)
      BY <1>1, <2>1, <2>5 DEF RegInv, Matched, Apart
    <3>2. \A o \in Users : stored'[o] = stored[o]
      BY <1>3, <2>1, <2>3, <2>5, GuestAssumption
    <3> QED BY <2>1, <3>1, <3>2 DEF Owned, Backed
  <2>6. CASE i = Change.id /\ signed /\ Change.op = "remove"
    <3>1. Owned(i, Users \ {own}) /\ Backed(i) /\ refs[i].acct # own
      BY <1>1, <2>1, <2>6 DEF RegInv, Matched, Apart
    <3>2. \A a \in stored'[own] : a.id # i
      BY <1>3, <2>2, <2>6
    <3>3. Owned(i, Users)'
      BY <1>3, <2>1, <3>1, <3>2 DEF Owned
    <3>4. Backed(i)'
      BY <1>3, <2>1, <3>1 DEF Backed
    <3> QED BY <3>3, <3>4
  <2>7. CASE i = Change.id /\ signed /\ Change.op # "remove"
    <3>1. refs[i] = [acct |-> own, file |-> Change.file] /\ own \in Users
      BY <1>1, <2>1, <2>3, <2>7 DEF RegInv, Matched, Apart, Accounts
    <3>2. \A a \in next : a.id = i => a.file = Change.file
      BY <2>2, <2>7
    <3>3. ASSUME NEW o \in Users, NEW a \in stored'[o], a.id = i
          PROVE  o = own
      <4> SUFFICES ASSUME o # own PROVE FALSE
        OBVIOUS
      <4>1. a \in stored[o] /\ o \in Accounts
        BY <1>3, <2>1, <3>3
      <4>2. CASE Change.op = "add"
        BY <1>5, <2>7, <3>3, <4>1, <4>2
      <4>3. CASE Change.op = "update"
        <5>1. PICK b \in stored[own] : b.id = Change.id
          BY <2>3, <4>3
        <5> QED BY <1>1, <2>7, <3>3, <4>1, <5>1 DEF RegInv, Numbered
      <4> QED BY <1>1, <2>7, <4>2, <4>3
    <3>4. Owned(i, Users)'
      BY <1>3, <2>1, <3>1, <3>2, <3>3 DEF Owned
    <3>5. PICK b \in next : b.id = i
      BY <2>2, <2>7
    <3>6. b \in stored'[own] /\ b.file = Change.file
      BY <1>3, <3>2, <3>5
    <3>7. Backed(i)'
      BY <2>1, <3>1, <3>5, <3>6 DEF Backed
    <3> QED BY <3>4, <3>7
  <2> QED BY <2>4, <2>5, <2>6, <2>7
<1>8. Makes' /\ Reads' /\ Matched'
  BY <1>2, <1>7, SettledReg DEF Over
<1> QED BY <1>6, <1>8 DEF RegInv

(* The page is loaded anew: a list may have been written, and then the      *)
(* registration of what it held may be apart from it.                      *)
LEMMA ReloadLibraryReg ==
  ASSUME Inv, RegInv, ReloadLibrary
  PROVE  RegInv'
<1>1. /\ changes' = <<>> /\ assets' = {} /\ step' = "idle" /\ torn' = (torn \/ step # "idle")
      /\ UNCHANGED <<refs, made>>
      /\ stored' = stored \/ (step = "writing" /\ stored' = [stored EXCEPT ![own] = next])
  BY DEF ReloadLibrary
<1>2. /\ \A o, p \in Accounts : \A a \in stored'[o], b \in stored'[p] :
           a.id = b.id => o = p /\ a = b
      /\ \A o \in Accounts : \A a \in stored'[o] : a.id <= made
  <2>1. CASE stored' = stored
    BY <2>1 DEF RegInv, Numbered
  <2>2. CASE step = "writing" /\ stored' = [stored EXCEPT ![own] = next]
    BY <2>2, WriteNumbered DEF RegInv
  <2> QED BY <1>1, <2>1, <2>2
<1>3. \A i : i \notin 1..Len(changes')
  BY <1>1, EmptySeq
<1>4. Numbered'
  BY <1>1, <1>2, <1>3 DEF Numbered
<1>5. ASSUME ~torn', NEW i \in Ids
      PROVE  Owned(i, Users)' /\ Backed(i)'
  <2>1. stored' = stored /\ refs' = refs /\ step = "idle" /\ ~torn
    BY <1>1, <1>5
  <2>2. Owned(i, Users) /\ Backed(i)
    BY <2>1 DEF RegInv, Matched
  <2> QED BY <2>1, <2>2 DEF Owned, Backed
<1>6. Makes' /\ Reads' /\ Matched'
  BY <1>1, <1>5, SettledReg
<1> QED BY <1>4, <1>6 DEF RegInv

LEMMA InitReg == Init => RegInv
<1> SUFFICES ASSUME Init PROVE RegInv
  OBVIOUS
<1>1. /\ \A o \in Accounts : stored[o] = {}
      /\ \A i \in Ids : refs[i] = Unregistered
      /\ assets = {} /\ changes = <<>> /\ step = "idle"
  BY DEF Init
<1>2. \A i : i \notin 1..Len(changes)
  BY <1>1, EmptySeq
<1>3. Numbered
  BY <1>1, <1>2 DEF Numbered
<1>4. Makes /\ Reads /\ ~Apart
  BY <1>1 DEF Makes, Reads, Apart
<1>5. ASSUME NEW i \in Ids
      PROVE  Owned(i, Users) /\ Backed(i)
  BY <1>1, AccountFacts DEF Owned, Backed
<1>6. Matched
  BY <1>4, <1>5 DEF Matched
<1> QED BY <1>3, <1>4, <1>6 DEF RegInv

LEMMA StepReg == Inv /\ RegInv /\ [Next]_vars => RegInv'
<1> SUFFICES ASSUME Inv, RegInv, [Next]_vars PROVE RegInv'
  OBVIOUS
<1>1. CASE Session
  BY <1>1, LoadAssetsReg, LibraryUnchangedReg DEF Session, Subscribed
<1>2. CASE ReloadLibrary
  BY <1>2, ReloadLibraryReg
<1>3. CASE LoadDone \/ LoadFailed
  BY <1>3, LoadEndReg
<1>4. CASE User
  BY <1>4, UserReg
<1>5. CASE Running
  BY <1>5, StartReg, HandleChangeReg, ProceedReg, WrittenReg, WriteFailedReg, UndoReg,
     StoppedReg DEF Running
<1>6. CASE UNCHANGED vars
  BY <1>6, LibraryUnchangedReg DEF vars
<1> QED BY <1>1, <1>2, <1>3, <1>4, <1>5, <1>6 DEF Next

(* What the invariant says of one id is what the property says of it. *)
LEMMA MatchedRegistered ==
  ASSUME Inv, RegInv
  PROVE  RegisteredAreListed
<1> SUFFICES ASSUME ~torn, NEW i \in Ids, step = "idle" \/ i # Change.id
             PROVE  {[acct |-> p[1], file |-> p[2].file] :
                       p \in {q \in Users \X Assets : q[2] \in stored[q[1]] /\ q[2].id = i}}
                    = {refs[i]} \ {Unregistered}
  BY DEF RegisteredAreListed
<1> DEFINE L == {[acct |-> p[1], file |-> p[2].file] :
                   p \in {q \in Users \X Assets : q[2] \in stored[q[1]] /\ q[2].id = i}}
<1>1. Owned(i, Users) /\ Backed(i)
  BY DEF RegInv, Matched
<1>2. /\ stored \in [Accounts -> SUBSET Assets] /\ Users \subseteq Accounts
      /\ refs[i] \in [acct : Accounts, file : Held]
  BY DEF Inv, TypeOK, Accounts
<1>3. ASSUME NEW r \in L
      PROVE  r \in {refs[i]} \ {Unregistered}
  <2>1. PICK q \in Users \X Assets :
          q[2] \in stored[q[1]] /\ q[2].id = i /\ r = [acct |-> q[1], file |-> q[2].file]
    BY <1>3
  <2>2. q[1] \in Users
    BY <2>1
  <2>3. refs[i] = [acct |-> q[1], file |-> q[2].file]
    BY <1>1, <2>1, <2>2 DEF Owned
  <2>4. r.acct \in Users
    BY <2>1, <2>2
  <2>5. Unregistered.acct \notin Users
    BY GuestAssumption DEF Unregistered
  <2>6. r = refs[i] /\ r # Unregistered
    BY <2>1, <2>3, <2>4, <2>5
  <2> QED BY <2>6
<1>4. ASSUME refs[i] # Unregistered
      PROVE  refs[i] \in L
  <2>1. PICK a \in stored[refs[i].acct] : a.id = i /\ a.file = refs[i].file
    BY <1>1, <1>4 DEF Backed
  <2>2. refs[i].acct \in Users
    BY <1>1, <1>4 DEF Backed
  <2>3. a \in Assets
    BY <1>2, <2>1, <2>2
  <2> DEFINE q == <<refs[i].acct, a>>
  <2>4. q \in Users \X Assets /\ q[1] = refs[i].acct /\ q[2] = a
    BY <2>2, <2>3
  <2>5. refs[i] = [acct |-> q[1], file |-> q[2].file]
    BY <1>2, <2>1, <2>4
  <2>6. q[2] \in stored[q[1]] /\ q[2].id = i
    BY <2>1, <2>4
  <2> HIDE DEF q
  <2> QED BY <2>4, <2>5, <2>6
<1>5. {refs[i]} \ {Unregistered} \subseteq L
  BY <1>4
<1> QED BY <1>3, <1>5

(* docs/canvas-data-structure.md:85: a list and the files the server keeps  *)
(* for it agree, whatever fails, but for the change under way and for what *)
(* torn says.                                                              *)
THEOREM Registered_Listed == Spec => []RegisteredAreListed
<1>1. Inv /\ RegInv => RegisteredAreListed
  BY MatchedRegistered
<1> QED BY <1>1, InitReg, StepReg, Invariance, PTL DEF Spec
=============================================================================
