----------------------------- MODULE WebSession -----------------------------
(***************************************************************************)
(* Who is signed in, as the web client shows it: stores/use-user-store.ts, *)
(* and the pages that call setSession.  The browser's cookie decides whom  *)
(* the server serves; the store follows it by what requests answer.  A     *)
(* request is made, handled by the server and answered in three steps, or  *)
(* is lost.  sessionVersion and hydrationVersion are only ever compared    *)
(* with what they were when a call began: a call is live while they are    *)
(* equal, and whatever increments them takes that from the calls under way.*)
(***************************************************************************)
EXTENDS Naturals

CONSTANTS
  Users,
  Guest,          (* no account                                             *)
  Calls,          (* bound: places for calls under way                      *)
  SessionBound    (* bound: calls begun and reloads                         *)

ASSUME GuestAssumption == Guest \notin Users
ASSUME SessionAssumption == SessionBound \in Nat

VARIABLES
  cookie,         (* the account of the session cookie                      *)
  user, ready,    (* user (its token is set with it) and isReady            *)
  calls,
  pendingLogout,  (* the logout login and hydrateUser wait for, a set       *)
  begun,          (* counted for the bound                                  *)
  stray           (* history: an answer was lost, one to a call from before *)
                  (* the last change of session was applied, or one was     *)
                  (* asked for during a login or, but by hydrateUser, a     *)
                  (* logout                                                 *)

sessionVars == <<cookie, user, ready, calls, pendingLogout, begun, stray>>

Accounts == Users \cup {Guest}
(* "me" is the login page's own fetchCurrentUser, "profile" a change of the *)
(* profile or of the avatar: both end in setSession.                       *)
Kinds == {"none", "hydrate", "login", "logout", "me", "profile"}
CallType == [kind : Kinds, at : {"waiting", "asked", "handled"}, who : Accounts, live : BOOLEAN]
NoCall == [kind |-> "none", at |-> "asked", who |-> Guest, live |-> FALSE]

SessionInit ==
  /\ cookie \in Accounts
  /\ user = Guest /\ ready = FALSE
  /\ calls = [c \in Calls |-> NoCall]
  /\ pendingLogout = {}
  /\ begun = 0 /\ stray = FALSE

Begun == begun < SessionBound /\ begun' = begun + 1

(* What a new call does to the others: sessionVersion++ for all but a       *)
(* hydration, whose hydrationVersion++ concerns the earlier hydrations.    *)
(* Of the last two kinds the code keeps no version: only stray asks.       *)
Outdated(kinds) ==
  [c \in Calls |-> [calls[c] EXCEPT !.live = (@ /\ calls[c].kind \notin kinds)]]
Versioned == {"hydrate", "login", "me", "profile"}
Place(c, f, kind, at, who) ==
  [f EXCEPT ![c] = [kind |-> kind, at |-> at, who |-> who, live |-> TRUE]]

During(kinds) == \E c \in Calls : calls[c].kind \in kinds

(* A fault to be caught: nobody waits for a logout under way. *)
Patience_None == "asked"
(* await pendingLogout *)
Patience == IF pendingLogout = {} THEN "asked" ELSE "waiting"

-----------------------------------------------------------------------------
(* Calls begun *)

Hydrate(c) ==
  /\ Begun
  /\ calls[c] = NoCall
  /\ calls' = Place(c, Outdated({"hydrate"}), "hydrate", Patience, Guest)
  /\ stray' = (stray \/ During({"login"}))
  /\ UNCHANGED <<cookie, user, ready, pendingLogout>>

(* login and register, from the form, which submits one at a time. *)
LogIn(c, u) ==
  /\ Begun
  /\ user = Guest /\ calls[c] = NoCall
  /\ \A d \in Calls : calls[d].kind # "login"
  /\ calls' = Place(c, Outdated(Versioned), "login", Patience, u)
  /\ UNCHANGED <<cookie, user, ready, pendingLogout, stray>>

(* The login page asks who is signed in when it is shown. *)
LoginPage(c) ==
  /\ Begun
  /\ user = Guest /\ calls[c] = NoCall
  /\ calls' = Place(c, calls, "me", "asked", Guest)
  /\ stray' = (stray \/ During({"login", "logout"}))
  /\ UNCHANGED <<cookie, user, ready, pendingLogout>>

SaveProfile(c) ==
  /\ Begun
  /\ user # Guest /\ calls[c] = NoCall
  /\ calls' = Place(c, calls, "profile", "asked", Guest)
  /\ stray' = (stray \/ During({"login", "logout"}))
  /\ UNCHANGED <<cookie, user, ready, pendingLogout>>

(* clearSession: the request carries the cookie of now. *)
ClearSession(c) ==
  /\ Begun
  /\ user # Guest /\ calls[c] = NoCall
  /\ calls' = Place(c, Outdated(Versioned), "logout", "asked", cookie)
  /\ pendingLogout' = {c}
  /\ user' = Guest /\ ready' = TRUE
  /\ UNCHANGED <<cookie, stray>>

-----------------------------------------------------------------------------
(* The server and the answers *)

(* A logout revokes every session of the cookie's account. *)
Handle(c) ==
  /\ calls[c] # NoCall /\ calls[c].at = "asked"
  /\ calls[c].kind = "profile" => cookie # Guest
  /\ LET sees == calls[c].kind \in {"hydrate", "me", "profile"}
     IN calls' = [calls EXCEPT ![c].at = "handled",
                               ![c].who = IF sees THEN cookie ELSE @]
  /\ cookie' = IF calls[c].kind = "logout" /\ cookie = calls[c].who THEN Guest ELSE cookie
  /\ UNCHANGED <<user, ready, pendingLogout, begun, stray>>

(* The logout is over: those who waited go on if they are live, and end if *)
(* not.                                                                    *)
Released(f) ==
  [d \in Calls |-> IF f[d].at # "waiting" THEN f[d]
                   ELSE IF f[d].live THEN [f[d] EXCEPT !.at = "asked"] ELSE NoCall]
Shows(u) == user' = u /\ ready' = TRUE

Applies(c) == calls[c].live

AnswerHydrate(c) ==
  /\ calls[c].kind = "hydrate" /\ calls[c].at = "handled"
  /\ calls' = [calls EXCEPT ![c] = NoCall]
  /\ IF Applies(c) THEN Shows(calls[c].who) ELSE UNCHANGED <<user, ready>>
  /\ UNCHANGED <<cookie, pendingLogout, begun, stray>>

(* The cookie is set before the client looks whether the answer is wanted. *)
AnswerLogIn(c) ==
  /\ calls[c].kind = "login" /\ calls[c].at = "handled"
  /\ calls' = [calls EXCEPT ![c] = NoCall]
  /\ cookie' = calls[c].who
  /\ IF calls[c].live THEN Shows(calls[c].who) ELSE UNCHANGED <<user, ready>>
  /\ stray' = (stray \/ ~calls[c].live)
  /\ UNCHANGED <<pendingLogout, begun>>

AnswerLogout(c) ==
  /\ calls[c].kind = "logout" /\ calls[c].at = "handled"
  /\ cookie' = Guest
  /\ pendingLogout' = pendingLogout \ {c}
  /\ calls' = LET f == [calls EXCEPT ![c] = NoCall]
              IN IF c \in pendingLogout THEN Released(f) ELSE f
  /\ UNCHANGED <<user, ready, begun, stray>>

(* setSession, with what the server said, whatever happened since; the      *)
(* login page ignores a guest.                                             *)
AnswerSetSession(c) ==
  /\ calls[c].kind \in {"me", "profile"} /\ calls[c].at = "handled"
  /\ IF calls[c].who = Guest
     THEN /\ calls' = [calls EXCEPT ![c] = NoCall]
          /\ UNCHANGED <<user, ready, stray>>
     ELSE /\ calls' = [Outdated(Versioned) EXCEPT ![c] = NoCall]
          /\ Shows(calls[c].who)
          /\ stray' = (stray \/ ~calls[c].live)
  /\ UNCHANGED <<cookie, pendingLogout, begun>>

(* No answer, whether it was handled or not, or the answer is an error: a   *)
(* hydration then shows nobody.                                            *)
Lost(c) ==
  /\ calls[c] # NoCall /\ calls[c].at # "waiting"
  /\ pendingLogout' = pendingLogout \ {c}
  /\ calls' = LET f == [calls EXCEPT ![c] = NoCall]
              IN IF c \in pendingLogout THEN Released(f) ELSE f
  /\ IF calls[c].kind = "hydrate" /\ calls[c].live THEN Shows(Guest) ELSE UNCHANGED <<user, ready>>
  /\ stray' = (stray \/ calls[c].kind \in {"hydrate", "logout"})
  /\ UNCHANGED <<cookie, begun>>

(* The page is loaded anew: the token is kept only as a mark, the user is   *)
(* asked for again.  What was under way may have had its effect.           *)
Reload ==
  /\ Begun
  /\ user' = Guest /\ ready' = FALSE
  /\ calls' = [c \in Calls |-> NoCall]
  /\ pendingLogout' = {}
  /\ cookie' \in {cookie}
       \cup {Guest : c \in {d \in Calls : calls[d].kind = "logout"}}
       \cup {calls[c].who : c \in {d \in Calls : calls[d].kind = "login" /\ calls[d].at # "waiting"}}
  /\ UNCHANGED stray

SessionStep ==
  \E c \in Calls :
    \/ Hydrate(c) \/ LoginPage(c) \/ SaveProfile(c) \/ ClearSession(c)
    \/ \E u \in Users : LogIn(c, u)
    \/ Handle(c) \/ AnswerHydrate(c) \/ AnswerLogIn(c) \/ AnswerLogout(c)
    \/ AnswerSetSession(c) \/ Lost(c)

SessionTypeOK ==
  /\ cookie \in Accounts /\ user \in Accounts /\ ready \in BOOLEAN
  /\ calls \in [Calls -> CallType]
  /\ pendingLogout \subseteq Calls
  /\ begun \in 0..SessionBound /\ stray \in BOOLEAN

(* The account shown is the cookie's: answers that come late, in another    *)
(* order, or after a logout and a login have not put another one there.    *)
(* Left out: an account just being left, and what stray says.              *)
ShownIsServed ==
  ready /\ ~stray /\ (\A c \in Calls : calls[c].kind # "logout") => user = cookie
=============================================================================
