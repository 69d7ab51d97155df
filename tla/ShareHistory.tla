---------------------------- MODULE ShareHistory ----------------------------
(***************************************************************************)
(* What sharing a workflow promises, with no calls in it.  A link has a    *)
(* history of snapshots that only grows, until it is revoked, and that     *)
(* stays after; a copy is a snapshot of that history, which it follows     *)
(* forward if it is linked, and which its owner may write over.            *)
(* WorkflowShares is shown to implement this specification.                *)
(***************************************************************************)
EXTENDS Naturals, Sequences

CONSTANTS Workflows, Shares, Contents, None

VARIABLES link,              (* link[s]: "none", "active" or "revoked"      *)
          history,           (* history[s]: the snapshots of s, in order    *)
          mode, source,      (* of a copy: does it follow, and which link   *)
          version, content   (* where in the history it is; what it holds   *)

copyVars == <<mode, source, version, content>>
vars == <<link, history, copyVars>>

Init ==
  /\ link = [s \in Shares |-> "none"]
  /\ history = [s \in Shares |-> <<>>]
  /\ mode = [w \in Workflows |-> "none"]
  /\ source = [w \in Workflows |-> None]
  /\ version = [w \in Workflows |-> 0]
  /\ content = [w \in Workflows |-> None]

(* The next snapshot is saved; the first opens the link. *)
Save(s, k) ==
  /\ link[s] # "revoked"
  /\ link' = [link EXCEPT ![s] = "active"]
  /\ history' = [history EXCEPT ![s] = Append(@, k)]
  /\ UNCHANGED copyVars

Revoke(S) ==
  /\ \A s \in S : link[s] # "none"
  /\ link' = [s \in Shares |-> IF s \in S THEN "revoked" ELSE link[s]]
  /\ UNCHANGED <<history, copyVars>>

(* A copy of any snapshot of the history, the last or not. *)
Take(w, s, v, m) ==
  /\ source[w] = None
  /\ mode' = [mode EXCEPT ![w] = m]
  /\ source' = [source EXCEPT ![w] = s]
  /\ version' = [version EXCEPT ![w] = v]
  /\ content' = [content EXCEPT ![w] = history[s][v]]
  /\ UNCHANGED <<link, history>>

CatchUp(w, s, v) ==
  /\ source[w] = s /\ mode[w] = "linked" /\ v > version[w]
  /\ version' = [version EXCEPT ![w] = v]
  /\ content' = [content EXCEPT ![w] = history[s][v]]
  /\ UNCHANGED <<link, history, mode, source>>

Edit(w, k) ==
  /\ content' = [content EXCEPT ![w] = k]
  /\ UNCHANGED <<link, history, mode, source, version>>

Next ==
  \/ \E s \in Shares, k \in Contents : Save(s, k)
  \/ \E S \in SUBSET Shares : Revoke(S)
  \/ \E w \in Workflows, k \in Contents : Edit(w, k)
  \/ \E w \in Workflows, s \in Shares :
       \E v \in DOMAIN history[s] :
         CatchUp(w, s, v) \/ \E m \in {"linked", "detached"} : Take(w, s, v, m)

Spec == Init /\ [][Next]_vars
=============================================================================
