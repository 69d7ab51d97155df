-------------------------- MODULE MCWorkflowShares --------------------------
(***************************************************************************)
(* Small instances of WorkflowShares.                                      *)
(***************************************************************************)
EXTENDS WorkflowShares, TLC

CONSTANTS author, reader, one, other

(* Each content has a file of its own. *)
OneFile == [k \in Contents |-> {k}]

(* Each user may create one workflow or copy. *)
CreditOne == [u \in Users |-> 1]

(* Bound: a behaviour is about shares or about posts.  They meet only in    *)
(* the deletion of their workflow, which treats each of them by itself.    *)
SharesOrPosts ==
  \/ \A s \in Shares : status'[s] = "none"
  \/ \A p \in Posts : post'[p] = "none"
     /\ \A c \in Calls : call'[c].step \notin {"publishing", "posting"}

(* Rows and requests differ in nothing but their identity. *)
Symmetry == Permutations(Workflows) \cup Permutations(Shares) \cup Permutations(Posts)
            \cup Permutations(Calls) \cup Permutations(Contents)
=============================================================================
