----------------------------- MODULE TaskLedger -----------------------------
(***************************************************************************)
(* What the generation queue promises about money, with no queue in it.    *)
(* Every submission is charged once, up front, and its charge is closed    *)
(* once: refunded, kept, or kept at the metered amount.  After that no     *)
(* ledger entry for the submission is written again.  GenerationQueue is   *)
(* shown to implement this specification.                                  *)
(***************************************************************************)
EXTENDS Integers

CONSTANTS Tasks,     (* the submissions                                     *)
          Cost,      (* Cost[t]: what is reserved for t when it is submitted *)
          Usage      (* what a metered answer may finally cost               *)

VARIABLES phase,     (* phase[t]: "idle", "reserved" or "closed"             *)
          paid       (* paid[t]: net amount the ledger holds against t       *)

vars == <<phase, paid>>

Init == /\ phase = [t \in Tasks |-> "idle"]
        /\ paid = [t \in Tasks |-> 0]

Reserve(t) == /\ phase[t] = "idle"
              /\ phase' = [phase EXCEPT ![t] = "reserved"]
              /\ paid' = [paid EXCEPT ![t] = Cost[t]]

(* The outcome is known: the charge is given back or kept. *)
Settle(t) == /\ phase[t] = "reserved"
             /\ phase' = [phase EXCEPT ![t] = "closed"]
             /\ \E kept \in {0, Cost[t]} \cup Usage :
                    paid' = [paid EXCEPT ![t] = kept]

(* Nobody is left to decide: the charges of a set of submissions, those a   *)
(* process was still admitting when it died, stay as they are.              *)
Abandon(S) == /\ \A t \in S : phase[t] = "reserved"
              /\ phase' = [t \in Tasks |->
                             IF t \in S THEN "closed" ELSE phase[t]]
              /\ UNCHANGED paid

Next == \/ \E t \in Tasks : Reserve(t) \/ Settle(t)
        \/ \E S \in SUBSET Tasks : Abandon(S)

Spec == Init /\ [][Next]_vars
=============================================================================
