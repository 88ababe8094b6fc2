---------------------------- MODULE FileDelivery ----------------------------
(***************************************************************************)
(* What is promised of files that are written aside and renamed, downloads *)
(* and images alike, whatever the transport, the retries and the           *)
(* scheduling: a file appears under its name all at once and whole, it is  *)
(* never taken away or replaced by less, and it is reported only when it   *)
(* is there.  A batch that is interrupted, or over, may be asked for again.*)
(***************************************************************************)
CONSTANT Files

VARIABLES whole,    \* the files that are there, all of them
          outcome   \* what the batch has reported of each file

vars == <<whole, outcome>>

Init == whole \subseteq Files /\ outcome = [f \in Files |-> "none"]

\* A complete file takes its name, before anybody is told.
Deliver(f) == whole' = whole \cup {f} /\ UNCHANGED outcome

\* It is there by the time it is reported, if not before.
Succeed(f) ==
    /\ outcome[f] = "none" /\ outcome' = [outcome EXCEPT ![f] = "ok"]
    /\ whole' = whole \cup {f}

\* Also of a file that is there: the failure may be in asking for it.
Fail(f) ==
    /\ outcome[f] = "none"
    /\ outcome' = [outcome EXCEPT ![f] = "failed"] /\ UNCHANGED whole

Again == outcome' = [f \in Files |-> "none"] /\ UNCHANGED whole

Next == Again \/ \E f \in Files : Deliver(f) \/ Succeed(f) \/ Fail(f)

Spec == Init /\ [][Next]_vars
=============================================================================
