--------------------------- MODULE UpdateLifecycle ---------------------------
(***************************************************************************)
(* What an Update promises to whoever created it: its Pulumi operation is  *)
(* started at most once, success is reported only of an operation that was *)
(* started, and a reported outcome is final.                               *)
(***************************************************************************)

VARIABLES
    phase,  \* what the conditions of the object say; "gone" once it is deleted
    starts  \* how often the Pulumi operation has been started

vars == <<phase, starts>>

Init == phase = "pending" /\ starts = 0

\* The Update controller takes the Update up.
Begin == phase = "pending" /\ phase' = "progressing" /\ UNCHANGED starts

\* It cannot run it now and puts it back: only while nothing has been started.
BackOff == phase = "progressing" /\ starts = 0 /\ phase' = "pending" /\ UNCHANGED starts

\* The operation starts, even if the object has been deleted in the meantime.
RunStarts == phase \in {"progressing", "gone"} /\ starts = 0 /\ starts' = 1 /\ UNCHANGED phase

Succeed == phase = "progressing" /\ starts = 1 /\ phase' = "succeeded" /\ UNCHANGED starts

\* Canceled before it ran, failed, or given up with its outcome unknown.
Fail == phase \in {"pending", "progressing"} /\ phase' = "failed" /\ UNCHANGED starts

Remove == phase # "gone" /\ phase' = "gone" /\ UNCHANGED starts

Next == Begin \/ BackOff \/ RunStarts \/ Succeed \/ Fail \/ Remove

Spec == Init /\ [][Next]_vars
=============================================================================
