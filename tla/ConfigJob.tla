------------------------------ MODULE ConfigJob ------------------------------
(***************************************************************************)
(* What one run of configloader promises about its output, whatever it     *)
(* does inside.  The output target is left as it was, or emptied, and is   *)
(* written only after that and only once; the status 0 is given only to a  *)
(* run that wrote, and an error status never to one whose output is whole. *)
(***************************************************************************)
CONSTANTS Errors      \* the statuses that report an error (enum error)

VARIABLES target,     \* "kept", "emptied", "whole" or "damaged"
          status      \* "running", "ok" or an error, as main() returns it

vars == <<target, status>>

Init == target = "kept" /\ status = "running"

\* The output is opened for writing, which truncates it.
Empty == /\ status = "running" /\ target = "kept"
         /\ target' = "emptied"
         /\ UNCHANGED status

\* The merged configuration is written, all of it or as much as fits.
Write == /\ status = "running" /\ target = "emptied"
         /\ target' \in {"whole", "damaged"}
         /\ UNCHANGED status

\* The last bytes are lost when the output is closed.
Lose == /\ status = "running" /\ target = "whole"
        /\ target' = "damaged"
        /\ UNCHANGED status

Succeed == /\ status = "running" /\ target \in {"whole", "damaged"}
           /\ status' = "ok"
           /\ UNCHANGED target

Fail == /\ status = "running" /\ target # "whole"
        /\ status' \in Errors
        /\ UNCHANGED target

Next == Empty \/ Write \/ Lose \/ Succeed \/ Fail

Spec == Init /\ [][Next]_vars
=============================================================================
