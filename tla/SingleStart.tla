------------------------------ MODULE SingleStart ------------------------------
(***************************************************************************)
(* The lifecycle contract of ADR-0011, single-start-per-process, as an     *)
(* abstract specification: the process has one backend, PostgreSQL is      *)
(* entered at most once for it, and after it has been left it never        *)
(* runs again.  NativeRuntime implements this specification.               *)
(***************************************************************************)

VARIABLE status

Statuses == {"unused", "starting", "running", "over"}

Init == status = "unused"

\* Some caller wins the right to start the process's only backend.
Claim == status = "unused" /\ status' = "starting"

\* The start succeeds.
Start == status = "starting" /\ status' = "running"

\* The start fails, or the running backend is left for good.
Leave == status \in {"starting", "running"} /\ status' = "over"

Next == Claim \/ Start \/ Leave

Spec == Init /\ [][Next]_status
=============================================================================
