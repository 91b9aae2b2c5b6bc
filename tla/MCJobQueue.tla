---------------------------- MODULE MCJobQueue ----------------------------
(***************************************************************************)
(* Three copies of one job, of the service or of a backend, one of them    *)
(* delayed and one a cancel.                                               *)
(***************************************************************************)
EXTENDS JobQueue

ThreeCopies == [c \in {"plain", "cancel", "late"} |-> "x"]

=============================================================================
