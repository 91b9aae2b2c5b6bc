--------------------------- MODULE MCWorkflowJobs ---------------------------
(***************************************************************************)
(* Small workflows for TLC.                                                *)
(***************************************************************************)
EXTENDS WorkflowJobs, TLC

CONSTANTS w1, w2

Crew == {w1, w2}
WorkerSymmetry == Permutations(Crew)

\* One task, alone in its group.
SoloGroupOf  == [t \in {"t"} |-> "g"]
SoloLead     == [g \in {"g"} |-> "t"]
SoloUpstream == [g \in {"g"} |-> {}]

\* One group of a lead and a nonlead task.
PairGroupOf  == [t \in {"lead", "side"} |-> "g"]
PairLead     == [g \in {"g"} |-> "lead"]

\* Two groups after one, and one that waits for both.
DiamondGroupOf  == [s |-> "a", t |-> "b", u |-> "c", v |-> "d"]
DiamondLead     == [a |-> "s", b |-> "t", c |-> "u", d |-> "v"]
DiamondUpstream == [a |-> {}, b |-> {"a"}, c |-> {"a"}, d |-> {"b", "c"}]

Ok        == {[status |-> "COMPLETED", action |-> "NONE"]}
Ends      == {[status |-> "COMPLETED", action |-> "NONE"], [status |-> "FAILED", action |-> "NONE"]}
EndsRetry == {[status |-> "COMPLETED", action |-> "NONE"],
              [status |-> "FAILED", action |-> "RESCHEDULED"]}

\* What the exit actions of the tasks make of a retry that cannot be created.
Plainly   == [t \in Tasks |-> "NONE"]
Completes == [t \in Tasks |-> "COMPLETED"]
Again     == [t \in Tasks |-> "RESCHEDULED"]

=============================================================================
