----------------------------- MODULE GroupFlow -----------------------------
(***************************************************************************)
(* What a workflow promises of its groups: while their order is kept, a    *)
(* group starts after the groups it waits for have completed.  A group     *)
(* completes only after it has started, fails at any time and ends once.   *)
(* The workflow ends once, after all its groups, and has completed if they *)
(* all have.                                                               *)
(***************************************************************************)
CONSTANTS Groups,
          Upstream  \* the groups a group waits for

VARIABLES stage,   \* how far a group is
          end,     \* how the workflow has ended
          ordered  \* the order of the groups is kept

Ended(g)     == stage[g] \in {"completed", "failed"}
Completed(g) == stage[g] = "completed"
Move(g, s)   == stage' = [stage EXCEPT ![g] = s] /\ UNCHANGED <<end, ordered>>

Init == stage = [g \in Groups |-> "waiting"] /\ end = "open" /\ ordered = TRUE

\* The groups of S start together.
StartAll(S) ==
  /\ \A g \in S : stage[g] = "waiting" /\ (ordered => \A u \in Upstream[g] : Completed(u))
  /\ stage' = [g \in Groups |-> IF g \in S THEN "started" ELSE stage[g]]
  /\ UNCHANGED <<end, ordered>>

Complete(g) == stage[g] = "started" /\ Move(g, "completed")
Fail(g)     == ~Ended(g) /\ Move(g, "failed")

EndWorkflow ==
  /\ end = "open" /\ \A g \in Groups : Ended(g)
  /\ end' = IF \A g \in Groups : Completed(g) THEN "completed" ELSE "failed"
  /\ UNCHANGED <<stage, ordered>>

\* From here on the order is not kept.
LoseOrder == ordered' = FALSE /\ UNCHANGED <<stage, end>>

Next == \/ \E S \in SUBSET Groups : StartAll(S)
        \/ \E g \in Groups : Complete(g) \/ Fail(g)
        \/ EndWorkflow \/ LoseOrder
Spec == Init /\ [][Next]_<<stage, end, ordered>>

=============================================================================
