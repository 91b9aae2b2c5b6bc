---------------------------- MODULE DedupedJobs ----------------------------
(***************************************************************************)
(* What the dedupe keys of the job queue promise: however many copies of a *)
(* job are sent, one of them owns its id for good and only the owner runs. *)
(***************************************************************************)
CONSTANTS Ids, Copies,
          IdOf,  \* the job id of a copy
          None   \* no copy

VARIABLES owner,  \* the copy that owns an id
          ran     \* the copies that have run

Init == owner = [i \in Ids |-> None] /\ ran = {}

Claim(c) == /\ owner[IdOf[c]] = None
            /\ owner' = [owner EXCEPT ![IdOf[c]] = c] /\ UNCHANGED ran

Run(c) == /\ owner[IdOf[c]] = c
          /\ ran' = ran \cup {c} /\ UNCHANGED owner

Next == \E c \in Copies : Claim(c) \/ Run(c)
Spec == Init /\ [][Next]_<<owner, ran>>

=============================================================================
