-------------------------- MODULE TaskGroupStatus --------------------------
(***************************************************************************)
(* The status vocabulary of OSMO: TaskGroupStatus (tasks and groups share  *)
(* it) and WorkflowStatus, their predicates, the aggregation of task       *)
(* statuses into a group status and of group statuses into a workflow      *)
(* status, and the guarded UPDATE statements that move a row of the tasks, *)
(* groups and workflows tables from one status to another.                 *)
(*                                                                         *)
(* A row carries its status and the set of the time stamps that are not    *)
(* NULL ("processing" for processing_start_time, "scheduling", ..., "end"  *)
(* for end_time): the UPDATEs test them for NULL, nothing reads a time.    *)
(***************************************************************************)

(***************************************************************************)
(* TaskGroupStatus                                                         *)
(***************************************************************************)
FailedStatuses ==
  {"FAILED", "FAILED_CANCELED", "FAILED_SERVER_ERROR", "FAILED_BACKEND_ERROR",
   "FAILED_EXEC_TIMEOUT", "FAILED_QUEUE_TIMEOUT", "FAILED_IMAGE_PULL",
   "FAILED_UPSTREAM", "FAILED_EVICTED", "FAILED_START_ERROR",
   "FAILED_START_TIMEOUT", "FAILED_PREEMPTED"}

Prescheduling == {"SUBMITTING", "WAITING", "PROCESSING"}
InQueue       == Prescheduling \cup {"SCHEDULING"}
Prerunning    == InQueue \cup {"INITIALIZING"}
Canceled      == {"FAILED_CANCELED", "FAILED_EXEC_TIMEOUT", "FAILED_QUEUE_TIMEOUT"}
GroupFinished == {"COMPLETED"} \cup FailedStatuses
\* finished(): a rescheduled task row is over, a group is never RESCHEDULED
Finished      == GroupFinished \cup {"RESCHEDULED"}

TaskGroupStatuses == Prerunning \cup {"RUNNING"} \cup Finished
\* The row of a group or of a workflow that is not in the database yet.
Absent == "ABSENT"

\* FAULT: a group that has not started has the status of a workflow.
AggregateAsWorkflow(st, considered) ==
  LET all == {st[t] : t \in DOMAIN st} IN
  IF all \ GroupFinished # {}
    THEN IF "RUNNING" \in all THEN "RUNNING" ELSE "PENDING"
  ELSE IF {st[t] : t \in considered} = {"COMPLETED"} THEN "COMPLETED" ELSE "FAILED"

\* FAULT: one completed task is enough.
AggregateAny(st, considered) ==
  LET all == {st[t] : t \in DOMAIN st} IN
  IF all \ GroupFinished # {}
    THEN IF "RUNNING" \in all THEN "RUNNING" ELSE "INITIALIZING"
  ELSE IF "COMPLETED" \in {st[t] : t \in considered} THEN "COMPLETED" ELSE "FAILED"

(***************************************************************************)
(* TaskGroup._aggregate_status: st gives the status of the latest retry of *)
(* every task of the group, considered is the set of the tasks that count  *)
(* for a finished group (all of them, or only the lead when the group      *)
(* ignores its nonlead tasks).                                             *)
(***************************************************************************)
AggregateGroup(st, considered) ==
  LET all  == {st[t] : t \in DOMAIN st}
      some == {st[t] : t \in considered}
  IN IF all \ GroupFinished # {}
       THEN IF "RUNNING" \in all \/ all \cap Finished # {}
            THEN "RUNNING" ELSE "INITIALIZING"
     ELSE IF "FAILED_UPSTREAM" \in all     THEN "FAILED_UPSTREAM"
     ELSE IF "FAILED_SERVER_ERROR" \in all THEN "FAILED_SERVER_ERROR"
     ELSE IF "FAILED_PREEMPTED" \in all    THEN "FAILED_PREEMPTED"
     ELSE IF "FAILED_EVICTED" \in some     THEN "FAILED_EVICTED"
     ELSE IF some \cap FailedStatuses # {} THEN "FAILED"
     ELSE IF some = {"COMPLETED"}          THEN "COMPLETED"
     ELSE "RUNNING"

(***************************************************************************)
(* WorkflowStatus and Workflow._aggregate_status over the group statuses.  *)
(***************************************************************************)
WorkflowAlive == {"PENDING", "RUNNING", "WAITING"}
WorkflowFinished ==
  {"COMPLETED", "FAILED_SUBMISSION"} \cup (FailedStatuses \ {"FAILED_UPSTREAM"})
WorkflowStatuses == WorkflowAlive \cup WorkflowFinished

\* FAULT: the first group that fails ends the workflow.
AggregateAtFirstFailure(st) ==
  LET all == {st[g] : g \in DOMAIN st} IN
  IF all \cap FailedStatuses # {} THEN "FAILED"
  ELSE IF all \ Finished # {} THEN IF "RUNNING" \in all THEN "RUNNING" ELSE "PENDING"
  ELSE "COMPLETED"

AggregateWorkflow(st) ==
  LET all    == {st[g] : g \in DOMAIN st}
      causes == (all \cap FailedStatuses) \ {"FAILED_UPSTREAM"}
  IN IF all \ Finished # {}
       THEN IF "RUNNING" \in all THEN "RUNNING" ELSE "PENDING"
     ELSE IF "FAILED_CANCELED" \in all      THEN "FAILED_CANCELED"
     ELSE IF "FAILED_SERVER_ERROR" \in all  THEN "FAILED_SERVER_ERROR"
     ELSE IF "FAILED_EXEC_TIMEOUT" \in all  THEN "FAILED_EXEC_TIMEOUT"
     ELSE IF "FAILED_QUEUE_TIMEOUT" \in all THEN "FAILED_QUEUE_TIMEOUT"
     ELSE IF all \cap FailedStatuses # {}
       THEN IF \E s \in causes : causes = {s}
            THEN CHOOSE s \in causes : TRUE ELSE "FAILED"
     ELSE IF all \subseteq {"COMPLETED"} THEN "COMPLETED" ELSE "RUNNING"

(***************************************************************************)
(* The guarded UPDATEs.  Each names the statuses a row may leave and the   *)
(* time stamp that must still be NULL; when either test fails the UPDATE   *)
(* matches no row and nothing changes.                                     *)
(***************************************************************************)
Stamps == {"processing", "scheduling", "initializing", "start", "end"}

StampOf(s) == IF s = "PROCESSING"        THEN "processing"
              ELSE IF s = "SCHEDULING"   THEN "scheduling"
              ELSE IF s = "INITIALIZING" THEN "initializing"
              ELSE IF s = "RUNNING"      THEN "start"
              ELSE "end"

\* FAULT: only the time stamp is tested.
EnterByStamp(row, s, sources) ==
  IF StampOf(s) \notin row.stamps
  THEN [row EXCEPT !.status = s, !.stamps = @ \cup {StampOf(s)}]
  ELSE row

Enter(row, s, sources) ==
  IF row.status \in sources /\ StampOf(s) \notin row.stamps
  THEN [row EXCEPT !.status = s, !.stamps = @ \cup {StampOf(s)}]
  ELSE row

\* FAULT: a task ends only after the cluster has seen it.
TaskSourcesSeen(s) ==
  IF s \in Finished THEN {"SCHEDULING", "INITIALIZING", "RUNNING"}
  ELSE IF s = "RUNNING" THEN Prerunning ELSE InQueue

\* FAULT: a start timeout is like any other failure.
TaskSourcesPlain(s) ==
  (IF s = "PROCESSING"        THEN {"WAITING"}
   ELSE IF s = "SCHEDULING"   THEN Prescheduling
   ELSE IF s = "INITIALIZING" THEN InQueue
   ELSE IF s = "RUNNING"      THEN Prerunning
   ELSE Prerunning \cup {"RUNNING"}) \ {"SUBMITTING"}

\* Task.update_status_to_db and Task.batch_update_status_to_db: no task row is
\* ever SUBMITTING, a start timeout only hits a task that has not started.
TaskSources(s) ==
  (IF s = "PROCESSING"           THEN {"WAITING"}
   ELSE IF s = "SCHEDULING"      THEN Prescheduling
   ELSE IF s = "INITIALIZING"    THEN InQueue
   ELSE IF s \in {"RUNNING", "FAILED_START_TIMEOUT"} THEN Prerunning
   ELSE Prerunning \cup {"RUNNING"}) \ {"SUBMITTING"}

UpdateTaskRow(row, s) == Enter(row, s, TaskSources(s))

\* TaskGroup.update_status_to_db, once the new status is known: a cancel cannot
\* take a group out of PROCESSING unless it is forced.
GroupSources(s, force) ==
  IF s = "PROCESSING"        THEN {"SUBMITTING", "WAITING"}
  ELSE IF s = "SCHEDULING"   THEN Prescheduling
  ELSE IF s = "INITIALIZING" THEN InQueue
  ELSE IF s = "RUNNING"      THEN Prerunning
  ELSE IF s \in Canceled /\ ~force THEN (Prerunning \cup {"RUNNING"}) \ {"PROCESSING"}
  ELSE Prerunning \cup {"RUNNING"}

UpdateGroupRow(row, s, force) == Enter(row, s, GroupSources(s, force))

\* Workflow.update_status_to_db, once the new status s is known: RUNNING and
\* WAITING only from an alive status, a finished status only while end_time is
\* NULL, PENDING never; byUser: the user whose cancel finished the workflow.
UpdateWorkflowRow(row, s, byUser) ==
  IF s \in {"RUNNING", "WAITING"} /\ row.status \in WorkflowAlive
  THEN [row EXCEPT !.status = s]
  ELSE IF s \in WorkflowFinished /\ ~row.ended
  THEN [row EXCEPT !.status = s, !.ended = TRUE, !.cancelled = @ \/ byUser]
  ELSE row

============================================================================
