---------------------------- MODULE WorkflowJobs ----------------------------
(***************************************************************************)
(* The life of one workflow in OSMO: the jobs that the service workers and *)
(* the backend worker take from the job queue, the rows of the workflows,  *)
(* groups and tasks tables they move, and the pods that report back.       *)
(*                                                                         *)
(* Every database statement commits on its own (execute_commit_command),   *)
(* so a job is a sequence of steps between which the other workers run;    *)
(* an object read by one statement is stale for the next.  Here a step is  *)
(* one statement of a job together with the local computation before it.   *)
(*                                                                         *)
(* Barriers, notifications, log lines and pod templates are left out: no   *)
(* step modelled here reads them.                                          *)
(***************************************************************************)
EXTENDS Integers, FiniteSets, TaskGroupStatus

CONSTANTS
  Groups, Tasks,
  GroupOf,        \* the group of a task
  Lead,           \* the lead task of a group
  IgnoreNonlead,  \* the groups whose spec has ignoreNonleadStatus
  Upstream,       \* the groups a group waits for
  MaxRetry,       \* max_retry_per_task
  Workers,        \* the service workers
  Reports,        \* the unfinished statuses the listener reports of a pod
  Outcomes,       \* how a pod ends: what the listener reports and the exit action
  ErrorAction,    \* the action a task asks for when its retry cannot be created
  CancelForms,    \* the cancels a user may ask for: FALSE plain, TRUE forced
  Timeouts,       \* the timeouts that may expire: "queue", "run", "start"
  MaxCrashes,     \* how often a worker may die, or the backend connection drop
  FailableJobs,   \* the backend jobs that kubernetes may refuse
  BackendMayGo,   \* an administrator may take the backend out of the configuration
  None            \* no group, no task

VARIABLES
  wf,        \* the row of the workflow
  grp,       \* the rows of its groups
  rows,      \* the rows of its tasks, one per retry
  logs,      \* where the logs of the workflow are
  queue,     \* the jobs that are queued, delayed jobs included
  sent,      \* the job ids that have a dedupe key
  worker,    \* what each service worker is doing
  agent,     \* what the backend worker is doing
  pod,       \* the pod of each task
  backendUp, \* the backend is in the configuration
  crashes

db      == <<wf, grp, rows, logs>>
jobs    == <<queue, sent>>
cluster == <<agent, pod, backendUp>>
vars    == <<db, jobs, worker, cluster, crashes>>

Retries == 0..MaxRetry

FrontendTypes == {"SubmitWorkflow", "UpdateGroup", "CancelWorkflow", "CleanupWorkflow",
                  "CheckQueueTimeout", "CheckRunTimeout"}
BackendTypes  == {"CreateGroup", "CleanupGroup", "RescheduleTask"}

\* What the exit code of a task may ask for, ExitAction in the code.
ExitActions == {"NONE", "COMPLETED", "FAILED", "RESCHEDULED"}

ASSUME WorkflowAssumption ==
  /\ MaxRetry \in Nat /\ MaxCrashes \in Nat /\ BackendMayGo \in BOOLEAN
  /\ GroupOf \in [Tasks -> Groups]
  /\ Lead \in [Groups -> Tasks] /\ \A g \in Groups : GroupOf[Lead[g]] = g
  /\ IgnoreNonlead \subseteq Groups
  /\ Upstream \in [Groups -> SUBSET Groups]
  /\ Reports \subseteq {"SCHEDULING", "INITIALIZING", "RUNNING"}
  /\ Outcomes \subseteq [status : {"COMPLETED", "FAILED", "FAILED_BACKEND_ERROR", "FAILED_EVICTED",
                             "FAILED_IMAGE_PULL", "FAILED_PREEMPTED", "FAILED_START_ERROR"},
                   action : ExitActions]
  /\ ErrorAction \in [Tasks -> ExitActions]
  /\ CancelForms \subseteq BOOLEAN /\ FailableJobs \subseteq BackendTypes
  /\ None \notin Groups \cup Tasks

Downstream(g) == {d \in Groups : g \in Upstream[d]}
TasksOf(g)    == {t \in Tasks : GroupOf[t] = g}
IsLead(t)     == t = Lead[GroupOf[t]]

-----------------------------------------------------------------------------
(***************************************************************************)
(* Jobs.  A job is identified by its contents but for the exit action; a   *)
(* timeout check, a cleanup and a forced update carry a random part in     *)
(* their id and are never duplicates.                                      *)
(***************************************************************************)
NoJob == [type |-> "None", group |-> None, task |-> None, retry |-> 0,
          status |-> Absent, action |-> "NONE", force |-> FALSE]
JobOf(type)          == [NoJob EXCEPT !.type = type]
GroupJob(type, g)    == [JobOf(type) EXCEPT !.group = g]
TaskJob(type, t, r)  == [GroupJob(type, GroupOf[t]) EXCEPT !.task = t, !.retry = r]
UpdateGroup(g, s)    == [GroupJob("UpdateGroup", g) EXCEPT !.status = s]
UpdateTask(t, r, s)  == [TaskJob("UpdateGroup", t, r) EXCEPT !.status = s]

JobId(j) == [j EXCEPT !.action = "NONE"]
Random(j) == \/ j.type \in {"CheckQueueTimeout", "CheckRunTimeout", "CleanupGroup"}
             \/ j.type = "UpdateGroup" /\ j.force

\* Job.send_job_to_queue for each job of J: a job whose id has a dedupe key is
\* not queued, a queued one leaves its key behind.  (A cancel of a group is queued
\* all the same, and the worker that takes it skips it for its key: JobQueue.)
New(j)  == Random(j) \/ JobId(j) \notin sent
Keys(J) == {JobId(j) : j \in {i \in J : ~Random(i)}}
Send(J) == /\ queue' = queue \cup {j \in J : New(j)}
           /\ sent'  = sent \cup Keys(J)

\* The same in the step that takes job k from the queue.
TakeAndSend(k, J) == /\ queue' = (queue \ {k}) \cup {j \in J : New(j)}
                     /\ sent'  = sent \cup Keys(J)

Take(k) == queue' = queue \ {k} /\ UNCHANGED sent

-----------------------------------------------------------------------------
(***************************************************************************)
(* A service worker: where it is in its job and what the job carries from  *)
(* one statement to the next.                                              *)
(***************************************************************************)
Idle == [pc |-> "idle", job |-> NoJob,
         eff |-> Absent,    \* self.status, which the job itself may change
         new |-> Absent,    \* the status computed and about to be written
         clocks |-> {},     \* the timeout checks it has to start
         todo |-> {}, ready |-> {}]

Free(w)     == worker[w].pc = "idle"
At(w, pc)   == worker[w].pc = pc
Goto(w, pc) == worker' = [worker EXCEPT ![w].pc = pc]
Done(w)     == worker' = [worker EXCEPT ![w] = Idle]
Start(w, j, pc, s) ==
  worker' = [worker EXCEPT ![w] = [Idle EXCEPT !.pc = pc, !.job = j, !.eff = s]]

\* The latest retry of a task, and the statuses _fetch_status_summary selects.
Latest(t) == CHOOSE r \in Retries : /\ r = 0 \/ rows[t][r].status # Absent
                                    /\ \A q \in Retries : q > r => rows[t][q].status = Absent
LatestStatus(g) == [t \in TasksOf(g) |-> rows[t][Latest(t)].status]
Considered(g)   == IF g \in IgnoreNonlead THEN {Lead[g]} ELSE TasksOf(g)
GroupStatuses   == [g \in Groups |-> grp[g].status]

\* Task.batch_update_status_to_db: the latest rows of the group but that of task x
BatchUpdate(g, s, x) ==
  [t \in Tasks |-> IF GroupOf[t] = g /\ t # x
                   THEN [r \in Retries |-> IF r = Latest(t) THEN UpdateTaskRow(rows[t][r], s)
                                           ELSE rows[t][r]]
                   ELSE rows[t]]

\* cleanup_workflow_group: the group is clean, and when every group is, so is the
\* workflow.
PatchCleanedUp(g) == [grp EXCEPT ![g].cleaned = TRUE]
CleanupJobs(g) ==
  IF \A h \in Groups \ {g} : grp[h].cleaned THEN {JobOf("CleanupWorkflow")} ELSE {}

-----------------------------------------------------------------------------
(***************************************************************************)
(* Requests of the users and of the administrator.                         *)
(***************************************************************************)
RowAbsent == [status |-> Absent, stamps |-> {}]

Init ==
  /\ wf   = [status |-> Absent, ended |-> FALSE, cancelled |-> FALSE]
  /\ grp  = [g \in Groups |-> [status |-> Absent, stamps |-> {},
                               remaining |-> {}, cleaned |-> FALSE]]
  /\ rows = [t \in Tasks |-> [r \in Retries |-> RowAbsent]]
  /\ logs = "redis"
  /\ queue = {JobOf("SubmitWorkflow")} /\ sent = {JobOf("SubmitWorkflow")}
  /\ worker = [w \in Workers |-> Idle]
  /\ agent  = [pc |-> "idle", job |-> NoJob]
  /\ pod = [t \in Tasks |-> [retry |-> 0, phase |-> "none"]]
  /\ backendUp = TRUE /\ crashes = 0

\* The cancel endpoint.  BOUND: at most one forced cancel (a plain one is
\* deduplicated by its id).
AskCancel(force) ==
  LET job == [JobOf("CancelWorkflow") EXCEPT !.force = force] IN
  /\ force \in CancelForms /\ job \notin sent
  /\ wf.status # Absent /\ (wf.status \notin WorkflowFinished \/ force)
  /\ Send({job})
  /\ UNCHANGED <<db, worker, cluster, crashes>>

DeleteBackend ==
  /\ BackendMayGo /\ backendUp
  /\ backendUp' = FALSE
  /\ UNCHANGED <<db, jobs, worker, agent, pod, crashes>>

-----------------------------------------------------------------------------
(***************************************************************************)
(* SubmitWorkflow                                                          *)
(***************************************************************************)
InsertWorkflow(w) ==
  \E j \in queue :
    /\ Free(w) /\ j.type = "SubmitWorkflow"
    /\ Take(j) /\ Start(w, j, "insertGroups", Absent)
    /\ wf' = IF wf.status = Absent THEN [wf EXCEPT !.status = "PENDING"] ELSE wf
    /\ UNCHANGED <<grp, rows, logs, cluster, crashes>>

InsertGroups(w) ==
  /\ At(w, "insertGroups") /\ Goto(w, "markWaiting")
  /\ grp' = [g \in Groups |-> IF grp[g].status = Absent
                              THEN [grp[g] EXCEPT !.status = "SUBMITTING", !.remaining = Upstream[g]]
                              ELSE grp[g]]
  /\ rows' = [t \in Tasks |-> IF rows[t][0].status = Absent
                              THEN [rows[t] EXCEPT ![0].status = "WAITING"] ELSE rows[t]]
  /\ UNCHANGED <<wf, logs, jobs, cluster, crashes>>

\* mark_groups_as_waiting: the UPDATE here, the SELECT in CheckWaiting
MarkWaiting(w) ==
  /\ At(w, "markWaiting")
  /\ worker' = [worker EXCEPT ![w].pc = "checkWaiting",
                              ![w].ready = {g \in Groups : grp[g].remaining = {}}]
  /\ grp' = [g \in Groups |-> IF grp[g].status = "SUBMITTING" /\ ~wf.cancelled
                              THEN [grp[g] EXCEPT !.status = "WAITING"] ELSE grp[g]]
  /\ UNCHANGED <<wf, rows, logs, jobs, cluster, crashes>>

(***************************************************************************)
(* batch_set_groups_to_processing, in two statements, and the CreateGroup  *)
(* jobs of the groups that the first one moved.                            *)
(***************************************************************************)
Eligible(g) == grp[g].status \in {"SUBMITTING", "WAITING"} /\ "processing" \notin grp[g].stamps

SetGroups(w) ==
  LET moved == {g \in worker[w].ready : Eligible(g)} IN
  /\ grp' = [g \in Groups |-> IF g \in moved
                              THEN [grp[g] EXCEPT !.status = "PROCESSING",
                                                  !.stamps = @ \cup {"processing"}]
                              ELSE grp[g]]
  /\ IF moved = {} THEN Done(w)
     ELSE worker' = [worker EXCEPT ![w].pc = "setTasks", ![w].ready = {}, ![w].todo = moved]

\* The submission goes on if a group is WAITING.  Without a backend the lookup
\* raises and handle_failure fails every group.
CheckWaiting(w) ==
  /\ At(w, "checkWaiting")
  /\ IF \A g \in Groups : grp[g].status # "WAITING"
     THEN Done(w) /\ UNCHANGED <<grp, jobs>>
     ELSE IF backendUp THEN SetGroups(w) /\ UNCHANGED jobs
     ELSE /\ Done(w) /\ UNCHANGED grp
          /\ Send({UpdateGroup(g, "FAILED_SERVER_ERROR") :
                     g \in {h \in Groups : grp[h].status \notin Finished}})
  /\ UNCHANGED <<wf, rows, logs, cluster, crashes>>

LaunchDownstream(w) ==
  /\ At(w, "setGroups") /\ SetGroups(w)
  /\ UNCHANGED <<wf, rows, logs, jobs, cluster, crashes>>

SetTasks(w) ==
  /\ At(w, "setTasks") /\ Goto(w, "sendCreate")
  /\ rows' = [t \in Tasks |->
                IF GroupOf[t] \in worker[w].todo
                THEN [r \in Retries |-> IF rows[t][r].status = "WAITING"
                                        THEN [rows[t][r] EXCEPT !.status = "PROCESSING"]
                                        ELSE rows[t][r]]
                ELSE rows[t]]
  /\ UNCHANGED <<wf, grp, logs, jobs, cluster, crashes>>

SendCreate(w) ==
  /\ At(w, "sendCreate")
  /\ \E g \in worker[w].todo :
       /\ Send({GroupJob("CreateGroup", g)})
       /\ IF worker[w].todo = {g} THEN Done(w)
          ELSE worker' = [worker EXCEPT ![w].todo = @ \ {g}]
  /\ UNCHANGED <<db, cluster, crashes>>

-----------------------------------------------------------------------------
(***************************************************************************)
(* UpdateGroup.  The reads before the first write of a job are one step    *)
(* with it: they only choose what to write.                                *)
(***************************************************************************)

\* A group that is PROCESSING has a CreateGroup under way: a plain cancel comes
\* back later, as a copy of the job under a fresh id, which leaves this queue as
\* it was.
FetchCancel(w) ==
  \E j \in queue :
    /\ Free(w) /\ j.type = "UpdateGroup" /\ j.status \in Canceled
    /\ grp[j.group].status # "PROCESSING" \/ j.force
    /\ Take(j) /\ Start(w, j, "cancel", j.status)
    /\ UNCHANGED <<db, cluster, crashes>>

\* A cancel first tries to write the group...
Cancel(w) ==
  LET j == worker[w].job IN
  /\ At(w, "cancel") /\ Goto(w, "recheck")
  /\ grp' = [grp EXCEPT ![j.group] = UpdateGroupRow(@, j.status, j.force)]
  /\ UNCHANGED <<wf, rows, logs, jobs, cluster, crashes>>

\* FAULT: a cancel whose write was refused is dropped.
RecheckAndDrop(w) ==
  LET j == worker[w].job IN
  /\ At(w, "recheck")
  /\ IF grp[j.group].status = "PROCESSING"
     THEN Done(w) /\ UNCHANGED rows
     ELSE /\ rows' = BatchUpdate(j.group, j.status, None)
          /\ worker' = [worker EXCEPT ![w].pc = "writeGroup", ![w].new = j.status]
  /\ UNCHANGED <<wf, grp, logs, jobs, cluster, crashes>>

\* ...and reads it again: a group that has become PROCESSING refused the write.
Recheck(w) ==
  LET j == worker[w].job IN
  /\ At(w, "recheck")
  /\ IF grp[j.group].status = "PROCESSING"
     THEN queue' = queue \cup {j} /\ Done(w) /\ UNCHANGED rows
     ELSE /\ rows' = BatchUpdate(j.group, j.status, None)
          /\ worker' = [worker EXCEPT ![w].pc = "writeGroup", ![w].new = j.status]
          /\ UNCHANGED queue
  /\ UNCHANGED <<wf, grp, logs, sent, cluster, crashes>>

\* A failure of the group as a whole ends all its tasks.
WholeGroup == {"FAILED_UPSTREAM", "FAILED_SERVER_ERROR"}
PerTask(j) == j.type = "UpdateGroup" /\ j.task # None /\ j.status \notin Canceled \cup WholeGroup

UpdateWholeGroup(w) ==
  \E j \in queue :
    /\ Free(w) /\ j.type = "UpdateGroup" /\ j.status \in WholeGroup
    /\ Take(j) /\ Start(w, j, "aggregate", j.status)
    /\ rows' = BatchUpdate(j.group, j.status, None)
    /\ UNCHANGED <<wf, grp, logs, cluster, crashes>>

\* Another status without a task writes no task.
UpdateNoTask(w) ==
  \E j \in queue :
    /\ Free(w) /\ j.type = "UpdateGroup" /\ j.task = None
    /\ j.status \notin Canceled \cup WholeGroup
    /\ Take(j) /\ Start(w, j, "aggregate", j.status)
    /\ UNCHANGED <<db, cluster, crashes>>

\* _apply_exit_action: the exit code may ask for another status.
ExitStatus(j) ==
  IF j.action = "NONE" \/ (j.action = "RESCHEDULED" /\ j.retry >= MaxRetry) THEN j.status
  ELSE j.action

\* FAULT: only a group that is INITIALIZING starts the clock.
ClocksFromInitializing(j, s) ==
  {"run" : x \in {y \in {grp[j.group].status} : y = "INITIALIZING" /\ s = "RUNNING"}}

\* The timeouts whose clock the job starts, from the status the group had.
Clocks(j, s) ==
  LET g == grp[j.group].status IN
  {"queue" : x \in {y \in {g} : y \in Prescheduling /\ s = "SCHEDULING"}}
  \cup {"run" : x \in {y \in {g} : y \in Prerunning /\ s \in {"RUNNING", "RESCHEDULED"}}}

\* A task that has started has no start timeout any more.
CheckStartTimeout(w) ==
  \E j \in queue :
    /\ Free(w) /\ PerTask(j) /\ j.status = "FAILED_START_TIMEOUT"
    /\ Take(j)
    /\ IF rows[j.task][j.retry].status \in Prerunning THEN Start(w, j, "startTimeout", j.status)
       ELSE UNCHANGED worker
    /\ UNCHANGED <<db, cluster, crashes>>

\* The guarded UPDATE of the row of a task.  (The code leaves it out when the row
\* it read before was finished or had the status: it would not match.)
UpdateTaskRowOf(w, j) ==
  LET s == IF j.status \in Finished THEN ExitStatus(j) ELSE j.status IN
  /\ rows' = [rows EXCEPT ![j.task][j.retry] = UpdateTaskRow(@, s)]
  /\ worker' = [worker EXCEPT ![w] = [Idle EXCEPT !.pc = "reread", !.job = j, !.eff = s,
                                                 !.clocks = Timeouts \cap Clocks(j, s)]]
  /\ UNCHANGED <<wf, grp, logs, cluster, crashes>>

UpdateTaskStatus(w) ==
  \E j \in queue :
    /\ Free(w) /\ PerTask(j)
    /\ j.status # "FAILED_START_TIMEOUT" /\ (j.status \in Finished => backendUp)
    /\ Take(j) /\ UpdateTaskRowOf(w, j)

EndLateStart(w) ==
  /\ At(w, "startTimeout") /\ backendUp
  /\ UpdateTaskRowOf(w, worker[w].job) /\ UNCHANGED jobs

\* schedule_cleanup_job, for a job that ends with status s: it cleans up when
\* the lead task is over, when any task failed that the group does not ignore,
\* or when forced.  A job that does not find its backend has nothing to delete.
Cleans(j, s) ==
  \/ s \in Finished /\ (j.task = None \/ IsLead(j.task))
  \/ s \in FailedStatuses /\ j.group \notin IgnoreNonlead
  \/ j.force

CleanupGroupJobs(j, s, found) ==
  IF ~Cleans(j, s) THEN {}
  ELSE IF found THEN {GroupJob("CleanupGroup", j.group)} ELSE CleanupJobs(j.group)

CleanedGroups(j, s, found) ==
  IF Cleans(j, s) /\ ~found THEN PatchCleanedUp(j.group) ELSE grp

\* The end of a task needs the backend: its absence raises, and handle_failure
\* only cleans up after a workflow that is finished.
WithoutBackend(j) == PerTask(j) /\ j.status \in Finished /\ ~backendUp
FailureJobs(j)   == IF wf.status \in WorkflowFinished THEN CleanupGroupJobs(j, j.status, FALSE) ELSE {}
FailureGroups(j) == IF wf.status \in WorkflowFinished THEN CleanedGroups(j, j.status, FALSE) ELSE grp

FailWithoutBackend(w) ==
  /\ \/ \E j \in queue :
          /\ Free(w) /\ WithoutBackend(j) /\ j.status # "FAILED_START_TIMEOUT"
          /\ grp' = FailureGroups(j) /\ TakeAndSend(j, FailureJobs(j)) /\ UNCHANGED worker
     \/ /\ At(w, "startTimeout") /\ WithoutBackend(worker[w].job)
        /\ grp' = FailureGroups(worker[w].job) /\ Send(FailureJobs(worker[w].job)) /\ Done(w)
  /\ UNCHANGED <<wf, rows, logs, cluster, crashes>>

\* FAULT: the job goes on whether its status took effect or not.
RereadBlindly(w) ==
  LET me == worker[w] IN
  /\ At(w, "reread")
  /\ Goto(w, IF me.eff = "RESCHEDULED" THEN "insertRetry" ELSE "aggregate")
  /\ UNCHANGED <<db, jobs, cluster, crashes>>

\* The row is read again: a job whose status did not take effect ends here.
Reread(w) ==
  LET me == worker[w] t == me.job.task IN
  /\ At(w, "reread")
  /\ IF rows[t][me.job.retry].status # me.eff THEN Done(w)
     ELSE Goto(w,
       IF me.eff = "RESCHEDULED" THEN "insertRetry"
       ELSE IF me.eff \in Finished /\ IsLead(t) THEN "siblings"
       ELSE IF me.eff \in FailedStatuses /\ GroupOf[t] \notin IgnoreNonlead THEN "siblings"
       ELSE "aggregate")
  /\ UNCHANGED <<db, jobs, cluster, crashes>>

\* The lead, or a nonlead task that the group does not ignore, ends the others.
UpdateSiblings(w) ==
  LET me == worker[w] j == me.job IN
  /\ At(w, "siblings") /\ Goto(w, "aggregate")
  /\ rows' = BatchUpdate(j.group, IF me.eff \in FailedStatuses THEN "FAILED" ELSE me.eff, j.task)
  /\ UNCHANGED <<wf, grp, logs, jobs, cluster, crashes>>

\* _retry_task: the row of the next retry, then its RescheduleTask.
InsertRetry(w) ==
  LET j == worker[w].job IN
  /\ At(w, "insertRetry") /\ Goto(w, "sendRetry")
  /\ rows' = IF rows[j.task][j.retry + 1].status # Absent THEN rows
             ELSE [rows EXCEPT ![j.task][j.retry + 1].status = "PROCESSING"]
  /\ UNCHANGED <<wf, grp, logs, jobs, cluster, crashes>>

SendRetry(w) ==
  LET j == worker[w].job IN
  /\ At(w, "sendRetry") /\ Goto(w, "aggregate")
  /\ Send({TaskJob("RescheduleTask", j.task, j.retry + 1)})
  /\ UNCHANGED <<db, cluster, crashes>>

\* FAULT: a rescheduled task goes on as RESCHEDULED, which is finished.
AggregateRescheduled(w) ==
  LET me == worker[w] g == me.job.group IN
  /\ At(w, "aggregate")
  /\ worker' = [worker EXCEPT ![w].pc = "writeGroup",
                              ![w].new = AggregateGroup(LatestStatus(g), Considered(g))]
  /\ UNCHANGED <<db, jobs, cluster, crashes>>

\* The job goes on with a group status (RUNNING for a rescheduled task).  It
\* starts the clock of a timeout, then TaskGroup.update_status_to_db takes an
\* in-queue status as it is and reads the task statuses for any other.
Aggregate(w) ==
  LET me   == worker[w]
      g    == me.job.group
      self == IF me.eff = "RESCHEDULED" THEN "RUNNING" ELSE me.eff
      new  == IF self \in InQueue THEN self
              ELSE AggregateGroup(LatestStatus(g), Considered(g))
  IN
  /\ At(w, "aggregate")
  /\ worker' = [worker EXCEPT ![w].pc = "writeGroup", ![w].eff = self, ![w].new = new,
                              ![w].clocks = {}]
  /\ Send({GroupJob(IF c = "queue" THEN "CheckQueueTimeout" ELSE "CheckRunTimeout", g) :
             c \in me.clocks})
  /\ UNCHANGED <<db, cluster, crashes>>

\* TaskGroup.update_status_to_db.  (The code leaves the UPDATE out when it read
\* the group with that status before: it would not match.)
WriteGroup(w) ==
  LET me == worker[w] IN
  /\ At(w, "writeGroup")
  /\ worker' = [worker EXCEPT ![w].pc = "readGroups", ![w].new = Absent]
  /\ grp' = [grp EXCEPT ![me.job.group] = UpdateGroupRow(@, me.new, FALSE)]
  /\ UNCHANGED <<wf, rows, logs, jobs, cluster, crashes>>

\* FAULT: the workflow is derived from its tasks, which change before its groups.
ReadTasks(w) ==
  /\ At(w, "readGroups")
  /\ worker' = [worker EXCEPT ![w].pc = "writeWorkflow",
                   ![w].new = AggregateWorkflow([t \in Tasks |-> rows[t][Latest(t)].status])]
  /\ UNCHANGED <<db, jobs, cluster, crashes>>

\* Workflow.update_status_to_db: the group statuses are read, then the row of
\* the workflow is written.  (The code leaves the UPDATE out when it read the row
\* with that status before: it would change nothing.)
ReadGroups(w) ==
  /\ At(w, "readGroups")
  /\ worker' = [worker EXCEPT ![w].pc = "writeWorkflow", ![w].new = AggregateWorkflow(GroupStatuses)]
  /\ UNCHANGED <<db, jobs, cluster, crashes>>

WriteWorkflow(w) ==
  LET me == worker[w] IN
  /\ At(w, "writeWorkflow")
  /\ worker' = [worker EXCEPT ![w].pc = "finish", ![w].new = Absent]
  /\ wf' = UpdateWorkflowRow(wf, me.new,
             me.eff = "FAILED_CANCELED" /\ me.new = "FAILED_CANCELED")
  /\ UNCHANGED <<grp, rows, logs, jobs, cluster, crashes>>

\* BackendConfigCache: a job that has looked the backend up before knows it to its end.
HasBackend(j) == backendUp \/ (PerTask(j) /\ j.status \in Finished)

\* FAULT: the failure of a group is not handed down.
FinishAlone(w) ==
  LET me == worker[w] g == me.job.group IN
  /\ At(w, "finish")
  /\ grp' = CleanedGroups(me.job, me.eff, HasBackend(me.job))
  /\ Send(CleanupGroupJobs(me.job, me.eff, HasBackend(me.job)))
  /\ IF grp[g].status = "COMPLETED" /\ Downstream(g) # {}
     THEN worker' = [worker EXCEPT ![w].pc = "downstream", ![w].todo = Downstream(g)]
     ELSE Done(w)
  /\ UNCHANGED <<wf, rows, logs, cluster, crashes>>

\* The cleanup is sent, the group is read once more, and its downstream groups
\* are failed with it or wait for one group less.
Finish(w) ==
  LET me == worker[w]
      g  == me.job.group
      s  == grp[g].status
      found    == HasBackend(me.job)
      releases == found /\ s = "COMPLETED" /\ Downstream(g) # {}
      failure  == IF ~found THEN {"FAILED"}
                  ELSE IF s \in FailedStatuses THEN {"FAILED_UPSTREAM"} ELSE {}
  IN
  /\ At(w, "finish")
  /\ grp' = CleanedGroups(me.job, me.eff, found)
  /\ Send(CleanupGroupJobs(me.job, me.eff, found)
          \cup {UpdateGroup(d, f) : d \in Downstream(g), f \in failure})
  /\ IF releases
     THEN worker' = [worker EXCEPT ![w].pc = "downstream", ![w].todo = Downstream(g)]
     ELSE Done(w)
  /\ UNCHANGED <<wf, rows, logs, cluster, crashes>>

\* FAULT: a downstream group is ready whatever else it waits for.
ReleaseEarly(w) ==
  LET me == worker[w] IN
  /\ At(w, "downstream")
  /\ worker' = [worker EXCEPT ![w].pc = "setGroups", ![w].todo = {}, ![w].ready = me.todo]
  /\ grp' = [g \in Groups |-> [grp[g] EXCEPT !.remaining = @ \ {me.job.group}]]
  /\ UNCHANGED <<wf, rows, logs, jobs, cluster, crashes>>

\* FAULT: a downstream group is judged by its row before the UPDATE.
ReleaseByOldRow(w) ==
  LET me == worker[w] IN
  /\ At(w, "downstream")
  /\ worker' = [worker EXCEPT ![w].pc = "setGroups", ![w].todo = {},
                              ![w].ready = {d \in me.todo : grp[d].remaining = {}}]
  /\ grp' = [g \in Groups |-> [grp[g] EXCEPT !.remaining = @ \ {me.job.group}]]
  /\ UNCHANGED <<wf, rows, logs, jobs, cluster, crashes>>

\* update_downstream_groups_in_db: one UPDATE ... RETURNING per group
ReleaseDownstream(w) ==
  LET me == worker[w] IN
  /\ At(w, "downstream")
  /\ \E d \in me.todo :
       LET rest  == grp[d].remaining \ {me.job.group}
           ready == me.ready \cup {x \in {d} : rest = {}}
       IN
       /\ grp' = [grp EXCEPT ![d].remaining = rest]
       /\ IF me.todo # {d}
          THEN worker' = [worker EXCEPT ![w].todo = @ \ {d}, ![w].ready = ready]
          ELSE IF ready = {} THEN Done(w)
          ELSE worker' = [worker EXCEPT ![w].pc = "setGroups", ![w].todo = {}, ![w].ready = ready]
  /\ UNCHANGED <<wf, rows, logs, jobs, cluster, crashes>>

-----------------------------------------------------------------------------
(***************************************************************************)
(* The jobs that read the database once and then only send other jobs.     *)
(***************************************************************************)

\* update_cancelled_by tests "cancelled_by = NULL", which no row satisfies.
CancelWorkflow(w) ==
  \E j \in queue :
    /\ Free(w) /\ j.type = "CancelWorkflow"
    /\ TakeAndSend(j, {[UpdateGroup(g, "FAILED_CANCELED") EXCEPT !.force = j.force] :
                         g \in {h \in Groups : /\ grp[h].status # Absent
                                               /\ grp[h].status \notin Finished \/ j.force}})
    /\ UNCHANGED <<db, worker, cluster, crashes>>

\* The clock of a group has run out (a check that comes early is delayed again,
\* which changes nothing), or no longer matters.  TIMING: a timeout is longer than
\* a worker takes from sending the check to writing the group.
Expires(j) == \A v \in Workers : ~(At(v, "writeGroup") /\ worker[v].job.group = j.group)

CheckQueueTimeout(w) ==
  \E j \in queue :
    /\ Free(w) /\ j.type = "CheckQueueTimeout" /\ Expires(j)
    /\ IF grp[j.group].status = "SCHEDULING" /\ "scheduling" \in grp[j.group].stamps
       THEN TakeAndSend(j, {UpdateGroup(j.group, "FAILED_QUEUE_TIMEOUT")})
       ELSE Take(j)
    /\ UNCHANGED <<db, worker, cluster, crashes>>

CheckRunTimeout(w) ==
  \E j \in queue :
    /\ Free(w) /\ j.type = "CheckRunTimeout" /\ Expires(j)
    /\ IF grp[j.group].status \notin Finished /\ "start" \in grp[j.group].stamps
       THEN TakeAndSend(j, {UpdateGroup(j.group, "FAILED_EXEC_TIMEOUT")})
       ELSE Take(j)
    /\ UNCHANGED <<db, worker, cluster, crashes>>

\* The logs leave redis for the object store.
CleanupWorkflow(w) ==
  \E j \in queue :
    /\ Free(w) /\ j.type = "CleanupWorkflow"
    /\ Take(j) /\ logs' = "storage"
    /\ UNCHANGED <<wf, grp, rows, worker, cluster, crashes>>

\* A worker dies: its job is redelivered.
Crash(w) ==
  /\ ~Free(w) /\ crashes < MaxCrashes
  /\ crashes' = crashes + 1
  /\ queue' = queue \cup {worker[w].job} /\ Done(w)
  /\ UNCHANGED <<db, sent, cluster>>

-----------------------------------------------------------------------------
(***************************************************************************)
(* The backend worker runs one job at a time: the service prepares it, the *)
(* backend works on the cluster, the service executes the rest.            *)
(***************************************************************************)
Launch(j) == agent' = [pc |-> "apply", job |-> j]

PrepareCreateGroup ==
  \E j \in queue :
    /\ backendUp /\ agent.pc = "idle" /\ j.type = "CreateGroup"
    /\ IF grp[j.group].status \in {"WAITING", "PROCESSING"}
       THEN Launch(j) /\ Take(j)
       ELSE TakeAndSend(j, {UpdateGroup(j.group, "FAILED_SERVER_ERROR")}) /\ UNCHANGED agent
    /\ UNCHANGED <<db, worker, pod, backendUp, crashes>>

\* The cleanup of one task was delayed by an hour.  TIMING: no other job takes
\* that long, so the jobs that were running when it was sent are over.
PrepareCleanupGroup ==
  \E j \in queue :
    /\ backendUp /\ agent.pc = "idle" /\ j.type = "CleanupGroup"
    /\ j.task = None \/ \A w \in Workers : Free(w)
    /\ Launch(j) /\ Take(j)
    /\ UNCHANGED <<db, worker, pod, backendUp, crashes>>

\* RescheduleTask.handle_failure: its exit code may ask for an action as a pod's may.
BackendError(j) ==
  [UpdateTask(j.task, j.retry, "FAILED_BACKEND_ERROR") EXCEPT !.action = ErrorAction[j.task]]

\* A retry that was overtaken is not created.  A retry of a group that ended
\* meanwhile gets a cleanup of its own, later.
PrepareRescheduleTask ==
  \E j \in queue :
    LET r == Latest(j.task) s == rows[j.task][r].status IN
    /\ backendUp /\ agent.pc = "idle" /\ j.type = "RescheduleTask"
    /\ IF r = j.retry /\ s \in Prescheduling THEN Launch(j) /\ Take(j)
       ELSE /\ UNCHANGED agent
            /\ TakeAndSend(j, {BackendError(j)} \cup {TaskJob("CleanupGroup", t, j.retry) :
                                 t \in {u \in {j.task} : r = j.retry /\ s \in GroupFinished}})
    /\ UNCHANGED <<db, worker, pod, backendUp, crashes>>

Pod(r) == [retry |-> r, phase |-> "created"]
NoPod  == [retry |-> 0, phase |-> "none"]

Apply ==
  LET j == agent.job IN
  /\ agent.pc = "apply" /\ agent' = [agent EXCEPT !.pc = "execute"]
  /\ pod' = [t \in Tasks |->
       IF GroupOf[t] # j.group \/ (j.task # None /\ j.task # t) THEN pod[t]
       ELSE IF j.type = "CreateGroup"
         THEN IF pod[t].phase = "none" THEN Pod(Latest(t)) ELSE pod[t]
       ELSE IF j.type = "CleanupGroup"
         THEN IF j.task = None \/ pod[t].retry = j.retry THEN NoPod ELSE pod[t]
       ELSE IF pod[t].phase = "none" \/ pod[t].retry < j.retry THEN Pod(j.retry) ELSE pod[t]]
  /\ UNCHANGED <<db, jobs, worker, backendUp, crashes>>

\* Kubernetes refuses the job: handle_failure.  A group may be half created, of
\* a task only the old pod is gone.
Refuse ==
  LET j == agent.job IN
  /\ agent.pc = "apply" /\ j.type \in FailableJobs
  /\ agent' = [pc |-> "idle", job |-> NoJob]
  /\ IF j.type = "CreateGroup"
     THEN /\ \E T \in SUBSET TasksOf(j.group) :
               pod' = [t \in Tasks |-> IF t \in T /\ pod[t].phase = "none"
                                       THEN Pod(Latest(t)) ELSE pod[t]]
          /\ Send({UpdateGroup(j.group, "FAILED_SERVER_ERROR")})
     ELSE IF j.type = "RescheduleTask"
     THEN /\ pod' = [pod EXCEPT ![j.task] = IF @.retry < j.retry THEN NoPod ELSE @]
          /\ Send({BackendError(j)})
     ELSE UNCHANGED <<pod, jobs>>
  /\ UNCHANGED <<db, worker, backendUp, crashes>>

\* FAULT: a retry created for a group that ended meanwhile is left alone.
ExecuteOnly ==
  LET j == agent.job IN
  /\ agent.pc = "execute" /\ agent' = [pc |-> "idle", job |-> NoJob]
  /\ IF j.type = "CleanupGroup"
     THEN grp' = PatchCleanedUp(j.group) /\ Send(CleanupJobs(j.group))
     ELSE UNCHANGED <<grp, jobs>>
  /\ UNCHANGED <<wf, rows, logs, worker, pod, backendUp, crashes>>

Execute ==
  LET j == agent.job IN
  /\ agent.pc = "execute" /\ agent' = [pc |-> "idle", job |-> NoJob]
  /\ IF j.type = "CleanupGroup"
     THEN grp' = PatchCleanedUp(j.group) /\ Send(CleanupJobs(j.group))
     ELSE /\ UNCHANGED grp
          /\ Send({TaskJob("CleanupGroup", t, j.retry) :
                     t \in {u \in {j.task} \ {None} : grp[j.group].status \in GroupFinished}})
  /\ UNCHANGED <<wf, rows, logs, worker, pod, backendUp, crashes>>

\* The connection drops before the result is in: the job goes back.
Disconnect ==
  /\ agent.pc # "idle" /\ crashes < MaxCrashes
  /\ crashes' = crashes + 1
  /\ queue' = queue \cup {agent.job} /\ agent' = [pc |-> "idle", job |-> NoJob]
  /\ UNCHANGED <<db, sent, worker, pod, backendUp>>

-----------------------------------------------------------------------------
(***************************************************************************)
(* The pods, and the listener that turns what they do into UpdateGroup     *)
(* jobs.                                                                   *)
(***************************************************************************)
Phase == [none |-> 0, created |-> 1, SCHEDULING |-> 2, INITIALIZING |-> 3, RUNNING |-> 4,
          ended |-> 5]

\* A pod moves to a later status and the status is reported.  A pod that fails to
\* start (MONITOR_POD, create_monitor_job) has a delayed update as well, which
\* comes when its start times out, with whatever action its exit code has.
StartTimeouts(t, s) ==
  IF s = "INITIALIZING" /\ "start" \in Timeouts
  THEN {[UpdateTask(t, pod[t].retry, "FAILED_START_TIMEOUT") EXCEPT !.action = a] :
          a \in {"NONE", "RESCHEDULED"}}
  ELSE {}

PodMoves(t) ==
  \E s \in Reports :
    /\ pod[t].phase \notin {"none", "ended"} /\ Phase[s] > Phase[pod[t].phase]
    /\ pod' = [pod EXCEPT ![t].phase = s]
    /\ \/ Send({UpdateTask(t, pod[t].retry, s)})
       \/ \E late \in StartTimeouts(t, s) : Send({UpdateTask(t, pod[t].retry, s), late})
    /\ UNCHANGED <<db, worker, agent, backendUp, crashes>>

PodEnds(t) ==
  \E o \in Outcomes :
    /\ pod[t].phase \notin {"none", "ended"}
    /\ pod' = [pod EXCEPT ![t].phase = "ended"]
    /\ Send({[UpdateTask(t, pod[t].retry, o.status) EXCEPT !.action = o.action]})
    /\ UNCHANGED <<db, worker, agent, backendUp, crashes>>

-----------------------------------------------------------------------------
Submit(w) == InsertWorkflow(w) \/ InsertGroups(w) \/ MarkWaiting(w) \/ CheckWaiting(w)
Process(w) == LaunchDownstream(w) \/ SetTasks(w) \/ SendCreate(w)
Update(w) == \/ FetchCancel(w) \/ Cancel(w) \/ Recheck(w)
             \/ UpdateWholeGroup(w) \/ UpdateNoTask(w) \/ CheckStartTimeout(w)
             \/ EndLateStart(w) \/ UpdateTaskStatus(w) \/ FailWithoutBackend(w) \/ Reread(w)
             \/ UpdateSiblings(w) \/ InsertRetry(w) \/ SendRetry(w)
             \/ Aggregate(w) \/ WriteGroup(w) \/ ReadGroups(w) \/ WriteWorkflow(w)
             \/ Finish(w) \/ ReleaseDownstream(w)
Other(w) == \/ CancelWorkflow(w) \/ CheckQueueTimeout(w) \/ CheckRunTimeout(w)
            \/ CleanupWorkflow(w)
WorkerStep(w) == Submit(w) \/ Process(w) \/ Update(w) \/ Other(w)
AgentStep == \/ PrepareCreateGroup \/ PrepareCleanupGroup \/ PrepareRescheduleTask
             \/ Apply \/ Execute

Next ==
  \/ \E w \in Workers : WorkerStep(w) \/ Crash(w)
  \/ AgentStep \/ Refuse \/ Disconnect
  \/ \E t \in Tasks : PodMoves(t) \/ PodEnds(t)
  \/ \E force \in CancelForms : AskCancel(force)
  \/ DeleteBackend

Spec == Init /\ [][Next]_vars

\* The workers and the backend worker loop over the queue for ever, and kubernetes
\* posts an event for a pod that it creates, which the listener reports.  Nothing
\* makes a pod end, a user cancel or a process fail.
Fairness == /\ \A w \in Workers : WF_vars(WorkerStep(w))
            /\ WF_vars(AgentStep)
            /\ \A t \in Tasks : WF_vars(PodMoves(t))
FairSpec == Spec /\ Fairness

-----------------------------------------------------------------------------
(***************************************************************************)
(* Properties                                                              *)
(***************************************************************************)
AnyStatus == TaskGroupStatuses \cup WorkflowStatuses \cup {Absent}
Row  == [status : TaskGroupStatuses \cup {Absent}, stamps : SUBSET Stamps]
Job  == [type : FrontendTypes \cup BackendTypes \cup {"None"},
         group : Groups \cup {None}, task : Tasks \cup {None}, retry : Nat,
         status : TaskGroupStatuses \cup {Absent}, action : ExitActions, force : BOOLEAN]
Pcs  == {"idle", "insertGroups", "markWaiting", "checkWaiting", "setGroups", "setTasks",
         "sendCreate", "cancel", "recheck", "startTimeout", "reread", "siblings", "insertRetry", "sendRetry",
         "aggregate", "writeGroup", "readGroups", "writeWorkflow", "finish", "downstream"}
Worker == [pc : Pcs, job : Job, eff : TaskGroupStatuses \cup {Absent}, new : AnyStatus,
           clocks : SUBSET Timeouts, todo : SUBSET Groups, ready : SUBSET Groups]

\* Every row, job, worker and pod is one the program can hold.
TypeOK ==
  /\ wf \in [status : WorkflowStatuses \cup {Absent}, ended : BOOLEAN, cancelled : BOOLEAN]
  /\ grp \in [Groups -> [status : TaskGroupStatuses \cup {Absent}, stamps : SUBSET Stamps,
                         remaining : SUBSET Groups, cleaned : BOOLEAN]]
  /\ rows \in [Tasks -> [Retries -> Row]]
  /\ logs \in {"redis", "storage"}
  /\ queue \subseteq Job /\ sent \subseteq Job
  /\ worker \in [Workers -> Worker]
  /\ agent \in [pc : {"idle", "apply", "execute"}, job : Job]
  /\ pod \in [Tasks -> [retry : Nat, phase : DOMAIN Phase]]
  /\ backendUp \in BOOLEAN /\ crashes \in 0..MaxCrashes

\* A group that has finished keeps its status: no late report, cancel, timeout
\* or retry moves it again.
GroupsStayFinished ==
  [][\A g \in Groups : grp[g].status \in GroupFinished => grp'[g].status = grp[g].status]_vars

\* The workflow is finished only when every group is, and with the status their
\* final statuses add up to: no worker wrote it from an older view of them.
WorkflowEndsWithGroups ==
  wf.ended => /\ \A g \in Groups : grp[g].status \in GroupFinished
              /\ wf.status = AggregateWorkflow(GroupStatuses)

\* While the backend is there: no group leaves WAITING for the cluster, and none of
\* its pods exists, before all its upstream groups have completed.
Launched == {"PROCESSING", "SCHEDULING", "INITIALIZING", "RUNNING", "COMPLETED"}
StartsAfterUpstream ==
  \A g \in Groups :
    (backendUp /\ (grp[g].status \in Launched \/ \E t \in TasksOf(g) : pod[t].phase # "none"))
      => \A u \in Upstream[g] : grp[u].status = "COMPLETED"

\* A group is COMPLETED only if its lead task is, and all its tasks when the
\* group does not ignore the nonlead ones.
CompletedGroupsRan ==
  \A g \in Groups : grp[g].status = "COMPLETED" =>
    \A t \in Considered(g) : rows[t][Latest(t)].status = "COMPLETED"

\* A task gets another retry only after the one before was rescheduled, however
\* often the job is delivered.
RetriesFollowReschedule ==
  \A t \in Tasks : \A r \in Retries \ {0} :
    rows[t][r].status # Absent => rows[t][r - 1].status = "RESCHEDULED"

\* While the backend is there: the logs are in the object store only after the
\* workflow has ended.
LogsMoveAfterEnd == backendUp /\ logs = "storage" => wf.ended

Quiet == /\ queue = {} /\ \A w \in Workers : Free(w)
         /\ agent.pc = "idle"

\* While the backend is there: when nothing is left to do, no pod of a finished
\* group is left on the cluster.
NoOrphanPods ==
  Quiet /\ backendUp =>
    \A t \in Tasks : grp[GroupOf[t]].status \in GroupFinished => pod[t].phase = "none"

\* While the backend is there: when nothing is left to do and no pod is alive, the
\* workflow has ended.
PodsEnd == \A t \in Tasks : pod[t].phase \in {"none", "ended"}
NothingStuck == Quiet /\ PodsEnd /\ backendUp => wf.ended

\* A start timeout never ends a task as timed out once it runs, however late the
\* two reports cross.
StartTimeoutsSpareRunning ==
  [][\A t \in Tasks : \A r \in Retries :
       rows[t][r].status = "RUNNING" => rows'[t][r].status # "FAILED_START_TIMEOUT"]_vars

\* A group that is RUNNING has a clock, whatever made it RUNNING: when nothing is
\* left to do, the timeout checks included, none is.
RunningGroupsAreTimed == Quiet => \A g \in Groups : grp[g].status # "RUNNING"

\* A cancel that was executed ends the workflow.
CancelExecuted == \E j \in sent \ queue : j.type = "CancelWorkflow"
CancelTakesEffect == CancelExecuted ~> wf.ended

\* A connection that drops costs no group: while kubernetes refuses nothing and
\* the backend is there, no group fails for the server's sake.
DisconnectsAreRetried ==
  FailableJobs = {} /\ backendUp => \A g \in Groups : grp[g].status # "FAILED_SERVER_ERROR"

\* If every pod ends and the backend stays, a workflow that was submitted ends: no
\* hand-off from report to aggregate, to the workflow, to the downstream groups is lost.
WorkflowEnds == <>[]PodsEnd /\ []backendUp => (wf.status # Absent ~> wf.ended)

\* A workflow whose groups have all finished or been told to cancel ends, and its
\* pods go, whether they would have ended or not.
Told(g) == UpdateGroup(g, "FAILED_CANCELED") \in sent \/ grp[g].status \in GroupFinished
CancelEnds ==
  (\A g \in Groups : Told(g))
    ~> (wf.ended /\ logs = "storage" /\ \A t \in Tasks : pod[t].phase = "none")

\* What GroupFlow knows of the workflow.
Stage(s) == IF s \in {Absent, "SUBMITTING", "WAITING"} THEN "waiting"
            ELSE IF s = "COMPLETED" THEN "completed"
            ELSE IF s \in FailedStatuses THEN "failed" ELSE "started"
Stages   == [g \in Groups |-> Stage(grp[g].status)]
End      == IF ~wf.ended THEN "open"
            ELSE IF wf.status = "COMPLETED" THEN "completed" ELSE "failed"
Flow == INSTANCE GroupFlow WITH stage <- Stages, end <- End, ordered <- backendUp

\* The workflow implements GroupFlow: its groups start in order while the backend is
\* there, complete only once started and end once, and it ends once, after them all
\* and as they did, whatever the workers, the pods and the users do in between.
ImplementsFlow == Flow!Spec

=============================================================================
