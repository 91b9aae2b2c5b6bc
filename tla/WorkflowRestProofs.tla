------------------------- MODULE WorkflowRestProofs -------------------------
(***************************************************************************)
(* What is left when the work is done: for any workflow whose tasks are    *)
(* not retried, which is how OSMO is configured unless an administrator    *)
(* says otherwise, the logs move after the workflow has ended, and no pod  *)
(* of a finished group stays on the cluster.                               *)
(***************************************************************************)
EXTENDS GroupFlowProofs

-----------------------------------------------------------------------------
(***************************************************************************)
(* Rows, jobs and workers, while the backend is there and no task is ever  *)
(* retried: every task has one row, and a job that updates a task is about *)
(* that row.                                                               *)
(***************************************************************************)
Over(t)    == rows[t][0].status \in GroupFinished
AllOver(g) == \A t \in TasksOf(g) : Over(t)
Closed(g)  == grp[g].status \in GroupFinished

PlainRow(row) ==
  /\ row.status \in {Absent, "WAITING", "PROCESSING", "SCHEDULING", "INITIALIZING", "RUNNING"}
                      \cup GroupFinished
  /\ "end" \in row.stamps => row.status \in GroupFinished

PlainData ==
  /\ \A t \in Tasks : PlainRow(rows[t][0]) /\ pod[t].retry = 0
  /\ \A t \in Tasks : grp[GroupOf[t]].status # Absent => rows[t][0].status # Absent
  /\ \A g \in Groups : "end" \in grp[g].stamps => Closed(g)

\* The status that a job writes.
Eff(j) == IF j.task # None /\ j.status \in Finished THEN ExitStatus(j) ELSE j.status

PlainJob(j) ==
  /\ j.type # "RescheduleTask"
  /\ j.type \in {"CreateGroup", "CleanupGroup"} => j.task = None
  /\ j.type \in {"CreateGroup", "CleanupGroup", "CheckQueueTimeout", "CheckRunTimeout",
                 "UpdateGroup"} => j.group \in Groups
  /\ j.type = "UpdateGroup" =>
       /\ j.status # "RESCHEDULED"
       /\ j.task = None => j.status \in Canceled \cup WholeGroup
       /\ j.task # None => /\ GroupOf[j.task] = j.group /\ j.retry = 0 /\ ~j.force
                           /\ j.status \notin Canceled \cup WholeGroup
       /\ j.status = "FAILED_START_TIMEOUT" => "start" \in Timeouts

Updating == {"startTimeout", "reread", "siblings", "aggregate", "writeGroup", "readGroups",
             "writeWorkflow", "finish", "downstream"}

PlainWorker1(x) ==
  /\ PlainJob(x.job)
  /\ x.pc # "idle" => x.job.type \in {"SubmitWorkflow", "UpdateGroup"}
  /\ x.pc \in Updating \cup {"cancel", "recheck", "setGroups"} => x.job.type = "UpdateGroup"
  /\ x.pc \notin {"insertRetry", "sendRetry"}
  /\ x.pc \in {"startTimeout", "reread", "siblings"} => x.job.task # None
  /\ x.pc \in Updating \ {"startTimeout"} => x.eff = Eff(x.job)
  /\ x.pc \in {"cancel", "recheck"} => x.eff = x.job.status /\ x.job.status \in Canceled

PlainJobs == /\ \A j \in queue : PlainJob(j)
             /\ PlainJob(agent.job)
             /\ \A v \in Workers : PlainWorker1(worker[v])

(***************************************************************************)
(* A worker whose job will clean up has ended what it cleans up: the rows  *)
(* before it derives the status of the group, the group before it goes on. *)
(***************************************************************************)
Clean(x) == Cleans(x.job, x.eff)

Ending(x) ==
  LET g == x.job.group IN
  /\ x.pc = "recheck" => grp[g].status \notin Unstarted
  /\ x.pc = "siblings" => Clean(x) /\ rows[x.job.task][0].status = x.eff
  /\ x.pc = "aggregate" /\ Clean(x) => AllOver(g)
  /\ x.pc = "writeGroup" /\ Clean(x) => x.new \in GroupFinished
  /\ x.pc = "writeGroup" /\ x.new \in GroupFinished => AllOver(g)
  /\ x.pc = "writeGroup" /\ x.new \in Canceled =>
       grp[g].status \notin Unstarted \cup {"PROCESSING"}
  /\ x.pc \in {"readGroups", "writeWorkflow", "finish"} /\ Clean(x) => Closed(g)

Orderly == PlainData /\ PlainJobs /\ \A v \in Workers : Ending(worker[v])

\* What the lemmas below take for granted.
Here == MaxRetry = 0 /\ Known /\ backendUp /\ Orderly

\* The backend does not come back.
LEMMA GoesForGood == ASSUME [Next]_vars, backendUp' PROVE backendUp /\ ~DeleteBackend
<1>1. ~DeleteBackend
  BY DEF DeleteBackend
<1>2. QED
  BY <1>1, OrderKept

-----------------------------------------------------------------------------
(***************************************************************************)
(* The rows.                                                               *)
(***************************************************************************)

\* Statuses that are kept apart.
LEMMA Apart ==
  /\ GroupFinished \cap (Prerunning \cup {"RUNNING", "RESCHEDULED", Absent} \cup Unstarted) = {}
  /\ Canceled \cup WholeGroup \subseteq GroupFinished \ {"COMPLETED", "FAILED_START_TIMEOUT", "FAILED"}
  /\ GroupFinished = {"COMPLETED"} \cup FailedStatuses /\ Finished = GroupFinished \cup {"RESCHEDULED"}
  /\ "COMPLETED" \notin FailedStatuses
  /\ Heard = {"SCHEDULING", "INITIALIZING", "RUNNING"} \cup Finished
  /\ {"FAILED", "FAILED_START_TIMEOUT", "FAILED_SERVER_ERROR"} \subseteq FailedStatuses
  BY DEF GroupFinished, FailedStatuses, Prerunning, InQueue, Prescheduling, Absent, Unstarted,
         Canceled, WholeGroup, Finished, Heard, TaskGroupStatuses

\* What the UPDATE of a task row does.
LEMMA RowTakes ==
  ASSUME NEW row \in Row, PlainRow(row), NEW s \in Heard \ {"RESCHEDULED"}
  PROVE  LET new == UpdateTaskRow(row, s) IN
         /\ PlainRow(new)
         /\ new = row \/ (new.status = s /\ row.status \in Open)
         /\ row.status = Absent => new = row
         /\ row.status # Absent /\ s \in GroupFinished \ {"FAILED_START_TIMEOUT"}
              => new.status \in GroupFinished
<1> DEFINE new == UpdateTaskRow(row, s)
<1>1. /\ TaskSources(s) \subseteq Open
      /\ Absent \notin Open /\ Open \cap GroupFinished = {}
      /\ s \in GroupFinished \ {"FAILED_START_TIMEOUT"} =>
           TaskSources(s) = {"WAITING", "PROCESSING", "SCHEDULING", "INITIALIZING", "RUNNING"}
  BY DEF TaskSources, Open, Prerunning, InQueue, Prescheduling, Absent, GroupFinished, FailedStatuses
<1>2. s \notin GroupFinished => StampOf(s) # "end" /\ s \in {"SCHEDULING", "INITIALIZING", "RUNNING"}
  BY Apart DEF StampOf
<1>3. s \in GroupFinished => StampOf(s) = "end"
  BY DEF StampOf, GroupFinished, FailedStatuses
<1>4. CASE row.status \in TaskSources(s) /\ StampOf(s) \notin row.stamps
  <2>1. new = [row EXCEPT !.status = s, !.stamps = @ \cup {StampOf(s)}]
    BY <1>4 DEF UpdateTaskRow, Enter
  <2>2. new.status = s /\ new.stamps = row.stamps \cup {StampOf(s)}
    BY <2>1 DEF Row
  <2>3. "end" \in row.stamps => row.status \in GroupFinished
    BY DEF PlainRow
  <2>4. "end" \notin row.stamps
    BY <1>1, <1>4, <2>3
  <2>5. PlainRow(new)
    BY <1>2, <2>2, <2>4 DEF PlainRow
  <2>6. QED
    BY <1>1, <1>4, <2>2, <2>5
<1>5. CASE ~(row.status \in TaskSources(s) /\ StampOf(s) \notin row.stamps)
  <2>1. new = row
    BY <1>5 DEF UpdateTaskRow, Enter
  <2>2. row.status # Absent /\ s \in GroupFinished \ {"FAILED_START_TIMEOUT"}
          => row.status \in GroupFinished
    BY <1>1, <1>3, <1>5 DEF PlainRow
  <2>3. QED
    BY <2>1, <2>2
<1>6. QED
  BY <1>4, <1>5

\* There is one row of each task.
LEMMA OneRow ==
  ASSUME MaxRetry = 0
  PROVE  Retries = {0} /\ \A t : Latest(t) = 0
<1>1. Retries = {0}
  BY DEF Retries
<1>2. QED
  BY <1>1, LatestRetry

\* What a batch update does to it.
LEMMA BatchGives ==
  ASSUME MaxRetry = 0, NEW g, NEW s, NEW x, NEW t \in Tasks
  PROVE  BatchUpdate(g, s, x)[t][0] =
           IF GroupOf[t] = g /\ t # x THEN UpdateTaskRow(rows[t][0], s) ELSE rows[t][0]
  BY OneRow DEF BatchUpdate

\* What a job without retries writes.
LEMMA EffIs ==
  ASSUME MaxRetry = 0, NEW j \in Job, PlainJob(j), HeardJob(j), j.type = "UpdateGroup"
  PROVE  /\ Eff(j) \in Heard \ {"RESCHEDULED"}
         /\ j.task = None => Eff(j) = j.status
         /\ j.task # None => Eff(j) = IF j.status \in Finished THEN ExitStatus(j) ELSE j.status
         /\ Cleans(j, Eff(j)) => Eff(j) \in GroupFinished
         /\ j.task # None => (Cleans(j, Eff(j)) <=>
                \/ Eff(j) \in Finished /\ IsLead(j.task)
                \/ Eff(j) \in FailedStatuses /\ GroupOf[j.task] \notin IgnoreNonlead)
<1>1. j.status \in Heard /\ j.status # "RESCHEDULED"
  BY DEF PlainJob, HeardJob
<1>2. j.task # None => ExitStatus(j) \in {j.status, "COMPLETED", "FAILED"}
  BY DEF ExitStatus, ExitActions, Job, PlainJob
<1>3. Eff(j) \in {j.status, "COMPLETED", "FAILED"}
  BY <1>2 DEF Eff
<1>4. Eff(j) \in Heard \ {"RESCHEDULED"}
  BY <1>1, <1>3, Apart
<1>5. /\ j.task = None => Eff(j) = j.status
      /\ j.task # None => Eff(j) = IF j.status \in Finished THEN ExitStatus(j) ELSE j.status
  BY DEF Eff
<1>6. j.task = None => Eff(j) \in GroupFinished
  BY <1>5, Apart DEF PlainJob
<1>7. j.task # None => ~j.force /\ GroupOf[j.task] = j.group
  BY DEF PlainJob
<1>8. QED
  BY <1>4, <1>5, <1>6, <1>7, Apart DEF Cleans
-----------------------------------------------------------------------------
(***************************************************************************)
(* The jobs that a step queues.                                            *)
(***************************************************************************)
LastCleaned == /\ agent.pc = "execute" /\ agent.job.type = "CleanupGroup"
               /\ \A h \in Groups \ {agent.job.group} : grp[h].cleaned

Forwarded(j) ==
  \/ \E w \in Workers : ~Free(w) /\ j = worker[w].job
  \/ agent.pc # "idle" /\ j = agent.job

Made(j) ==
  \/ j.type = "CancelWorkflow"
  \/ j.type \in {"CheckQueueTimeout", "CheckRunTimeout"} /\ j.group \in Groups
  \/ j.type = "CreateGroup" /\ j.group \in Groups /\ j.task = None
  \/ j.type = "CleanupWorkflow" /\ LastCleaned
  \/ /\ j.type = "CleanupGroup" /\ j.task = None
     /\ \E w \in Workers : At(w, "finish") /\ Clean(worker[w]) /\ j.group = worker[w].job.group
  \/ /\ j.type = "UpdateGroup" /\ j.group \in Groups /\ j.task = None
     /\ j.status \in Canceled \cup WholeGroup
  \/ /\ j.type = "UpdateGroup" /\ j.task \in Tasks /\ j.group = GroupOf[j.task]
     /\ j.retry = 0 /\ ~j.force
     /\ j.status \in Heard \ (Canceled \cup WholeGroup \cup {"RESCHEDULED"})
     /\ j.status = "FAILED_START_TIMEOUT" => "start" \in Timeouts

\* The fields of the jobs.
LEMMA Fields ==
  /\ NoJob.type = "None" /\ NoJob.task = None /\ NoJob.group = None
  /\ \A type : JobOf(type).type = type
  /\ \A f : [JobOf("CancelWorkflow") EXCEPT !.force = f].type = "CancelWorkflow"
  /\ \A type, g : /\ GroupJob(type, g).type = type /\ GroupJob(type, g).group = g
                  /\ GroupJob(type, g).task = None
  /\ \A g, s : /\ UpdateGroup(g, s).type = "UpdateGroup" /\ UpdateGroup(g, s).group = g
               /\ UpdateGroup(g, s).task = None /\ UpdateGroup(g, s).status = s
  /\ \A g, s, f : LET j == [UpdateGroup(g, s) EXCEPT !.force = f] IN
               /\ j.type = "UpdateGroup" /\ j.group = g /\ j.task = None /\ j.status = s
  /\ \A t, n, s : LET j == UpdateTask(t, n, s) IN
               /\ j.type = "UpdateGroup" /\ j.group = GroupOf[t] /\ j.task = t
               /\ j.retry = n /\ j.status = s /\ j.force = FALSE
  /\ \A t, n, s, a : LET j == [UpdateTask(t, n, s) EXCEPT !.action = a] IN
               /\ j.type = "UpdateGroup" /\ j.group = GroupOf[t] /\ j.task = t
               /\ j.retry = n /\ j.status = s /\ j.force = FALSE
  BY DEF NoJob, JobOf, GroupJob, UpdateGroup, TaskJob, UpdateTask

\* The jobs that a worker queues.
LEMMA WorkerQueues ==
  ASSUME Here, NEW w \in Workers, WorkerStep(w) \/ Crash(w), NEW j \in queue', j \notin queue
  PROVE  Forwarded(j) \/ Made(j)
<1> USE DEF jobs
<1>0. /\ backendUp /\ PlainWorker1(worker[w]) /\ \A i \in queue : PlainJob(i)
      /\ worker[w] \in Worker /\ worker \in [Workers -> Worker]
  BY DEF Here, Orderly, PlainJobs, Known, Shape, WorkerShape, GoodWorker
<1>1. ASSUME NEW J, Send(J) \/ \E k : TakeAndSend(k, J) PROVE j \in J
  BY <1>1 DEF Send, TakeAndSend
<1>2. CASE Submit(w) \/ LaunchDownstream(w) \/ SetTasks(w)
  BY <1>0, <1>2 DEF Submit, InsertWorkflow, InsertGroups, MarkWaiting, CheckWaiting, SetTasks,
                    LaunchDownstream, Take
<1>3. CASE SendCreate(w)
  <2>1. PICK g \in worker[w].todo : Send({GroupJob("CreateGroup", g)})
    BY <1>3 DEF SendCreate
  <2>2. j = GroupJob("CreateGroup", g) /\ g \in Groups
    BY <1>0, <1>1, <2>1 DEF Worker
  <2>3. QED
    BY <2>2, Fields DEF Made
<1>4. CASE \/ FetchCancel(w) \/ Cancel(w) \/ UpdateWholeGroup(w) \/ UpdateNoTask(w)
           \/ CheckStartTimeout(w) \/ EndLateStart(w) \/ UpdateTaskStatus(w) \/ Reread(w)
           \/ UpdateSiblings(w) \/ InsertRetry(w) \/ WriteGroup(w) \/ ReadGroups(w)
           \/ WriteWorkflow(w) \/ ReleaseDownstream(w)
  BY <1>4 DEF FetchCancel, Cancel, UpdateWholeGroup, UpdateNoTask, CheckStartTimeout,
              EndLateStart, UpdateTaskStatus, Reread, UpdateSiblings, InsertRetry, WriteGroup,
              ReadGroups, WriteWorkflow, ReleaseDownstream, Take
<1>5. CASE Recheck(w) \/ Crash(w)
  <2>1. j = worker[w].job /\ ~Free(w)
    BY <1>5 DEF Recheck, Crash, At, Free
  <2>2. QED
    BY <2>1 DEF Forwarded
<1>6. CASE FailWithoutBackend(w) \/ SendRetry(w)
  BY <1>0, <1>6 DEF FailWithoutBackend, WithoutBackend, SendRetry, PlainWorker1, At
<1>7. CASE Aggregate(w)
  <2> DEFINE x == worker[w]
             J == {GroupJob(IF c = "queue" THEN "CheckQueueTimeout" ELSE "CheckRunTimeout", x.job.group) :
                     c \in x.clocks}
  <2>1. Send(J) /\ x.pc = "aggregate"
    BY <1>7 DEF Aggregate, At
  <2>2. x.job.group \in Groups
    BY <1>0, <2>1 DEF PlainWorker1, PlainJob, Updating
  <2>3. j \in J
    BY <1>1, <2>1
  <2>4. j.type \in {"CheckQueueTimeout", "CheckRunTimeout"} /\ j.group = x.job.group
    BY <2>3, Fields
  <2>5. QED
    BY <2>2, <2>4 DEF Made
<1>8. CASE Finish(w)
  <2> DEFINE x == worker[w]
             F == IF grp[x.job.group].status \in FailedStatuses THEN {"FAILED_UPSTREAM"} ELSE {}
             J == {UpdateGroup(d, f) : d \in Downstream(x.job.group), f \in F}
  <2>1. /\ Send(CleanupGroupJobs(x.job, x.eff, HasBackend(x.job)) \cup J) /\ At(w, "finish")
    BY <1>0, <1>8, BackendIsFound DEF Finish
  <2>2. j \in CleanupGroupJobs(x.job, x.eff, HasBackend(x.job)) \/ j \in J
    BY <1>1, <2>1
  <2>3. CASE j \in CleanupGroupJobs(x.job, x.eff, HasBackend(x.job))
    <3>1. Clean(x) /\ j = GroupJob("CleanupGroup", x.job.group)
      BY <1>0, <2>3, BackendIsFound DEF CleanupGroupJobs, Clean
    <3>2. QED
      BY <2>1, <3>1, Fields DEF Made
  <2>4. CASE j \in J
    <3>1. PICK d \in Groups : j = UpdateGroup(d, "FAILED_UPSTREAM")
      BY <2>4 DEF Downstream
    <3>2. QED
      BY <3>1, Fields DEF Made, WholeGroup
  <2>5. QED
    BY <2>2, <2>3, <2>4
<1>9. CASE CancelWorkflow(w)
  <2>1. PICK k \in queue :
          TakeAndSend(k, {[UpdateGroup(g, "FAILED_CANCELED") EXCEPT !.force = k.force] :
                            g \in {h \in Groups : /\ grp[h].status # Absent
                                                  /\ grp[h].status \notin Finished \/ k.force}})
    BY <1>9 DEF CancelWorkflow
  <2>2. PICK g \in Groups : j = [UpdateGroup(g, "FAILED_CANCELED") EXCEPT !.force = k.force]
    BY <1>1, <2>1
  <2>3. j.type = "UpdateGroup" /\ j.group = g /\ j.task = None /\ j.status = "FAILED_CANCELED"
    BY <2>2, Fields
  <2>4. QED
    BY <2>3 DEF Made, Canceled
<1>10. CASE CheckQueueTimeout(w) \/ CheckRunTimeout(w)
  <2>1. PICK k \in queue, s \in Canceled :
          /\ k.type \in {"CheckQueueTimeout", "CheckRunTimeout"}
          /\ TakeAndSend(k, {UpdateGroup(k.group, s)}) \/ Take(k)
    BY <1>10 DEF CheckQueueTimeout, CheckRunTimeout, Canceled
  <2>2. k.group \in Groups
    BY <1>0, <2>1 DEF PlainJob
  <2>3. j = UpdateGroup(k.group, s)
    BY <1>1, <2>1 DEF Take
  <2>4. QED
    BY <2>2, <2>3, Fields DEF Made
<1>11. CASE CleanupWorkflow(w)
  BY <1>11 DEF CleanupWorkflow, Take
<1>12. QED
  BY <1>2, <1>3, <1>4, <1>5, <1>6, <1>7, <1>8, <1>9, <1>10, <1>11
     DEF WorkerStep, Process, Update, Other

\* The jobs that the backend worker, the pods and the users queue.
LEMMA OthersQueue ==
  ASSUME Here, [Next]_vars, ~\E w \in Workers : WorkerStep(w) \/ Crash(w),
         NEW j \in queue', j \notin queue
  PROVE  Forwarded(j) \/ Made(j)
<1> USE DEF jobs
<1>0. /\ PlainJob(agent.job) /\ \A i \in queue : PlainJob(i)
      /\ agent.pc # "idle" => agent.job.type \in BackendTypes
      /\ \A t \in Tasks : pod[t].retry = 0
  BY DEF Here, Orderly, PlainJobs, PlainData, Known, Sound
<1>1. ASSUME NEW J, Send(J) \/ \E k : TakeAndSend(k, J) PROVE j \in J
  BY <1>1 DEF Send, TakeAndSend
<1>2. ASSUME NEW t \in Tasks, NEW s, NEW a,
             j = UpdateTask(t, 0, s) \/ j = [UpdateTask(t, 0, s) EXCEPT !.action = a],
             s \in Heard \ (Canceled \cup WholeGroup \cup {"RESCHEDULED"}),
             s = "FAILED_START_TIMEOUT" => "start" \in Timeouts
      PROVE  Made(j)
  <2>1. /\ j.type = "UpdateGroup" /\ j.group = GroupOf[t] /\ j.task = t
        /\ j.retry = 0 /\ j.status = s /\ j.force = FALSE
    <3>1. CASE j = UpdateTask(t, 0, s)
      BY <3>1, Fields
    <3>2. CASE j = [UpdateTask(t, 0, s) EXCEPT !.action = a]
      BY <3>2, Fields
    <3>3. QED
      BY <1>2, <3>1, <3>2
  <2>2. QED
    BY <1>2, <2>1 DEF Made
<1>3. CASE PrepareCreateGroup
  <2>1. PICK k \in queue : /\ k.type = "CreateGroup"
                           /\ Take(k) \/ TakeAndSend(k, {UpdateGroup(k.group, "FAILED_SERVER_ERROR")})
    BY <1>3 DEF PrepareCreateGroup
  <2>2. j = UpdateGroup(k.group, "FAILED_SERVER_ERROR") /\ k.group \in Groups
    BY <1>0, <1>1, <2>1 DEF PlainJob, Take
  <2>3. QED
    BY <2>2, Fields DEF Made, WholeGroup
<1>4. CASE PrepareCleanupGroup \/ PrepareRescheduleTask \/ Apply \/ DeleteBackend \/ UNCHANGED vars
  BY <1>0, <1>4 DEF PrepareCleanupGroup, PrepareRescheduleTask, Apply, DeleteBackend, vars, Take,
                    PlainJob
<1>5. CASE Execute
  <2>1. agent.pc = "execute" /\ agent.job.type \in {"CleanupGroup", "CreateGroup"}
    BY <1>0, <1>5 DEF Execute, BackendTypes, PlainJob
  <2>2. agent.job.type # "CleanupGroup" => {u \in {agent.job.task} \ {None} :
                                              grp[agent.job.group].status \in GroupFinished} = {}
    BY <1>0, <2>1 DEF PlainJob
  <2>3. agent.job.type = "CleanupGroup" /\ j \in CleanupJobs(agent.job.group)
    BY <1>1, <1>5, <2>2 DEF Execute
  <2>4. j = JobOf("CleanupWorkflow") /\ LastCleaned
    BY <2>1, <2>3 DEF CleanupJobs, LastCleaned
  <2>5. QED
    BY <2>4, Fields DEF Made
<1>6. CASE Refuse
  <2>1. agent.pc = "apply" /\ agent.job.type \in {"CleanupGroup", "CreateGroup"}
    BY <1>0, <1>6 DEF Refuse, BackendTypes, PlainJob
  <2>2. agent.job.type = "CreateGroup" /\ Send({UpdateGroup(agent.job.group, "FAILED_SERVER_ERROR")})
    BY <1>6, <2>1 DEF Refuse
  <2>3. j = UpdateGroup(agent.job.group, "FAILED_SERVER_ERROR") /\ agent.job.group \in Groups
    BY <1>0, <1>1, <2>2 DEF PlainJob
  <2>4. QED
    BY <2>3, Fields DEF Made, WholeGroup
<1>7. CASE Disconnect
  BY <1>7 DEF Disconnect, Forwarded
<1>8. ASSUME NEW t \in Tasks, PodMoves(t) PROVE Made(j)
  <2>1. PICK s \in Reports :
          \/ Send({UpdateTask(t, pod[t].retry, s)})
          \/ \E late \in StartTimeouts(t, s) : Send({UpdateTask(t, pod[t].retry, s), late})
    BY <1>8 DEF PodMoves
  <2>2. s \in Heard \ (Canceled \cup WholeGroup \cup {"RESCHEDULED"}) /\ s # "FAILED_START_TIMEOUT"
    BY WorkflowAssumption, Apart DEF Canceled, WholeGroup
  <2>3. \A late \in StartTimeouts(t, s) :
          /\ "start" \in Timeouts
          /\ \E a : late = [UpdateTask(t, 0, "FAILED_START_TIMEOUT") EXCEPT !.action = a]
    BY <1>0 DEF StartTimeouts
  <2>4. j = UpdateTask(t, 0, s) \/ j \in StartTimeouts(t, s)
    BY <1>0, <1>1, <2>1
  <2>5. "FAILED_START_TIMEOUT" \in Heard \ (Canceled \cup WholeGroup \cup {"RESCHEDULED"})
    BY Apart
  <2>6. QED
    BY <1>2, <2>2, <2>3, <2>4, <2>5
<1>9. ASSUME NEW t \in Tasks, PodEnds(t) PROVE Made(j)
  <2>1. PICK o \in Outcomes : Send({[UpdateTask(t, pod[t].retry, o.status) EXCEPT !.action = o.action]})
    BY <1>9 DEF PodEnds
  <2>2. /\ o.status \in Heard \ (Canceled \cup WholeGroup \cup {"RESCHEDULED"})
        /\ o.status # "FAILED_START_TIMEOUT"
    BY WorkflowAssumption, Apart DEF Canceled, WholeGroup, FailedStatuses
  <2>3. j = [UpdateTask(t, 0, o.status) EXCEPT !.action = o.action]
    BY <1>0, <1>1, <2>1
  <2>4. QED
    BY <1>2, <2>2, <2>3
<1>10. ASSUME NEW force \in CancelForms, AskCancel(force) PROVE Made(j)
  <2>1. j = [JobOf("CancelWorkflow") EXCEPT !.force = force]
    BY <1>1, <1>10 DEF AskCancel
  <2>2. QED
    BY <2>1, Fields DEF Made
<1>11. QED
  BY <1>3, <1>4, <1>5, <1>6, <1>7, <1>8, <1>9, <1>10 DEF Next, AgentStep

\* Whoever steps, what the queue gains was forwarded or made by that step.
LEMMA Queued ==
  ASSUME Here, [Next]_vars, NEW j \in queue'
  PROVE  j \in queue \/ Forwarded(j) \/ Made(j)
  BY WorkerQueues, OthersQueue

\* Every job is plain.
LEMMA PlainQueue ==
  ASSUME Here, [Next]_vars
  PROVE  (\A j \in queue' : PlainJob(j)) /\ PlainJob(agent'.job)
<1>0. /\ \A j \in queue : PlainJob(j)
      /\ PlainJob(agent.job) /\ \A v \in Workers : PlainJob(worker[v].job)
      /\ agent \in [pc : {"idle", "apply", "execute"}, job : Named]
  BY DEF Here, Orderly, PlainJobs, PlainWorker1, Known, Shape, ClusterShape
<1>1. ASSUME NEW j, Made(j) PROVE PlainJob(j)
  <2>1. GroupOf \in [Tasks -> Groups] /\ None \notin Tasks
    BY WorkflowAssumption
  <2>2. \A s \in Canceled \cup WholeGroup : s \notin {"RESCHEDULED", "FAILED_START_TIMEOUT"}
    BY DEF Canceled, WholeGroup
  <2>3. \A w \in Workers : At(w, "finish") => worker[w].job.group \in Groups
    BY DEF Here, Orderly, PlainJobs, PlainWorker1, PlainJob, Updating, At
  <2>4. QED
    BY <1>1, <2>1, <2>2, <2>3 DEF Made, PlainJob
<1>2. \A j \in queue' : PlainJob(j)
  BY <1>0, <1>1, Queued DEF Forwarded
<1>3. PlainJob(NoJob)
  BY Fields DEF PlainJob
<1>4. agent'.job \in {agent.job, NoJob} \cup queue
  <2>1. CASE \E w \in Workers : WorkerStep(w) \/ Crash(w)
    BY <2>1, WorkersOnly DEF cluster
  <2>2. CASE PrepareCreateGroup \/ PrepareCleanupGroup \/ PrepareRescheduleTask
    <3>1. \/ UNCHANGED agent
          \/ \E j \in queue : Launch(j)
      BY <2>2 DEF PrepareCreateGroup, PrepareCleanupGroup, PrepareRescheduleTask
    <3>2. QED
      BY <3>1 DEF Launch
  <2>3. CASE Apply \/ Execute \/ Refuse \/ Disconnect
    BY <1>0, <2>3 DEF Apply, Execute, Refuse, Disconnect
  <2>4. CASE \/ \E t \in Tasks : PodMoves(t) \/ PodEnds(t)
             \/ \E force \in CancelForms : AskCancel(force)
             \/ DeleteBackend \/ UNCHANGED vars
    BY <2>4 DEF PodMoves, PodEnds, AskCancel, DeleteBackend, vars, cluster
  <2>5. QED
    BY <2>1, <2>2, <2>3, <2>4 DEF Next, AgentStep
<1>5. QED
  BY <1>0, <1>2, <1>3, <1>4
-----------------------------------------------------------------------------
(***************************************************************************)
(* What a step does to the row of a task.                                  *)
(***************************************************************************)
Writing(w, t, s) ==
  LET y == worker'[w] IN
  /\ y.job.type = "UpdateGroup" /\ y.job.group = GroupOf[t] /\ PlainJob(y.job) /\ HeardJob(y.job)
  /\ y.job \in Job /\ y.eff = Eff(y.job)
  /\ \/ y.pc = "reread" /\ y.job.task = t /\ y.eff = s
     \/ /\ s \in GroupFinished \ {"FAILED_START_TIMEOUT"} /\ Clean(y)
        /\ y.pc \in {"aggregate", "writeGroup"}
        /\ \/ y.job.task = None
           \/ /\ At(w, "siblings") /\ y.job = worker[w].job /\ y.eff = worker[w].eff
              /\ t # y.job.task

RowStep(t) ==
  \/ rows'[t][0] = rows[t][0]
  \/ /\ rows[t][0].status \in {Absent, "WAITING"} /\ rows'[t][0].status \in {"WAITING", "PROCESSING"}
     /\ rows'[t][0].stamps = rows[t][0].stamps
  \/ \E w \in Workers, s \in Heard \ {"RESCHEDULED"} :
       rows'[t][0] = UpdateTaskRow(rows[t][0], s) /\ Writing(w, t, s)

\* The jobs and workers that the step lemmas speak of.
LEMMA HereGives ==
  ASSUME Here
  PROVE  /\ \A j \in queue : PlainJob(j) /\ HeardJob(j) /\ j \in Job
         /\ \A v \in Workers :
              /\ PlainWorker1(worker[v]) /\ Ending(worker[v]) /\ HeardWorker(worker[v])
              /\ SoundWorker(worker[v]) /\ worker[v] \in GoodWorker /\ worker[v].job \in Job
              /\ PlainJob(worker[v].job) /\ HeardJob(worker[v].job) /\ worker[v] \in Worker
         /\ worker \in [Workers -> Worker]
         /\ rows \in [Tasks -> [Retries -> Row]] /\ 0 \in Retries
         /\ \A t \in Tasks : rows[t] \in [Retries -> Row] /\ rows[t][0] \in Row /\ PlainRow(rows[t][0])
         /\ grp \in [Groups -> GroupRow] /\ \A g \in Groups : grp[g] \in GroupRow
         /\ Shape /\ MaxRetry = 0 /\ backendUp
<1>1. Shape /\ Orderly /\ Sound /\ Hearsay /\ MaxRetry = 0 /\ backendUp
  BY DEF Here, Known
<1>2. /\ worker \in [Workers -> GoodWorker] /\ queue \subseteq Named
      /\ grp \in [Groups -> GroupRow] /\ rows \in [Tasks -> [Retries -> Row]]
  BY <1>1 DEF Shape, WorkerShape, JobShape, DbShape
<1>3. GoodWorker \subseteq Worker /\ Named \subseteq Job /\ \A x \in Worker : x.job \in Job
  BY DEF GoodWorker, Named, Worker
<1>4. 0 \in Retries
  BY <1>1, OneRow
<1>5. \A t \in Tasks : rows[t] \in [Retries -> Row] /\ rows[t][0] \in Row
  BY <1>2, <1>4
<1>6. worker \in [Workers -> Worker]
  BY <1>2, <1>3
<1>7. \A v \in Workers :
         /\ PlainWorker1(worker[v]) /\ Ending(worker[v]) /\ HeardWorker(worker[v])
         /\ SoundWorker(worker[v]) /\ worker[v] \in GoodWorker
         /\ PlainJob(worker[v].job) /\ HeardJob(worker[v].job)
  BY <1>1, <1>2 DEF Orderly, PlainJobs, Sound, Hearsay, HeardWorker, PlainWorker1
<1>8. \A j \in queue : PlainJob(j) /\ HeardJob(j) /\ j \in Job
  BY <1>1, <1>2, <1>3 DEF Orderly, PlainJobs, Hearsay
<1>9. QED
  BY <1>1, <1>2, <1>3, <1>4, <1>5, <1>6, <1>7, <1>8 DEF Orderly, PlainData

\* A worker that updates one task.
LEMMA TaskWritten ==
  ASSUME Here, NEW w \in Workers, NEW j \in Job, j.type = "UpdateGroup", PlainJob(j), HeardJob(j),
         j.task # None, UpdateTaskRowOf(w, j)
  PROVE  /\ worker'[w].pc = "reread" /\ worker'[w].job = j /\ worker'[w].eff = Eff(j)
         /\ \A t \in Tasks : \/ rows'[t][0] = rows[t][0]
                             \/ t = j.task /\ rows'[t][0] = UpdateTaskRow(rows[t][0], Eff(j))
<1>0. /\ worker \in [Workers -> Worker] /\ rows \in [Tasks -> [Retries -> Row]] /\ 0 \in Retries
      /\ \A t \in Tasks : rows[t] \in [Retries -> Row]
  BY HereGives
<1>1. j.task \in Tasks /\ j.retry = 0
  BY DEF Job, PlainJob
<1> DEFINE s == IF j.status \in Finished THEN ExitStatus(j) ELSE j.status
<1>2. Eff(j) = s
  BY DEF Eff
<1>3. /\ rows' = [rows EXCEPT ![j.task][0] = UpdateTaskRow(@, s)]
      /\ \E c : worker' = [worker EXCEPT ![w] = [Idle EXCEPT !.pc = "reread", !.job = j, !.eff = s,
                                                             !.clocks = c]]
  BY <1>1 DEF UpdateTaskRowOf
<1>4. worker'[w].pc = "reread" /\ worker'[w].job = j /\ worker'[w].eff = s
  BY <1>0, <1>3 DEF Idle
<1>5. \A t \in Tasks : \/ rows'[t][0] = rows[t][0]
                       \/ t = j.task /\ rows'[t][0] = UpdateTaskRow(rows[t][0], s)
  BY <1>0, <1>1, <1>3
<1>6. QED
  BY <1>2, <1>4, <1>5

\* The worker that updates many.
LEMMA BatchWritten ==
  ASSUME Here, NEW w \in Workers,
         \/ Recheck(w) /\ rows' # rows
         \/ UpdateWholeGroup(w) \/ UpdateSiblings(w)
  PROVE  LET y == worker'[w] IN
         \E s \in GroupFinished \ {"FAILED_START_TIMEOUT"}, x \in Tasks \cup {None} :
           /\ rows' = BatchUpdate(y.job.group, s, x)
           /\ y.job.type = "UpdateGroup" /\ PlainJob(y.job) /\ HeardJob(y.job) /\ y.job \in Job
           /\ y.eff = Eff(y.job) /\ Clean(y) /\ y.pc \in {"aggregate", "writeGroup"}
           /\ \/ y.job.task = None /\ x = None
              \/ /\ At(w, "siblings") /\ y.job = worker[w].job /\ y.eff = worker[w].eff
                 /\ x = y.job.task
           /\ At(w, "recheck") => /\ y.pc = "writeGroup" /\ y.new \in Canceled /\ grp' = grp
                                  /\ y.job = worker[w].job
                                  /\ grp[y.job.group].status # "PROCESSING"
           /\ ~At(w, "recheck") => y.pc = "aggregate"
<1> DEFINE x == worker[w]
           y == worker'[w]
<1> USE DEF db
<1>0. /\ worker \in [Workers -> Worker] /\ x \in Worker /\ PlainWorker1(x) /\ Ending(x)
      /\ PlainJob(x.job) /\ HeardJob(x.job) /\ x.job \in Job /\ Shape /\ MaxRetry = 0
      /\ \A j \in queue : PlainJob(j) /\ HeardJob(j) /\ j \in Job
  BY HereGives
<1>1. \A j : j.status \in Canceled \cup WholeGroup /\ j.type = "UpdateGroup" /\ PlainJob(j)
               => /\ j.task = None /\ Eff(j) = j.status /\ Cleans(j, j.status)
                  /\ j.status \in GroupFinished \ {"FAILED_START_TIMEOUT"}
  BY Apart DEF PlainJob, Eff, Cleans
<1>2. CASE Recheck(w) /\ rows' # rows
  <2>1. /\ x.pc = "recheck" /\ rows' = BatchUpdate(x.job.group, x.job.status, None)
        /\ y = [x EXCEPT !.pc = "writeGroup", !.new = x.job.status]
        /\ grp' = grp /\ grp[x.job.group].status # "PROCESSING"
    BY <1>0, <1>2 DEF Recheck, At
  <2>2. y.pc = "writeGroup" /\ y.job = x.job /\ y.eff = x.eff /\ y.new = x.job.status
    BY <1>0, <2>1 DEF Worker
  <2>3. x.job.type = "UpdateGroup" /\ x.job.status \in Canceled /\ x.eff = x.job.status
    BY <1>0, <2>1 DEF PlainWorker1
  <2>4. QED
    BY <1>0, <1>1, <2>1, <2>2, <2>3 DEF Clean, At
<1>3. CASE UpdateWholeGroup(w)
  <2>1. PICK j \in queue :
          /\ j.type = "UpdateGroup" /\ j.status \in WholeGroup /\ x.pc = "idle"
          /\ Start(w, j, "aggregate", j.status) /\ rows' = BatchUpdate(j.group, j.status, None)
    BY <1>3 DEF UpdateWholeGroup, Free
  <2>2. y.pc = "aggregate" /\ y.job = j /\ y.eff = j.status
    BY <1>0, <2>1, StartGives
  <2>3. QED
    BY <1>0, <1>1, <2>1, <2>2 DEF Clean, At
<1>4. CASE UpdateSiblings(w)
  <2> DEFINE s == IF x.eff \in FailedStatuses THEN "FAILED" ELSE x.eff
  <2>1. x.pc = "siblings" /\ Goto(w, "aggregate") /\ rows' = BatchUpdate(x.job.group, s, x.job.task)
    BY <1>4 DEF UpdateSiblings, At
  <2>2. y.pc = "aggregate" /\ y.job = x.job /\ y.eff = x.eff
    BY <1>0, <2>1, GotoGives
  <2>3. Clean(x) /\ x.job.type = "UpdateGroup" /\ x.eff = Eff(x.job)
    BY <1>0, <2>1 DEF Ending, PlainWorker1, Updating
  <2>4. x.eff \in GroupFinished
    BY <1>0, <2>3, EffIs DEF Clean
  <2>5. s \in GroupFinished \ {"FAILED_START_TIMEOUT"}
    BY <2>4, Apart
  <2>6. QED
    BY <1>0, <2>1, <2>2, <2>3, <2>5 DEF Clean, At, Job
<1>5. QED
  BY <1>2, <1>3, <1>4

\* Every step.
LEMMA RowSteps ==
  ASSUME Here, [Next]_vars, NEW t \in Tasks
  PROVE  RowStep(t)
<1> USE DEF db
<1>0. /\ worker \in [Workers -> Worker] /\ rows \in [Tasks -> [Retries -> Row]] /\ 0 \in Retries
      /\ rows[t] \in [Retries -> Row] /\ rows[t][0] \in Row /\ MaxRetry = 0 /\ backendUp
      /\ \A j \in queue : PlainJob(j) /\ HeardJob(j) /\ j \in Job
      /\ \A v \in Workers : /\ PlainWorker1(worker[v]) /\ PlainJob(worker[v].job)
                            /\ HeardJob(worker[v].job) /\ worker[v].job \in Job
  BY HereGives
<1>1. ASSUME NEW w \in Workers, InsertGroups(w) PROVE RowStep(t)
  <2>1. \/ rows'[t] = rows[t]
        \/ rows[t][0].status = Absent /\ rows'[t] = [rows[t] EXCEPT ![0].status = "WAITING"]
    BY <1>1 DEF InsertGroups
  <2>2. CASE rows[t][0].status = Absent /\ rows'[t] = [rows[t] EXCEPT ![0].status = "WAITING"]
    <3>1. rows'[t][0] = [rows[t][0] EXCEPT !.status = "WAITING"]
      BY <1>0, <2>2
    <3>2. rows'[t][0].status = "WAITING" /\ rows'[t][0].stamps = rows[t][0].stamps
      BY <1>0, <3>1 DEF Row
    <3>3. QED
      BY <2>2, <3>2 DEF RowStep
  <2>3. QED
    BY <2>1, <2>2 DEF RowStep
<1>2. ASSUME NEW w \in Workers, SetTasks(w) PROVE RowStep(t)
  <2>1. \/ rows'[t] = rows[t]
        \/ rows'[t] = [r \in Retries |-> IF rows[t][r].status = "WAITING"
                                         THEN [rows[t][r] EXCEPT !.status = "PROCESSING"]
                                         ELSE rows[t][r]]
    BY <1>2 DEF SetTasks
  <2>2. \/ rows'[t][0] = rows[t][0]
        \/ rows[t][0].status = "WAITING" /\ rows'[t][0] = [rows[t][0] EXCEPT !.status = "PROCESSING"]
    BY <1>0, <2>1
  <2>3. CASE /\ rows[t][0].status = "WAITING"
             /\ rows'[t][0] = [rows[t][0] EXCEPT !.status = "PROCESSING"]
    <3>1. rows'[t][0].status = "PROCESSING" /\ rows'[t][0].stamps = rows[t][0].stamps
      BY <1>0, <2>3 DEF Row
    <3>2. QED
      BY <2>3, <3>1 DEF RowStep
  <2>4. QED
    BY <2>2, <2>3 DEF RowStep
<1>3. ASSUME NEW w \in Workers, EndLateStart(w) \/ UpdateTaskStatus(w) PROVE RowStep(t)
  <2>1. PICK j \in Job : /\ j.type = "UpdateGroup" /\ PlainJob(j) /\ HeardJob(j) /\ j.task # None
                         /\ UpdateTaskRowOf(w, j)
    <3>1. CASE EndLateStart(w)
      BY <1>0, <1>3, <3>1 DEF EndLateStart, At, PlainWorker1, Updating
    <3>2. CASE UpdateTaskStatus(w)
      BY <1>0, <1>3, <3>2 DEF UpdateTaskStatus, PerTask
    <3>3. QED
      BY <1>3, <3>1, <3>2
  <2>2. /\ worker'[w].pc = "reread" /\ worker'[w].job = j /\ worker'[w].eff = Eff(j)
        /\ \/ rows'[t][0] = rows[t][0]
           \/ t = j.task /\ rows'[t][0] = UpdateTaskRow(rows[t][0], Eff(j))
    BY <2>1, TaskWritten
  <2>3. Eff(j) \in Heard \ {"RESCHEDULED"} /\ GroupOf[j.task] = j.group
    BY <1>0, <2>1, EffIs DEF PlainJob
  <2>4. t = j.task => Writing(w, t, Eff(j))
    BY <2>1, <2>2, <2>3 DEF Writing
  <2>5. QED
    BY <2>2, <2>3, <2>4 DEF RowStep
<1>4. ASSUME NEW w \in Workers,
             (Recheck(w) /\ rows' # rows) \/ UpdateWholeGroup(w) \/ UpdateSiblings(w)
      PROVE  RowStep(t)
  <2> DEFINE y == worker'[w]
  <2>1. PICK s \in GroupFinished \ {"FAILED_START_TIMEOUT"}, x \in Tasks \cup {None} :
           /\ rows' = BatchUpdate(y.job.group, s, x)
           /\ y.job.type = "UpdateGroup" /\ PlainJob(y.job) /\ HeardJob(y.job) /\ y.job \in Job
           /\ y.eff = Eff(y.job) /\ Clean(y) /\ y.pc \in {"aggregate", "writeGroup"}
           /\ \/ y.job.task = None /\ x = None
              \/ /\ At(w, "siblings") /\ y.job = worker[w].job /\ y.eff = worker[w].eff
                 /\ x = y.job.task
    BY <1>4, BatchWritten
  <2>2. CASE rows'[t][0] = rows[t][0]
    BY <2>2 DEF RowStep
  <2>3. CASE /\ GroupOf[t] = y.job.group /\ t # x
             /\ rows'[t][0] = UpdateTaskRow(rows[t][0], s)
    <3>1. Writing(w, t, s)
      BY <2>1, <2>3 DEF Writing
    <3>2. s \in Heard \ {"RESCHEDULED"}
      BY Apart
    <3>3. QED
      BY <2>3, <3>1, <3>2 DEF RowStep
  <2>4. QED
    BY <1>0, <2>1, <2>2, <2>3, BatchGives
<1>5. CASE rows' = rows
  BY <1>5 DEF RowStep
<1>6. CASE \E w \in Workers : WorkerStep(w) \/ Crash(w)
  <2>1. PICK w \in Workers : WorkerStep(w) \/ Crash(w)
    BY <1>6
  <2>2. ~InsertRetry(w)
    BY <1>0 DEF InsertRetry, PlainWorker1, At
  <2>3. CASE Submit(w) \/ Process(w)
    BY <1>1, <1>2, <1>5, <2>3 DEF Submit, Process, InsertWorkflow, MarkWaiting, CheckWaiting,
                                  LaunchDownstream, SendCreate
  <2>4. CASE \/ FetchCancel(w) \/ Cancel(w) \/ UpdateNoTask(w) \/ CheckStartTimeout(w)
             \/ FailWithoutBackend(w) \/ Reread(w) \/ SendRetry(w)
    BY <1>5, <2>4 DEF FetchCancel, Cancel, UpdateNoTask, CheckStartTimeout, FailWithoutBackend,
                      Reread, SendRetry
  <2>5. CASE \/ Aggregate(w) \/ WriteGroup(w) \/ ReadGroups(w) \/ WriteWorkflow(w) \/ Finish(w)
             \/ ReleaseDownstream(w)
    <3>1. Aggregate(w) \/ Finish(w) => UNCHANGED rows
      BY DEF Aggregate, Finish
    <3>2. QED
      BY <1>5, <2>5, <3>1 DEF WriteGroup, ReadGroups, WriteWorkflow, ReleaseDownstream
  <2>6. CASE Other(w) \/ Crash(w)
    BY <1>5, <2>6 DEF Other, CancelWorkflow, CheckQueueTimeout, CheckRunTimeout, CleanupWorkflow,
                      Crash
  <2>7. QED
    BY <1>3, <1>4, <1>5, <2>1, <2>2, <2>3, <2>4, <2>5, <2>6 DEF WorkerStep, Update
<1>7. CASE ~\E w \in Workers : WorkerStep(w) \/ Crash(w)
  <2>1. rows' = rows
    BY <1>7 DEF Next, AgentStep, PrepareCreateGroup, PrepareCleanupGroup, PrepareRescheduleTask, Apply,
                Execute, Refuse, Disconnect, PodMoves, PodEnds, AskCancel, DeleteBackend, vars
  <2>2. QED
    BY <1>5, <2>1
<1>8. QED
  BY <1>6, <1>7

\* A row that is over stays as it is; a row that is there stays there.
LEMMA RowsKeep ==
  ASSUME Here, [Next]_vars, NEW t \in Tasks
  PROVE  /\ PlainRow(rows'[t][0])
         /\ Over(t) => rows'[t][0].status = rows[t][0].status
         /\ Over(t) => Over(t)'
         /\ rows[t][0].status # Absent => rows'[t][0].status # Absent
<1>0. rows[t][0] \in Row /\ PlainRow(rows[t][0])
  BY HereGives
<1>1. RowStep(t)
  BY RowSteps
<1>2. /\ Absent \notin Heard /\ Absent # "WAITING" /\ Absent # "PROCESSING"
      /\ GroupFinished \cap (Open \cup {Absent, "WAITING"}) = {}
  BY DEF Heard, TaskGroupStatuses, Prerunning, InQueue, Prescheduling, Finished, GroupFinished,
         FailedStatuses, Absent, Open
<1>3. CASE \E s \in Heard \ {"RESCHEDULED"} : rows'[t][0] = UpdateTaskRow(rows[t][0], s)
  BY <1>0, <1>2, <1>3, RowTakes DEF Over
<1>4. CASE /\ rows[t][0].status \in {Absent, "WAITING"}
           /\ rows'[t][0].status \in {"WAITING", "PROCESSING"}
           /\ rows'[t][0].stamps = rows[t][0].stamps
  BY <1>0, <1>2, <1>4 DEF Over, PlainRow
<1>5. QED
  BY <1>0, <1>1, <1>3, <1>4 DEF RowStep, Over
-----------------------------------------------------------------------------
(***************************************************************************)
(* What a step does to the row of a group.                                 *)
(***************************************************************************)
CleanedNow(g) == agent.pc = "execute" /\ agent.job.type = "CleanupGroup" /\ agent.job.group = g

GroupStep(g) ==
  \/ grp'[g] = grp[g]
  \/ /\ grp[g].status \in Unstarted /\ grp'[g].status \in Launching
     /\ grp'[g].stamps \subseteq grp[g].stamps \cup {"processing"}
     /\ grp'[g].cleaned = grp[g].cleaned
  \/ \E w \in Workers : /\ Cancel(w) /\ worker[w].job.group = g
                        /\ grp'[g] = UpdateGroupRow(grp[g], worker[w].job.status, worker[w].job.force)
  \/ \E w \in Workers : /\ WriteGroup(w) /\ worker[w].job.group = g
                        /\ grp'[g] = UpdateGroupRow(grp[g], worker[w].new, FALSE)
  \/ CleanedNow(g) /\ grp'[g] = [grp[g] EXCEPT !.cleaned = TRUE]
  \/ \E h \in Groups : grp'[g] = [grp[g] EXCEPT !.remaining = @ \ {h}]

\* The same, with the statements that do it.
GroupAct(g) ==
  \/ grp'[g] = grp[g]
  \/ \E w \in Workers : /\ InsertGroups(w) /\ grp[g].status = Absent
                        /\ grp'[g] = [grp[g] EXCEPT !.status = "SUBMITTING", !.remaining = Upstream[g]]
  \/ \E w \in Workers : /\ MarkWaiting(w) /\ grp[g].status = "SUBMITTING"
                        /\ grp'[g] = [grp[g] EXCEPT !.status = "WAITING"]
  \/ \E w \in Workers : /\ SetGroups(w) /\ g \in worker[w].ready /\ Eligible(g)
                        /\ grp'[g] = [grp[g] EXCEPT !.status = "PROCESSING",
                                                   !.stamps = @ \cup {"processing"}]
  \/ \E w \in Workers : /\ Cancel(w) /\ worker[w].job.group = g
                        /\ grp'[g] = UpdateGroupRow(grp[g], worker[w].job.status, worker[w].job.force)
  \/ \E w \in Workers : /\ WriteGroup(w) /\ worker[w].job.group = g
                        /\ grp'[g] = UpdateGroupRow(grp[g], worker[w].new, FALSE)
  \/ CleanedNow(g) /\ grp'[g] = [grp[g] EXCEPT !.cleaned = TRUE]
  \/ \E w \in Workers : /\ ReleaseDownstream(w) /\ worker[w].job.group \in Groups
                        /\ grp'[g] = [grp[g] EXCEPT !.remaining = @ \ {worker[w].job.group}]

\* What the UPDATE of a group row does.
LEMMA GroupTakes ==
  ASSUME NEW row \in GroupRow, "end" \in row.stamps => row.status \in GroupFinished,
         row.status # "RESCHEDULED", NEW s \in Heard \ {"RESCHEDULED"}, NEW force
  PROVE  LET new == UpdateGroupRow(row, s, force) IN
         /\ "end" \in new.stamps => new.status \in GroupFinished
         /\ new.status = row.status \/ (new.status = s /\ row.status \notin GroupFinished)
         /\ new.cleaned = row.cleaned /\ new.remaining = row.remaining
         /\ row.status # Absent /\ s \in GroupFinished
              /\ (s \notin Canceled \/ force \/ row.status # "PROCESSING")
              => new.status \in GroupFinished
         /\ row.status # Absent /\ s \in Canceled => new.status \notin Unstarted
<1> DEFINE new == UpdateGroupRow(row, s, force)
<1>1. /\ GroupSources(s, force) \cap GroupFinished = {}
      /\ s \in GroupFinished =>
           {"SUBMITTING", "WAITING", "SCHEDULING", "INITIALIZING", "RUNNING"} \subseteq GroupSources(s, force)
      /\ s \in GroupFinished /\ (s \notin Canceled \/ force) => "PROCESSING" \in GroupSources(s, force)
      /\ Canceled \subseteq GroupFinished
  BY DEF GroupSources, Prerunning, InQueue, Prescheduling, GroupFinished, FailedStatuses, Canceled
<1>2. s \notin GroupFinished => StampOf(s) # "end"
  BY Apart DEF StampOf
<1>3. s \in GroupFinished => StampOf(s) = "end" /\ s \notin Unstarted
  BY Apart DEF StampOf, GroupFinished, FailedStatuses
<1>4. row.status \in {Absent, "SUBMITTING", "WAITING", "PROCESSING", "SCHEDULING", "INITIALIZING",
                      "RUNNING"} \cup GroupFinished
  BY DEF GroupRow, GroupStatus, TaskGroupStatuses, Prerunning, InQueue, Prescheduling, Finished
<1>5. CASE row.status \in GroupSources(s, force) /\ StampOf(s) \notin row.stamps
  <2>1. new = [row EXCEPT !.status = s, !.stamps = @ \cup {StampOf(s)}]
    BY <1>5 DEF UpdateGroupRow, Enter
  <2>2. /\ new.status = s /\ new.stamps = row.stamps \cup {StampOf(s)}
        /\ new.cleaned = row.cleaned /\ new.remaining = row.remaining
    BY <2>1 DEF GroupRow
  <2>3. row.status \notin GroupFinished
    BY <1>1, <1>5
  <2>4. "end" \in new.stamps => new.status \in GroupFinished
    BY <1>2, <2>2, <2>3
  <2>5. QED
    BY <1>1, <1>3, <2>2, <2>3, <2>4
<1>6. CASE ~(row.status \in GroupSources(s, force) /\ StampOf(s) \notin row.stamps)
  <2>1. new = row
    BY <1>6 DEF UpdateGroupRow, Enter
  <2>2. s \in GroupFinished /\ row.status \in {"SUBMITTING", "WAITING", "SCHEDULING", "INITIALIZING",
                                               "RUNNING"} => FALSE
    BY <1>1, <1>3, <1>6, Apart DEF Prerunning, InQueue, Prescheduling
  <2>3. /\ row.status = "PROCESSING" /\ s \in GroupFinished /\ (s \notin Canceled \/ force) => FALSE
    BY <1>1, <1>3, <1>6, Apart DEF Prerunning, InQueue, Prescheduling
  <2>4. GroupFinished \cap Unstarted = {} /\ "PROCESSING" \notin Unstarted
    BY Apart DEF Unstarted, Absent
  <2>5. QED
    BY <1>1, <1>4, <2>1, <2>2, <2>3, <2>4
<1>7. QED
  BY <1>5, <1>6

\* Every step.
LEMMA GroupActs ==
  ASSUME Here, [Next]_vars, NEW g \in Groups
  PROVE  GroupAct(g)
<1> USE DEF db
<1>0. /\ worker \in [Workers -> Worker] /\ grp \in [Groups -> GroupRow] /\ grp[g] \in GroupRow
      /\ Shape /\ backendUp
      /\ PlainJob(agent.job) /\ (agent.pc # "idle" => agent.job.type \in BackendTypes)
  BY HereGives DEF Here, Orderly, PlainJobs, Known, Sound
<1>1. CASE grp' = grp
  BY <1>1 DEF GroupAct
<1>2. ASSUME NEW w \in Workers, SetGroups(w) PROVE GroupAct(g)
  <2>1. grp'[g] = IF g \in {h \in worker[w].ready : Eligible(h)}
                  THEN [grp[g] EXCEPT !.status = "PROCESSING", !.stamps = @ \cup {"processing"}]
                  ELSE grp[g]
    BY <1>2, Zenon DEF SetGroups
  <2>2. CASE g \in worker[w].ready /\ Eligible(g)
    BY <1>2, <2>1, <2>2 DEF GroupAct
  <2>3. CASE ~(g \in worker[w].ready /\ Eligible(g))
    BY <2>1, <2>3 DEF GroupAct
  <2>4. QED
    BY <2>2, <2>3
<1>3. ASSUME NEW w \in Workers, InsertGroups(w) \/ MarkWaiting(w) PROVE GroupAct(g)
  <2>1. CASE InsertGroups(w)
    <3>1. \/ grp'[g] = grp[g]
          \/ /\ grp[g].status = Absent
             /\ grp'[g] = [grp[g] EXCEPT !.status = "SUBMITTING", !.remaining = Upstream[g]]
      <4>1. grp'[g] = IF grp[g].status = Absent
                      THEN [grp[g] EXCEPT !.status = "SUBMITTING", !.remaining = Upstream[g]]
                      ELSE grp[g]
        BY <1>0, <2>1, Zenon DEF InsertGroups
      <4>2. QED
        BY <4>1
    <3>2. QED
      BY <2>1, <3>1 DEF GroupAct
  <2>2. CASE MarkWaiting(w)
    <3>1. \/ grp'[g] = grp[g]
          \/ grp[g].status = "SUBMITTING" /\ grp'[g] = [grp[g] EXCEPT !.status = "WAITING"]
      BY <1>0, <2>2 DEF MarkWaiting
    <3>2. QED
      BY <2>2, <3>1 DEF GroupAct
  <2>3. QED
    BY <1>3, <2>1, <2>2
<1>4. ASSUME NEW w \in Workers, Cancel(w) PROVE GroupAct(g)
  <2>1. \/ grp'[g] = grp[g]
        \/ /\ g = worker[w].job.group
           /\ grp'[g] = UpdateGroupRow(grp[g], worker[w].job.status, worker[w].job.force)
    BY <1>0, <1>4 DEF Cancel
  <2>2. QED
    BY <1>4, <2>1 DEF GroupAct
<1>5. ASSUME NEW w \in Workers, WriteGroup(w) PROVE GroupAct(g)
  <2>1. \/ grp'[g] = grp[g]
        \/ /\ g = worker[w].job.group
           /\ grp'[g] = UpdateGroupRow(grp[g], worker[w].new, FALSE)
    BY <1>0, <1>5 DEF WriteGroup
  <2>2. QED
    BY <1>5, <2>1 DEF GroupAct
<1>6. ASSUME NEW w \in Workers, ReleaseDownstream(w) PROVE GroupAct(g)
  <2>1. PICK d \in worker[w].todo :
          grp' = [grp EXCEPT ![d].remaining = grp[d].remaining \ {worker[w].job.group}]
    BY <1>6 DEF ReleaseDownstream
  <2>2. worker[w].pc = "downstream" /\ worker[w].job.group \in Groups
    BY <1>6, HereGives DEF ReleaseDownstream, At, SoundWorker
  <2>3. \/ grp'[g] = grp[g]
        \/ grp'[g] = [grp[g] EXCEPT !.remaining = @ \ {worker[w].job.group}]
    BY <1>0, <2>1
  <2>4. QED
    BY <1>6, <2>2, <2>3 DEF GroupAct
<1>7. CASE Execute
  <2>1. \/ grp' = grp
        \/ agent.pc = "execute" /\ agent.job.type = "CleanupGroup"
           /\ grp' = [grp EXCEPT ![agent.job.group].cleaned = TRUE]
    BY <1>7 DEF Execute, PatchCleanedUp
  <2>2. \/ grp'[g] = grp[g]
        \/ CleanedNow(g) /\ grp'[g] = [grp[g] EXCEPT !.cleaned = TRUE]
    BY <1>0, <2>1 DEF CleanedNow
  <2>3. QED
    BY <2>2 DEF GroupAct
<1>8. CASE \E w \in Workers : WorkerStep(w) \/ Crash(w)
  <2>1. PICK w \in Workers : WorkerStep(w) \/ Crash(w)
    BY <1>8
  <2>2. CASE Submit(w) \/ Process(w)
    BY <1>1, <1>2, <1>3, <2>2 DEF Submit, Process, InsertWorkflow, CheckWaiting, SetTasks,
                                  LaunchDownstream, SendCreate
  <2>3. FailWithoutBackend(w) \/ Finish(w) => grp' = grp
    BY <1>0, BackendIsFound DEF FailWithoutBackend, WithoutBackend, Finish, CleanedGroups
  <2>4. CASE \/ FetchCancel(w) \/ Recheck(w) \/ UpdateWholeGroup(w) \/ UpdateNoTask(w)
             \/ CheckStartTimeout(w)
    BY <1>1, <2>4 DEF FetchCancel, Recheck, UpdateWholeGroup, UpdateNoTask, CheckStartTimeout
  <2>5. CASE \/ EndLateStart(w) \/ UpdateTaskStatus(w) \/ Reread(w) \/ UpdateSiblings(w)
             \/ InsertRetry(w) \/ SendRetry(w)
    BY <1>1, <2>5 DEF EndLateStart, UpdateTaskStatus, UpdateTaskRowOf, Reread, UpdateSiblings,
                      InsertRetry, SendRetry
  <2>6. Aggregate(w) \/ ReadGroups(w) \/ WriteWorkflow(w) => grp' = grp
    BY DEF Aggregate, ReadGroups, WriteWorkflow
  <2>7. CASE Other(w) \/ Crash(w)
    BY <1>1, <2>7 DEF Other, CancelWorkflow, CheckQueueTimeout, CheckRunTimeout, CleanupWorkflow,
                      Crash
  <2>8. QED
    BY <1>1, <1>4, <1>5, <1>6, <2>1, <2>2, <2>3, <2>4, <2>5, <2>6, <2>7 DEF WorkerStep, Update
<1>9. CASE ~\E w \in Workers : WorkerStep(w) \/ Crash(w)
  <2>1. Execute \/ grp' = grp
    BY <1>9 DEF Next, AgentStep, PrepareCreateGroup, PrepareCleanupGroup, PrepareRescheduleTask, Apply,
                Refuse, Disconnect, PodMoves, PodEnds, AskCancel, DeleteBackend, vars
  <2>2. QED
    BY <1>1, <1>7, <2>1
<1>10. QED
  BY <1>8, <1>9

LEMMA GroupSteps ==
  ASSUME Here, [Next]_vars, NEW g \in Groups
  PROVE  GroupStep(g)
<1>1. grp \in [Groups -> GroupRow] /\ grp[g] \in GroupRow /\ GroupAct(g)
  BY HereGives, GroupActs
<1>2. CASE \/ grp'[g] = [grp[g] EXCEPT !.status = "SUBMITTING", !.remaining = Upstream[g]]
           \/ grp'[g] = [grp[g] EXCEPT !.status = "WAITING"]
           \/ grp'[g] = [grp[g] EXCEPT !.status = "PROCESSING", !.stamps = @ \cup {"processing"}]
  <2>1. /\ grp'[g].status \in Launching /\ grp'[g].cleaned = grp[g].cleaned
        /\ grp'[g].stamps \subseteq grp[g].stamps \cup {"processing"}
    BY <1>1, <1>2 DEF GroupRow, Launching
  <2>2. CASE grp[g].status \in Unstarted
    BY <2>1, <2>2 DEF GroupStep
  <2>3. CASE grp[g].status \notin Unstarted
    BY <1>1, <2>3 DEF GroupAct, GroupStep, Eligible, Unstarted
  <2>4. QED
    BY <2>2, <2>3
<1>3. ASSUME NEW w \in Workers, Cancel(w) \/ WriteGroup(w), worker[w].job.group = g,
             \/ Cancel(w) /\ grp'[g] = UpdateGroupRow(grp[g], worker[w].job.status, worker[w].job.force)
             \/ WriteGroup(w) /\ grp'[g] = UpdateGroupRow(grp[g], worker[w].new, FALSE)
      PROVE  GroupStep(g)
  BY <1>3 DEF GroupStep
<1>4. ASSUME NEW w \in Workers, worker[w].job.group \in Groups,
             grp'[g] = [grp[g] EXCEPT !.remaining = @ \ {worker[w].job.group}]
      PROVE  GroupStep(g)
  BY <1>4 DEF GroupStep
<1>5. CASE grp'[g] = grp[g] \/ (CleanedNow(g) /\ grp'[g] = [grp[g] EXCEPT !.cleaned = TRUE])
  BY <1>5 DEF GroupStep
<1>6. QED
  BY <1>1, <1>2, <1>3, <1>4, <1>5 DEF GroupAct

\* What the workers are about to write.
LEMMA WritesHeard ==
  ASSUME Here, NEW w \in Workers
  PROVE  /\ At(w, "cancel") => worker[w].job.status \in Canceled /\ Canceled \subseteq Heard \ {"RESCHEDULED"}
         /\ At(w, "writeGroup") => worker[w].new \in Heard \ {"RESCHEDULED"}
<1>1. SoundWorker(worker[w]) /\ HeardWorker(worker[w]) /\ PlainWorker(worker[w])
  BY HereGives DEF Here, Known, Ends
<1>2. Canceled \subseteq Heard \ {"RESCHEDULED"}
  BY Apart
<1>3. QED
  BY <1>1, <1>2 DEF SoundWorker, HeardWorker, PlainWorker, At

\* A group that is closed stays so; one that has started does not wait again.
LEMMA GroupsKeep ==
  ASSUME Here, [Next]_vars, NEW g \in Groups
  PROVE  /\ "end" \in grp'[g].stamps => Closed(g)'
         /\ Closed(g) => Closed(g)'
         /\ grp[g].status \notin Unstarted => grp'[g].status \notin Unstarted
         /\ grp[g].status \notin Unstarted \cup {"PROCESSING"}
              => grp'[g].status \notin Unstarted \cup {"PROCESSING"}
         /\ grp[g].status # Absent => grp'[g].status # Absent
<1>0. /\ grp[g] \in GroupRow /\ Shape /\ Sound /\ Hearsay /\ grp[g].status # "RESCHEDULED"
      /\ "end" \in grp[g].stamps => Closed(g)
  BY HereGives DEF Here, Known, Ends, PlainGroups, Orderly, PlainData
<1>1. grp[g].status \notin Unstarted => grp'[g].status \notin Unstarted
  BY <1>0, NeverBack
<1>2. /\ GroupFinished \cap (Unstarted \cup {"PROCESSING"}) = {} /\ "PROCESSING" \notin Heard
      /\ "end" # "processing" /\ Absent \in Unstarted
  BY Apart DEF Heard, Prescheduling, Unstarted, Absent, Prerunning, InQueue
<1>3. GroupStep(g)
  BY GroupSteps
<1>4. ASSUME NEW s \in Heard \ {"RESCHEDULED"}, NEW force, grp'[g] = UpdateGroupRow(grp[g], s, force)
      PROVE  /\ "end" \in grp'[g].stamps => Closed(g)'
             /\ Closed(g) => Closed(g)'
             /\ grp'[g].status = "PROCESSING" => grp[g].status = "PROCESSING"
  BY <1>0, <1>2, <1>4, GroupTakes DEF Closed
<1>5. CASE \/ \E w \in Workers : /\ Cancel(w) /\ worker[w].job.group = g
                        /\ grp'[g] = UpdateGroupRow(grp[g], worker[w].job.status, worker[w].job.force)
           \/ \E w \in Workers : /\ WriteGroup(w) /\ worker[w].job.group = g
                        /\ grp'[g] = UpdateGroupRow(grp[g], worker[w].new, FALSE)
  BY <1>0, <1>1, <1>2, <1>4, <1>5, WritesHeard, GroupsStay DEF Cancel, WriteGroup
<1>6. CASE /\ grp[g].status \in Unstarted /\ grp'[g].status \in Launching
           /\ grp'[g].stamps \subseteq grp[g].stamps \cup {"processing"}
           /\ grp'[g].cleaned = grp[g].cleaned
  BY <1>0, <1>1, <1>2, <1>6, GroupsStay DEF Closed
<1>7. CASE \/ grp'[g] = grp[g]
           \/ CleanedNow(g) /\ grp'[g] = [grp[g] EXCEPT !.cleaned = TRUE]
           \/ \E h \in Groups : grp'[g] = [grp[g] EXCEPT !.remaining = @ \ {h}]
  <2>1. grp'[g].status = grp[g].status /\ grp'[g].stamps = grp[g].stamps
    BY <1>0, <1>7 DEF GroupRow
  <2>2. QED
    BY <1>0, <2>1 DEF Closed
<1>8. QED
  BY <1>3, <1>5, <1>6, <1>7 DEF GroupStep
-----------------------------------------------------------------------------
(***************************************************************************)
(* The data stays plain, and what a worker that ends something has done    *)
(* stays done.                                                             *)
(***************************************************************************)

\* What a step does to a pod.
PodStep(t) ==
  \/ pod'[t] = pod[t]
  \/ pod'[t].retry = 0 /\ Apply /\ agent.job.group = GroupOf[t]
     /\ \/ agent.job.type = "CreateGroup" /\ pod[t].phase = "none" /\ pod'[t].phase = "created"
        \/ agent.job.type = "CleanupGroup" /\ pod'[t].phase = "none"
  \/ pod'[t].retry = 0 /\ Refuse /\ agent.job.group = GroupOf[t] /\ agent.job.type = "CreateGroup"
     /\ pod[t].phase = "none" /\ pod'[t].phase = "created"
  \/ pod'[t].retry = 0 /\ pod[t].phase # "none" /\ PodMoves(t) /\ pod'[t].phase \in Reports
  \/ pod'[t].retry = 0 /\ pod[t].phase # "none" /\ PodEnds(t) /\ pod'[t].phase = "ended"

\* How a step may change a pod.
LEMMA PodSteps ==
  ASSUME Here, [Next]_vars, NEW t \in Tasks
  PROVE  PodStep(t)
<1> USE DEF cluster
<1>0. /\ pod \in [Tasks -> [retry : Nat, phase : DOMAIN Phase]] /\ MaxRetry = 0
      /\ \A u \in Tasks : pod[u].retry = 0
      /\ PlainJob(agent.job) /\ (agent.pc # "idle" => agent.job.type \in BackendTypes)
      /\ pod[t] \in [retry : Nat, phase : DOMAIN Phase]
  BY DEF Here, Known, Shape, ClusterShape, Sound, Orderly, PlainData, PlainJobs
<1>1. CASE Apply
  <2>1. agent.job.type \in {"CreateGroup", "CleanupGroup"} /\ agent.job.task = None
    BY <1>0, <1>1 DEF Apply, BackendTypes, PlainJob
  <2>2. \/ pod'[t] = pod[t]
        \/ /\ GroupOf[t] = agent.job.group
           /\ \/ agent.job.type = "CreateGroup" /\ pod[t].phase = "none" /\ pod'[t] = Pod(Latest(t))
              \/ agent.job.type = "CleanupGroup" /\ pod'[t] = NoPod
    BY <1>1, <2>1 DEF Apply
  <2>3. Latest(t) = 0
    BY <1>0, OneRow
  <2>4. QED
    BY <1>1, <2>2, <2>3 DEF PodStep, Pod, NoPod
<1>2. CASE Refuse
  <2>1. agent.job.type \in {"CreateGroup", "CleanupGroup"} /\ agent.job.task = None
    BY <1>0, <1>2 DEF Refuse, BackendTypes, PlainJob
  <2>2. \/ pod' = pod
        \/ /\ agent.job.type = "CreateGroup"
           /\ \E T \in SUBSET TasksOf(agent.job.group) :
               pod' = [u \in Tasks |-> IF u \in T /\ pod[u].phase = "none"
                                       THEN Pod(Latest(u)) ELSE pod[u]]
    BY <1>2, <2>1 DEF Refuse
  <2>3. \/ pod'[t] = pod[t]
        \/ /\ agent.job.type = "CreateGroup" /\ GroupOf[t] = agent.job.group
           /\ pod[t].phase = "none" /\ pod'[t] = Pod(Latest(t))
    BY <2>2 DEF TasksOf
  <2>4. Latest(t) = 0
    BY <1>0, OneRow
  <2>5. QED
    BY <1>2, <2>3, <2>4 DEF PodStep, Pod
<1>3. ASSUME NEW u \in Tasks, PodMoves(u) PROVE PodStep(t)
  <2>1. PICK s \in Reports : pod[u].phase \notin {"none", "ended"} /\ pod' = [pod EXCEPT ![u].phase = s]
    BY <1>3 DEF PodMoves
  <2>2. CASE t = u
    <3>1. pod'[t].phase = s /\ pod'[t].retry = 0
      BY <1>0, <2>1, <2>2
    <3>2. QED
      BY <1>3, <2>1, <2>2, <3>1 DEF PodStep
  <2>3. CASE t # u
    BY <1>0, <2>1, <2>3 DEF PodStep
  <2>4. QED
    BY <2>2, <2>3
<1>4. ASSUME NEW u \in Tasks, PodEnds(u) PROVE PodStep(t)
  <2>1. pod[u].phase \notin {"none", "ended"} /\ pod' = [pod EXCEPT ![u].phase = "ended"]
    BY <1>4 DEF PodEnds
  <2>2. CASE t = u
    <3>1. pod'[t].phase = "ended" /\ pod'[t].retry = 0
      BY <1>0, <2>1, <2>2
    <3>2. QED
      BY <1>4, <2>1, <2>2, <3>1 DEF PodStep
  <2>3. CASE t # u
    BY <1>0, <2>1, <2>3 DEF PodStep
  <2>4. QED
    BY <2>2, <2>3
<1>5. CASE \E w \in Workers : WorkerStep(w) \/ Crash(w)
  BY <1>5, WorkersOnly DEF PodStep
<1>6. CASE \/ PrepareCreateGroup \/ PrepareCleanupGroup \/ PrepareRescheduleTask \/ Execute \/ Disconnect
           \/ \E force \in CancelForms : AskCancel(force)
           \/ DeleteBackend \/ UNCHANGED vars
  BY <1>6 DEF PrepareCreateGroup, PrepareCleanupGroup, PrepareRescheduleTask, Execute, Disconnect,
              AskCancel, DeleteBackend, vars, PodStep
<1>7. QED
  BY <1>1, <1>2, <1>3, <1>4, <1>5, <1>6 DEF Next, AgentStep

\* The rows and the pods stay plain.
LEMMA PlainDataStays ==
  ASSUME Here, [Next]_vars
  PROVE  PlainData'
<1>1. \A t \in Tasks : PlainRow(rows'[t][0])
  BY RowsKeep
<1>2. \A t \in Tasks : pod'[t].retry = 0
  BY PodSteps DEF PodStep, Here, Orderly, PlainData
<1>3. \A g \in Groups : "end" \in grp'[g].stamps => Closed(g)'
  BY GroupsKeep
<1>4. ASSUME NEW t \in Tasks, grp'[GroupOf[t]].status # Absent PROVE rows'[t][0].status # Absent
  <2>1. GroupOf[t] \in Groups
    BY WorkflowAssumption
  <2>2. CASE rows[t][0].status # Absent
    BY <2>2, RowsKeep
  <2>3. CASE rows[t][0].status = Absent
    <3>1. grp[GroupOf[t]].status = Absent
      BY <2>3 DEF Here, Orderly, PlainData
    <3>2. PICK w \in Workers : InsertGroups(w)
      BY <1>4, <2>1, <3>1, InsertedOnce DEF Here, Known
    <3>3. rows' = [u \in Tasks |-> IF rows[u][0].status = Absent
                                   THEN [rows[u] EXCEPT ![0].status = "WAITING"] ELSE rows[u]]
      BY <3>2 DEF InsertGroups
    <3>4. rows'[t][0] = [rows[t][0] EXCEPT !.status = "WAITING"]
      BY <2>3, <3>3, HereGives
    <3>5. rows'[t][0].status = "WAITING"
      BY <3>4, HereGives DEF Row
    <3>6. QED
      BY <3>5 DEF Absent
  <2>4. QED
    BY <2>2, <2>3
<1>5. QED
  BY <1>1, <1>2, <1>3, <1>4 DEF PlainData

\* A worker that does not move.
LEMMA EndingHolds ==
  ASSUME Here, [Next]_vars, NEW v \in Workers, worker'[v] = worker[v]
  PROVE  Ending(worker[v])'
<1> DEFINE x == worker[v]
           g == x.job.group
<1>0. /\ Ending(x) /\ PlainWorker1(x) /\ PlainJob(x.job) /\ HeardJob(x.job) /\ x.job \in Job
      /\ MaxRetry = 0
  BY HereGives
<1>1. x.pc \in Updating \cup {"recheck"} => g \in Groups /\ x.job.type = "UpdateGroup"
  BY <1>0 DEF PlainWorker1, PlainJob
<1>2. g \in Groups => /\ Closed(g) => Closed(g)'
                      /\ grp[g].status \notin Unstarted => grp'[g].status \notin Unstarted
                      /\ grp[g].status \notin Unstarted \cup {"PROCESSING"}
                           => grp'[g].status \notin Unstarted \cup {"PROCESSING"}
  BY GroupsKeep
<1>3. AllOver(g) => AllOver(g)'
  BY RowsKeep DEF AllOver, TasksOf
<1>4. ASSUME x.pc = "siblings" PROVE rows'[x.job.task][0].status = x.eff
  <2>1. /\ Clean(x) /\ rows[x.job.task][0].status = x.eff /\ x.job.task \in Tasks
        /\ x.eff = Eff(x.job) /\ x.job.type = "UpdateGroup"
    BY <1>0, <1>4 DEF Ending, PlainWorker1, Updating, Job
  <2>2. x.eff \in GroupFinished
    BY <1>0, <2>1, EffIs DEF Clean
  <2>3. QED
    BY <2>1, <2>2, RowsKeep DEF Over
<1>5. Ending(x) <=>
        /\ x.pc = "recheck" => grp[g].status \notin Unstarted
        /\ x.pc = "siblings" => Clean(x) /\ rows[x.job.task][0].status = x.eff
        /\ x.pc = "aggregate" /\ Clean(x) => AllOver(g)
        /\ x.pc = "writeGroup" /\ Clean(x) => x.new \in GroupFinished
        /\ x.pc = "writeGroup" /\ x.new \in GroupFinished => AllOver(g)
        /\ x.pc = "writeGroup" /\ x.new \in Canceled =>
             grp[g].status \notin Unstarted \cup {"PROCESSING"}
        /\ x.pc \in {"readGroups", "writeWorkflow", "finish"} /\ Clean(x) => Closed(g)
  BY DEF Ending
<1>6. Ending(x)' <=>
        /\ x.pc = "recheck" => grp'[g].status \notin Unstarted
        /\ x.pc = "siblings" => Clean(x) /\ rows'[x.job.task][0].status = x.eff
        /\ x.pc = "aggregate" /\ Clean(x) => AllOver(g)'
        /\ x.pc = "writeGroup" /\ Clean(x) => x.new \in GroupFinished
        /\ x.pc = "writeGroup" /\ x.new \in GroupFinished => AllOver(g)'
        /\ x.pc = "writeGroup" /\ x.new \in Canceled =>
             grp'[g].status \notin Unstarted \cup {"PROCESSING"}
        /\ x.pc \in {"readGroups", "writeWorkflow", "finish"} /\ Clean(x) => Closed(g)'
  BY DEF Ending, Clean, Cleans, Closed, AllOver, TasksOf, Over
<1>7. QED
  BY <1>0, <1>1, <1>2, <1>3, <1>4, <1>5, <1>6 DEF Updating
-----------------------------------------------------------------------------
(***************************************************************************)
(* A worker that moves.                                                    *)
(***************************************************************************)
Quietly == {"idle", "insertGroups", "markWaiting", "checkWaiting", "setGroups", "setTasks", "sendCreate",
            "cancel", "startTimeout", "reread", "downstream"}

\* Where nothing has to be done yet.
LEMMA NothingEnds ==
  ASSUME NEW w \in Workers, worker'[w].pc \in Quietly
  PROVE  Ending(worker[w])'
  BY DEF Ending, Quietly

\* A submission, and a job that launches groups, leave a plain worker.
LEMMA SubmitMoves ==
  ASSUME Here, NEW w \in Workers, Submit(w) \/ Process(w)
  PROVE  PlainWorker1(worker'[w]) /\ Ending(worker[w])'
<1> DEFINE x == worker[w]
           y == worker'[w]
<1>0. /\ worker \in [Workers -> Worker] /\ x \in Worker /\ PlainWorker1(x) /\ Shape /\ backendUp
      /\ \A j \in queue : PlainJob(j)
  BY HereGives
<1>1. PlainJob(NoJob)
  BY Fields DEF PlainJob
<1>2. CASE InsertWorkflow(w)
  <2>1. PICK j \in queue : j.type = "SubmitWorkflow" /\ Start(w, j, "insertGroups", Absent)
    BY <1>2 DEF InsertWorkflow
  <2>2. y.pc = "insertGroups" /\ y.job = j
    BY <1>0, <2>1, StartGives
  <2>3. QED
    BY <1>0, <2>1, <2>2, NothingEnds DEF PlainWorker1, Updating, Quietly
<1>3. ASSUME y.pc \in {"markWaiting", "checkWaiting", "setTasks", "sendCreate"}, y.job = x.job,
             x.pc # "idle"
      PROVE  PlainWorker1(y) /\ Ending(x)'
  BY <1>0, <1>3, NothingEnds DEF PlainWorker1, Updating, Quietly
<1>4. ASSUME Done(w) PROVE PlainWorker1(y) /\ Ending(x)'
  <2>1. y.pc = "idle" /\ y.job = NoJob
    BY <1>0, <1>4, DoneGives
  <2>2. QED
    BY <1>1, <2>1, NothingEnds DEF PlainWorker1, Updating, Quietly
<1>5. CASE InsertGroups(w) \/ SetTasks(w)
  <2>1. x.pc # "idle" /\ (Goto(w, "markWaiting") \/ Goto(w, "sendCreate"))
    BY <1>5 DEF InsertGroups, SetTasks, At
  <2>2. y.pc \in {"markWaiting", "sendCreate"} /\ y.job = x.job
    BY <1>0, <2>1, GotoGives
  <2>3. QED
    BY <1>3, <2>1, <2>2
<1>6. CASE MarkWaiting(w)
  <2>1. /\ x.pc = "markWaiting"
        /\ \E R : worker' = [worker EXCEPT ![w].pc = "checkWaiting", ![w].ready = R]
    BY <1>6 DEF MarkWaiting, At
  <2>2. y.pc = "checkWaiting" /\ y.job = x.job
    BY <1>0, <2>1 DEF Worker
  <2>3. QED
    BY <1>3, <2>1, <2>2
<1>7. CASE CheckWaiting(w) \/ LaunchDownstream(w)
  <2>1. x.pc # "idle" /\ (Done(w) \/ SetGroups(w))
    BY <1>0, <1>7 DEF CheckWaiting, LaunchDownstream, At
  <2>2. Done(w) \/ (y.pc = "setTasks" /\ y.job = x.job)
    BY <1>0, <2>1, SetGives
  <2>3. QED
    BY <1>3, <1>4, <2>1, <2>2
<1>8. CASE SendCreate(w)
  <2>1. /\ x.pc = "sendCreate"
        /\ Done(w) \/ \E T : worker' = [worker EXCEPT ![w].todo = T]
    BY <1>8 DEF SendCreate, At
  <2>2. Done(w) \/ (y.pc = "sendCreate" /\ y.job = x.job)
    BY <1>0, <2>1 DEF Worker
  <2>3. QED
    BY <1>3, <1>4, <2>1, <2>2
<1>9. QED
  BY <1>2, <1>5, <1>6, <1>7, <1>8 DEF Submit, Process

\* The workflow row does not matter to a cancel: the group is there.
LEMMA UpdatedGroupIsThere ==
  ASSUME Here, NEW w \in Workers, worker[w].pc \in Updating \cup {"cancel", "recheck"}
  PROVE  worker[w].job.group \in Groups /\ grp[worker[w].job.group].status # Absent
<1>1. worker[w].job.group \in Groups
  BY HereGives DEF PlainWorker1, PlainJob
<1>2. ~Unsubmitted
  BY DEF Unsubmitted, Updating
<1>3. QED
  BY <1>1, <1>2 DEF Here, Known, Sound, Submitted

\* The rows of a group that a batch update ends.
LEMMA BatchEnds ==
  ASSUME Here, NEW g \in Groups, grp[g].status # Absent,
         NEW s \in GroupFinished \ {"FAILED_START_TIMEOUT"}, NEW x,
         rows' = BatchUpdate(g, s, x), x \in Tasks => Over(x)
  PROVE  AllOver(g)'
<1>1. ASSUME NEW t \in Tasks, GroupOf[t] = g PROVE rows'[t][0].status \in GroupFinished
  <2>1. rows[t][0] \in Row /\ PlainRow(rows[t][0]) /\ rows[t][0].status # Absent
    BY <1>1, HereGives DEF Here, Orderly, PlainData
  <2>2. s \in Heard \ {"RESCHEDULED"}
    BY Apart
  <2>3. rows'[t][0] = IF t # x THEN UpdateTaskRow(rows[t][0], s) ELSE rows[t][0]
    BY <1>1, HereGives, BatchGives
  <2>4. QED
    BY <2>1, <2>2, <2>3, RowTakes DEF Over
<1>2. QED
  BY <1>1 DEF AllOver, TasksOf, Over

\* So do a cancel and an update of the whole group.
LEMMA CancelMoves ==
  ASSUME Here, NEW w \in Workers,
         FetchCancel(w) \/ Cancel(w) \/ Recheck(w) \/ UpdateWholeGroup(w) \/ UpdateNoTask(w)
  PROVE  PlainWorker1(worker'[w]) /\ Ending(worker[w])'
<1> USE DEF db
<1> DEFINE x == worker[w]
           y == worker'[w]
           g == x.job.group
<1>0. /\ worker \in [Workers -> Worker] /\ x \in Worker /\ PlainWorker1(x) /\ Shape /\ backendUp
      /\ \A j \in queue : PlainJob(j) /\ HeardJob(j) /\ j \in Job
      /\ PlainJob(x.job) /\ HeardJob(x.job) /\ x.job \in Job /\ Ending(x)
      /\ grp \in [Groups -> GroupRow]
  BY HereGives
<1>1. PlainJob(NoJob)
  BY Fields DEF PlainJob
<1>2. CASE FetchCancel(w)
  <2>1. PICK j \in queue : /\ j.type = "UpdateGroup" /\ j.status \in Canceled
                           /\ Start(w, j, "cancel", j.status)
    BY <1>2 DEF FetchCancel
  <2>2. y.pc = "cancel" /\ y.job = j /\ y.eff = j.status
    BY <1>0, <2>1, StartGives
  <2>3. QED
    BY <1>0, <2>1, <2>2, NothingEnds DEF PlainWorker1, Updating, Quietly
<1>3. CASE Cancel(w)
  <2>1. /\ x.pc = "cancel" /\ Goto(w, "recheck")
        /\ grp' = [grp EXCEPT ![g] = UpdateGroupRow(@, x.job.status, x.job.force)]
    BY <1>3 DEF Cancel, At
  <2>2. y.pc = "recheck" /\ y.job = x.job /\ y.eff = x.eff
    BY <1>0, <2>1, GotoGives
  <2>3. g \in Groups /\ grp[g].status # Absent
    BY <2>1, UpdatedGroupIsThere
  <2>4. /\ grp[g] \in GroupRow /\ grp[g].status # "RESCHEDULED"
        /\ "end" \in grp[g].stamps => grp[g].status \in GroupFinished
    BY <2>3, HereGives DEF Here, Known, Ends, PlainGroups, Orderly, PlainData, Closed
  <2>5. x.job.status \in Canceled /\ x.job.status \in Heard \ {"RESCHEDULED"}
    BY <2>1, WritesHeard DEF At
  <2>6. grp'[g].status \notin Unstarted
    <3>1. grp'[g] = UpdateGroupRow(grp[g], x.job.status, x.job.force)
      BY <1>0, <2>1, <2>3
    <3>2. QED
      BY <2>3, <2>4, <2>5, <3>1, GroupTakes
  <2>7. PlainWorker1(y)
    BY <1>0, <2>1, <2>2 DEF PlainWorker1, Updating
  <2>8. QED
    BY <2>2, <2>6, <2>7 DEF Ending
<1>4. CASE Recheck(w)
  <2>1. CASE Done(w)
    <3>1. y.pc = "idle" /\ y.job = NoJob
      BY <1>0, <2>1, DoneGives
    <3>2. QED
      BY <1>1, <3>1, NothingEnds DEF PlainWorker1, Updating, Quietly
  <2>2. CASE ~Done(w)
    <3>1. /\ x.pc = "recheck" /\ rows' = BatchUpdate(g, x.job.status, None)
          /\ y = [x EXCEPT !.pc = "writeGroup", !.new = x.job.status]
          /\ grp' = grp /\ grp[g].status # "PROCESSING"
      BY <1>0, <1>4, <2>2 DEF Recheck, At
    <3>2. y.pc = "writeGroup" /\ y.job = x.job /\ y.eff = x.eff /\ y.new = x.job.status
      BY <1>0, <3>1 DEF Worker
    <3>3. /\ x.job.type = "UpdateGroup" /\ x.job.status \in Canceled /\ x.eff = x.job.status
          /\ grp[g].status \notin Unstarted
      BY <1>0, <3>1 DEF PlainWorker1, Ending
    <3>4. x.job.status \in GroupFinished \ {"FAILED_START_TIMEOUT"} /\ x.job.task = None
      BY <1>0, <3>3, Apart DEF PlainJob
    <3>5. AllOver(g)'
      <4>1. g \in Groups /\ grp[g].status # Absent
        BY <3>1, UpdatedGroupIsThere
      <4>2. None \notin Tasks
        BY WorkflowAssumption
      <4>3. QED
        BY <3>1, <3>4, <4>1, <4>2, BatchEnds
    <3>6. PlainWorker1(y)
      BY <1>0, <3>2, <3>3, <3>4 DEF PlainWorker1, Updating, Eff
    <3>7. QED
      BY <3>1, <3>2, <3>3, <3>4, <3>5, <3>6 DEF Ending, AllOver, TasksOf, Over
  <2>3. QED
    BY <2>1, <2>2
<1>5. CASE UpdateWholeGroup(w)
  <2>1. PICK j \in queue :
          /\ j.type = "UpdateGroup" /\ j.status \in WholeGroup
          /\ Start(w, j, "aggregate", j.status) /\ rows' = BatchUpdate(j.group, j.status, None)
    BY <1>5 DEF UpdateWholeGroup
  <2>2. y.pc = "aggregate" /\ y.job = j /\ y.eff = j.status
    BY <1>0, <2>1, StartGives
  <2>3. j.status \in GroupFinished \ {"FAILED_START_TIMEOUT"} /\ j.task = None /\ j.group \in Groups
    BY <1>0, <2>1, Apart DEF PlainJob
  <2>4. grp[j.group].status # Absent
    <3>1. ~Unsubmitted
      BY <2>1 DEF Unsubmitted
    <3>2. QED
      BY <2>3, <3>1 DEF Here, Known, Sound, Submitted
  <2>5. None \notin Tasks
    BY WorkflowAssumption
  <2>6. AllOver(j.group)'
    BY <2>1, <2>3, <2>4, <2>5, BatchEnds
  <2>7. PlainWorker1(y)
    BY <1>0, <2>1, <2>2, <2>3 DEF PlainWorker1, Updating, Eff
  <2>8. QED
    BY <2>2, <2>6, <2>7 DEF Ending, AllOver, TasksOf, Over
<1>6. CASE UpdateNoTask(w)
  BY <1>0, <1>6 DEF UpdateNoTask, PlainJob
<1>7. QED
  BY <1>2, <1>3, <1>4, <1>5, <1>6

\* So does the update of a task, up to that of its siblings.
LEMMA TaskMoves ==
  ASSUME Here, NEW w \in Workers,
         \/ CheckStartTimeout(w) \/ EndLateStart(w) \/ UpdateTaskStatus(w) \/ FailWithoutBackend(w)
         \/ Reread(w) \/ UpdateSiblings(w) \/ InsertRetry(w) \/ SendRetry(w)
  PROVE  PlainWorker1(worker'[w]) /\ Ending(worker[w])'
<1> USE DEF db
<1> DEFINE x == worker[w]
           y == worker'[w]
           g == x.job.group
<1>0. /\ worker \in [Workers -> Worker] /\ x \in Worker /\ PlainWorker1(x) /\ Shape /\ backendUp
      /\ \A j \in queue : PlainJob(j) /\ HeardJob(j) /\ j \in Job
      /\ PlainJob(x.job) /\ HeardJob(x.job) /\ x.job \in Job /\ Ending(x) /\ MaxRetry = 0
  BY HereGives
<1>1. PlainJob(NoJob)
  BY Fields DEF PlainJob
<1>2. CASE CheckStartTimeout(w)
  <2>1. PICK j \in queue : /\ j.type = "UpdateGroup" /\ j.task # None
                           /\ Start(w, j, "startTimeout", j.status) \/ UNCHANGED worker
    BY <1>2 DEF CheckStartTimeout, PerTask
  <2>2. CASE Start(w, j, "startTimeout", j.status)
    <3>1. y.pc = "startTimeout" /\ y.job = j /\ y.eff = j.status
      BY <1>0, <2>2, StartGives
    <3>2. QED
      BY <1>0, <2>1, <3>1, NothingEnds DEF PlainWorker1, Updating, Quietly
  <2>3. CASE UNCHANGED worker
    <3>1. y = x /\ x.pc = "idle"
      BY <1>2, <2>3 DEF CheckStartTimeout, Free
    <3>2. QED
      BY <1>0, <3>1, NothingEnds DEF Quietly
  <2>4. QED
    BY <2>1, <2>2, <2>3
<1>3. CASE EndLateStart(w) \/ UpdateTaskStatus(w)
  <2>1. PICK j \in Job : /\ j.type = "UpdateGroup" /\ PlainJob(j) /\ HeardJob(j) /\ j.task # None
                         /\ UpdateTaskRowOf(w, j)
    <3>1. CASE EndLateStart(w)
      BY <1>0, <1>3, <3>1 DEF EndLateStart, At, PlainWorker1, Updating
    <3>2. CASE UpdateTaskStatus(w)
      BY <1>0, <1>3, <3>2 DEF UpdateTaskStatus, PerTask
    <3>3. QED
      BY <1>3, <3>1, <3>2
  <2>2. y.pc = "reread" /\ y.job = j /\ y.eff = Eff(j)
    BY <2>1, TaskWritten
  <2>3. QED
    BY <2>1, <2>2, NothingEnds DEF PlainWorker1, Updating, Quietly
<1>4. CASE FailWithoutBackend(w) \/ InsertRetry(w) \/ SendRetry(w)
  BY <1>0, <1>4 DEF FailWithoutBackend, WithoutBackend, InsertRetry, SendRetry, PlainWorker1, At
<1>5. CASE Reread(w)
  <2>1. CASE Done(w)
    <3>1. y.pc = "idle" /\ y.job = NoJob
      BY <1>0, <2>1, DoneGives
    <3>2. QED
      BY <1>1, <3>1, NothingEnds DEF PlainWorker1, Updating, Quietly
  <2>2. CASE ~Done(w)
    <3>1. x.pc = "reread" /\ x.job.type = "UpdateGroup" /\ x.job.task # None /\ x.eff = Eff(x.job)
      BY <1>0, <1>5 DEF Reread, At, PlainWorker1, Updating
    <3>2. /\ x.eff # "RESCHEDULED"
          /\ Clean(x) <=> \/ x.eff \in Finished /\ IsLead(x.job.task)
                          \/ x.eff \in FailedStatuses /\ GroupOf[x.job.task] \notin IgnoreNonlead
      BY <1>0, <3>1, EffIs DEF Clean
    <3>3. x.job.task \in Tasks /\ x.job.retry = 0
      BY <1>0, <3>1 DEF Job, PlainJob
    <3>4. /\ rows[x.job.task][0].status = x.eff /\ UNCHANGED <<rows, grp>>
          /\ Goto(w, IF Clean(x) THEN "siblings" ELSE "aggregate")
      BY <1>5, <2>2, <3>2, <3>3 DEF Reread
    <3>5. /\ y.pc = IF Clean(x) THEN "siblings" ELSE "aggregate"
          /\ y.job = x.job /\ y.eff = x.eff
      BY <1>0, <3>4, GotoGives
    <3>6. PlainWorker1(y)
      BY <1>0, <3>1, <3>5 DEF PlainWorker1, Updating
    <3>7. QED
      BY <3>4, <3>5, <3>6 DEF Ending, Clean, Cleans
  <2>3. QED
    BY <2>1, <2>2
<1>6. CASE UpdateSiblings(w)
  <2> DEFINE s == IF x.eff \in FailedStatuses THEN "FAILED" ELSE x.eff
  <2>1. x.pc = "siblings" /\ Goto(w, "aggregate") /\ rows' = BatchUpdate(g, s, x.job.task)
    BY <1>6 DEF UpdateSiblings, At
  <2>2. y.pc = "aggregate" /\ y.job = x.job /\ y.eff = x.eff
    BY <1>0, <2>1, GotoGives
  <2>3. /\ Clean(x) /\ x.job.type = "UpdateGroup" /\ x.eff = Eff(x.job)
        /\ rows[x.job.task][0].status = x.eff
    BY <1>0, <2>1 DEF Ending, PlainWorker1, Updating
  <2>4. x.eff \in GroupFinished
    BY <1>0, <2>3, EffIs DEF Clean
  <2>5. s \in GroupFinished \ {"FAILED_START_TIMEOUT"}
    BY <2>4, Apart
  <2>6. \A t \in TasksOf(g) : rows'[t][0].status \in GroupFinished
    <3>1. PICK h \in Groups : h = g /\ grp[h].status # Absent
      BY <2>1, UpdatedGroupIsThere DEF Updating
    <3>2. Over(x.job.task)
      BY <2>3, <2>4 DEF Over
    <3>3. PICK v \in GroupFinished \ {"FAILED_START_TIMEOUT"}, u \in Tasks \cup {None} :
            u = x.job.task /\ rows' = BatchUpdate(h, v, u)
      <4>1. x.job.task \in Tasks \cup {None}
        BY <1>0 DEF Job
      <4>2. rows' = BatchUpdate(h, s, x.job.task)
        BY <2>1, <3>1
      <4>3. QED
        BY <2>5, <4>1, <4>2
    <3>4. AllOver(h)'
      BY <3>1, <3>2, <3>3, BatchEnds
    <3>5. QED
      BY <3>1, <3>4 DEF AllOver, TasksOf, Over
  <2>7. PlainWorker1(y)
    BY <1>0, <2>1, <2>2 DEF PlainWorker1, Updating
  <2>8. QED
    BY <2>2, <2>6, <2>7 DEF Ending, AllOver, TasksOf, Over
<1>7. QED
  BY <1>2, <1>3, <1>4, <1>5, <1>6
\* The status of a group that is derived from its tasks.
LEMMA AggregateIsOver ==
  ASSUME MaxRetry = 0, NEW g \in Groups
  PROVE  LET a == AggregateGroup(LatestStatus(g), Considered(g)) IN
         /\ a \in GroupFinished <=> AllOver(g)
         /\ a \notin Canceled
<1> DEFINE st   == LatestStatus(g)
           all  == {st[t] : t \in DOMAIN st}
           some == {st[t] : t \in Considered(g)}
           a    == AggregateGroup(st, Considered(g))
<1>1. /\ DOMAIN st = TasksOf(g)
      /\ \A t \in TasksOf(g) : st[t] = rows[t][0].status
  BY OneRow DEF LatestStatus
<1>2. all \ GroupFinished = {} <=> AllOver(g)
  BY <1>1 DEF AllOver, Over
<1>3. Considered(g) \subseteq TasksOf(g) /\ Lead[g] \in Considered(g)
  BY WorkflowAssumption DEF Considered, TasksOf
<1>4. some # {} /\ some \subseteq all
  BY <1>1, <1>3
<1>5. some \subseteq GroupFinished => some \cap FailedStatuses # {} \/ some = {"COMPLETED"}
  BY <1>4, Apart
<1>6. a = IF all \ GroupFinished # {}
            THEN IF "RUNNING" \in all \/ all \cap Finished # {} THEN "RUNNING" ELSE "INITIALIZING"
          ELSE IF "FAILED_UPSTREAM" \in all     THEN "FAILED_UPSTREAM"
          ELSE IF "FAILED_SERVER_ERROR" \in all THEN "FAILED_SERVER_ERROR"
          ELSE IF "FAILED_PREEMPTED" \in all    THEN "FAILED_PREEMPTED"
          ELSE IF "FAILED_EVICTED" \in some     THEN "FAILED_EVICTED"
          ELSE IF some \cap FailedStatuses # {} THEN "FAILED"
          ELSE IF some = {"COMPLETED"}          THEN "COMPLETED"
          ELSE "RUNNING"
  BY DEF AggregateGroup
<1>7. {"FAILED_UPSTREAM", "FAILED_SERVER_ERROR", "FAILED_PREEMPTED", "FAILED_EVICTED", "FAILED",
       "COMPLETED"} \subseteq GroupFinished \ Canceled
  BY DEF GroupFinished, FailedStatuses, Canceled
<1>8. {"RUNNING", "INITIALIZING"} \cap (GroupFinished \cup Canceled) = {}
  BY DEF GroupFinished, FailedStatuses, Canceled
<1> HIDE DEF st, all, some, a
<1>9. CASE all \ GroupFinished # {}
  BY <1>2, <1>6, <1>8, <1>9 DEF a, st
<1>10. CASE all \ GroupFinished = {}
  <2>1. a \in {"FAILED_UPSTREAM", "FAILED_SERVER_ERROR", "FAILED_PREEMPTED", "FAILED_EVICTED", "FAILED",
               "COMPLETED"}
    BY <1>4, <1>5, <1>6, <1>10
  <2>2. QED
    BY <1>2, <1>7, <1>10, <2>1 DEF a, st
<1>11. QED
  BY <1>9, <1>10

\* A worker that ends its group, writes it, and goes on.
LEMMA FinishingMoves ==
  ASSUME Here, [Next]_vars, NEW w \in Workers,
         \/ Aggregate(w) \/ WriteGroup(w) \/ ReadGroups(w) \/ WriteWorkflow(w) \/ Finish(w)
         \/ ReleaseDownstream(w)
  PROVE  PlainWorker1(worker'[w]) /\ Ending(worker[w])'
<1> USE DEF db
<1> DEFINE x == worker[w]
           y == worker'[w]
           g == x.job.group
<1>0. /\ worker \in [Workers -> Worker] /\ x \in Worker /\ PlainWorker1(x) /\ Shape /\ backendUp
      /\ PlainJob(x.job) /\ HeardJob(x.job) /\ x.job \in Job /\ Ending(x) /\ MaxRetry = 0
      /\ grp \in [Groups -> GroupRow]
  BY HereGives
<1>1. PlainJob(NoJob)
  BY Fields DEF PlainJob
<1>2. x.pc \in Updating /\ x.pc # "startTimeout" /\ x.job.type = "UpdateGroup" /\ x.eff = Eff(x.job)
  <2>1. x.pc \in {"aggregate", "writeGroup", "readGroups", "writeWorkflow", "finish", "downstream"}
    <3>1. Aggregate(w) => x.pc = "aggregate"
      BY DEF Aggregate, At
    <3>2. Finish(w) => x.pc = "finish"
      BY DEF Finish, At
    <3>3. QED
      BY <3>1, <3>2 DEF WriteGroup, ReadGroups, WriteWorkflow, ReleaseDownstream, At
  <2>2. QED
    BY <1>0, <2>1 DEF Updating, PlainWorker1
<1>3. g \in Groups /\ grp[g].status # Absent
  BY <1>2, UpdatedGroupIsThere
<1>4. /\ x.eff \in Heard \ {"RESCHEDULED"}
      /\ Clean(x) => x.eff \in GroupFinished
  BY <1>0, <1>2, EffIs DEF Clean
<1>5. ASSUME y.job = x.job, y.eff = x.eff,
             y.pc \in {"writeGroup", "readGroups", "writeWorkflow", "finish", "downstream", "setGroups"}
      PROVE  PlainWorker1(y) /\ (Clean(y) <=> Clean(x))
  BY <1>0, <1>2, <1>5 DEF PlainWorker1, Updating, Clean
<1>6. ASSUME Done(w) PROVE PlainWorker1(y) /\ Ending(x)'
  <2>1. y.pc = "idle" /\ y.job = NoJob
    BY <1>0, <1>6, DoneGives
  <2>2. QED
    BY <1>1, <2>1, NothingEnds DEF PlainWorker1, Updating, Quietly
<1>7. CASE Aggregate(w)
  <2> DEFINE a == AggregateGroup(LatestStatus(g), Considered(g))
             n == IF x.eff \in InQueue THEN x.eff ELSE a
  <2>1. /\ x.pc = "aggregate" /\ rows' = rows
        /\ worker' = [worker EXCEPT ![w].pc = "writeGroup", ![w].eff = x.eff, ![w].new = n,
                                    ![w].clocks = {}]
    BY <1>4, <1>7 DEF Aggregate, At
  <2> HIDE DEF n, a
  <2>2. y.pc = "writeGroup" /\ y.job = x.job /\ y.eff = x.eff /\ y.new = n
    BY <1>0, <2>1 DEF Worker
  <2>3. n = IF x.eff \in InQueue THEN x.eff ELSE a
    BY DEF n
  <2>4. (a \in GroupFinished <=> AllOver(g)) /\ a \notin Canceled
    BY <1>0, <1>3, AggregateIsOver DEF a
  <2>5. InQueue \cap GroupFinished = {} /\ InQueue \cap Canceled = {}
    BY DEF InQueue, Prescheduling, GroupFinished, FailedStatuses, Canceled
  <2>6. Clean(x) => AllOver(g)
    BY <1>0, <2>1 DEF Ending
  <2>7. /\ Clean(x) => n \in GroupFinished
        /\ n \in GroupFinished => AllOver(g)
        /\ n \notin Canceled
    BY <1>4, <2>3, <2>4, <2>5, <2>6
  <2>8. n \in GroupFinished => \A t \in TasksOf(g) : rows'[t][0].status \in GroupFinished
    BY <2>1, <2>7 DEF AllOver, TasksOf, Over
  <2>9. PlainWorker1(y) /\ (Clean(y) <=> Clean(x))
    BY <1>5, <2>2
  <2>10. Clean(y) => n \in GroupFinished
    BY <2>7, <2>9
  <2>11. Ending(x)'
    BY <2>2, <2>7, <2>8, <2>10 DEF Ending, Clean, AllOver, Over, TasksOf
  <2>12. QED
    BY <2>9, <2>11
<1>8. CASE WriteGroup(w)
  <2>1. /\ x.pc = "writeGroup" /\ worker' = [worker EXCEPT ![w].pc = "readGroups", ![w].new = Absent]
        /\ grp' = [grp EXCEPT ![g] = UpdateGroupRow(@, x.new, FALSE)]
    BY <1>8 DEF WriteGroup, At
  <2>2. y.pc = "readGroups" /\ y.job = x.job /\ y.eff = x.eff
    BY <1>0, <2>1 DEF Worker
  <2>3. grp'[g] = UpdateGroupRow(grp[g], x.new, FALSE)
    BY <1>0, <1>3, <2>1
  <2>4. Clean(x) => x.new \in GroupFinished /\ (x.new \notin Canceled \/ grp[g].status # "PROCESSING")
    BY <1>0, <2>1 DEF Ending
  <2>5. x.new \in Heard \ {"RESCHEDULED"}
    BY <2>1, WritesHeard DEF At
  <2>6. /\ grp[g] \in GroupRow /\ grp[g].status # "RESCHEDULED"
        /\ "end" \in grp[g].stamps => grp[g].status \in GroupFinished
    BY <1>3, HereGives DEF Here, Known, Ends, PlainGroups, Orderly, PlainData, Closed
  <2>7. Clean(x) => grp'[g].status \in GroupFinished
    <3>1. PICK row \in GroupRow, n \in Heard \ {"RESCHEDULED"} : row = grp[g] /\ n = x.new
      BY <2>5, <2>6
    <3>2. ASSUME Clean(x) PROVE UpdateGroupRow(row, n, FALSE).status \in GroupFinished
      BY <1>3, <2>4, <2>6, <3>1, <3>2, GroupTakes
    <3>3. QED
      BY <2>3, <3>1, <3>2
  <2>8. PlainWorker1(y) /\ (Clean(y) <=> Clean(x))
    BY <1>5, <2>2
  <2>9. Ending(x)'
    BY <2>2, <2>7, <2>8 DEF Ending, Clean, Closed
  <2>10. QED
    BY <2>8, <2>9
<1>9. CASE ReadGroups(w) \/ WriteWorkflow(w)
  <2>1. /\ x.pc \in {"readGroups", "writeWorkflow"} /\ grp' = grp
        /\ \E p \in {"writeWorkflow", "finish"} : \E n : worker' = [worker EXCEPT ![w].pc = p, ![w].new = n]
    BY <1>9 DEF ReadGroups, WriteWorkflow, At
  <2>2. y.pc \in {"writeWorkflow", "finish"} /\ y.job = x.job /\ y.eff = x.eff
    BY <1>0, <2>1 DEF Worker
  <2>3. Clean(x) => grp'[g].status \in GroupFinished
    BY <1>0, <2>1 DEF Ending, Closed
  <2>4. PlainWorker1(y) /\ (Clean(y) <=> Clean(x))
    BY <1>5, <2>2
  <2>5. Ending(x)'
    BY <2>2, <2>3, <2>4 DEF Ending, Clean, Closed
  <2>6. QED
    BY <2>4, <2>5
<1>10. CASE Finish(w)
  <2>1. Done(w) \/ \E D : worker' = [worker EXCEPT ![w].pc = "downstream", ![w].todo = D]
    BY <1>10 DEF Finish
  <2>2. CASE \E D : worker' = [worker EXCEPT ![w].pc = "downstream", ![w].todo = D]
    <3>1. y.pc = "downstream" /\ y.job = x.job /\ y.eff = x.eff
      BY <1>0, <2>2 DEF Worker
    <3>2. QED
      BY <1>5, <3>1, NothingEnds DEF Quietly
  <2>3. QED
    BY <1>6, <2>1, <2>2
<1>11. CASE ReleaseDownstream(w)
  <2>1. /\ x.pc = "downstream"
        /\ \/ Done(w)
           \/ \E D, R : worker' = [worker EXCEPT ![w].todo = D, ![w].ready = R]
           \/ \E D, R : worker' = [worker EXCEPT ![w].pc = "setGroups", ![w].todo = D, ![w].ready = R]
    <3>1. x.pc = "downstream"
      BY <1>11 DEF ReleaseDownstream, At
    <3>2. PICK d \in x.todo :
            LET rest  == grp[d].remaining \ {g}
                ready == x.ready \cup {e \in {d} : rest = {}}
            IN IF x.todo # {d}
               THEN worker' = [worker EXCEPT ![w].todo = @ \ {d}, ![w].ready = ready]
               ELSE IF ready = {} THEN Done(w)
               ELSE worker' = [worker EXCEPT ![w].pc = "setGroups", ![w].todo = {}, ![w].ready = ready]
      BY <1>11 DEF ReleaseDownstream
    <3>3. CASE x.todo # {d}
      BY <3>1, <3>2, <3>3
    <3>4. CASE x.todo = {d}
      BY <3>1, <3>2, <3>4
    <3>5. QED
      BY <3>3, <3>4
  <2>2. CASE ~Done(w)
    <3>1. CASE \E D, R : worker' = [worker EXCEPT ![w].todo = D, ![w].ready = R]
      <4>1. PICK D, R : worker' = [worker EXCEPT ![w].todo = D, ![w].ready = R]
        BY <3>1
      <4>2. y = [x EXCEPT !.todo = D, !.ready = R]
        BY <1>0, <4>1
      <4>3. y.pc = x.pc /\ y.job = x.job /\ y.eff = x.eff
        BY <1>0, <4>2 DEF Worker
      <4>4. QED
        BY <1>5, <2>1, <4>3, NothingEnds DEF Quietly
    <3>2. CASE \E D, R : worker' = [worker EXCEPT ![w].pc = "setGroups", ![w].todo = D, ![w].ready = R]
      <4>1. PICK D, R : worker' = [worker EXCEPT ![w].pc = "setGroups", ![w].todo = D, ![w].ready = R]
        BY <3>2
      <4>2. y = [x EXCEPT !.pc = "setGroups", !.todo = D, !.ready = R]
        BY <1>0, <4>1
      <4>3. y.pc = "setGroups" /\ y.job = x.job /\ y.eff = x.eff
        BY <1>0, <4>2 DEF Worker
      <4>4. QED
        BY <1>5, <4>3, NothingEnds DEF Quietly
    <3>3. QED
      BY <2>1, <2>2, <3>1, <3>2
  <2>3. QED
    BY <1>6, <2>2
<1>12. QED
  BY <1>7, <1>8, <1>9, <1>10, <1>11

\* A worker that takes a job it can do in one step, or dies.
LEMMA OtherMoves ==
  ASSUME Here, NEW w \in Workers, Other(w) \/ Crash(w)
  PROVE  worker'[w] = worker[w] \/ (PlainWorker1(worker'[w]) /\ Ending(worker[w])')
<1>1. CASE Other(w)
  BY <1>1 DEF Other, CancelWorkflow, CheckQueueTimeout, CheckRunTimeout, CleanupWorkflow
<1>2. CASE Crash(w)
  <2>1. worker'[w].pc = "idle" /\ worker'[w].job = NoJob
    BY <1>2, HereGives, DoneGives DEF Crash
  <2>2. PlainJob(NoJob)
    BY Fields DEF PlainJob
  <2>3. QED
    BY <2>1, <2>2, NothingEnds DEF PlainWorker1, Updating, Quietly
<1>3. QED
  BY <1>1, <1>2

\* The invariant is inductive while no task is retried.
LEMMA OrderlyStays ==
  ASSUME Here, [Next]_vars
  PROVE  Orderly'
<1>1. ASSUME NEW v \in Workers PROVE PlainWorker1(worker'[v]) /\ Ending(worker[v])'
  <2>1. CASE worker'[v] = worker[v]
    <3>1. PlainWorker1(worker[v])
      BY HereGives
    <3>2. QED
      BY <2>1, <3>1, EndingHolds
  <2>2. CASE worker'[v] # worker[v]
    <3>1. PICK w \in Workers : WorkerStep(w) \/ Crash(w)
      BY <2>2, WorkersStay
    <3>2. v = w
      BY <2>2, <3>1, HereGives, OthersStay
    <3>3. QED
      BY <2>2, <3>1, <3>2, SubmitMoves, CancelMoves, TaskMoves, FinishingMoves, OtherMoves
         DEF WorkerStep, Update
  <2>3. QED
    BY <2>1, <2>2
<1>2. PlainData'
  BY PlainDataStays
<1>3. (\A j \in queue' : PlainJob(j)) /\ PlainJob(agent'.job)
  BY PlainQueue
<1>4. QED
  BY <1>1, <1>2, <1>3 DEF Orderly, PlainJobs

\* It holds initially.
LEMMA InitOrderly == MaxRetry = 0 /\ Init => Orderly
<1> SUFFICES ASSUME MaxRetry = 0, Init PROVE Orderly
  OBVIOUS
<1>1. PlainJob(NoJob) /\ PlainJob(JobOf("SubmitWorkflow"))
  BY Fields DEF PlainJob
<1>2. \A v \in Workers : worker[v].pc = "idle" /\ worker[v].job = NoJob
  BY DEF Init, Idle
<1>3. \A v \in Workers : PlainWorker1(worker[v]) /\ Ending(worker[v])
  BY <1>1, <1>2 DEF PlainWorker1, Updating, Ending
<1>4. PlainJobs
  BY <1>1, <1>3 DEF PlainJobs, Init
<1>5. 0 \in Retries /\ \A t \in Tasks : GroupOf[t] \in Groups
  BY OneRow, WorkflowAssumption
<1>6. PlainData
  BY <1>5 DEF PlainData, PlainRow, Init, RowAbsent
<1>7. QED
  BY <1>3, <1>4, <1>6 DEF Orderly

\* Without retries.
LEMMA OrderlyInvariant == MaxRetry = 0 => (Spec => [](Known /\ (backendUp => Orderly)))
<1> SUFFICES ASSUME MaxRetry = 0 PROVE Spec => [](Known /\ (backendUp => Orderly))
  OBVIOUS
<1>1. Init => (backendUp => Orderly)
  BY InitOrderly
<1>2. ASSUME Known, backendUp => Orderly, [Next]_vars PROVE (backendUp => Orderly)'
  BY <1>2, OrderlyStays, GoesForGood DEF Here
<1>3. QED
  BY <1>1, <1>2, KnownInvariant, PTL DEF Spec

-----------------------------------------------------------------------------
(***************************************************************************)
(* The logs.                                                               *)
(***************************************************************************)

\* Where a worker may go.
Going == {"idle", "insertGroups", "markWaiting", "checkWaiting", "setGroups",
          "cancel", "recheck", "startTimeout", "reread", "siblings", "insertRetry", "sendRetry",
          "aggregate", "downstream"}

\* Which step leads a worker to a statement that ends a group.
LEMMA NextPc ==
  ASSUME Shape, NEW w \in Workers, WorkerStep(w) \/ Crash(w)
  PROVE  \/ worker'[w] = worker[w]
         \/ worker'[w].pc \in Going
         \/ /\ worker'[w].pc \in {"setTasks", "sendCreate"}
            /\ CheckWaiting(w) \/ LaunchDownstream(w) \/ SetTasks(w) \/ SendCreate(w)
         \/ worker'[w].pc = "writeGroup" /\ (Recheck(w) \/ Aggregate(w))
         \/ worker'[w].pc = "readGroups" /\ WriteGroup(w)
         \/ worker'[w].pc = "writeWorkflow" /\ ReadGroups(w)
         \/ worker'[w].pc = "finish" /\ WriteWorkflow(w)
<1> DEFINE x == worker[w]
           y == worker'[w]
<1>0. worker \in [Workers -> Worker] /\ x \in Worker
  BY DEF Shape, WorkerShape, GoodWorker
<1>1. ASSUME Done(w) PROVE y.pc \in Going
  BY <1>1, DoneGives DEF Going
<1>2. ASSUME NEW p \in Going, Goto(w, p) PROVE y.pc \in Going
  BY <1>2, GotoGives
<1>3. ASSUME NEW p \in Going, NEW j, NEW s, Start(w, j, p, s) PROVE y.pc \in Going
  BY <1>3, StartGives
<1>4. CASE Submit(w) \/ Process(w)
  <2>1. CASE InsertWorkflow(w)
    BY <1>3, <2>1 DEF InsertWorkflow, Going
  <2>2. CASE InsertGroups(w)
    BY <1>2, <2>2 DEF InsertGroups, Going
  <2>3. CASE MarkWaiting(w)
    <3>1. \E R : worker' = [worker EXCEPT ![w].pc = "checkWaiting", ![w].ready = R]
      BY <2>3 DEF MarkWaiting
    <3>2. QED
      BY <1>0, <3>1 DEF Worker, Going
  <2>4. CASE CheckWaiting(w) \/ LaunchDownstream(w)
    <3>1. Done(w) \/ SetGroups(w)
      BY <2>4 DEF CheckWaiting, LaunchDownstream
    <3>2. QED
      BY <1>1, <2>4, <3>1, SetGives DEF Going
  <2>5. CASE SendCreate(w)
    <3>1. x.pc = "sendCreate" /\ (Done(w) \/ \E T : worker' = [worker EXCEPT ![w].todo = T])
      BY <2>5 DEF SendCreate, At
    <3>2. Done(w) \/ y.pc = "sendCreate"
      BY <1>0, <3>1 DEF Worker
    <3>3. QED
      BY <1>1, <2>5, <3>2 DEF Going
  <2>6. CASE SetTasks(w)
    <3>1. y.pc = "sendCreate"
      BY <2>6, GotoGives DEF SetTasks
    <3>2. QED
      BY <2>6, <3>1
  <2>7. QED
    BY <1>4, <2>1, <2>2, <2>3, <2>4, <2>5, <2>6 DEF Submit, Process
<1>5. CASE \/ FetchCancel(w) \/ Cancel(w) \/ Recheck(w) \/ UpdateWholeGroup(w) \/ UpdateNoTask(w)
           \/ CheckStartTimeout(w)
  <2>1. CASE Recheck(w)
    <3>1. Done(w) \/ \E n : worker' = [worker EXCEPT ![w].pc = "writeGroup", ![w].new = n]
      BY <2>1 DEF Recheck
    <3>2. Done(w) \/ y.pc = "writeGroup"
      BY <1>0, <3>1 DEF Worker
    <3>3. QED
      BY <1>1, <2>1, <3>2
  <2>2. CASE FetchCancel(w) \/ UpdateWholeGroup(w) \/ UpdateNoTask(w) \/ CheckStartTimeout(w)
    <3>1. UNCHANGED worker \/ \E j, s : Start(w, j, "cancel", s) \/ Start(w, j, "aggregate", s)
                                         \/ Start(w, j, "startTimeout", s)
      <4>1. CASE FetchCancel(w)
        BY <4>1 DEF FetchCancel
      <4>2. CASE UpdateWholeGroup(w)
        BY <4>2 DEF UpdateWholeGroup
      <4>3. CASE UpdateNoTask(w)
        BY <4>3 DEF UpdateNoTask
      <4>4. CASE CheckStartTimeout(w)
        BY <4>4 DEF CheckStartTimeout
      <4>5. QED
        BY <2>2, <4>1, <4>2, <4>3, <4>4
    <3>2. QED
      BY <1>3, <3>1 DEF Going
  <2>3. CASE Cancel(w)
    BY <1>2, <2>3 DEF Cancel, Going
  <2>4. QED
    BY <1>5, <2>1, <2>2, <2>3
<1>6. CASE \/ EndLateStart(w) \/ UpdateTaskStatus(w) \/ FailWithoutBackend(w) \/ Reread(w)
           \/ UpdateSiblings(w) \/ InsertRetry(w) \/ SendRetry(w)
  <2>1. CASE EndLateStart(w) \/ UpdateTaskStatus(w)
    BY <2>1, TaskRowGives DEF EndLateStart, UpdateTaskStatus, Going
  <2>2. CASE FailWithoutBackend(w)
    <3>1. UNCHANGED worker \/ Done(w)
      BY <2>2 DEF FailWithoutBackend
    <3>2. QED
      BY <1>1, <3>1
  <2>3. CASE Reread(w)
    <3>1. Done(w) \/ \E p \in Going : Goto(w, p)
      BY <2>3 DEF Reread, Going
    <3>2. QED
      BY <1>1, <1>2, <3>1
  <2>4. CASE UpdateSiblings(w) \/ InsertRetry(w) \/ SendRetry(w)
    BY <1>2, <2>4 DEF UpdateSiblings, InsertRetry, SendRetry, Going
  <2>5. QED
    BY <1>6, <2>1, <2>2, <2>3, <2>4
<1>7. CASE Aggregate(w)
  <2>1. \E e, n : worker' = [worker EXCEPT ![w].pc = "writeGroup", ![w].eff = e, ![w].new = n, ![w].clocks = {}]
    BY <1>7 DEF Aggregate
  <2>2. y.pc = "writeGroup"
    BY <1>0, <2>1 DEF Worker
  <2>3. QED
    BY <1>7, <2>2
<1>8. CASE WriteGroup(w) \/ ReadGroups(w) \/ WriteWorkflow(w)
  <2>1. ASSUME NEW p, NEW n, worker' = [worker EXCEPT ![w].pc = p, ![w].new = n] PROVE y.pc = p
    BY <1>0, <2>1 DEF Worker
  <2>2. QED
    BY <1>8, <2>1 DEF WriteGroup, ReadGroups, WriteWorkflow
<1>9. CASE Finish(w)
  <2>1. Done(w) \/ \E D : worker' = [worker EXCEPT ![w].pc = "downstream", ![w].todo = D]
    BY <1>9 DEF Finish
  <2>2. Done(w) \/ y.pc = "downstream"
    BY <1>0, <2>1 DEF Worker
  <2>3. QED
    BY <1>1, <2>2 DEF Going
<1>10. CASE ReleaseDownstream(w)
  <2>0. x.pc = "downstream"
    BY <1>10 DEF ReleaseDownstream, At
  <2>1. PICK d \in x.todo :
          LET rest  == grp[d].remaining \ {x.job.group}
              ready == x.ready \cup {e \in {d} : rest = {}}
          IN IF x.todo # {d}
             THEN worker' = [worker EXCEPT ![w].todo = @ \ {d}, ![w].ready = ready]
             ELSE IF ready = {} THEN Done(w)
             ELSE worker' = [worker EXCEPT ![w].pc = "setGroups", ![w].todo = {}, ![w].ready = ready]
    BY <1>10 DEF ReleaseDownstream
  <2>2. CASE \E D, R : worker' = [worker EXCEPT ![w].todo = D, ![w].ready = R]
    <3>1. PICK D, R : worker' = [worker EXCEPT ![w].todo = D, ![w].ready = R]
      BY <2>2
    <3>2. y = [x EXCEPT !.todo = D, !.ready = R]
      BY <1>0, <3>1
    <3>3. y.pc = x.pc
      BY <1>0, <3>2 DEF Worker
    <3>4. QED
      BY <2>0, <3>3 DEF Going
  <2>3. CASE \E D, R : worker' = [worker EXCEPT ![w].pc = "setGroups", ![w].todo = D, ![w].ready = R]
    <3>1. PICK D, R : worker' = [worker EXCEPT ![w].pc = "setGroups", ![w].todo = D, ![w].ready = R]
      BY <2>3
    <3>2. y = [x EXCEPT !.pc = "setGroups", !.todo = D, !.ready = R]
      BY <1>0, <3>1
    <3>3. y.pc = "setGroups"
      BY <1>0, <3>2 DEF Worker
    <3>4. QED
      BY <3>3 DEF Going
  <2>4. CASE x.todo # {d}
    BY <2>1, <2>2, <2>4
  <2>5. CASE x.todo = {d}
    BY <1>1, <2>1, <2>3, <2>5
  <2>6. QED
    BY <2>4, <2>5
<1>11. CASE Other(w) \/ Crash(w)
  <2>1. UNCHANGED worker \/ Done(w)
    BY <1>11 DEF Other, CancelWorkflow, CheckQueueTimeout, CheckRunTimeout, CleanupWorkflow, Crash
  <2>2. QED
    BY <1>1, <2>1
<1>12. QED
  BY <1>4, <1>5, <1>6, <1>7, <1>8, <1>9, <1>10, <1>11 DEF WorkerStep, Update

\* A workflow that has ended stays so.
LEMMA EndedStays ==
  ASSUME Shape, [Next]_vars
  PROVE  /\ wf.ended => wf'.ended
         /\ \A w \in Workers : WriteWorkflow(w) /\ worker[w].new \in WorkflowFinished => wf'.ended
<1>0. wf \in WorkflowRow
  BY DEF Shape, DbShape
<1>1. {"RUNNING", "WAITING"} \cap WorkflowFinished = {}
  BY DEF WorkflowFinished, FailedStatuses
<1>2. ASSUME NEW w \in Workers, WriteWorkflow(w)
      PROVE  wf.ended \/ worker[w].new \in WorkflowFinished => wf'.ended
  <2>1. \E u : wf' = UpdateWorkflowRow(wf, worker[w].new, u)
    BY <1>2 DEF WriteWorkflow
  <2>2. QED
    BY <1>0, <1>1, <2>1 DEF UpdateWorkflowRow, WorkflowRow
<1>3. ASSUME NEW w \in Workers, InsertWorkflow(w) PROVE wf.ended => wf'.ended
  <2>1. wf' = wf \/ wf' = [wf EXCEPT !.status = "PENDING"]
    BY <1>3 DEF InsertWorkflow
  <2>2. QED
    BY <1>0, <2>1 DEF WorkflowRow
<1>4. QED
  BY <1>2, <1>3, WorkflowChanges

\* When all groups are over, so is the workflow that is derived from them.
LEMMA AggregateIsEnd ==
  ASSUME Groups # {}, \A g \in Groups : Closed(g)
  PROVE  AggregateWorkflow(GroupStatuses) \in WorkflowFinished
<1> DEFINE all    == {GroupStatuses[g] : g \in DOMAIN GroupStatuses}
           causes == (all \cap FailedStatuses) \ {"FAILED_UPSTREAM"}
           a      == AggregateWorkflow(GroupStatuses)
<1>1. all \subseteq GroupFinished
  BY DEF GroupStatuses, Closed
<1>2. all \ Finished = {}
  BY <1>1, Apart
<1>3. a = IF all \ Finished # {}
            THEN IF "RUNNING" \in all THEN "RUNNING" ELSE "PENDING"
          ELSE IF "FAILED_CANCELED" \in all      THEN "FAILED_CANCELED"
          ELSE IF "FAILED_SERVER_ERROR" \in all  THEN "FAILED_SERVER_ERROR"
          ELSE IF "FAILED_EXEC_TIMEOUT" \in all  THEN "FAILED_EXEC_TIMEOUT"
          ELSE IF "FAILED_QUEUE_TIMEOUT" \in all THEN "FAILED_QUEUE_TIMEOUT"
          ELSE IF all \cap FailedStatuses # {}
            THEN IF \E s \in causes : causes = {s} THEN CHOOSE s \in causes : TRUE ELSE "FAILED"
          ELSE IF all \subseteq {"COMPLETED"} THEN "COMPLETED" ELSE "RUNNING"
  BY DEF AggregateWorkflow
<1>4. (\E s \in causes : causes = {s}) => (CHOOSE s \in causes : TRUE) \in causes
  OBVIOUS
<1>5. causes \subseteq FailedStatuses \ {"FAILED_UPSTREAM"}
  OBVIOUS
<1>6. all \cap FailedStatuses = {} => all \subseteq {"COMPLETED"}
  BY <1>1, Apart
<1>7. FailedStatuses \ {"FAILED_UPSTREAM"} \subseteq WorkflowFinished /\ "COMPLETED" \in WorkflowFinished
  BY DEF WorkflowFinished
<1>8. {"FAILED_CANCELED", "FAILED_SERVER_ERROR", "FAILED_EXEC_TIMEOUT", "FAILED_QUEUE_TIMEOUT", "FAILED",
       "COMPLETED"} \subseteq WorkflowFinished
  BY DEF WorkflowFinished, FailedStatuses
<1> HIDE DEF all, causes, a
<1>9. a \in WorkflowFinished
  BY <1>2, <1>3, <1>4, <1>5, <1>6, <1>7, <1>8
<1>10. QED
  BY <1>9 DEF a

\* A cleanup of the whole group is under way, or was done.
Cleanup(g) ==
  \/ \E j \in queue : j.type = "CleanupGroup" /\ j.group = g
  \/ agent.pc # "idle" /\ agent.job.type = "CleanupGroup" /\ agent.job.group = g
Tidied(g) == grp[g].cleaned \/ Cleanup(g)

\* While the workflow is open although its groups are closed, there is a group that
\* nobody cleans up before the workflow is written.
OpenEnd(h) ==
  /\ ~Tidied(h)
  /\ \A v \in Workers : worker[v].job.group = h /\ Clean(worker[v]) =>
       /\ worker[v].pc # "finish"
       /\ worker[v].pc = "writeWorkflow" => worker[v].new \in WorkflowFinished

Late == /\ \A g \in Groups : Tidied(g) => Closed(g)
        /\ Groups # {} /\ (\A g \in Groups : Closed(g)) /\ ~wf.ended => \E h \in Groups : OpenEnd(h)
        /\ (\E j \in queue : j.type = "CleanupWorkflow") \/ logs = "storage" => wf.ended

\* What the backend worker does next.
LEMMA AgentTakes ==
  ASSUME Shape, [Next]_vars, agent'.pc # "idle"
  PROVE  \/ agent.pc # "idle" /\ agent'.job = agent.job
         \/ agent.pc = "idle" /\ agent'.job \in queue
<1>0. agent \in [pc : {"idle", "apply", "execute"}, job : Named]
  BY DEF Shape, ClusterShape
<1>1. CASE \E w \in Workers : WorkerStep(w) \/ Crash(w)
  BY <1>1, WorkersOnly DEF cluster
<1>2. CASE PrepareCreateGroup \/ PrepareCleanupGroup \/ PrepareRescheduleTask
  <2>1. \/ UNCHANGED agent
        \/ agent.pc = "idle" /\ \E j \in queue : Launch(j)
    BY <1>2 DEF PrepareCreateGroup, PrepareCleanupGroup, PrepareRescheduleTask
  <2>2. QED
    BY <2>1 DEF Launch
<1>3. CASE Apply \/ Execute \/ Refuse \/ Disconnect
  BY <1>0, <1>3 DEF Apply, Execute, Refuse, Disconnect
<1>4. CASE \/ \E t \in Tasks : PodMoves(t) \/ PodEnds(t)
           \/ \E force \in CancelForms : AskCancel(force)
           \/ DeleteBackend \/ UNCHANGED vars
  BY <1>4 DEF PodMoves, PodEnds, AskCancel, DeleteBackend, vars, cluster
<1>5. QED
  BY <1>1, <1>2, <1>3, <1>4 DEF Next, AgentStep

\* The cleanup of a group comes from a worker that ends it.
LEMMA TidyMoves ==
  ASSUME Here, [Next]_vars, NEW g \in Groups, Tidied(g)'
  PROVE  \/ Tidied(g)
         \/ \E w \in Workers : At(w, "finish") /\ Clean(worker[w]) /\ worker[w].job.group = g
<1>0. /\ grp[g] \in GroupRow /\ grp[g].status # "RESCHEDULED" /\ Shape
      /\ "end" \in grp[g].stamps => grp[g].status \in GroupFinished
  BY HereGives DEF Here, Known, Ends, PlainGroups, Orderly, PlainData, Closed
<1>1. CASE grp'[g].cleaned
  <2>1. GroupStep(g)
    BY GroupSteps
  <2>2. CASE \E w \in Workers : Cancel(w) /\ grp'[g] = UpdateGroupRow(grp[g], worker[w].job.status, worker[w].job.force)
    <3>1. PICK w \in Workers : Cancel(w) /\ grp'[g] = UpdateGroupRow(grp[g], worker[w].job.status, worker[w].job.force)
      BY <2>2
    <3>2. worker[w].job.status \in Heard \ {"RESCHEDULED"}
      BY <3>1, WritesHeard DEF Cancel
    <3>3. grp'[g].cleaned = grp[g].cleaned
      BY <1>0, <3>1, <3>2, GroupTakes
    <3>4. QED
      BY <1>1, <3>3 DEF Tidied
  <2>3. CASE \E w \in Workers : WriteGroup(w) /\ grp'[g] = UpdateGroupRow(grp[g], worker[w].new, FALSE)
    <3>1. PICK w \in Workers, f \in BOOLEAN :
            WriteGroup(w) /\ grp'[g] = UpdateGroupRow(grp[g], worker[w].new, f)
      BY <2>3
    <3>2. worker[w].new \in Heard \ {"RESCHEDULED"}
      BY <3>1, WritesHeard DEF WriteGroup
    <3>3. grp'[g].cleaned = grp[g].cleaned
      BY <1>0, <3>1, <3>2, GroupTakes
    <3>4. QED
      BY <1>1, <3>3 DEF Tidied
  <2>4. CASE CleanedNow(g)
    BY <2>4 DEF Tidied, Cleanup, CleanedNow
  <2>5. CASE \/ grp'[g].cleaned = grp[g].cleaned \/ grp'[g] = grp[g]
             \/ \E h \in Groups : grp'[g] = [grp[g] EXCEPT !.remaining = @ \ {h}]
    BY <1>0, <1>1, <2>5 DEF Tidied, GroupRow
  <2>6. QED
    BY <2>1, <2>2, <2>3, <2>4, <2>5 DEF GroupStep
<1>2. ASSUME NEW j \in queue', j.type = "CleanupGroup", j.group = g
      PROVE  \/ Tidied(g)
             \/ \E w \in Workers : At(w, "finish") /\ Clean(worker[w]) /\ worker[w].job.group = g
  <2>1. j \in queue \/ Forwarded(j) \/ Made(j)
    BY Queued
  <2>2. \A w \in Workers : ~Free(w) => worker[w].job.type \in {"SubmitWorkflow", "UpdateGroup"}
    BY HereGives DEF PlainWorker1, Free
  <2>3. QED
    BY <1>2, <2>1, <2>2 DEF Forwarded, Made, Tidied, Cleanup
<1>3. CASE agent'.pc # "idle" /\ agent'.job.type = "CleanupGroup" /\ agent'.job.group = g
  BY <1>0, <1>3, AgentTakes DEF Tidied, Cleanup
<1>4. QED
  BY <1>1, <1>2, <1>3 DEF Tidied, Cleanup

\* A group that is being cleaned up has finished.
LEMMA TidyStays ==
  ASSUME Here, Late, [Next]_vars, NEW g \in Groups, Tidied(g)'
  PROVE  Closed(g)'
<1>1. ASSUME NEW w \in Workers, At(w, "finish"), Clean(worker[w]), worker[w].job.group = g
      PROVE  Closed(g)
  BY <1>1, HereGives DEF Ending, At
<1>2. Closed(g)
  BY <1>1, TidyMoves DEF Late
<1>3. QED
  BY <1>2, GroupsKeep

\* The last group to close has not been cleaned up, and whoever closed it has yet to
\* write the workflow.
LEMMA LastCloses ==
  ASSUME Here, Late, [Next]_vars, NEW g \in Groups, ~Closed(g), Closed(g)'
  PROVE  OpenEnd(g)'
<1>0. grp[g] \in GroupRow /\ Shape
  BY HereGives
<1>1. PICK w \in Workers : Cancel(w) \/ WriteGroup(w)
  <2>1. GroupStep(g)
    BY GroupSteps
  <2>2. grp'[g].status # grp[g].status /\ grp'[g].status \notin Launching
    <3>1. Launching \cap GroupFinished = {}
      BY DEF Launching, GroupFinished, FailedStatuses
    <3>2. QED
      BY <3>1 DEF Closed
  <2>3. QED
    BY <1>0, <2>1, <2>2 DEF GroupStep, GroupRow
<1>2. ~Tidied(g)'
  <2>1. ASSUME NEW v \in Workers, At(v, "finish"), Clean(worker[v]), worker[v].job.group = g
        PROVE  Closed(g)
    BY <2>1, HereGives DEF Ending, At
  <2>2. QED
    BY <2>1, TidyMoves DEF Late
<1>3. ASSUME NEW v \in Workers, worker'[v].job.group = g, Clean(worker[v])'
      PROVE  worker'[v].pc \notin {"finish", "writeWorkflow"}
  <2>1. CASE v = w
    <3>1. worker'[w].pc \in {"recheck", "readGroups"}
      <4>1. CASE Cancel(w)
        BY <1>0, <4>1, GotoGives DEF Cancel
      <4>2. CASE WriteGroup(w)
        BY <1>0, <4>2, HereGives DEF WriteGroup, Worker
      <4>3. QED
        BY <1>1, <4>1, <4>2
    <3>2. QED
      BY <2>1, <3>1
  <2>2. CASE v # w
    <3>1. WorkerStep(w)
      BY <1>1 DEF WorkerStep, Update
    <3>2. worker'[v] = worker[v]
      BY <1>0, <2>2, <3>1, OthersStay
    <3>3. Clean(worker[v]) /\ worker[v].job.group = g
      BY <1>3, <3>2 DEF Clean, Cleans
    <3>4. worker[v].pc \notin {"finish", "writeWorkflow"}
      BY <3>3, HereGives DEF Ending
    <3>5. QED
      BY <3>2, <3>4
  <2>3. QED
    BY <2>1, <2>2
<1>4. QED
  BY <1>2, <1>3 DEF OpenEnd

\* The group that keeps the workflow open does so until the workflow has ended.
LEMMA OpenStays ==
  ASSUME Here, Late, [Next]_vars, NEW h \in Groups, OpenEnd(h), \A g \in Groups : Closed(g), ~wf'.ended
  PROVE  OpenEnd(h)'
<1>0. Shape /\ worker \in [Workers -> Worker] /\ \A v \in Workers : worker[v] \in Worker
  BY HereGives
<1>1. ~Tidied(h)'
  BY TidyMoves DEF OpenEnd, At
<1>2. ASSUME NEW v \in Workers, worker'[v].job.group = h, Clean(worker[v])'
      PROVE  /\ worker'[v].pc # "finish"
             /\ worker'[v].pc = "writeWorkflow" => worker'[v].new \in WorkflowFinished
  <2>1. CASE worker'[v] = worker[v]
    BY <1>2, <2>1 DEF OpenEnd, Clean, Cleans
  <2>2. CASE worker'[v] # worker[v] /\ worker'[v].pc \in {"finish", "writeWorkflow"}
    <3>1. PICK w \in Workers : WorkerStep(w) \/ Crash(w)
      BY <2>2, WorkersStay
    <3>2. v = w
      BY <1>0, <2>2, <3>1, OthersStay
    <3>3. \/ worker'[v].pc = "finish" /\ WriteWorkflow(v)
          \/ worker'[v].pc = "writeWorkflow" /\ ReadGroups(v)
      BY <1>0, <2>2, <3>1, <3>2, NextPc DEF Going
    <3>4. CASE WriteWorkflow(v)
      <4>1. /\ worker[v].pc = "writeWorkflow"
            /\ worker'[v] = [worker[v] EXCEPT !.pc = "finish", !.new = Absent]
        BY <1>0, <3>4 DEF WriteWorkflow, At
      <4>2. worker'[v].job = worker[v].job /\ worker'[v].eff = worker[v].eff
        BY <1>0, <4>1 DEF Worker
      <4>3. Clean(worker[v]) /\ worker[v].job.group = h
        BY <1>2, <4>2 DEF Clean, Cleans
      <4>4. worker[v].new \in WorkflowFinished
        BY <4>1, <4>3 DEF OpenEnd
      <4>5. QED
        BY <1>0, <3>4, <4>4, EndedStays
    <3>5. CASE ReadGroups(v) /\ worker'[v].pc = "writeWorkflow"
      <4>1. worker'[v] = [worker[v] EXCEPT !.pc = "writeWorkflow", !.new = AggregateWorkflow(GroupStatuses)]
        BY <1>0, <3>5 DEF ReadGroups
      <4>2. worker'[v].new = AggregateWorkflow(GroupStatuses)
        BY <1>0, <4>1 DEF Worker
      <4>3. QED
        BY <3>5, <4>2, AggregateIsEnd
    <3>6. QED
      BY <3>3, <3>4, <3>5
  <2>3. QED
    BY <2>1, <2>2
<1>3. QED
  BY <1>1, <1>2 DEF OpenEnd

\* The invariant about the logs is inductive.
LEMMA LateStays ==
  ASSUME Here, Late, [Next]_vars
  PROVE  Late'
<1>0. Shape
  BY HereGives
<1>1. \A g \in Groups : Tidied(g)' => Closed(g)'
  BY TidyStays
<1>2. ASSUME Groups # {}, \A g \in Groups : Closed(g)', ~wf'.ended
      PROVE  \E h \in Groups : OpenEnd(h)'
  <2>1. CASE \A g \in Groups : Closed(g)
    <3>1. ~wf.ended
      BY <1>0, <1>2, EndedStays
    <3>2. PICK h \in Groups : OpenEnd(h)
      BY <1>2, <2>1, <3>1 DEF Late
    <3>3. QED
      BY <1>2, <2>1, <3>2, OpenStays
  <2>2. CASE \E g \in Groups : ~Closed(g)
    BY <1>2, <2>2, LastCloses
  <2>3. QED
    BY <2>1, <2>2
<1>3. ASSUME NEW j \in queue', j.type = "CleanupWorkflow" PROVE wf.ended
  <2>1. j \in queue \/ Forwarded(j) \/ Made(j)
    BY Queued
  <2>2. ~Forwarded(j)
    <3>1. \A w \in Workers : ~Free(w) => worker[w].job.type \in {"SubmitWorkflow", "UpdateGroup"}
      BY HereGives DEF PlainWorker1, Free
    <3>2. agent.pc # "idle" => agent.job.type \in BackendTypes
      BY DEF Here, Known, Sound
    <3>3. QED
      BY <1>3, <3>1, <3>2 DEF Forwarded, BackendTypes
  <2>3. ASSUME LastCleaned PROVE wf.ended
    <3>1. agent.job.group \in Groups /\ agent.pc # "idle"
      BY <2>3 DEF LastCleaned, Here, Orderly, PlainJobs, PlainJob
    <3>2. \A g \in Groups : Tidied(g)
      BY <2>3, <3>1 DEF LastCleaned, Tidied, Cleanup
    <3>3. QED
      BY <3>1, <3>2 DEF Late, OpenEnd
  <2>4. QED
    BY <1>3, <2>1, <2>2, <2>3 DEF Made, Late
<1>4. logs' = "storage" => wf.ended
  <2>1. logs' = logs \/ \E w \in Workers : CleanupWorkflow(w)
    <3>1. ASSUME NEW w \in Workers, WorkerStep(w) \/ Crash(w) PROVE logs' = logs \/ CleanupWorkflow(w)
      <4>1. CASE Submit(w) \/ Process(w)
        BY <4>1 DEF Submit, Process, InsertWorkflow, InsertGroups, MarkWaiting, CheckWaiting, SetTasks,
                    LaunchDownstream, SendCreate, db
      <4>2. CASE \/ FetchCancel(w) \/ Cancel(w) \/ Recheck(w) \/ UpdateWholeGroup(w) \/ UpdateNoTask(w)
                 \/ CheckStartTimeout(w) \/ EndLateStart(w) \/ UpdateTaskStatus(w)
        BY <4>2 DEF FetchCancel, Cancel, Recheck, UpdateWholeGroup, UpdateNoTask, CheckStartTimeout,
                    EndLateStart, UpdateTaskStatus, UpdateTaskRowOf, db
      <4>3. CASE \/ FailWithoutBackend(w) \/ Reread(w) \/ UpdateSiblings(w) \/ InsertRetry(w) \/ SendRetry(w)
        BY <4>3 DEF FailWithoutBackend, Reread, UpdateSiblings, InsertRetry, SendRetry, db
      <4>4. CASE \/ Aggregate(w) \/ WriteGroup(w) \/ ReadGroups(w) \/ WriteWorkflow(w) \/ Finish(w)
                 \/ ReleaseDownstream(w)
        <5>1. Aggregate(w) \/ Finish(w) => logs' = logs
          BY DEF Aggregate, Finish, db
        <5>2. QED
          BY <4>4, <5>1 DEF WriteGroup, ReadGroups, WriteWorkflow, ReleaseDownstream, db
      <4>5. CASE Other(w) \/ Crash(w)
        BY <4>5 DEF Other, CancelWorkflow, CheckQueueTimeout, CheckRunTimeout, Crash, db
      <4>6. QED
        BY <3>1, <4>1, <4>2, <4>3, <4>4, <4>5 DEF WorkerStep, Update
    <3>2. CASE ~\E w \in Workers : WorkerStep(w) \/ Crash(w)
      BY <3>2 DEF Next, AgentStep, PrepareCreateGroup, PrepareCleanupGroup, PrepareRescheduleTask, Apply,
                  Execute, Refuse, Disconnect, PodMoves, PodEnds, AskCancel, DeleteBackend, vars, db
    <3>3. QED
      BY <3>1, <3>2
  <2>2. QED
    BY <2>1 DEF CleanupWorkflow, Late
<1>5. (\E j \in queue' : j.type = "CleanupWorkflow") \/ logs' = "storage" => wf'.ended
  BY <1>0, <1>3, <1>4, EndedStays
<1>6. QED
  BY <1>1, <1>2, <1>5 DEF Late

\* It holds initially.
LEMMA InitLate == Init => Late
<1> SUFFICES ASSUME Init PROVE Late
  OBVIOUS
<1>1. queue = {JobOf("SubmitWorkflow")} /\ JobOf("SubmitWorkflow").type = "SubmitWorkflow"
  BY Fields DEF Init
<1>2. \A g \in Groups : ~grp[g].cleaned /\ ~Closed(g)
  BY Apart DEF Init, Closed
<1>3. agent.pc = "idle" /\ logs = "redis"
  BY DEF Init
<1>4. \A g \in Groups : ~Tidied(g)
  BY <1>1, <1>2, <1>3 DEF Tidied, Cleanup
<1>5. QED
  BY <1>1, <1>2, <1>3, <1>4 DEF Late

\* Where tasks are not retried, the logs of a workflow move to the object store only
\* after it has ended (CleanupWorkflow): the worker that closes the last group has yet
\* to clean it up, and writes the workflow first.
THEOREM LogsMoveLate == MaxRetry = 0 => (Spec => []LogsMoveAfterEnd)
<1> SUFFICES ASSUME MaxRetry = 0 PROVE Spec => []LogsMoveAfterEnd
  OBVIOUS
<1> DEFINE IInv == Known /\ (backendUp => Orderly)
           LInv == backendUp => Late
<1>1. Spec => []IInv
  BY OrderlyInvariant
<1>2. Init => LInv
  BY InitLate
<1>3. IInv /\ LInv /\ [Next]_vars => LInv'
  BY LateStays, GoesForGood DEF Here
<1>4. LInv => LogsMoveAfterEnd
  BY DEF Late, LogsMoveAfterEnd
<1>5. QED
  BY <1>1, <1>2, <1>3, <1>4, PTL DEF Spec

-----------------------------------------------------------------------------
(***************************************************************************)
(* The pods.                                                               *)
(***************************************************************************)

\* Who takes a job.
Begun(j, w) ==
  LET y == worker'[w] IN
  /\ y.job = j
  /\ \/ j.status \in Canceled /\ y.pc = "cancel" /\ y.eff = j.status
     \/ j.status \in WholeGroup /\ y.pc = "aggregate" /\ y.eff = j.status
     \/ /\ j.task # None /\ j.status # "FAILED_START_TIMEOUT" /\ y.pc = "reread" /\ y.eff = Eff(j)
        /\ rows'[j.task][0] = UpdateTaskRow(rows[j.task][0], Eff(j))
     \/ j.status = "FAILED_START_TIMEOUT"

\* A job that leaves the queue is at the agent or with a worker, or was answered.
LEMMA Taken ==
  ASSUME Here, [Next]_vars, NEW j \in queue, j \notin queue'
  PROVE  /\ j.type = "CleanupGroup" => agent'.pc = "apply" /\ agent'.job = j
         /\ j.type = "UpdateGroup" => \/ j.status = "FAILED_START_TIMEOUT"
                                      \/ \E w \in Workers : Begun(j, w)
         /\ j.type = "CreateGroup" =>
              \/ agent'.pc = "apply" /\ agent'.job = j
              \/ Send({UpdateGroup(j.group, "FAILED_SERVER_ERROR")})
              \/ TakeAndSend(j, {UpdateGroup(j.group, "FAILED_SERVER_ERROR")})
         /\ j.type = "SubmitWorkflow" => \E w \in Workers : worker'[w].pc = "insertGroups"
<1>0. /\ worker \in [Workers -> Worker] /\ Shape /\ backendUp /\ MaxRetry = 0
      /\ \A i \in queue : PlainJob(i) /\ HeardJob(i) /\ i \in Job
  BY HereGives
<1>1. ASSUME NEW k, Take(k) PROVE j = k
  BY <1>1 DEF Take
<1>2. ASSUME NEW k, NEW J, TakeAndSend(k, J) PROVE j = k
  BY <1>2 DEF TakeAndSend
<1>3. \A J : ~Send(J)
  BY DEF Send
<1>4. CASE queue' = queue \/ UNCHANGED jobs
  BY <1>4 DEF jobs
<1>5. ASSUME NEW w \in Workers, WorkerStep(w) \/ Crash(w)
      PROVE  \/ j.type = "UpdateGroup" /\ (j.status = "FAILED_START_TIMEOUT" \/ Begun(j, w))
             \/ j.type = "SubmitWorkflow" /\ worker'[w].pc = "insertGroups"
             \/ j.type \notin {"CleanupGroup", "UpdateGroup", "CreateGroup", "SubmitWorkflow"}
  <2>1. CASE Submit(w) \/ Process(w)
    <3>1. CASE InsertWorkflow(w)
      <4>1. PICK k \in queue : k.type = "SubmitWorkflow" /\ Take(k)
                               /\ Start(w, k, "insertGroups", Absent)
        BY <3>1 DEF InsertWorkflow
      <4>2. worker'[w].pc = "insertGroups"
        BY <1>0, <4>1, StartGives
      <4>3. QED
        BY <1>1, <4>1, <4>2
    <3>2. CASE ~InsertWorkflow(w)
      <4>1. UNCHANGED jobs \/ \E J : Send(J)
        BY <2>1, <3>2 DEF Submit, Process, InsertGroups, MarkWaiting, CheckWaiting, SetTasks,
                          LaunchDownstream, SendCreate
      <4>2. QED
        BY <1>3, <4>1 DEF jobs
    <3>3. QED
      BY <3>1, <3>2
  <2>2. CASE FetchCancel(w)
    <3>1. PICK k \in queue : k.type = "UpdateGroup" /\ k.status \in Canceled /\ Take(k)
                             /\ Start(w, k, "cancel", k.status)
      BY <2>2 DEF FetchCancel
    <3>2. worker'[w].pc = "cancel" /\ worker'[w].job = k /\ worker'[w].eff = k.status
      BY <1>0, <3>1, StartGives
    <3>3. QED
      BY <1>1, <3>1, <3>2 DEF Begun
  <2>3. CASE UpdateWholeGroup(w)
    <3>1. PICK k \in queue : k.type = "UpdateGroup" /\ k.status \in WholeGroup /\ Take(k)
                             /\ Start(w, k, "aggregate", k.status)
      BY <2>3 DEF UpdateWholeGroup
    <3>2. worker'[w].pc = "aggregate" /\ worker'[w].job = k /\ worker'[w].eff = k.status
      BY <1>0, <3>1, StartGives
    <3>3. QED
      BY <1>1, <3>1, <3>2 DEF Begun
  <2>4. CASE UpdateNoTask(w)
    BY <1>0, <2>4 DEF UpdateNoTask, PlainJob
  <2>5. CASE CheckStartTimeout(w)
    BY <1>1, <2>5 DEF CheckStartTimeout, PerTask
  <2>6. CASE UpdateTaskStatus(w)
    <3>1. PICK k \in queue : PerTask(k) /\ k.status # "FAILED_START_TIMEOUT" /\ Take(k)
                             /\ UpdateTaskRowOf(w, k)
      BY <2>6 DEF UpdateTaskStatus
    <3>2. k = j /\ j.type = "UpdateGroup" /\ j.task # None /\ UpdateTaskRowOf(w, j)
      BY <1>1, <3>1 DEF PerTask
    <3>3. worker'[w].pc = "reread" /\ worker'[w].job = j /\ worker'[w].eff = Eff(j)
      BY <1>0, <3>2, TaskWritten
    <3>4. j.task \in Tasks /\ j.retry = 0
      BY <1>0, <3>2 DEF Job, PlainJob
    <3>5. rows' = [rows EXCEPT ![j.task][0] = UpdateTaskRow(@, Eff(j))]
      BY <3>2, <3>4 DEF UpdateTaskRowOf, Eff
    <3>6. rows'[j.task][0] = UpdateTaskRow(rows[j.task][0], Eff(j))
      BY <3>4, <3>5, HereGives
    <3>7. QED
      BY <3>1, <3>2, <3>3, <3>6 DEF Begun
  <2>7. CASE FailWithoutBackend(w)
    BY <1>0, <2>7 DEF FailWithoutBackend, WithoutBackend
  <2>8. CASE \/ Cancel(w) \/ EndLateStart(w) \/ Reread(w) \/ UpdateSiblings(w) \/ InsertRetry(w)
             \/ SendRetry(w) \/ Recheck(w) \/ Crash(w)
    <3>1. UNCHANGED jobs \/ (\E J : Send(J)) \/ queue \subseteq queue'
      BY <2>8 DEF Cancel, EndLateStart, Reread, UpdateSiblings, InsertRetry, SendRetry, Recheck, Crash
    <3>2. QED
      BY <1>3, <3>1 DEF jobs
  <2>9. CASE \/ Aggregate(w) \/ WriteGroup(w) \/ ReadGroups(w) \/ WriteWorkflow(w) \/ Finish(w)
             \/ ReleaseDownstream(w)
    <3>1. UNCHANGED jobs \/ \E J : Send(J)
      <4>1. Aggregate(w) => \E J : Send(J)
        BY DEF Aggregate
      <4>2. Finish(w) => \E J : Send(J)
        BY DEF Finish
      <4>3. QED
        BY <2>9, <4>1, <4>2 DEF WriteGroup, ReadGroups, WriteWorkflow, ReleaseDownstream
    <3>2. QED
      BY <1>3, <3>1 DEF jobs
  <2>10. CASE Other(w)
    <3>1. \E k \in queue : /\ k.type \in {"CancelWorkflow", "CheckQueueTimeout", "CheckRunTimeout", "CleanupWorkflow"}
                           /\ Take(k) \/ \E J : TakeAndSend(k, J)
      BY <2>10 DEF Other, CancelWorkflow, CheckQueueTimeout, CheckRunTimeout, CleanupWorkflow
    <3>2. QED
      BY <1>1, <1>2, <3>1
  <2>11. QED
    BY <1>5, <2>1, <2>2, <2>3, <2>4, <2>5, <2>6, <2>7, <2>8, <2>9, <2>10 DEF WorkerStep, Update
<1>6. CASE PrepareCreateGroup
  <2>1. PICK k \in queue :
          /\ k.type = "CreateGroup"
          /\ \/ Launch(k) /\ Take(k)
             \/ TakeAndSend(k, {UpdateGroup(k.group, "FAILED_SERVER_ERROR")})
    BY <1>6 DEF PrepareCreateGroup
  <2>2. QED
    BY <1>1, <1>2, <2>1 DEF Launch
<1>7. CASE PrepareCleanupGroup
  <2>1. PICK k \in queue : k.type = "CleanupGroup" /\ Launch(k) /\ Take(k)
    BY <1>7 DEF PrepareCleanupGroup
  <2>2. QED
    BY <1>1, <2>1 DEF Launch
<1>8. CASE PrepareRescheduleTask
  BY <1>0, <1>8 DEF PrepareRescheduleTask, PlainJob
<1>9. CASE \/ Apply \/ Execute \/ Refuse \/ Disconnect \/ DeleteBackend \/ UNCHANGED vars
           \/ \E t \in Tasks : PodMoves(t) \/ PodEnds(t)
           \/ \E force \in CancelForms : AskCancel(force)
  <2>1. UNCHANGED jobs \/ (\E J : Send(J)) \/ queue \subseteq queue'
    BY <1>9 DEF Apply, Execute, Refuse, Disconnect, DeleteBackend, PodMoves, PodEnds, AskCancel, vars, jobs
  <2>2. QED
    BY <1>3, <2>1 DEF jobs
<1>10. QED
  BY <1>5, <1>6, <1>7, <1>8, <1>9 DEF Next, AgentStep

\* What must hold of the cluster for no cleanup to be lost: kubernetes refuses none, and
\* no worker dies with a start timeout whose row it has already written, which would be
\* dropped when it is delivered again.
CleanupsKept == "CleanupGroup" \notin FailableJobs /\ (MaxCrashes = 0 \/ "start" \notin Timeouts)

\* A group has begun to end.
Ended(g) ==
  \/ Closed(g) \/ Over(Lead[g])
  \/ g \notin IgnoreNonlead /\ \E t \in TasksOf(g) : rows[t][0].status \in FailedStatuses

\* Its cleanup is under way: as a job, as the job that will send it, or with the worker
\* that has that job.
OwingJob(j, g) ==
  /\ j.group = g
  /\ \/ j.type = "CleanupGroup"
     \/ /\ j.type = "UpdateGroup" /\ Cleans(j, Eff(j))
        /\ j.task # None => rows[j.task][0].status = Eff(j) /\ j.status # "FAILED_START_TIMEOUT"

OwingPcs == {"cancel", "recheck", "reread", "siblings", "aggregate", "writeGroup", "readGroups",
             "writeWorkflow", "finish"}

OwingWorker(x, g) ==
  /\ x.job.group = g /\ x.pc \in OwingPcs /\ Clean(x)
  /\ x.job.task # None => rows[x.job.task][0].status = x.eff

Applies(type, g) == agent.pc = "apply" /\ agent.job.type = type /\ agent.job.group = g

Owing(g) == \/ \E j \in queue : OwingJob(j, g)
            \/ Applies("CleanupGroup", g)
            \/ \E v \in Workers : OwingWorker(worker[v], g)

HasPods(g) == \E t \in TasksOf(g) : pod[t].phase # "none"

Owed == \A g \in Groups :
          Ended(g) /\ (~Closed(g) \/ HasPods(g) \/ Applies("CreateGroup", g)) => Owing(g)

\* A job of a worker that ends something is about a status that ends it.
LEMMA OwingFields ==
  ASSUME Here, NEW w \in Workers, NEW g, OwingWorker(worker[w], g)
  PROVE  /\ worker[w].job.type = "UpdateGroup" /\ worker[w].job \in Job /\ PlainJob(worker[w].job)
         /\ HeardJob(worker[w].job)
         /\ worker[w].eff = Eff(worker[w].job) /\ worker[w].eff \in GroupFinished
         /\ worker[w].job.task # None => worker[w].job.task \in Tasks
<1> DEFINE x == worker[w]
<1>0. /\ PlainWorker1(x) /\ x.job \in Job /\ PlainJob(x.job) /\ HeardJob(x.job) /\ MaxRetry = 0
  BY HereGives
<1>1. x.job.type = "UpdateGroup"
  BY <1>0 DEF OwingWorker, OwingPcs, PlainWorker1, Updating
<1>2. x.eff = Eff(x.job)
  <2>1. CASE x.pc \in {"cancel", "recheck"}
    <3>1. x.eff = x.job.status /\ x.job.status \in Canceled
      BY <1>0, <2>1 DEF PlainWorker1
    <3>2. x.job.task = None
      BY <1>0, <1>1, <3>1 DEF PlainJob
    <3>3. QED
      BY <3>1, <3>2 DEF Eff
  <2>2. CASE x.pc \notin {"cancel", "recheck"}
    BY <1>0, <2>2 DEF OwingWorker, OwingPcs, PlainWorker1, Updating
  <2>3. QED
    BY <2>1, <2>2
<1>3. x.eff \in GroupFinished
  BY <1>0, <1>1, <1>2, EffIs DEF OwingWorker, Clean
<1>4. QED
  BY <1>0, <1>1, <1>2, <1>3 DEF Job

\* A job that owes a cleanup goes on to owe it: a finished row keeps its status.
LEMMA OwingJobStays ==
  ASSUME Here, [Next]_vars, NEW j \in Job, PlainJob(j), HeardJob(j), NEW g, OwingJob(j, g)
  PROVE  OwingJob(j, g)'
<1>1. MaxRetry = 0
  BY HereGives
<1>2. ASSUME j.type = "UpdateGroup", j.task # None PROVE rows'[j.task][0].status = Eff(j)
  <2>1. rows[j.task][0].status = Eff(j) /\ Eff(j) \in GroupFinished /\ j.task \in Tasks
    BY <1>1, <1>2, EffIs DEF OwingJob, Job
  <2>2. QED
    BY <2>1, RowsKeep DEF Over
<1>3. QED
  BY <1>2 DEF OwingJob, Cleans, Eff, ExitStatus

\* A job that is taken leaves its debt to the one that takes it.
LEMMA OwingTaken ==
  ASSUME Here, [Next]_vars, NEW g \in Groups, NEW j \in queue, OwingJob(j, g)
  PROVE  Owing(g)'
<1>0. j \in Job /\ PlainJob(j) /\ HeardJob(j) /\ MaxRetry = 0
  BY HereGives
<1>1. OwingJob(j, g)'
  BY <1>0, OwingJobStays
<1>2. CASE j \in queue'
  BY <1>1, <1>2 DEF Owing
<1>3. CASE j \notin queue' /\ j.type = "CleanupGroup"
  <2>1. agent'.pc = "apply" /\ agent'.job = j
    BY <1>3, Taken
  <2>2. QED
    BY <1>3, <2>1 DEF Owing, Applies, OwingJob
<1>4. CASE j \notin queue' /\ j.type = "UpdateGroup"
  <2>1. /\ Cleans(j, Eff(j)) /\ j.group = g /\ j.status # "FAILED_START_TIMEOUT"
        /\ j.task # None => rows'[j.task][0].status = Eff(j)
    <3>1. j.task = None => j.status \in Canceled \cup WholeGroup
      BY <1>0, <1>4 DEF PlainJob
    <3>2. j.task = None => j.status # "FAILED_START_TIMEOUT"
      BY <3>1 DEF Canceled, WholeGroup
    <3>3. QED
      BY <1>1, <1>4, <3>2 DEF OwingJob, Cleans, Eff, ExitStatus
  <2>2. PICK w \in Workers : Begun(j, w)
    BY <1>4, <2>1, Taken
  <2>3. j.status \in Canceled \cup WholeGroup => j.task = None /\ Eff(j) = j.status
    BY <1>0, <1>4 DEF PlainJob, Eff
  <2>4. worker'[w].job = j /\ worker'[w].pc \in {"cancel", "aggregate", "reread"} /\ worker'[w].eff = Eff(j)
    BY <2>1, <2>2, <2>3 DEF Begun
  <2>5. OwingWorker(worker[w], g)'
    BY <2>1, <2>4 DEF OwingWorker, OwingPcs, Clean, Cleans
  <2>6. QED
    BY <2>5 DEF Owing
<1>5. QED
  BY <1>2, <1>3, <1>4 DEF OwingJob

\* A worker that goes on still owes the cleanup, until it has sent it.
LEMMA OwingMoves ==
  ASSUME Here, CleanupsKept, [Next]_vars, NEW g \in Groups, NEW w \in Workers,
         OwingWorker(worker[w], g)
  PROVE  Owing(g)'
<1> USE DEF db, jobs
<1> DEFINE x == worker[w]
           y == worker'[w]
<1>0. /\ worker \in [Workers -> Worker] /\ x \in Worker /\ Shape /\ backendUp /\ MaxRetry = 0
      /\ PlainWorker1(x) /\ Ending(x)
  BY HereGives
<1>1. /\ x.job.type = "UpdateGroup" /\ x.job \in Job /\ PlainJob(x.job) /\ HeardJob(x.job)
      /\ x.eff = Eff(x.job) /\ x.eff \in GroupFinished /\ (x.job.task # None => x.job.task \in Tasks)
      /\ x.job.group = g /\ x.pc \in OwingPcs /\ Clean(x)
  BY OwingFields DEF OwingWorker
<1>2. x.job.task # None => rows'[x.job.task][0].status = x.eff
  BY <1>1, RowsKeep DEF OwingWorker, Over
<1>3. ASSUME y.job = x.job, y.eff = x.eff, y.pc \in OwingPcs PROVE Owing(g)'
  <2>1. Clean(y)
    BY <1>1, <1>3 DEF Clean
  <2>2. OwingWorker(x, g)'
    BY <1>1, <1>2, <1>3, <2>1 DEF OwingWorker, Clean, Cleans
  <2>3. QED
    BY <2>2 DEF Owing
<1>4. ASSUME x.job \in queue', x.job.status # "FAILED_START_TIMEOUT" PROVE Owing(g)'
  <2>1. OwingJob(x.job, g)
    BY <1>1, <1>4 DEF OwingJob, OwingWorker, Clean
  <2>2. PICK j \in queue' : j = x.job
    BY <1>4
  <2>3. OwingJob(j, g)'
    BY <1>1, <2>1, <2>2, OwingJobStays
  <2>4. QED
    BY <2>3 DEF Owing
<1>5. CASE y = x
  BY <1>1, <1>3, <1>5
<1>6. CASE Crash(w)
  <2>1. x.job \in queue' /\ MaxCrashes # 0
    BY <1>0, <1>6 DEF Crash, Shape, CrashShape
  <2>2. x.job.status # "FAILED_START_TIMEOUT"
    BY <1>1, <2>1 DEF CleanupsKept, PlainJob
  <2>3. QED
    BY <1>4, <2>1, <2>2
<1>7. CASE Submit(w) \/ Process(w) \/ Other(w)
  BY <1>1, <1>7 DEF OwingPcs, Submit, Process, Other, InsertWorkflow, InsertGroups, MarkWaiting,
                    CheckWaiting, LaunchDownstream, SetTasks, SendCreate, CancelWorkflow,
                    CheckQueueTimeout, CheckRunTimeout, CleanupWorkflow, At, Free
<1>8. CASE \/ FetchCancel(w) \/ UpdateWholeGroup(w) \/ UpdateNoTask(w) \/ CheckStartTimeout(w)
           \/ UpdateTaskStatus(w) \/ EndLateStart(w) \/ FailWithoutBackend(w) \/ InsertRetry(w)
           \/ SendRetry(w)
  BY <1>0, <1>1, <1>8 DEF OwingPcs, FetchCancel, UpdateWholeGroup, UpdateNoTask, CheckStartTimeout,
                    UpdateTaskStatus, EndLateStart, FailWithoutBackend, WithoutBackend, InsertRetry,
                    SendRetry, At, Free
<1>9. CASE Cancel(w) \/ UpdateSiblings(w)
  <2>1. Goto(w, "recheck") \/ Goto(w, "aggregate")
    BY <1>9 DEF Cancel, UpdateSiblings
  <2>2. y.job = x.job /\ y.eff = x.eff /\ y.pc \in {"recheck", "aggregate"}
    BY <1>0, <2>1, GotoGives
  <2>3. QED
    BY <1>3, <2>2 DEF OwingPcs
<1>10. CASE Recheck(w)
  <2>1. CASE queue' = queue \cup {x.job}
    <3>1. x.job.status \in Canceled
      BY <1>0, <1>10 DEF Recheck, At, PlainWorker1
    <3>2. QED
      BY <1>4, <2>1, <3>1 DEF Canceled
  <2>2. CASE \E n : worker' = [worker EXCEPT ![w].pc = "writeGroup", ![w].new = n]
    <3>1. y.job = x.job /\ y.eff = x.eff /\ y.pc = "writeGroup"
      BY <1>0, <2>2 DEF Worker
    <3>2. QED
      BY <1>3, <3>1 DEF OwingPcs
  <2>3. QED
    BY <1>10, <2>1, <2>2 DEF Recheck
<1>11. CASE Reread(w)
  <2>1. x.pc = "reread" /\ x.job.task # None /\ x.job.retry = 0
    BY <1>0, <1>1, <1>11 DEF Reread, At, PlainWorker1, PlainJob
  <2>2. rows[x.job.task][0].status = x.eff
    BY <1>1, <2>1 DEF OwingWorker
  <2>3. \/ x.eff \in Finished /\ IsLead(x.job.task)
        \/ x.eff \in FailedStatuses /\ GroupOf[x.job.task] \notin IgnoreNonlead
    BY <1>0, <1>1, <2>1, EffIs DEF Clean
  <2>4. x.eff # "RESCHEDULED"
    BY <1>1, Apart
  <2>5. Goto(w, "siblings")
    BY <1>11, <2>1, <2>2, <2>3, <2>4 DEF Reread
  <2>6. y.job = x.job /\ y.eff = x.eff /\ y.pc = "siblings"
    BY <1>0, <2>5, GotoGives
  <2>7. QED
    BY <1>3, <2>6 DEF OwingPcs
<1>12. CASE Aggregate(w)
  <2>0. x.eff # "RESCHEDULED"
    BY <1>1, Apart
  <2>1. \E n : worker' = [worker EXCEPT ![w].pc = "writeGroup", ![w].eff = x.eff, ![w].new = n,
                                    ![w].clocks = {}]
    BY <1>12, <2>0 DEF Aggregate
  <2>2. y.job = x.job /\ y.eff = x.eff /\ y.pc = "writeGroup"
    BY <1>0, <2>1 DEF Worker
  <2>3. QED
    BY <1>3, <2>2 DEF OwingPcs
<1>13. CASE WriteGroup(w) \/ ReadGroups(w) \/ WriteWorkflow(w)
  <2>1. \E p \in {"readGroups", "writeWorkflow", "finish"} : \E n :
          worker' = [worker EXCEPT ![w].pc = p, ![w].new = n]
    BY <1>13 DEF WriteGroup, ReadGroups, WriteWorkflow
  <2>2. y.job = x.job /\ y.eff = x.eff /\ y.pc \in {"readGroups", "writeWorkflow", "finish"}
    BY <1>0, <2>1 DEF Worker
  <2>3. QED
    BY <1>3, <2>2 DEF OwingPcs
<1>14. CASE Finish(w)
  <2> DEFINE k == GroupJob("CleanupGroup", g)
             F == IF grp[x.job.group].status \in FailedStatuses THEN {"FAILED_UPSTREAM"} ELSE {}
             J == {UpdateGroup(d, f) : d \in Downstream(x.job.group), f \in F}
  <2>1. Send(CleanupGroupJobs(x.job, x.eff, HasBackend(x.job)) \cup J)
    BY <1>0, <1>14, BackendIsFound DEF Finish
  <2>2. k \in CleanupGroupJobs(x.job, x.eff, HasBackend(x.job))
    BY <1>0, <1>1, BackendIsFound DEF CleanupGroupJobs, Clean
  <2>3. k.type = "CleanupGroup" /\ k.group = g
    BY Fields
  <2>4. New(k)
    BY <2>3 DEF New, Random
  <2> HIDE DEF k
  <2>5. k \in queue'
    BY <2>1, <2>2, <2>4 DEF Send
  <2>6. PICK j \in queue' : j.type = "CleanupGroup" /\ j.group = g
    BY <2>3, <2>5
  <2>7. OwingJob(j, g)'
    BY <2>6 DEF OwingJob
  <2>8. QED
    BY <2>7 DEF Owing
<1>15. CASE ReleaseDownstream(w)
  BY <1>1, <1>15 DEF OwingPcs, ReleaseDownstream, At
<1>16. QED
  <2>1. CASE WorkerStep(w)
    BY <1>7, <1>8, <1>9, <1>10, <1>11, <1>12, <1>13, <1>14, <1>15, <2>1 DEF WorkerStep, Update
  <2>2. CASE ~(WorkerStep(w) \/ Crash(w))
    <3>1. CASE \E v \in Workers : WorkerStep(v) \/ Crash(v)
      BY <1>0, <1>5, <2>2, <3>1, OthersStay
    <3>2. CASE ~\E v \in Workers : WorkerStep(v) \/ Crash(v)
      BY <1>5, <3>2, WorkersStay
    <3>3. QED
      BY <3>1, <3>2
  <2>3. QED
    BY <1>6, <2>1, <2>2

\* What the backend worker does to the job it has.
LEMMA AgentHolds ==
  ASSUME Here, CleanupsKept, [Next]_vars, NEW g \in Groups, Applies("CleanupGroup", g)
  PROVE  Owing(g)' \/ (Apply /\ agent'.pc = "execute")
<1> USE DEF cluster
<1>0. /\ agent \in [pc : {"idle", "apply", "execute"}, job : Named] /\ PlainJob(agent.job)
      /\ agent.pc = "apply" /\ agent.job.type = "CleanupGroup" /\ agent.job.group = g
  BY DEF Here, Known, Shape, ClusterShape, Orderly, PlainJobs, Applies
<1>1. CASE agent' = agent
  BY <1>0, <1>1 DEF Owing, Applies
<1>2. CASE Apply
  <2>1. agent' = [agent EXCEPT !.pc = "execute"]
    BY <1>2 DEF Apply
  <2>2. agent'.pc = "execute"
    BY <1>0, <2>1
  <2>3. QED
    BY <1>2, <2>2
<1>3. CASE Disconnect
  <2>1. agent.job \in queue'
    BY <1>3 DEF Disconnect
  <2>2. PICK j \in queue' : j.type = "CleanupGroup" /\ j.group = g
    BY <1>0, <2>1
  <2>3. OwingJob(j, g)'
    BY <2>2 DEF OwingJob
  <2>4. QED
    BY <2>3 DEF Owing
<1>4. CASE PrepareCreateGroup \/ PrepareCleanupGroup \/ PrepareRescheduleTask \/ Execute \/ Refuse
  BY <1>0, <1>4 DEF PrepareCreateGroup, PrepareCleanupGroup, PrepareRescheduleTask, Execute, Refuse,
                    CleanupsKept
<1>5. CASE \E w \in Workers : WorkerStep(w) \/ Crash(w)
  BY <1>1, <1>5, WorkersOnly
<1>6. CASE \/ \E t \in Tasks : PodMoves(t) \/ PodEnds(t)
           \/ \E force \in CancelForms : AskCancel(force)
           \/ DeleteBackend \/ UNCHANGED vars
  BY <1>1, <1>6 DEF PodMoves, PodEnds, AskCancel, DeleteBackend, vars
<1>7. QED
  BY <1>2, <1>3, <1>4, <1>5, <1>6 DEF Next, AgentStep

\* A cleanup that is under way stays so until the pods are gone.
LEMMA OwingStays ==
  ASSUME Here, CleanupsKept, [Next]_vars, NEW g \in Groups, Owing(g)
  PROVE  Owing(g)' \/ (Applies("CleanupGroup", g) /\ Apply /\ agent'.pc = "execute")
<1>1. CASE \E j \in queue : OwingJob(j, g)
  BY <1>1, OwingTaken
<1>2. CASE Applies("CleanupGroup", g)
  BY <1>2, AgentHolds
<1>3. CASE \E w \in Workers : OwingWorker(worker[w], g)
  BY <1>3, OwingMoves
<1>4. QED
  BY <1>1, <1>2, <1>3 DEF Owing

\* Who ends a task owes the cleanup of its group.
LEMMA EndingOwes ==
  ASSUME Here, [Next]_vars, NEW t \in Tasks, rows'[t][0].status # rows[t][0].status,
         \/ IsLead(t) /\ rows'[t][0].status \in GroupFinished
         \/ GroupOf[t] \notin IgnoreNonlead /\ rows'[t][0].status \in FailedStatuses
  PROVE  Owing(GroupOf[t]) \/ Owing(GroupOf[t])'
<1> DEFINE g == GroupOf[t]
<1>0. /\ rows[t][0] \in Row /\ PlainRow(rows[t][0]) /\ MaxRetry = 0 /\ None \notin Tasks
  BY HereGives, WorkflowAssumption
<1>1. rows'[t][0].status \in GroupFinished
  BY Apart
<1>2. PICK w \in Workers, s \in Heard \ {"RESCHEDULED"} :
        rows'[t][0] = UpdateTaskRow(rows[t][0], s) /\ Writing(w, t, s)
  <2>1. RowStep(t)
    BY RowSteps
  <2>2. {"WAITING", "PROCESSING"} \cap GroupFinished = {}
    BY Apart DEF Prerunning, InQueue, Prescheduling
  <2>3. QED
    BY <1>1, <2>1, <2>2 DEF RowStep
<1>3. rows'[t][0].status = s
  BY <1>0, <1>2, RowTakes
<1> DEFINE y == worker'[w]
<1>4. /\ y.job.type = "UpdateGroup" /\ y.job.group = g /\ PlainJob(y.job) /\ HeardJob(y.job)
      /\ y.job \in Job /\ y.eff = Eff(y.job)
  BY <1>2 DEF Writing
<1>5. CASE y.pc = "reread" /\ y.job.task = t /\ y.eff = s
  <2>1. s \in Finished
    BY <1>1, <1>3, Apart
  <2>2. Cleans(y.job, y.eff)
    BY <1>3, <1>4, <1>5, <2>1 DEF Cleans
  <2>3. OwingWorker(worker[w], g)'
    BY <1>3, <1>4, <1>5, <2>2 DEF OwingWorker, OwingPcs, Clean, Cleans
  <2>4. QED
    BY <2>3 DEF Owing
<1>6. CASE /\ Clean(y) /\ y.pc \in {"aggregate", "writeGroup"} /\ y.job.task = None
  <2>1. OwingWorker(worker[w], g)'
    BY <1>4, <1>6 DEF OwingWorker, OwingPcs, Clean, Cleans
  <2>2. QED
    BY <2>1 DEF Owing
<1>7. CASE /\ At(w, "siblings") /\ y.job = worker[w].job
  <2>1. Clean(worker[w]) /\ rows[worker[w].job.task][0].status = worker[w].eff
    BY <1>7, HereGives DEF Ending, At
  <2>2. OwingWorker(worker[w], g)
    BY <1>4, <1>7, <2>1 DEF OwingWorker, OwingPcs, At
  <2>3. QED
    BY <2>2 DEF Owing
<1>8. QED
  BY <1>2, <1>5, <1>6, <1>7 DEF Writing

\* Who closes a group owes its cleanup.
LEMMA ClosingOwes ==
  ASSUME Here, [Next]_vars, NEW g \in Groups, ~Closed(g), Closed(g)'
  PROVE  Owing(g) \/ AllOver(g)
<1>0. grp[g] \in GroupRow /\ grp[g].status # "RESCHEDULED" /\ ("end" \in grp[g].stamps => Closed(g))
  BY HereGives DEF Here, Known, Ends, PlainGroups, Orderly, PlainData
<1>1. GroupStep(g)
  BY GroupSteps
<1>2. grp'[g].status # grp[g].status /\ grp'[g].status \notin Launching
  <2>1. Launching \cap GroupFinished = {}
    BY DEF Launching, GroupFinished, FailedStatuses
  <2>2. QED
    BY <2>1 DEF Closed
<1>3. CASE \E w \in Workers : Cancel(w) /\ worker[w].job.group = g
  <2>1. PICK w \in Workers : Cancel(w) /\ worker[w].job.group = g
    BY <1>3
  <2>2. /\ worker[w].pc = "cancel" /\ worker[w].job.status \in Canceled
        /\ worker[w].eff = worker[w].job.status /\ worker[w].job.type = "UpdateGroup"
        /\ PlainJob(worker[w].job)
    BY <2>1, HereGives DEF Cancel, At, PlainWorker1
  <2>3. worker[w].job.task = None /\ worker[w].eff \in Finished
    BY <2>2, Apart DEF PlainJob
  <2>4. OwingWorker(worker[w], g)
    BY <2>1, <2>2, <2>3 DEF OwingWorker, OwingPcs, Clean, Cleans
  <2>5. QED
    BY <2>4 DEF Owing
<1>4. CASE \E w \in Workers : WriteGroup(w) /\ worker[w].job.group = g
                              /\ grp'[g] = UpdateGroupRow(grp[g], worker[w].new, FALSE)
  <2>1. PICK w \in Workers, f \in BOOLEAN : WriteGroup(w) /\ worker[w].job.group = g
                              /\ grp'[g] = UpdateGroupRow(grp[g], worker[w].new, f)
    BY <1>4
  <2>2. worker[w].new \in Heard \ {"RESCHEDULED"} /\ worker[w].pc = "writeGroup"
    BY <2>1, WritesHeard DEF WriteGroup, At
  <2>3. grp'[g].status = worker[w].new
    BY <1>0, <1>2, <2>1, <2>2, GroupTakes DEF Closed
  <2>4. AllOver(g)
    BY <2>1, <2>2, <2>3, HereGives DEF Ending, Closed
  <2>5. QED
    BY <2>4
<1>5. QED
  BY <1>0, <1>1, <1>2, <1>3, <1>4 DEF GroupStep, GroupRow

\* A closed group gets no pods any more.
LEMMA NoPodsAppear ==
  ASSUME Here, [Next]_vars, NEW g \in Groups, Closed(g), ~HasPods(g), ~Applies("CreateGroup", g)
  PROVE  ~HasPods(g)' /\ ~Applies("CreateGroup", g)'
<1>1. ASSUME NEW t \in TasksOf(g) PROVE pod'[t].phase = "none"
  <2>1. t \in Tasks /\ GroupOf[t] = g /\ pod[t].phase = "none"
    BY DEF TasksOf, HasPods
  <2>2. PodStep(t)
    BY <2>1, PodSteps
  <2>3. QED
    BY <2>1, <2>2 DEF PodStep, Apply, Refuse, Applies
<1>2. ~Applies("CreateGroup", g)'
  <2>0. agent \in [pc : {"idle", "apply", "execute"}, job : Named] /\ \A j \in queue : PlainJob(j)
    BY DEF Here, Known, Shape, ClusterShape, Orderly, PlainJobs
  <2>1. CASE PrepareCreateGroup
    <3>1. PICK j \in queue : \/ grp[j.group].status \in {"WAITING", "PROCESSING"} /\ Launch(j)
                             \/ UNCHANGED agent
      BY <2>1 DEF PrepareCreateGroup
    <3>2. {"WAITING", "PROCESSING"} \cap GroupFinished = {}
      BY Apart DEF Prerunning, InQueue, Prescheduling
    <3>3. QED
      BY <3>1, <3>2 DEF Launch, Applies, Closed
  <2>2. CASE PrepareCleanupGroup \/ PrepareRescheduleTask
    <3>1. PICK j \in queue : j.type # "CreateGroup" /\ (Launch(j) \/ UNCHANGED agent)
      BY <2>2 DEF PrepareCleanupGroup, PrepareRescheduleTask
    <3>2. QED
      BY <3>1 DEF Launch, Applies
  <2>3. CASE Apply \/ Execute \/ Refuse \/ Disconnect
    BY <2>0, <2>3 DEF Apply, Execute, Refuse, Disconnect, Applies
  <2>4. CASE \E w \in Workers : WorkerStep(w) \/ Crash(w)
    BY <2>4, WorkersOnly DEF cluster, Applies
  <2>5. CASE \/ \E t \in Tasks : PodMoves(t) \/ PodEnds(t)
             \/ \E force \in CancelForms : AskCancel(force)
             \/ DeleteBackend \/ UNCHANGED vars
    BY <2>5 DEF PodMoves, PodEnds, AskCancel, DeleteBackend, vars, cluster, Applies
  <2>6. QED
    BY <2>1, <2>2, <2>3, <2>4, <2>5 DEF Next, AgentStep
<1>3. ~HasPods(g)'
  BY <1>1 DEF HasPods, TasksOf
<1>4. QED
  BY <1>2, <1>3

\* The pods of a group that is applied for cleanup are gone.
LEMMA PodsGo ==
  ASSUME Here, [Next]_vars, NEW g \in Groups, Applies("CleanupGroup", g), Apply
  PROVE  ~HasPods(g)'
<1>1. agent.job.type = "CleanupGroup" /\ agent.job.group = g /\ agent.job.task = None
  BY DEF Applies, Here, Orderly, PlainJobs, PlainJob
<1>2. \A t \in TasksOf(g) : t \in Tasks /\ GroupOf[t] = g
  BY DEF TasksOf
<1>3. \A t \in TasksOf(g) : pod'[t] = NoPod
  BY <1>1, <1>2 DEF Apply
<1>4. QED
  BY <1>3 DEF HasPods, TasksOf, NoPod

\* The invariant about the cleanups is inductive.
LEMMA OwedStays ==
  ASSUME Here, CleanupsKept, Late, Owed, [Next]_vars
  PROVE  Owed'
<1> SUFFICES ASSUME NEW g \in Groups, Ended(g)', ~Closed(g)' \/ HasPods(g)' \/ Applies("CreateGroup", g)'
             PROVE  Owing(g)'
  BY DEF Owed
<1>1. CASE Owing(g)
  <2>1. SUFFICES ASSUME Applies("CleanupGroup", g), Apply, agent'.pc = "execute" PROVE FALSE
    BY <1>1, OwingStays
  <2>2. Closed(g)
    BY <2>1 DEF Late, Tidied, Cleanup, Applies
  <2>3. Closed(g)'
    BY <2>2, GroupsKeep
  <2>4. ~HasPods(g)' /\ ~Applies("CreateGroup", g)'
    BY <2>1, PodsGo DEF Applies
  <2>5. QED
    BY <2>3, <2>4
<1>2. CASE ~Owing(g) /\ Ended(g)
  <2>1. Closed(g) /\ ~HasPods(g) /\ ~Applies("CreateGroup", g)
    BY <1>2 DEF Owed
  <2>2. QED
    BY <2>1, GroupsKeep, NoPodsAppear
<1>3. CASE ~Owing(g) /\ ~Ended(g)
  <2>0. Lead[g] \in Tasks /\ GroupOf[Lead[g]] = g /\ IsLead(Lead[g]) /\ Lead[g] \in TasksOf(g)
    BY WorkflowAssumption DEF IsLead, TasksOf
  <2>1. CASE Closed(g)'
    <3>1. Owing(g) \/ AllOver(g)
      BY <1>3, <2>1, ClosingOwes DEF Ended
    <3>2. QED
      BY <1>3, <2>0, <3>1 DEF AllOver, Ended
  <2>2. CASE Over(Lead[g])'
    <3>1. rows[Lead[g]][0].status \notin GroupFinished /\ rows'[Lead[g]][0].status \in GroupFinished
      BY <1>3, <2>2 DEF Ended, Over
    <3>2. QED
      BY <1>3, <2>0, <3>1, EndingOwes
  <2>3. CASE g \notin IgnoreNonlead /\ \E t \in TasksOf(g) : rows'[t][0].status \in FailedStatuses
    <3>1. PICK t \in TasksOf(g) : rows'[t][0].status \in FailedStatuses
      BY <2>3
    <3>2. rows[t][0].status \notin FailedStatuses /\ t \in Tasks /\ GroupOf[t] = g
      BY <1>3, <2>3 DEF Ended, TasksOf
    <3>3. QED
      BY <1>3, <2>3, <3>1, <3>2, EndingOwes
  <2>4. QED
    BY <2>1, <2>2, <2>3 DEF Ended, TasksOf
<1>4. QED
  BY <1>1, <1>2, <1>3

\* It holds initially.
LEMMA InitOwed == MaxRetry = 0 /\ Init => Owed
<1> SUFFICES ASSUME MaxRetry = 0, Init PROVE Owed
  OBVIOUS
<1>1. \A g \in Groups : ~Closed(g)
  BY Apart DEF Init, Closed
<1>2. 0 \in Retries
  BY OneRow
<1>3. \A t \in Tasks : rows[t][0].status = Absent
  BY <1>2 DEF Init, RowAbsent
<1>4. \A g \in Groups : ~Ended(g)
  BY <1>1, <1>3, WorkflowAssumption, Apart DEF Ended, Over, TasksOf
<1>5. QED
  BY <1>4 DEF Owed

\* Everything that is known while the backend is there.
LEMMA OwedInvariant ==
  MaxRetry = 0 /\ CleanupsKept => (Spec => [](Known /\ (backendUp => Orderly /\ Late /\ Owed)))
<1> SUFFICES ASSUME MaxRetry = 0, CleanupsKept
             PROVE  Spec => [](Known /\ (backendUp => Orderly /\ Late /\ Owed))
  OBVIOUS
<1> DEFINE IInv == Known /\ (backendUp => Orderly)
           LInv == backendUp => Late /\ Owed
<1>1. Spec => []IInv
  BY OrderlyInvariant
<1>2. Init => LInv
  BY InitLate, InitOwed
<1>3. IInv /\ LInv /\ [Next]_vars => LInv'
  BY LateStays, OwedStays, GoesForGood DEF Here
<1>4. QED
  BY <1>1, <1>2, <1>3, PTL DEF Spec

\* Where tasks are not retried and no cleanup is lost, nothing is left on the cluster of
\* a group that has finished once the queue is empty (CleanupGroup).
THEOREM NoPodIsLeft == MaxRetry = 0 /\ CleanupsKept => (Spec => []NoOrphanPods)
<1> SUFFICES ASSUME MaxRetry = 0, CleanupsKept PROVE Spec => []NoOrphanPods
  OBVIOUS
<1>1. ASSUME Known, backendUp => Orderly /\ Late /\ Owed PROVE NoOrphanPods
  <2>1. SUFFICES ASSUME Quiet, backendUp, NEW t \in Tasks, Closed(GroupOf[t]) PROVE pod[t].phase = "none"
    BY DEF NoOrphanPods, Closed
  <2>2. ~Owing(GroupOf[t])
    BY <2>1 DEF Quiet, Free, Owing, Applies, OwingWorker, OwingPcs
  <2>3. GroupOf[t] \in Groups /\ t \in TasksOf(GroupOf[t])
    BY WorkflowAssumption DEF TasksOf
  <2>4. ~HasPods(GroupOf[t])
    BY <1>1, <2>1, <2>2, <2>3 DEF Owed, Ended
  <2>5. QED
    BY <2>3, <2>4 DEF HasPods
<1>2. QED
  BY <1>1, OwedInvariant, PTL

=============================================================================
