-------------------------- MODULE GroupFlowProofs --------------------------
(***************************************************************************)
(* A workflow implements GroupFlow: for any workflow, any number of        *)
(* workers and any number of crashes, refusals, cancels and retries, every *)
(* step of WorkflowJobs is a step of GroupFlow or none.                    *)
(***************************************************************************)
EXTENDS WorkflowOrderProofs

-----------------------------------------------------------------------------
(***************************************************************************)
(* A group that has started does not wait again.  The statuses that a job  *)
(* carries are those that a pod, a timeout, a cancel or a failure reports, *)
(* none of which comes before SCHEDULING.                                  *)
(***************************************************************************)
Heard == TaskGroupStatuses \ Prescheduling

HeardJob(j) == j.type = "UpdateGroup" => j.status \in Heard

HeardWorker(x) ==
  /\ HeardJob(x.job)
  /\ x.pc = "startTimeout" => x.job.type = "UpdateGroup"
  /\ x.pc \in UpdatingTask \cup {"aggregate"} => x.eff \in Heard
  /\ x.pc = "writeGroup" => x.new \in Heard

Hearsay == /\ \A j \in queue : HeardJob(j)
           /\ HeardJob(agent.job)
           /\ \A v \in Workers : HeardWorker(worker[v])

\* At the start nothing was reported.
LEMMA InitHearsay == Init => Hearsay
  BY DEF Init, Hearsay, HeardJob, HeardWorker, JobOf, NoJob, Idle, UpdatingTask

\* What the code reports by itself.
LEMMA HeardStatuses ==
  /\ Canceled \cup WholeGroup \subseteq Heard
  /\ GroupFinished \subseteq Heard /\ Reports \subseteq Heard
  /\ {"FAILED", "FAILED_CANCELED", "FAILED_BACKEND_ERROR", "FAILED_START_TIMEOUT", "COMPLETED",
      "RESCHEDULED", "SCHEDULING", "INITIALIZING", "RUNNING"} \subseteq Heard
<1>1. Finished \cap Prescheduling = {} /\ Finished \subseteq TaskGroupStatuses
  BY DEF Finished, GroupFinished, FailedStatuses, Prescheduling, TaskGroupStatuses
<1>2. {"SCHEDULING", "INITIALIZING", "RUNNING"} \subseteq Heard
  BY DEF Heard, TaskGroupStatuses, Prerunning, InQueue, Prescheduling
<1>3. Canceled \cup WholeGroup \cup GroupFinished \subseteq Finished
  BY DEF Canceled, WholeGroup, Finished, GroupFinished, FailedStatuses
<1>4. {"FAILED", "FAILED_CANCELED", "FAILED_BACKEND_ERROR", "FAILED_START_TIMEOUT", "COMPLETED",
       "RESCHEDULED"} \subseteq Finished
  BY DEF Finished, GroupFinished, FailedStatuses
<1>5. Reports \subseteq {"SCHEDULING", "INITIALIZING", "RUNNING"}
  BY WorkflowAssumption
<1>6. Finished \subseteq Heard
  BY <1>1 DEF Heard
<1>7. QED
  BY <1>2, <1>3, <1>4, <1>5, <1>6

\* An aggregate comes after the launch.
LEMMA AggregatesHeard ==
  ASSUME NEW st, NEW considered
  PROVE  AggregateGroup(st, considered) \in Heard
<1>1. {"RUNNING", "INITIALIZING", "COMPLETED", "FAILED", "FAILED_UPSTREAM", "FAILED_SERVER_ERROR",
       "FAILED_PREEMPTED", "FAILED_EVICTED"} \subseteq Heard
  BY HeardStatuses DEF GroupFinished, FailedStatuses
<1>2. QED
  BY <1>1 DEF AggregateGroup

\* The jobs that the code makes.
LEMMA HeardMade ==
  /\ HeardJob(NoJob)
  /\ \A type : type # "UpdateGroup" => HeardJob(JobOf(type))
  /\ \A f : HeardJob([JobOf("CancelWorkflow") EXCEPT !.force = f])
  /\ \A type, h : type # "UpdateGroup" => HeardJob(GroupJob(type, h))
  /\ \A type, t, n : type # "UpdateGroup" => HeardJob(TaskJob(type, t, n))
  /\ \A h, s : s \in Heard => HeardJob(UpdateGroup(h, s))
  /\ \A h, f : HeardJob([UpdateGroup(h, "FAILED_CANCELED") EXCEPT !.force = f])
  /\ \A t, n, s : s \in Heard => HeardJob(UpdateTask(t, n, s))
  /\ \A t, n, s, a : s \in Heard => HeardJob([UpdateTask(t, n, s) EXCEPT !.action = a])
  /\ \A j : HeardJob(BackendError(j))
<1> USE DEF HeardJob, NoJob, JobOf, GroupJob
<1>1. /\ HeardJob(NoJob)
      /\ \A type : type # "UpdateGroup" => HeardJob(JobOf(type))
      /\ \A f : HeardJob([JobOf("CancelWorkflow") EXCEPT !.force = f])
      /\ \A type, h : type # "UpdateGroup" => HeardJob(GroupJob(type, h))
  OBVIOUS
<1>2. \A type, t, n : type # "UpdateGroup" => HeardJob(TaskJob(type, t, n))
  BY DEF TaskJob
<1>3. \A h, s : s \in Heard => HeardJob(UpdateGroup(h, s))
  BY DEF UpdateGroup
<1>4. \A h, f : HeardJob([UpdateGroup(h, "FAILED_CANCELED") EXCEPT !.force = f])
  BY HeardStatuses DEF UpdateGroup
<1>5. \A t, n, s : s \in Heard => HeardJob(UpdateTask(t, n, s))
  BY DEF TaskJob, UpdateTask
<1>6. \A t, n, s, a : s \in Heard => HeardJob([UpdateTask(t, n, s) EXCEPT !.action = a])
  BY DEF TaskJob, UpdateTask
<1>7. \A j : HeardJob(BackendError(j))
  BY <1>6, HeardStatuses DEF BackendError
<1>8. QED
  BY <1>1, <1>2, <1>3, <1>4, <1>5, <1>6, <1>7

\* The cleanups.
LEMMA HeardCleanups ==
  /\ \A h : \A j \in CleanupJobs(h) : HeardJob(j)
  /\ \A i, s, f : \A j \in CleanupGroupJobs(i, s, f) : HeardJob(j)
<1>1. \A h : \A j \in CleanupJobs(h) : HeardJob(j)
  BY HeardMade DEF CleanupJobs
<1>2. QED
  BY <1>1, HeardMade DEF CleanupGroupJobs

\* The jobs that a worker sends.
LEMMA HeardSent ==
  ASSUME Shape, Hearsay, NEW w \in Workers, WorkerStep(w) \/ Crash(w)
  PROVE  \A j \in queue' : HeardJob(j)
<1> USE DEF jobs
<1>0. (\A j \in queue : HeardJob(j)) /\ HeardJob(worker[w].job)
  BY DEF Hearsay, HeardWorker
<1>1. CASE Submit(w)
  <2>1. CASE InsertWorkflow(w) \/ InsertGroups(w) \/ MarkWaiting(w)
    BY <1>0, <2>1 DEF InsertWorkflow, InsertGroups, MarkWaiting, Take
  <2>2. CASE CheckWaiting(w)
    <3> DEFINE J == {UpdateGroup(g, "FAILED_SERVER_ERROR") :
                       g \in {h \in Groups : grp[h].status \notin Finished}}
    <3>1. UNCHANGED jobs \/ Send(J)
      BY <2>2 DEF CheckWaiting
    <3>2. \A j \in J : HeardJob(j)
      BY HeardMade, HeardStatuses DEF WholeGroup
    <3> HIDE DEF J
    <3>3. QED
      BY <1>0, <3>1, <3>2 DEF Send
  <2>3. QED
    BY <1>1, <2>1, <2>2 DEF Submit
<1>2. CASE Process(w)
  <2>1. UNCHANGED queue \/ \E h : Send({GroupJob("CreateGroup", h)})
    BY <1>2 DEF Process, LaunchDownstream, SetTasks, SendCreate
  <2>2. ASSUME NEW h, Send({GroupJob("CreateGroup", h)}) PROVE \A j \in queue' : HeardJob(j)
    <3>1. HeardJob(GroupJob("CreateGroup", h))
      BY HeardMade
    <3>2. QED
      BY <1>0, <2>2, <3>1 DEF Send
  <2>3. QED
    BY <1>0, <2>1, <2>2
<1>3. CASE \/ FetchCancel(w) \/ Cancel(w) \/ UpdateWholeGroup(w) \/ UpdateNoTask(w)
           \/ CheckStartTimeout(w) \/ EndLateStart(w) \/ UpdateTaskStatus(w)
  <2>1. queue' \subseteq queue
    BY <1>3 DEF FetchCancel, Cancel, UpdateWholeGroup, UpdateNoTask, CheckStartTimeout,
                EndLateStart, UpdateTaskStatus, Take
  <2>2. QED
    BY <1>0, <2>1
<1>4. CASE Recheck(w) \/ Crash(w)
  <2>1. queue' \subseteq queue \cup {worker[w].job}
    BY <1>4 DEF Recheck, Crash
  <2>2. QED
    BY <1>0, <2>1
<1>5. CASE FailWithoutBackend(w)
  <2>1. PICK j : \/ TakeAndSend(j, FailureJobs(j))
                 \/ Send(FailureJobs(j))
    BY <1>5 DEF FailWithoutBackend
  <2>2. \A i \in FailureJobs(j) : HeardJob(i)
    BY HeardCleanups DEF FailureJobs
  <2>3. QED
    BY <1>0, <2>1, <2>2 DEF Send, TakeAndSend
<1>6. CASE \/ Reread(w) \/ UpdateSiblings(w) \/ InsertRetry(w) \/ WriteGroup(w) \/ ReadGroups(w)
           \/ WriteWorkflow(w) \/ ReleaseDownstream(w)
  BY <1>0, <1>6 DEF Reread, UpdateSiblings, InsertRetry, WriteGroup, ReadGroups, WriteWorkflow,
                    ReleaseDownstream
<1>7. CASE SendRetry(w)
  <2>1. PICK t, n : Send({TaskJob("RescheduleTask", t, n)})
    BY <1>7 DEF SendRetry
  <2>2. QED
    BY <1>0, <2>1, HeardMade DEF Send
<1>8. CASE Aggregate(w)
  <2>1. PICK h, C : Send({GroupJob(IF c = "queue" THEN "CheckQueueTimeout" ELSE "CheckRunTimeout", h) :
                            c \in C})
    BY <1>8 DEF Aggregate
  <2>2. QED
    BY <1>0, <2>1, HeardMade DEF Send
<1>9. CASE Finish(w)
  <2> DEFINE s == grp[worker[w].job.group].status
             F == IF ~HasBackend(worker[w].job) THEN {"FAILED"}
                  ELSE IF s \in FailedStatuses THEN {"FAILED_UPSTREAM"} ELSE {}
             J == {UpdateGroup(d, f) : d \in Downstream(worker[w].job.group), f \in F}
  <2>1. Send(CleanupGroupJobs(worker[w].job, worker[w].eff, HasBackend(worker[w].job)) \cup J)
    BY <1>9 DEF Finish
  <2>2. \A j \in J : HeardJob(j)
    BY HeardMade, HeardStatuses DEF WholeGroup
  <2> HIDE DEF J
  <2>3. QED
    BY <1>0, <2>1, <2>2, HeardCleanups DEF Send
<1>10. CASE CancelWorkflow(w)
  <2> DEFINE J(f) == {[UpdateGroup(h, "FAILED_CANCELED") EXCEPT !.force = f] :
                        h \in {i \in Groups : /\ grp[i].status # Absent
                                              /\ grp[i].status \notin Finished \/ f}}
  <2>1. PICK i \in queue : TakeAndSend(i, J(i.force))
    BY <1>10 DEF CancelWorkflow
  <2>2. \A j \in J(i.force) : HeardJob(j)
    BY HeardMade
  <2> HIDE DEF J
  <2>3. QED
    BY <1>0, <2>1, <2>2 DEF TakeAndSend
<1>11. CASE CheckQueueTimeout(w) \/ CheckRunTimeout(w)
  <2>1. PICK j, h, s : /\ s \in Canceled
                       /\ Take(j) \/ TakeAndSend(j, {UpdateGroup(h, s)})
    BY <1>11 DEF CheckQueueTimeout, CheckRunTimeout, Canceled
  <2>2. QED
    BY <1>0, <2>1, HeardMade, HeardStatuses DEF Take, TakeAndSend
<1>12. CASE CleanupWorkflow(w)
  BY <1>0, <1>12 DEF CleanupWorkflow, Take
<1>13. QED
  BY <1>1, <1>2, <1>3, <1>4, <1>5, <1>6, <1>7, <1>8, <1>9, <1>10, <1>11, <1>12
     DEF WorkerStep, Update, Other

\* The jobs that the backend worker sends, and the one it holds.
LEMMA HeardBackend ==
  ASSUME Shape, Hearsay, AgentStep \/ Refuse \/ Disconnect
  PROVE  (\A j \in queue' : HeardJob(j)) /\ HeardJob(agent'.job)
<1> USE DEF jobs
<1>0. /\ \A j \in queue : HeardJob(j)
      /\ HeardJob(agent.job) /\ HeardJob(NoJob)
      /\ agent \in [pc : {"idle", "apply", "execute"}, job : Named]
  BY HeardMade DEF Hearsay, Shape, ClusterShape
<1> DEFINE Goal == (\A j \in queue' : HeardJob(j)) /\ HeardJob(agent'.job)
<1>1. ASSUME NEW j \in queue, Launch(j), Take(j) PROVE Goal
  BY <1>0, <1>1 DEF Launch, Take
<1>2. ASSUME NEW j, NEW J, \A i \in J : HeardJob(i),
             TakeAndSend(j, J) \/ Send(J) \/ UNCHANGED queue, agent'.job \in {agent.job, NoJob}
      PROVE  Goal
  BY <1>0, <1>2 DEF TakeAndSend, Send
<1> HIDE DEF Goal
<1>3. CASE PrepareCreateGroup
  <2>1. PICK j \in queue : \/ Launch(j) /\ Take(j)
                           \/ /\ TakeAndSend(j, {UpdateGroup(j.group, "FAILED_SERVER_ERROR")})
                              /\ UNCHANGED agent
    BY <1>3 DEF PrepareCreateGroup
  <2>2. HeardJob(UpdateGroup(j.group, "FAILED_SERVER_ERROR"))
    BY HeardMade, HeardStatuses DEF WholeGroup
  <2>3. Goal
    BY <1>1, <1>2, <2>1, <2>2
  <2>4. QED
    BY <2>3 DEF Goal
<1>4. CASE PrepareCleanupGroup
  <2>1. Goal
    BY <1>1, <1>4 DEF PrepareCleanupGroup
  <2>2. QED
    BY <2>1 DEF Goal
<1>5. CASE PrepareRescheduleTask
  <2> DEFINE J(j) == {BackendError(j)}
                     \cup {TaskJob("CleanupGroup", t, j.retry) :
                             t \in {u \in {j.task} :
                                      /\ Latest(j.task) = j.retry
                                      /\ rows[j.task][Latest(j.task)].status \in GroupFinished}}
  <2>1. PICK j \in queue : \/ Launch(j) /\ Take(j)
                           \/ TakeAndSend(j, J(j)) /\ UNCHANGED agent
    BY <1>5 DEF PrepareRescheduleTask
  <2>2. \A i \in J(j) : HeardJob(i)
    BY HeardMade, HeardStatuses
  <2> HIDE DEF J
  <2>3. Goal
    BY <1>1, <1>2, <2>1, <2>2
  <2>4. QED
    BY <2>3 DEF Goal
<1>6. CASE Apply
  <2>1. agent'.job = agent.job /\ UNCHANGED queue
    BY <1>0, <1>6 DEF Apply
  <2>2. QED
    BY <1>0, <2>1
<1>7. CASE Execute
  <2> DEFINE j == agent.job
             J == {TaskJob("CleanupGroup", t, j.retry) :
                     t \in {u \in {j.task} \ {None} : grp[j.group].status \in GroupFinished}}
  <2>1. /\ agent'.job = NoJob
        /\ Send(CleanupJobs(j.group)) \/ Send(J)
    BY <1>7 DEF Execute
  <2>2. \A i \in J : HeardJob(i)
    BY HeardMade
  <2> HIDE DEF J
  <2>3. Goal
    BY <1>2, <2>1, <2>2, HeardCleanups
  <2>4. QED
    BY <2>3 DEF Goal
<1>8. CASE Refuse
  <2> DEFINE j == agent.job
  <2>1. /\ agent'.job = NoJob
        /\ \/ Send({UpdateGroup(j.group, "FAILED_SERVER_ERROR")})
           \/ Send({BackendError(j)})
           \/ UNCHANGED queue
    BY <1>8 DEF Refuse
  <2>2. /\ HeardJob(UpdateGroup(j.group, "FAILED_SERVER_ERROR"))
        /\ HeardJob(BackendError(j))
    BY HeardMade, HeardStatuses DEF WholeGroup
  <2>3. Goal
    BY <1>2, <2>1, <2>2
  <2>4. QED
    BY <2>3 DEF Goal
<1>9. CASE Disconnect
  BY <1>0, <1>9 DEF Disconnect
<1>10. QED
  BY <1>3, <1>4, <1>5, <1>6, <1>7, <1>8, <1>9 DEF AgentStep

\* The jobs of the pods and of the users.
LEMMA HeardElsewhere ==
  ASSUME Hearsay, \/ \E t \in Tasks : PodMoves(t) \/ PodEnds(t)
                  \/ \E force \in CancelForms : AskCancel(force)
                  \/ DeleteBackend \/ UNCHANGED vars
  PROVE  (\A j \in queue' : HeardJob(j)) /\ HeardJob(agent'.job)
<1> USE DEF cluster, jobs
<1>0. (\A j \in queue : HeardJob(j)) /\ HeardJob(agent.job)
  BY DEF Hearsay
<1>1. ASSUME NEW t \in Tasks, PodMoves(t) PROVE (\A j \in queue' : HeardJob(j)) /\ UNCHANGED agent
  <2>1. PICK s \in Reports :
               /\ UNCHANGED agent
               /\ \/ Send({UpdateTask(t, pod[t].retry, s)})
                  \/ \E late \in StartTimeouts(t, s) : Send({UpdateTask(t, pod[t].retry, s), late})
    BY <1>1 DEF PodMoves
  <2>2. \A late \in StartTimeouts(t, s) : HeardJob(late)
    <3>1. \A a : HeardJob([UpdateTask(t, pod[t].retry, "FAILED_START_TIMEOUT") EXCEPT !.action = a])
      BY HeardMade, HeardStatuses
    <3>2. QED
      BY <3>1 DEF StartTimeouts
  <2>3. HeardJob(UpdateTask(t, pod[t].retry, s))
    BY HeardMade, HeardStatuses
  <2>4. QED
    BY <1>0, <2>1, <2>2, <2>3 DEF Send
<1>2. ASSUME NEW t \in Tasks, PodEnds(t) PROVE (\A j \in queue' : HeardJob(j)) /\ UNCHANGED agent
  <2>1. PICK o \in Outcomes :
               /\ UNCHANGED agent
               /\ Send({[UpdateTask(t, pod[t].retry, o.status) EXCEPT !.action = o.action]})
    BY <1>2 DEF PodEnds
  <2>2. o.status \in Heard
    BY HeardStatuses, WorkflowAssumption DEF GroupFinished, FailedStatuses
  <2>3. HeardJob([UpdateTask(t, pod[t].retry, o.status) EXCEPT !.action = o.action])
    BY <2>2, HeardMade
  <2>4. QED
    BY <1>0, <2>1, <2>3 DEF Send
<1>3. ASSUME NEW force \in CancelForms, AskCancel(force)
      PROVE  (\A j \in queue' : HeardJob(j)) /\ UNCHANGED agent
  <2>1. UNCHANGED agent /\ Send({[JobOf("CancelWorkflow") EXCEPT !.force = force]})
    BY <1>3 DEF AskCancel
  <2>2. QED
    BY <1>0, <2>1, HeardMade DEF Send
<1>4. CASE DeleteBackend \/ UNCHANGED vars
  BY <1>0, <1>4 DEF DeleteBackend, vars
<1>5. QED
  BY <1>0, <1>1, <1>2, <1>3, <1>4

\* What a worker is about to write was reported, or computed from the rows.
LEMMA HeardMoves ==
  ASSUME Shape, Sound, Hearsay, NEW w \in Workers, WorkerStep(w) \/ Crash(w)
  PROVE  HeardWorker(worker'[w])
<1> DEFINE x == worker[w]
           y == worker'[w]
<1> USE DEF cluster
<1>0. /\ worker \in [Workers -> Worker] /\ x \in Worker /\ SoundWorker(x) /\ HeardWorker(x)
      /\ HeardJob(x.job) /\ HeardJob(NoJob) /\ \A j \in queue : HeardJob(j)
  BY HeardMade DEF Shape, WorkerShape, GoodWorker, Sound, Hearsay, HeardWorker
<1> DEFINE Plain == {"idle", "insertGroups", "markWaiting", "checkWaiting", "setGroups", "setTasks",
                     "sendCreate", "cancel", "recheck", "readGroups", "writeWorkflow", "finish",
                     "downstream"}
<1>1. ASSUME HeardJob(y.job), y.pc \in Plain PROVE HeardWorker(y)
  BY <1>1 DEF HeardWorker, UpdatingTask
<1>2. ASSUME Done(w) PROVE HeardWorker(y)
  BY <1>0, <1>1, <1>2, DoneGives
<1>3. ASSUME NEW p \in Plain, Goto(w, p) PROVE HeardWorker(y)
  BY <1>0, <1>1, <1>3, GotoGives
<1>4. ASSUME NEW j \in queue, NEW p \in Plain, NEW s, Start(w, j, p, s) PROVE HeardWorker(y)
  BY <1>0, <1>1, <1>4, StartGives
<1>5. ASSUME NEW j \in queue, j.type = "UpdateGroup",
             Start(w, j, "aggregate", j.status) \/ Start(w, j, "startTimeout", j.status)
      PROVE  HeardWorker(y)
  <2>1. y.pc \in {"aggregate", "startTimeout"} /\ y.job = j /\ y.eff = j.status
    BY <1>0, <1>5, StartGives
  <2>2. HeardJob(j)
    BY <1>0
  <2>3. QED
    BY <1>5, <2>1, <2>2 DEF HeardWorker, HeardJob, UpdatingTask
<1>6. CASE Submit(w) \/ Process(w)
  <2>1. SetGroups(w) => HeardWorker(y)
    BY <1>0, <1>1, <1>2, SetGives
  <2>2. CASE InsertWorkflow(w) \/ InsertGroups(w) \/ SetTasks(w)
    BY <1>3, <1>4, <2>2 DEF InsertWorkflow, InsertGroups, SetTasks
  <2>3. CASE MarkWaiting(w)
    <3>1. \E r : y = [x EXCEPT !.pc = "checkWaiting", !.ready = r]
      BY <1>0, <2>3 DEF MarkWaiting
    <3>2. y.pc = "checkWaiting" /\ y.job = x.job
      BY <1>0, <3>1 DEF Worker
    <3>3. QED
      BY <1>0, <1>1, <3>2
  <2>4. CASE CheckWaiting(w) \/ LaunchDownstream(w)
    BY <1>2, <2>1, <2>4 DEF CheckWaiting, LaunchDownstream
  <2>5. CASE SendCreate(w)
    <3>1. Done(w) \/ \E h : worker' = [worker EXCEPT ![w].todo = @ \ {h}]
      BY <2>5 DEF SendCreate
    <3>2. Done(w) \/ (y.pc = x.pc /\ y.job = x.job)
      BY <1>0, <3>1 DEF Worker
    <3>3. QED
      BY <1>0, <1>1, <1>2, <2>5, <3>2 DEF SendCreate, At
  <2>6. QED
    BY <1>6, <2>2, <2>3, <2>4, <2>5 DEF Submit, Process
<1>7. CASE FetchCancel(w) \/ Cancel(w)
  BY <1>3, <1>4, <1>7 DEF FetchCancel, Cancel
<1>8. CASE Recheck(w)
  <2>1. Done(w) \/ y = [x EXCEPT !.pc = "writeGroup", !.new = x.job.status]
    BY <1>0, <1>8 DEF Recheck
  <2>2. Done(w) \/ (y.pc = "writeGroup" /\ y.new = x.job.status /\ y.job = x.job)
    BY <1>0, <2>1 DEF Worker
  <2>3. x.job.status \in Heard
    BY <1>0, <1>8, HeardStatuses DEF Recheck, At, SoundWorker
  <2>4. QED
    BY <1>0, <1>2, <2>2, <2>3 DEF HeardWorker, UpdatingTask
<1>9. CASE UpdateWholeGroup(w) \/ UpdateNoTask(w) \/ CheckStartTimeout(w)
  <2>1. CASE UpdateWholeGroup(w) \/ UpdateNoTask(w)
    BY <1>5, <2>1 DEF UpdateWholeGroup, UpdateNoTask
  <2>2. CASE CheckStartTimeout(w)
    BY <1>0, <1>5, <2>2 DEF CheckStartTimeout, PerTask
  <2>3. QED
    BY <1>9, <2>1, <2>2
<1>10. CASE EndLateStart(w) \/ UpdateTaskStatus(w)
  <2>1. PICK j \in Job : UpdateTaskRowOf(w, j) /\ HeardJob(j) /\ j.type = "UpdateGroup"
    <3>1. CASE UpdateTaskStatus(w)
      BY <1>0, <3>1 DEF UpdateTaskStatus, PerTask, Shape, JobShape, Named
    <3>2. CASE EndLateStart(w)
      BY <1>0, <3>2 DEF EndLateStart, At, HeardWorker, Worker
    <3>3. QED
      BY <1>10, <3>1, <3>2
  <2> DEFINE s == IF j.status \in Finished THEN ExitStatus(j) ELSE j.status
  <2>2. s \in Heard
    <3>1. j.status \in Heard
      BY <2>1 DEF HeardJob
    <3>2. ExitStatus(j) \in {j.status, "COMPLETED", "FAILED", "RESCHEDULED"}
      BY DEF ExitStatus, Job, ExitActions
    <3>3. QED
      BY <3>1, <3>2, HeardStatuses
  <2>3. \E c : y = [Idle EXCEPT !.pc = "reread", !.job = j, !.eff = s, !.clocks = c]
    BY <1>0, <2>1 DEF UpdateTaskRowOf
  <2> HIDE DEF s
  <2>4. y.pc = "reread" /\ y.job = j /\ y.eff = s
    BY <2>3 DEF Idle
  <2>5. QED
    BY <2>1, <2>2, <2>4 DEF HeardWorker, UpdatingTask
<1>11. CASE FailWithoutBackend(w)
  BY <1>0, <1>2, <1>11 DEF FailWithoutBackend
<1>12. CASE Reread(w) \/ UpdateSiblings(w) \/ InsertRetry(w) \/ SendRetry(w)
  <2>1. /\ Done(w) \/ \E p \in {"insertRetry", "siblings", "aggregate", "sendRetry"} : Goto(w, p)
        /\ x.pc \in UpdatingTask
    <3>1. CASE Reread(w)
      BY <3>1 DEF Reread, At, UpdatingTask
    <3>2. CASE UpdateSiblings(w) \/ InsertRetry(w) \/ SendRetry(w)
      BY <3>2 DEF UpdateSiblings, InsertRetry, SendRetry, At, UpdatingTask
    <3>3. QED
      BY <1>12, <3>1, <3>2
  <2>2. \/ Done(w)
        \/ /\ y.pc \in {"insertRetry", "siblings", "aggregate", "sendRetry"}
           /\ y.job = x.job /\ y.eff = x.eff
    BY <1>0, <2>1, GotoGives
  <2>3. QED
    BY <1>0, <1>2, <2>1, <2>2 DEF HeardWorker
<1>13. CASE Aggregate(w)
  <2> DEFINE self == IF x.eff = "RESCHEDULED" THEN "RUNNING" ELSE x.eff
             new  == IF self \in InQueue THEN self
                     ELSE AggregateGroup(LatestStatus(x.job.group), Considered(x.job.group))
  <2>1. y = [x EXCEPT !.pc = "writeGroup", !.eff = self, !.new = new, !.clocks = {}]
    BY <1>0, <1>13 DEF Aggregate
  <2>2. new \in Heard
    <3>1. self \in Heard
      BY <1>0, <1>13, HeardStatuses DEF Aggregate, At, HeardWorker
    <3>2. AggregateGroup(LatestStatus(x.job.group), Considered(x.job.group)) \in Heard
      BY AggregatesHeard
    <3>3. QED
      BY <3>1, <3>2
  <2> HIDE DEF new, self
  <2>3. y.pc = "writeGroup" /\ y.new = new /\ y.job = x.job
    BY <1>0, <2>1 DEF Worker
  <2>4. QED
    BY <1>0, <2>2, <2>3 DEF HeardWorker, UpdatingTask
<1>14. CASE WriteGroup(w) \/ ReadGroups(w) \/ WriteWorkflow(w)
  <2>1. \/ y = [x EXCEPT !.pc = "readGroups", !.new = Absent]
        \/ y = [x EXCEPT !.pc = "writeWorkflow", !.new = AggregateWorkflow(GroupStatuses)]
        \/ y = [x EXCEPT !.pc = "finish", !.new = Absent]
    BY <1>0, <1>14 DEF WriteGroup, ReadGroups, WriteWorkflow
  <2>2. y.pc \in {"readGroups", "writeWorkflow", "finish"} /\ y.job = x.job
    BY <1>0, <2>1 DEF Worker
  <2>3. QED
    BY <1>0, <1>1, <2>2
<1>15. CASE Finish(w)
  <2>1. Done(w) \/ \E d : worker' = [worker EXCEPT ![w].pc = "downstream", ![w].todo = d]
    BY <1>15 DEF Finish
  <2>2. Done(w) \/ \E d : y = [x EXCEPT !.pc = "downstream", !.todo = d]
    BY <1>0, <2>1
  <2>3. Done(w) \/ (y.pc = "downstream" /\ y.job = x.job)
    BY <1>0, <2>2 DEF Worker
  <2>4. QED
    BY <1>0, <1>1, <1>2, <2>3
<1>16. CASE ReleaseDownstream(w)
  <2>1. \/ Done(w)
        \/ \E r, d : worker' = [worker EXCEPT ![w].todo = @ \ {d}, ![w].ready = r]
        \/ \E r : worker' = [worker EXCEPT ![w].pc = "setGroups", ![w].todo = {}, ![w].ready = r]
    BY <1>16 DEF ReleaseDownstream
  <2>2. \/ Done(w)
        \/ \E r, d : y = [x EXCEPT !.todo = @ \ {d}, !.ready = r]
        \/ \E r : y = [x EXCEPT !.pc = "setGroups", !.todo = {}, !.ready = r]
    BY <1>0, <2>1
  <2>3. Done(w) \/ (y.pc \in {x.pc, "setGroups"} /\ y.job = x.job)
    BY <1>0, <2>2 DEF Worker
  <2>4. QED
    BY <1>0, <1>1, <1>2, <1>16, <2>3 DEF ReleaseDownstream, At
<1>17. CASE Other(w) \/ Crash(w)
  <2>1. (y = x /\ x.pc = "idle") \/ Done(w)
    BY <1>17 DEF Other, CancelWorkflow, CheckQueueTimeout, CheckRunTimeout, CleanupWorkflow, Free,
                 Crash
  <2>2. QED
    BY <1>0, <1>2, <2>1
<1>18. QED
  BY <1>6, <1>7, <1>8, <1>9, <1>10, <1>11, <1>12, <1>13, <1>14, <1>15, <1>16, <1>17
     DEF WorkerStep, Update

\* What is known about the reports stays true.
LEMMA HearsayStays ==
  ASSUME Shape, Sound, Hearsay, [Next]_vars
  PROVE  Hearsay'
<1> USE DEF cluster
<1>1. CASE \E w \in Workers : WorkerStep(w) \/ Crash(w)
  <2>1. PICK w \in Workers : WorkerStep(w) \/ Crash(w)
    BY <1>1
  <2>2. \A v \in Workers : HeardWorker(worker[v])'
    <3>1. ASSUME NEW v \in Workers PROVE HeardWorker(worker'[v])
      <4>1. CASE v = w
        BY <2>1, <4>1, HeardMoves
      <4>2. CASE v # w
        BY <2>1, <4>2, OthersStay DEF Hearsay
      <4>3. QED
        BY <4>1, <4>2
    <3>2. QED
      BY <3>1 DEF HeardWorker, HeardJob
  <2>3. QED
    BY <2>1, <2>2, HeardSent, WorkersOnly DEF Hearsay, HeardJob
<1>2. CASE ~\E w \in Workers : WorkerStep(w) \/ Crash(w)
  <2>1. worker' = worker
    BY <1>2, WorkersStay
  <2>2. (\A j \in queue' : HeardJob(j)) /\ HeardJob(agent'.job)
    BY <1>2, HeardBackend, HeardElsewhere DEF Next
  <2>3. QED
    BY <2>1, <2>2 DEF Hearsay, HeardWorker, HeardJob
<1>3. QED
  BY <1>1, <1>2

\* Every report is one of the statuses that come after the launch.
LEMMA HearsayInvariant == Spec => []Hearsay
<1>1. Shape /\ Sound /\ Hearsay /\ [Next]_vars => Hearsay'
  BY HearsayStays
<1>2. QED
  BY <1>1, InitHearsay, ShapeInvariant, SoundInvariant, PTL DEF Spec

-----------------------------------------------------------------------------
(***************************************************************************)
(* A group completes only after it has started: before that it has no pod, *)
(* nothing that would create one, and no job that reports of a task.       *)
(***************************************************************************)
FreshJob(j, g) ==
  Concerns(j, g) => /\ j.type \notin {"CreateGroup", "RescheduleTask"}
                    /\ j.type = "UpdateGroup" => j.task = None

FreshWorker(x, g) ==
  /\ FreshJob(x.job, g)
  /\ x.pc \in {"setTasks", "sendCreate"} => g \notin x.todo
  /\ Concerns(x.job, g) => x.pc \notin UpdatingTask
  /\ x.pc = "writeGroup" /\ x.job.group = g => x.new # "COMPLETED"

FreshRows(g) == \A t \in TasksOf(g) : \A r \in Retries : rows[t][r].status # "COMPLETED"
FreshJobs(g) == (\A j \in queue : FreshJob(j, g)) /\ FreshJob(agent.job, g)

Fresh(g) == /\ FreshRows(g) /\ EarlyPods(g) /\ FreshJobs(g)
            /\ \A v \in Workers : FreshWorker(worker[v], g)

Untouched == \A g \in Groups : grp[g].status \in Unstarted => Fresh(g)

\* What the lemmas below take for granted of a group that has not started.
Dormant(g) == Shape /\ Sound /\ grp[g].status \in Unstarted /\ Fresh(g)

\* At the start no group has started.
LEMMA InitUntouched == Init => Untouched
<1> SUFFICES ASSUME Init, NEW g \in Groups PROVE Fresh(g)
  BY DEF Untouched
<1>1. None # g /\ NoJob.group = None /\ NoJob.task = None
  BY WorkflowAssumption DEF NoJob
<1>2. JobOf("SubmitWorkflow").group = None /\ JobOf("SubmitWorkflow").task = None
  BY DEF JobOf, NoJob
<1>3. FreshJob(NoJob, g) /\ FreshJob(JobOf("SubmitWorkflow"), g) /\ ~Concerns(NoJob, g)
  BY <1>1, <1>2 DEF FreshJob, Concerns
<1>4. FreshRows(g) /\ EarlyPods(g)
  BY DEF Init, FreshRows, EarlyPods, TasksOf, RowAbsent, Absent
<1>5. FreshJobs(g)
  BY <1>3 DEF Init, FreshJobs
<1>6. \A v \in Workers : FreshWorker(worker[v], g)
  BY <1>3 DEF Init, FreshWorker, Idle
<1>7. QED
  BY <1>4, <1>5, <1>6 DEF Fresh

\* A group that has started does not go back.
LEMMA NeverBack ==
  ASSUME Shape, Sound, Hearsay, [Next]_vars, NEW g \in Groups, grp'[g].status \in Unstarted
  PROVE  grp[g].status \in Unstarted
<1>1. Heard \cap {"SUBMITTING", "WAITING"} = {} /\ Canceled \subseteq Heard
  BY HeardStatuses DEF Heard, Prescheduling
<1>2. Absent \notin Heard
  BY DEF Heard, Absent, TaskGroupStatuses, Prerunning, InQueue, Prescheduling, Finished,
         GroupFinished, FailedStatuses
<1>3. Heard \cap Unstarted = {}
  BY <1>1, <1>2 DEF Unstarted
<1>4. CASE grp'[g].status = grp[g].status
  BY <1>4
<1>5. ASSUME NEW w \in Workers, Moved(g, w) PROVE grp[g].status \in Unstarted
  <2>1. /\ At(w, "cancel") => worker[w].job.status \in Heard
        /\ At(w, "writeGroup") => worker[w].new \in Heard
    BY <1>1 DEF Sound, SoundWorker, Hearsay, HeardWorker, At
  <2>2. QED
    BY <1>3, <1>5, <2>1 DEF Moved
<1>6. QED
  BY <1>4, <1>5, GroupMoves

\* The jobs that may be sent before a group starts.
LEMMA FreshMade ==
  ASSUME NEW g \in Groups
  PROVE  /\ FreshJob(NoJob, g)
         /\ \A type : FreshJob(JobOf(type), g)
         /\ \A f : FreshJob([JobOf("CancelWorkflow") EXCEPT !.force = f], g)
         /\ \A type, h : type # "CreateGroup" /\ type # "RescheduleTask" => FreshJob(GroupJob(type, h), g)
         /\ \A h : h # g => FreshJob(GroupJob("CreateGroup", h), g)
         /\ \A h, s : FreshJob(UpdateGroup(h, s), g)
         /\ \A h, f : FreshJob([UpdateGroup(h, "FAILED_CANCELED") EXCEPT !.force = f], g)
         /\ \A t, n : FreshJob(TaskJob("CleanupGroup", t, n), g)
         /\ \A t, n : GroupOf[t] # g => FreshJob(TaskJob("RescheduleTask", t, n), g)
         /\ \A t, n, s : GroupOf[t] # g => FreshJob(UpdateTask(t, n, s), g)
         /\ \A t, n, s, a : GroupOf[t] # g => FreshJob([UpdateTask(t, n, s) EXCEPT !.action = a], g)
         /\ \A j : GroupOf[j.task] # g => FreshJob(BackendError(j), g)
<1>1. None # g
  BY WorkflowAssumption
<1> USE DEF FreshJob, Concerns, NoJob, JobOf, GroupJob
<1>2. /\ FreshJob(NoJob, g)
      /\ \A type : FreshJob(JobOf(type), g)
      /\ \A f : FreshJob([JobOf("CancelWorkflow") EXCEPT !.force = f], g)
  BY <1>1
<1>3. /\ \A type, h : type # "CreateGroup" /\ type # "RescheduleTask" => FreshJob(GroupJob(type, h), g)
      /\ \A h : h # g => FreshJob(GroupJob("CreateGroup", h), g)
  BY <1>1
<1>4. \A h, s : FreshJob(UpdateGroup(h, s), g)
  BY <1>1 DEF UpdateGroup
<1>5. \A h, f : FreshJob([UpdateGroup(h, "FAILED_CANCELED") EXCEPT !.force = f], g)
  BY <1>1 DEF UpdateGroup
<1>6. \A t, n : FreshJob(TaskJob("CleanupGroup", t, n), g)
  BY <1>1 DEF TaskJob
<1>7. \A t, n : GroupOf[t] # g => FreshJob(TaskJob("RescheduleTask", t, n), g)
  BY <1>1 DEF TaskJob
<1>8. \A t, n, s : GroupOf[t] # g => FreshJob(UpdateTask(t, n, s), g)
  BY <1>1 DEF TaskJob, UpdateTask
<1>9. \A t, n, s, a : GroupOf[t] # g => FreshJob([UpdateTask(t, n, s) EXCEPT !.action = a], g)
  BY <1>1 DEF TaskJob, UpdateTask
<1>10. \A j : GroupOf[j.task] # g => FreshJob(BackendError(j), g)
  BY <1>9 DEF BackendError
<1>11. QED
  BY <1>2, <1>3, <1>4, <1>5, <1>6, <1>7, <1>8, <1>9, <1>10

\* A cleanup is for any group.
LEMMA FreshCleanups ==
  ASSUME NEW g \in Groups
  PROVE  /\ \A h : \A j \in CleanupJobs(h) : FreshJob(j, g)
         /\ \A i, s, f : \A j \in CleanupGroupJobs(i, s, f) : FreshJob(j, g)
<1>1. \A h : \A j \in CleanupJobs(h) : FreshJob(j, g)
  BY FreshMade DEF CleanupJobs
<1>2. QED
  BY <1>1, FreshMade DEF CleanupGroupJobs

\* The jobs that a worker sends before group g starts.
LEMMA FreshSent ==
  ASSUME NEW g \in Groups, Dormant(g), NEW w \in Workers, WorkerStep(w) \/ Crash(w)
  PROVE  \A j \in queue' : FreshJob(j, g)
<1> USE DEF jobs
<1>0. /\ \A j \in queue : FreshJob(j, g)
      /\ FreshWorker(worker[w], g) /\ FreshJob(worker[w].job, g)
      /\ worker[w].pc \in UpdatingTask => worker[w].job.task \in Tasks
  BY DEF Dormant, Fresh, FreshJobs, FreshWorker, Shape, WorkerShape, GoodWorker
<1>1. CASE Submit(w)
  <2>1. CASE InsertWorkflow(w) \/ InsertGroups(w) \/ MarkWaiting(w)
    BY <1>0, <2>1 DEF InsertWorkflow, InsertGroups, MarkWaiting, Take
  <2>2. CASE CheckWaiting(w)
    <3> DEFINE J == {UpdateGroup(d, "FAILED_SERVER_ERROR") :
                       d \in {h \in Groups : grp[h].status \notin Finished}}
    <3>1. UNCHANGED jobs \/ Send(J)
      BY <2>2 DEF CheckWaiting
    <3>2. \A j \in J : FreshJob(j, g)
      BY FreshMade
    <3> HIDE DEF J
    <3>3. QED
      BY <1>0, <3>1, <3>2 DEF Send
  <2>3. QED
    BY <1>1, <2>1, <2>2 DEF Submit
<1>2. CASE LaunchDownstream(w) \/ SetTasks(w)
  BY <1>0, <1>2 DEF LaunchDownstream, SetTasks
<1>3. CASE SendCreate(w)
  <2>1. PICK h \in worker[w].todo : Send({GroupJob("CreateGroup", h)})
    BY <1>3 DEF SendCreate
  <2>2. h # g
    BY <1>0, <1>3 DEF FreshWorker, SendCreate, At
  <2>3. QED
    BY <1>0, <2>1, <2>2, FreshMade DEF Send
<1>4. CASE \/ FetchCancel(w) \/ Cancel(w) \/ UpdateWholeGroup(w) \/ UpdateNoTask(w)
           \/ CheckStartTimeout(w) \/ EndLateStart(w) \/ UpdateTaskStatus(w)
  <2>1. queue' \subseteq queue
    BY <1>4 DEF FetchCancel, Cancel, UpdateWholeGroup, UpdateNoTask, CheckStartTimeout,
                EndLateStart, UpdateTaskStatus, Take
  <2>2. QED
    BY <1>0, <2>1
<1>5. CASE Recheck(w) \/ Crash(w)
  <2>1. queue' \subseteq queue \cup {worker[w].job}
    BY <1>5 DEF Recheck, Crash
  <2>2. QED
    BY <1>0, <2>1
<1>6. CASE FailWithoutBackend(w)
  <2>1. PICK j : \/ TakeAndSend(j, FailureJobs(j))
                 \/ Send(FailureJobs(j))
    BY <1>6 DEF FailWithoutBackend
  <2>2. \A i \in FailureJobs(j) : FreshJob(i, g)
    BY FreshCleanups DEF FailureJobs
  <2>3. QED
    BY <1>0, <2>1, <2>2 DEF Send, TakeAndSend
<1>7. CASE \/ Reread(w) \/ UpdateSiblings(w) \/ InsertRetry(w) \/ WriteGroup(w) \/ ReadGroups(w)
           \/ WriteWorkflow(w) \/ ReleaseDownstream(w)
  BY <1>0, <1>7 DEF Reread, UpdateSiblings, InsertRetry, WriteGroup, ReadGroups, WriteWorkflow,
                    ReleaseDownstream
<1>8. CASE SendRetry(w)
  <2>1. PICK n : Send({TaskJob("RescheduleTask", worker[w].job.task, n)})
    BY <1>8 DEF SendRetry
  <2>2. GroupOf[worker[w].job.task] # g
    BY <1>0, <1>8, WorkflowAssumption DEF SendRetry, At, FreshWorker, Concerns, UpdatingTask
  <2>3. QED
    BY <1>0, <2>1, <2>2, FreshMade DEF Send
<1>9. CASE Aggregate(w)
  <2>1. PICK h, C : Send({GroupJob(IF c = "queue" THEN "CheckQueueTimeout" ELSE "CheckRunTimeout", h) :
                            c \in C})
    BY <1>9 DEF Aggregate
  <2>2. QED
    BY <1>0, <2>1, FreshMade DEF Send
<1>10. CASE Finish(w)
  <2> DEFINE s == grp[worker[w].job.group].status
             F == IF ~HasBackend(worker[w].job) THEN {"FAILED"}
                  ELSE IF s \in FailedStatuses THEN {"FAILED_UPSTREAM"} ELSE {}
             J == {UpdateGroup(d, f) : d \in Downstream(worker[w].job.group), f \in F}
  <2>1. Send(CleanupGroupJobs(worker[w].job, worker[w].eff, HasBackend(worker[w].job)) \cup J)
    BY <1>10 DEF Finish
  <2>2. \A j \in J : FreshJob(j, g)
    BY FreshMade
  <2> HIDE DEF J
  <2>3. QED
    BY <1>0, <2>1, <2>2, FreshCleanups DEF Send
<1>11. CASE CancelWorkflow(w)
  <2> DEFINE J(f) == {[UpdateGroup(h, "FAILED_CANCELED") EXCEPT !.force = f] :
                        h \in {i \in Groups : /\ grp[i].status # Absent
                                              /\ grp[i].status \notin Finished \/ f}}
  <2>1. PICK i \in queue : TakeAndSend(i, J(i.force))
    BY <1>11 DEF CancelWorkflow
  <2>2. \A j \in J(i.force) : FreshJob(j, g)
    BY FreshMade
  <2> HIDE DEF J
  <2>3. QED
    BY <1>0, <2>1, <2>2 DEF TakeAndSend
<1>12. CASE CheckQueueTimeout(w) \/ CheckRunTimeout(w)
  <2>1. PICK j, h, s : Take(j) \/ TakeAndSend(j, {UpdateGroup(h, s)})
    BY <1>12 DEF CheckQueueTimeout, CheckRunTimeout
  <2>2. QED
    BY <1>0, <2>1, FreshMade DEF Take, TakeAndSend
<1>13. CASE CleanupWorkflow(w)
  BY <1>0, <1>13 DEF CleanupWorkflow, Take
<1>14. QED
  BY <1>1, <1>2, <1>3, <1>4, <1>5, <1>6, <1>7, <1>8, <1>9, <1>10, <1>11, <1>12, <1>13
     DEF WorkerStep, Process, Update, Other

\* The jobs that the backend worker sends, and the one it holds.
LEMMA FreshPrepared ==
  ASSUME NEW g \in Groups, Dormant(g),
         PrepareCreateGroup \/ PrepareCleanupGroup \/ PrepareRescheduleTask
  PROVE  FreshJobs(g)'
<1>0. /\ \A j \in queue : FreshJob(j, g) /\ j \in Named
      /\ FreshJob(agent.job, g)
  BY DEF Dormant, Fresh, FreshJobs, Shape, JobShape
<1>1. ASSUME NEW j \in queue, Launch(j), Take(j) PROVE FreshJobs(g)'
  BY <1>0, <1>1 DEF Launch, Take, FreshJobs
<1>2. ASSUME NEW j \in queue, NEW J, \A i \in J : FreshJob(i, g), TakeAndSend(j, J), UNCHANGED agent
      PROVE  FreshJobs(g)'
  BY <1>0, <1>2 DEF TakeAndSend, FreshJobs
<1>3. CASE PrepareCreateGroup
  <2>1. PICK j \in queue : \/ Launch(j) /\ Take(j)
                           \/ /\ TakeAndSend(j, {UpdateGroup(j.group, "FAILED_SERVER_ERROR")})
                              /\ UNCHANGED agent
    BY <1>3 DEF PrepareCreateGroup
  <2>2. QED
    BY <1>1, <1>2, <2>1, FreshMade
<1>4. CASE PrepareCleanupGroup
  BY <1>1, <1>4 DEF PrepareCleanupGroup
<1>5. CASE PrepareRescheduleTask
  <2> DEFINE J(j) == {BackendError(j)}
                     \cup {TaskJob("CleanupGroup", t, j.retry) :
                             t \in {u \in {j.task} :
                                      /\ Latest(j.task) = j.retry
                                      /\ rows[j.task][Latest(j.task)].status \in GroupFinished}}
  <2>1. PICK j \in queue : /\ j.type = "RescheduleTask"
                           /\ \/ Launch(j) /\ Take(j)
                              \/ TakeAndSend(j, J(j)) /\ UNCHANGED agent
    BY <1>5 DEF PrepareRescheduleTask
  <2>2. GroupOf[j.task] # g
    BY <1>0, <2>1, WorkflowAssumption DEF Named, FreshJob, Concerns
  <2>3. \A i \in J(j) : FreshJob(i, g)
    BY <2>2, FreshMade
  <2> HIDE DEF J
  <2>4. QED
    BY <1>1, <1>2, <2>1, <2>3
<1>6. QED
  BY <1>3, <1>4, <1>5

\* What the cluster does for the other groups.
LEMMA FreshWorked ==
  ASSUME NEW g \in Groups, Dormant(g), Apply \/ Execute \/ Refuse \/ Disconnect
  PROVE  FreshJobs(g)'
<1> USE DEF jobs
<1>0. /\ \A j \in queue : FreshJob(j, g)
      /\ FreshJob(agent.job, g) /\ FreshJob(NoJob, g)
      /\ agent.job \in Named /\ agent \in [pc : {"idle", "apply", "execute"}, job : Named]
  BY FreshMade DEF Dormant, Fresh, FreshJobs, Shape, ClusterShape
<1>1. ASSUME NEW J, \A i \in J : FreshJob(i, g), Send(J) \/ UNCHANGED queue,
             agent'.job \in {agent.job, NoJob}
      PROVE  FreshJobs(g)'
  BY <1>0, <1>1 DEF Send, FreshJobs
<1>2. CASE Apply
  <2>1. agent'.job = agent.job
    BY <1>0, <1>2 DEF Apply
  <2>2. UNCHANGED queue
    BY <1>2 DEF Apply
  <2>3. QED
    BY <1>0, <2>1, <2>2 DEF FreshJobs
<1>3. CASE Execute
  <2> DEFINE j == agent.job
             J == {TaskJob("CleanupGroup", t, j.retry) :
                     t \in {u \in {j.task} \ {None} : grp[j.group].status \in GroupFinished}}
  <2>1. /\ agent'.job = NoJob
        /\ Send(CleanupJobs(j.group)) \/ Send(J)
    BY <1>3 DEF Execute
  <2>2. \A i \in J : FreshJob(i, g)
    BY FreshMade
  <2> HIDE DEF J
  <2>3. QED
    BY <1>1, <2>1, <2>2, FreshCleanups
<1>4. CASE Refuse
  <2> DEFINE j == agent.job
  <2>1. /\ agent'.job = NoJob
        /\ \/ Send({UpdateGroup(j.group, "FAILED_SERVER_ERROR")})
           \/ /\ j.type = "RescheduleTask"
              /\ Send({BackendError(j)})
           \/ UNCHANGED queue
    BY <1>4 DEF Refuse
  <2>2. j.type = "RescheduleTask" => GroupOf[j.task] # g
    BY <1>0, WorkflowAssumption DEF Named, FreshJob, Concerns
  <2>3. QED
    BY <1>1, <2>1, <2>2, FreshMade
<1>5. CASE Disconnect
  BY <1>0, <1>5 DEF Disconnect, FreshJobs
<1>6. QED
  BY <1>2, <1>3, <1>4, <1>5

\* No step sends a job that a group needs to have started for.
LEMMA FreshJobsStay ==
  ASSUME NEW g \in Groups, Dormant(g), [Next]_vars
  PROVE  FreshJobs(g)'
<1> USE DEF cluster
<1>0. FreshJobs(g) /\ EarlyPods(g)
  BY DEF Dormant, Fresh
<1>1. CASE \E w \in Workers : WorkerStep(w) \/ Crash(w)
  BY <1>0, <1>1, FreshSent, WorkersOnly DEF FreshJobs
<1>2. CASE PrepareCreateGroup \/ PrepareCleanupGroup \/ PrepareRescheduleTask
  BY <1>2, FreshPrepared
<1>3. CASE Apply \/ Execute \/ Refuse \/ Disconnect
  BY <1>3, FreshWorked
<1>4. ASSUME NEW t \in Tasks, PodMoves(t) \/ PodEnds(t) PROVE FreshJobs(g)'
  <2>1. GroupOf[t] # g
    BY <1>0, <1>4 DEF EarlyPods, TasksOf, PodMoves, PodEnds
  <2>2. CASE PodMoves(t)
    <3>1. PICK s : /\ UNCHANGED agent
                   /\ \/ Send({UpdateTask(t, pod[t].retry, s)})
                      \/ \E late \in StartTimeouts(t, s) : Send({UpdateTask(t, pod[t].retry, s), late})
      BY <2>2 DEF PodMoves
    <3>2. \A late \in StartTimeouts(t, s) : FreshJob(late, g)
      <4>1. \A a : FreshJob([UpdateTask(t, pod[t].retry, "FAILED_START_TIMEOUT")
                                EXCEPT !.action = a], g)
        BY <2>1, FreshMade
      <4>2. QED
        BY <4>1 DEF StartTimeouts
    <3>3. FreshJob(UpdateTask(t, pod[t].retry, s), g)
      BY <2>1, FreshMade
    <3>4. QED
      BY <1>0, <3>1, <3>2, <3>3 DEF Send, FreshJobs
  <2>3. CASE PodEnds(t)
    <3>1. PICK s, a : /\ UNCHANGED agent
                      /\ Send({[UpdateTask(t, pod[t].retry, s) EXCEPT !.action = a]})
      BY <2>3 DEF PodEnds
    <3>2. FreshJob([UpdateTask(t, pod[t].retry, s) EXCEPT !.action = a], g)
      BY <2>1, FreshMade
    <3>3. QED
      BY <1>0, <3>1, <3>2 DEF Send, FreshJobs
  <2>4. QED
    BY <1>4, <2>2, <2>3
<1>5. ASSUME NEW force \in CancelForms, AskCancel(force) PROVE FreshJobs(g)'
  <2>1. UNCHANGED agent /\ Send({[JobOf("CancelWorkflow") EXCEPT !.force = force]})
    BY <1>5 DEF AskCancel
  <2>2. QED
    BY <1>0, <2>1, FreshMade DEF Send, FreshJobs
<1>6. CASE DeleteBackend \/ UNCHANGED vars
  BY <1>0, <1>6 DEF DeleteBackend, vars, jobs, FreshJobs
<1>7. QED
  BY <1>1, <1>2, <1>3, <1>4, <1>5, <1>6 DEF Next, AgentStep

\* No pod of a group that has not started is created.
LEMMA FreshPodsStay ==
  ASSUME NEW g \in Groups, Dormant(g), [Next]_vars
  PROVE  EarlyPods(g)'
<1> USE DEF cluster
<1> DEFINE j == agent.job
<1>0. /\ EarlyPods(g) /\ FreshJob(j, g) /\ j \in Named
      /\ agent.pc # "idle" => j.type \in BackendTypes
      /\ pod \in [Tasks -> [retry : Nat, phase : DOMAIN Phase]]
  BY DEF Dormant, Fresh, FreshJobs, Shape, ClusterShape, Sound
<1>1. NoPod.phase = "none"
  BY DEF NoPod
<1>2. CASE Apply
  <2>1. agent.pc = "apply"
    BY <1>2 DEF Apply
  <2>2. ASSUME NEW t \in TasksOf(g) PROVE pod'[t] \in {pod[t], NoPod}
    <3>1. t \in Tasks /\ GroupOf[t] = g
      BY DEF TasksOf
    <3>2. CASE j.group # g
      BY <1>2, <3>1, <3>2 DEF Apply
    <3>3. CASE j.group = g
      <4>1. j.type = "CleanupGroup"
        BY <1>0, <2>1, <3>3 DEF FreshJob, Concerns, BackendTypes
      <4>2. QED
        BY <1>2, <3>1, <4>1 DEF Apply
    <3>4. QED
      BY <3>2, <3>3
  <2>3. QED
    BY <1>0, <1>1, <2>2 DEF EarlyPods
<1>3. CASE Refuse
  <2>1. agent.pc = "apply"
    BY <1>3 DEF Refuse
  <2>2. ASSUME NEW t \in TasksOf(g) PROVE pod'[t] = pod[t]
    <3>1. t \in Tasks /\ GroupOf[t] = g
      BY DEF TasksOf
    <3>2. CASE j.type = "CreateGroup"
      <4>1. PICK T \in SUBSET TasksOf(j.group) :
              pod' = [u \in Tasks |-> IF u \in T /\ pod[u].phase = "none" THEN Pod(Latest(u)) ELSE pod[u]]
        BY <1>3, <3>2 DEF Refuse
      <4>2. j.group # g
        BY <1>0, <3>2 DEF FreshJob, Concerns
      <4>3. t \notin T
        BY <3>1, <4>2 DEF TasksOf
      <4>4. QED
        BY <3>1, <4>1, <4>3
    <3>3. CASE j.type = "RescheduleTask"
      <4>1. j.task # t
        BY <1>0, <3>1, <3>3, WorkflowAssumption DEF Named, FreshJob, Concerns
      <4>2. \E y : pod' = [pod EXCEPT ![j.task] = y]
        BY <1>3, <3>3 DEF Refuse
      <4>3. QED
        BY <1>0, <3>1, <4>1, <4>2
    <3>4. CASE j.type \notin {"CreateGroup", "RescheduleTask"}
      BY <1>3, <3>4 DEF Refuse
    <3>5. QED
      BY <3>2, <3>3, <3>4
  <2>3. QED
    BY <1>0, <2>2 DEF EarlyPods
<1>4. ASSUME NEW t \in Tasks, PodMoves(t) \/ PodEnds(t) PROVE EarlyPods(g)'
  <2>1. t \notin TasksOf(g)
    BY <1>0, <1>4 DEF EarlyPods, PodMoves, PodEnds
  <2>2. \E s : pod' = [pod EXCEPT ![t].phase = s]
    BY <1>4 DEF PodMoves, PodEnds
  <2>3. QED
    BY <1>0, <2>1, <2>2 DEF EarlyPods, TasksOf
<1>5. CASE \E w \in Workers : WorkerStep(w) \/ Crash(w)
  BY <1>0, <1>5, WorkersOnly DEF EarlyPods
<1>6. CASE PrepareCreateGroup \/ PrepareCleanupGroup \/ PrepareRescheduleTask
           \/ Execute \/ Disconnect
  BY <1>0, <1>6 DEF PrepareCreateGroup, PrepareCleanupGroup, PrepareRescheduleTask, Execute,
                    Disconnect, EarlyPods
<1>7. CASE (\E force \in CancelForms : AskCancel(force)) \/ DeleteBackend \/ UNCHANGED vars
  BY <1>0, <1>7 DEF AskCancel, DeleteBackend, vars, EarlyPods
<1>8. QED
  BY <1>2, <1>3, <1>4, <1>5, <1>6, <1>7 DEF Next, AgentStep

\* A row of a group that has not started is inserted, or it fails.
LEMMA FreshRowMoves ==
  ASSUME NEW g \in Groups, Dormant(g), [Next]_vars, ~\E w \in Workers : InsertGroups(w),
         NEW t \in TasksOf(g), NEW r \in Retries
  PROVE  rows'[t][r] = rows[t][r] \/ rows'[t][r].status \in FailedStatuses
<1> USE DEF db
<1>0. /\ t \in Tasks /\ GroupOf[t] = g
      /\ rows \in [Tasks -> [Retries -> Row]]
      /\ \A j \in queue : FreshJob(j, g)
      /\ \A w \in Workers : FreshWorker(worker[w], g) /\ SoundWorker(worker[w]) /\ worker[w] \in GoodWorker
  BY DEF TasksOf, Dormant, Fresh, FreshJobs, Shape, DbShape, Sound, WorkerShape
<1>1. ASSUME NEW w \in Workers, SetTasks(w) PROVE rows'[t] = rows[t]
  BY <1>0, <1>1 DEF SetTasks, FreshWorker, At
<1>2. ASSUME NEW w \in Workers, Recheck(w)
      PROVE  rows'[t][r] = rows[t][r] \/ rows'[t][r].status \in FailedStatuses
  <2>1. worker[w].job.status \in FailedStatuses
    BY <1>0, <1>2, EndsAreFailures DEF Recheck, At, SoundWorker
  <2>2. UNCHANGED rows \/ rows' = BatchUpdate(worker[w].job.group, worker[w].job.status, None)
    BY <1>2 DEF Recheck
  <2>3. QED
    BY <1>0, <2>1, <2>2, FailsOrStays DEF Dormant
<1>3. ASSUME NEW w \in Workers, UpdateWholeGroup(w)
      PROVE  rows'[t][r] = rows[t][r] \/ rows'[t][r].status \in FailedStatuses
  <2>1. PICK j \in queue : j.status \in FailedStatuses /\ rows' = BatchUpdate(j.group, j.status, None)
    BY <1>3, EndsAreFailures DEF UpdateWholeGroup
  <2>2. QED
    BY <1>0, <2>1, FailsOrStays DEF Dormant
<1>4. ASSUME NEW w \in Workers, UpdateTaskStatus(w) \/ EndLateStart(w) PROVE rows'[t] = rows[t]
  <2>1. PICK j : UpdateTaskRowOf(w, j) /\ j.task # t
    <3>1. CASE UpdateTaskStatus(w)
      BY <1>0, <3>1 DEF UpdateTaskStatus, PerTask, FreshJob, Concerns
    <3>2. CASE EndLateStart(w)
      <4>1. At(w, "startTimeout") /\ UpdateTaskRowOf(w, worker[w].job)
        BY <3>2 DEF EndLateStart
      <4>2. worker[w].job.task # t
        BY <1>0, <4>1, WorkflowAssumption DEF At, FreshWorker, Concerns, UpdatingTask, GoodWorker
      <4>3. QED
        BY <4>1, <4>2
    <3>3. QED
      BY <1>4, <3>1, <3>2
  <2>2. PICK n, y : rows' = [rows EXCEPT ![j.task][n] = y]
    BY <2>1 DEF UpdateTaskRowOf
  <2>3. QED
    BY <1>0, <2>1, <2>2
<1>5. ASSUME NEW w \in Workers, UpdateSiblings(w) PROVE rows'[t] = rows[t]
  <2>1. worker[w].job.group # g
    BY <1>0, <1>5 DEF UpdateSiblings, At, FreshWorker, Concerns, UpdatingTask
  <2>2. QED
    BY <1>0, <1>5, <2>1 DEF UpdateSiblings, BatchUpdate
<1>6. ASSUME NEW w \in Workers, InsertRetry(w) PROVE rows'[t] = rows[t]
  <2>1. worker[w].job.task # t
    BY <1>0, <1>6, WorkflowAssumption DEF InsertRetry, At, FreshWorker, Concerns, UpdatingTask, GoodWorker
  <2>2. QED
    BY <1>0, <1>6, <2>1, ZenonT(60) DEF InsertRetry
<1>7. ASSUME NEW w \in Workers, \/ InsertWorkflow(w) \/ MarkWaiting(w) \/ CheckWaiting(w)
                                \/ LaunchDownstream(w) \/ SendCreate(w)
      PROVE  UNCHANGED rows
  BY <1>7 DEF InsertWorkflow, MarkWaiting, CheckWaiting, LaunchDownstream, SendCreate
<1>8. ASSUME NEW w \in Workers, \/ FetchCancel(w) \/ Cancel(w) \/ UpdateNoTask(w) \/ CheckStartTimeout(w)
                                \/ FailWithoutBackend(w) \/ Reread(w) \/ SendRetry(w)
      PROVE  UNCHANGED rows
  BY <1>8 DEF FetchCancel, Cancel, UpdateNoTask, CheckStartTimeout, FailWithoutBackend, Reread,
              SendRetry
<1>9. ASSUME NEW w \in Workers, Aggregate(w) \/ WriteGroup(w) \/ ReadGroups(w) \/ WriteWorkflow(w)
      PROVE  UNCHANGED rows
  BY <1>9 DEF Aggregate, WriteGroup, ReadGroups, WriteWorkflow
<1>14. ASSUME NEW w \in Workers, Finish(w) \/ ReleaseDownstream(w)
      PROVE  UNCHANGED rows
  BY <1>14 DEF Finish, ReleaseDownstream
<1>10. ASSUME NEW w \in Workers, Other(w) \/ Crash(w) PROVE UNCHANGED rows
  BY <1>10 DEF Other, CancelWorkflow, CheckQueueTimeout, CheckRunTimeout, CleanupWorkflow, Crash
<1>11. CASE PrepareCreateGroup \/ PrepareCleanupGroup \/ PrepareRescheduleTask \/ Apply
            \/ Execute \/ Refuse \/ Disconnect
  BY <1>11 DEF PrepareCreateGroup, PrepareCleanupGroup, PrepareRescheduleTask, Apply, Execute,
              Refuse, Disconnect
<1>12. CASE \/ \E u \in Tasks : PodMoves(u) \/ PodEnds(u)
            \/ \E force \in CancelForms : AskCancel(force)
            \/ DeleteBackend \/ UNCHANGED vars
  BY <1>12 DEF PodMoves, PodEnds, AskCancel, DeleteBackend, vars
<1>13. QED
  BY <1>1, <1>2, <1>3, <1>4, <1>5, <1>6, <1>7, <1>8, <1>9, <1>10, <1>11, <1>12, <1>14
     DEF Next, AgentStep, WorkerStep, Submit, Process, Update

\* No task of a group that has not started completes.
LEMMA FreshRowsStay ==
  ASSUME NEW g \in Groups, Dormant(g), [Next]_vars
  PROVE  FreshRows(g)'
<1>0. FreshRows(g) /\ rows \in [Tasks -> [Retries -> Row]]
  BY DEF Dormant, Fresh, Shape, DbShape
<1>1. "COMPLETED" \notin FailedStatuses
  BY DEF FailedStatuses
<1>2. ASSUME NEW t \in TasksOf(g), NEW r \in Retries PROVE rows'[t][r].status # "COMPLETED"
  <2>1. /\ t \in Tasks /\ rows[t][r] \in Row /\ rows[t] \in [Retries -> Row]
        /\ rows[t][r].status # "COMPLETED"
    BY <1>0 DEF TasksOf, FreshRows
  <2>2. CASE \E w \in Workers : InsertGroups(w)
    <3>1. rows'[t] \in {rows[t], [rows[t] EXCEPT ![0].status = "WAITING"]}
      BY <2>1, <2>2 DEF InsertGroups
    <3>2. rows'[t][r] \in {rows[t][r], [rows[t][r] EXCEPT !.status = "WAITING"]}
      BY <2>1, <3>1
    <3>3. QED
      BY <2>1, <3>2 DEF Row
  <2>3. CASE ~\E w \in Workers : InsertGroups(w)
    BY <1>1, <2>1, <2>3, FreshRowMoves
  <2>4. QED
    BY <2>2, <2>3
<1>3. QED
  BY <1>2 DEF FreshRows, TasksOf

\* A worker that is done, starts a job or goes on with the one it has.
LEMMA FreshBasics ==
  ASSUME NEW g \in Groups, Dormant(g), NEW w \in Workers
  PROVE  /\ Done(w) => FreshWorker(worker'[w], g)
         /\ \A j, p, s : /\ Start(w, j, p, s) /\ FreshJob(j, g)
                         /\ p # "writeGroup" /\ (~Concerns(j, g) \/ p \notin UpdatingTask)
                         => FreshWorker(worker'[w], g)
         /\ \A p : /\ Goto(w, p) /\ p # "writeGroup"
                   /\ p \in {"setTasks", "sendCreate"} => g \notin worker[w].todo
                   /\ Concerns(worker[w].job, g) => p \notin UpdatingTask
                   => FreshWorker(worker'[w], g)
<1>0. Shape /\ FreshWorker(worker[w], g) /\ FreshJob(NoJob, g)
  BY FreshMade DEF Dormant, Fresh
<1>1. ASSUME Done(w) PROVE FreshWorker(worker'[w], g)
  <2>1. worker'[w].pc = "idle" /\ worker'[w].job = NoJob
    BY <1>0, <1>1, DoneGives
  <2>2. QED
    BY <1>0, <2>1 DEF FreshWorker, UpdatingTask
<1>2. ASSUME NEW j, NEW p, NEW s, Start(w, j, p, s), FreshJob(j, g), p # "writeGroup",
             ~Concerns(j, g) \/ p \notin UpdatingTask
      PROVE  FreshWorker(worker'[w], g)
  <2>1. worker'[w].pc = p /\ worker'[w].job = j /\ worker'[w].todo = {}
    BY <1>0, <1>2, StartGives
  <2>2. QED
    BY <1>2, <2>1 DEF FreshWorker
<1>3. ASSUME NEW p, Goto(w, p), p # "writeGroup",
             p \in {"setTasks", "sendCreate"} => g \notin worker[w].todo,
             Concerns(worker[w].job, g) => p \notin UpdatingTask
      PROVE  FreshWorker(worker'[w], g)
  <2>1. worker'[w].pc = p /\ worker'[w].job = worker[w].job /\ worker'[w].todo = worker[w].todo
    BY <1>0, <1>3, GotoGives
  <2>2. QED
    BY <1>0, <1>3, <2>1 DEF FreshWorker
<1>4. QED
  BY <1>1, <1>2, <1>3

\* The submission and the launch of other groups.
LEMMA FreshSubmit ==
  ASSUME NEW g \in Groups, Dormant(g), grp'[g].status \in Unstarted,
         NEW w \in Workers, Submit(w) \/ Process(w)
  PROVE  FreshWorker(worker'[w], g)
<1> DEFINE x == worker[w]
           y == worker'[w]
<1>0. /\ Shape /\ FreshWorker(x, g) /\ worker \in [Workers -> Worker] /\ x \in Worker
      /\ \A j \in queue : FreshJob(j, g)
      /\ grp \in [Groups -> GroupRow] /\ grp[g] \in GroupRow
  BY DEF Dormant, Fresh, FreshJobs, Shape, WorkerShape, GoodWorker, DbShape
<1>1. CASE InsertWorkflow(w)
  <2>1. PICK j \in queue : Start(w, j, "insertGroups", Absent)
    BY <1>1 DEF InsertWorkflow
  <2>2. QED
    BY <1>0, <2>1, FreshBasics DEF UpdatingTask
<1>2. CASE InsertGroups(w)
  <2>1. Goto(w, "markWaiting")
    BY <1>2 DEF InsertGroups
  <2>2. QED
    BY <2>1, FreshBasics DEF UpdatingTask
<1>3. CASE MarkWaiting(w)
  <2>1. \E r : y = [x EXCEPT !.pc = "checkWaiting", !.ready = r]
    BY <1>0, <1>3 DEF MarkWaiting
  <2>2. y.pc = "checkWaiting" /\ y.job = x.job
    BY <1>0, <2>1 DEF Worker
  <2>3. QED
    BY <1>0, <2>2 DEF FreshWorker, UpdatingTask
<1>4. CASE CheckWaiting(w) \/ LaunchDownstream(w)
  <2> DEFINE M == {h \in x.ready : Eligible(h)}
  <2>1. Done(w) \/ SetGroups(w)
    BY <1>4 DEF CheckWaiting, LaunchDownstream
  <2>2. CASE SetGroups(w)
    <3>1. g \notin M
      <4>1. g \in M => grp'[g] = [grp[g] EXCEPT !.status = "PROCESSING",
                                                !.stamps = @ \cup {"processing"}]
        BY <2>2 DEF SetGroups
      <4>2. [grp[g] EXCEPT !.status = "PROCESSING", !.stamps = @ \cup {"processing"}].status
              = "PROCESSING"
        BY <1>0 DEF GroupRow
      <4>3. "PROCESSING" \notin Unstarted
        BY DEF Unstarted, Absent
      <4>4. QED
        BY <4>1, <4>2, <4>3
    <3>2. Done(w) \/ y = [x EXCEPT !.pc = "setTasks", !.ready = {}, !.todo = M]
      BY <1>0, <2>2 DEF SetGroups
    <3> HIDE DEF M
    <3>3. Done(w) \/ (y.pc = "setTasks" /\ y.todo = M /\ y.job = x.job)
      BY <1>0, <3>2 DEF Worker
    <3>4. QED
      BY <1>0, <3>1, <3>3, FreshBasics DEF FreshWorker, UpdatingTask
  <2>3. QED
    BY <2>1, <2>2, FreshBasics
<1>5. CASE SetTasks(w)
  <2>1. Goto(w, "sendCreate") /\ g \notin x.todo
    BY <1>0, <1>5 DEF SetTasks, At, FreshWorker
  <2>2. QED
    BY <2>1, FreshBasics DEF UpdatingTask
<1>6. CASE SendCreate(w)
  <2>1. Done(w) \/ \E h : worker' = [worker EXCEPT ![w].todo = @ \ {h}]
    BY <1>6 DEF SendCreate
  <2>2. Done(w) \/ \E h : y = [x EXCEPT !.todo = @ \ {h}]
    BY <1>0, <2>1
  <2>3. Done(w) \/ (y.pc = x.pc /\ y.job = x.job /\ y.todo \subseteq x.todo)
    BY <1>0, <2>2 DEF Worker
  <2>4. x.pc = "sendCreate" /\ g \notin x.todo
    BY <1>0, <1>6 DEF SendCreate, At, FreshWorker
  <2>5. QED
    BY <1>0, <2>3, <2>4, FreshBasics DEF FreshWorker, UpdatingTask
<1>7. QED
  BY <1>1, <1>2, <1>3, <1>4, <1>5, <1>6 DEF Submit, Process

\* No aggregate of tasks of which none has completed is COMPLETED.
LEMMA FreshAggregates ==
  ASSUME NEW g \in Groups, FreshRows(g)
  PROVE  AggregateGroup(LatestStatus(g), Considered(g)) # "COMPLETED"
<1> DEFINE st   == LatestStatus(g)
           some == {st[t] : t \in Considered(g)}
<1>1. Lead[g] \in Considered(g) /\ Lead[g] \in TasksOf(g)
  BY WorkflowAssumption DEF Considered, TasksOf
<1>2. \A t \in TasksOf(g) : st[t] # "COMPLETED"
  BY LatestRetry DEF LatestStatus, FreshRows
<1> HIDE DEF st
<1>3. some # {"COMPLETED"}
  BY <1>1, <1>2
<1>4. AggregateGroup(st, Considered(g)) # "COMPLETED"
  BY <1>3 DEF AggregateGroup
<1>5. QED
  BY <1>4 DEF st

\* Updating a group.
LEMMA FreshUpdate ==
  ASSUME NEW g \in Groups, Dormant(g), NEW w \in Workers, Update(w)
  PROVE  FreshWorker(worker'[w], g)
<1> USE DEF cluster
<1> DEFINE x == worker[w]
           y == worker'[w]
<1>0. /\ Shape /\ FreshWorker(x, g) /\ worker \in [Workers -> Worker] /\ x \in Worker
      /\ \A j \in queue : FreshJob(j, g)
      /\ SoundWorker(x) /\ FreshRows(g)
  BY DEF Dormant, Fresh, FreshJobs, Shape, WorkerShape, GoodWorker, Sound
<1>1. CASE FetchCancel(w) \/ Cancel(w)
  <2>1. (\E j \in queue : Start(w, j, "cancel", j.status)) \/ Goto(w, "recheck")
    BY <1>1 DEF FetchCancel, Cancel
  <2>2. QED
    BY <1>0, <2>1, FreshBasics DEF UpdatingTask
<1>2. CASE Recheck(w)
  <2>1. Done(w) \/ y = [x EXCEPT !.pc = "writeGroup", !.new = x.job.status]
    BY <1>0, <1>2 DEF Recheck
  <2>2. x.job.status # "COMPLETED"
    BY <1>0, <1>2 DEF Recheck, At, SoundWorker, Canceled
  <2>3. Done(w) \/ (y.pc = "writeGroup" /\ y.new = x.job.status /\ y.job = x.job)
    BY <1>0, <2>1 DEF Worker
  <2>4. QED
    BY <1>0, <2>2, <2>3, FreshBasics DEF FreshWorker, UpdatingTask
<1>3. CASE UpdateWholeGroup(w) \/ UpdateNoTask(w)
  <2>1. PICK j \in queue : Start(w, j, "aggregate", j.status)
    BY <1>3 DEF UpdateWholeGroup, UpdateNoTask
  <2>2. QED
    BY <1>0, <2>1, FreshBasics DEF UpdatingTask
<1>4. CASE CheckStartTimeout(w)
  <2>1. PICK j \in queue : PerTask(j) /\ (Start(w, j, "startTimeout", j.status) \/ UNCHANGED worker)
    BY <1>4 DEF CheckStartTimeout
  <2>2. ~Concerns(j, g) /\ FreshJob(j, g)
    BY <1>0, <2>1 DEF FreshJob, PerTask
  <2>3. QED
    BY <1>0, <2>1, <2>2, FreshBasics
<1>5. CASE EndLateStart(w) \/ UpdateTaskStatus(w)
  <2>1. PICK j : UpdateTaskRowOf(w, j) /\ ~Concerns(j, g)
    <3>1. CASE UpdateTaskStatus(w)
      BY <1>0, <3>1 DEF UpdateTaskStatus, PerTask, FreshJob
    <3>2. CASE EndLateStart(w)
      BY <1>0, <3>2 DEF EndLateStart, At, FreshWorker, UpdatingTask
    <3>3. QED
      BY <1>5, <3>1, <3>2
  <2>2. y.pc = "reread" /\ y.job = j
    BY <1>0, <2>1, TaskRowGives
  <2>3. QED
    BY <2>1, <2>2 DEF FreshWorker, FreshJob
<1>6. CASE FailWithoutBackend(w)
  <2>1. Done(w) \/ UNCHANGED worker
    BY <1>6 DEF FailWithoutBackend
  <2>2. QED
    BY <1>0, <2>1, FreshBasics
<1>7. CASE Reread(w) \/ UpdateSiblings(w) \/ InsertRetry(w) \/ SendRetry(w)
  <2>1. /\ Done(w) \/ \E p \in {"insertRetry", "siblings", "aggregate", "sendRetry"} : Goto(w, p)
        /\ x.pc \in UpdatingTask
    <3>1. CASE Reread(w)
      BY <3>1 DEF Reread, At, UpdatingTask
    <3>2. CASE UpdateSiblings(w) \/ InsertRetry(w) \/ SendRetry(w)
      BY <3>2 DEF UpdateSiblings, InsertRetry, SendRetry, At, UpdatingTask
    <3>3. QED
      BY <1>7, <3>1, <3>2
  <2>2. ~Concerns(x.job, g)
    BY <1>0, <2>1 DEF FreshWorker
  <2>3. QED
    BY <2>1, <2>2, FreshBasics
<1>8. CASE Aggregate(w)
  <2> DEFINE self == IF x.eff = "RESCHEDULED" THEN "RUNNING" ELSE x.eff
             new  == IF self \in InQueue THEN self
                     ELSE AggregateGroup(LatestStatus(x.job.group), Considered(x.job.group))
  <2>1. y = [x EXCEPT !.pc = "writeGroup", !.eff = self, !.new = new, !.clocks = {}]
    BY <1>0, <1>8 DEF Aggregate
  <2>2. x.job.group = g => new # "COMPLETED"
    <3>1. "COMPLETED" \notin InQueue
      BY DEF InQueue, Prescheduling
    <3>2. QED
      BY <1>0, <3>1, FreshAggregates
  <2> HIDE DEF new, self
  <2>3. y.pc = "writeGroup" /\ y.new = new /\ y.job = x.job
    BY <1>0, <2>1 DEF Worker
  <2>4. QED
    BY <1>0, <2>2, <2>3 DEF FreshWorker, UpdatingTask
<1>9. CASE WriteGroup(w) \/ ReadGroups(w) \/ WriteWorkflow(w)
  <2>1. \/ y = [x EXCEPT !.pc = "readGroups", !.new = Absent]
        \/ y = [x EXCEPT !.pc = "writeWorkflow", !.new = AggregateWorkflow(GroupStatuses)]
        \/ y = [x EXCEPT !.pc = "finish", !.new = Absent]
    BY <1>0, <1>9 DEF WriteGroup, ReadGroups, WriteWorkflow
  <2>2. y.pc \in {"readGroups", "writeWorkflow", "finish"} /\ y.job = x.job
    BY <1>0, <2>1 DEF Worker
  <2>3. QED
    BY <1>0, <2>2 DEF FreshWorker, UpdatingTask
<1>10. CASE Finish(w)
  <2>1. Done(w) \/ \E d : worker' = [worker EXCEPT ![w].pc = "downstream", ![w].todo = d]
    BY <1>10 DEF Finish
  <2>2. Done(w) \/ \E d : y = [x EXCEPT !.pc = "downstream", !.todo = d]
    BY <1>0, <2>1
  <2>3. Done(w) \/ (y.pc = "downstream" /\ y.job = x.job)
    BY <1>0, <2>2 DEF Worker
  <2>4. QED
    BY <1>0, <2>3, FreshBasics DEF FreshWorker, UpdatingTask
<1>11. CASE ReleaseDownstream(w)
  <2>1. \/ Done(w)
        \/ \E r, d : worker' = [worker EXCEPT ![w].todo = @ \ {d}, ![w].ready = r]
        \/ \E r : worker' = [worker EXCEPT ![w].pc = "setGroups", ![w].todo = {}, ![w].ready = r]
    BY <1>11 DEF ReleaseDownstream
  <2>2. \/ Done(w)
        \/ \E r, d : y = [x EXCEPT !.todo = @ \ {d}, !.ready = r]
        \/ \E r : y = [x EXCEPT !.pc = "setGroups", !.todo = {}, !.ready = r]
    BY <1>0, <2>1
  <2>3. Done(w) \/ (y.pc \in {x.pc, "setGroups"} /\ y.job = x.job)
    BY <1>0, <2>2 DEF Worker
  <2>4. x.pc = "downstream"
    BY <1>11 DEF ReleaseDownstream, At
  <2>5. QED
    BY <1>0, <2>3, <2>4, FreshBasics DEF FreshWorker, UpdatingTask
<1>12. QED
  BY <1>1, <1>2, <1>3, <1>4, <1>5, <1>6, <1>7, <1>8, <1>9, <1>10, <1>11 DEF Update

\* Nothing is done for a group as long as it has not started.
LEMMA DormantGoesOn ==
  ASSUME NEW g \in Groups, Dormant(g), [Next]_vars, grp'[g].status \in Unstarted
  PROVE  Fresh(g)'
<1>0. Shape /\ \A v \in Workers : FreshWorker(worker[v], g)
  BY DEF Dormant, Fresh
<1>1. ASSUME NEW v \in Workers PROVE FreshWorker(worker'[v], g)
  <2>1. CASE worker'[v] = worker[v]
    BY <1>0, <2>1
  <2>2. CASE Submit(v) \/ Process(v) \/ Update(v)
    BY <2>2, FreshSubmit, FreshUpdate
  <2>3. CASE Other(v) \/ Crash(v)
    <3>1. worker'[v] = worker[v] \/ Done(v)
      BY <2>3 DEF Other, CancelWorkflow, CheckQueueTimeout, CheckRunTimeout, CleanupWorkflow, Crash
    <3>2. QED
      BY <1>0, <3>1, FreshBasics
  <2>4. QED
    BY <1>0, <2>1, <2>2, <2>3, OthersStay, WorkersStay DEF WorkerStep
<1>2. \A v \in Workers : FreshWorker(worker[v], g)'
  BY <1>1 DEF FreshWorker, FreshJob
<1>3. QED
  BY <1>2, FreshRowsStay, FreshPodsStay, FreshJobsStay DEF Fresh

\* What has not started stays untouched.
LEMMA UntouchedStays ==
  ASSUME Shape, Sound, Hearsay, Untouched, [Next]_vars
  PROVE  Untouched'
<1>1. ASSUME NEW g \in Groups, grp'[g].status \in Unstarted PROVE Fresh(g)'
  <2>1. grp[g].status \in Unstarted
    BY <1>1, NeverBack
  <2>2. Dormant(g)
    BY <2>1 DEF Dormant, Untouched
  <2>3. QED
    BY <1>1, <2>2, DormantGoesOn
<1>2. QED
  BY <1>1 DEF Untouched

\* Nothing is there of a group that has not started.
LEMMA UntouchedInvariant == Spec => []Untouched
<1>1. Shape /\ Sound /\ Hearsay /\ Untouched /\ [Next]_vars => Untouched'
  BY UntouchedStays
<1>2. QED
  BY <1>1, InitUntouched, ShapeInvariant, SoundInvariant, HearsayInvariant, PTL DEF Spec

-----------------------------------------------------------------------------
(***************************************************************************)
(* The refinement.  A step moves the stage of a group in one of the ways   *)
(* of GroupFlow, and the steps that move the stages, the end and the order *)
(* are different ones.                                                     *)
(***************************************************************************)
Known == Shape /\ Sound /\ Ends /\ Retried /\ Ordered /\ Hearsay /\ Untouched

\* All that is known of a workflow, in one.
LEMMA KnownInvariant == Spec => []Known
<1>1. Shape /\ Ends /\ [Next]_vars => Ends'
  BY EndsStay
<1>2. Shape /\ Shape' /\ Retried /\ [Next]_vars => Retried'
  BY RetriedStays
<1>3. Shape /\ Sound /\ Retried /\ Ordered /\ [Next]_vars => Ordered'
  BY OrderedStays
<1>4. QED
  BY <1>1, <1>2, <1>3, InitEnds, InitRetried, InitOrdered, ShapeInvariant, SoundInvariant,
     HearsayInvariant, UntouchedInvariant, PTL DEF Spec, Known

\* The stages of the statuses.
LEMMA StageOf ==
  ASSUME NEW s
  PROVE  /\ Stage(s) \in {"waiting", "started", "completed", "failed"}
         /\ Stage(s) = "waiting" <=> s \in Unstarted
         /\ Stage(s) = "completed" <=> s = "COMPLETED"
         /\ Stage(s) = "failed" <=> s \in FailedStatuses
         /\ Stage(s) \in {"completed", "failed"} <=> s \in GroupFinished
<1>1. /\ FailedStatuses \cap (Unstarted \cup {"COMPLETED"}) = {}
      /\ "COMPLETED" \notin Unstarted
  BY DEF FailedStatuses, Unstarted, Absent
<1>2. QED
  BY <1>1 DEF Stage, Unstarted, GroupFinished

\* The stages of the groups, before a step and after it.
LEMMA StagesAre ==
  /\ \A g \in Groups : Stages[g] = Stage(grp[g].status) /\ Stages'[g] = Stage(grp'[g].status)
  /\ (\A g \in Groups : grp'[g].status = grp[g].status) => Stages' = Stages
  /\ \A S : (\A g \in Groups : Stages'[g] = IF g \in S THEN "started" ELSE Stages[g])
              => Stages' = [g \in Groups |-> IF g \in S THEN "started" ELSE Stages[g]]
  /\ \A h, s : (\A g \in Groups : Stages'[g] = IF g = h THEN s ELSE Stages[g])
                 => Stages' = [Stages EXCEPT ![h] = s]
<1>1. /\ \A g \in Groups : Stages[g] = Stage(grp[g].status) /\ Stages'[g] = Stage(grp'[g].status)
      /\ (\A g \in Groups : grp'[g].status = grp[g].status) => Stages' = Stages
  BY DEF Stages
<1>2. Stages' = [g \in Groups |-> Stages'[g]] /\ Stages = [g \in Groups |-> Stages[g]]
  BY DEF Stages
<1>3. ASSUME NEW S, \A g \in Groups : Stages'[g] = IF g \in S THEN "started" ELSE Stages[g]
      PROVE  Stages' = [g \in Groups |-> IF g \in S THEN "started" ELSE Stages[g]]
  BY <1>2, <1>3
<1>4. ASSUME NEW h, NEW s, \A g \in Groups : Stages'[g] = IF g = h THEN s ELSE Stages[g]
      PROVE  Stages' = [Stages EXCEPT ![h] = s]
  BY <1>2, <1>4
<1>5. QED
  BY <1>1, <1>3, <1>4

\* The start is the start of GroupFlow.
LEMMA StartsAlike == Init => Flow!Init
<1>1. ASSUME Init PROVE Stages = [g \in Groups |-> "waiting"]
  BY <1>1 DEF Init, Stages, Stage
<1>2. QED
  BY <1>1 DEF Init, End, Flow!Init

\* What a step does to the stage of a group.
LEMMA StageMoves ==
  ASSUME Known, [Next]_vars, NEW g \in Groups, Stages'[g] # Stages[g]
  PROVE  \/ Stages[g] = "waiting" /\ Stages'[g] = "started"
         \/ Stages[g] = "started" /\ Stages'[g] = "completed"
         \/ Stages[g] \in {"waiting", "started"} /\ Stages'[g] = "failed"
<1> USE DEF Known
<1>1. /\ Stages[g] = Stage(grp[g].status) /\ Stages'[g] = Stage(grp'[g].status)
      /\ grp'[g].status # grp[g].status
  BY StagesAre
<1>2. PICK w \in Workers : Moved(g, w)
  BY <1>1, GroupMoves
<1>3. Stages[g] \in {"waiting", "started"}
  BY <1>1, <1>2, StageOf DEF Moved
<1>4. Stages'[g] # "waiting"
  BY <1>1, <1>3, NeverBack, StageOf
<1>5. Stages[g] = "waiting" => Stages'[g] # "completed"
  <2>1. SUFFICES ASSUME grp[g].status \in Unstarted PROVE grp'[g].status # "COMPLETED"
    BY <1>1, StageOf
  <2>2. FreshWorker(worker[w], g) /\ SoundWorker(worker[w])
    BY <2>1 DEF Untouched, Fresh, Sound
  <2>3. "COMPLETED" \notin Launching \cup Canceled
    BY DEF Launching, Canceled
  <2>4. QED
    BY <1>1, <1>2, <2>2, <2>3 DEF Moved, FreshWorker, SoundWorker, At
<1>6. Stages'[g] \in {"waiting", "started", "completed", "failed"}
  BY <1>1, StageOf
<1>7. QED
  BY <1>3, <1>4, <1>5, <1>6

\* While the backend is there a group starts when those it waits for have completed.
LEMMA StartsReady ==
  ASSUME Known, [Next]_vars, backendUp, NEW g \in Groups,
         Stages[g] = "waiting", Stages'[g] = "started"
  PROVE  \A u \in Upstream[g] : Stages[u] = "completed"
<1> USE DEF Known
<1>1. grp'[g].status \in Launched
  <2>1. grp'[g].status # grp[g].status /\ Stage(grp'[g].status) = "started"
    BY StagesAre
  <2>2. PICK w \in Workers : Moved(g, w)
    BY <2>1, GroupMoves
  <2>3. At(w, "cancel") => worker[w].job.status \in Heard
    BY HeardStatuses DEF Sound, SoundWorker, At
  <2>4. At(w, "writeGroup") => worker[w].new \in Heard
    BY DEF Hearsay, HeardWorker, At
  <2>5. grp'[g].status \in Launching \cup Heard
    BY <2>1, <2>2, <2>3, <2>4 DEF Moved
  <2>6. grp'[g].status # "RESCHEDULED"
    BY EndsStay DEF Ends, PlainGroups
  <2>7. grp'[g].status \notin Unstarted \cup GroupFinished
    BY <2>1, StageOf
  <2>8. (Launching \cup Heard) \ (Unstarted \cup GroupFinished \cup {"RESCHEDULED"}) \subseteq Launched
    BY DEF Launching, Heard, Unstarted, Launched, TaskGroupStatuses, Prerunning, InQueue,
           Prescheduling, Finished
  <2>9. QED
    BY <2>5, <2>6, <2>7, <2>8
<1>2. Ready(g)
  <2>1. SUFFICES ASSUME ~Ready(g) PROVE FALSE
    OBVIOUS
  <2>2. Waits(g)
    BY <2>1 DEF Ordered, Waits
  <2>3. QED
    BY <1>1, <2>1, <2>2, WaitingGoesOn DEF Unlaunched, EarlyGroup
<1>3. \A u \in Upstream[g] : u \in Groups
  BY WorkflowAssumption
<1>4. QED
  BY <1>2, <1>3, StagesAre, StageOf DEF Ready

\* A step that submits or launches groups starts some of them together.
LEMMA LaunchFlows ==
  ASSUME Known, [Next]_vars, NEW w \in Workers, SetGroups(w) \/ InsertGroups(w) \/ MarkWaiting(w),
         UNCHANGED <<wf, backendUp>>
  PROVE  Flow!Next
<1> USE DEF Known
<1> DEFINE S == {g \in Groups : Stages[g] = "waiting" /\ Stages'[g] = "started"}
<1>1. ASSUME NEW g \in Groups PROVE Stages'[g] = IF g \in S THEN "started" ELSE Stages[g]
  <2>1. Stages[g] = Stage(grp[g].status) /\ Stages'[g] = Stage(grp'[g].status)
    BY StagesAre
  <2>2. \/ grp'[g].status = grp[g].status
        \/ grp[g].status \in Unstarted /\ grp'[g].status \in Launching
    BY LaunchMoves
  <2>3. \A s \in Launching : Stage(s) \in {"waiting", "started"}
    BY DEF Stage, Launching, FailedStatuses
  <2>4. QED
    BY <2>1, <2>2, <2>3, StageOf
<1>2. Stages' = [g \in Groups |-> IF g \in S THEN "started" ELSE Stages[g]]
  BY <1>1, StagesAre
<1>3. \A g \in S : Stages[g] = "waiting" /\ (backendUp => \A u \in Upstream[g] : Stages[u] = "completed")
  BY StartsReady
<1>4. S \in SUBSET Groups /\ UNCHANGED <<End, backendUp>>
  BY DEF End
<1> HIDE DEF S
<1>5. Flow!StartAll(S)
  BY <1>2, <1>3, <1>4 DEF Flow!StartAll, Flow!Completed
<1>6. QED
  BY <1>4, <1>5 DEF Flow!Next

\* A step that moves one group starts, completes or fails it.
LEMMA OneGroupFlows ==
  ASSUME Known, [Next]_vars, UNCHANGED <<wf, backendUp>>, NEW h,
         \A g \in Groups \ {h} : grp'[g].status = grp[g].status
  PROVE  [Flow!Next]_<<Stages, End, backendUp>>
<1> USE DEF Known
<1>0. UNCHANGED <<End, backendUp>> /\ \A g \in Groups \ {h} : Stages'[g] = Stages[g]
  BY StagesAre DEF End
<1>1. CASE \A g \in Groups : grp'[g].status = grp[g].status
  BY <1>0, <1>1, StagesAre
<1>2. ASSUME h \in Groups, Stages'[h] = Stages[h] PROVE UNCHANGED <<Stages, End, backendUp>>
  <2>1. \A g \in Groups : Stages'[g] = IF g \in {} THEN "started" ELSE Stages[g]
    BY <1>0, <1>2
  <2>2. Stages' = Stages
    BY <2>1 DEF Stages
  <2>3. QED
    BY <1>0, <2>2
<1>3. ASSUME h \in Groups, Stages[h] = "waiting", Stages'[h] = "started" PROVE Flow!Next
  <2>1. \A g \in Groups : Stages'[g] = IF g \in {h} THEN "started" ELSE Stages[g]
    BY <1>0, <1>3
  <2>2. Stages' = [g \in Groups |-> IF g \in {h} THEN "started" ELSE Stages[g]]
    BY <2>1, StagesAre
  <2>3. backendUp => \A u \in Upstream[h] : Stages[u] = "completed"
    BY <1>3, StartsReady
  <2>4. Flow!StartAll({h})
    BY <1>0, <1>3, <2>2, <2>3 DEF Flow!StartAll, Flow!Completed
  <2>5. QED
    BY <1>3, <2>4 DEF Flow!Next
<1>4. ASSUME h \in Groups, Stages[h] = "started", Stages'[h] = "completed" PROVE Flow!Next
  <2>1. \A g \in Groups : Stages'[g] = IF g = h THEN "completed" ELSE Stages[g]
    BY <1>0, <1>4
  <2>2. Stages' = [Stages EXCEPT ![h] = "completed"]
    BY <2>1, StagesAre
  <2>3. Flow!Complete(h)
    BY <1>0, <1>4, <2>2 DEF Flow!Complete, Flow!Move
  <2>4. QED
    BY <1>4, <2>3 DEF Flow!Next
<1>5. ASSUME h \in Groups, Stages[h] \in {"waiting", "started"}, Stages'[h] = "failed" PROVE Flow!Next
  <2>1. \A g \in Groups : Stages'[g] = IF g = h THEN "failed" ELSE Stages[g]
    BY <1>0, <1>5
  <2>2. Stages' = [Stages EXCEPT ![h] = "failed"]
    BY <2>1, StagesAre
  <2>3. Flow!Fail(h)
    BY <1>0, <1>5, <2>2 DEF Flow!Fail, Flow!Ended, Flow!Move
  <2>4. QED
    BY <1>5, <2>3 DEF Flow!Next
<1>6. QED
  BY <1>1, <1>2, <1>3, <1>4, <1>5, StageMoves

\* The aggregate of groups that are over is COMPLETED if they all are.
LEMMA AggregateCompletes ==
  ASSUME \A g \in Groups : grp[g].status \in GroupFinished
  PROVE  AggregateWorkflow(GroupStatuses) = "COMPLETED"
           <=> \A g \in Groups : grp[g].status = "COMPLETED"
<1> DEFINE all    == {GroupStatuses[g] : g \in DOMAIN GroupStatuses}
           causes == (all \cap FailedStatuses) \ {"FAILED_UPSTREAM"}
<1>1. all \subseteq GroupFinished /\ (all \subseteq {"COMPLETED"}
                                        <=> \A g \in Groups : grp[g].status = "COMPLETED")
  BY DEF GroupStatuses
<1>2. "COMPLETED" \notin FailedStatuses /\ causes \subseteq FailedStatuses
  BY DEF FailedStatuses
<1>3. (\E s \in causes : causes = {s}) => (CHOOSE s \in causes : TRUE) \in FailedStatuses
  BY <1>2
<1>4. all \ Finished = {} /\ (all \cap FailedStatuses # {} \/ all \subseteq {"COMPLETED"})
  BY <1>1 DEF Finished, GroupFinished
<1>5. "FAILED" \in FailedStatuses
  BY DEF FailedStatuses
<1> DEFINE A == AggregateWorkflow(GroupStatuses)
<1>6. CASE all \cap FailedStatuses # {}
  <2>1. A \in {"FAILED_CANCELED", "FAILED_SERVER_ERROR", "FAILED_EXEC_TIMEOUT",
               "FAILED_QUEUE_TIMEOUT", "FAILED"}
        \/ A \in FailedStatuses
    <3> HIDE DEF causes
    <3>1. QED
      BY <1>3, <1>4, <1>5, <1>6 DEF AggregateWorkflow, causes
  <2>2. A # "COMPLETED"
    BY <1>2, <2>1
  <2>3. ~(all \subseteq {"COMPLETED"})
    BY <1>2, <1>6
  <2>4. QED
    BY <1>1, <2>2, <2>3
<1>7. CASE all \cap FailedStatuses = {}
  <2>1. {"FAILED_CANCELED", "FAILED_SERVER_ERROR", "FAILED_EXEC_TIMEOUT",
         "FAILED_QUEUE_TIMEOUT"} \subseteq FailedStatuses
    BY DEF FailedStatuses
  <2>2. A = "COMPLETED"
    <3> HIDE DEF causes
    <3>1. QED
      BY <1>4, <1>7, <2>1 DEF AggregateWorkflow, causes
  <2>3. QED
    BY <1>1, <1>4, <1>7, <2>2
<1>8. QED
  BY <1>6, <1>7

\* A step that writes the row of the workflow ends it or not.
LEMMA WorkflowFlows ==
  ASSUME Known, [Next]_vars, NEW w \in Workers, InsertWorkflow(w) \/ WriteWorkflow(w)
  PROVE  [Flow!Next]_<<Stages, End, backendUp>>
<1> USE DEF Known
<1>1. UNCHANGED <<grp, backendUp>>
  BY DEF InsertWorkflow, WriteWorkflow, cluster
<1>2. UNCHANGED <<Stages, backendUp>> /\ GroupStatuses' = GroupStatuses
  BY <1>1 DEF Stages, GroupStatuses
<1>3. wf.ended => wf'.ended
  <2>1. wf \in WorkflowRow
    BY DEF Shape, DbShape
  <2>2. CASE InsertWorkflow(w)
    BY <2>1, <2>2 DEF InsertWorkflow, WorkflowRow
  <2>3. CASE WriteWorkflow(w)
    BY <2>1, <2>3 DEF WriteWorkflow, UpdateWorkflowRow, WorkflowRow
  <2>4. QED
    BY <2>2, <2>3
<1>4. ASSUME wf'.ended
      PROVE  /\ \A g \in Groups : grp[g].status \in GroupFinished
             /\ wf'.status = AggregateWorkflow(GroupStatuses)
  BY <1>1, <1>2, <1>4, EndsStay DEF Ends, EndsWith
<1>5. CASE ~wf'.ended
  BY <1>2, <1>3, <1>5 DEF End
<1>6. CASE wf.ended
  <2>1. wf.status = AggregateWorkflow(GroupStatuses)
    BY <1>6 DEF Ends, EndsWith
  <2>2. End' = End
    BY <1>3, <1>4, <1>6, <2>1 DEF End
  <2>3. QED
    BY <1>2, <2>2
<1>7. CASE ~wf.ended /\ wf'.ended
  <2>1. \A g \in Groups : Stages[g] \in {"completed", "failed"}
    BY <1>4, <1>7, StagesAre, StageOf
  <2>2. (\A g \in Groups : Stages[g] = "completed") <=> wf'.status = "COMPLETED"
    BY <1>4, <1>7, AggregateCompletes, StagesAre, StageOf
  <2>3. End = "open" /\ End' = IF \A g \in Groups : Stages[g] = "completed" THEN "completed" ELSE "failed"
    BY <1>7, <2>2 DEF End
  <2>4. Flow!EndWorkflow
    BY <1>2, <2>1, <2>3 DEF Flow!EndWorkflow, Flow!Ended, Flow!Completed
  <2>5. QED
    BY <2>4 DEF Flow!Next
<1>8. QED
  BY <1>5, <1>6, <1>7

\* The steps that write the status of a group.
Launches(w) == InsertGroups(w) \/ MarkWaiting(w) \/ CheckWaiting(w) \/ LaunchDownstream(w)
Writes(w)   == Launches(w) \/ Cancel(w) \/ WriteGroup(w)

\* The others leave the statuses alone.
LEMMA OthersKeep ==
  ASSUME Shape, [Next]_vars, ~\E w \in Workers : Writes(w), NEW g \in Groups
  PROVE  grp'[g].status = grp[g].status
<1> USE DEF db
<1>0. grp \in [Groups -> GroupRow]
  BY DEF Shape, DbShape
<1>1. ASSUME NEW w \in Workers, Submit(w) \/ Process(w) PROVE UNCHANGED grp
  BY <1>1 DEF Submit, Process, Writes, Launches, InsertWorkflow, SetTasks, SendCreate
<1>2. ASSUME NEW w \in Workers, \/ FetchCancel(w) \/ Recheck(w) \/ UpdateWholeGroup(w)
                                \/ UpdateNoTask(w) \/ CheckStartTimeout(w)
      PROVE  UNCHANGED grp
  BY <1>2 DEF FetchCancel, Recheck, UpdateWholeGroup, UpdateNoTask, CheckStartTimeout
<1>3. ASSUME NEW w \in Workers, EndLateStart(w) \/ UpdateTaskStatus(w) \/ Reread(w) \/ UpdateSiblings(w)
      PROVE  UNCHANGED grp
  BY <1>3, ZenonT(60) DEF EndLateStart, UpdateTaskStatus, UpdateTaskRowOf, Reread, UpdateSiblings
<1>4. ASSUME NEW w \in Workers, \/ InsertRetry(w) \/ SendRetry(w) \/ Aggregate(w) \/ ReadGroups(w)
                                \/ WriteWorkflow(w)
      PROVE  UNCHANGED grp
  BY <1>4 DEF InsertRetry, SendRetry, Aggregate, ReadGroups, WriteWorkflow
<1>5. ASSUME NEW w \in Workers, FailWithoutBackend(w) \/ Finish(w) PROVE grp'[g].status = grp[g].status
  <2>1. \A j : FailureGroups(j)[g].status = grp[g].status
    BY CleanupKeepsStatus DEF FailureGroups
  <2>2. (\E j : grp' = FailureGroups(j)) \/ (\E j, s, f : grp' = CleanedGroups(j, s, f))
    BY <1>5 DEF FailWithoutBackend, Finish
  <2> QED
    BY <2>1, <2>2, CleanupKeepsStatus
<1>6. ASSUME NEW w \in Workers, ReleaseDownstream(w) PROVE grp'[g].status = grp[g].status
  <2>1. PICK d, R : grp' = [grp EXCEPT ![d].remaining = R]
    BY <1>6 DEF ReleaseDownstream
  <2>2. grp'[g] \in {grp[g], [grp[g] EXCEPT !.remaining = R]}
    BY <1>0, <2>1
  <2>3. QED
    BY <1>0, <2>2 DEF GroupRow
<1>7. ASSUME NEW w \in Workers, Other(w) \/ Crash(w) PROVE UNCHANGED grp
  BY <1>7 DEF Other, CancelWorkflow, CheckQueueTimeout, CheckRunTimeout, CleanupWorkflow, Crash
<1>8. CASE Execute
  BY <1>8, CleanupKeepsStatus DEF Execute
<1>9. CASE \/ PrepareCreateGroup \/ PrepareCleanupGroup \/ PrepareRescheduleTask \/ Apply
           \/ Refuse \/ Disconnect
  BY <1>9 DEF PrepareCreateGroup, PrepareCleanupGroup, PrepareRescheduleTask, Apply, Refuse,
              Disconnect
<1>10. CASE \/ \E t \in Tasks : PodMoves(t) \/ PodEnds(t)
            \/ \E force \in CancelForms : AskCancel(force)
            \/ DeleteBackend \/ UNCHANGED vars
  BY <1>10 DEF PodMoves, PodEnds, AskCancel, DeleteBackend, vars
<1>11. ASSUME NEW w \in Workers, Update(w) PROVE grp'[g].status = grp[g].status
  BY <1>2, <1>3, <1>4, <1>5, <1>6, <1>11 DEF Update, Writes
<1>12. QED
  BY <1>1, <1>7, <1>8, <1>9, <1>10, <1>11 DEF Next, AgentStep, WorkerStep

\* The writes leave the workflow and the order alone, and a cancel and the end of an
\* update write one group.
LEMMA WritesKeep ==
  ASSUME Shape, NEW w \in Workers, Writes(w)
  PROVE  /\ UNCHANGED <<wf, backendUp>>
         /\ Launches(w) => SetGroups(w) \/ InsertGroups(w) \/ MarkWaiting(w) \/ UNCHANGED grp
         /\ Cancel(w) \/ WriteGroup(w) =>
              \A g \in Groups \ {worker[w].job.group} : grp'[g].status = grp[g].status
<1> USE DEF cluster
<1>1. CASE Launches(w)
  <2>1. UNCHANGED <<wf, backendUp>>
    BY <1>1 DEF Launches, InsertGroups, MarkWaiting, CheckWaiting, LaunchDownstream
  <2>2. SetGroups(w) \/ InsertGroups(w) \/ MarkWaiting(w) \/ UNCHANGED grp
    BY <1>1 DEF Launches, CheckWaiting, LaunchDownstream
  <2>3. Cancel(w) \/ WriteGroup(w) => ~Launches(w)
    BY DEF Launches, InsertGroups, MarkWaiting, CheckWaiting, LaunchDownstream, Cancel, WriteGroup, At
  <2>4. QED
    BY <1>1, <2>1, <2>2, <2>3
<1>2. CASE ~Launches(w)
  <2>1. grp \in [Groups -> GroupRow]
    BY DEF Shape, DbShape
  <2>2. QED
    BY <1>2, <2>1 DEF Writes, Cancel, WriteGroup
<1>3. QED
  BY <1>1, <1>2

\* Only the administrator takes the backend away.
LEMMA OrderKept ==
  ASSUME [Next]_vars, ~DeleteBackend
  PROVE  UNCHANGED backendUp
<1>1. CASE \E w \in Workers : WorkerStep(w) \/ Crash(w)
  BY <1>1, WorkersOnly DEF cluster
<1>2. CASE PrepareCreateGroup \/ PrepareCleanupGroup \/ PrepareRescheduleTask \/ Apply
           \/ Execute \/ Refuse \/ Disconnect
  BY <1>2 DEF PrepareCreateGroup, PrepareCleanupGroup, PrepareRescheduleTask, Apply, Execute,
              Refuse, Disconnect
<1>3. CASE \/ \E t \in Tasks : PodMoves(t) \/ PodEnds(t)
           \/ \E force \in CancelForms : AskCancel(force)
           \/ UNCHANGED vars
  BY <1>3 DEF PodMoves, PodEnds, AskCancel, vars, cluster
<1>4. QED
  BY <1>1, <1>2, <1>3 DEF Next, AgentStep

\* Every step is a step of GroupFlow, or none.
LEMMA StepsAlike ==
  ASSUME Known, [Next]_vars
  PROVE  [Flow!Next]_<<Stages, End, backendUp>>
<1>0. Shape
  BY DEF Known
<1>1. ASSUME NEW w \in Workers, InsertWorkflow(w) \/ WriteWorkflow(w)
      PROVE  [Flow!Next]_<<Stages, End, backendUp>>
  BY <1>1, WorkflowFlows
<1>2. ASSUME NEW w \in Workers, Writes(w) PROVE [Flow!Next]_<<Stages, End, backendUp>>
  <2>1. UNCHANGED <<wf, backendUp>>
    BY <1>0, <1>2, WritesKeep
  <2>2. CASE SetGroups(w) \/ InsertGroups(w) \/ MarkWaiting(w)
    BY <2>1, <2>2, LaunchFlows
  <2>3. CASE UNCHANGED grp
    BY <2>1, <2>3 DEF Stages, End
  <2>4. CASE Cancel(w) \/ WriteGroup(w)
    <3>1. \A g \in Groups \ {worker[w].job.group} : grp'[g].status = grp[g].status
      BY <1>0, <1>2, <2>4, WritesKeep
    <3>2. QED
      BY <2>1, <3>1, OneGroupFlows
  <2>5. QED
    BY <1>0, <1>2, <2>2, <2>3, <2>4, WritesKeep DEF Writes
<1>3. CASE DeleteBackend
  <2>1. UNCHANGED <<Stages, End>> /\ backendUp' = FALSE
    BY <1>3 DEF DeleteBackend, db, Stages, End
  <2>2. QED
    BY <2>1 DEF Flow!Next, Flow!LoseOrder
<1>4. CASE /\ ~\E w \in Workers : InsertWorkflow(w) \/ WriteWorkflow(w)
           /\ ~\E w \in Workers : Writes(w)
           /\ ~DeleteBackend
  <2>1. wf' = wf /\ UNCHANGED backendUp
    BY <1>4, WorkflowChanges, OrderKept
  <2>2. \A g \in Groups : grp'[g].status = grp[g].status
    BY <1>0, <1>4, OthersKeep
  <2>3. QED
    BY <2>1, <2>2, StagesAre DEF End
<1>5. QED
  BY <1>1, <1>2, <1>3, <1>4

\* The service and its workers implement GroupFlow: whatever they read before others
\* write, however often a job is delivered, wherever they die, the groups start in
\* order, end once and only after they started if they complete, and the workflow
\* ends once, as they did.
THEOREM FlowRefined == Spec => ImplementsFlow
<1>1. Known /\ [Next]_vars => [Flow!Next]_<<Stages, End, backendUp>>
  BY StepsAlike
<1>2. QED
  BY <1>1, StartsAlike, KnownInvariant, PTL DEF Spec, ImplementsFlow, Flow!Spec

=============================================================================
