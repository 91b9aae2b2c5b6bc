------------------------ MODULE WorkflowStuckProofs ------------------------
(***************************************************************************)
(* Nothing is stuck: a workflow that rests has ended, for any workflow     *)
(* whose tasks are not retried, when no process dies and kubernetes        *)
(* refuses no cleanup.  The argument follows the work through the service: *)
(* whoever still owes the next step to a group, a worker, a job in the     *)
(* queue, the backend worker or a pod, is not at rest (Moving).            *)
(***************************************************************************)
EXTENDS WorkflowRestProofs

-----------------------------------------------------------------------------
(***************************************************************************)
(* The steps of the workers, while no process dies.                        *)
(***************************************************************************)
\* A worker that dies between the UPDATE of SetGroups and SendCreate loses the launch of
\* its groups (task.py batch_set_processing), and so does a backend worker that dies.
Lossless == MaxCrashes = 0 /\ "CleanupGroup" \notin FailableJobs

\* No process dies.
LEMMA NobodyDies ==
  ASSUME Here, MaxCrashes = 0
  PROVE  ~Disconnect /\ \A w \in Workers : ~Crash(w)
BY DEF Here, Known, Shape, CrashShape, Crash, Disconnect

\* The step that follows where a worker is.
Follows(w) ==
  /\ At(w, "insertGroups") => InsertGroups(w)
  /\ At(w, "markWaiting") => MarkWaiting(w)
  /\ At(w, "checkWaiting") => CheckWaiting(w)
  /\ At(w, "setGroups") => LaunchDownstream(w)
  /\ At(w, "setTasks") => SetTasks(w)
  /\ At(w, "sendCreate") => SendCreate(w)
  /\ At(w, "recheck") => Recheck(w)
  /\ At(w, "writeGroup") => WriteGroup(w)
  /\ At(w, "readGroups") => ReadGroups(w)
  /\ At(w, "writeWorkflow") => WriteWorkflow(w)
  /\ At(w, "finish") => Finish(w)
  /\ At(w, "downstream") => ReleaseDownstream(w)

\* The pc of a worker decides the step that it takes next.
LEMMA StepFollows ==
  ASSUME NEW w \in Workers, WorkerStep(w)
  PROVE  Follows(w)
<1>1. CASE Submit(w) \/ Process(w)
  BY <1>1 DEF Follows, Submit, Process, InsertWorkflow, InsertGroups, MarkWaiting, CheckWaiting,
              LaunchDownstream, SetTasks, SendCreate, At, Free
<1>2. CASE Update(w)
  <2>1. CASE \/ FetchCancel(w) \/ Cancel(w) \/ Recheck(w) \/ UpdateWholeGroup(w) \/ UpdateNoTask(w)
             \/ CheckStartTimeout(w) \/ EndLateStart(w)
    BY <2>1 DEF Follows, FetchCancel, Cancel, Recheck, UpdateWholeGroup, UpdateNoTask,
                CheckStartTimeout, EndLateStart, At, Free
  <2>2. CASE \/ UpdateTaskStatus(w) \/ FailWithoutBackend(w) \/ Reread(w) \/ UpdateSiblings(w)
             \/ InsertRetry(w) \/ SendRetry(w) \/ Aggregate(w)
    <3>1. worker[w].pc \in {"idle", "startTimeout", "reread", "siblings", "insertRetry", "sendRetry",
                           "aggregate"}
      <4>1. FailWithoutBackend(w) => Free(w) \/ At(w, "startTimeout")
        BY DEF FailWithoutBackend
      <4>2. QED
        BY <2>2, <4>1 DEF UpdateTaskStatus, Reread, UpdateSiblings, InsertRetry, SendRetry,
                          Aggregate, At, Free
    <3>2. QED
      BY <3>1 DEF Follows, At
  <2>3. CASE \/ WriteGroup(w) \/ ReadGroups(w) \/ WriteWorkflow(w) \/ Finish(w)
             \/ ReleaseDownstream(w)
    <3>1. /\ WriteGroup(w) => At(w, "writeGroup")
          /\ ReadGroups(w) => At(w, "readGroups")
          /\ WriteWorkflow(w) => At(w, "writeWorkflow")
          /\ Finish(w) => At(w, "finish")
          /\ ReleaseDownstream(w) => At(w, "downstream")
      <4>1. Finish(w) => At(w, "finish")
        BY DEF Finish
      <4>2. WriteGroup(w) => At(w, "writeGroup")
        BY DEF WriteGroup
      <4>3. ReleaseDownstream(w) => At(w, "downstream")
        BY DEF ReleaseDownstream
      <4>4. QED
        BY <4>1, <4>2, <4>3 DEF ReadGroups, WriteWorkflow
    <3>2. QED
      BY <2>3, <3>1 DEF Follows, At
  <2>4. QED
    BY <1>2, <2>1, <2>2, <2>3 DEF Update
<1>3. CASE Other(w)
  BY <1>3 DEF Follows, Other, CancelWorkflow, CheckQueueTimeout, CheckRunTimeout, CleanupWorkflow,
              At, Free
<1>4. QED
  BY <1>1, <1>2, <1>3 DEF WorkerStep

\* A worker that changes takes its own step, which only a worker's does.
LEMMA WorkerMovesOn ==
  ASSUME Here, MaxCrashes = 0, [Next]_vars, NEW w \in Workers, worker'[w] # worker[w]
  PROVE  /\ WorkerStep(w) /\ Follows(w) /\ UNCHANGED cluster
         /\ \A v \in Workers \ {w} : worker'[v] = worker[v]
<1>1. Shape
  BY HereGives
<1>2. PICK v \in Workers : WorkerStep(v) \/ Crash(v)
  BY WorkersStay
<1>3. v = w
  BY <1>1, <1>2, OthersStay
<1>4. WorkerStep(w)
  BY <1>2, <1>3, NobodyDies
<1>5. QED
  BY <1>1, <1>4, StepFollows, WorkersOnly, OthersStay

-----------------------------------------------------------------------------
(***************************************************************************)
(* The submission.                                                         *)
(***************************************************************************)
\* A group that is not inserted yet is going to be, and one that is being submitted
\* is about to wait.
Submitting ==
  /\ \A g \in Groups : grp[g].status = Absent =>
       (\E j \in queue : j.type = "SubmitWorkflow") \/ \E w \in Workers : At(w, "insertGroups")
  /\ \A g \in Groups : grp[g].status = "SUBMITTING" => \E w \in Workers : At(w, "markWaiting")
  /\ wf.cancelled => wf.ended

\* A group changes its status from Absent, SUBMITTING or WAITING by the submission and
\* the launch alone, or leaves for good.
LEMMA StatusActs ==
  ASSUME Here, [Next]_vars, NEW g \in Groups
  PROVE  /\ grp'[g].status = Absent => grp[g].status = Absent
         /\ grp'[g].status = "SUBMITTING" =>
              grp[g].status = "SUBMITTING" \/ \E w \in Workers : InsertGroups(w)
         /\ grp'[g].status = "WAITING" =>
              grp[g].status = "WAITING" \/ \E w \in Workers : MarkWaiting(w)
         /\ grp[g].status \in Unstarted /\ grp'[g].status \notin Unstarted =>
              \/ Closed(g)'
              \/ \E w \in Workers : SetGroups(w) /\ g \in worker[w].ready /\ Eligible(g)
<1>0. /\ grp[g] \in GroupRow /\ GroupAct(g) /\ ("end" \in grp[g].stamps => Closed(g))
      /\ grp[g].status # "RESCHEDULED" /\ Absent \notin Heard /\ Unstarted \cap Heard = {}
  BY HereGives, GroupActs, Apart DEF Here, Orderly, PlainData, Known, Ends, PlainGroups,
     Absent, Heard, Unstarted, TaskGroupStatuses, Prerunning, InQueue, Prescheduling, Finished
<1>1. CASE \/ grp'[g] = grp[g]
           \/ CleanedNow(g) /\ grp'[g] = [grp[g] EXCEPT !.cleaned = TRUE]
  BY <1>0, <1>1 DEF GroupRow
<1>2. ASSUME NEW w \in Workers, grp'[g] = [grp[g] EXCEPT !.remaining = @ \ {worker[w].job.group}]
      PROVE  grp'[g].status = grp[g].status
  BY <1>0, <1>2 DEF GroupRow
<1>3. ASSUME NEW w \in Workers, InsertGroups(w), grp[g].status = Absent,
             grp'[g] = [grp[g] EXCEPT !.status = "SUBMITTING", !.remaining = Upstream[g]]
      PROVE  grp'[g].status = "SUBMITTING"
  BY <1>0, <1>3 DEF GroupRow
<1>4. ASSUME grp'[g] = [grp[g] EXCEPT !.status = "WAITING"]
      PROVE  grp'[g].status = "WAITING"
  BY <1>0, <1>4 DEF GroupRow
<1>5. ASSUME grp'[g] = [grp[g] EXCEPT !.status = "PROCESSING", !.stamps = @ \cup {"processing"}]
      PROVE  grp'[g].status = "PROCESSING"
  BY <1>0, <1>5 DEF GroupRow
<1>6. ASSUME NEW s \in Heard \ {"RESCHEDULED"}, NEW force, grp'[g] = UpdateGroupRow(grp[g], s, force)
      PROVE  grp'[g].status = grp[g].status \/ grp'[g].status = s
  BY <1>0, <1>6, GroupTakes DEF Closed
<1>7. ASSUME NEW w \in Workers, Cancel(w), worker[w].job.group = g,
             grp'[g] = UpdateGroupRow(grp[g], worker[w].job.status, worker[w].job.force)
      PROVE  grp'[g].status = grp[g].status \/ grp'[g].status \in GroupFinished
  <2>1. PICK s \in Heard \ {"RESCHEDULED"} : s = worker[w].job.status /\ s \in Canceled
    BY <1>7, WritesHeard DEF Cancel
  <2>2. PICK f : f = worker[w].job.force
    OBVIOUS
  <2>3. QED
    BY <1>6, <1>7, <2>1, <2>2, Apart
<1>8. ASSUME NEW w \in Workers, WriteGroup(w), worker[w].job.group = g,
             grp'[g] = UpdateGroupRow(grp[g], worker[w].new, FALSE)
      PROVE  \/ grp'[g].status = grp[g].status
             \/ grp'[g].status \in Heard /\ (grp[g].status \in Unstarted => grp'[g].status \in GroupFinished)
  <2>1. PICK s \in Heard \ {"RESCHEDULED"}, f \in BOOLEAN : s = worker[w].new /\ f = FALSE
    BY <1>8, WritesHeard DEF WriteGroup
  <2>2. grp'[g].status = grp[g].status \/ grp'[g].status = s
    BY <1>6, <1>8, <2>1
  <2>3. ASSUME grp[g].status \in Unstarted PROVE s \in GroupFinished
    <3>1. /\ FreshWorker(worker[w], g) /\ worker[w].pc = "writeGroup" /\ PlainWorker1(worker[w])
          /\ Ending(worker[w]) /\ worker[w].job \in Job
      BY <1>8, <2>3, HereGives DEF Here, Known, Untouched, Fresh, WriteGroup, At
    <3>2. /\ worker[w].job.type = "UpdateGroup" /\ worker[w].job.task = None
          /\ worker[w].job.status \in Canceled \cup WholeGroup
          /\ worker[w].eff = worker[w].job.status
      BY <1>8, <3>1 DEF FreshWorker, FreshJob, Concerns, PlainWorker1, PlainJob, Updating, Eff
    <3>3. Clean(worker[w])
      BY <3>2, Apart DEF Clean, Cleans
    <3>4. QED
      BY <2>1, <3>1, <3>3 DEF Ending
  <2>4. QED
    BY <2>1, <2>2, <2>3
<1>9. GroupFinished \cap Unstarted = {} /\ "PROCESSING" \notin Unstarted
  BY Apart DEF Unstarted, Absent
<1>10. QED
  <2>1. CASE grp'[g].status = grp[g].status
    BY <2>1
  <2>2. CASE \E w \in Workers : InsertGroups(w) /\ grp'[g].status = "SUBMITTING" /\ grp[g].status = Absent
    BY <2>2 DEF Unstarted, Absent
  <2>3. CASE \E w \in Workers : MarkWaiting(w) /\ grp'[g].status = "WAITING"
    BY <2>3 DEF Unstarted, Absent
  <2>4. CASE \E w \in Workers : /\ SetGroups(w) /\ g \in worker[w].ready /\ Eligible(g)
                                /\ grp'[g].status = "PROCESSING"
    BY <2>4 DEF Unstarted, Absent
  <2>5. CASE grp'[g].status \in GroupFinished
    BY <2>5, <1>9 DEF Closed, Unstarted
  <2>6. CASE grp'[g].status \in Heard /\ (grp[g].status \in Unstarted => grp'[g].status \in GroupFinished)
    BY <2>5, <2>6, <1>0 DEF Unstarted
  <2>7. QED
    BY <1>0, <1>1, <1>2, <1>3, <1>4, <1>5, <1>7, <1>8, <2>1, <2>2, <2>3, <2>4, <2>5, <2>6 DEF GroupAct

-----------------------------------------------------------------------------
\* What is known of a state, before a step and after it.
Calm == Here /\ Late /\ Owed /\ Lossless

\* What such a state offers: the parts of the invariants that the lemmas below cite.
LEMMA CalmGives ==
  ASSUME Calm
  PROVE  /\ Here /\ Late /\ Owed /\ CleanupsKept /\ MaxCrashes = 0 /\ Shape /\ backendUp
         /\ worker \in [Workers -> Worker] /\ queue \subseteq Job /\ agent.job \in Job
         /\ \A g \in Groups : grp[g] \in GroupRow
<1>1. Here /\ Late /\ Owed /\ CleanupsKept /\ MaxCrashes = 0
  BY DEF Calm, Lossless, CleanupsKept
<1>2. QED
  BY <1>1, HereGives DEF Shape, ClusterShape, JobShape, Named

\* What is not inserted is going to be, and the submission marks every group.
LEMMA SubmittingStays ==
  ASSUME Calm, Submitting, [Next]_vars
  PROVE  Submitting'
<1>0. /\ Here /\ Shape /\ MaxCrashes = 0 /\ worker \in [Workers -> Worker]
      /\ \A g \in Groups : grp[g] \in GroupRow
  BY CalmGives
<1>1. ASSUME NEW g \in Groups, grp'[g].status = Absent
      PROVE  (\E j \in queue' : j.type = "SubmitWorkflow") \/ \E w \in Workers : At(w, "insertGroups")'
  <2>1. grp[g].status = Absent
    BY <1>0, <1>1, StatusActs
  <2>2. CASE \E j \in queue : j.type = "SubmitWorkflow"
    <3>1. PICK j \in queue : j.type = "SubmitWorkflow"
      BY <2>2
    <3>2. CASE j \notin queue'
      BY <1>0, <3>1, <3>2, Taken DEF At
    <3>3. QED
      BY <3>1, <3>2
  <2>3. CASE \E w \in Workers : At(w, "insertGroups")
    <3>1. PICK w \in Workers : At(w, "insertGroups")
      BY <2>3
    <3>2. CASE worker'[w] # worker[w]
      <4>1. InsertGroups(w)
        BY <1>0, <3>1, <3>2, WorkerMovesOn DEF Follows
      <4>2. grp'[g].status = "SUBMITTING"
        BY <1>0, <2>1, <4>1 DEF InsertGroups, GroupRow
      <4>3. QED
        BY <1>1, <4>2 DEF Absent
    <3>3. QED
      BY <3>1, <3>2 DEF At
  <2>4. QED
    BY <2>1, <2>2, <2>3 DEF Submitting
<1>2. ASSUME NEW g \in Groups, grp'[g].status = "SUBMITTING"
      PROVE  \E w \in Workers : At(w, "markWaiting")'
  <2>1. CASE grp[g].status = "SUBMITTING"
    <3>1. PICK w \in Workers : At(w, "markWaiting")
      BY <2>1 DEF Submitting
    <3>2. CASE worker'[w] # worker[w]
      <4>1. MarkWaiting(w)
        BY <1>0, <3>1, <3>2, WorkerMovesOn DEF Follows
      <4>2. ~wf.cancelled
        BY <2>1, <1>0, Apart DEF Submitting, Here, Known, Ends, EndsWith, Prerunning, InQueue,
                                 Prescheduling
      <4>3. grp'[g].status = "WAITING"
        BY <1>0, <2>1, <4>1, <4>2 DEF MarkWaiting, GroupRow
      <4>4. QED
        BY <1>2, <4>3
    <3>3. QED
      BY <3>1, <3>2 DEF At
  <2>2. CASE grp[g].status # "SUBMITTING"
    <3>1. PICK w \in Workers : InsertGroups(w)
      BY <1>0, <1>2, <2>2, StatusActs
    <3>2. worker'[w].pc = "markWaiting"
      BY <1>0, <3>1, GotoGives DEF InsertGroups
    <3>3. QED
      BY <3>2 DEF At
  <2>3. QED
    BY <2>1, <2>2
<1>3. wf'.cancelled => wf'.ended
  <2>1. wf \in WorkflowRow
    BY <1>0 DEF Shape, DbShape
  <2>2. CASE wf' = wf
    BY <2>2 DEF Submitting
  <2>3. ASSUME NEW w \in Workers, InsertWorkflow(w) PROVE wf'.cancelled => wf'.ended
    BY <2>1, <2>3 DEF InsertWorkflow, Submitting, WorkflowRow
  <2>4. ASSUME NEW w \in Workers, WriteWorkflow(w) PROVE wf'.cancelled => wf'.ended
    <3>1. PICK s, u : wf' = UpdateWorkflowRow(wf, s, u)
      BY <2>4 DEF WriteWorkflow
    <3>2. QED
      BY <2>1, <3>1 DEF UpdateWorkflowRow, Submitting, WorkflowRow
  <2>5. QED
    BY <2>2, <2>3, <2>4, WorkflowChanges
<1>4. QED
  BY <1>1, <1>2, <1>3 DEF Submitting

-----------------------------------------------------------------------------
(***************************************************************************)
(* The dedupe keys.                                                        *)
(***************************************************************************)
\* What a step adds to the keys it sends, and only SendCreate sends a CreateGroup.
Sending ==
  \/ sent' = sent
  \/ \E w \in Workers : SendCreate(w)
  \/ \E J : /\ \A j \in J : j.type # "CreateGroup"
            /\ Send(J) \/ \E k : TakeAndSend(k, J)

\* A step of a worker sends so.
LEMMA WorkerSends ==
  ASSUME Here, NEW w \in Workers, WorkerStep(w) \/ Crash(w)
  PROVE  Sending
<1> USE DEF jobs
<1>0. backendUp /\ PlainWorker1(worker[w])
  BY HereGives
<1>1. ASSUME NEW J, \A j \in J : j.type # "CreateGroup", Send(J) \/ \E k : TakeAndSend(k, J)
      PROVE  Sending
  BY <1>1 DEF Sending
<1>2. CASE Submit(w) \/ LaunchDownstream(w) \/ SetTasks(w)
  BY <1>0, <1>2 DEF Submit, InsertWorkflow, InsertGroups, MarkWaiting, CheckWaiting, SetTasks,
                    LaunchDownstream, Take, Sending
<1>3. CASE SendCreate(w)
  BY <1>3 DEF Sending
<1>4. CASE \/ FetchCancel(w) \/ Cancel(w) \/ UpdateWholeGroup(w) \/ UpdateNoTask(w)
           \/ CheckStartTimeout(w) \/ EndLateStart(w) \/ UpdateTaskStatus(w) \/ Reread(w)
           \/ UpdateSiblings(w) \/ InsertRetry(w) \/ WriteGroup(w) \/ ReadGroups(w)
           \/ WriteWorkflow(w) \/ ReleaseDownstream(w) \/ Recheck(w) \/ Crash(w)
  <2>1. sent' = sent
    BY <1>4 DEF FetchCancel, Cancel, UpdateWholeGroup, UpdateNoTask, CheckStartTimeout,
              EndLateStart, UpdateTaskStatus, Reread, UpdateSiblings, InsertRetry, WriteGroup,
              ReadGroups, WriteWorkflow, ReleaseDownstream, Take, Recheck, Crash
  <2>2. QED
    BY <2>1 DEF Sending
<1>5. CASE FailWithoutBackend(w) \/ SendRetry(w)
  BY <1>0, <1>5 DEF FailWithoutBackend, WithoutBackend, SendRetry, PlainWorker1, At
<1>6. CASE Aggregate(w)
  <2> DEFINE x == worker[w]
             J == {GroupJob(IF c = "queue" THEN "CheckQueueTimeout" ELSE "CheckRunTimeout", x.job.group) :
                     c \in x.clocks}
  <2>1. Send(J)
    BY <1>6 DEF Aggregate
  <2>2. \A j \in J : j.type # "CreateGroup"
    BY Fields
  <2>3. QED
    BY <1>1, <2>1, <2>2
<1>7. CASE Finish(w)
  <2> DEFINE x == worker[w]
             F == IF grp[x.job.group].status \in FailedStatuses THEN {"FAILED_UPSTREAM"} ELSE {}
             J == {UpdateGroup(d, f) : d \in Downstream(x.job.group), f \in F}
  <2>1. Send(CleanupGroupJobs(x.job, x.eff, HasBackend(x.job)) \cup J)
    BY <1>0, <1>7, BackendIsFound DEF Finish
  <2>2. \A j \in J : j.type # "CreateGroup"
    BY Fields
  <2>3. \A j \in CleanupGroupJobs(x.job, x.eff, HasBackend(x.job)) : j.type # "CreateGroup"
    BY <1>0, Fields, BackendIsFound DEF CleanupGroupJobs
  <2>4. QED
    BY <1>1, <2>1, <2>2, <2>3
<1>8. CASE CancelWorkflow(w)
  <2>0. PICK k \in queue :
          \E J : /\ TakeAndSend(k, J)
                /\ J = {[UpdateGroup(g, "FAILED_CANCELED") EXCEPT !.force = k.force] :
                          g \in {h \in Groups : /\ grp[h].status # Absent
                                                /\ grp[h].status \notin Finished \/ k.force}}
    BY <1>8 DEF CancelWorkflow
  <2>1. PICK J :
          /\ TakeAndSend(k, J)
          /\ J = {[UpdateGroup(g, "FAILED_CANCELED") EXCEPT !.force = k.force] :
                    g \in {h \in Groups : /\ grp[h].status # Absent
                                          /\ grp[h].status \notin Finished \/ k.force}}
    BY <2>0
  <2>2. \A g \in Groups : [UpdateGroup(g, "FAILED_CANCELED") EXCEPT !.force = k.force].type = "UpdateGroup"
    BY Fields
  <2>3. \A j \in J : j.type # "CreateGroup"
    BY <2>1, <2>2
  <2>4. QED
    BY <1>1, <2>1, <2>3
<1>9. CASE CheckQueueTimeout(w) \/ CheckRunTimeout(w)
  <2>1. PICK k \in queue, s \in Canceled : TakeAndSend(k, {UpdateGroup(k.group, s)}) \/ Take(k)
    BY <1>9 DEF CheckQueueTimeout, CheckRunTimeout, Canceled
  <2>2. UpdateGroup(k.group, s).type # "CreateGroup"
    BY Fields
  <2>3. CASE Take(k)
    BY <2>3 DEF Take, Sending
  <2>4. QED
    BY <1>1, <2>1, <2>2, <2>3
<1>10. CASE CleanupWorkflow(w)
  BY <1>10 DEF CleanupWorkflow, Take, Sending
<1>11. QED
  BY <1>2, <1>3, <1>4, <1>5, <1>6, <1>7, <1>8, <1>9, <1>10
     DEF WorkerStep, Process, Update, Other

\* So does every step of the system: the CreateGroup of a group comes from a worker alone.
LEMMA StepSends ==
  ASSUME Here, [Next]_vars
  PROVE  Sending
<1> USE DEF jobs
<1>0. /\ PlainJob(agent.job) /\ \A i \in queue : PlainJob(i)
      /\ agent.pc # "idle" => agent.job.type \in BackendTypes
  BY DEF Here, Orderly, PlainJobs, Known, Sound
<1>1. ASSUME NEW J, \A j \in J : j.type # "CreateGroup", Send(J) \/ \E k : TakeAndSend(k, J)
      PROVE  Sending
  BY <1>1 DEF Sending
<1>2. CASE \E w \in Workers : WorkerStep(w) \/ Crash(w)
  BY <1>2, WorkerSends
<1>3. CASE PrepareCreateGroup
  <2>1. PICK k \in queue : Take(k) \/ TakeAndSend(k, {UpdateGroup(k.group, "FAILED_SERVER_ERROR")})
    BY <1>3 DEF PrepareCreateGroup
  <2>2. UpdateGroup(k.group, "FAILED_SERVER_ERROR").type # "CreateGroup"
    BY Fields
  <2>3. CASE Take(k)
    BY <2>3 DEF Take, Sending
  <2>4. QED
    BY <1>1, <2>1, <2>2, <2>3
<1>4. CASE PrepareCleanupGroup \/ PrepareRescheduleTask \/ Apply \/ DeleteBackend \/ UNCHANGED vars
           \/ Disconnect
  BY <1>0, <1>4 DEF PrepareCleanupGroup, PrepareRescheduleTask, Apply, DeleteBackend, vars, Take,
                    PlainJob, Disconnect, Sending
<1>5. CASE Execute
  <2>1. PICK J : /\ Send(J)
                 /\ J = IF agent.job.type = "CleanupGroup" THEN CleanupJobs(agent.job.group)
                        ELSE {TaskJob("CleanupGroup", t, agent.job.retry) :
                                t \in {u \in {agent.job.task} \ {None} :
                                         grp[agent.job.group].status \in GroupFinished}}
    BY <1>5 DEF Execute
  <2>2. \A t, r : TaskJob("CleanupGroup", t, r).type = "CleanupGroup"
    BY DEF TaskJob, GroupJob, JobOf, NoJob
  <2>3. \A h : \A j \in CleanupJobs(h) : j.type = "CleanupWorkflow"
    BY Fields DEF CleanupJobs
  <2>4. \A j \in J : j.type # "CreateGroup"
    BY <2>1, <2>2, <2>3
  <2>5. QED
    BY <1>1, <2>1, <2>4
<1>6. CASE Refuse
  <2>1. agent.pc = "apply" /\ agent.job.type \in {"CleanupGroup", "CreateGroup"}
    BY <1>0, <1>6 DEF Refuse, BackendTypes, PlainJob
  <2>2. \/ sent' = sent
        \/ Send({UpdateGroup(agent.job.group, "FAILED_SERVER_ERROR")})
    BY <1>6, <2>1 DEF Refuse
  <2>3. UpdateGroup(agent.job.group, "FAILED_SERVER_ERROR").type # "CreateGroup"
    BY Fields
  <2>4. CASE sent' = sent
    BY <2>4 DEF Sending
  <2>5. QED
    BY <1>1, <2>2, <2>3, <2>4
<1>7. ASSUME NEW t \in Tasks, PodMoves(t) PROVE Sending
  <2>1. PICK s \in Reports :
          \/ Send({UpdateTask(t, pod[t].retry, s)})
          \/ \E late \in StartTimeouts(t, s) : Send({UpdateTask(t, pod[t].retry, s), late})
    BY <1>7 DEF PodMoves
  <2>2. \A late \in StartTimeouts(t, s) : late.type # "CreateGroup"
    <3>1. \A a : [UpdateTask(t, pod[t].retry, "FAILED_START_TIMEOUT") EXCEPT !.action = a].type
                   = "UpdateGroup"
      BY Fields
    <3>2. QED
      BY <3>1 DEF StartTimeouts
  <2>3. PICK i : i = UpdateTask(t, pod[t].retry, s)
    OBVIOUS
  <2>4. i.type # "CreateGroup"
    BY <2>3, Fields
  <2>5. CASE Send({i})
    BY <1>1, <2>4, <2>5
  <2>6. ASSUME NEW late \in StartTimeouts(t, s), Send({i, late}) PROVE Sending
    BY <1>1, <2>2, <2>4, <2>6
  <2>7. QED
    BY <2>1, <2>3, <2>5, <2>6
<1>8. ASSUME NEW t \in Tasks, PodEnds(t) PROVE Sending
  <2>1. PICK o \in Outcomes : Send({[UpdateTask(t, pod[t].retry, o.status) EXCEPT !.action = o.action]})
    BY <1>8 DEF PodEnds
  <2>2. PICK J : /\ J = {[UpdateTask(t, pod[t].retry, o.status) EXCEPT !.action = o.action]}
                 /\ Send(J)
    BY <2>1
  <2>3. \A n, r, a : [UpdateTask(t, n, r) EXCEPT !.action = a].type = "UpdateGroup"
    BY Fields
  <2>4. \A j \in J : j.type # "CreateGroup"
    <3>1. PICK n : n = pod[t].retry
      OBVIOUS
    <3>2. PICK i : i = [UpdateTask(t, n, o.status) EXCEPT !.action = o.action]
      OBVIOUS
    <3>3. J = {i}
      BY <2>2, <3>1, <3>2
    <3>4. i.type = "UpdateGroup"
      BY <2>3, <3>2
    <3>5. QED
      BY <3>3, <3>4
  <2>5. QED
    BY <1>1, <2>2, <2>4
<1>9. ASSUME NEW force \in CancelForms, AskCancel(force) PROVE Sending
  <2>1. PICK J : J = {[JobOf("CancelWorkflow") EXCEPT !.force = force]} /\ Send(J)
    BY <1>9 DEF AskCancel
  <2>2. \A j \in J : j.type # "CreateGroup"
    BY <2>1, Fields
  <2>3. QED
    BY <1>1, <2>1, <2>2
<1>10. QED
  BY <1>2, <1>3, <1>4, <1>5, <1>6, <1>7, <1>8, <1>9 DEF Next, AgentStep

\* The contents of a job that its id keeps.
LEMMA IdKeeps ==
  ASSUME NEW j \in Job
  PROVE  /\ JobId(j).type = j.type /\ JobId(j).group = j.group /\ JobId(j).task = j.task
         /\ JobId(j).status = j.status
BY DEF JobId, Job

\* The id of a job of a group is the job itself, and leaves its key.
LEMMA GroupIds ==
  /\ \A type, g : JobId(GroupJob(type, g)) = GroupJob(type, g)
  /\ \A g, s : JobId(UpdateGroup(g, s)) = UpdateGroup(g, s) /\ ~Random(UpdateGroup(g, s))
<1>1. ASSUME NEW h, NEW g, NEW j, j = [h EXCEPT !.group = g], j.action = "NONE" PROVE JobId(j) = j
  BY <1>1, Zenon DEF JobId
<1>2. ASSUME NEW h, NEW s, NEW j, j = [h EXCEPT !.status = s], j.action = "NONE" PROVE JobId(j) = j
  BY <1>2, Zenon DEF JobId
<1>3. ASSUME NEW type, NEW g PROVE JobId(GroupJob(type, g)) = GroupJob(type, g)
  <2>1. GroupJob(type, g).action = "NONE"
    BY DEF GroupJob, JobOf, NoJob
  <2>2. QED
    BY <1>1, <2>1, Zenon DEF GroupJob
<1>4. ASSUME NEW g, NEW s PROVE JobId(UpdateGroup(g, s)) = UpdateGroup(g, s)
  <2>1. UpdateGroup(g, s).action = "NONE"
    BY DEF UpdateGroup, GroupJob, JobOf, NoJob
  <2>2. QED
    BY <1>2, <2>1, Zenon DEF UpdateGroup
<1>5. \A g, s : ~Random(UpdateGroup(g, s))
  <2>1. \A g, s : UpdateGroup(g, s).force = FALSE /\ UpdateGroup(g, s).type = "UpdateGroup"
    BY DEF UpdateGroup, GroupJob, JobOf, NoJob
  <2>2. QED
    BY <2>1 DEF Random
<1>6. QED
  BY <1>3, <1>4, <1>5

\* A key that is new is the id of a job that is queued.
LEMMA SentIsQueued ==
  ASSUME Here, [Next]_vars, NEW i \in sent', i \notin sent
  PROVE  \E j \in queue' : JobId(j) = i
<1>1. ASSUME NEW J, Send(J) \/ \E k : TakeAndSend(k, J) PROVE \E j \in queue' : JobId(j) = i
  <2>1. i \in Keys(J)
    BY <1>1 DEF Send, TakeAndSend
  <2>2. PICK j \in J : ~Random(j) /\ JobId(j) = i
    BY <2>1 DEF Keys
  <2>3. New(j)
    BY <2>2 DEF New
  <2>4. j \in queue'
    BY <1>1, <2>3 DEF Send, TakeAndSend
  <2>5. QED
    BY <2>2, <2>4
<1>2. CASE \E w \in Workers : SendCreate(w)
  <2>1. PICK g : Send({GroupJob("CreateGroup", g)})
    BY <1>2 DEF SendCreate
  <2>2. QED
    BY <1>1, <2>1
<1>3. QED
  BY <1>1, <1>2, StepSends DEF Sending

-----------------------------------------------------------------------------
(***************************************************************************)
(* The launch of a group, once.                                            *)
(***************************************************************************)
\* The worker has moved g to PROCESSING and has its CreateGroup still to send.
Carries(x, g) == x.pc \in {"setTasks", "sendCreate"} /\ g \in x.todo

\* A group is launched once, by one worker, and its CreateGroup is sent once.
LaunchedOnce ==
  \A g \in Groups :
    /\ GroupJob("CreateGroup", g) \in sent \/ (\E w \in Workers : Carries(worker[w], g))
         => "processing" \in grp[g].stamps
    /\ \A w \in Workers : Carries(worker[w], g) =>
         /\ GroupJob("CreateGroup", g) \notin sent
         /\ \A v \in Workers : Carries(worker[v], g) => v = w
    /\ grp[g].status \in Unstarted => "processing" \notin grp[g].stamps

\* The time stamps of a group stay, and one that has not started is not PROCESSING yet.
LEMMA StampsGrow ==
  ASSUME Here, [Next]_vars, NEW g \in Groups
  PROVE  /\ grp[g].stamps \subseteq grp'[g].stamps
         /\ grp'[g].status \in Unstarted /\ "processing" \in grp'[g].stamps
              => "processing" \in grp[g].stamps
<1>0. grp[g] \in GroupRow /\ GroupAct(g) /\ Unstarted \cap Heard = {} /\ "PROCESSING" \notin Unstarted
  <2>1. grp[g] \in GroupRow /\ GroupAct(g)
    BY HereGives, GroupActs
  <2>2. "PROCESSING" \notin Unstarted
    BY DEF Unstarted, Absent
  <2>3. Unstarted \cap Heard = {}
    BY Apart DEF Unstarted, Absent, Prerunning, InQueue, Prescheduling
  <2>4. QED
    BY <2>1, <2>2, <2>3
<1>1. ASSUME NEW s \in Heard, NEW force, grp'[g] = UpdateGroupRow(grp[g], s, force)
      PROVE  /\ grp[g].stamps \subseteq grp'[g].stamps
             /\ grp'[g].status \in Unstarted => grp'[g].stamps = grp[g].stamps
  BY <1>0, <1>1 DEF UpdateGroupRow, Enter, GroupRow
<1>2. ASSUME NEW w \in Workers, Cancel(w),
             grp'[g] = UpdateGroupRow(grp[g], worker[w].job.status, worker[w].job.force)
      PROVE  /\ grp[g].stamps \subseteq grp'[g].stamps
             /\ grp'[g].status \in Unstarted => grp'[g].stamps = grp[g].stamps
  <2>1. PICK s \in Heard : s = worker[w].job.status
    BY <1>2, WritesHeard DEF Cancel
  <2>2. PICK f : f = worker[w].job.force
    OBVIOUS
  <2>3. QED
    BY <1>1, <1>2, <2>1, <2>2
<1>3. ASSUME NEW w \in Workers, WriteGroup(w), grp'[g] = UpdateGroupRow(grp[g], worker[w].new, FALSE)
      PROVE  /\ grp[g].stamps \subseteq grp'[g].stamps
             /\ grp'[g].status \in Unstarted => grp'[g].stamps = grp[g].stamps
  <2>1. PICK s \in Heard, f \in BOOLEAN : s = worker[w].new /\ f = FALSE
    BY <1>3, WritesHeard DEF WriteGroup
  <2>2. QED
    BY <1>1, <1>3, <2>1
<1>4. ASSUME grp'[g] = [grp[g] EXCEPT !.status = "PROCESSING", !.stamps = @ \cup {"processing"}]
      PROVE  grp[g].stamps \subseteq grp'[g].stamps /\ grp'[g].status \notin Unstarted
  BY <1>0, <1>4 DEF GroupRow
<1>5. CASE \/ grp'[g] = grp[g]
           \/ grp'[g] = [grp[g] EXCEPT !.status = "SUBMITTING", !.remaining = Upstream[g]]
           \/ grp'[g] = [grp[g] EXCEPT !.status = "WAITING"]
           \/ grp'[g] = [grp[g] EXCEPT !.cleaned = TRUE]
           \/ \E h \in Groups : grp'[g] = [grp[g] EXCEPT !.remaining = @ \ {h}]
  BY <1>0, <1>5 DEF GroupRow
<1>6. QED
  BY <1>0, <1>2, <1>3, <1>4, <1>5 DEF GroupAct

\* After a step the queue still holds jobs.
LEMMA QueuedNext ==
  ASSUME Calm'
  PROVE  queue' \subseteq Job
BY DEF Calm, Here, Known, Shape, JobShape, Named

\* The group of a launch that goes on was carried before, or is moved by this step.
LEMMA CarriesOn ==
  ASSUME Here, MaxCrashes = 0, [Next]_vars, NEW w \in Workers, NEW g \in Groups, Carries(worker'[w], g)
  PROVE  \/ Carries(worker[w], g)
         \/ /\ g \in worker[w].ready /\ Eligible(g) /\ sent' = sent
            /\ "processing" \in grp'[g].stamps
            /\ \A v \in Workers \ {w} : worker'[v] = worker[v]
<1> USE DEF jobs
<1> DEFINE x == worker[w]
           y == worker'[w]
<1>0. /\ Shape /\ worker \in [Workers -> Worker] /\ x \in Worker /\ backendUp
      /\ grp[g] \in GroupRow
  BY HereGives
<1>1. CASE y = x
  BY <1>1
<1>2. CASE y # x
  <2>1. WorkerStep(w) /\ \A v \in Workers \ {w} : worker'[v] = worker[v]
    BY <1>2, WorkerMovesOn
  <2>2. CheckWaiting(w) \/ LaunchDownstream(w) \/ SetTasks(w) \/ SendCreate(w)
    BY <1>0, <1>2, <2>1, NextPc DEF Carries, Going
  <2>3. CASE SetTasks(w)
    BY <1>0, <2>3, GotoGives DEF SetTasks, At, Carries
  <2>4. CASE SendCreate(w)
    <3>1. PICK h : Done(w) \/ worker' = [worker EXCEPT ![w].todo = @ \ {h}]
      BY <2>4 DEF SendCreate
    <3>2. ~Done(w)
      BY <1>0, DoneGives DEF Carries
    <3>3. y.todo = x.todo \ {h}
      BY <1>0, <3>1, <3>2 DEF Worker
    <3>4. QED
      BY <2>4, <3>3 DEF SendCreate, At, Carries
  <2>5. CASE CheckWaiting(w) \/ LaunchDownstream(w)
    <3>1. Done(w) \/ (SetGroups(w) /\ sent' = sent)
      BY <1>0, <2>5 DEF CheckWaiting, LaunchDownstream
    <3>2. ~Done(w)
      BY <1>0, DoneGives DEF Carries
    <3>3. SetGroups(w) /\ sent' = sent
      BY <3>1, <3>2
    <3>4. PICK M : /\ M = {h \in x.ready : Eligible(h)}
                   /\ worker' = [worker EXCEPT ![w].pc = "setTasks", ![w].ready = {}, ![w].todo = M]
                   /\ grp' = [h \in Groups |-> IF h \in M
                              THEN [grp[h] EXCEPT !.status = "PROCESSING",
                                                  !.stamps = @ \cup {"processing"}]
                              ELSE grp[h]]
      BY <3>2, <3>3 DEF SetGroups
    <3>5. y = [x EXCEPT !.pc = "setTasks", !.ready = {}, !.todo = M]
      BY <1>0, <3>4
    <3>6. y.todo = M
      BY <1>0, <3>5 DEF Worker
    <3>7. g \in x.ready /\ Eligible(g) /\ g \in M
      BY <3>4, <3>6 DEF Carries
    <3>8. "processing" \in grp'[g].stamps
      BY <1>0, <3>4, <3>7 DEF GroupRow
    <3>9. QED
      BY <2>1, <3>3, <3>7, <3>8
  <2>6. QED
    BY <2>2, <2>3, <2>4, <2>5
<1>3. QED
  BY <1>1, <1>2

\* A CreateGroup that is new is sent by a worker that carries the group and now does
\* not any more.
LEMMA CreateSent ==
  ASSUME Here, [Next]_vars, queue' \subseteq Job, NEW g \in Groups,
         GroupJob("CreateGroup", g) \in sent', GroupJob("CreateGroup", g) \notin sent
  PROVE  \E w \in Workers : Carries(worker[w], g) /\ ~Carries(worker'[w], g)
<1>0. worker \in [Workers -> Worker] /\ Shape
  BY HereGives
<1>1. ASSUME NEW J, Send(J) \/ \E k : TakeAndSend(k, J)
      PROVE  \E j \in J : JobId(j) = GroupJob("CreateGroup", g) /\ j \in Job
  <2>1. PICK j \in J : ~Random(j) /\ JobId(j) = GroupJob("CreateGroup", g)
    BY <1>1 DEF Send, TakeAndSend, Keys
  <2>2. j \in queue'
    BY <1>1, <2>1 DEF Send, TakeAndSend, New
  <2>3. QED
    BY <2>1, <2>2
<1>2. \A j : JobId(j) = GroupJob("CreateGroup", g) => JobId(j).type = "CreateGroup" /\ JobId(j).group = g
  BY Fields
<1>3. \A h : JobId(GroupJob("CreateGroup", h)).group = h
  BY GroupIds, Fields
<1>4. ASSUME NEW J, \A j \in J : j.type # "CreateGroup", Send(J) \/ \E k : TakeAndSend(k, J)
      PROVE  FALSE
  <2>1. PICK j \in J : JobId(j) = GroupJob("CreateGroup", g) /\ j \in Job
    BY <1>1, <1>4
  <2>2. JobId(j).type = "CreateGroup"
    BY <1>2, <2>1
  <2>3. j.type = "CreateGroup"
    BY <2>1, <2>2, IdKeeps
  <2>4. QED
    BY <1>4, <2>1, <2>3
<1>5. PICK w \in Workers : SendCreate(w)
  BY <1>4, StepSends DEF Sending
<1>6. PICK h \in worker[w].todo :
        /\ Send({GroupJob("CreateGroup", h)})
        /\ IF worker[w].todo = {h} THEN Done(w) ELSE worker' = [worker EXCEPT ![w].todo = @ \ {h}]
  BY <1>5 DEF SendCreate
<1>7. h = g
  BY <1>1, <1>2, <1>3, <1>6
<1>8. worker[w].pc = "sendCreate"
  BY <1>5 DEF SendCreate, At
<1>9. CASE Done(w)
  BY <1>0, <1>6, <1>7, <1>8, <1>9, DoneGives DEF Carries
<1>10. CASE worker' = [worker EXCEPT ![w].todo = @ \ {h}]
  <2>1. worker'[w].todo = worker[w].todo \ {h}
    BY <1>0, <1>10 DEF Worker
  <2>2. QED
    BY <1>6, <1>7, <1>8, <2>1 DEF Carries
<1>11. QED
  BY <1>6, <1>9, <1>10

\* No step launches a group a second time: SetGroups takes a group that has no
\* processing stamp, and gives it one in the same step.
LEMMA LaunchedOnceStays ==
  ASSUME Calm, Calm', LaunchedOnce, [Next]_vars
  PROVE  LaunchedOnce'
<1>0. Here /\ MaxCrashes = 0 /\ Shape /\ queue' \subseteq Job
  BY CalmGives, QueuedNext
<1> SUFFICES ASSUME NEW g \in Groups
             PROVE
    /\ GroupJob("CreateGroup", g) \in sent' \/ (\E w \in Workers : Carries(worker'[w], g))
         => "processing" \in grp'[g].stamps
    /\ \A w \in Workers : Carries(worker'[w], g) =>
         /\ GroupJob("CreateGroup", g) \notin sent'
         /\ \A v \in Workers : Carries(worker'[v], g) => v = w
    /\ grp'[g].status \in Unstarted => "processing" \notin grp'[g].stamps
  BY DEF LaunchedOnce, GroupJob, JobOf, NoJob
<1> DEFINE c == GroupJob("CreateGroup", g)
<1>1. \/ c \in sent' => c \in sent
      \/ \E w \in Workers : Carries(worker[w], g) /\ ~Carries(worker'[w], g)
  BY <1>0, CreateSent
<1>2. grp'[g].status \in Unstarted => "processing" \notin grp'[g].stamps
  <2>1. grp'[g].status \in Unstarted => grp[g].status \in Unstarted
    BY <1>0, NeverBack DEF Here, Known
  <2>2. QED
    BY <1>0, <2>1, StampsGrow DEF LaunchedOnce
<1>3. ASSUME NEW w \in Workers, Carries(worker'[w], g)
      PROVE  \/ Carries(worker[w], g)
             \/ /\ "processing" \in grp'[g].stamps /\ c \notin sent'
                /\ \A v \in Workers : Carries(worker'[v], g) => v = w
  <2>1. \/ Carries(worker[w], g)
        \/ /\ Eligible(g) /\ sent' = sent
           /\ "processing" \in grp'[g].stamps
           /\ \A v \in Workers \ {w} : worker'[v] = worker[v]
    BY <1>0, <1>3, CarriesOn
  <2>2. Eligible(g) => c \notin sent /\ \A v \in Workers : ~Carries(worker[v], g)
    BY DEF LaunchedOnce, Eligible
  <2>3. QED
    BY <2>1, <2>2
<1>4. ASSUME NEW w \in Workers, Carries(worker'[w], g), NEW v \in Workers, Carries(worker'[v], g)
      PROVE  v = w
  <2>1. CASE Carries(worker[w], g) /\ Carries(worker[v], g)
    BY <2>1 DEF LaunchedOnce
  <2>2. CASE ~Carries(worker[w], g)
    BY <1>3, <1>4, <2>2
  <2>3. CASE ~Carries(worker[v], g)
    BY <1>3, <1>4, <2>3
  <2>4. QED
    BY <2>1, <2>2, <2>3
<1>5. ASSUME NEW w \in Workers, Carries(worker'[w], g) PROVE c \notin sent'
  <2>1. CASE Carries(worker[w], g)
    <3>1. c \notin sent /\ \A v \in Workers : Carries(worker[v], g) => v = w
      BY <2>1 DEF LaunchedOnce
    <3>2. QED
      BY <1>1, <1>5, <3>1
  <2>2. QED
    BY <1>3, <1>5, <2>1
<1>6. ASSUME c \in sent' \/ (\E w \in Workers : Carries(worker'[w], g))
      PROVE  "processing" \in grp'[g].stamps
  <2>1. \/ c \in sent \/ (\E w \in Workers : Carries(worker[w], g))
        \/ "processing" \in grp'[g].stamps
    BY <1>1, <1>3, <1>6
  <2>2. QED
    BY <1>0, <2>1, StampsGrow DEF LaunchedOnce
<1>7. QED
  BY <1>2, <1>4, <1>5, <1>6

-----------------------------------------------------------------------------
(***************************************************************************)
(* What was sent for a group or a task is queued, in work or done.         *)
(***************************************************************************)
LEMMA OwingOrClosed ==
  ASSUME Calm, [Next]_vars, NEW g \in Groups, Closed(g) \/ Owing(g)
  PROVE  Closed(g)' \/ Owing(g)'
<1>0. Here /\ Late /\ CleanupsKept
  BY CalmGives
<1>1. CASE Closed(g)
  BY <1>0, <1>1, GroupsKeep
<1>2. CASE Owing(g) /\ ~Closed(g)
  <2>1. ~Applies("CleanupGroup", g)
    BY <1>0, <1>2 DEF Late, Tidied, Cleanup, Applies
  <2>2. QED
    BY <1>0, <1>2, <2>1, OwingStays
<1>3. QED
  BY <1>1, <1>2

\* The update of a group as a whole that was sent ends it.
Obeyed == \A g \in Groups, s \in Canceled \cup WholeGroup :
            UpdateGroup(g, s) \in sent => Closed(g) \/ Owing(g)

\* A key of such an update comes with a job in the queue, and the job with the worker
\* that takes it, until the group has finished.
LEMMA ObeyedStays ==
  ASSUME Calm, Calm', Obeyed, [Next]_vars
  PROVE  Obeyed'
<1>0. Here /\ queue' \subseteq Job
  BY CalmGives, QueuedNext
<1> SUFFICES ASSUME NEW g \in Groups, NEW s \in Canceled \cup WholeGroup, UpdateGroup(g, s) \in sent'
             PROVE  Closed(g)' \/ Owing(g)'
  BY DEF Obeyed, UpdateGroup, GroupJob, JobOf, NoJob, Canceled, WholeGroup
<1>1. CASE UpdateGroup(g, s) \in sent
  BY <1>1, OwingOrClosed DEF Obeyed
<1>2. CASE UpdateGroup(g, s) \notin sent
  <2>1. PICK i : i = UpdateGroup(g, s)
    OBVIOUS
  <2>2. PICK j \in queue' : JobId(j) = i
    BY <1>0, <1>2, <2>1, SentIsQueued
  <2>3. /\ i.type = "UpdateGroup" /\ i.group = g /\ i.task = None /\ i.status = s
    BY <2>1, Fields
  <2>4. j \in Job /\ j.type = "UpdateGroup" /\ j.group = g /\ j.task = None /\ j.status = s
    BY <1>0, <2>2, <2>3, IdKeeps
  <2>5. s \in Finished
    BY Apart
  <2>6. OwingJob(j, g)'
    BY <2>4, <2>5 DEF OwingJob, Cleans, Eff
  <2>7. QED
    BY <2>6 DEF Owing
<1>3. QED
  BY <1>1, <1>2

\* The report that a pod has ended.
Report(j, t) ==
  j.type = "UpdateGroup" /\ j.task = t /\ j.status \in GroupFinished \ {"FAILED_START_TIMEOUT"}

\* A task whose pod has ended is over or about to be.
Reported(t)  == Over(t) \/ \E j \in queue : Report(j, t)
ReportsCount == \A t \in Tasks :
                  pod[t].phase = "ended" \/ (\E i \in sent : Report(i, t)) => Reported(t)

\* A report is queued until a worker applies it, which ends the row of the task.
LEMMA ReportedStays ==
  ASSUME Calm, NEW t \in Tasks, Reported(t), [Next]_vars
  PROVE  Reported(t)'
<1>0. Here /\ backendUp
  BY CalmGives
<1>1. CASE Over(t)
  BY <1>0, <1>1, RowsKeep DEF Reported
<1>2. CASE \E j \in queue : Report(j, t)
  <2>1. PICK j \in queue : Report(j, t)
    BY <1>2
  <2>2. CASE j \in queue'
    BY <2>1, <2>2 DEF Reported, Report
  <2>3. CASE j \notin queue'
    <3>1. j \in Job /\ PlainJob(j) /\ HeardJob(j) /\ MaxRetry = 0 /\ t # None
      BY <1>0, HereGives, WorkflowAssumption
    <3>2. j.task = t /\ j.status \notin Canceled \cup WholeGroup /\ j.type = "UpdateGroup"
          /\ j.status # "FAILED_START_TIMEOUT" /\ j.status \in GroupFinished /\ j.retry = 0
      BY <2>1, <3>1 DEF Report, PlainJob
    <3>3. PICK w \in Workers : Begun(j, w)
      BY <1>0, <2>1, <2>3, <3>2, Taken
    <3>4. rows'[t][0] = UpdateTaskRow(rows[t][0], Eff(j))
      BY <3>2, <3>3 DEF Begun
    <3>5. Eff(j) \in GroupFinished \ {"FAILED_START_TIMEOUT"} /\ Eff(j) \in Heard \ {"RESCHEDULED"}
      <4>1. Eff(j) = ExitStatus(j) /\ Eff(j) \in Heard \ {"RESCHEDULED"}
        BY <3>1, <3>2, EffIs, Apart
      <4>2. ExitStatus(j) \in {j.status, j.action} /\ (j.action = "NONE" => ExitStatus(j) = j.status)
        BY DEF ExitStatus
      <4>3. QED
        BY <3>1, <3>2, <4>1, <4>2, Apart DEF Job, ExitActions
    <3>6. rows[t][0].status # Absent /\ rows[t][0] \in Row /\ PlainRow(rows[t][0])
      <4>1. Submitted
        BY <1>0, <2>1, <3>2 DEF Here, Known, Sound, Unsubmitted
      <4>2. QED
        BY <1>0, <4>1, HereGives, WorkflowAssumption DEF Submitted, Here, Orderly, PlainData
    <3>7. rows'[t][0].status \in GroupFinished
      BY <3>4, <3>5, <3>6, RowTakes
    <3>8. QED
      BY <3>7 DEF Reported, Over
  <2>4. QED
    BY <2>2, <2>3
<1>3. QED
  BY <1>1, <1>2 DEF Reported

\* A pod that ends leaves its report: when the report is not queued because its key was
\* there, the same report is queued or has been applied.
LEMMA ReportsStay ==
  ASSUME Calm, Calm', ReportsCount, [Next]_vars
  PROVE  ReportsCount'
<1>0. Here /\ queue' \subseteq Job
  BY CalmGives, QueuedNext
<1>1. ASSUME NEW t \in Tasks, NEW i \in sent', Report(i, t) PROVE Reported(t)'
  <2>1. CASE i \in sent
    BY <1>1, <2>1, ReportedStays DEF ReportsCount
  <2>2. CASE i \notin sent
    <3>1. PICK j \in queue' : JobId(j) = i
      BY <1>0, <2>2, SentIsQueued
    <3>2. Report(j, t)
      BY <1>0, <1>1, <3>1, IdKeeps DEF Report
    <3>3. QED
      BY <3>2 DEF Reported, Report
  <2>3. QED
    BY <2>1, <2>2
<1>2. ASSUME NEW t \in Tasks, pod'[t].phase = "ended" PROVE Reported(t)'
  <2>1. CASE pod[t].phase = "ended"
    BY <2>1, ReportedStays DEF ReportsCount
  <2>2. CASE pod[t].phase # "ended"
    <3>1. PodStep(t) /\ "ended" \notin Reports
      BY <1>0, PodSteps, WorkflowAssumption
    <3>2. PodEnds(t)
      BY <1>2, <2>2, <3>1 DEF PodStep
    <3>3. PICK o \in Outcomes : Send({[UpdateTask(t, pod[t].retry, o.status) EXCEPT !.action = o.action]})
      BY <3>2 DEF PodEnds
    <3>4. PICK j : j = [UpdateTask(t, pod[t].retry, o.status) EXCEPT !.action = o.action]
      OBVIOUS
    <3>5. j.type = "UpdateGroup" /\ j.task = t /\ j.status = o.status /\ ~j.force
      BY <3>4, Fields
    <3>6. o.status \in GroupFinished \ {"FAILED_START_TIMEOUT"}
      BY WorkflowAssumption DEF GroupFinished, FailedStatuses
    <3>7. JobId(j) \in sent'
      BY <3>3, <3>4, <3>5 DEF Send, Keys, Random
    <3>8. Report(JobId(j), t)
      <4>1. JobId(j).type = j.type /\ JobId(j).task = j.task /\ JobId(j).status = j.status
        BY <3>4 DEF JobId, UpdateTask, TaskJob, GroupJob, JobOf, NoJob
      <4>2. QED
        BY <3>5, <3>6, <4>1 DEF Report
    <3>9. QED
      BY <1>1, <3>7, <3>8
  <2>3. QED
    BY <2>1, <2>2
<1>3. QED
  BY <1>1, <1>2 DEF ReportsCount, Report

-----------------------------------------------------------------------------
(***************************************************************************)
(* A group that has started.                                               *)
(***************************************************************************)
\* The pods of g are about to be created.
Creating(g) == \/ \E w \in Workers : Carries(worker[w], g)
               \/ \E j \in queue : j.type = "CreateGroup" /\ j.group = g
               \/ Applies("CreateGroup", g)

\* A group that has started and not finished is being created, has the pod of its
\* lead task, or is about to end.
Underway == \A g \in Groups : grp[g].status \notin Unstarted /\ ~Closed(g) =>
              Creating(g) \/ pod[Lead[g]].phase # "none" \/ Owing(g)

\* The backend worker leaves the step that applies a job by applying it or by being refused.
LEMMA AgentApplies ==
  ASSUME Here, MaxCrashes = 0, [Next]_vars, agent.pc = "apply", agent' # agent
  PROVE  Apply \/ Refuse
<1> USE DEF cluster
<1>1. CASE PrepareCreateGroup \/ PrepareCleanupGroup \/ PrepareRescheduleTask \/ Execute
  BY <1>1 DEF PrepareCreateGroup, PrepareCleanupGroup, PrepareRescheduleTask, Execute
<1>2. CASE \E w \in Workers : WorkerStep(w) \/ Crash(w)
  BY <1>2, WorkersOnly
<1>3. CASE \/ \E t \in Tasks : PodMoves(t) \/ PodEnds(t)
           \/ \E force \in CancelForms : AskCancel(force)
           \/ DeleteBackend \/ UNCHANGED vars
  BY <1>3 DEF PodMoves, PodEnds, AskCancel, DeleteBackend, vars
<1>4. CASE Disconnect
  BY <1>4, NobodyDies
<1>5. QED
  BY <1>1, <1>2, <1>3, <1>4 DEF Next, AgentStep

\* The launch that a worker carries goes on until its CreateGroup is queued.
LEMMA CarriedIsCreated ==
  ASSUME Calm, LaunchedOnce, [Next]_vars, NEW g \in Groups, NEW w \in Workers, Carries(worker[w], g)
  PROVE  Creating(g)'
<1>0. Here /\ MaxCrashes = 0 /\ Shape /\ worker \in [Workers -> Worker] /\ worker[w] \in Worker
  BY CalmGives
<1>1. CASE worker'[w] = worker[w]
  BY <1>1 DEF Creating, Carries
<1>2. CASE worker'[w] # worker[w]
  <2>1. SetTasks(w) \/ SendCreate(w)
    BY <1>0, <1>2, WorkerMovesOn DEF Follows, Carries, At
  <2>2. CASE SetTasks(w)
    <3>1. Carries(worker'[w], g)
      BY <1>0, <2>2, GotoGives DEF SetTasks, Carries
    <3>2. QED
      BY <3>1 DEF Creating, Carries
  <2>3. CASE SendCreate(w)
    <3>1. PICK h \in worker[w].todo :
            /\ Send({GroupJob("CreateGroup", h)})
            /\ IF worker[w].todo = {h} THEN Done(w) ELSE worker' = [worker EXCEPT ![w].todo = @ \ {h}]
      BY <2>3 DEF SendCreate
    <3>2. CASE h = g
      <4>1. PICK j : j = GroupJob("CreateGroup", g)
        OBVIOUS
      <4>2. JobId(j) = j /\ j.type = "CreateGroup" /\ j.group = g
        BY <4>1, Fields, GroupIds
      <4>3. j \notin sent
        BY <4>1 DEF LaunchedOnce
      <4>4. j \in queue'
        BY <3>1, <3>2, <4>1, <4>2, <4>3 DEF Send, New
      <4>5. QED
        BY <4>2, <4>4 DEF Creating
    <3>3. CASE h # g
      <4>1. worker' = [worker EXCEPT ![w].todo = @ \ {h}] /\ worker[w].pc = "sendCreate"
        BY <2>3, <3>1, <3>3 DEF Carries, SendCreate, At
      <4>2. worker'[w].todo = worker[w].todo \ {h} /\ worker'[w].pc = worker[w].pc
        BY <1>0, <4>1 DEF Worker
      <4>3. Carries(worker'[w], g)
        BY <3>3, <4>1, <4>2 DEF Carries
      <4>4. QED
        BY <4>3 DEF Creating, Carries
    <3>4. QED
      BY <3>2, <3>3
  <2>4. QED
    BY <2>1, <2>2, <2>3
<1>3. QED
  BY <1>1, <1>2

\* No pod of a group that has not finished is deleted.
LEMMA PodStays ==
  ASSUME Calm, [Next]_vars, NEW t \in Tasks, ~Closed(GroupOf[t]), pod[t].phase # "none"
  PROVE  pod'[t].phase # "none"
<1>0. Here /\ Late /\ PodStep(t) /\ GroupOf[t] \in Groups /\ "none" \notin Reports
  BY CalmGives, PodSteps, WorkflowAssumption
<1>1. ~(Apply /\ agent.job.group = GroupOf[t] /\ agent.job.type = "CleanupGroup")
  BY <1>0 DEF Late, Tidied, Cleanup, Apply
<1>2. QED
  BY <1>0, <1>1 DEF PodStep

\* The update of a group as a whole leaves its key.
LEMMA UpdateIsSent ==
  ASSUME NEW g, NEW s, NEW J, UpdateGroup(g, s) \in J, Send(J) \/ \E k : TakeAndSend(k, J)
  PROVE  UpdateGroup(g, s) \in sent'
<1>1. PICK j : j = UpdateGroup(g, s)
  OBVIOUS
<1>2. ~Random(j) /\ JobId(j) = j
  BY <1>1, GroupIds
<1>3. QED
  BY <1>1, <1>2 DEF Send, TakeAndSend, Keys

\* The launch passes from the worker to the queue, to the backend worker and to the pod; a
\* CreateGroup that fails on the way sends the update that ends the group.
LEMMA UnderwayStays ==
  ASSUME Calm, LaunchedOnce, Obeyed', Underway, [Next]_vars
  PROVE  Underway'
<1>0. /\ Here /\ MaxCrashes = 0 /\ Shape /\ worker \in [Workers -> Worker]
      /\ agent \in [pc : {"idle", "apply", "execute"}, job : Named]
  BY CalmGives DEF Shape, ClusterShape
<1> SUFFICES ASSUME NEW g \in Groups, grp'[g].status \notin Unstarted, ~Closed(g)'
             PROVE  Creating(g)' \/ pod'[Lead[g]].phase # "none" \/ Owing(g)'
  BY DEF Underway
<1>1. Lead[g] \in Tasks /\ GroupOf[Lead[g]] = g
  BY WorkflowAssumption
<1>2. UpdateGroup(g, "FAILED_SERVER_ERROR") \in sent' => Owing(g)'
  BY DEF Obeyed, WholeGroup, UpdateGroup, GroupJob, JobOf, NoJob
<1>3. ASSUME \/ Send({UpdateGroup(g, "FAILED_SERVER_ERROR")})
             \/ \E k : TakeAndSend(k, {UpdateGroup(g, "FAILED_SERVER_ERROR")})
      PROVE  Owing(g)'
  BY <1>2, <1>3, UpdateIsSent
<1>4. CASE grp[g].status \in Unstarted
  <2>1. PICK w \in Workers : SetGroups(w) /\ g \in worker[w].ready /\ Eligible(g)
    BY <1>0, <1>4, StatusActs
  <2>2. PICK M : /\ M = {h \in worker[w].ready : Eligible(h)}
                 /\ IF M = {} THEN Done(w)
                    ELSE worker' = [worker EXCEPT ![w].pc = "setTasks", ![w].ready = {}, ![w].todo = M]
    BY <2>1 DEF SetGroups
  <2>3. g \in M /\ worker' = [worker EXCEPT ![w].pc = "setTasks", ![w].ready = {}, ![w].todo = M]
    BY <2>1, <2>2
  <2>4. worker'[w] = [worker[w] EXCEPT !.pc = "setTasks", !.ready = {}, !.todo = M]
    BY <1>0, <2>3
  <2>5. worker'[w].pc = "setTasks" /\ worker'[w].todo = M
    BY <1>0, <2>4 DEF Worker
  <2>6. Carries(worker'[w], g)
    BY <2>3, <2>5 DEF Carries
  <2>7. QED
    BY <2>6 DEF Creating, Carries
<1>5. CASE grp[g].status \notin Unstarted
  <2>0. ~Closed(g)
    BY <1>0, GroupsKeep
  <2>1. CASE Owing(g)
    BY <2>1, OwingOrClosed
  <2>2. CASE pod[Lead[g]].phase # "none"
    BY <1>1, <2>0, <2>2, PodStays
  <2>3. CASE \E w \in Workers : Carries(worker[w], g)
    BY <2>3, CarriedIsCreated
  <2>4. CASE \E j \in queue : j.type = "CreateGroup" /\ j.group = g
    <3>1. PICK j \in queue : j.type = "CreateGroup" /\ j.group = g
      BY <2>4
    <3>2. CASE j \in queue'
      BY <3>1, <3>2 DEF Creating
    <3>3. CASE j \notin queue'
      <4>1. \/ agent'.pc = "apply" /\ agent'.job = j
            \/ Send({UpdateGroup(g, "FAILED_SERVER_ERROR")})
            \/ TakeAndSend(j, {UpdateGroup(g, "FAILED_SERVER_ERROR")})
        BY <1>0, <3>1, <3>3, Taken
      <4>2. CASE agent'.pc = "apply" /\ agent'.job = j
        BY <3>1, <4>2 DEF Creating, Applies
      <4>3. QED
        BY <1>3, <4>1, <4>2
    <3>4. QED
      BY <3>2, <3>3
  <2>5. CASE Applies("CreateGroup", g)
    <3>1. CASE agent' = agent
      BY <2>5, <3>1 DEF Creating, Applies
    <3>2. CASE agent' # agent
      <4>1. Apply \/ Refuse
        BY <1>0, <2>5, <3>2, AgentApplies DEF Applies
      <4>2. CASE Refuse
        <5>1. Send({UpdateGroup(g, "FAILED_SERVER_ERROR")})
          BY <2>5, <4>2 DEF Refuse, Applies
        <5>2. QED
          BY <1>3, <5>1
      <4>3. CASE Apply
        <5>1. agent.job.task = None /\ agent.job.type = "CreateGroup" /\ agent.job.group = g
          BY <1>0, <2>5 DEF Applies, Here, Orderly, PlainJobs, PlainJob
        <5>2. pod'[Lead[g]] = IF pod[Lead[g]].phase = "none" THEN Pod(Latest(Lead[g])) ELSE pod[Lead[g]]
          BY <1>1, <4>3, <5>1 DEF Apply
        <5>3. \A r : Pod(r).phase = "created"
          BY DEF Pod
        <5>4. QED
          BY <5>2, <5>3
      <4>4. QED
        BY <4>1, <4>2, <4>3
    <3>3. QED
      BY <3>1, <3>2
  <2>6. QED
    BY <1>5, <2>0, <2>1, <2>2, <2>3, <2>4, <2>5 DEF Underway, Creating
<1>6. QED
  BY <1>4, <1>5

-----------------------------------------------------------------------------
(***************************************************************************)
(* A group that waits.                                                     *)
(***************************************************************************)
\* The worker ends u and has yet to tell d, which waits for it.
Releasing(x, u, d) ==
  /\ x.job.group = u
  /\ \/ x.pc \in {"recheck", "writeGroup", "readGroups", "writeWorkflow", "finish"}
     \/ x.pc = "downstream" /\ d \in x.todo

\* A group waits only for its upstream groups; when one of those has finished, a worker
\* is about to tell it or it is about to end; when none is left, a worker has seen it.
Awaiting ==
  /\ \A d \in Groups : grp[d].remaining \subseteq Upstream[d]
  /\ \A d \in Groups : grp[d].status \in Unstarted =>
       \A u \in grp[d].remaining :
         Closed(u) => Owing(d) \/ \E w \in Workers : Releasing(worker[w], u, d)
  /\ \A d \in Groups : grp[d].status = "WAITING" /\ grp[d].remaining = {} =>
       \E w \in Workers : /\ worker[w].pc \in {"checkWaiting", "downstream", "setGroups"}
                          /\ d \in worker[w].ready

\* A group is closed by the worker of one of its updates, which goes on from there.
LEMMA ClosedBy ==
  ASSUME Here, [Next]_vars, NEW u \in Groups, ~Closed(u), Closed(u)'
  PROVE  \E w \in Workers : worker'[w].pc \in {"recheck", "readGroups"} /\ worker'[w].job.group = u
<1>0. Shape /\ worker \in [Workers -> Worker] /\ GroupAct(u) /\ grp[u] \in GroupRow
  BY HereGives, GroupActs
<1>1. ASSUME NEW w \in Workers, Cancel(w), worker[w].job.group = u
      PROVE  worker'[w].pc \in {"recheck", "readGroups"} /\ worker'[w].job.group = u
  BY <1>0, <1>1, GotoGives DEF Cancel
<1>2. ASSUME NEW w \in Workers, WriteGroup(w), worker[w].job.group = u
      PROVE  worker'[w].pc \in {"recheck", "readGroups"} /\ worker'[w].job.group = u
  <2>1. worker' = [worker EXCEPT ![w].pc = "readGroups", ![w].new = Absent]
    BY <1>2 DEF WriteGroup
  <2>2. worker'[w] = [worker[w] EXCEPT !.pc = "readGroups", !.new = Absent] /\ worker[w] \in Worker
    BY <1>0, <2>1
  <2>3. worker'[w].pc = "readGroups" /\ worker'[w].job = worker[w].job
    BY <2>2 DEF Worker
  <2>4. QED
    BY <1>2, <2>3
<1>3. CASE \/ grp'[u] = grp[u]
           \/ grp'[u] = [grp[u] EXCEPT !.status = "SUBMITTING", !.remaining = Upstream[u]]
           \/ grp'[u] = [grp[u] EXCEPT !.status = "WAITING"]
           \/ grp'[u] = [grp[u] EXCEPT !.status = "PROCESSING", !.stamps = @ \cup {"processing"}]
           \/ grp'[u] = [grp[u] EXCEPT !.cleaned = TRUE]
           \/ \E h \in Groups : grp'[u] = [grp[u] EXCEPT !.remaining = @ \ {h}]
  <2>1. grp'[u].status \in {grp[u].status, "SUBMITTING", "WAITING", "PROCESSING"}
    BY <1>0, <1>3 DEF GroupRow
  <2>2. QED
    BY <2>1, Apart DEF Closed, Prerunning, InQueue, Prescheduling
<1>4. QED
  BY <1>0, <1>1, <1>2, <1>3 DEF GroupAct

\* What a group waits for shrinks by the release of a worker, once it is inserted.
LEMMA RemainingShrinks ==
  ASSUME Here, [Next]_vars, NEW d \in Groups
  PROVE  /\ grp[d].remaining \subseteq Upstream[d] => grp'[d].remaining \subseteq Upstream[d]
         /\ grp[d].status # Absent => grp'[d].remaining \subseteq grp[d].remaining
         /\ grp[d].status # Absent /\ grp'[d].remaining # grp[d].remaining =>
              \E w \in Workers : /\ ReleaseDownstream(w)
                                 /\ grp'[d].remaining = grp[d].remaining \ {worker[w].job.group}
<1>0. GroupAct(d) /\ grp[d] \in GroupRow
  BY HereGives, GroupActs
<1>1. ASSUME NEW s, NEW f, grp'[d] = UpdateGroupRow(grp[d], s, f) PROVE grp'[d].remaining = grp[d].remaining
  BY <1>0, <1>1 DEF UpdateGroupRow, Enter, GroupRow
<1>2. CASE \/ grp'[d] = grp[d]
           \/ grp'[d] = [grp[d] EXCEPT !.status = "WAITING"]
           \/ grp'[d] = [grp[d] EXCEPT !.status = "PROCESSING", !.stamps = @ \cup {"processing"}]
           \/ grp'[d] = [grp[d] EXCEPT !.cleaned = TRUE]
  BY <1>0, <1>2 DEF GroupRow
<1>3. CASE /\ grp[d].status = Absent
           /\ grp'[d] = [grp[d] EXCEPT !.status = "SUBMITTING", !.remaining = Upstream[d]]
  BY <1>0, <1>3 DEF GroupRow
<1>4. CASE \E w \in Workers : /\ ReleaseDownstream(w)
                              /\ grp'[d] = [grp[d] EXCEPT !.remaining = @ \ {worker[w].job.group}]
  <2>1. PICK w \in Workers : /\ ReleaseDownstream(w)
                             /\ grp'[d] = [grp[d] EXCEPT !.remaining = @ \ {worker[w].job.group}]
    BY <1>4
  <2>2. grp'[d].remaining = grp[d].remaining \ {worker[w].job.group}
    BY <1>0, <2>1 DEF GroupRow
  <2>3. QED
    BY <2>1, <2>2
<1>5. CASE \E w \in Workers :
             \/ grp'[d] = UpdateGroupRow(grp[d], worker[w].job.status, worker[w].job.force)
             \/ grp'[d] = UpdateGroupRow(grp[d], worker[w].new, FALSE)
  <2>1. grp'[d].remaining = grp[d].remaining
    BY <1>1, <1>5
  <2>2. QED
    BY <2>1
<1>6. QED
  BY <1>0, <1>2, <1>3, <1>4, <1>5 DEF GroupAct

\* The release of one downstream group: the worker remembers those that wait no more.
LEMMA Released ==
  ASSUME Here, NEW w \in Workers, ReleaseDownstream(w)
  PROVE  LET x == worker[w]
             y == worker'[w]
         IN \E d \in x.todo :
              /\ grp' = [grp EXCEPT ![d].remaining = grp[d].remaining \ {x.job.group}]
              /\ x.ready \subseteq y.ready /\ (y.ready # {} => y.pc \in {"downstream", "setGroups"})
              /\ grp[d].remaining \ {x.job.group} = {} => d \in y.ready
              /\ \A e \in x.todo \ {d} : y.pc = "downstream" /\ e \in y.todo /\ y.job = x.job
<1> DEFINE x == worker[w]
           y == worker'[w]
<1>0. worker \in [Workers -> Worker] /\ x \in Worker /\ Shape /\ x.pc = "downstream"
  BY HereGives DEF ReleaseDownstream, At
<1> DEFINE Rest(d) == grp[d].remaining \ {x.job.group}
           Now(d)  == x.ready \cup {e \in {d} : Rest(d) = {}}
<1>1. PICK d \in x.todo :
        /\ grp' = [grp EXCEPT ![d].remaining = Rest(d)]
        /\ IF x.todo # {d}
           THEN worker' = [worker EXCEPT ![w].todo = @ \ {d}, ![w].ready = Now(d)]
           ELSE IF Now(d) = {} THEN Done(w)
           ELSE worker' = [worker EXCEPT ![w].pc = "setGroups", ![w].todo = {}, ![w].ready = Now(d)]
  BY DEF ReleaseDownstream
<1>2. CASE x.todo # {d}
  <2>1. worker' = [worker EXCEPT ![w].todo = @ \ {d}, ![w].ready = Now(d)]
    BY <1>1, <1>2
  <2>2. y = [x EXCEPT !.todo = x.todo \ {d}, !.ready = Now(d)]
    BY <1>0, <2>1
  <2>3. y.todo = x.todo \ {d} /\ y.ready = Now(d) /\ y.pc = "downstream" /\ y.job = x.job
    BY <1>0, <2>2 DEF Worker
  <2>4. QED
    BY <1>1, <2>3
<1>3. CASE x.todo = {d} /\ Now(d) = {}
  <2>1. y.ready = {}
    BY <1>0, <1>1, <1>3, DoneGives
  <2>2. QED
    BY <1>1, <1>3, <2>1
<1>4. CASE x.todo = {d} /\ Now(d) # {}
  <2>1. worker' = [worker EXCEPT ![w].pc = "setGroups", ![w].todo = {}, ![w].ready = Now(d)]
    BY <1>1, <1>4
  <2>2. y = [x EXCEPT !.pc = "setGroups", !.todo = {}, !.ready = Now(d)]
    BY <1>0, <2>1
  <2>3. y.ready = Now(d) /\ y.pc = "setGroups"
    BY <1>0, <2>2 DEF Worker
  <2>4. QED
    BY <1>1, <1>4, <2>3
<1>5. QED
  BY <1>2, <1>3, <1>4

\* A worker that is to tell d of the end of u goes on, unless d is told.
LEMMA ReleasingGoesOn ==
  ASSUME Calm, [Next]_vars, NEW d \in Groups, NEW u \in Groups, Closed(u), u \in Upstream[d],
         u \in grp'[d].remaining, NEW w \in Workers, Releasing(worker[w], u, d)
  PROVE  \/ Releasing(worker'[w], u, d)
         \/ UpdateGroup(d, "FAILED_UPSTREAM") \in sent'
<1> DEFINE x == worker[w]
           y == worker'[w]
<1>0. /\ Here /\ MaxCrashes = 0 /\ Shape /\ worker \in [Workers -> Worker] /\ x \in Worker
      /\ backendUp /\ \A g \in Groups : grp[g] \in GroupRow
  BY CalmGives
<1>1. CASE y = x
  BY <1>1
<1>2. CASE y # x
  <2>0. Follows(w) /\ x.job.group = u
    BY <1>0, <1>2, WorkerMovesOn DEF Releasing
  <2>1. grp[u].status # "PROCESSING"
    BY Apart DEF Closed, Prerunning, InQueue, Prescheduling
  <2>2. CASE x.pc = "recheck"
    <3>1. Recheck(w)
      BY <2>0, <2>2 DEF Follows, At
    <3>2. PICK n : worker' = [worker EXCEPT ![w].pc = "writeGroup", ![w].new = n]
      BY <2>0, <2>1, <3>1 DEF Recheck
    <3>3. y = [x EXCEPT !.pc = "writeGroup", !.new = n]
      BY <1>0, <3>2
    <3>4. y.pc = "writeGroup" /\ y.job = x.job
      BY <1>0, <3>3 DEF Worker
    <3>5. QED
      BY <2>0, <3>4 DEF Releasing
  <2>3. CASE x.pc \in {"writeGroup", "readGroups", "writeWorkflow"}
    <3>0. PICK p \in {"readGroups", "writeWorkflow", "finish"} :
            \E n : worker' = [worker EXCEPT ![w].pc = p, ![w].new = n]
      BY <2>0, <2>3 DEF Follows, At, WriteGroup, ReadGroups, WriteWorkflow
    <3>1. PICK n : worker' = [worker EXCEPT ![w].pc = p, ![w].new = n]
      BY <3>0
    <3>2. y = [x EXCEPT !.pc = p, !.new = n]
      BY <1>0, <3>1
    <3>3. y.pc = p /\ y.job = x.job
      BY <1>0, <3>2 DEF Worker
    <3>4. QED
      BY <2>0, <3>3 DEF Releasing
  <2>4. CASE x.pc = "finish"
    <3>1. Finish(w) /\ d \in Downstream(u)
      BY <2>0, <2>4 DEF Follows, At, Downstream
    <3>2. CASE grp[u].status = "COMPLETED"
      <4>1. worker' = [worker EXCEPT ![w].pc = "downstream", ![w].todo = Downstream(u)]
        BY <1>0, <2>0, <3>1, <3>2, BackendIsFound DEF Finish
      <4>2. y = [x EXCEPT !.pc = "downstream", !.todo = Downstream(u)]
        BY <1>0, <4>1
      <4>3. y.pc = "downstream" /\ y.todo = Downstream(u) /\ y.job = x.job
        BY <1>0, <4>2 DEF Worker
      <4>4. QED
        BY <2>0, <3>1, <4>3 DEF Releasing
    <3>3. CASE grp[u].status \in FailedStatuses
      <4>1. PICK J : /\ J = CleanupGroupJobs(x.job, x.eff, HasBackend(x.job))
                            \cup {UpdateGroup(e, f) : e \in Downstream(u), f \in {"FAILED_UPSTREAM"}}
                     /\ Send(J)
        BY <1>0, <2>0, <3>1, <3>3, BackendIsFound DEF Finish
      <4>2. UpdateGroup(d, "FAILED_UPSTREAM") \in J
        BY <3>1, <4>1
      <4>3. QED
        BY <4>1, <4>2, UpdateIsSent
    <3>4. QED
      BY <3>2, <3>3, Apart DEF Closed
  <2>5. CASE x.pc = "downstream" /\ d \in x.todo
    <3>1. ReleaseDownstream(w)
      BY <2>0, <2>5 DEF Follows, At
    <3>2. PICK e \in x.todo :
              /\ grp' = [grp EXCEPT ![e].remaining = grp[e].remaining \ {u}]
              /\ \A h \in x.todo \ {e} : y.pc = "downstream" /\ h \in y.todo /\ y.job = x.job
      BY <1>0, <2>0, <3>1, Released
    <3>3. e # d
      <4>1. SUFFICES ASSUME e = d PROVE FALSE
        OBVIOUS
      <4>2. grp'[d].remaining = grp[d].remaining \ {u}
        BY <1>0, <3>2, <4>1 DEF Shape, DbShape, GroupRow
      <4>3. QED
        BY <4>2
    <3>4. QED
      BY <2>0, <2>5, <3>2, <3>3 DEF Releasing
  <2>6. QED
    BY <2>2, <2>3, <2>4, <2>5 DEF Releasing
<1>3. QED
  BY <1>1, <1>2

\* A group that waits is told of every upstream group that finishes, and the worker that
\* tells it of the last one goes on to launch it.
LEMMA AwaitingStays ==
  ASSUME Calm, LaunchedOnce, Obeyed', Awaiting, [Next]_vars
  PROVE  Awaiting'
<1>0. /\ Here /\ MaxCrashes = 0 /\ Shape /\ worker \in [Workers -> Worker] /\ backendUp
      /\ \A g \in Groups : grp[g] \in GroupRow
  BY CalmGives
<1>1. \A d \in Groups : grp'[d].remaining \subseteq Upstream[d]
  BY <1>0, RemainingShrinks DEF Awaiting
<1>2. ASSUME NEW d \in Groups, grp'[d].status \in Unstarted, NEW u \in grp'[d].remaining, Closed(u)'
      PROVE  Owing(d)' \/ \E w \in Workers : Releasing(worker'[w], u, d)
  <2>0. u \in Groups /\ u \in Upstream[d] /\ grp[d].status \in Unstarted /\ ~Closed(d)'
    BY <1>0, <1>1, <1>2, WorkflowAssumption, NeverBack, Apart DEF Here, Known, Closed
  <2>1. CASE grp[d].status = Absent
    <3>1. Unsubmitted
      BY <1>0, <2>1 DEF Here, Known, Sound, Submitted
    <3>2. Unsubmitted' \/ \E w \in Workers : InsertGroups(w)
      BY <1>0, <3>1, SubmissionIsFirst
    <3>3. CASE Unsubmitted'
      BY <1>2, <2>0, <3>3, Apart DEF Unsubmitted, Closed
    <3>4. CASE \E w \in Workers : InsertGroups(w)
      <4>1. grp[u].status = Absent
        BY <2>0, <3>1 DEF Unsubmitted
      <4>2. grp'[u].status = "SUBMITTING"
        BY <1>0, <2>0, <3>4, <4>1 DEF InsertGroups, GroupRow
      <4>3. QED
        BY <1>2, <4>2, Apart DEF Closed, Prerunning, InQueue, Prescheduling
    <3>5. QED
      BY <3>2, <3>3, <3>4
  <2>2. CASE grp[d].status # Absent /\ Closed(u)
    <3>1. u \in grp[d].remaining
      BY <1>0, <1>2, <2>2, RemainingShrinks
    <3>2. CASE Owing(d)
      BY <2>0, <3>2, OwingOrClosed
    <3>3. CASE \E w \in Workers : Releasing(worker[w], u, d)
      <4>1. PICK w \in Workers : Releasing(worker[w], u, d)
        BY <3>3
      <4>2. CASE UpdateGroup(d, "FAILED_UPSTREAM") \in sent'
        BY <2>0, <4>2 DEF Obeyed, WholeGroup, UpdateGroup, GroupJob, JobOf, NoJob
      <4>3. QED
        BY <1>2, <2>0, <2>2, <4>1, <4>2, ReleasingGoesOn
    <3>4. QED
      BY <2>0, <2>2, <3>1, <3>2, <3>3 DEF Awaiting
  <2>3. CASE grp[d].status # Absent /\ ~Closed(u)
    <3>1. \E w \in Workers : worker'[w].pc \in {"recheck", "readGroups"} /\ worker'[w].job.group = u
      BY <1>0, <1>2, <2>0, <2>3, ClosedBy
    <3>2. QED
      BY <3>1 DEF Releasing
  <2>4. QED
    BY <2>1, <2>2, <2>3
<1>3. ASSUME NEW d \in Groups, grp'[d].status = "WAITING", grp'[d].remaining = {}
      PROVE  \E w \in Workers : /\ worker'[w].pc \in {"checkWaiting", "downstream", "setGroups"}
                                /\ d \in worker'[w].ready
  <2>1. CASE grp[d].status = "WAITING" /\ grp[d].remaining = {}
    <3>1. PICK w \in Workers : /\ worker[w].pc \in {"checkWaiting", "downstream", "setGroups"}
                               /\ d \in worker[w].ready
      BY <2>1 DEF Awaiting
    <3>2. CASE worker'[w] = worker[w]
      BY <3>1, <3>2
    <3>3. CASE worker'[w] # worker[w]
      <4>0. Follows(w)
        BY <1>0, <3>3, WorkerMovesOn
      <4>1. CASE worker[w].pc \in {"checkWaiting", "setGroups"}
        <5>1. SetGroups(w)
          BY <1>0, <2>1, <4>0, <4>1 DEF Follows, At, CheckWaiting, LaunchDownstream
        <5>2. Eligible(d)
          BY <2>1 DEF Eligible, LaunchedOnce, Unstarted
        <5>3. grp'[d].status = "PROCESSING"
          BY <1>0, <3>1, <5>1, <5>2 DEF SetGroups, GroupRow
        <5>4. QED
          BY <1>3, <5>3
      <4>2. CASE worker[w].pc = "downstream"
        <5>1. ReleaseDownstream(w)
          BY <4>0, <4>2 DEF Follows, At
        <5>2. /\ worker[w].ready \subseteq worker'[w].ready
              /\ worker'[w].ready # {} => worker'[w].pc \in {"downstream", "setGroups"}
          BY <1>0, <5>1, Released
        <5>3. QED
          BY <3>1, <5>2
      <4>3. QED
        BY <3>1, <4>1, <4>2
    <3>4. QED
      BY <3>2, <3>3
  <2>2. CASE grp[d].status = "WAITING" /\ grp[d].remaining # {}
    <3>1. PICK w \in Workers : /\ ReleaseDownstream(w)
                               /\ grp'[d].remaining = grp[d].remaining \ {worker[w].job.group}
      BY <1>0, <1>3, <2>2, RemainingShrinks DEF Absent
    <3>2. PICK e \in worker[w].todo :
            /\ grp' = [grp EXCEPT ![e].remaining = grp[e].remaining \ {worker[w].job.group}]
            /\ worker'[w].ready # {} => worker'[w].pc \in {"downstream", "setGroups"}
            /\ grp[e].remaining \ {worker[w].job.group} = {} => e \in worker'[w].ready
      BY <1>0, <3>1, Released
    <3>3. e = d
      BY <1>0, <1>3, <2>2, <3>2 DEF Shape, DbShape
    <3>4. d \in worker'[w].ready
      BY <1>3, <3>1, <3>2, <3>3
    <3>5. QED
      BY <3>2, <3>4
  <2>3. CASE grp[d].status # "WAITING"
    <3>1. PICK w \in Workers : MarkWaiting(w)
      BY <1>0, <1>3, <2>3, StatusActs
    <3>2. grp'[d].remaining = grp[d].remaining
      BY <1>0, <3>1 DEF MarkWaiting, GroupRow
    <3>3. PICK R : /\ R = {g \in Groups : grp[g].remaining = {}}
                   /\ worker' = [worker EXCEPT ![w].pc = "checkWaiting", ![w].ready = R]
      BY <3>1 DEF MarkWaiting
    <3>4. worker'[w] = [worker[w] EXCEPT !.pc = "checkWaiting", !.ready = R] /\ worker[w] \in Worker
      BY <1>0, <3>3
    <3>5. worker'[w].pc = "checkWaiting" /\ worker'[w].ready = R
      BY <3>4 DEF Worker
    <3>6. QED
      BY <1>3, <3>2, <3>3, <3>5
  <2>4. QED
    BY <2>1, <2>2, <2>3
<1>4. QED
  BY <1>1, <1>2, <1>3 DEF Awaiting, Releasing

-----------------------------------------------------------------------------
(***************************************************************************)
(* The end of the workflow.                                                *)
(***************************************************************************)
\* When all groups have finished a worker is about to end the workflow.
EndIsNear ==
  (\A g \in Groups : Closed(g)) /\ ~wf.ended =>
    \E w \in Workers : \/ worker[w].pc \in {"recheck", "writeGroup", "readGroups"}
                       \/ worker[w].pc = "writeWorkflow" /\ worker[w].new \in WorkflowFinished

\* The worker that finishes the last group reads the groups after it and ends the workflow.
LEMMA EndIsNearStays ==
  ASSUME Calm, Groups # {}, EndIsNear, [Next]_vars
  PROVE  EndIsNear'
<1>0. /\ Here /\ MaxCrashes = 0 /\ Shape /\ worker \in [Workers -> Worker]
  BY CalmGives
<1> SUFFICES ASSUME \A g \in Groups : Closed(g)', ~wf'.ended
             PROVE  \E w \in Workers :
                      \/ worker'[w].pc \in {"recheck", "writeGroup", "readGroups"}
                      \/ worker'[w].pc = "writeWorkflow" /\ worker'[w].new \in WorkflowFinished
  BY DEF EndIsNear
<1>1. ~wf.ended
  BY <1>0, EndedStays
<1>2. CASE \E u \in Groups : ~Closed(u)
  BY <1>0, <1>2, ClosedBy
<1>3. CASE \A g \in Groups : Closed(g)
  <2>1. PICK w \in Workers : \/ worker[w].pc \in {"recheck", "writeGroup", "readGroups"}
                             \/ worker[w].pc = "writeWorkflow" /\ worker[w].new \in WorkflowFinished
    BY <1>1, <1>3 DEF EndIsNear
  <2> DEFINE x == worker[w]
             y == worker'[w]
  <2>2. CASE y = x
    BY <2>1, <2>2
  <2>3. CASE y # x
    <3>0. Follows(w) /\ x \in Worker
      BY <1>0, <2>3, WorkerMovesOn
    <3>1. CASE x.pc = "recheck"
      <4>1. grp[x.job.group].status # "PROCESSING"
        BY <1>0, <1>3, <3>1, UpdatedGroupIsThere, Apart
           DEF Closed, Prerunning, InQueue, Prescheduling
      <4>2. PICK n : worker' = [worker EXCEPT ![w].pc = "writeGroup", ![w].new = n]
        BY <3>0, <3>1, <4>1 DEF Follows, At, Recheck
      <4>3. y = [x EXCEPT !.pc = "writeGroup", !.new = n]
        BY <1>0, <4>2
      <4>4. y.pc = "writeGroup"
        BY <3>0, <4>3 DEF Worker
      <4>5. QED
        BY <4>4
    <3>2. CASE x.pc = "writeGroup"
      <4>1. worker' = [worker EXCEPT ![w].pc = "readGroups", ![w].new = Absent]
        BY <3>0, <3>2 DEF Follows, At, WriteGroup
      <4>2. y = [x EXCEPT !.pc = "readGroups", !.new = Absent]
        BY <1>0, <4>1
      <4>3. y.pc = "readGroups"
        BY <3>0, <4>2 DEF Worker
      <4>4. QED
        BY <4>3
    <3>3. CASE x.pc = "readGroups"
      <4>1. PICK n : n = AggregateWorkflow(GroupStatuses)
                     /\ worker' = [worker EXCEPT ![w].pc = "writeWorkflow", ![w].new = n]
        BY <3>0, <3>3 DEF Follows, At, ReadGroups
      <4>2. y = [x EXCEPT !.pc = "writeWorkflow", !.new = n]
        BY <1>0, <4>1
      <4>3. y.pc = "writeWorkflow" /\ y.new = n
        BY <3>0, <4>2 DEF Worker
      <4>4. n \in WorkflowFinished
        BY <1>3, <4>1, AggregateIsEnd
      <4>5. QED
        BY <4>3, <4>4
    <3>4. CASE x.pc = "writeWorkflow" /\ x.new \in WorkflowFinished
      BY <1>0, <3>0, <3>4, EndedStays DEF Follows, At
    <3>5. QED
      BY <2>1, <3>1, <3>2, <3>3, <3>4
  <2>4. QED
    BY <2>2, <2>3
<1>4. QED
  BY <1>2, <1>3

-----------------------------------------------------------------------------
(***************************************************************************)
(* Nothing is stuck.                                                       *)
(***************************************************************************)
\* The inductive invariant: whatever is not finished has someone who moves it on.
Moving == Submitting /\ LaunchedOnce /\ Obeyed /\ ReportsCount /\ Underway /\ Awaiting /\ EndIsNear

\* The submission is queued before anything else happens.
LEMMA InitMoving == Groups # {} /\ Init => Moving
<1> SUFFICES ASSUME Groups # {}, Init PROVE Moving
  OBVIOUS
<1>1. \A g \in Groups : grp[g].status = Absent /\ grp[g].remaining = {} /\ grp[g].stamps = {}
  BY DEF Init
<1>2. \A g \in Groups : ~Closed(g) /\ grp[g].status \in Unstarted
  BY <1>1, Apart DEF Closed, Unstarted
<1>3. sent = {JobOf("SubmitWorkflow")} /\ queue = {JobOf("SubmitWorkflow")}
      /\ JobOf("SubmitWorkflow").type = "SubmitWorkflow"
  BY Fields DEF Init
<1>4. \A w \in Workers : worker[w].pc = "idle"
  BY DEF Init, Idle
<1>5. Submitting
  BY <1>1, <1>3 DEF Submitting, Absent, Init
<1>6. LaunchedOnce
  <2>1. \A g : GroupJob("CreateGroup", g) \notin sent
    BY <1>3, Fields
  <2>2. QED
    BY <1>1, <1>4, <2>1 DEF LaunchedOnce, Carries
<1>7. Obeyed
  <2>1. \A g, s : UpdateGroup(g, s) \notin sent
    BY <1>3, Fields
  <2>2. QED
    BY <2>1 DEF Obeyed
<1>8. ReportsCount
  <2>1. \A t \in Tasks : pod[t].phase = "none"
    BY DEF Init
  <2>2. QED
    BY <1>3, <2>1 DEF ReportsCount, Report
<1>9. Underway
  BY <1>2 DEF Underway
<1>10. Awaiting
  BY <1>1 DEF Awaiting, Absent
<1>11. EndIsNear
  BY <1>2 DEF EndIsNear
<1>12. QED
  BY <1>5, <1>6, <1>7, <1>8, <1>9, <1>10, <1>11 DEF Moving

\* The groups of a workflow wait for one another in no circle.
Acyclic == \A S \in SUBSET Groups : S # {} => \E g \in S : Upstream[g] \cap S = {}

\* A workflow that rests has ended.
LEMMA MovingEnds ==
  ASSUME Calm, Moving, Groups # {}, Acyclic, Quiet, PodsEnd
  PROVE  wf.ended
<1>0. Here /\ Late /\ Owed
  BY CalmGives
<1>1. queue = {} /\ agent.pc = "idle" /\ \A w \in Workers : worker[w].pc = "idle"
  BY DEF Quiet, Free
<1>2. \A g \in Groups : ~Owing(g)
  BY <1>1 DEF Owing, Applies, OwingWorker, OwingPcs
<1>3. \A g \in Groups : grp[g].status \notin {Absent, "SUBMITTING"}
  BY <1>1 DEF Moving, Submitting, At
<1>4. ASSUME NEW g \in Groups, grp[g].status \notin Unstarted PROVE Closed(g)
  <2>1. SUFFICES ASSUME ~Closed(g) PROVE FALSE
    OBVIOUS
  <2>2. Lead[g] \in Tasks
    BY WorkflowAssumption
  <2>3. ~Creating(g)
    BY <1>1 DEF Creating, Carries, Applies
  <2>4. pod[Lead[g]].phase = "ended"
    BY <1>2, <1>4, <2>1, <2>2, <2>3 DEF Moving, Underway, PodsEnd
  <2>5. Over(Lead[g])
    BY <1>1, <2>2, <2>4 DEF Moving, ReportsCount, Reported
  <2>6. QED
    BY <1>0, <1>2, <2>1, <2>5 DEF Owed, Ended
<1>5. \A g \in Groups : Closed(g)
  <2>1. SUFFICES ASSUME \E g \in Groups : ~Closed(g) PROVE FALSE
    OBVIOUS
  <2>2. PICK S \in SUBSET Groups : S = {g \in Groups : ~Closed(g)}
    OBVIOUS
  <2>3. PICK d \in S : Upstream[d] \cap S = {}
    BY <2>1, <2>2 DEF Acyclic
  <2>4. d \in Groups /\ ~Closed(d) /\ grp[d].status = "WAITING"
    BY <1>3, <1>4, <2>2 DEF Unstarted
  <2>5. \A u \in grp[d].remaining : u \in Groups /\ Closed(u)
    BY <2>2, <2>3, <2>4, WorkflowAssumption DEF Moving, Awaiting
  <2>6. grp[d].remaining = {}
    BY <1>1, <1>2, <2>4, <2>5 DEF Moving, Awaiting, Releasing, Unstarted
  <2>7. QED
    BY <1>1, <2>4, <2>6 DEF Moving, Awaiting
<1>6. QED
  BY <1>1, <1>5 DEF Moving, EndIsNear

\* Where tasks are not retried, no process dies, kubernetes refuses no cleanup and the
\* groups wait for one another in no circle: while the backend is there a workflow with
\* nothing left to do and no live pod has ended, whatever the workers, the backend
\* worker, the pods and the users did before and in which order (UpdateGroup).
THEOREM NothingIsStuck ==
  MaxRetry = 0 /\ Lossless /\ Groups # {} /\ Acyclic => (Spec => []NothingStuck)
<1> SUFFICES ASSUME MaxRetry = 0, Lossless, Groups # {}, Acyclic PROVE Spec => []NothingStuck
  OBVIOUS
<1> DEFINE IInv == Known /\ (backendUp => Orderly /\ Late /\ Owed)
           MInv == backendUp => Moving
<1>1. Spec => []IInv
  BY OwedInvariant DEF Lossless, CleanupsKept
<1>2. Init => MInv
  BY InitMoving
<1>3. IInv /\ IInv' /\ MInv /\ [Next]_vars => MInv'
  <2>1. SUFFICES ASSUME IInv, IInv', MInv, [Next]_vars, backendUp' PROVE Moving'
    OBVIOUS
  <2>2. backendUp
    BY <2>1, GoesForGood
  <2>3. Calm /\ Calm' /\ Moving
    BY <2>1, <2>2 DEF Calm, Here, Lossless
  <2>4. Submitting' /\ LaunchedOnce' /\ ReportsCount' /\ EndIsNear'
    BY <2>1, <2>3, SubmittingStays, LaunchedOnceStays, ReportsStay, EndIsNearStays DEF Moving
  <2>5. Obeyed'
    BY <2>1, <2>3, ObeyedStays DEF Moving
  <2>6. Underway' /\ Awaiting'
    BY <2>1, <2>3, <2>5, UnderwayStays, AwaitingStays DEF Moving
  <2>7. QED
    BY <2>4, <2>5, <2>6 DEF Moving
<1>4. IInv /\ MInv => NothingStuck
  BY MovingEnds DEF NothingStuck, Calm, Here
<1>5. QED
  BY <1>1, <1>2, <1>3, <1>4, PTL DEF Spec

-----------------------------------------------------------------------------
(***************************************************************************)
(* The clock of a group that runs, where every group is its lead task.     *)
(***************************************************************************)
Solo == \A g \in Groups : TasksOf(g) = {Lead[g]}

\* The worker is about to write RUNNING into g.
Starts(x, g) == x.pc = "writeGroup" /\ x.job.group = g /\ x.new = "RUNNING"

\* The worker has written RUNNING into the row and has the clock of g to start.
Winds(x, g) == /\ x.job.group = g /\ x.job.task = Lead[g]
               /\ x.pc \in {"reread", "aggregate"} /\ x.eff = "RUNNING" /\ "run" \in x.clocks

\* The clock of g is started or about to be; a check that is queued finds that g runs.
Clocked(g) ==
  \/ \E w \in Workers : Winds(worker[w], g)
  \/ /\ \E j \in queue : j.type = "CheckRunTimeout" /\ j.group = g
     /\ "start" \in grp[g].stamps \/ \E w \in Workers : Starts(worker[w], g)

HasRun(t) == rows[t][0].status \in {"RUNNING"} \cup GroupFinished

Timed ==
  \A g \in Groups :
    /\ grp[g].status = "RUNNING" => "start" \in grp[g].stamps /\ HasRun(Lead[g])
    /\ (\E w \in Workers : Starts(worker[w], g)) => HasRun(Lead[g])
    /\ rows[Lead[g]][0].status = "RUNNING" /\ ~Closed(g) => Clocked(g) \/ Owing(g)

\* A worker that has written the row of a task reads it again, and then the others.
LEMMA RowFollows ==
  ASSUME NEW w \in Workers, WorkerStep(w)
  PROVE  (At(w, "reread") => Reread(w)) /\ (At(w, "aggregate") => Aggregate(w))
<1>1. CASE Submit(w) \/ Process(w)
  BY <1>1 DEF Submit, Process, InsertWorkflow, InsertGroups, MarkWaiting, CheckWaiting,
              LaunchDownstream, SetTasks, SendCreate, At, Free
<1>2. CASE Update(w)
  <2>1. CASE \/ FetchCancel(w) \/ Cancel(w) \/ Recheck(w) \/ UpdateWholeGroup(w) \/ UpdateNoTask(w)
             \/ CheckStartTimeout(w) \/ EndLateStart(w)
    BY <2>1 DEF FetchCancel, Cancel, Recheck, UpdateWholeGroup, UpdateNoTask, CheckStartTimeout,
                EndLateStart, At, Free
  <2>2. CASE UpdateTaskStatus(w) \/ UpdateSiblings(w) \/ InsertRetry(w) \/ SendRetry(w)
    BY <2>2 DEF UpdateTaskStatus, UpdateSiblings, InsertRetry, SendRetry, At, Free
  <2>3. CASE FailWithoutBackend(w)
    <3>1. Free(w) \/ At(w, "startTimeout")
      BY <2>3 DEF FailWithoutBackend
    <3>2. QED
      BY <3>1 DEF At, Free
  <2>4. CASE WriteGroup(w) \/ ReadGroups(w) \/ WriteWorkflow(w) \/ ReleaseDownstream(w)
    BY <2>4 DEF WriteGroup, ReadGroups, WriteWorkflow, ReleaseDownstream, At
  <2>5. CASE Finish(w)
    <3>1. At(w, "finish")
      BY <2>5 DEF Finish
    <3>2. QED
      BY <3>1 DEF At
  <2>6. CASE Reread(w)
    BY <2>6 DEF Reread, At
  <2>7. CASE Aggregate(w)
    <3>1. At(w, "aggregate")
      BY <2>7 DEF Aggregate
    <3>2. QED
      BY <2>7, <3>1 DEF At
  <2>8. QED
    BY <1>2, <2>1, <2>2, <2>3, <2>4, <2>5, <2>6, <2>7 DEF Update
<1>3. CASE Other(w)
  BY <1>3 DEF Other, CancelWorkflow, CheckQueueTimeout, CheckRunTimeout, CleanupWorkflow, At, Free
<1>4. QED
  BY <1>1, <1>2, <1>3 DEF WorkerStep

\* A group of one task runs when that task does.
LEMMA SoloAggregate ==
  ASSUME Here, Solo, NEW g \in Groups
  PROVE  LET a == AggregateGroup(LatestStatus(g), Considered(g)) IN
         /\ a = "RUNNING" => rows[Lead[g]][0].status = "RUNNING"
         /\ rows[Lead[g]][0].status = "RUNNING" => a = "RUNNING"
<1> DEFINE s  == rows[Lead[g]][0].status
           st == LatestStatus(g)
           a  == AggregateGroup(st, Considered(g))
<1>0. /\ MaxRetry = 0 /\ Lead[g] \in Tasks /\ PlainRow(rows[Lead[g]][0])
      /\ TasksOf(g) = {Lead[g]} /\ Considered(g) = {Lead[g]}
  BY HereGives, WorkflowAssumption DEF Solo, Considered
<1>1. DOMAIN st = {Lead[g]} /\ st[Lead[g]] = s
  BY <1>0, OneRow DEF LatestStatus
<1>2. {st[t] : t \in DOMAIN st} = {s} /\ {st[t] : t \in Considered(g)} = {s}
  BY <1>0, <1>1
<1>3. s # "RESCHEDULED" /\ "RUNNING" \notin GroupFinished
  BY <1>0 DEF PlainRow, GroupFinished, FailedStatuses, Absent
<1>4. {s} \ GroupFinished # {} => a = IF s = "RUNNING" THEN "RUNNING" ELSE "INITIALIZING"
  BY <1>2, <1>3, Apart DEF AggregateGroup
<1>5. s \in GroupFinished => a # "RUNNING"
  <2>1. s \in GroupFinished => AllOver(g)
    BY <1>0 DEF AllOver, Over
  <2>2. QED
    BY <1>0, <1>3, <2>1, AggregateIsOver
<1>6. QED
  BY <1>3, <1>4, <1>5

\* A task that runs goes on to run or is over.
LEMMA HasRunStays ==
  ASSUME Here, [Next]_vars, NEW t \in Tasks, HasRun(t)
  PROVE  HasRun(t)'
<1>0. rows[t][0] \in Row /\ PlainRow(rows[t][0]) /\ RowStep(t)
  BY HereGives, RowSteps
<1>1. ASSUME NEW s \in Heard \ {"RESCHEDULED"}, rows'[t][0] = UpdateTaskRow(rows[t][0], s)
      PROVE  HasRun(t)'
  <2>1. CASE rows[t][0].status \in TaskSources(s)
    <3>1. rows[t][0].status = "RUNNING"
      <4>1. TaskSources(s) \subseteq Open /\ Open \cap GroupFinished = {}
        BY DEF TaskSources, Open, Prerunning, InQueue, Prescheduling, GroupFinished, FailedStatuses
      <4>2. QED
        BY <2>1, <4>1 DEF HasRun
    <3>2. s \notin {"SCHEDULING", "INITIALIZING", "RUNNING"}
      BY <2>1, <3>1 DEF TaskSources, Prerunning, InQueue, Prescheduling
    <3>3. s \in GroupFinished
      BY <3>2, Apart
    <3>4. rows'[t][0] = rows[t][0] \/ rows'[t][0].status = s
      BY <1>0, <1>1, RowTakes
    <3>5. QED
      BY <3>3, <3>4 DEF HasRun
  <2>2. CASE rows[t][0].status \notin TaskSources(s)
    BY <1>1, <2>2 DEF UpdateTaskRow, Enter, HasRun
  <2>3. QED
    BY <2>1, <2>2
<1>2. rows[t][0].status \notin {Absent, "WAITING"}
  BY DEF HasRun, Absent, GroupFinished, FailedStatuses
<1>3. QED
  BY <1>0, <1>1, <1>2 DEF RowStep, HasRun

\* The statements that write the rows of tasks.
LEMMA RowWriters ==
  ASSUME Here, [Next]_vars, rows' # rows
  PROVE  \E w \in Workers : \/ InsertGroups(w) \/ SetTasks(w) \/ EndLateStart(w)
                            \/ UpdateTaskStatus(w) \/ Recheck(w) \/ UpdateWholeGroup(w)
                            \/ UpdateSiblings(w)
<1> USE DEF db
<1>1. PICK w \in Workers : WorkerStep(w) \/ Crash(w)
  BY DEF Next, AgentStep, PrepareCreateGroup, PrepareCleanupGroup, PrepareRescheduleTask, Apply,
         Execute, Refuse, Disconnect, PodMoves, PodEnds, AskCancel, DeleteBackend, vars
<1>2. ~InsertRetry(w)
  BY HereGives DEF InsertRetry, PlainWorker1, At
<1>3. CASE Submit(w) \/ Process(w)
  BY <1>3 DEF Submit, Process, InsertWorkflow, MarkWaiting, CheckWaiting, LaunchDownstream, SendCreate
<1>4. CASE Update(w)
  <2>1. ~(\/ FetchCancel(w) \/ Cancel(w) \/ UpdateNoTask(w) \/ CheckStartTimeout(w)
          \/ FailWithoutBackend(w) \/ Reread(w) \/ SendRetry(w))
    BY DEF FetchCancel, Cancel, UpdateNoTask, CheckStartTimeout, FailWithoutBackend, Reread, SendRetry
  <2>2. ~(WriteGroup(w) \/ ReadGroups(w) \/ WriteWorkflow(w) \/ ReleaseDownstream(w))
    BY DEF WriteGroup, ReadGroups, WriteWorkflow, ReleaseDownstream
  <2>3. ~Aggregate(w) /\ ~Finish(w)
    BY DEF Aggregate, Finish
  <2>4. QED
    BY <1>2, <1>4, <2>1, <2>2, <2>3 DEF Update
<1>5. CASE Other(w) \/ Crash(w)
  BY <1>5 DEF Other, CancelWorkflow, CheckQueueTimeout, CheckRunTimeout, CleanupWorkflow, Crash
<1>6. QED
  BY <1>1, <1>3, <1>4, <1>5 DEF WorkerStep

\* A row becomes RUNNING by the update of its task, which remembers to start the clock of
\* a group that does not run yet.
LEMMA RunningWinds ==
  ASSUME Here, [Next]_vars, "run" \in Timeouts, NEW g \in Groups,
         rows[Lead[g]][0].status # "RUNNING", rows'[Lead[g]][0].status = "RUNNING"
  PROVE  /\ grp' = grp /\ grp[g].status # Absent
         /\ grp[g].status \in Prerunning => \E w \in Workers : Winds(worker'[w], g)
<1> DEFINE t == Lead[g]
<1>0. /\ t \in Tasks /\ GroupOf[t] = g
      /\ worker \in [Workers -> Worker] /\ rows \in [Tasks -> [Retries -> Row]] /\ 0 \in Retries
      /\ rows[t] \in [Retries -> Row] /\ rows[t][0] \in Row /\ PlainRow(rows[t][0]) /\ MaxRetry = 0
      /\ \A j \in queue : PlainJob(j) /\ HeardJob(j) /\ j \in Job
      /\ \A v \in Workers : /\ PlainWorker1(worker[v]) /\ PlainJob(worker[v].job)
                            /\ HeardJob(worker[v].job) /\ worker[v].job \in Job
  BY HereGives, WorkflowAssumption
<1>1. PICK w \in Workers : \/ InsertGroups(w) \/ SetTasks(w) \/ EndLateStart(w)
                           \/ UpdateTaskStatus(w) \/ Recheck(w) \/ UpdateWholeGroup(w)
                           \/ UpdateSiblings(w)
  BY RowWriters
<1>2. ~InsertGroups(w)
  <2>1. SUFFICES ASSUME InsertGroups(w) PROVE FALSE
    OBVIOUS
  <2>2. \/ rows'[t] = rows[t]
        \/ rows'[t] = [rows[t] EXCEPT ![0].status = "WAITING"]
    BY <1>0, <2>1 DEF InsertGroups
  <2>3. rows'[t][0] = rows[t][0] \/ rows'[t][0].status = "WAITING"
    BY <1>0, <2>2 DEF Row
  <2>4. QED
    BY <2>3
<1>3. ~SetTasks(w)
  <2>1. SUFFICES ASSUME SetTasks(w) PROVE FALSE
    OBVIOUS
  <2>2. \/ rows'[t] = rows[t]
        \/ rows'[t] = [r \in Retries |-> IF rows[t][r].status = "WAITING"
                                         THEN [rows[t][r] EXCEPT !.status = "PROCESSING"]
                                         ELSE rows[t][r]]
    BY <1>0, <2>1 DEF SetTasks
  <2>3. rows'[t][0] = rows[t][0] \/ rows'[t][0].status = "PROCESSING"
    BY <1>0, <2>2 DEF Row
  <2>4. QED
    BY <2>3
<1>4. ~(Recheck(w) \/ UpdateWholeGroup(w) \/ UpdateSiblings(w))
  <2>1. SUFFICES ASSUME Recheck(w) \/ UpdateWholeGroup(w) \/ UpdateSiblings(w) PROVE FALSE
    OBVIOUS
  <2>2. PICK s \in GroupFinished \ {"FAILED_START_TIMEOUT"} : \E h, x : rows' = BatchUpdate(h, s, x)
    BY <2>1, BatchWritten
  <2>3. rows'[t][0] = rows[t][0] \/ rows'[t][0] = UpdateTaskRow(rows[t][0], s)
    BY <1>0, <2>2, BatchGives
  <2>4. s \in Heard \ {"RESCHEDULED"} /\ s # "RUNNING"
    BY Apart
  <2>5. rows'[t][0] = rows[t][0] \/ rows'[t][0].status = s
    BY <1>0, <2>3, <2>4, RowTakes
  <2>6. QED
    BY <2>4, <2>5
<1>5. PICK j \in Job : /\ j.type = "UpdateGroup" /\ PlainJob(j) /\ HeardJob(j) /\ j.task # None
                       /\ UpdateTaskRowOf(w, j) /\ grp[g].status # Absent
  <2>1. CASE EndLateStart(w)
    <3>1. worker[w].pc = "startTimeout"
      BY <2>1 DEF EndLateStart, At
    <3>2. Submitted
      BY <3>1 DEF Here, Known, Sound, Unsubmitted
    <3>3. QED
      BY <1>0, <2>1, <3>1, <3>2 DEF EndLateStart, PlainWorker1, Updating, Submitted
  <2>2. CASE UpdateTaskStatus(w)
    <3>1. PICK j \in queue : PerTask(j) /\ UpdateTaskRowOf(w, j)
      BY <2>2 DEF UpdateTaskStatus
    <3>2. Submitted
      BY <3>1 DEF Here, Known, Sound, Unsubmitted, PerTask
    <3>3. QED
      BY <1>0, <3>1, <3>2 DEF PerTask, Submitted
  <2>3. QED
    BY <1>1, <1>2, <1>3, <1>4, <2>1, <2>2
<1>6. /\ worker'[w].pc = "reread" /\ worker'[w].job = j /\ worker'[w].eff = Eff(j)
      /\ \/ rows'[t][0] = rows[t][0]
         \/ t = j.task /\ rows'[t][0] = UpdateTaskRow(rows[t][0], Eff(j))
  BY <1>0, <1>5, TaskWritten
<1>7. j.task = t /\ j.group = g /\ Eff(j) = "RUNNING"
  <2>1. Eff(j) \in Heard \ {"RESCHEDULED"}
    BY <1>0, <1>5, EffIs
  <2>2. t = j.task /\ rows'[t][0] = UpdateTaskRow(rows[t][0], Eff(j))
    BY <1>6
  <2>3. Eff(j) = "RUNNING"
    BY <1>0, <2>1, <2>2, RowTakes
  <2>4. QED
    BY <1>0, <1>5, <2>2, <2>3 DEF PlainJob
<1>8. ASSUME grp[g].status \in Prerunning PROVE "run" \in worker'[w].clocks
  <2> DEFINE s == IF j.status \in Finished THEN ExitStatus(j) ELSE j.status
  <2>1. s = "RUNNING"
    BY <1>5, <1>7 DEF Eff
  <2>2. worker' = [worker EXCEPT ![w] = [Idle EXCEPT !.pc = "reread", !.job = j, !.eff = s,
                                                     !.clocks = Timeouts \cap Clocks(j, s)]]
    BY <1>5 DEF UpdateTaskRowOf
  <2>3. worker'[w].clocks = Timeouts \cap Clocks(j, s)
    BY <1>0, <2>2 DEF Idle
  <2>4. "run" \in Clocks(j, s)
    BY <1>7, <1>8, <2>1 DEF Clocks
  <2>5. QED
    BY <2>3, <2>4
<1>9. grp' = grp
  BY <1>5 DEF UpdateTaskRowOf
<1>10. QED
  BY <1>5, <1>6, <1>7, <1>8, <1>9 DEF Winds

\* Only WriteGroup makes a group RUNNING, and stamps its start.
LEMMA RunningStarts ==
  ASSUME Here, [Next]_vars, NEW g \in Groups, grp'[g].status = "RUNNING", grp[g].status # "RUNNING"
  PROVE  "start" \in grp'[g].stamps /\ \E w \in Workers : Starts(worker[w], g)
<1>0. /\ grp[g] \in GroupRow /\ GroupAct(g) /\ ("end" \in grp[g].stamps => Closed(g))
      /\ grp[g].status # "RESCHEDULED"
  BY HereGives, GroupActs DEF Here, Orderly, PlainData, Known, Ends, PlainGroups
<1>1. CASE \/ grp'[g] = grp[g]
           \/ grp'[g] = [grp[g] EXCEPT !.status = "SUBMITTING", !.remaining = Upstream[g]]
           \/ grp'[g] = [grp[g] EXCEPT !.status = "WAITING"]
           \/ grp'[g] = [grp[g] EXCEPT !.status = "PROCESSING", !.stamps = @ \cup {"processing"}]
           \/ grp'[g] = [grp[g] EXCEPT !.cleaned = TRUE]
           \/ \E h \in Groups : grp'[g] = [grp[g] EXCEPT !.remaining = @ \ {h}]
  <2>1. grp'[g].status \in {grp[g].status, "SUBMITTING", "WAITING", "PROCESSING"}
    BY <1>0, <1>1 DEF GroupRow
  <2>2. QED
    BY <2>1
<1>2. ASSUME NEW s \in Heard \ {"RESCHEDULED"}, NEW force, grp'[g] = UpdateGroupRow(grp[g], s, force)
      PROVE  s = "RUNNING" /\ "start" \in grp'[g].stamps
  <2>1. grp'[g] = [grp[g] EXCEPT !.status = s, !.stamps = @ \cup {StampOf(s)}]
    BY <1>2 DEF UpdateGroupRow, Enter
  <2>2. grp'[g].status = s /\ grp'[g].stamps = grp[g].stamps \cup {StampOf(s)}
    BY <1>0, <2>1 DEF GroupRow
  <2>3. QED
    BY <2>2 DEF StampOf
<1>3. ASSUME NEW w \in Workers, Cancel(w),
             grp'[g] = UpdateGroupRow(grp[g], worker[w].job.status, worker[w].job.force)
      PROVE  FALSE
  <2>1. PICK s \in Heard \ {"RESCHEDULED"} : s = worker[w].job.status /\ s \in Canceled
    BY <1>3, WritesHeard DEF Cancel
  <2>2. PICK f : f = worker[w].job.force
    OBVIOUS
  <2>3. QED
    BY <1>2, <1>3, <2>1, <2>2 DEF Canceled
<1>4. ASSUME NEW w \in Workers, WriteGroup(w), worker[w].job.group = g,
             grp'[g] = UpdateGroupRow(grp[g], worker[w].new, FALSE)
      PROVE  "start" \in grp'[g].stamps /\ Starts(worker[w], g)
  <2>1. PICK s \in Heard \ {"RESCHEDULED"}, f \in BOOLEAN : s = worker[w].new /\ f = FALSE
    BY <1>4, WritesHeard DEF WriteGroup
  <2>2. s = "RUNNING" /\ "start" \in grp'[g].stamps
    BY <1>2, <1>4, <2>1
  <2>3. QED
    BY <1>4, <2>1, <2>2 DEF Starts, WriteGroup, At
<1>5. QED
  BY <1>0, <1>1, <1>3, <1>4 DEF GroupAct

\* A worker that is about to write RUNNING derived it from a lead that runs.
LEMMA StartsRan ==
  ASSUME Here, MaxCrashes = 0, Solo, [Next]_vars, NEW g \in Groups, NEW w \in Workers,
         Starts(worker'[w], g), worker'[w] # worker[w]
  PROVE  HasRun(Lead[g])
<1>0. /\ Shape /\ PlainWorker1(worker[w]) /\ worker \in [Workers -> Worker] /\ worker[w] \in Worker
  BY HereGives
<1>1. WorkerStep(w) /\ Follows(w)
  BY WorkerMovesOn
<1>2. worker'[w].pc = "writeGroup" /\ worker'[w].job.group = g /\ worker'[w].new = "RUNNING"
  BY DEF Starts
<1>3. Recheck(w) \/ Aggregate(w)
  BY <1>0, <1>1, <1>2, NextPc DEF Going
<1>4. ~Recheck(w)
  <2>1. SUFFICES ASSUME Recheck(w) PROVE FALSE
    OBVIOUS
  <2>2. worker[w].pc = "recheck" /\ worker[w].job.status \in Canceled
    BY <1>0, <2>1 DEF Recheck, At, PlainWorker1
  <2>3. CASE Done(w)
    BY <1>0, <1>2, <2>3, DoneGives
  <2>4. CASE worker' = [worker EXCEPT ![w].pc = "writeGroup", ![w].new = worker[w].job.status]
    <3>1. worker'[w].new = worker[w].job.status
      BY <1>0, <2>4 DEF Worker
    <3>2. QED
      BY <1>2, <2>2, <3>1 DEF Canceled
  <2>5. QED
    BY <2>1, <2>3, <2>4 DEF Recheck
<1>5. AggregateGroup(LatestStatus(g), Considered(g)) = "RUNNING"
  <2> DEFINE h == worker[w].job.group
             self == IF worker[w].eff = "RESCHEDULED" THEN "RUNNING" ELSE worker[w].eff
             new  == IF self \in InQueue THEN self
                     ELSE AggregateGroup(LatestStatus(h), Considered(h))
  <2>1. worker' = [worker EXCEPT ![w].pc = "writeGroup", ![w].eff = self, ![w].new = new,
                                 ![w].clocks = {}]
    BY <1>3, <1>4 DEF Aggregate
  <2>2. worker'[w].new = new /\ worker'[w].job = worker[w].job
    BY <1>0, <2>1 DEF Worker
  <2>3. "RUNNING" \notin InQueue
    BY DEF InQueue, Prescheduling
  <2>4. QED
    BY <1>2, <2>2, <2>3
<1>6. QED
  BY <1>5, SoloAggregate DEF HasRun

\* A run timeout that is checked found the group without a clock, or ends it.
LEMMA ClockTaken ==
  ASSUME Here, MaxCrashes = 0, [Next]_vars, NEW j \in queue, j.type = "CheckRunTimeout", j \notin queue'
  PROVE  /\ \A w \in Workers : ~Starts(worker[w], j.group)
         /\ grp[j.group].status \notin Finished /\ "start" \in grp[j.group].stamps
              => TakeAndSend(j, {UpdateGroup(j.group, "FAILED_EXEC_TIMEOUT")})
<1>0. backendUp /\ \A i \in queue : PlainJob(i)
  BY HereGives
<1>1. ASSUME NEW k, Take(k) PROVE j = k
  BY <1>1 DEF Take
<1>2. ASSUME NEW k, NEW J, TakeAndSend(k, J) PROVE j = k
  BY <1>2 DEF TakeAndSend
<1>3. \A J : ~Send(J)
  BY DEF Send
<1>4. ~UNCHANGED jobs
  BY DEF jobs
<1>5. ASSUME NEW w \in Workers, WorkerStep(w) PROVE CheckRunTimeout(w)
  <2>1. ~(Submit(w) \/ Process(w))
    BY <1>1, <1>3, <1>4 DEF Submit, Process, InsertWorkflow, InsertGroups, MarkWaiting, CheckWaiting,
                            LaunchDownstream, SetTasks, SendCreate, jobs
  <2>2. ~(FetchCancel(w) \/ UpdateWholeGroup(w) \/ UpdateNoTask(w) \/ CheckStartTimeout(w))
    BY <1>1 DEF FetchCancel, UpdateWholeGroup, UpdateNoTask, CheckStartTimeout, PerTask
  <2>3. ~(UpdateTaskStatus(w) \/ FailWithoutBackend(w) \/ EndLateStart(w))
    BY <1>0, <1>1, <1>4 DEF UpdateTaskStatus, FailWithoutBackend, WithoutBackend, EndLateStart, PerTask
  <2>4. ~(Cancel(w) \/ Reread(w) \/ UpdateSiblings(w) \/ InsertRetry(w) \/ SendRetry(w))
    BY <1>3, <1>4 DEF Cancel, Reread, UpdateSiblings, InsertRetry, SendRetry
  <2>5. ~Recheck(w)
    BY DEF Recheck
  <2>6. ~Aggregate(w) /\ ~Finish(w)
    <3>1. Aggregate(w) => \E J : Send(J)
      BY DEF Aggregate
    <3>2. Finish(w) => \E J : Send(J)
      BY DEF Finish
    <3>3. QED
      BY <1>3, <3>1, <3>2
  <2>7. ~(WriteGroup(w) \/ ReadGroups(w) \/ WriteWorkflow(w) \/ ReleaseDownstream(w))
    BY <1>4 DEF WriteGroup, ReadGroups, WriteWorkflow, ReleaseDownstream
  <2>8. ~CancelWorkflow(w) /\ ~CheckQueueTimeout(w) /\ ~CleanupWorkflow(w)
    BY <1>1, <1>2 DEF CancelWorkflow, CheckQueueTimeout, CleanupWorkflow
  <2>9. QED
    BY <1>5, <2>1, <2>2, <2>3, <2>4, <2>5, <2>6, <2>7, <2>8 DEF WorkerStep, Update, Other
<1>6. ~(PrepareCreateGroup \/ PrepareCleanupGroup \/ PrepareRescheduleTask)
  BY <1>0, <1>1, <1>2 DEF PrepareCreateGroup, PrepareCleanupGroup, PrepareRescheduleTask
<1>7. ~(\/ Apply \/ Execute \/ Refuse \/ Disconnect \/ DeleteBackend \/ UNCHANGED vars
        \/ (\E t \in Tasks : PodMoves(t) \/ PodEnds(t))
        \/ (\E force \in CancelForms : AskCancel(force)))
  <2>1. Apply \/ Execute \/ Refuse \/ DeleteBackend \/ UNCHANGED vars => UNCHANGED jobs \/ \E J : Send(J)
    BY DEF Apply, Execute, Refuse, DeleteBackend, vars, jobs
  <2>2. ASSUME NEW t \in Tasks, PodMoves(t) \/ PodEnds(t) PROVE \E J : Send(J)
    BY <2>2 DEF PodMoves, PodEnds
  <2>3. ASSUME NEW force \in CancelForms, AskCancel(force) PROVE \E J : Send(J)
    BY <2>3 DEF AskCancel
  <2>4. QED
    BY <1>3, <1>4, <2>1, <2>2, <2>3, NobodyDies
<1>8. PICK w \in Workers : CheckRunTimeout(w)
  BY <1>5, <1>6, <1>7, NobodyDies DEF Next, AgentStep
<1>9. PICK k \in queue :
        /\ Expires(k)
        /\ IF grp[k.group].status \notin Finished /\ "start" \in grp[k.group].stamps
           THEN TakeAndSend(k, {UpdateGroup(k.group, "FAILED_EXEC_TIMEOUT")})
           ELSE Take(k)
  BY <1>8 DEF CheckRunTimeout
<1>10. k = j
  BY <1>1, <1>2, <1>9
<1>11. QED
  BY <1>9, <1>10 DEF Expires, Starts, At

\* The clock of a task that runs is wound, started and checked in turn, until its group ends.
LEMMA ClockGoesOn ==
  ASSUME Calm, Calm', Obeyed', Timed, Solo, [Next]_vars, NEW g \in Groups,
         rows[Lead[g]][0].status = "RUNNING", Clocked(g), ~Closed(g)'
  PROVE  Clocked(g)' \/ Owing(g)'
<1>0. /\ Here /\ Shape /\ MaxCrashes = 0 /\ worker \in [Workers -> Worker] /\ ~Closed(g)
      /\ grp[g] \in GroupRow /\ grp[g].status # "RESCHEDULED"
  BY CalmGives, GroupsKeep DEF Here, Known, Ends, PlainGroups
<1>1. ASSUME NEW w \in Workers, Winds(worker[w], g) PROVE Clocked(g)'
  <2> DEFINE x == worker[w]
             y == worker'[w]
  <2>0. /\ x \in Worker /\ PlainWorker1(x) /\ x.job \in Job
        /\ x.job.group = g /\ x.job.task = Lead[g] /\ x.eff = "RUNNING" /\ "run" \in x.clocks
        /\ x.pc \in {"reread", "aggregate"}
    BY <1>0, <1>1, HereGives DEF Winds
  <2>1. CASE y = x
    BY <1>1, <2>1 DEF Winds, Clocked
  <2>2. CASE y # x
    <3>1. WorkerStep(w)
      BY <1>0, <2>2, WorkerMovesOn
    <3>2. CASE x.pc = "reread"
      <4>1. Reread(w)
        BY <3>1, <3>2, RowFollows DEF At
      <4>2. x.job.retry = 0
        BY <2>0, <3>2, WorkflowAssumption DEF PlainWorker1, PlainJob, Updating
      <4>3. "RUNNING" \notin Finished \cup FailedStatuses \cup {"RESCHEDULED"}
        BY DEF Finished, GroupFinished, FailedStatuses
      <4>4. Goto(w, "aggregate")
        BY <2>0, <4>1, <4>2, <4>3 DEF Reread
      <4>5. y = [x EXCEPT !.pc = "aggregate"]
        BY <1>0, <4>4 DEF Goto
      <4>6. Winds(y, g)
        BY <2>0, <4>5 DEF Winds, Worker
      <4>7. QED
        BY <4>6 DEF Clocked, Winds
    <3>3. CASE x.pc = "aggregate"
      <4>1. Aggregate(w)
        BY <3>1, <3>3, RowFollows DEF At
      <4>2. PICK a : a = AggregateGroup(LatestStatus(g), Considered(g))
        OBVIOUS
      <4>3. a = "RUNNING"
        BY <1>0, <4>2, SoloAggregate
      <4>4. "RUNNING" \notin InQueue
        BY DEF InQueue, Prescheduling
      <4>5. /\ worker' = [worker EXCEPT ![w].pc = "writeGroup", ![w].eff = "RUNNING", ![w].new = a,
                                        ![w].clocks = {}]
            /\ Send({GroupJob(IF c = "queue" THEN "CheckQueueTimeout" ELSE "CheckRunTimeout", g) :
                       c \in x.clocks})
        BY <2>0, <4>1, <4>2, <4>4 DEF Aggregate
      <4>6. y.pc = "writeGroup" /\ y.new = "RUNNING" /\ y.job = x.job
        BY <1>0, <2>0, <4>3, <4>5 DEF Worker
      <4>7. PICK j : j = GroupJob("CheckRunTimeout", g)
        OBVIOUS
      <4>8. j.type = "CheckRunTimeout" /\ j.group = g
        BY <4>7, Fields
      <4>9. PICK J : /\ j \in J /\ Send(J)
        BY <2>0, <4>5, <4>7
      <4>10. j \in queue'
        BY <4>8, <4>9 DEF Send, New, Random
      <4>11. Starts(y, g)
        BY <2>0, <4>6 DEF Starts
      <4>12. QED
        BY <4>8, <4>10, <4>11 DEF Clocked, Starts
    <3>4. QED
      BY <2>0, <3>2, <3>3
  <2>3. QED
    BY <2>1, <2>2
<1>2. ASSUME NEW w \in Workers, Starts(worker[w], g), worker'[w] # worker[w]
      PROVE  "start" \in grp'[g].stamps
  <2>1. WriteGroup(w)
    BY <1>0, <1>2, WorkerMovesOn DEF Follows, Starts, At
  <2>2. grp' = [grp EXCEPT ![g] = UpdateGroupRow(@, "RUNNING", FALSE)]
    BY <1>2, <2>1 DEF WriteGroup, Starts
  <2>3. grp'[g] = UpdateGroupRow(grp[g], "RUNNING", FALSE)
    BY <1>0, <2>2 DEF Shape, DbShape
  <2>4. grp[g].status # Absent
    <3>1. PlainWorker1(worker[w]) /\ worker[w].pc = "writeGroup"
      BY <1>0, <1>2, HereGives DEF Starts
    <3>2. Submitted
      BY <1>0, <3>1 DEF Here, Known, Sound, Unsubmitted
    <3>3. QED
      BY <3>2 DEF Submitted
  <2>5. grp[g].status \in Prerunning \cup {"RUNNING"}
    BY <1>0, <2>4 DEF GroupRow, GroupStatus, TaskGroupStatuses, Finished, Closed
  <2>6. CASE grp[g].status = "RUNNING" \/ "start" \in grp[g].stamps
    BY <1>0, <2>6, StampsGrow DEF Timed
  <2>7. CASE grp[g].status \in Prerunning /\ "start" \notin grp[g].stamps
    <3>1. GroupSources("RUNNING", FALSE) = Prerunning /\ StampOf("RUNNING") = "start"
      BY DEF GroupSources, StampOf
    <3>2. grp'[g] = [grp[g] EXCEPT !.status = "RUNNING", !.stamps = @ \cup {"start"}]
      BY <2>3, <2>7, <3>1 DEF UpdateGroupRow, Enter
    <3>3. QED
      BY <1>0, <3>2 DEF GroupRow
  <2>8. QED
    BY <2>5, <2>6, <2>7
<1>3. ASSUME NEW j \in queue, j.type = "CheckRunTimeout", j.group = g,
             "start" \in grp[g].stamps \/ \E w \in Workers : Starts(worker[w], g)
      PROVE  Clocked(g)' \/ Owing(g)'
  <2>1. CASE j \in queue'
    <3>1. "start" \in grp'[g].stamps \/ \E w \in Workers : Starts(worker'[w], g)
      <4>1. CASE "start" \in grp[g].stamps
        BY <1>0, <4>1, StampsGrow
      <4>2. ASSUME NEW w \in Workers, Starts(worker[w], g)
            PROVE  "start" \in grp'[g].stamps \/ Starts(worker'[w], g)
        BY <1>2, <4>2
      <4>3. QED
        BY <1>3, <4>1, <4>2
    <3>2. QED
      BY <1>3, <2>1, <3>1 DEF Clocked, Starts
  <2>2. CASE j \notin queue'
    <3>1. "start" \in grp[g].stamps
      BY <1>0, <1>3, <2>2, ClockTaken
    <3>2. grp[g].status \notin Finished
      BY <1>0 DEF Finished, Closed
    <3>3. TakeAndSend(j, {UpdateGroup(g, "FAILED_EXEC_TIMEOUT")})
      BY <1>0, <1>3, <2>2, <3>1, <3>2, ClockTaken
    <3>4. UpdateGroup(g, "FAILED_EXEC_TIMEOUT") \in sent'
      BY <3>3, UpdateIsSent
    <3>5. "FAILED_EXEC_TIMEOUT" \in Canceled
      BY DEF Canceled
    <3>6. Closed(g)' \/ Owing(g)'
      BY <3>4, <3>5 DEF Obeyed, UpdateGroup, GroupJob, JobOf, NoJob, Canceled
    <3>7. QED
      BY <1>0, <3>6
  <2>3. QED
    BY <2>1, <2>2
<1>4. QED
  BY <1>1, <1>3 DEF Clocked

\* A group that runs has its clock.
LEMMA TimedStays ==
  ASSUME Calm, Calm', Obeyed', Timed, Solo, "run" \in Timeouts, [Next]_vars
  PROVE  Timed'
<1>0. /\ Here /\ Shape /\ MaxCrashes = 0 /\ \A g \in Groups : Lead[g] \in Tasks
  BY CalmGives, WorkflowAssumption
<1>1. ASSUME NEW g \in Groups, HasRun(Lead[g]) PROVE HasRun(Lead[g])'
  BY <1>0, <1>1, HasRunStays
<1>2. ASSUME NEW g \in Groups, grp'[g].status = "RUNNING"
      PROVE  "start" \in grp'[g].stamps /\ HasRun(Lead[g])'
  <2>1. CASE grp[g].status = "RUNNING"
    BY <1>0, <1>1, <2>1, StampsGrow DEF Timed
  <2>2. CASE grp[g].status # "RUNNING"
    <3>1. "start" \in grp'[g].stamps /\ \E w \in Workers : Starts(worker[w], g)
      BY <1>0, <1>2, <2>2, RunningStarts
    <3>2. QED
      BY <1>1, <3>1 DEF Timed
  <2>3. QED
    BY <2>1, <2>2
<1>3. ASSUME NEW g \in Groups, NEW w \in Workers, Starts(worker'[w], g)
      PROVE  HasRun(Lead[g])'
  <2>1. CASE worker'[w] = worker[w]
    BY <1>1, <1>3, <2>1 DEF Timed
  <2>2. CASE worker'[w] # worker[w]
    BY <1>0, <1>1, <1>3, <2>2, StartsRan
  <2>3. QED
    BY <2>1, <2>2
<1>4. ASSUME NEW g \in Groups, rows'[Lead[g]][0].status = "RUNNING", ~Closed(g)'
      PROVE  Clocked(g)' \/ Owing(g)'
  <2>1. ~Closed(g)
    BY <1>0, <1>4, GroupsKeep
  <2>2. CASE rows[Lead[g]][0].status = "RUNNING"
    <3>1. Clocked(g) \/ Owing(g)
      BY <2>1, <2>2 DEF Timed
    <3>2. Owing(g) => Owing(g)'
      BY <1>4, OwingOrClosed
    <3>3. Clocked(g) => Clocked(g)' \/ Owing(g)'
      BY <1>4, <2>2, ClockGoesOn
    <3>4. QED
      BY <3>1, <3>2, <3>3
  <2>3. CASE rows[Lead[g]][0].status # "RUNNING"
    <3>1. /\ grp' = grp /\ grp[g].status # Absent
          /\ grp[g].status \in Prerunning => \E w \in Workers : Winds(worker'[w], g)
      BY <1>0, <1>4, <2>3, RunningWinds
    <3>2. ~HasRun(Lead[g])
      <4>1. SUFFICES ASSUME Over(Lead[g]) PROVE FALSE
        BY <2>3 DEF HasRun, Over
      <4>2. rows'[Lead[g]][0].status = rows[Lead[g]][0].status
        BY <1>0, <4>1, RowsKeep
      <4>3. QED
        BY <1>4, <2>3, <4>2
    <3>3. grp[g].status # "RUNNING"
      BY <3>2 DEF Timed
    <3>4. grp[g] \in GroupRow /\ grp[g].status # "RESCHEDULED"
      BY <1>0, CalmGives DEF Here, Known, Ends, PlainGroups
    <3>5. grp[g].status \in Prerunning
      BY <2>1, <3>1, <3>3, <3>4 DEF GroupRow, GroupStatus, TaskGroupStatuses, Finished, Closed
    <3>6. QED
      BY <3>1, <3>5 DEF Clocked, Winds
  <2>4. QED
    BY <2>2, <2>3
<1>5. QED
  BY <1>2, <1>3, <1>4 DEF Timed, HasRun, Starts

\* Nothing runs at first.
LEMMA InitTimed == Init => Timed /\ Obeyed
<1> SUFFICES ASSUME Init PROVE Timed /\ Obeyed
  OBVIOUS
<1>1. \A g \in Groups : grp[g].status = Absent
  BY DEF Init
<1>2. \A g \in Groups : Lead[g] \in Tasks
  BY WorkflowAssumption
<1>3. \A t \in Tasks, r \in Retries : rows[t][r].status = Absent
  BY DEF Init, RowAbsent
<1>4. \A w \in Workers : worker[w].pc = "idle"
  BY DEF Init, Idle
<1>5. sent = {JobOf("SubmitWorkflow")} /\ JobOf("SubmitWorkflow").type = "SubmitWorkflow"
  BY Fields DEF Init
<1>6. \A g, s : UpdateGroup(g, s) \notin sent
  BY <1>5, Fields
<1>7. 0 \in Retries
  BY WorkflowAssumption DEF Retries
<1>8. Timed
  BY <1>1, <1>2, <1>3, <1>4, <1>7 DEF Timed, Starts, Absent
<1>9. QED
  BY <1>6, <1>8 DEF Obeyed

\* Where every group is its lead task, tasks are not retried, no process dies and
\* kubernetes refuses no cleanup: while the backend is there, a group that runs with a
\* limit on its time always has a clock, so that none runs when nothing is left to do,
\* however the report of the task crosses the writes of its group (CheckRunTimeout).
THEOREM RunningIsTimed ==
  MaxRetry = 0 /\ Lossless /\ "run" \in Timeouts /\ Solo
    => (Spec => [](backendUp => RunningGroupsAreTimed))
<1> SUFFICES ASSUME MaxRetry = 0, Lossless, "run" \in Timeouts, Solo
             PROVE  Spec => [](backendUp => RunningGroupsAreTimed)
  OBVIOUS
<1> DEFINE IInv == Known /\ (backendUp => Orderly /\ Late /\ Owed)
           TInv == backendUp => Obeyed /\ Timed
<1>1. Spec => []IInv
  BY OwedInvariant DEF Lossless, CleanupsKept
<1>2. Init => TInv
  BY InitTimed
<1>3. IInv /\ IInv' /\ TInv /\ [Next]_vars => TInv'
  <2>1. SUFFICES ASSUME IInv, IInv', TInv, [Next]_vars, backendUp' PROVE Obeyed' /\ Timed'
    OBVIOUS
  <2>2. backendUp
    BY <2>1, GoesForGood
  <2>3. Calm /\ Calm' /\ Obeyed /\ Timed
    BY <2>1, <2>2 DEF Calm, Here, Lossless
  <2>4. Obeyed'
    BY <2>1, <2>3, ObeyedStays
  <2>5. QED
    BY <2>1, <2>3, <2>4, TimedStays
<1>4. IInv /\ TInv => (backendUp => RunningGroupsAreTimed)
  <2>1. SUFFICES ASSUME IInv, TInv, backendUp, Quiet, NEW g \in Groups, grp[g].status = "RUNNING"
                 PROVE  FALSE
    BY DEF RunningGroupsAreTimed
  <2>2. queue = {} /\ agent.pc = "idle" /\ \A w \in Workers : worker[w].pc = "idle"
    BY <2>1 DEF Quiet, Free
  <2>3. ~Owing(g) /\ ~Clocked(g)
    BY <2>2 DEF Owing, Applies, OwingWorker, OwingPcs, Clocked, Winds
  <2>4. ~Closed(g)
    BY <2>1, Apart DEF Closed
  <2>5. Over(Lead[g])
    BY <2>1, <2>3, <2>4 DEF Timed, HasRun, Over
  <2>6. QED
    BY <2>1, <2>3, <2>4, <2>5 DEF Owed, Ended
<1>5. QED
  BY <1>1, <1>2, <1>3, <1>4, PTL DEF Spec

=============================================================================
