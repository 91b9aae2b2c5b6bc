------------------------ MODULE WorkflowOrderProofs ------------------------
(***************************************************************************)
(* The order of the groups of a workflow: while the backend is there no    *)
(* group starts before the groups it waits for have completed, and a group *)
(* that has completed ran.  For any workflow, any number of workers and    *)
(* any number of crashes, refusals and retries.                            *)
(***************************************************************************)
EXTENDS WorkflowJobsProofs

-----------------------------------------------------------------------------
(***************************************************************************)
(* Workers.                                                                *)
(***************************************************************************)
\* A worker that goes on keeps all but its place.
LEMMA GotoGives ==
  ASSUME Shape, NEW w \in Workers, NEW p, Goto(w, p)
  PROVE  /\ worker'[w].pc = p /\ worker'[w].job = worker[w].job
         /\ worker'[w].todo = worker[w].todo /\ worker'[w].ready = worker[w].ready
         /\ worker'[w].eff = worker[w].eff /\ worker'[w].new = worker[w].new
<1>1. worker \in [Workers -> Worker] /\ worker[w] \in Worker
  BY DEF Shape, WorkerShape, GoodWorker
<1>2. worker'[w] = [worker[w] EXCEPT !.pc = p]
  BY <1>1 DEF Goto
<1>3. QED
  BY <1>1, <1>2 DEF Worker

\* One that starts a job has nothing but the job.
LEMMA StartGives ==
  ASSUME Shape, NEW w \in Workers, NEW j, NEW p, NEW s, Start(w, j, p, s)
  PROVE  /\ worker'[w].pc = p /\ worker'[w].job = j /\ worker'[w].todo = {}
         /\ worker'[w].ready = {} /\ worker'[w].eff = s /\ worker'[w].new = Absent
<1>1. worker'[w] = [Idle EXCEPT !.pc = p, !.job = j, !.eff = s]
  BY DEF Start, Shape, WorkerShape
<1>2. QED
  BY <1>1 DEF Idle

\* One that is done has nothing.
LEMMA DoneGives ==
  ASSUME Shape, NEW w \in Workers, Done(w)
  PROVE  /\ worker'[w].pc = "idle" /\ worker'[w].job = NoJob /\ worker'[w].todo = {}
         /\ worker'[w].ready = {}
         /\ NoJob.group = None /\ NoJob.task = None /\ NoJob.type = "None"
<1>1. worker'[w] = Idle
  BY DEF Done, Shape, WorkerShape
<1>2. QED
  BY <1>1 DEF Idle, NoJob

\* One that updates the row of a task reads it again next.
LEMMA TaskRowGives ==
  ASSUME Shape, NEW w \in Workers, NEW j, UpdateTaskRowOf(w, j)
  PROVE  /\ worker'[w].pc = "reread" /\ worker'[w].job = j /\ worker'[w].todo = {}
         /\ worker'[w].ready = {}
<1>1. PICK s, c : worker'[w] = [Idle EXCEPT !.pc = "reread", !.job = j, !.eff = s, !.clocks = c]
  BY DEF UpdateTaskRowOf, Shape, WorkerShape
<1>2. QED
  BY <1>1 DEF Idle

\* One that sets groups to PROCESSING goes on with those it moved.
LEMMA SetGives ==
  ASSUME Shape, NEW w \in Workers, SetGroups(w)
  PROVE  \/ Done(w)
         \/ /\ worker'[w].pc = "setTasks" /\ worker'[w].ready = {}
            /\ worker'[w].todo \subseteq worker[w].ready /\ worker'[w].job = worker[w].job
<1>1. worker \in [Workers -> Worker] /\ worker[w] \in Worker
  BY DEF Shape, WorkerShape, GoodWorker
<1>2. CASE ~Done(w)
  <2>1. PICK T : /\ T \subseteq worker[w].ready
                 /\ worker'[w] = [worker[w] EXCEPT !.pc = "setTasks", !.ready = {}, !.todo = T]
    BY ZenonT(60), <1>1, <1>2 DEF SetGroups
  <2>2. QED
    BY <1>1, <2>1 DEF Worker
<1>3. QED
  BY <1>2

\* A step of one worker leaves the others as they are.
LEMMA OthersStay ==
  ASSUME Shape, NEW w \in Workers, WorkerStep(w) \/ Crash(w), NEW v \in Workers, v # w
  PROVE  worker'[v] = worker[v]
<1> USE DEF cluster
<1>1. worker \in [Workers -> Worker]
  BY DEF Shape, WorkerShape, GoodWorker
<1>2. CASE Submit(w) \/ Process(w)
  <2>1. SetGroups(w) => worker'[v] = worker[v]
    BY ZenonT(60), <1>1 DEF SetGroups, Done
  <2>2. QED
    BY <1>1, <1>2, <2>1 DEF Submit, InsertWorkflow, InsertGroups, MarkWaiting, CheckWaiting, Process,
       LaunchDownstream, SetTasks, SendCreate, Goto, Done, Start
<1>3. CASE \/ FetchCancel(w) \/ Cancel(w) \/ Recheck(w) \/ UpdateWholeGroup(w) \/ UpdateNoTask(w)
           \/ CheckStartTimeout(w)
  BY ZenonT(60), <1>1, <1>3 DEF FetchCancel, Cancel, Recheck, UpdateWholeGroup, UpdateNoTask, CheckStartTimeout,
                    Goto, Done, Start
<1>4. CASE EndLateStart(w) \/ UpdateTaskStatus(w) \/ FailWithoutBackend(w) \/ Reread(w)
  BY <1>1, <1>4 DEF EndLateStart, UpdateTaskStatus, UpdateTaskRowOf, FailWithoutBackend, Reread,
                    Goto, Done
<1>5. CASE UpdateSiblings(w) \/ InsertRetry(w) \/ SendRetry(w)
  BY <1>1, <1>5 DEF UpdateSiblings, InsertRetry, SendRetry, Goto
<1>9. CASE \/ Aggregate(w) \/ WriteGroup(w) \/ ReadGroups(w) \/ WriteWorkflow(w)
           \/ Finish(w) \/ ReleaseDownstream(w)
  <2>1. CASE Aggregate(w) \/ WriteGroup(w) \/ ReadGroups(w) \/ WriteWorkflow(w)
    <3>1. \E y : worker' = [worker EXCEPT ![w] = y]
      BY <2>1 DEF Aggregate, WriteGroup, ReadGroups, WriteWorkflow
    <3>2. QED
      BY <1>1, <3>1
  <2>2. CASE Finish(w)
    <3>1. \E y : worker' = [worker EXCEPT ![w] = y]
      BY <2>2 DEF Finish, Done
    <3>2. QED
      BY <1>1, <3>1
  <2>3. CASE ReleaseDownstream(w)
    <3>1. \E y : worker' = [worker EXCEPT ![w] = y]
      BY <2>3 DEF ReleaseDownstream, Done
    <3>2. QED
      BY <1>1, <3>1
  <2>4. QED
    BY <1>9, <2>1, <2>2, <2>3
<1>7. CASE Other(w) \/ Crash(w)
  BY <1>1, <1>7 DEF Other, CancelWorkflow, CheckQueueTimeout, CheckRunTimeout, CleanupWorkflow,
                    Crash, Done
<1>8. QED
  BY <1>2, <1>3, <1>4, <1>5, <1>7, <1>9 DEF WorkerStep, Update

\* The steps of a worker leave the cluster alone.
LEMMA WorkersOnly ==
  ASSUME NEW w \in Workers, WorkerStep(w) \/ Crash(w)
  PROVE  UNCHANGED cluster
<1>1. CASE Submit(w) \/ Process(w)
  BY <1>1 DEF Submit, InsertWorkflow, InsertGroups, MarkWaiting, CheckWaiting, Process,
              LaunchDownstream, SetTasks, SendCreate
<1>2. CASE \/ FetchCancel(w) \/ Cancel(w) \/ Recheck(w) \/ UpdateWholeGroup(w) \/ UpdateNoTask(w)
           \/ CheckStartTimeout(w)
  BY <1>2 DEF FetchCancel, Cancel, Recheck, UpdateWholeGroup, UpdateNoTask, CheckStartTimeout
<1>3. CASE EndLateStart(w) \/ UpdateTaskStatus(w) \/ FailWithoutBackend(w) \/ Reread(w)
  BY ZenonT(60), <1>3 DEF EndLateStart, UpdateTaskStatus, UpdateTaskRowOf, FailWithoutBackend, Reread
<1>4. CASE UpdateSiblings(w) \/ InsertRetry(w) \/ SendRetry(w) \/ Aggregate(w) \/ WriteGroup(w)
  BY <1>4 DEF UpdateSiblings, InsertRetry, SendRetry, Aggregate, WriteGroup
<1>5. CASE ReadGroups(w) \/ WriteWorkflow(w) \/ Finish(w) \/ ReleaseDownstream(w)
  BY <1>5 DEF ReadGroups, WriteWorkflow, Finish, ReleaseDownstream
<1>6. CASE Other(w) \/ Crash(w)
  BY <1>6 DEF Other, CancelWorkflow, CheckQueueTimeout, CheckRunTimeout, CleanupWorkflow, Crash
<1>7. QED
  BY <1>1, <1>2, <1>3, <1>4, <1>5, <1>6 DEF WorkerStep, Update

\* Only the steps of a worker change one.
LEMMA WorkersStay ==
  ASSUME [Next]_vars, ~\E w \in Workers : WorkerStep(w) \/ Crash(w)
  PROVE  worker' = worker
<1> USE DEF cluster
<1>1. CASE PrepareCreateGroup \/ PrepareCleanupGroup \/ PrepareRescheduleTask \/ Apply
           \/ Execute \/ Refuse \/ Disconnect
  BY <1>1 DEF PrepareCreateGroup, PrepareCleanupGroup, PrepareRescheduleTask, Apply, Execute,
              Refuse, Disconnect
<1>2. CASE \/ \E t \in Tasks : PodMoves(t) \/ PodEnds(t)
           \/ \E force \in CancelForms : AskCancel(force)
           \/ DeleteBackend
  BY <1>2 DEF PodMoves, PodEnds, AskCancel, DeleteBackend
<1>3. CASE UNCHANGED vars
  BY <1>3 DEF vars
<1>4. QED
  BY <1>1, <1>2, <1>3 DEF Next, AgentStep

-----------------------------------------------------------------------------
(***************************************************************************)
(* The submission is all or nothing: as long as a group is missing, no job *)
(* but the submission and a cancel is there and no pod.                    *)
(***************************************************************************)
Submitted == \A g \in Groups : grp[g].status # Absent
Unsubmitted ==
  /\ \A j \in queue : j.type \in {"SubmitWorkflow", "CancelWorkflow"}
  /\ \A w \in Workers : \/ worker[w].pc = "idle"
                        \/ worker[w].pc = "insertGroups" /\ worker[w].job.type = "SubmitWorkflow"
  /\ agent.pc = "idle"
  /\ \A t \in Tasks : pod[t].phase = "none"
  /\ \A g \in Groups : grp[g].status = Absent

\* What a worker is about to write into a group is a status, and one that releases
\* the downstream groups of a group has seen it completed.
SoundWorker(x) ==
  /\ x.pc \in {"cancel", "recheck"} => x.job.status \in Canceled
  /\ x.pc = "writeGroup" => x.new # Absent
  /\ x.pc = "downstream" => x.job.group \in Groups /\ grp[x.job.group].status = "COMPLETED"

Sound == /\ Submitted \/ Unsubmitted
         /\ \A v \in Workers : SoundWorker(worker[v])
         /\ agent.pc # "idle" => agent.job.type \in BackendTypes

\* At the start nothing is submitted.
LEMMA InitSound == Init => Sound
  BY DEF Init, Sound, Unsubmitted, SoundWorker, JobOf, NoJob, Idle

\* No group ever goes away.
LEMMA GroupsStay ==
  ASSUME Shape, Sound, [Next]_vars, NEW g \in Groups, grp[g].status # Absent
  PROVE  grp'[g].status # Absent
<1>1. Absent \notin Launching /\ Absent \notin Canceled
  BY DEF Absent, Launching, Canceled
<1>2. QED
  BY <1>1, GroupMoves DEF Moved, Sound, SoundWorker, At

\* A group that has completed stays so.
LEMMA CompletedStays ==
  ASSUME Shape, [Next]_vars, NEW g \in Groups, grp[g].status = "COMPLETED"
  PROVE  grp'[g].status = "COMPLETED"
<1>1. "COMPLETED" \in GroupFinished
  BY DEF GroupFinished
<1>2. QED
  BY <1>1, GroupMoves DEF Moved

\* Before the submission only the submission and a cancel can go on.
LEMMA SubmissionIsFirst ==
  ASSUME Shape, Unsubmitted, [Next]_vars
  PROVE  Unsubmitted' \/ (Submitted' /\ \E w \in Workers : InsertGroups(w))
<1> USE DEF db, jobs, cluster, Unsubmitted
<1>0. /\ worker \in [Workers -> Worker] /\ grp \in [Groups -> GroupRow]
      /\ \A v \in Workers : worker[v] \in Worker
  BY DEF Shape, WorkerShape, GoodWorker, DbShape
<1>1. ASSUME NEW w \in Workers, InsertWorkflow(w) PROVE Unsubmitted'
  <2>1. PICK j \in queue : j.type = "SubmitWorkflow" /\ Take(j) /\ Start(w, j, "insertGroups", Absent)
    BY <1>1 DEF InsertWorkflow
  <2>2. \A v \in Workers : worker'[v] = worker[v] \/ /\ worker'[v].pc = "insertGroups"
                                                     /\ worker'[v].job = j
    BY <1>0, <1>1, <2>1, StartGives, OthersStay DEF WorkerStep, Submit
  <2>3. QED
    BY <1>1, <2>1, <2>2 DEF InsertWorkflow, Take
<1>2. ASSUME NEW w \in Workers, InsertGroups(w) PROVE Submitted'
  <2>1. \A g \in Groups : grp'[g] = [grp[g] EXCEPT !.status = "SUBMITTING", !.remaining = Upstream[g]]
    BY <1>2 DEF InsertGroups
  <2>2. ASSUME NEW g \in Groups PROVE grp'[g].status = "SUBMITTING"
    <3>1. grp[g] \in GroupRow
      BY <1>0
    <3>2. QED
      BY <2>1, <3>1 DEF GroupRow
  <2>3. QED
    BY <2>2 DEF Submitted, Absent
<1>3. ASSUME NEW w \in Workers, CancelWorkflow(w) PROVE Unsubmitted'
  <2>1. PICK j \in queue : TakeAndSend(j, {[UpdateGroup(g, "FAILED_CANCELED") EXCEPT !.force = j.force] :
                         g \in {h \in Groups : /\ grp[h].status # Absent
                                               /\ grp[h].status \notin Finished \/ j.force}})
    BY <1>3 DEF CancelWorkflow
  <2>2. queue' \subseteq queue
    BY <2>1 DEF TakeAndSend
  <2>3. QED
    BY <1>3, <2>2 DEF CancelWorkflow
<1>4. ASSUME NEW w \in Workers, Crash(w) PROVE Unsubmitted'
  <2>1. worker[w].job.type = "SubmitWorkflow" /\ queue' = queue \cup {worker[w].job}
    BY <1>4 DEF Crash, Free
  <2>2. \A v \in Workers : worker'[v] = worker[v] \/ worker'[v].pc = "idle"
    BY <1>0, <1>4, DoneGives, OthersStay DEF Crash
  <2>3. QED
    BY <1>4, <2>1, <2>2 DEF Crash
<1>5. ASSUME NEW force \in CancelForms, AskCancel(force) PROVE Unsubmitted'
  <2>1. [JobOf("CancelWorkflow") EXCEPT !.force = force].type = "CancelWorkflow"
    BY DEF JobOf, NoJob
  <2>2. \A j \in queue' : j \in queue \/ j.type = "CancelWorkflow"
    BY <1>5, <2>1 DEF AskCancel, Send
  <2>3. QED
    BY <1>5, <2>2 DEF AskCancel
<1>6. CASE DeleteBackend
  BY <1>6 DEF DeleteBackend
<1>7. ASSUME NEW w \in Workers, \/ MarkWaiting(w) \/ CheckWaiting(w) \/ Process(w)
                                \/ Update(w) \/ CheckQueueTimeout(w) \/ CheckRunTimeout(w)
                                \/ CleanupWorkflow(w)
      PROVE  FALSE
  <2>1. ~(MarkWaiting(w) \/ CheckWaiting(w) \/ Process(w))
    BY DEF MarkWaiting, CheckWaiting, Process, LaunchDownstream, SetTasks, SendCreate, At
  <2>2. ~(FetchCancel(w) \/ Cancel(w) \/ Recheck(w) \/ UpdateWholeGroup(w) \/ UpdateNoTask(w)
          \/ CheckStartTimeout(w) \/ EndLateStart(w) \/ UpdateTaskStatus(w))
    BY DEF FetchCancel, Cancel, Recheck, UpdateWholeGroup, UpdateNoTask, CheckStartTimeout,
           EndLateStart, UpdateTaskStatus, At, PerTask
  <2>3. ~(FailWithoutBackend(w) \/ Reread(w) \/ UpdateSiblings(w) \/ InsertRetry(w)
          \/ SendRetry(w) \/ Aggregate(w) \/ WriteGroup(w))
    BY DEF FailWithoutBackend, WithoutBackend, PerTask, Reread, UpdateSiblings, InsertRetry,
           SendRetry, Aggregate, WriteGroup, At
  <2>4. ~(ReadGroups(w) \/ WriteWorkflow(w) \/ Finish(w) \/ ReleaseDownstream(w))
    BY DEF ReadGroups, WriteWorkflow, Finish, ReleaseDownstream, At
  <2>5. ~(CheckQueueTimeout(w) \/ CheckRunTimeout(w) \/ CleanupWorkflow(w))
    BY DEF CheckQueueTimeout, CheckRunTimeout, CleanupWorkflow
  <2>6. QED
    BY <1>7, <2>1, <2>2, <2>3, <2>4, <2>5 DEF Update
<1>8. CASE AgentStep \/ Refuse \/ Disconnect
  BY <1>8 DEF AgentStep, PrepareCreateGroup, PrepareCleanupGroup, PrepareRescheduleTask, Apply,
              Execute, Refuse, Disconnect
<1>9. ASSUME NEW t \in Tasks, PodMoves(t) \/ PodEnds(t) PROVE FALSE
  BY <1>9 DEF PodMoves, PodEnds
<1>10. CASE UNCHANGED vars
  BY <1>10 DEF vars
<1>11. QED
  BY <1>1, <1>2, <1>3, <1>4, <1>5, <1>6, <1>7, <1>8, <1>9, <1>10
     DEF Next, WorkerStep, Submit, Other

\* A step that changes a worker leaves it sound.
LEMMA SoundMoves ==
  ASSUME Shape, Sound, NEW w \in Workers, WorkerStep(w) \/ Crash(w)
  PROVE  \/ worker'[w] = worker[w]
         \/ /\ worker'[w].pc \in {"cancel", "recheck"} => worker'[w].job.status \in Canceled
            /\ worker'[w].pc = "writeGroup" => worker'[w].new # Absent
            /\ worker'[w].pc = "downstream" =>
                 /\ worker'[w].job.group \in Groups
                 /\ grp[worker'[w].job.group].status = "COMPLETED"
<1> DEFINE x == worker[w]
           y == worker'[w]
<1> USE DEF cluster
<1>0. worker \in [Workers -> Worker] /\ x \in Worker /\ SoundWorker(x)
  BY DEF Shape, WorkerShape, GoodWorker, Sound
<1>1. \/ y = x \/ y.pc \notin {"cancel", "recheck", "writeGroup", "downstream"} \/ Loads(w) \/ Finish(w)
      \/ ReleaseDownstream(w)
  <2>1. CASE Loads(w) \/ Finish(w) \/ ReleaseDownstream(w)
    BY <2>1
  <2>2. CASE Submit(w) \/ Process(w)
    <3>1. SetGroups(w) => y.pc \in {"idle", "setTasks"}
      BY SetGives, DoneGives
    <3>2. CASE InsertWorkflow(w)
      <4>1. PICK j : Start(w, j, "insertGroups", Absent)
        BY <3>2 DEF InsertWorkflow
      <4>2. QED
        BY <4>1, StartGives
    <3>8. CASE InsertGroups(w)
      <4>1. Goto(w, "markWaiting")
        BY <3>8 DEF InsertGroups
      <4>2. QED
        BY <4>1, GotoGives
    <3>3. CASE MarkWaiting(w)
      BY <1>0, <3>3 DEF MarkWaiting, Worker
    <3>4. CASE CheckWaiting(w) \/ LaunchDownstream(w)
      BY <3>1, <3>4, DoneGives DEF CheckWaiting, LaunchDownstream
    <3>5. CASE SetTasks(w)
      BY <3>5, GotoGives DEF SetTasks
    <3>6. CASE SendCreate(w)
      <4>1. Done(w) \/ \E g : worker' = [worker EXCEPT ![w].todo = @ \ {g}]
        BY <3>6 DEF SendCreate
      <4>2. Done(w) \/ y.pc = x.pc
        BY <1>0, <4>1 DEF Worker
      <4>3. QED
        BY <3>6, <4>2, DoneGives DEF SendCreate, At
    <3>7. QED
      BY <2>2, <3>2, <3>3, <3>4, <3>5, <3>6, <3>8 DEF Submit, Process
  <2>3. CASE UpdateWholeGroup(w) \/ UpdateNoTask(w) \/ CheckStartTimeout(w)
    BY <2>3, StartGives DEF UpdateWholeGroup, UpdateNoTask, CheckStartTimeout
  <2>4. CASE EndLateStart(w) \/ UpdateTaskStatus(w)
    <3>1. PICK j : UpdateTaskRowOf(w, j)
      BY <2>4 DEF EndLateStart, UpdateTaskStatus
    <3>2. y.pc = "reread"
      BY <3>1, TaskRowGives
    <3>3. QED
      BY <3>2
  <2>5. CASE FailWithoutBackend(w) \/ UpdateSiblings(w) \/ InsertRetry(w) \/ SendRetry(w)
    <3>1. UNCHANGED worker \/ Done(w) \/ Goto(w, "aggregate") \/ Goto(w, "sendRetry")
      BY <2>5 DEF FailWithoutBackend, UpdateSiblings, InsertRetry, SendRetry
    <3>2. QED
      BY <3>1, GotoGives, DoneGives
  <2>6. CASE WriteGroup(w) \/ WriteWorkflow(w)
    <3>1. y \in {[x EXCEPT !.pc = "readGroups", !.new = Absent],
                [x EXCEPT !.pc = "finish", !.new = Absent]}
      BY <1>0, <2>6 DEF WriteGroup, WriteWorkflow
    <3>2. y.pc \in {"readGroups", "finish"}
      BY <1>0, <3>1 DEF Worker
    <3>3. QED
      BY <3>2
  <2>7. CASE Other(w) \/ Crash(w)
    BY <2>7, DoneGives DEF Other, CancelWorkflow, CheckQueueTimeout, CheckRunTimeout,
                           CleanupWorkflow, Crash
  <2>8. QED
    BY <2>1, <2>2, <2>3, <2>4, <2>5, <2>6, <2>7 DEF WorkerStep, Update, Loads
<1>2. CASE FetchCancel(w)
  BY <1>2, StartGives DEF FetchCancel
<1>3. CASE Cancel(w)
  BY <1>0, <1>3, GotoGives DEF Cancel, At, SoundWorker
<1>4. CASE Recheck(w)
  <2>1. Done(w) \/ y = [x EXCEPT !.pc = "writeGroup", !.new = x.job.status]
    BY <1>0, <1>4 DEF Recheck
  <2>2. x.job.status \in Canceled /\ Absent \notin Canceled
    BY <1>0, <1>4 DEF Recheck, At, SoundWorker, Absent, Canceled
  <2>3. Done(w) \/ (y.pc = "writeGroup" /\ y.new = x.job.status)
    BY <1>0, <2>1 DEF Worker
  <2>4. QED
    BY <2>2, <2>3, DoneGives
<1>5. CASE Reread(w)
  BY <1>5, GotoGives, DoneGives DEF Reread
<1>6. CASE Aggregate(w)
  <2>1. \E e, n : n \in TaskGroupStatuses
                  /\ y = [x EXCEPT !.pc = "writeGroup", !.eff = e, !.new = n, !.clocks = {}]
    BY <1>0, <1>6, GroupAggregates, Vocabulary DEF Aggregate, TaskGroupStatuses, Prerunning
  <2>2. PICK e, n : n \in TaskGroupStatuses
                    /\ y = [x EXCEPT !.pc = "writeGroup", !.eff = e, !.new = n, !.clocks = {}]
    BY <2>1
  <2>3. y.pc = "writeGroup" /\ y.new = n
    BY <1>0, <2>2 DEF Worker
  <2>4. Absent \notin TaskGroupStatuses
    BY DEF Absent, TaskGroupStatuses, Prerunning, InQueue, Prescheduling, Finished, GroupFinished,
           FailedStatuses
  <2>5. QED
    BY <2>2, <2>3, <2>4
<1>7. CASE ReadGroups(w)
  <2>1. \E n : y = [x EXCEPT !.pc = "writeWorkflow", !.new = n]
    BY <1>0, <1>7 DEF ReadGroups
  <2>2. y.pc = "writeWorkflow"
    BY <1>0, <2>1 DEF Worker
  <2>3. QED
    BY <2>2
<1>8. CASE Finish(w)
  <2>5. \/ Done(w)
        \/ /\ grp[x.job.group].status = "COMPLETED" /\ Downstream(x.job.group) # {}
           /\ worker' = [worker EXCEPT ![w].pc = "downstream", ![w].todo = Downstream(x.job.group)]
    BY <1>8 DEF Finish
  <2>1. \/ Done(w)
        \/ /\ grp[x.job.group].status = "COMPLETED" /\ Downstream(x.job.group) # {}
           /\ y = [x EXCEPT !.pc = "downstream", !.todo = Downstream(x.job.group)]
    BY <1>0, <2>5
  <2>2. Downstream(x.job.group) # {} => x.job.group \in Groups
    BY WorkflowAssumption DEF Downstream
  <2>3. \/ Done(w)
        \/ /\ grp[x.job.group].status = "COMPLETED" /\ Downstream(x.job.group) # {}
           /\ y.pc = "downstream" /\ y.job = x.job
    BY <1>0, <2>1 DEF Worker
  <2>4. QED
    BY <2>2, <2>3, DoneGives
<1>9. CASE ReleaseDownstream(w)
  <2>1. x.pc = "downstream"
    BY <1>9 DEF ReleaseDownstream, At
  <2>2. \/ Done(w)
        \/ \E r, d : y = [x EXCEPT !.todo = @ \ {d}, !.ready = r]
        \/ \E r : y = [x EXCEPT !.pc = "setGroups", !.todo = {}, !.ready = r]
    <3>1. \/ Done(w)
          \/ \E r, d : worker' = [worker EXCEPT ![w].todo = @ \ {d}, ![w].ready = r]
          \/ \E r : worker' = [worker EXCEPT ![w].pc = "setGroups", ![w].todo = {}, ![w].ready = r]
      BY <1>9 DEF ReleaseDownstream
    <3>2. QED
      BY <1>0, <3>1
  <2>3. Done(w) \/ y.pc = "setGroups" \/ (y.pc = x.pc /\ y.job = x.job)
    BY <1>0, <2>2 DEF Worker
  <2>4. QED
    BY <1>0, <2>1, <2>3, DoneGives DEF SoundWorker
<1>10. QED
  BY <1>1, <1>2, <1>3, <1>4, <1>5, <1>6, <1>7, <1>8, <1>9 DEF Loads

\* What is known about the submission and the workers stays true.
LEMMA SoundStays ==
  ASSUME Shape, Sound, [Next]_vars
  PROVE  Sound'
<1>1. Submitted' \/ Unsubmitted'
  BY GroupsStay, SubmissionIsFirst DEF Sound, Submitted
<1>2. ASSUME NEW v \in Workers PROVE SoundWorker(worker[v])'
  <2>1. CASE worker'[v] = worker[v]
    BY <2>1, CompletedStays DEF Sound, SoundWorker
  <2>2. CASE WorkerStep(v) \/ Crash(v)
    BY <2>1, <2>2, SoundMoves, CompletedStays DEF SoundWorker
  <2>3. QED
    BY <2>1, <2>2, OthersStay, WorkersStay
<1>3. (agent.pc # "idle" => agent.job.type \in BackendTypes)'
  <2> USE DEF cluster
  <2>1. CASE PrepareCreateGroup \/ PrepareCleanupGroup \/ PrepareRescheduleTask
    <3>1. UNCHANGED agent \/ \E j : j.type \in BackendTypes /\ Launch(j)
      <4>1. CASE PrepareCreateGroup
        BY <4>1 DEF PrepareCreateGroup, BackendTypes
      <4>2. CASE PrepareCleanupGroup
        BY <4>2 DEF PrepareCleanupGroup, BackendTypes
      <4>3. CASE PrepareRescheduleTask
        BY <4>3 DEF PrepareRescheduleTask, BackendTypes
      <4>4. QED
        BY <2>1, <4>1, <4>2, <4>3
    <3>2. QED
      BY <3>1 DEF Launch, Sound
  <2>2. CASE Apply
    <3>1. agent' = [agent EXCEPT !.pc = "execute"] /\ agent.pc = "apply"
      BY <2>2 DEF Apply
    <3>2. agent'.job = agent.job
      BY <3>1 DEF Shape, ClusterShape
    <3>3. QED
      BY <3>1, <3>2 DEF Sound
  <2>3. CASE Execute \/ Refuse \/ Disconnect
    BY <2>3 DEF Execute, Refuse, Disconnect
  <2>4. CASE \E w \in Workers : WorkerStep(w) \/ Crash(w)
    <3>1. PICK w \in Workers : WorkerStep(w) \/ Crash(w)
      BY <2>4
    <3>2. UNCHANGED cluster
      BY <3>1, WorkersOnly
    <3>3. QED
      BY <3>2 DEF Sound
  <2>5. CASE \/ \E t \in Tasks : PodMoves(t) \/ PodEnds(t)
             \/ \E force \in CancelForms : AskCancel(force)
             \/ DeleteBackend
    BY <2>5 DEF PodMoves, PodEnds, AskCancel, DeleteBackend, Sound
  <2>6. CASE UNCHANGED vars
    BY <2>6 DEF vars, Sound
  <2>7. QED
    BY <2>1, <2>2, <2>3, <2>4, <2>5, <2>6 DEF Next, AgentStep
<1>4. QED
  BY <1>1, <1>2, <1>3 DEF Sound

\* Every state of the specification is sound.
LEMMA SoundInvariant == Spec => []Sound
<1>1. Shape /\ Sound /\ [Next]_vars => Sound'
  BY SoundStays
<1>2. QED
  BY <1>1, InitSound, ShapeInvariant, PTL DEF Spec

-----------------------------------------------------------------------------
(***************************************************************************)
(* A group waits.  As long as an upstream group has not completed, and the *)
(* backend is there, nothing has been launched for a group: no pod, no row *)
(* beyond WAITING, no job that would create or report a pod, and no worker *)
(* that is about to.  Jobs that end the group unlaunched may be there.     *)
(***************************************************************************)
Ready(g)       == \A u \in Upstream[g] : grp[u].status = "COMPLETED"
Concerns(j, g) == j.group = g \/ (j.task # None /\ GroupOf[j.task] = g)

EarlyJob(j, g) ==
  Concerns(j, g) => /\ j.group = g
                    /\ j.type \notin {"CreateGroup", "RescheduleTask"}
                    /\ j.type = "UpdateGroup" => /\ j.task = None
                                                 /\ j.status \in Canceled \cup WholeGroup

EarlyRow(row) == \/ row.status \in {Absent, "WAITING"} /\ row.stamps = {}
                 \/ row.status \in FailedStatuses

\* Every task was ended before it started.
Dead(g) == \A t \in TasksOf(g) : rows[t][0].status \in FailedStatuses

EarlyWorker(x, g) ==
  /\ g \notin x.ready
  /\ x.pc \in {"setTasks", "sendCreate"} => g \notin x.todo
  /\ x.pc = "markWaiting" => grp[g].status # Absent
  /\ EarlyJob(x.job, g)
  /\ Concerns(x.job, g) => /\ x.pc \notin UpdatingTask
                           /\ x.pc = "aggregate" => x.eff \in FailedStatuses /\ Dead(g)
                           /\ x.pc = "writeGroup" => x.new \in FailedStatuses

EarlyGroup(g) ==
  /\ grp[g].status \notin Launched
  /\ grp[g].status # Absent =>
       \A u \in Upstream[g] : u \in grp[g].remaining \/ grp[u].status = "COMPLETED"

EarlyRows(g) ==
  \A t \in TasksOf(g) : /\ \A r \in Retries : EarlyRow(rows[t][r])
                        /\ grp[g].status # Absent => rows[t][0].status # Absent

EarlyPods(g) == \A t \in TasksOf(g) : pod[t].phase = "none"
EarlyJobs(g) == (\A j \in queue : EarlyJob(j, g)) /\ EarlyJob(agent.job, g)

Unlaunched(g) ==
  /\ EarlyGroup(g) /\ EarlyRows(g) /\ EarlyPods(g) /\ EarlyJobs(g)
  /\ \A v \in Workers : EarlyWorker(worker[v], g)

Ordered == backendUp => \A g \in Groups : Ready(g) \/ Unlaunched(g)

\* What the lemmas below take for granted of a group that waits.
Waits(g) == Shape /\ Sound /\ Retried /\ backendUp /\ Unlaunched(g)

\* At the start nothing is launched.
LEMMA InitOrdered == Init => Ordered
<1> SUFFICES ASSUME Init, NEW g \in Groups PROVE Unlaunched(g)
  BY DEF Ordered
<1>1. None # g /\ 0 \in Retries
  BY WorkflowAssumption DEF Retries
<1>2. NoJob.group = None /\ NoJob.task = None /\ NoJob.type = "None"
  BY DEF NoJob
<1>3. /\ JobOf("SubmitWorkflow").group = None /\ JobOf("SubmitWorkflow").task = None
  BY DEF JobOf, NoJob
<1>4. EarlyJobs(g)
  BY <1>1, <1>2, <1>3 DEF Init, EarlyJobs, EarlyJob, Concerns
<1>5. EarlyRows(g)
  BY DEF Init, EarlyRows, EarlyRow, TasksOf, RowAbsent
<1>6. EarlyGroup(g) /\ EarlyPods(g)
  BY DEF Init, EarlyGroup, EarlyPods, TasksOf, Launched, Absent
<1>7. ASSUME NEW v \in Workers PROVE EarlyWorker(worker[v], g)
  BY <1>1, <1>2 DEF Init, EarlyWorker, EarlyJob, Concerns, Idle, UpdatingTask
<1>8. QED
  BY <1>4, <1>5, <1>6, <1>7 DEF Unlaunched

\* The jobs that may be sent while group g waits.
LEMMA EarlyMade ==
  ASSUME NEW g \in Groups
  PROVE  /\ EarlyJob(NoJob, g)
         /\ \A type : EarlyJob(JobOf(type), g)
         /\ \A f : EarlyJob([JobOf("CancelWorkflow") EXCEPT !.force = f], g)
         /\ \A h : EarlyJob(GroupJob("CleanupGroup", h), g)
         /\ \A h : EarlyJob(GroupJob("CheckQueueTimeout", h), g)
         /\ \A h : EarlyJob(GroupJob("CheckRunTimeout", h), g)
         /\ \A h : h # g => EarlyJob(GroupJob("CreateGroup", h), g)
         /\ \A h, s : s \in Canceled \cup WholeGroup => EarlyJob(UpdateGroup(h, s), g)
         /\ \A h, f : EarlyJob([UpdateGroup(h, "FAILED_CANCELED") EXCEPT !.force = f], g)
         /\ \A t, n : EarlyJob(TaskJob("CleanupGroup", t, n), g)
         /\ \A t, n : GroupOf[t] # g => EarlyJob(TaskJob("RescheduleTask", t, n), g)
         /\ \A t, n, s : GroupOf[t] # g => EarlyJob(UpdateTask(t, n, s), g)
         /\ \A t, n, s, a : GroupOf[t] # g => EarlyJob([UpdateTask(t, n, s) EXCEPT !.action = a], g)
<1>1. None # g
  BY WorkflowAssumption
<1> USE DEF EarlyJob, Concerns, NoJob, JobOf, GroupJob
<1>2. /\ EarlyJob(NoJob, g)
      /\ \A type : EarlyJob(JobOf(type), g)
      /\ \A f : EarlyJob([JobOf("CancelWorkflow") EXCEPT !.force = f], g)
  BY <1>1
<1>3. /\ \A h : EarlyJob(GroupJob("CleanupGroup", h), g)
      /\ \A h : EarlyJob(GroupJob("CheckQueueTimeout", h), g)
      /\ \A h : EarlyJob(GroupJob("CheckRunTimeout", h), g)
      /\ \A h : h # g => EarlyJob(GroupJob("CreateGroup", h), g)
  BY <1>1
<1>4. \A h, s : s \in Canceled \cup WholeGroup => EarlyJob(UpdateGroup(h, s), g)
  BY <1>1 DEF UpdateGroup
<1>5. \A h, f : EarlyJob([UpdateGroup(h, "FAILED_CANCELED") EXCEPT !.force = f], g)
  BY <1>1 DEF UpdateGroup, Canceled
<1>6. \A t, n : EarlyJob(TaskJob("CleanupGroup", t, n), g)
  BY <1>1 DEF TaskJob
<1>7. \A t, n : GroupOf[t] # g => EarlyJob(TaskJob("RescheduleTask", t, n), g)
  BY <1>1 DEF TaskJob
<1>8. \A t, n, s : GroupOf[t] # g => EarlyJob(UpdateTask(t, n, s), g)
  BY <1>1 DEF TaskJob, UpdateTask
<1>9. \A t, n, s, a : GroupOf[t] # g => EarlyJob([UpdateTask(t, n, s) EXCEPT !.action = a], g)
  BY <1>1 DEF TaskJob, UpdateTask
<1>10. QED
  BY <1>2, <1>3, <1>4, <1>5, <1>6, <1>7, <1>8, <1>9

\* The failure of a retry is a report of its task.
LEMMA EarlyError ==
  ASSUME NEW g \in Groups, NEW j, GroupOf[j.task] # g
  PROVE  EarlyJob(BackendError(j), g)
BY EarlyMade DEF BackendError

\* A cleanup needs no upstream group.
LEMMA EarlyCleanups ==
  ASSUME NEW g \in Groups
  PROVE  /\ \A h : \A j \in CleanupJobs(h) : EarlyJob(j, g)
         /\ \A i, s, f : \A j \in CleanupGroupJobs(i, s, f) : EarlyJob(j, g)
<1>1. \A h : \A j \in CleanupJobs(h) : EarlyJob(j, g)
  BY EarlyMade DEF CleanupJobs
<1>2. QED
  BY <1>1, EarlyMade DEF CleanupGroupJobs

\* The jobs that a worker sends while group g waits.
LEMMA EarlySent ==
  ASSUME NEW g \in Groups, Waits(g), NEW w \in Workers, WorkerStep(w) \/ Crash(w)
  PROVE  \A j \in queue' : EarlyJob(j, g)
<1> USE DEF jobs
<1>0. \A j \in queue : EarlyJob(j, g)
  BY DEF Waits, Unlaunched, EarlyJobs
<1>1. /\ EarlyWorker(worker[w], g) /\ backendUp
      /\ worker[w].pc \in UpdatingTask => worker[w].job.task \in Tasks
  BY DEF Waits, Unlaunched, Shape, WorkerShape, GoodWorker
<1>2. CASE Submit(w)
  <2>1. queue' \subseteq queue
    BY <1>1, <1>2 DEF Submit, InsertWorkflow, InsertGroups, MarkWaiting, CheckWaiting, Take
  <2>2. QED
    BY <1>0, <2>1
<1>3. CASE LaunchDownstream(w) \/ SetTasks(w)
  BY <1>0, <1>3 DEF LaunchDownstream, SetTasks
<1>4. CASE SendCreate(w)
  <2>1. PICK h \in worker[w].todo : Send({GroupJob("CreateGroup", h)})
    BY <1>4 DEF SendCreate
  <2>2. h # g
    BY <1>1, <1>4 DEF EarlyWorker, SendCreate, At
  <2>3. QED
    BY <1>0, <2>1, <2>2, EarlyMade DEF Send
<1>5. CASE \/ FetchCancel(w) \/ Cancel(w) \/ UpdateWholeGroup(w) \/ UpdateNoTask(w)
           \/ CheckStartTimeout(w) \/ EndLateStart(w) \/ UpdateTaskStatus(w)
  <2>1. queue' \subseteq queue
    BY <1>5 DEF FetchCancel, Cancel, UpdateWholeGroup, UpdateNoTask, CheckStartTimeout,
                EndLateStart, UpdateTaskStatus, Take
  <2>2. QED
    BY <1>0, <2>1
<1>6. CASE Recheck(w) \/ Crash(w)
  <2>1. queue' \subseteq queue \cup {worker[w].job}
    BY <1>6 DEF Recheck, Crash
  <2>2. QED
    BY <1>0, <1>1, <2>1 DEF EarlyWorker
<1>7. CASE FailWithoutBackend(w)
  BY <1>1, <1>7 DEF FailWithoutBackend, WithoutBackend
<1>8. CASE \/ Reread(w) \/ UpdateSiblings(w) \/ InsertRetry(w) \/ WriteGroup(w) \/ ReadGroups(w)
           \/ WriteWorkflow(w) \/ ReleaseDownstream(w)
  BY <1>0, <1>8 DEF Reread, UpdateSiblings, InsertRetry, WriteGroup, ReadGroups, WriteWorkflow,
                    ReleaseDownstream
<1>9. CASE SendRetry(w)
  <2>1. PICK n : Send({TaskJob("RescheduleTask", worker[w].job.task, n)})
    BY <1>9 DEF SendRetry
  <2>2. GroupOf[worker[w].job.task] # g
    BY <1>1, <1>9, WorkflowAssumption DEF SendRetry, At, EarlyWorker, Concerns, UpdatingTask
  <2>3. QED
    BY <1>0, <2>1, <2>2, EarlyMade DEF Send
<1>10. CASE Aggregate(w)
  <2>1. PICK h, C : Send({GroupJob(IF c = "queue" THEN "CheckQueueTimeout" ELSE "CheckRunTimeout", h) :
                            c \in C})
    BY <1>10 DEF Aggregate
  <2>2. QED
    BY <1>0, <2>1, EarlyMade DEF Send
<1>11. CASE Finish(w)
  <2> DEFINE s == grp[worker[w].job.group].status
             F == IF s \in FailedStatuses THEN {"FAILED_UPSTREAM"} ELSE {}
             J == {UpdateGroup(d, f) : d \in Downstream(worker[w].job.group), f \in F}
  <2>1. Send(CleanupGroupJobs(worker[w].job, worker[w].eff, HasBackend(worker[w].job)) \cup J)
    BY <1>1, <1>11, BackendIsFound DEF Finish
  <2>2. \A j \in J : EarlyJob(j, g)
    BY EarlyMade DEF WholeGroup
  <2> HIDE DEF J
  <2>3. QED
    BY <1>0, <2>1, <2>2, EarlyCleanups DEF Send
<1>12. CASE CancelWorkflow(w)
  <2> DEFINE J(f) == {[UpdateGroup(h, "FAILED_CANCELED") EXCEPT !.force = f] :
                        h \in {i \in Groups : /\ grp[i].status # Absent
                                              /\ grp[i].status \notin Finished \/ f}}
  <2>1. PICK i \in queue : TakeAndSend(i, J(i.force))
    BY <1>12 DEF CancelWorkflow
  <2>2. \A j \in J(i.force) : EarlyJob(j, g)
    BY EarlyMade
  <2> HIDE DEF J
  <2>3. QED
    BY <1>0, <2>1, <2>2 DEF TakeAndSend
<1>13. CASE CheckQueueTimeout(w) \/ CheckRunTimeout(w)
  <2>1. PICK j, h, s : /\ s \in Canceled
                       /\ Take(j) \/ TakeAndSend(j, {UpdateGroup(h, s)})
    BY <1>13 DEF CheckQueueTimeout, CheckRunTimeout, Canceled
  <2>2. QED
    BY <1>0, <2>1, EarlyMade DEF Take, TakeAndSend
<1>14. CASE CleanupWorkflow(w)
  BY <1>0, <1>14 DEF CleanupWorkflow, Take
<1>15. QED
  BY <1>2, <1>3, <1>4, <1>5, <1>6, <1>7, <1>8, <1>9, <1>10, <1>11, <1>12, <1>13, <1>14
     DEF WorkerStep, Process, Update, Other

\* The jobs that the backend worker sends, and the one it holds.
LEMMA EarlyPrepared ==
  ASSUME NEW g \in Groups, Waits(g),
         PrepareCreateGroup \/ PrepareCleanupGroup \/ PrepareRescheduleTask
  PROVE  EarlyJobs(g)'
<1>0. /\ \A j \in queue : EarlyJob(j, g) /\ j \in Named
      /\ EarlyJob(agent.job, g)
  BY DEF Waits, Unlaunched, EarlyJobs, Shape, JobShape
<1>1. ASSUME NEW j \in queue, Launch(j), Take(j) PROVE EarlyJobs(g)'
  BY <1>0, <1>1 DEF Launch, Take, EarlyJobs
<1>2. ASSUME NEW j \in queue, NEW J, \A i \in J : EarlyJob(i, g), TakeAndSend(j, J), UNCHANGED agent
      PROVE  EarlyJobs(g)'
  BY <1>0, <1>2 DEF TakeAndSend, EarlyJobs
<1>3. CASE PrepareCreateGroup
  <2>1. PICK j \in queue : \/ Launch(j) /\ Take(j)
                           \/ /\ TakeAndSend(j, {UpdateGroup(j.group, "FAILED_SERVER_ERROR")})
                              /\ UNCHANGED agent
    BY <1>3 DEF PrepareCreateGroup
  <2>2. QED
    BY <1>1, <1>2, <2>1, EarlyMade DEF WholeGroup
<1>4. CASE PrepareCleanupGroup
  BY <1>1, <1>4 DEF PrepareCleanupGroup
<1>5. CASE PrepareRescheduleTask
  <2> DEFINE J(j) == {BackendError(j)}
                     \cup {TaskJob("CleanupGroup", t, j.retry) :
                             t \in {u \in {j.task} :
                                      /\ Latest(j.task) = j.retry
                                      /\ rows[j.task][Latest(j.task)].status \in GroupFinished}}
  <2>1. PICK j \in queue : /\ j.type = "RescheduleTask"
                           /\ \/ Launch(j) /\ Take(j)
                              \/ TakeAndSend(j, J(j)) /\ UNCHANGED agent
    BY <1>5 DEF PrepareRescheduleTask
  <2>2. GroupOf[j.task] # g
    BY <1>0, <2>1, WorkflowAssumption DEF Named, EarlyJob, Concerns
  <2>3. \A i \in J(j) : EarlyJob(i, g)
    BY <2>2, EarlyMade, EarlyError
  <2> HIDE DEF J
  <2>4. QED
    BY <1>1, <1>2, <2>1, <2>3
<1>6. QED
  BY <1>3, <1>4, <1>5

\* What the cluster does for an early job keeps the jobs early.
LEMMA EarlyWorked ==
  ASSUME NEW g \in Groups, Waits(g), Apply \/ Execute \/ Refuse \/ Disconnect
  PROVE  EarlyJobs(g)'
<1> USE DEF jobs
<1>0. /\ \A j \in queue : EarlyJob(j, g)
      /\ EarlyJob(agent.job, g) /\ EarlyJob(NoJob, g)
      /\ agent.job \in Named /\ agent \in [pc : {"idle", "apply", "execute"}, job : Named]
  BY EarlyMade DEF Waits, Unlaunched, EarlyJobs, Shape, ClusterShape
<1>1. ASSUME NEW J, \A i \in J : EarlyJob(i, g), Send(J) \/ UNCHANGED queue,
             agent'.job \in {agent.job, NoJob}
      PROVE  EarlyJobs(g)'
  BY <1>0, <1>1 DEF Send, EarlyJobs
<1>2. CASE Apply
  <2>1. agent'.job = agent.job
    BY <1>0, <1>2 DEF Apply
  <2>2. UNCHANGED queue
    BY <1>2 DEF Apply
  <2>3. QED
    BY <1>0, <2>1, <2>2 DEF EarlyJobs
<1>3. CASE Execute
  <2> DEFINE j == agent.job
             J == {TaskJob("CleanupGroup", t, j.retry) :
                     t \in {u \in {j.task} \ {None} : grp[j.group].status \in GroupFinished}}
  <2>1. /\ agent'.job = NoJob
        /\ Send(CleanupJobs(j.group)) \/ Send(J)
    BY <1>3 DEF Execute
  <2>2. \A i \in J : EarlyJob(i, g)
    BY EarlyMade
  <2> HIDE DEF J
  <2>3. QED
    BY <1>1, <2>1, <2>2, EarlyCleanups
<1>4. CASE Refuse
  <2> DEFINE j == agent.job
  <2>1. /\ agent'.job = NoJob
        /\ \/ Send({UpdateGroup(j.group, "FAILED_SERVER_ERROR")})
           \/ /\ j.type = "RescheduleTask"
              /\ Send({BackendError(j)})
           \/ UNCHANGED queue
    BY <1>4 DEF Refuse
  <2>2. j.type = "RescheduleTask" => GroupOf[j.task] # g
    BY <1>0, WorkflowAssumption DEF Named, EarlyJob, Concerns
  <2>3. QED
    BY <1>1, <2>1, <2>2, EarlyMade, EarlyError DEF WholeGroup
<1>5. CASE Disconnect
  BY <1>0, <1>5 DEF Disconnect, EarlyJobs
<1>6. QED
  BY <1>2, <1>3, <1>4, <1>5

\* No step sends a job that is too early.
LEMMA EarlyJobsStay ==
  ASSUME NEW g \in Groups, Waits(g), [Next]_vars
  PROVE  EarlyJobs(g)'
<1> USE DEF cluster
<1>0. EarlyJobs(g) /\ EarlyPods(g)
  BY DEF Waits, Unlaunched
<1>1. CASE \E w \in Workers : WorkerStep(w) \/ Crash(w)
  BY <1>0, <1>1, EarlySent, WorkersOnly DEF EarlyJobs
<1>2. CASE PrepareCreateGroup \/ PrepareCleanupGroup \/ PrepareRescheduleTask
  BY <1>2, EarlyPrepared
<1>3. CASE Apply \/ Execute \/ Refuse \/ Disconnect
  BY <1>3, EarlyWorked
<1>4. ASSUME NEW t \in Tasks, PodMoves(t) \/ PodEnds(t) PROVE EarlyJobs(g)'
  <2>1. GroupOf[t] # g
    BY <1>0, <1>4 DEF EarlyPods, TasksOf, PodMoves, PodEnds
  <2>2. CASE PodMoves(t)
    <3>1. PICK s : /\ UNCHANGED agent
                   /\ \/ Send({UpdateTask(t, pod[t].retry, s)})
                      \/ \E late \in StartTimeouts(t, s) : Send({UpdateTask(t, pod[t].retry, s), late})
      BY <2>2 DEF PodMoves
    <3>2. \A late \in StartTimeouts(t, s) : EarlyJob(late, g)
      <4>1. \A a : EarlyJob([UpdateTask(t, pod[t].retry, "FAILED_START_TIMEOUT")
                                EXCEPT !.action = a], g)
        BY <2>1, EarlyMade
      <4>2. QED
        BY <4>1 DEF StartTimeouts
    <3>3. EarlyJob(UpdateTask(t, pod[t].retry, s), g)
      BY <2>1, EarlyMade
    <3>4. QED
      BY <1>0, <3>1, <3>2, <3>3 DEF Send, EarlyJobs
  <2>3. CASE PodEnds(t)
    <3>1. PICK s, a : /\ UNCHANGED agent
                      /\ Send({[UpdateTask(t, pod[t].retry, s) EXCEPT !.action = a]})
      BY <2>3 DEF PodEnds
    <3>2. EarlyJob([UpdateTask(t, pod[t].retry, s) EXCEPT !.action = a], g)
      BY <2>1, EarlyMade
    <3>3. QED
      BY <1>0, <3>1, <3>2 DEF Send, EarlyJobs
  <2>4. QED
    BY <1>4, <2>2, <2>3
<1>5. ASSUME NEW force \in CancelForms, AskCancel(force) PROVE EarlyJobs(g)'
  <2>1. UNCHANGED agent /\ Send({[JobOf("CancelWorkflow") EXCEPT !.force = force]})
    BY <1>5 DEF AskCancel
  <2>2. QED
    BY <1>0, <2>1, EarlyMade DEF Send, EarlyJobs
<1>6. CASE DeleteBackend \/ UNCHANGED vars
  BY <1>0, <1>6 DEF DeleteBackend, vars, jobs, EarlyJobs
<1>7. QED
  BY <1>1, <1>2, <1>3, <1>4, <1>5, <1>6 DEF Next, AgentStep

\* No pod of a group that waits is created.
LEMMA EarlyPodsStay ==
  ASSUME NEW g \in Groups, Waits(g), [Next]_vars
  PROVE  EarlyPods(g)'
<1> USE DEF cluster
<1> DEFINE j == agent.job
<1>0. /\ EarlyPods(g) /\ EarlyJob(j, g) /\ j \in Named
      /\ agent.pc # "idle" => j.type \in BackendTypes
      /\ pod \in [Tasks -> [retry : Nat, phase : DOMAIN Phase]]
  BY DEF Waits, Unlaunched, EarlyJobs, Shape, ClusterShape, Sound
<1>1. NoPod.phase = "none"
  BY DEF NoPod
<1>2. CASE Apply
  <2>1. agent.pc = "apply"
    BY <1>2 DEF Apply
  <2>2. ASSUME NEW t \in TasksOf(g) PROVE pod'[t] \in {pod[t], NoPod}
    <3>1. t \in Tasks /\ GroupOf[t] = g
      BY DEF TasksOf
    <3>2. CASE j.group # g
      BY <1>2, <3>1, <3>2 DEF Apply
    <3>3. CASE j.group = g
      <4>1. j.type = "CleanupGroup"
        BY <1>0, <2>1, <3>3 DEF EarlyJob, Concerns, BackendTypes
      <4>2. QED
        BY <1>2, <3>1, <4>1 DEF Apply
    <3>4. QED
      BY <3>2, <3>3
  <2>3. QED
    BY <1>0, <1>1, <2>2 DEF EarlyPods
<1>3. CASE Refuse
  <2>1. agent.pc = "apply"
    BY <1>3 DEF Refuse
  <2>2. ASSUME NEW t \in TasksOf(g) PROVE pod'[t] = pod[t]
    <3>1. t \in Tasks /\ GroupOf[t] = g
      BY DEF TasksOf
    <3>2. CASE j.type = "CreateGroup"
      <4>1. PICK T \in SUBSET TasksOf(j.group) :
              pod' = [u \in Tasks |-> IF u \in T /\ pod[u].phase = "none" THEN Pod(Latest(u)) ELSE pod[u]]
        BY <1>3, <3>2 DEF Refuse
      <4>2. j.group # g
        BY <1>0, <3>2 DEF EarlyJob, Concerns
      <4>3. t \notin T
        BY <3>1, <4>2 DEF TasksOf
      <4>4. QED
        BY <3>1, <4>1, <4>3
    <3>3. CASE j.type = "RescheduleTask"
      <4>1. j.task # t
        BY <1>0, <3>1, <3>3, WorkflowAssumption DEF Named, EarlyJob, Concerns
      <4>2. \E y : pod' = [pod EXCEPT ![j.task] = y]
        BY <1>3, <3>3 DEF Refuse
      <4>3. QED
        BY <1>0, <3>1, <4>1, <4>2
    <3>4. CASE j.type \notin {"CreateGroup", "RescheduleTask"}
      BY <1>3, <3>4 DEF Refuse
    <3>5. QED
      BY <3>2, <3>3, <3>4
  <2>3. QED
    BY <1>0, <2>2 DEF EarlyPods
<1>4. ASSUME NEW t \in Tasks, PodMoves(t) \/ PodEnds(t) PROVE EarlyPods(g)'
  <2>1. t \notin TasksOf(g)
    BY <1>0, <1>4 DEF EarlyPods, PodMoves, PodEnds
  <2>2. \E s : pod' = [pod EXCEPT ![t].phase = s]
    BY <1>4 DEF PodMoves, PodEnds
  <2>3. QED
    BY <1>0, <2>1, <2>2 DEF EarlyPods, TasksOf
<1>5. CASE \E w \in Workers : WorkerStep(w) \/ Crash(w)
  BY <1>0, <1>5, WorkersOnly DEF EarlyPods
<1>6. CASE PrepareCreateGroup \/ PrepareCleanupGroup \/ PrepareRescheduleTask
           \/ Execute \/ Disconnect
  BY <1>0, <1>6 DEF PrepareCreateGroup, PrepareCleanupGroup, PrepareRescheduleTask, Execute,
                    Disconnect, EarlyPods
<1>7. CASE (\E force \in CancelForms : AskCancel(force)) \/ DeleteBackend \/ UNCHANGED vars
  BY <1>0, <1>7 DEF AskCancel, DeleteBackend, vars, EarlyPods
<1>8. QED
  BY <1>2, <1>3, <1>4, <1>5, <1>6, <1>7 DEF Next, AgentStep

\* No statement that updates a task row to a failure does anything else with it.
LEMMA FailsOrStays ==
  ASSUME Shape, NEW h, NEW s \in FailedStatuses, NEW t \in Tasks, NEW r \in Retries
  PROVE  \/ BatchUpdate(h, s, None)[t][r] = rows[t][r]
         \/ BatchUpdate(h, s, None)[t][r].status \in FailedStatuses
<1>1. rows[t][r] \in Row
  BY DEF Shape, DbShape
<1>2. UpdateTaskRow(rows[t][r], s) = rows[t][r] \/ UpdateTaskRow(rows[t][r], s).status = s
  BY <1>1 DEF UpdateTaskRow, Enter, Row
<1>3. BatchUpdate(h, s, None)[t][r] \in {rows[t][r], UpdateTaskRow(rows[t][r], s)}
  BY DEF BatchUpdate
<1>4. QED
  BY <1>2, <1>3

\* A cancel and the failure of a whole group are failures.
LEMMA EndsAreFailures == Canceled \cup WholeGroup \subseteq FailedStatuses
  BY DEF Canceled, WholeGroup, FailedStatuses

\* A row of a group that waits is inserted, or it fails.
LEMMA EarlyRowMoves ==
  ASSUME NEW g \in Groups, Waits(g), [Next]_vars, ~\E w \in Workers : InsertGroups(w),
         NEW t \in TasksOf(g), NEW r \in Retries
  PROVE  rows'[t][r] = rows[t][r] \/ rows'[t][r].status \in FailedStatuses
<1> USE DEF db
<1>0. /\ t \in Tasks /\ GroupOf[t] = g
      /\ rows \in [Tasks -> [Retries -> Row]]
      /\ \A j \in queue : EarlyJob(j, g)
      /\ \A w \in Workers : EarlyWorker(worker[w], g) /\ SoundWorker(worker[w]) /\ worker[w] \in GoodWorker
  BY DEF TasksOf, Waits, Unlaunched, EarlyJobs, Shape, DbShape, Sound, WorkerShape
<1>1. ASSUME NEW w \in Workers, SetTasks(w) PROVE rows'[t] = rows[t]
  BY <1>0, <1>1 DEF SetTasks, EarlyWorker, At
<1>2. ASSUME NEW w \in Workers, Recheck(w)
      PROVE  rows'[t][r] = rows[t][r] \/ rows'[t][r].status \in FailedStatuses
  <2>1. worker[w].job.status \in FailedStatuses
    BY <1>0, <1>2, EndsAreFailures DEF Recheck, At, SoundWorker
  <2>2. UNCHANGED rows \/ rows' = BatchUpdate(worker[w].job.group, worker[w].job.status, None)
    BY <1>2 DEF Recheck
  <2>3. QED
    BY <1>0, <2>1, <2>2, FailsOrStays DEF Waits
<1>3. ASSUME NEW w \in Workers, UpdateWholeGroup(w)
      PROVE  rows'[t][r] = rows[t][r] \/ rows'[t][r].status \in FailedStatuses
  <2>1. PICK j \in queue : j.status \in FailedStatuses /\ rows' = BatchUpdate(j.group, j.status, None)
    BY <1>3, EndsAreFailures DEF UpdateWholeGroup
  <2>2. QED
    BY <1>0, <2>1, FailsOrStays DEF Waits
<1>4. ASSUME NEW w \in Workers, UpdateTaskStatus(w) \/ EndLateStart(w) PROVE rows'[t] = rows[t]
  <2>1. PICK j : UpdateTaskRowOf(w, j) /\ j.task # t
    <3>1. CASE UpdateTaskStatus(w)
      BY <1>0, <3>1 DEF UpdateTaskStatus, PerTask, EarlyJob, Concerns
    <3>2. CASE EndLateStart(w)
      <4>1. At(w, "startTimeout") /\ UpdateTaskRowOf(w, worker[w].job)
        BY <3>2 DEF EndLateStart
      <4>2. worker[w].job.task # t
        BY <1>0, <4>1, WorkflowAssumption DEF At, EarlyWorker, Concerns, UpdatingTask, GoodWorker
      <4>3. QED
        BY <4>1, <4>2
    <3>3. QED
      BY <1>4, <3>1, <3>2
  <2>2. PICK n, y : rows' = [rows EXCEPT ![j.task][n] = y]
    BY <2>1 DEF UpdateTaskRowOf
  <2>3. QED
    BY <1>0, <2>1, <2>2
<1>5. ASSUME NEW w \in Workers, UpdateSiblings(w) PROVE rows'[t] = rows[t]
  <2>1. worker[w].job.group # g
    BY <1>0, <1>5 DEF UpdateSiblings, At, EarlyWorker, Concerns, UpdatingTask
  <2>2. QED
    BY <1>0, <1>5, <2>1 DEF UpdateSiblings, BatchUpdate
<1>6. ASSUME NEW w \in Workers, InsertRetry(w) PROVE rows'[t] = rows[t]
  <2>1. worker[w].job.task # t
    BY <1>0, <1>6, WorkflowAssumption DEF InsertRetry, At, EarlyWorker, Concerns, UpdatingTask, GoodWorker
  <2>2. QED
    BY ZenonT(60), <1>0, <1>6, <2>1 DEF InsertRetry
<1>7. ASSUME NEW w \in Workers, \/ InsertWorkflow(w) \/ MarkWaiting(w) \/ CheckWaiting(w)
                                \/ LaunchDownstream(w) \/ SendCreate(w)
      PROVE  UNCHANGED rows
  BY <1>7 DEF InsertWorkflow, MarkWaiting, CheckWaiting, LaunchDownstream, SendCreate
<1>8. ASSUME NEW w \in Workers, \/ FetchCancel(w) \/ Cancel(w) \/ UpdateNoTask(w) \/ CheckStartTimeout(w)
                                \/ FailWithoutBackend(w) \/ Reread(w) \/ SendRetry(w)
      PROVE  UNCHANGED rows
  BY <1>8 DEF FetchCancel, Cancel, UpdateNoTask, CheckStartTimeout, FailWithoutBackend, Reread,
              SendRetry
<1>9. ASSUME NEW w \in Workers, Aggregate(w) \/ WriteGroup(w) \/ ReadGroups(w) \/ WriteWorkflow(w)
      PROVE  UNCHANGED rows
  BY <1>9 DEF Aggregate, WriteGroup, ReadGroups, WriteWorkflow
<1>14. ASSUME NEW w \in Workers, Finish(w) \/ ReleaseDownstream(w)
      PROVE  UNCHANGED rows
  BY <1>14 DEF Finish, ReleaseDownstream
<1>10. ASSUME NEW w \in Workers, Other(w) \/ Crash(w) PROVE UNCHANGED rows
  BY <1>10 DEF Other, CancelWorkflow, CheckQueueTimeout, CheckRunTimeout, CleanupWorkflow, Crash
<1>11. CASE PrepareCreateGroup \/ PrepareCleanupGroup \/ PrepareRescheduleTask \/ Apply
            \/ Execute \/ Refuse \/ Disconnect
  BY <1>11 DEF PrepareCreateGroup, PrepareCleanupGroup, PrepareRescheduleTask, Apply, Execute,
              Refuse, Disconnect
<1>12. CASE \/ \E u \in Tasks : PodMoves(u) \/ PodEnds(u)
            \/ \E force \in CancelForms : AskCancel(force)
            \/ DeleteBackend \/ UNCHANGED vars
  BY <1>12 DEF PodMoves, PodEnds, AskCancel, DeleteBackend, vars
<1>13. QED
  BY <1>1, <1>2, <1>3, <1>4, <1>5, <1>6, <1>7, <1>8, <1>9, <1>10, <1>11, <1>12, <1>14
     DEF Next, AgentStep, WorkerStep, Submit, Process, Update

\* A group that is not there yet is inserted with its tasks, and not otherwise.
LEMMA InsertedOnce ==
  ASSUME Shape, Sound, [Next]_vars, NEW g \in Groups, grp[g].status = Absent,
         grp'[g].status # Absent
  PROVE  \E w \in Workers : InsertGroups(w)
<1>1. Unsubmitted
  BY DEF Sound, Submitted
<1>2. QED
  BY <1>1, SubmissionIsFirst DEF Unsubmitted

\* The rows of a group that waits stay early.
LEMMA EarlyRowsStay ==
  ASSUME NEW g \in Groups, Waits(g), [Next]_vars
  PROVE  EarlyRows(g)'
<1>0. /\ Shape /\ Sound /\ EarlyRows(g) /\ 0 \in Retries
      /\ rows \in [Tasks -> [Retries -> Row]]
      /\ grp \in [Groups -> GroupRow]
  BY WorkflowAssumption DEF Waits, Unlaunched, Shape, DbShape, Retries
<1>1. Absent \notin FailedStatuses
  BY DEF Absent, FailedStatuses
<1>2. CASE \E w \in Workers : InsertGroups(w)
  <2>1. ASSUME NEW t \in TasksOf(g)
        PROVE  /\ \A r \in Retries : EarlyRow(rows'[t][r])
               /\ rows'[t][0].status # Absent
    <3>1. t \in Tasks /\ rows[t] \in [Retries -> Row] /\ \A r \in Retries : EarlyRow(rows[t][r])
      BY <1>0 DEF TasksOf, EarlyRows
    <3>2. \/ rows'[t] = rows[t] /\ rows[t][0].status # Absent
          \/ rows[t][0].status = Absent /\ rows'[t] = [rows[t] EXCEPT ![0].status = "WAITING"]
      BY <1>2, <3>1 DEF InsertGroups
    <3>3. CASE rows[t][0].status = Absent /\ rows'[t] = [rows[t] EXCEPT ![0].status = "WAITING"]
      <4>1. rows'[t][0].status = "WAITING" /\ rows'[t][0].stamps = rows[t][0].stamps
        BY <1>0, <3>1, <3>3 DEF Row
      <4>2. \A r \in Retries : r # 0 => rows'[t][r] = rows[t][r]
        BY <3>1, <3>3
      <4>3. QED
        BY <1>0, <1>1, <3>1, <3>3, <4>1, <4>2 DEF EarlyRow, Absent
    <3>4. QED
      BY <3>1, <3>2, <3>3
  <2>2. QED
    BY <2>1 DEF EarlyRows, TasksOf
<1>3. CASE ~\E w \in Workers : InsertGroups(w)
  <2>1. grp'[g].status # Absent => grp[g].status # Absent
    BY <1>0, <1>3, InsertedOnce
  <2>2. ASSUME NEW t \in TasksOf(g), NEW r \in Retries
        PROVE  /\ EarlyRow(rows'[t][r])
               /\ rows[t][r].status # Absent => rows'[t][r].status # Absent
    BY <1>0, <1>1, <1>3, EarlyRowMoves DEF EarlyRows, EarlyRow
  <2>3. QED
    BY <1>0, <2>1, <2>2 DEF EarlyRows, TasksOf
<1>4. QED
  BY <1>2, <1>3

\* Dead tasks stay dead.
LEMMA DeadStays ==
  ASSUME Shape, [Next]_vars, NEW g \in Groups, Dead(g)
  PROVE  Dead(g)'
<1>1. FailedStatuses \cap Open = {} /\ Absent \notin FailedStatuses
  BY DEF FailedStatuses, Open, Prerunning, InQueue, Prescheduling, Absent
<1>2. 0 \in Retries
  BY WorkflowAssumption DEF Retries
<1>3. ASSUME NEW t \in TasksOf(g) PROVE rows'[t][0].status \in FailedStatuses
  <2>1. t \in Tasks /\ rows[t][0].status \in FailedStatuses
    BY DEF TasksOf, Dead
  <2>2. QED
    BY <1>1, <1>2, <2>1, RowMoves DEF RowMoved
<1>4. QED
  BY <1>3 DEF Dead, TasksOf

\* A task that waits has had no retry.
LEMMA EarlyLatest ==
  ASSUME NEW g \in Groups, Waits(g), NEW t \in TasksOf(g)
  PROVE  Latest(t) = 0
<1>1. /\ t \in Tasks /\ \A r \in Retries : EarlyRow(rows[t][r])
      /\ \A r \in Retries \ {0} : rows[t][r].status # Absent => rows[t][r - 1].status = "RESCHEDULED"
  BY DEF TasksOf, Waits, Unlaunched, EarlyRows, Retried, RetriesFollowReschedule
<1>2. "RESCHEDULED" \notin FailedStatuses \cup {Absent, "WAITING"}
  BY DEF FailedStatuses, Absent
<1>3. Latest(t) \in Retries /\ (Latest(t) = 0 \/ rows[t][Latest(t)].status # Absent)
  BY LatestRetry
<1>4. Latest(t) # 0 => Latest(t) - 1 \in Retries
  BY <1>3, WorkflowAssumption DEF Retries
<1>5. QED
  BY <1>1, <1>2, <1>3, <1>4 DEF EarlyRow

\* The failure of a group that waits kills all its tasks.
LEMMA KilledTogether ==
  ASSUME NEW g \in Groups, Waits(g), grp[g].status # Absent, NEW s \in WholeGroup,
         rows' = BatchUpdate(g, s, None)
  PROVE  Dead(g)'
<1>1. ASSUME NEW t \in TasksOf(g) PROVE rows'[t][0].status \in FailedStatuses
  <2>1. /\ t \in Tasks /\ GroupOf[t] = g /\ t # None /\ 0 \in Retries
        /\ rows[t][0] \in Row
    BY WorkflowAssumption DEF TasksOf, Retries, Waits, Shape, DbShape
  <2>2. rows'[t][0] = UpdateTaskRow(rows[t][0], s)
    BY <2>1, EarlyLatest DEF BatchUpdate
  <2>3. \/ rows[t][0].status = "WAITING" /\ rows[t][0].stamps = {}
        \/ rows[t][0].status \in FailedStatuses
    BY <2>1 DEF Waits, Unlaunched, EarlyRows, EarlyRow
  <2>4. "WAITING" \in TaskSources(s) /\ s \in FailedStatuses
    BY EndsAreFailures DEF WholeGroup, TaskSources, Prerunning, InQueue, Prescheduling
  <2>5. CASE rows[t][0].status = "WAITING" /\ rows[t][0].stamps = {}
    <3>1. UpdateTaskRow(rows[t][0], s)
            = [rows[t][0] EXCEPT !.status = s, !.stamps = @ \cup {StampOf(s)}]
      BY <2>4, <2>5 DEF UpdateTaskRow, Enter
    <3>2. QED
      BY <2>1, <2>2, <2>4, <3>1 DEF Row
  <2>6. CASE rows[t][0].status \in FailedStatuses
    <3>1. UpdateTaskRow(rows[t][0], s).status \in {rows[t][0].status, s}
      BY <2>1 DEF UpdateTaskRow, Enter, Row
    <3>2. QED
      BY <2>2, <2>4, <2>6, <3>1
  <2>7. QED
    BY <2>3, <2>5, <2>6
<1>2. QED
  BY <1>1 DEF Dead, TasksOf

\* A group whose tasks all ended before they started has failed.
LEMMA DeadAggregates ==
  ASSUME NEW g \in Groups, Dead(g), \A t \in TasksOf(g) : Latest(t) = 0
  PROVE  AggregateGroup(LatestStatus(g), Considered(g)) \in FailedStatuses
<1> DEFINE st   == LatestStatus(g)
           all  == {st[t] : t \in DOMAIN st}
           some == {st[t] : t \in Considered(g)}
<1>1. Lead[g] \in Considered(g) /\ Considered(g) \subseteq TasksOf(g)
  BY WorkflowAssumption DEF Considered, TasksOf
<1>2. DOMAIN st = TasksOf(g) /\ \A t \in TasksOf(g) : st[t] \in FailedStatuses
  BY DEF LatestStatus, Dead
<1> HIDE DEF st
<1>3. all \subseteq FailedStatuses /\ some \cap FailedStatuses # {}
  BY <1>1, <1>2
<1>4. all \ GroupFinished = {}
  BY <1>3 DEF GroupFinished
<1> HIDE DEF all, some
<1>5. AggregateGroup(st, Considered(g))
        \in {"FAILED_UPSTREAM", "FAILED_SERVER_ERROR", "FAILED_PREEMPTED", "FAILED_EVICTED", "FAILED"}
  BY <1>3, <1>4 DEF AggregateGroup, all, some
<1>6. QED
  BY <1>5 DEF FailedStatuses, st

\* What a step does to the row of a group that waits: it goes on waiting, for the
\* same groups but one that has completed, or it is marked as waiting, or it fails.
LEMMA EarlyGroupMoves ==
  ASSUME NEW g \in Groups, Waits(g), [Next]_vars, ~\E w \in Workers : InsertGroups(w)
  PROVE  /\ \/ grp'[g].status = grp[g].status
            \/ grp[g].status # Absent /\ grp'[g].status \in {"WAITING"} \cup FailedStatuses
         /\ \/ grp'[g].remaining = grp[g].remaining
            \/ \E h : /\ h \in Groups /\ grp[h].status = "COMPLETED"
                      /\ grp'[g].remaining = grp[g].remaining \ {h}
<1> USE DEF db
<1> DEFINE Kept == grp'[g].status = grp[g].status /\ grp'[g].remaining = grp[g].remaining
<1>0. /\ grp \in [Groups -> GroupRow] /\ grp[g] \in GroupRow
      /\ \A w \in Workers : EarlyWorker(worker[w], g) /\ SoundWorker(worker[w])
      /\ backendUp
  BY DEF Waits, Unlaunched, Shape, DbShape, Sound
<1>1. ASSUME NEW h PROVE /\ PatchCleanedUp(h)[g].status = grp[g].status
                         /\ PatchCleanedUp(h)[g].remaining = grp[g].remaining
  <2>1. PatchCleanedUp(h)[g] \in {grp[g], [grp[g] EXCEPT !.cleaned = TRUE]}
    BY <1>0 DEF PatchCleanedUp
  <2>2. QED
    BY <1>0, <2>1 DEF GroupRow
<1>2. ASSUME NEW w \in Workers, SetGroups(w) PROVE grp'[g] = grp[g]
  BY <1>0, <1>2 DEF SetGroups, EarlyWorker
<1>3. ASSUME NEW w \in Workers, MarkWaiting(w)
      PROVE  \/ grp'[g] = grp[g]
             \/ /\ grp'[g].remaining = grp[g].remaining
                /\ grp'[g].status = "WAITING" /\ grp[g].status # Absent
  <2>1. \/ grp'[g] = grp[g]
        \/ grp[g].status = "SUBMITTING" /\ grp'[g] = [grp[g] EXCEPT !.status = "WAITING"]
    BY <1>3 DEF MarkWaiting
  <2>2. QED
    BY <1>0, <2>1 DEF GroupRow, Absent
<1>4. ASSUME NEW s \in FailedStatuses, NEW f, grp'[g] = UpdateGroupRow(grp[g], s, f)
      PROVE  \/ grp'[g] = grp[g]
             \/ /\ grp'[g].remaining = grp[g].remaining
                /\ grp'[g].status = s /\ grp[g].status # Absent
  <2>1. Absent \notin GroupSources(s, f)
    BY DEF Absent, GroupSources, Prerunning, InQueue, Prescheduling
  <2>2. QED
    BY <1>0, <1>4, <2>1 DEF UpdateGroupRow, Enter, GroupRow
<1>5. ASSUME NEW w \in Workers, Cancel(w)
      PROVE  \/ grp'[g] = grp[g]
             \/ /\ grp'[g].remaining = grp[g].remaining
                /\ grp'[g].status \in FailedStatuses /\ grp[g].status # Absent
  <2>1. worker[w].job.status \in FailedStatuses
    BY <1>0, <1>5, EndsAreFailures DEF Cancel, At, SoundWorker
  <2>2. grp'[g] = grp[g] \/ grp'[g] = UpdateGroupRow(grp[g], worker[w].job.status, worker[w].job.force)
    BY <1>0, <1>5 DEF Cancel
  <2>3. QED
    BY <1>4, <2>1, <2>2
<1>6. ASSUME NEW w \in Workers, WriteGroup(w)
      PROVE  \/ grp'[g] = grp[g]
             \/ /\ grp'[g].remaining = grp[g].remaining
                /\ grp'[g].status \in FailedStatuses /\ grp[g].status # Absent
  <2>1. worker[w].job.group = g => worker[w].new \in FailedStatuses
    BY <1>0, <1>6 DEF WriteGroup, At, EarlyWorker, Concerns
  <2>2. \/ grp'[g] = grp[g]
        \/ worker[w].job.group = g /\ grp'[g] = UpdateGroupRow(grp[g], worker[w].new, FALSE)
    BY <1>0, <1>6 DEF WriteGroup
  <2>3. QED
    BY <1>4, <2>1, <2>2
<1>7. ASSUME NEW w \in Workers, ReleaseDownstream(w)
      PROVE  /\ grp'[g].status = grp[g].status
             /\ \/ grp'[g].remaining = grp[g].remaining
                \/ \E h : /\ h \in Groups /\ grp[h].status = "COMPLETED"
                          /\ grp'[g].remaining = grp[g].remaining \ {h}
  <2> DEFINE h == worker[w].job.group
  <2>1. h \in Groups /\ grp[h].status = "COMPLETED"
    BY <1>0, <1>7 DEF ReleaseDownstream, At, SoundWorker
  <2>2. PICK d : grp' = [grp EXCEPT ![d].remaining = grp[d].remaining \ {h}]
    BY <1>7 DEF ReleaseDownstream
  <2>3. grp'[g] \in {grp[g], [grp[g] EXCEPT !.remaining = grp[g].remaining \ {h}]}
    BY <1>0, <2>2
  <2>4. QED
    BY <1>0, <2>1, <2>3 DEF GroupRow
<1>8. ASSUME NEW w \in Workers, FailWithoutBackend(w) PROVE FALSE
  BY <1>0, <1>8 DEF FailWithoutBackend, WithoutBackend
<1>9. ASSUME NEW w \in Workers, Finish(w) PROVE Kept
  BY <1>0, <1>9, BackendIsFound DEF Finish, CleanedGroups
<1>10. ASSUME NEW w \in Workers, CheckWaiting(w) \/ LaunchDownstream(w) PROVE Kept
  BY <1>2, <1>10 DEF CheckWaiting, LaunchDownstream
<1>11. ASSUME NEW w \in Workers, InsertWorkflow(w) \/ SetTasks(w) \/ SendCreate(w) PROVE UNCHANGED grp
  BY <1>11 DEF InsertWorkflow, SetTasks, SendCreate
<1>12. ASSUME NEW w \in Workers, \/ FetchCancel(w) \/ Recheck(w) \/ UpdateWholeGroup(w)
                                 \/ UpdateNoTask(w) \/ CheckStartTimeout(w)
       PROVE  UNCHANGED grp
  BY <1>12 DEF FetchCancel, Recheck, UpdateWholeGroup, UpdateNoTask, CheckStartTimeout
<1>13. ASSUME NEW w \in Workers, EndLateStart(w) \/ UpdateTaskStatus(w) \/ Reread(w) \/ UpdateSiblings(w)
       PROVE  UNCHANGED grp
  BY ZenonT(60), <1>13 DEF EndLateStart, UpdateTaskStatus, UpdateTaskRowOf, Reread, UpdateSiblings
<1>14. ASSUME NEW w \in Workers, \/ InsertRetry(w) \/ SendRetry(w) \/ Aggregate(w) \/ ReadGroups(w)
                                 \/ WriteWorkflow(w)
       PROVE  UNCHANGED grp
  BY <1>14 DEF InsertRetry, SendRetry, Aggregate, ReadGroups, WriteWorkflow
<1>15. ASSUME NEW w \in Workers, Other(w) \/ Crash(w) PROVE UNCHANGED grp
  BY <1>15 DEF Other, CancelWorkflow, CheckQueueTimeout, CheckRunTimeout, CleanupWorkflow, Crash
<1>16. CASE Execute
  BY <1>1, <1>16 DEF Execute
<1>17. CASE \/ PrepareCreateGroup \/ PrepareCleanupGroup \/ PrepareRescheduleTask \/ Apply
            \/ Refuse \/ Disconnect
  BY <1>17 DEF PrepareCreateGroup, PrepareCleanupGroup, PrepareRescheduleTask, Apply, Refuse,
               Disconnect
<1>18. CASE \/ \E u \in Tasks : PodMoves(u) \/ PodEnds(u)
            \/ \E force \in CancelForms : AskCancel(force)
            \/ DeleteBackend \/ UNCHANGED vars
  BY <1>18 DEF PodMoves, PodEnds, AskCancel, DeleteBackend, vars
<1>19. ASSUME NEW w \in Workers, WorkerStep(w) \/ Crash(w)
       PROVE  /\ \/ grp'[g].status = grp[g].status
                 \/ grp[g].status # Absent /\ grp'[g].status \in {"WAITING"} \cup FailedStatuses
              /\ \/ grp'[g].remaining = grp[g].remaining
                 \/ \E h : /\ h \in Groups /\ grp[h].status = "COMPLETED"
                           /\ grp'[g].remaining = grp[g].remaining \ {h}
  <2>1. CASE Submit(w) \/ Process(w)
    BY <1>3, <1>10, <1>11, <2>1 DEF Submit, Process
  <2>2. CASE Update(w)
    BY <1>5, <1>6, <1>7, <1>8, <1>9, <1>12, <1>13, <1>14, <2>2 DEF Update
  <2>3. CASE Other(w) \/ Crash(w)
    BY <1>15, <2>3
  <2>4. QED
    BY <1>19, <2>1, <2>2, <2>3 DEF WorkerStep
<1>20. QED
  BY <1>16, <1>17, <1>18, <1>19 DEF Next, AgentStep

\* So it is not launched and still knows what it waits for.
LEMMA EarlyGroupStays ==
  ASSUME NEW g \in Groups, Waits(g), [Next]_vars
  PROVE  EarlyGroup(g)'
<1>0. /\ Shape /\ Sound /\ EarlyGroup(g) /\ grp[g] \in GroupRow
      /\ Upstream[g] \subseteq Groups
  BY WorkflowAssumption DEF Waits, Unlaunched, Shape, DbShape
<1>1. \A u \in Upstream[g] : grp[u].status = "COMPLETED" => grp'[u].status = "COMPLETED"
  BY <1>0, CompletedStays
<1>2. ASSUME NEW w \in Workers, InsertGroups(w) PROVE EarlyGroup(g)'
  <2>1. \/ grp[g].status # Absent /\ grp'[g] = grp[g]
        \/ grp'[g] = [grp[g] EXCEPT !.status = "SUBMITTING", !.remaining = Upstream[g]]
    BY <1>2 DEF InsertGroups
  <2>2. CASE grp'[g] = [grp[g] EXCEPT !.status = "SUBMITTING", !.remaining = Upstream[g]]
    <3>1. grp'[g].status = "SUBMITTING" /\ grp'[g].remaining = Upstream[g]
      BY <1>0, <2>2 DEF GroupRow
    <3>2. QED
      BY <3>1 DEF EarlyGroup, Launched
  <2>3. QED
    BY <1>0, <1>1, <2>1, <2>2 DEF EarlyGroup
<1>3. CASE ~\E w \in Workers : InsertGroups(w)
  <2>1. /\ \/ grp'[g].status = grp[g].status
           \/ grp[g].status # Absent /\ grp'[g].status \in {"WAITING"} \cup FailedStatuses
        /\ \/ grp'[g].remaining = grp[g].remaining
           \/ \E h : /\ h \in Groups /\ grp[h].status = "COMPLETED"
                     /\ grp'[g].remaining = grp[g].remaining \ {h}
    BY <1>3, EarlyGroupMoves
  <2>2. Launched \cap ({"WAITING"} \cup FailedStatuses) = {}
    BY DEF Launched, FailedStatuses
  <2>3. grp'[g].status \notin Launched
    BY <1>0, <2>1, <2>2 DEF EarlyGroup
  <2>4. ASSUME grp'[g].status # Absent, NEW u \in Upstream[g]
        PROVE  u \in grp'[g].remaining \/ grp'[u].status = "COMPLETED"
    BY <1>0, <1>1, <2>1, <2>4 DEF EarlyGroup
  <2>5. QED
    BY <2>3, <2>4 DEF EarlyGroup
<1>4. QED
  BY <1>2, <1>3

\* The steps of a worker that leave it with nothing of a group that waits but a
\* job that ends it.
Harmless(y, g) ==
  /\ EarlyJob(y.job, g) /\ g \notin y.ready /\ y.pc # "markWaiting"
  /\ y.pc \in {"setTasks", "sendCreate"} => g \notin y.todo
  /\ Concerns(y.job, g) => y.pc \notin UpdatingTask \cup {"aggregate", "writeGroup"}

\* A harmless worker is an early one.
LEMMA HarmlessIsEarly ==
  ASSUME NEW g \in Groups, NEW v \in Workers, Harmless(worker'[v], g)
  PROVE  EarlyWorker(worker[v], g)'
  BY DEF Harmless, EarlyWorker

\* A worker that is done, starts a job or goes on with the one it has.
LEMMA EarlyBasics ==
  ASSUME NEW g \in Groups, Waits(g), NEW w \in Workers
  PROVE  /\ Done(w) => Harmless(worker'[w], g)
         /\ \A j, p, s : /\ Start(w, j, p, s) /\ EarlyJob(j, g)
                         /\ p \notin {"markWaiting"}
                         /\ ~Concerns(j, g) \/ p \notin UpdatingTask \cup {"aggregate", "writeGroup"}
                         => Harmless(worker'[w], g)
         /\ \A p : /\ Goto(w, p) /\ p # "markWaiting"
                   /\ p \in {"setTasks", "sendCreate"} => g \notin worker[w].todo
                   /\ Concerns(worker[w].job, g) => p \notin UpdatingTask \cup {"aggregate", "writeGroup"}
                   => Harmless(worker'[w], g)
<1>0. Shape /\ EarlyWorker(worker[w], g) /\ EarlyJob(NoJob, g)
  BY EarlyMade DEF Waits, Unlaunched
<1>1. Done(w) => Harmless(worker'[w], g)
  <2>1. ASSUME Done(w) PROVE Harmless(worker'[w], g)
    <3>1. /\ worker'[w].pc = "idle" /\ worker'[w].job = NoJob /\ worker'[w].ready = {}
      BY <1>0, <2>1, DoneGives
    <3>2. QED
      BY <1>0, <3>1 DEF Harmless, UpdatingTask
  <2>2. QED
    BY <2>1
<1>2. ASSUME NEW j, NEW p, NEW s, Start(w, j, p, s), EarlyJob(j, g), p \notin {"markWaiting"},
             ~Concerns(j, g) \/ p \notin UpdatingTask \cup {"aggregate", "writeGroup"}
      PROVE  Harmless(worker'[w], g)
  <2>1. /\ worker'[w].pc = p /\ worker'[w].job = j /\ worker'[w].ready = {} /\ worker'[w].todo = {}
    BY <1>0, <1>2, StartGives
  <2>2. QED
    BY <1>2, <2>1 DEF Harmless
<1>3. ASSUME NEW p, Goto(w, p), p # "markWaiting",
             p \in {"setTasks", "sendCreate"} => g \notin worker[w].todo,
             Concerns(worker[w].job, g) => p \notin UpdatingTask \cup {"aggregate", "writeGroup"}
      PROVE  Harmless(worker'[w], g)
  <2>1. /\ worker'[w].pc = p /\ worker'[w].job = worker[w].job
        /\ worker'[w].ready = worker[w].ready /\ worker'[w].todo = worker[w].todo
    BY <1>0, <1>3, GotoGives
  <2>2. QED
    BY <1>0, <1>3, <2>1 DEF Harmless, EarlyWorker
<1>4. QED
  BY <1>1, <1>2, <1>3

\* The submission and the launch of other groups.
LEMMA EarlySubmit ==
  ASSUME NEW g \in Groups, Waits(g), ~Ready(g), NEW w \in Workers, Submit(w) \/ Process(w)
  PROVE  EarlyWorker(worker[w], g)'
<1> USE DEF cluster
<1> DEFINE x == worker[w]
           y == worker'[w]
<1>0. /\ Shape /\ EarlyWorker(x, g) /\ worker \in [Workers -> Worker] /\ x \in Worker
      /\ \A j \in queue : EarlyJob(j, g)
      /\ grp \in [Groups -> GroupRow] /\ grp[g] \in GroupRow
      /\ EarlyGroup(g) /\ backendUp
  BY DEF Waits, Unlaunched, EarlyJobs, Shape, WorkerShape, GoodWorker, DbShape
<1>1. CASE InsertWorkflow(w)
  <2>1. PICK j \in queue : Start(w, j, "insertGroups", Absent)
    BY <1>1 DEF InsertWorkflow
  <2>2. Harmless(y, g)
    BY <1>0, <2>1, EarlyBasics DEF UpdatingTask
  <2>3. QED
    BY <2>2, HarmlessIsEarly
<1>2. CASE InsertGroups(w)
  <2>1. /\ y.pc = "markWaiting" /\ y.job = x.job /\ y.ready = x.ready
    BY <1>0, <1>2, GotoGives DEF InsertGroups
  <2>2. grp'[g].status # Absent
    <3>1. \/ grp[g].status # Absent /\ grp'[g] = grp[g]
          \/ grp'[g] = [grp[g] EXCEPT !.status = "SUBMITTING", !.remaining = Upstream[g]]
      BY <1>2 DEF InsertGroups
    <3>2. QED
      BY <1>0, <3>1 DEF GroupRow, Absent
  <2>3. QED
    BY <1>0, <2>1, <2>2 DEF EarlyWorker, UpdatingTask
<1>3. CASE MarkWaiting(w)
  <2>1. y = [x EXCEPT !.pc = "checkWaiting", !.ready = {h \in Groups : grp[h].remaining = {}}]
    BY <1>0, <1>3 DEF MarkWaiting
  <2>2. /\ y.pc = "checkWaiting" /\ y.job = x.job
        /\ y.ready = {h \in Groups : grp[h].remaining = {}}
    BY <1>0, <2>1 DEF Worker
  <2>3. grp[g].remaining # {}
    <3>1. grp[g].status # Absent
      BY <1>0, <1>3 DEF MarkWaiting, At, EarlyWorker
    <3>2. QED
      BY <1>0, <3>1 DEF EarlyGroup, Ready
  <2>4. Harmless(y, g)
    BY <1>0, <2>2, <2>3 DEF Harmless, EarlyWorker, UpdatingTask
  <2>5. QED
    BY <2>4, HarmlessIsEarly
<1>4. CASE CheckWaiting(w) \/ LaunchDownstream(w)
  <2>1. Done(w) \/ SetGroups(w)
    BY <1>4 DEF CheckWaiting, LaunchDownstream
  <2>2. \/ Done(w)
        \/ /\ y.pc = "setTasks" /\ y.ready = {} /\ y.todo \subseteq x.ready /\ y.job = x.job
    BY <1>0, <2>1, SetGives
  <2>3. Harmless(y, g)
    BY <1>0, <2>2, EarlyBasics DEF Harmless, EarlyWorker, UpdatingTask
  <2>4. QED
    BY <2>3, HarmlessIsEarly
<1>5. CASE SetTasks(w)
  <2>1. Goto(w, "sendCreate") /\ g \notin x.todo
    BY <1>0, <1>5 DEF SetTasks, At, EarlyWorker
  <2>2. Harmless(y, g)
    BY <2>1, EarlyBasics DEF UpdatingTask
  <2>3. QED
    BY <2>2, HarmlessIsEarly
<1>6. CASE SendCreate(w)
  <2>1. Done(w) \/ \E h : y = [x EXCEPT !.todo = @ \ {h}]
    <3>1. Done(w) \/ \E h : worker' = [worker EXCEPT ![w].todo = @ \ {h}]
      BY <1>6 DEF SendCreate
    <3>2. QED
      BY <1>0, <3>1
  <2>2. \/ Done(w)
        \/ /\ y.pc = x.pc /\ y.job = x.job /\ y.ready = x.ready /\ y.todo \subseteq x.todo
    BY <1>0, <2>1 DEF Worker
  <2>3. x.pc = "sendCreate" /\ g \notin x.todo
    BY <1>0, <1>6 DEF SendCreate, At, EarlyWorker
  <2>4. Harmless(y, g)
    BY <1>0, <2>2, <2>3, EarlyBasics DEF Harmless, EarlyWorker, UpdatingTask
  <2>5. QED
    BY <2>4, HarmlessIsEarly
<1>7. QED
  BY <1>1, <1>2, <1>3, <1>4, <1>5, <1>6 DEF Submit, Process

\* Updating a group, up to the status of its own row.
LEMMA EarlyUpdate ==
  ASSUME NEW g \in Groups, Waits(g), NEW w \in Workers, [Next]_vars,
         \/ FetchCancel(w) \/ Cancel(w) \/ Recheck(w) \/ UpdateWholeGroup(w) \/ UpdateNoTask(w)
         \/ CheckStartTimeout(w) \/ EndLateStart(w) \/ UpdateTaskStatus(w) \/ FailWithoutBackend(w)
         \/ Reread(w) \/ UpdateSiblings(w) \/ InsertRetry(w) \/ SendRetry(w) \/ Aggregate(w)
  PROVE  EarlyWorker(worker[w], g)'
<1> USE DEF cluster
<1> DEFINE x == worker[w]
           y == worker'[w]
<1>0. /\ Shape /\ EarlyWorker(x, g) /\ worker \in [Workers -> Worker] /\ x \in Worker
      /\ \A j \in queue : EarlyJob(j, g)
      /\ backendUp /\ SoundWorker(x)
  BY DEF Waits, Unlaunched, EarlyJobs, Shape, WorkerShape, GoodWorker, Sound
<1>1. ASSUME Harmless(y, g) PROVE EarlyWorker(worker[w], g)'
  BY <1>1, HarmlessIsEarly
<1>2. CASE FetchCancel(w)
  <2>1. PICK j \in queue : Start(w, j, "cancel", j.status)
    BY <1>2 DEF FetchCancel
  <2>2. Harmless(y, g)
    BY <1>0, <2>1, EarlyBasics DEF UpdatingTask
  <2>3. QED
    BY <1>1, <2>2
<1>3. CASE Cancel(w)
  <2>1. Goto(w, "recheck")
    BY <1>3 DEF Cancel
  <2>2. QED
    BY <1>1, <2>1, EarlyBasics DEF UpdatingTask
<1>4. CASE Recheck(w)
  <2>1. Done(w) \/ y = [x EXCEPT !.pc = "writeGroup", !.new = x.job.status]
    BY <1>0, <1>4 DEF Recheck
  <2>2. x.job.status \in FailedStatuses
    BY <1>0, <1>4, EndsAreFailures DEF Recheck, At, SoundWorker
  <2>3. \/ Done(w)
        \/ /\ y.pc = "writeGroup" /\ y.new = x.job.status /\ y.job = x.job
           /\ y.ready = x.ready /\ y.todo = x.todo
    BY <1>0, <2>1 DEF Worker
  <2>4. CASE y.pc = "writeGroup" /\ y.new = x.job.status /\ y.job = x.job
             /\ y.ready = x.ready /\ y.todo = x.todo
    BY <1>0, <2>2, <2>4 DEF EarlyWorker, UpdatingTask
  <2>5. QED
    BY <1>1, <2>3, <2>4, EarlyBasics
<1>5. CASE UpdateWholeGroup(w)
  <2>1. PICK j \in queue : /\ j.type = "UpdateGroup" /\ j.status \in WholeGroup
                           /\ Start(w, j, "aggregate", j.status)
                           /\ rows' = BatchUpdate(j.group, j.status, None)
    BY <1>5 DEF UpdateWholeGroup
  <2>2. /\ y.pc = "aggregate" /\ y.job = j /\ y.eff = j.status /\ y.ready = {} /\ y.todo = {}
    BY <1>0, <2>1, StartGives
  <2>3. Concerns(j, g) => Dead(g)'
    <3>1. SUFFICES ASSUME Concerns(j, g) PROVE Dead(g)'
      OBVIOUS
    <3>2. j.group = g
      BY <1>0, <2>1, <3>1 DEF EarlyJob
    <3>3. grp[g].status # Absent
      BY <2>1 DEF Waits, Sound, Submitted, Unsubmitted
    <3>4. QED
      BY <2>1, <3>2, <3>3, KilledTogether
  <2>4. QED
    BY <1>0, <2>1, <2>2, <2>3, EndsAreFailures DEF EarlyWorker, UpdatingTask
<1>6. CASE UpdateNoTask(w)
  <2>1. PICK j \in queue : /\ j.type = "UpdateGroup" /\ j.status \notin Canceled \cup WholeGroup
                           /\ Start(w, j, "aggregate", j.status)
    BY <1>6 DEF UpdateNoTask
  <2>2. ~Concerns(j, g) /\ EarlyJob(j, g)
    BY <1>0, <2>1 DEF EarlyJob
  <2>3. Harmless(y, g)
    BY <2>1, <2>2, EarlyBasics
  <2>4. QED
    BY <1>1, <2>3
<1>7. CASE CheckStartTimeout(w)
  <2>1. PICK j \in queue : PerTask(j) /\ (Start(w, j, "startTimeout", j.status) \/ UNCHANGED worker)
    BY <1>7 DEF CheckStartTimeout
  <2>2. ~Concerns(j, g) /\ EarlyJob(j, g)
    BY <1>0, <2>1 DEF EarlyJob, PerTask
  <2>3. CASE Start(w, j, "startTimeout", j.status)
    <3>1. Harmless(y, g)
      BY <2>2, <2>3, EarlyBasics
    <3>2. QED
      BY <1>1, <3>1
  <2>4. CASE UNCHANGED worker
    <3>1. x.pc = "idle"
      BY <1>7 DEF CheckStartTimeout, Free
    <3>2. Harmless(x, g)
      BY <1>0, <3>1 DEF Harmless, EarlyWorker, UpdatingTask
    <3>3. QED
      BY <1>1, <2>4, <3>2
  <2>5. QED
    BY <2>1, <2>3, <2>4
<1>8. CASE EndLateStart(w) \/ UpdateTaskStatus(w)
  <2>1. PICK j : UpdateTaskRowOf(w, j) /\ ~Concerns(j, g)
    <3>1. CASE UpdateTaskStatus(w)
      BY <1>0, <3>1 DEF UpdateTaskStatus, PerTask, EarlyJob
    <3>2. CASE EndLateStart(w)
      BY <1>0, <3>2 DEF EndLateStart, At, EarlyWorker, UpdatingTask
    <3>3. QED
      BY <1>8, <3>1, <3>2
  <2>2. /\ y.pc = "reread" /\ y.job = j /\ y.todo = {} /\ y.ready = {}
    BY <1>0, <2>1, TaskRowGives
  <2>3. Harmless(y, g)
    BY <2>1, <2>2 DEF Harmless, EarlyJob
  <2>4. QED
    BY <1>1, <2>3
<1>9. CASE FailWithoutBackend(w)
  BY <1>0, <1>9 DEF FailWithoutBackend, WithoutBackend
<1>10. CASE Reread(w) \/ UpdateSiblings(w) \/ InsertRetry(w) \/ SendRetry(w)
  <2>1. /\ Done(w) \/ \E p \in {"insertRetry", "siblings", "aggregate", "sendRetry"} : Goto(w, p)
        /\ x.pc \in UpdatingTask
    <3>1. CASE Reread(w)
      BY <3>1 DEF Reread, At, UpdatingTask
    <3>2. CASE UpdateSiblings(w) \/ InsertRetry(w) \/ SendRetry(w)
      BY <3>2 DEF UpdateSiblings, InsertRetry, SendRetry, At, UpdatingTask
    <3>3. QED
      BY <1>10, <3>1, <3>2
  <2>2. ~Concerns(x.job, g)
    BY <1>0, <2>1 DEF EarlyWorker
  <2>3. Harmless(y, g)
    BY <2>1, <2>2, EarlyBasics
  <2>4. QED
    BY <1>1, <2>3
<1>11. CASE Aggregate(w)
  <2> DEFINE self == IF x.eff = "RESCHEDULED" THEN "RUNNING" ELSE x.eff
             new  == IF self \in InQueue THEN self
                     ELSE AggregateGroup(LatestStatus(x.job.group), Considered(x.job.group))
  <2>1. y = [x EXCEPT !.pc = "writeGroup", !.eff = self, !.new = new, !.clocks = {}]
    BY <1>0, <1>11 DEF Aggregate
  <2>2. Concerns(x.job, g) => new \in FailedStatuses
    <3>1. SUFFICES ASSUME Concerns(x.job, g) PROVE new \in FailedStatuses
      OBVIOUS
    <3>2. x.job.group = g /\ x.eff \in FailedStatuses /\ Dead(g)
      BY <1>0, <1>11, <3>1 DEF Aggregate, At, EarlyWorker, EarlyJob
    <3>3. FailedStatuses \cap (InQueue \cup {"RESCHEDULED"}) = {}
      BY DEF FailedStatuses, InQueue, Prescheduling
    <3>4. AggregateGroup(LatestStatus(g), Considered(g)) \in FailedStatuses
      BY <3>2, DeadAggregates, EarlyLatest
    <3>5. QED
      BY <3>2, <3>3, <3>4
  <2> HIDE DEF new, self
  <2>3. /\ y.pc = "writeGroup" /\ y.new = new /\ y.job = x.job
        /\ y.ready = x.ready /\ y.todo = x.todo
    BY <1>0, <2>1 DEF Worker
  <2>4. QED
    BY <1>0, <2>2, <2>3 DEF EarlyWorker, UpdatingTask
<1>12. QED
  BY <1>2, <1>3, <1>4, <1>5, <1>6, <1>7, <1>8, <1>9, <1>10, <1>11

\* The rest of an update, the other jobs and a crash.
LEMMA EarlyRelease ==
  ASSUME NEW g \in Groups, Waits(g), ~Ready(g), NEW w \in Workers,
         \/ WriteGroup(w) \/ ReadGroups(w) \/ WriteWorkflow(w) \/ Finish(w) \/ ReleaseDownstream(w)
         \/ Other(w) \/ Crash(w)
  PROVE  EarlyWorker(worker[w], g)'
<1> DEFINE x == worker[w]
           y == worker'[w]
<1>0. /\ Shape /\ EarlyWorker(x, g) /\ worker \in [Workers -> Worker] /\ x \in Worker
      /\ EarlyGroup(g) /\ backendUp /\ SoundWorker(x)
      /\ x.pc # "idle" => grp[g].status # Absent \/ x.pc = "insertGroups"
  BY DEF Waits, Unlaunched, Shape, WorkerShape, GoodWorker, Sound, Submitted, Unsubmitted
<1>1. ASSUME Harmless(y, g) PROVE EarlyWorker(worker[w], g)'
  BY <1>1, HarmlessIsEarly
<1>2. CASE WriteGroup(w) \/ ReadGroups(w) \/ WriteWorkflow(w)
  <2>2. \/ y = [x EXCEPT !.pc = "readGroups", !.new = Absent]
        \/ y = [x EXCEPT !.pc = "writeWorkflow", !.new = AggregateWorkflow(GroupStatuses)]
        \/ y = [x EXCEPT !.pc = "finish", !.new = Absent]
    BY <1>0, <1>2 DEF WriteGroup, ReadGroups, WriteWorkflow
  <2>3. /\ y.pc \in {"readGroups", "writeWorkflow", "finish"}
        /\ y.job = x.job /\ y.ready = x.ready
    BY <1>0, <2>2 DEF Worker
  <2>4. Harmless(y, g)
    BY <1>0, <2>3 DEF Harmless, EarlyWorker, UpdatingTask
  <2>5. QED
    BY <1>1, <2>4
<1>3. CASE Finish(w)
  <2>1. \/ Done(w)
        \/ worker' = [worker EXCEPT ![w].pc = "downstream", ![w].todo = Downstream(x.job.group)]
    BY <1>3 DEF Finish
  <2>2. \/ Done(w)
        \/ y = [x EXCEPT !.pc = "downstream", !.todo = Downstream(x.job.group)]
    BY <1>0, <2>1
  <2>3. \/ Done(w)
        \/ y.pc = "downstream" /\ y.job = x.job /\ y.ready = x.ready
    BY <1>0, <2>2 DEF Worker
  <2>4. Harmless(y, g)
    BY <1>0, <2>3, EarlyBasics DEF Harmless, EarlyWorker, UpdatingTask
  <2>5. QED
    BY <1>1, <2>4
<1>4. CASE ReleaseDownstream(w)
  <2> DEFINE h == x.job.group
             R(d) == x.ready \cup {z \in {d} : grp[d].remaining \ {h} = {}}
  <2>1. x.pc = "downstream" /\ grp[h].status = "COMPLETED"
    BY <1>0, <1>4 DEF ReleaseDownstream, At, SoundWorker
  <2>2. \E d : \/ Done(w)
               \/ worker' = [worker EXCEPT ![w].todo = @ \ {d}, ![w].ready = R(d)]
               \/ worker' = [worker EXCEPT ![w].pc = "setGroups", ![w].todo = {}, ![w].ready = R(d)]
    BY <1>4 DEF ReleaseDownstream
  <2>3. \A d : g \notin R(d)
    <3>1. grp[g].remaining \ {h} # {}
      BY <1>0, <2>1 DEF EarlyGroup, Ready
    <3>2. QED
      BY <1>0, <3>1 DEF EarlyWorker
  <2> HIDE DEF R
  <2>4. PICK d : \/ Done(w)
                 \/ worker' = [worker EXCEPT ![w].todo = @ \ {d}, ![w].ready = R(d)]
                 \/ worker' = [worker EXCEPT ![w].pc = "setGroups", ![w].todo = {}, ![w].ready = R(d)]
    BY <2>2
  <2>5. \/ Done(w)
        \/ y = [x EXCEPT !.todo = @ \ {d}, !.ready = R(d)]
        \/ y = [x EXCEPT !.pc = "setGroups", !.todo = {}, !.ready = R(d)]
    BY <1>0, <2>4
  <2>6. \/ Done(w)
        \/ y.pc \in {"downstream", "setGroups"} /\ y.job = x.job /\ y.ready = R(d)
    BY <1>0, <2>1, <2>5 DEF Worker
  <2>7. Harmless(y, g)
    BY <1>0, <2>3, <2>6, EarlyBasics DEF Harmless, EarlyWorker, UpdatingTask
  <2>8. QED
    BY <1>1, <2>7
<1>5. CASE Other(w)
  <2>1. y = x /\ x.pc = "idle"
    BY <1>5 DEF Other, CancelWorkflow, CheckQueueTimeout, CheckRunTimeout, CleanupWorkflow, Free
  <2>2. Harmless(x, g)
    BY <1>0, <2>1 DEF Harmless, EarlyWorker, UpdatingTask
  <2>3. QED
    BY <1>1, <2>1, <2>2
<1>6. CASE Crash(w)
  <2>1. Done(w)
    BY <1>6 DEF Crash
  <2>2. QED
    BY <1>1, <2>1, EarlyBasics
<1>7. QED
  BY <1>2, <1>3, <1>4, <1>5, <1>6

\* A worker that does not move is as early as before.
LEMMA EarlyWaits ==
  ASSUME NEW g \in Groups, Waits(g), [Next]_vars, NEW v \in Workers, worker'[v] = worker[v]
  PROVE  EarlyWorker(worker[v], g)'
<1>1. EarlyWorker(worker[v], g) /\ Shape /\ Sound
  BY DEF Waits, Unlaunched
<1>2. QED
  BY <1>1, GroupsStay, DeadStays DEF EarlyWorker

\* Nothing is launched for a group that waits.
LEMMA WaitingGoesOn ==
  ASSUME NEW g \in Groups, Waits(g), ~Ready(g), [Next]_vars
  PROVE  Unlaunched(g)'
<1>0. Shape
  BY DEF Waits
<1>1. ASSUME NEW v \in Workers PROVE EarlyWorker(worker[v], g)'
  <2>1. CASE worker'[v] = worker[v]
    BY <2>1, EarlyWaits
  <2>2. CASE WorkerStep(v) \/ Crash(v)
    BY <2>2, EarlySubmit, EarlyUpdate, EarlyRelease DEF WorkerStep, Update
  <2>3. QED
    BY <1>0, <2>1, <2>2, OthersStay, WorkersStay
<1>2. QED
  BY <1>1, EarlyGroupStays, EarlyRowsStay, EarlyPodsStay, EarlyJobsStay DEF Unlaunched

\* No step disturbs the order.
LEMMA OrderedStays ==
  ASSUME Shape, Sound, Retried, Ordered, [Next]_vars
  PROVE  Ordered'
<1>1. backendUp' => backendUp
  <2>1. CASE \E w \in Workers : WorkerStep(w) \/ Crash(w)
    BY <2>1, WorkersOnly DEF cluster
  <2>2. CASE PrepareCreateGroup \/ PrepareCleanupGroup \/ PrepareRescheduleTask \/ Apply
             \/ Execute \/ Refuse \/ Disconnect
    BY <2>2 DEF PrepareCreateGroup, PrepareCleanupGroup, PrepareRescheduleTask, Apply, Execute,
                Refuse, Disconnect
  <2>3. CASE \/ \E t \in Tasks : PodMoves(t) \/ PodEnds(t)
             \/ \E force \in CancelForms : AskCancel(force)
             \/ DeleteBackend \/ UNCHANGED vars
    BY <2>3 DEF PodMoves, PodEnds, AskCancel, DeleteBackend, vars, cluster
  <2>4. QED
    BY <2>1, <2>2, <2>3 DEF Next, AgentStep
<1>2. ASSUME backendUp', NEW g \in Groups PROVE Ready(g)' \/ Unlaunched(g)'
  <2>1. CASE Ready(g)
    BY <2>1, CompletedStays, WorkflowAssumption DEF Ready
  <2>2. CASE ~Ready(g)
    BY <1>1, <1>2, <2>2, WaitingGoesOn DEF Ordered, Waits
  <2>3. QED
    BY <2>1, <2>2
<1>3. QED
  BY <1>2 DEF Ordered

\* While the backend is there, no group is launched and none of its pods exists
\* before all its upstream groups have completed: however many workers release,
\* cancel, retry or crash, and however often a job is delivered.
THEOREM StartsInOrder == Spec => []StartsAfterUpstream
<1>1. Shape /\ Sound /\ Retried /\ Ordered /\ [Next]_vars => Ordered'
  BY OrderedStays
<1>2. Shape /\ Shape' /\ Retried /\ [Next]_vars => Retried'
  BY RetriedStays
<1>3. Ordered => StartsAfterUpstream
  BY WorkflowAssumption DEF Ordered, StartsAfterUpstream, Ready, Unlaunched, EarlyGroup, EarlyPods
<1>4. QED
  BY <1>1, <1>2, <1>3, InitOrdered, InitRetried, ShapeInvariant, SoundInvariant, PTL DEF Spec

-----------------------------------------------------------------------------
(***************************************************************************)
(* A group that has completed ran.  A worker that is about to write        *)
(* COMPLETED has seen the tasks that count completed, and a task whose     *)
(* latest row has completed gets no other: neither is undone before the    *)
(* write, or after it.                                                     *)
(***************************************************************************)
Ran(g) == \A t \in Considered(g) : rows[t][Latest(t)].status = "COMPLETED"

RanWorker(x) ==
  x.pc = "writeGroup" /\ x.new = "COMPLETED" /\ x.job.group \in Groups => Ran(x.job.group)

Honest == CompletedGroupsRan /\ \A v \in Workers : RanWorker(worker[v])

\* LatestRetry, for every task.
LatestKnown ==
  \A t \in Tasks : /\ Latest(t) \in Retries
                   /\ Latest(t) = 0 \/ rows[t][Latest(t)].status # Absent
                   /\ \A q \in Retries : q > Latest(t) => rows[t][q].status = Absent

\* At the start no group has completed.
LEMMA InitHonest == Init => Honest
  BY DEF Init, Honest, CompletedGroupsRan, RanWorker, Idle, Absent

\* A task whose latest row has completed gets no retry.
LEMMA CompletedIsLatest ==
  ASSUME Shape, Retried, LatestKnown, LatestKnown', [Next]_vars, NEW t \in Tasks,
         rows[t][Latest(t)].status = "COMPLETED"
  PROVE  rows'[t][Latest(t)'].status = "COMPLETED"
<1> DEFINE r == Latest(t)
           n == Latest(t)'
<1>0. /\ MaxRetry \in Nat /\ r \in Retries /\ n \in Retries
      /\ \A q \in Retries : q > r => rows[t][q].status = Absent
      /\ n = 0 \/ rows'[t][n].status # Absent
      /\ \A q \in Retries : q > n => rows'[t][q].status = Absent
  BY WorkflowAssumption DEF LatestKnown
<1> HIDE DEF r, n
<1>1. "COMPLETED" \notin Open \cup {Absent, "RESCHEDULED"} /\ Absent \notin Open
      /\ Absent # "RESCHEDULED"
  BY DEF Open, Prerunning, InQueue, Prescheduling, Absent
<1>2. rows[t][r].status = "COMPLETED"
  BY DEF r
<1>3. rows'[t][r].status = "COMPLETED"
  BY <1>0, <1>1, <1>2, RowMoves DEF RowMoved
<1>4. ASSUME NEW q \in Retries, q > r PROVE rows'[t][q].status = Absent
  <2>1. rows[t][q].status = Absent /\ q # 0
    BY <1>0, <1>4 DEF Retries
  <2>2. SUFFICES ASSUME rows'[t][q].status # Absent PROVE FALSE
    OBVIOUS
  <2>3. PICK w \in Workers : RowMoved(t, q, w)
    BY <2>1, <2>2, RowMoves
  <2>4. At(w, "insertRetry") /\ worker[w].job.task = t /\ worker[w].job.retry + 1 = q
    BY <1>1, <2>1, <2>2, <2>3 DEF RowMoved
  <2>5. worker[w].job.retry = q - 1 /\ q - 1 \in Retries /\ q - 1 >= r
    <3>1. worker[w].job.retry \in Nat
      BY DEF Shape, WorkerShape, GoodWorker, Worker, Job
    <3>2. QED
      BY <1>0, <1>4, <2>1, <2>4, <3>1 DEF Retries
  <2>6. rows[t][q - 1].status = "RESCHEDULED"
    BY <2>4, <2>5 DEF Retried, RetryingWorker, At
  <2>7. q - 1 = r \/ rows[t][q - 1].status = Absent
    BY <1>0, <2>5 DEF Retries
  <2>8. QED
    BY <1>1, <1>2, <2>6, <2>7
<1>5. n = r
  <2>1. ~(n > r)
    BY <1>0, <1>4 DEF Retries
  <2>2. ~(r > n)
    BY <1>0, <1>1, <1>3
  <2>3. QED
    BY <1>0, <2>1, <2>2 DEF Retries
<1>6. QED
  BY <1>3, <1>5 DEF n

\* So a group that has run has run for good.
LEMMA RanStays ==
  ASSUME Shape, Retried, LatestKnown, LatestKnown', [Next]_vars, NEW g \in Groups, Ran(g)
  PROVE  Ran(g)'
<1>1. Considered(g) \subseteq Tasks
  BY WorkflowAssumption DEF Considered, TasksOf
<1>2. ASSUME NEW t \in Considered(g) PROVE rows'[t][Latest(t)'].status = "COMPLETED"
  BY <1>1, CompletedIsLatest DEF Ran
<1>3. QED
  BY <1>2 DEF Ran, Considered, TasksOf

\* A group adds up to COMPLETED only if it ran.
LEMMA CompletedAggregates ==
  ASSUME NEW g \in Groups, AggregateGroup(LatestStatus(g), Considered(g)) = "COMPLETED"
  PROVE  Ran(g)
<1> DEFINE st   == LatestStatus(g)
           some == {st[t] : t \in Considered(g)}
<1>1. Considered(g) \subseteq TasksOf(g)
  BY WorkflowAssumption DEF Considered, TasksOf
<1>2. \A t \in TasksOf(g) : st[t] = rows[t][Latest(t)].status
  BY DEF LatestStatus
<1> HIDE DEF st
<1>3. some = {"COMPLETED"}
  BY DEF AggregateGroup, st
<1>4. \A t \in Considered(g) : st[t] = "COMPLETED"
  BY <1>3
<1>5. QED
  BY <1>1, <1>2, <1>4 DEF Ran

\* Who may be about to write COMPLETED has seen it.
LEMMA RanWorkers ==
  ASSUME Shape, Sound, [Next]_vars, NEW v \in Workers, worker'[v] # worker[v],
         worker'[v].pc = "writeGroup", worker'[v].new = "COMPLETED", worker'[v].job.group \in Groups
  PROVE  Ran(worker'[v].job.group)
<1> DEFINE x == worker[v]
           y == worker'[v]
<1> USE DEF cluster
<1>0. worker \in [Workers -> Worker] /\ x \in Worker /\ SoundWorker(x)
  BY DEF Shape, WorkerShape, GoodWorker, Sound
<1>1. WorkerStep(v) \/ Crash(v)
  BY OthersStay, WorkersStay
<1>2. Loads(v)
  BY <1>1, UnloadedMoves DEF Loaded
<1>3. CASE FetchCancel(v) \/ Cancel(v) \/ Reread(v)
  <2>1. \/ \E j : Start(v, j, "cancel", j.status)
        \/ Done(v)
        \/ \E p \in {"recheck", "insertRetry", "siblings", "aggregate"} : Goto(v, p)
    <3>1. CASE FetchCancel(v)
      BY <3>1 DEF FetchCancel
    <3>2. CASE Cancel(v) \/ Reread(v)
      BY <3>2 DEF Cancel, Reread
    <3>3. QED
      BY <1>3, <3>1, <3>2
  <2>2. y.pc # "writeGroup"
    BY <2>1, StartGives, DoneGives, GotoGives
  <2>3. QED
    BY <2>2
<1>4. CASE Recheck(v)
  <2>1. Done(v) \/ y = [x EXCEPT !.pc = "writeGroup", !.new = x.job.status]
    BY <1>0, <1>4 DEF Recheck
  <2>2. y.pc = "idle" \/ y.new = x.job.status
    BY <1>0, <2>1, DoneGives DEF Worker
  <2>3. x.job.status # "COMPLETED"
    BY <1>0, <1>4 DEF Recheck, At, SoundWorker, Canceled
  <2>4. QED
    BY <2>2, <2>3
<1>5. CASE ReadGroups(v)
  <2>1. y = [x EXCEPT !.pc = "writeWorkflow", !.new = AggregateWorkflow(GroupStatuses)]
    BY <1>0, <1>5 DEF ReadGroups
  <2>2. y.pc = "writeWorkflow"
    BY <1>0, <2>1 DEF Worker
  <2>3. QED
    BY <2>2
<1>6. CASE Aggregate(v)
  <2> DEFINE g    == x.job.group
             self == IF x.eff = "RESCHEDULED" THEN "RUNNING" ELSE x.eff
             new  == IF self \in InQueue THEN self
                     ELSE AggregateGroup(LatestStatus(g), Considered(g))
  <2>1. y = [x EXCEPT !.pc = "writeGroup", !.eff = self, !.new = new, !.clocks = {}]
    BY <1>0, <1>6 DEF Aggregate
  <2>2. new = "COMPLETED" => AggregateGroup(LatestStatus(g), Considered(g)) = "COMPLETED"
    BY DEF InQueue, Prescheduling
  <2> HIDE DEF new, self
  <2>3. y.new = new /\ y.job.group = g
    BY <1>0, <2>1 DEF Worker
  <2>4. QED
    BY <2>2, <2>3, CompletedAggregates
<1>7. QED
  BY <1>2, <1>3, <1>4, <1>5, <1>6 DEF Loads

\* No step makes a group COMPLETED that has not run.
LEMMA HonestStays ==
  ASSUME Shape, Shape', Sound, Retried, LatestKnown, LatestKnown', Honest, [Next]_vars
  PROVE  Honest'
<1>1. ASSUME NEW g \in Groups, grp'[g].status = "COMPLETED" PROVE Ran(g)'
  <2>1. CASE grp[g].status = "COMPLETED"
    <3>1. Ran(g)
      BY <2>1 DEF Honest, CompletedGroupsRan, Ran
    <3>2. QED
      BY <3>1, RanStays
  <2>2. CASE grp[g].status # "COMPLETED"
    <3>1. PICK w \in Workers : Moved(g, w)
      BY <1>1, <2>2, GroupMoves
    <3>2. worker[w].pc = "cancel" => worker[w].job.status # "COMPLETED"
      BY DEF Sound, SoundWorker, Canceled
    <3>3. worker[w].pc = "writeGroup" /\ worker[w].new = "COMPLETED" /\ worker[w].job.group = g
      BY <1>1, <2>2, <3>1, <3>2 DEF Moved, Launching, At
    <3>5. RanWorker(worker[w])
      BY DEF Honest
    <3>4. QED
      BY <3>3, <3>5, RanStays DEF RanWorker
  <2>3. QED
    BY <2>1, <2>2
<1>2. ASSUME NEW v \in Workers PROVE RanWorker(worker[v])'
  <2>1. SUFFICES ASSUME NEW g \in Groups, worker'[v].job.group = g,
                        worker'[v].pc = "writeGroup", worker'[v].new = "COMPLETED"
                 PROVE  Ran(g)'
    BY DEF RanWorker, Ran, Considered, TasksOf
  <2>2. Ran(g)
    BY <2>1, RanWorkers DEF Honest, RanWorker
  <2>3. QED
    BY <2>1, <2>2, RanStays
<1>3. QED
  BY <1>1, <1>2 DEF Honest, CompletedGroupsRan, Ran

\* A group is COMPLETED only if its lead task is, and all its tasks when the group
\* does not ignore the nonlead ones: no retry, late report or cancel comes between
\* the tasks that were read and the status that was written.
THEOREM CompletionIsEarned == Spec => []CompletedGroupsRan
<1>1. LatestKnown
  BY LatestRetry DEF LatestKnown
<1>2. Shape /\ Shape' /\ Sound /\ Retried /\ LatestKnown /\ LatestKnown' /\ Honest /\ [Next]_vars
        => Honest'
  BY HonestStays
<1>3. Shape /\ Shape' /\ Retried /\ [Next]_vars => Retried'
  BY RetriedStays
<1>4. Honest => CompletedGroupsRan
  BY DEF Honest
<1>5. QED
  BY <1>1, <1>2, <1>3, <1>4, InitHonest, InitRetried, ShapeInvariant, SoundInvariant, PTL DEF Spec

=============================================================================
