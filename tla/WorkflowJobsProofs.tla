------------------------- MODULE WorkflowJobsProofs -------------------------
(***************************************************************************)
(* Theorems about WorkflowJobs, for any workflow, any number of workers    *)
(* and any number of crashes and refusals.                                 *)
(***************************************************************************)
EXTENDS WorkflowJobs, WellFoundedInduction, TLAPS

-----------------------------------------------------------------------------
(***************************************************************************)
(* The operators on statuses and rows.                                     *)
(***************************************************************************)
GroupStatus == TaskGroupStatuses \cup {Absent}
GroupRow    == [status : GroupStatus, stamps : SUBSET Stamps,
                remaining : SUBSET Groups, cleaned : BOOLEAN]

\* The statuses that the jobs write are in the vocabulary of what they write.
LEMMA Vocabulary ==
  /\ GroupFinished \subseteq TaskGroupStatuses
  /\ Finished \subseteq TaskGroupStatuses
  /\ FailedStatuses \subseteq GroupFinished
  /\ Canceled \subseteq GroupFinished
  /\ Prerunning \subseteq TaskGroupStatuses
  /\ GroupStatus \subseteq AnyStatus
  /\ WorkflowStatuses \subseteq AnyStatus
  /\ WorkflowFinished \subseteq WorkflowStatuses
  /\ {"PENDING", "RUNNING", "WAITING"} \subseteq WorkflowStatuses
  /\ {"SUBMITTING", "WAITING", "PROCESSING", "SCHEDULING", "INITIALIZING", "RUNNING",
      "COMPLETED", "RESCHEDULED", "FAILED", "FAILED_CANCELED", "FAILED_UPSTREAM",
      "FAILED_SERVER_ERROR", "FAILED_BACKEND_ERROR", "FAILED_EXEC_TIMEOUT",
      "FAILED_QUEUE_TIMEOUT", "FAILED_START_TIMEOUT"} \subseteq TaskGroupStatuses
  BY DEF GroupFinished, Finished, FailedStatuses, TaskGroupStatuses, Canceled, Prerunning,
         InQueue, Prescheduling, GroupStatus, AnyStatus, WorkflowStatuses, WorkflowAlive,
         WorkflowFinished

\* TaskGroup._aggregate_status returns a task group status.
LEMMA GroupAggregates ==
  ASSUME NEW st, NEW considered
  PROVE  AggregateGroup(st, considered) \in TaskGroupStatuses
  BY Vocabulary DEF AggregateGroup, TaskGroupStatuses, Finished, GroupFinished, FailedStatuses

\* Workflow._aggregate_status returns a workflow status.
LEMMA WorkflowAggregates ==
  ASSUME NEW st
  PROVE  AggregateWorkflow(st) \in WorkflowStatuses
<1> DEFINE all    == {st[g] : g \in DOMAIN st}
           causes == (all \cap FailedStatuses) \ {"FAILED_UPSTREAM"}
<1>1. causes \subseteq WorkflowStatuses
  BY DEF WorkflowStatuses, WorkflowFinished
<1>2. ASSUME \E s \in causes : causes = {s}
      PROVE  (CHOOSE s \in causes : TRUE) \in WorkflowStatuses
  BY <1>1, <1>2
<1>3. {"RUNNING", "PENDING", "COMPLETED", "FAILED", "FAILED_CANCELED", "FAILED_SERVER_ERROR",
       "FAILED_EXEC_TIMEOUT", "FAILED_QUEUE_TIMEOUT"} \subseteq WorkflowStatuses
  BY DEF WorkflowStatuses, WorkflowFinished, WorkflowAlive, FailedStatuses
<1> HIDE DEF causes
<1> QED
  BY <1>2, <1>3 DEF AggregateWorkflow, causes

\* Every status belongs to one of the time stamps.
LEMMA StampTypes == ASSUME NEW s PROVE StampOf(s) \in Stamps
  BY DEF StampOf, Stamps

\* Task.update_status_to_db leaves a task row.
LEMMA TaskRowTypes ==
  ASSUME NEW row \in Row, NEW s \in GroupStatus
  PROVE  UpdateTaskRow(row, s) \in Row
  BY StampTypes DEF UpdateTaskRow, Enter, Row, GroupStatus

\* TaskGroup.update_status_to_db leaves a group row.
LEMMA GroupRowTypes ==
  ASSUME NEW row \in GroupRow, NEW s \in GroupStatus, NEW force
  PROVE  UpdateGroupRow(row, s, force) \in GroupRow
  BY StampTypes DEF UpdateGroupRow, Enter, GroupRow

\* Workflow.update_status_to_db leaves a workflow row.
LEMMA WorkflowRowTypes ==
  ASSUME NEW row \in [status : WorkflowStatuses \cup {Absent}, ended : BOOLEAN,
                      cancelled : BOOLEAN],
         NEW s, NEW byUser \in BOOLEAN
  PROVE  UpdateWorkflowRow(row, s, byUser)
           \in [status : WorkflowStatuses \cup {Absent}, ended : BOOLEAN, cancelled : BOOLEAN]
<1>1. CASE s \in {"RUNNING", "WAITING"} /\ row.status \in WorkflowAlive
  BY <1>1, Vocabulary DEF UpdateWorkflowRow
<1>2. CASE s \in WorkflowFinished /\ ~row.ended
  BY <1>2, Vocabulary DEF UpdateWorkflowRow
<1>3. QED
  BY <1>1, <1>2 DEF UpdateWorkflowRow

\* Task.batch_update_status_to_db leaves task rows.
LEMMA BatchTypes ==
  ASSUME rows \in [Tasks -> [Retries -> Row]], NEW g, NEW s \in GroupStatus, NEW x
  PROVE  BatchUpdate(g, s, x) \in [Tasks -> [Retries -> Row]]
<1>1. ASSUME NEW t \in Tasks, NEW r \in Retries
      PROVE  rows[t][r] \in Row /\ UpdateTaskRow(rows[t][r], s) \in Row
  BY TaskRowTypes
<1>2. QED
  BY <1>1 DEF BatchUpdate

\* A set of natural numbers has a least one.
LEMMA LeastNumber ==
  ASSUME NEW S, S \subseteq Nat, S # {}
  PROVE  \E n \in S : \A m \in S : n <= m
<1> DEFINE R == OpToRel(<, Nat)
<1>1. IsWellFoundedOn(R, Nat)
  BY NatLessThanWellFounded
<1>2. \A x, y \in Nat : x < y => <<x, y>> \in R
  BY DEF OpToRel
<1> HIDE DEF R
<1>3. PICK n \in S : \A m \in S : <<m, n>> \notin R
  BY <1>1, WFMin
<1>4. ASSUME NEW m \in S
      PROVE  n <= m
  <2>1. m \in Nat /\ n \in Nat
    OBVIOUS
  <2>2. ~(m < n)
    BY <1>2, <1>3, <2>1
  <2>3. QED
    BY <2>1, <2>2
<1>5. QED
  BY <1>4

\* Every task has a latest retry, and no row after it.
LEMMA LatestRetry ==
  ASSUME NEW t
  PROVE  /\ Latest(t) \in Retries
         /\ Latest(t) = 0 \/ rows[t][Latest(t)].status # Absent
         /\ \A q \in Retries : q > Latest(t) => rows[t][q].status = Absent
<1> DEFINE Has(r) == r = 0 \/ rows[t][r].status # Absent
           S == {n \in Nat : \E r \in Retries : n = MaxRetry - r /\ Has(r)}
<1>1. MaxRetry \in S
  BY WorkflowAssumption DEF Retries
<1>2. PICK n \in S : \A m \in S : n <= m
  <2>1. S \subseteq Nat /\ S # {}
    BY <1>1
  <2> HIDE DEF S
  <2>2. QED
    BY <2>1, LeastNumber
<1>3. PICK r \in Retries : n = MaxRetry - r /\ Has(r)
  BY <1>2
<1>4. ASSUME NEW q \in Retries, q > r
      PROVE  rows[t][q].status = Absent
  <2>1. SUFFICES ASSUME rows[t][q].status # Absent PROVE FALSE
    OBVIOUS
  <2>2. MaxRetry - q \in S
    BY <2>1, WorkflowAssumption DEF Retries
  <2>3. QED
    BY <1>2, <1>3, <1>4, <2>2, WorkflowAssumption DEF Retries
<1>5. QED
  BY <1>3, <1>4 DEF Latest

-----------------------------------------------------------------------------
(***************************************************************************)
(* Jobs.                                                                   *)
(***************************************************************************)
\* A retry names its task.
Named == {j \in Job : j.type = "RescheduleTask" => j.task \in Tasks}

\* Every job that the code creates is a job that names its task when it has to.
LEMMA JobTypes ==
  /\ NoJob \in Named
  /\ \A type \in FrontendTypes : JobOf(type) \in Named
  /\ \A type \in FrontendTypes \cup {"CreateGroup", "CleanupGroup"}, g \in Groups \cup {None} :
       GroupJob(type, g) \in Named
  /\ \A type \in FrontendTypes \cup BackendTypes, t \in Tasks, r \in Nat : TaskJob(type, t, r) \in Named
  /\ \A g \in Groups \cup {None}, s \in GroupStatus : UpdateGroup(g, s) \in Named
  /\ \A t \in Tasks, r \in Nat, s \in GroupStatus : UpdateTask(t, r, s) \in Named
  BY ZenonT(60), WorkflowAssumption
     DEF NoJob, JobOf, GroupJob, TaskJob, UpdateGroup, UpdateTask, Named, Job, FrontendTypes,
         BackendTypes, ExitActions, GroupStatus

\* What a RescheduleTask that fails sends is a report of its task, whose exit code may
\* ask for an action.
LEMMA BackendErrorTypes ==
  ASSUME NEW j \in Job, j.task \in Tasks
  PROVE  BackendError(j) \in Named
<1> DEFINE u == UpdateTask(j.task, j.retry, "FAILED_BACKEND_ERROR")
<1>1. u \in Named
  BY JobTypes, Vocabulary DEF Job, GroupStatus
<1>2. BackendError(j) = [u EXCEPT !.action = ErrorAction[j.task]]
  BY DEF BackendError
<1>3. ErrorAction[j.task] \in ExitActions
  BY WorkflowAssumption
<1> HIDE DEF u
<1> QED
  BY <1>1, <1>2, <1>3 DEF Named, Job

\* A job finds the backend while it is there.
LEMMA BackendIsFound == ASSUME backendUp, NEW j PROVE HasBackend(j)
BY DEF HasBackend

\* Sending such jobs keeps the queue and the dedupe keys well formed.
LEMMA SendTypes ==
  ASSUME queue \subseteq Named, sent \subseteq Job, NEW J \in SUBSET Named
  PROVE  /\ Send(J) => queue' \subseteq Named /\ sent' \subseteq Job
         /\ \A k : TakeAndSend(k, J) => queue' \subseteq Named /\ sent' \subseteq Job
<1>1. \A j \in Job : JobId(j) \in Job
  BY DEF JobId, Job, ExitActions
<1>2. Keys(J) \subseteq Job
  BY <1>1 DEF Keys, Named
<1>3. QED
  BY <1>2 DEF Send, TakeAndSend
-----------------------------------------------------------------------------
(***************************************************************************)
(* The invariant: the types, and what a step relies on beyond them.  A     *)
(* worker that updates a task has one, it writes a status of a group into  *)
(* a group, and a retry that may come back to the queue names its task.    *)
(***************************************************************************)
UpdatingTask == {"startTimeout", "reread", "siblings", "insertRetry", "sendRetry"}

GoodWorker ==
  {x \in Worker : /\ x.job \in Named
                  /\ x.pc \in UpdatingTask => x.job.task \in Tasks
                  /\ x.pc = "writeGroup" => x.new \in GroupStatus}

WorkflowRow == [status : WorkflowStatuses \cup {Absent}, ended : BOOLEAN, cancelled : BOOLEAN]

DbShape == /\ wf \in WorkflowRow /\ grp \in [Groups -> GroupRow]
           /\ rows \in [Tasks -> [Retries -> Row]] /\ logs \in {"redis", "storage"}
JobShape     == queue \subseteq Named /\ sent \subseteq Job
WorkerShape  == worker \in [Workers -> GoodWorker]
ClusterShape == /\ agent \in [pc : {"idle", "apply", "execute"}, job : Named]
                /\ pod \in [Tasks -> [retry : Nat, phase : DOMAIN Phase]]
                /\ backendUp \in BOOLEAN
CrashShape   == crashes \in 0..MaxCrashes

Shape == DbShape /\ JobShape /\ WorkerShape /\ ClusterShape /\ CrashShape

\* The shape is stronger than the types.
LEMMA ShapeGivesTypes == Shape => TypeOK
<1>1. Named \subseteq Job /\ GoodWorker \subseteq Worker
  BY DEF Named, GoodWorker
<1>2. DbShape => /\ wf \in [status : WorkflowStatuses \cup {Absent}, ended : BOOLEAN,
                            cancelled : BOOLEAN]
                 /\ grp \in [Groups -> [status : TaskGroupStatuses \cup {Absent},
                                        stamps : SUBSET Stamps, remaining : SUBSET Groups,
                                        cleaned : BOOLEAN]]
                 /\ rows \in [Tasks -> [Retries -> Row]] /\ logs \in {"redis", "storage"}
  BY DEF DbShape, WorkflowRow, GroupRow, GroupStatus
<1>3. JobShape => queue \subseteq Job /\ sent \subseteq Job
  BY <1>1 DEF JobShape
<1>4. WorkerShape => worker \in [Workers -> Worker]
  BY <1>1 DEF WorkerShape
<1>5. ClusterShape => /\ agent \in [pc : {"idle", "apply", "execute"}, job : Job]
                      /\ pod \in [Tasks -> [retry : Nat, phase : DOMAIN Phase]]
                      /\ backendUp \in BOOLEAN
  BY <1>1 DEF ClusterShape
<1>6. QED
  BY <1>2, <1>3, <1>4, <1>5 DEF Shape, CrashShape, TypeOK

\* The system starts in shape.
LEMMA InitShape == Init => Shape
<1> SUFFICES ASSUME Init PROVE Shape
  OBVIOUS
<1>1. Absent \in GroupStatus /\ Absent \in AnyStatus
  BY DEF GroupStatus, AnyStatus
<1>2. NoJob \in Named /\ JobOf("SubmitWorkflow") \in Named
  BY JobTypes DEF FrontendTypes
<1>3. Idle \in GoodWorker
  BY <1>1, <1>2 DEF Idle, GoodWorker, Worker, Pcs, UpdatingTask, GroupStatus, Named
<1>4. RowAbsent \in Row
  BY DEF RowAbsent, Row
<1>5. DbShape
  BY <1>1, <1>4 DEF Init, DbShape, WorkflowRow, GroupRow
<1>6. JobShape
  BY <1>2 DEF Init, JobShape, Named
<1>7. WorkerShape
  BY <1>3 DEF Init, WorkerShape
<1>8. ClusterShape
  BY <1>2 DEF Init, ClusterShape, Phase
<1>9. CrashShape
  BY WorkflowAssumption DEF Init, CrashShape
<1>10. QED
  BY <1>5, <1>6, <1>7, <1>8, <1>9 DEF Shape

\* Where a worker may go next.
LEMMA WorkerMoves ==
  ASSUME NEW x \in GoodWorker
  PROVE  /\ Idle \in GoodWorker
         /\ x.job \in Named /\ x.job \in Job /\ x.todo \subseteq Groups /\ x.ready \subseteq Groups
         /\ x.eff \in GroupStatus /\ x.new \in AnyStatus
         /\ \A p \in Pcs \ (UpdatingTask \cup {"writeGroup"}) : [x EXCEPT !.pc = p] \in GoodWorker
         /\ \A p \in UpdatingTask : x.pc \in UpdatingTask => [x EXCEPT !.pc = p] \in GoodWorker
         /\ \A j \in Named, s \in GroupStatus, p \in Pcs \ {"writeGroup"} :
              (p \in UpdatingTask => j.task \in Tasks)
                => [Idle EXCEPT !.pc = p, !.job = j, !.eff = s] \in GoodWorker
<1>1. Absent \in GroupStatus /\ Absent \in AnyStatus
  BY DEF GroupStatus, AnyStatus
<1>2. NoJob \in Named
  BY JobTypes
<1>3. Idle \in GoodWorker
  BY <1>1, <1>2 DEF Idle, GoodWorker, Worker, Pcs, UpdatingTask, GroupStatus, Named
<1>4. /\ x.job \in Named /\ x.job \in Job /\ x.todo \subseteq Groups /\ x.ready \subseteq Groups
      /\ x.eff \in GroupStatus /\ x.new \in AnyStatus
  BY DEF GoodWorker, Worker, GroupStatus
<1>5. \A p \in Pcs \ (UpdatingTask \cup {"writeGroup"}) : [x EXCEPT !.pc = p] \in GoodWorker
  BY DEF GoodWorker, Worker
<1>6. \A p \in UpdatingTask : x.pc \in UpdatingTask => [x EXCEPT !.pc = p] \in GoodWorker
  BY DEF GoodWorker, Worker, UpdatingTask, Pcs
<1>7. ASSUME NEW j \in Named, NEW s \in GroupStatus, NEW p \in Pcs \ {"writeGroup"},
             p \in UpdatingTask => j.task \in Tasks
      PROVE  [Idle EXCEPT !.pc = p, !.job = j, !.eff = s] \in GoodWorker
  BY <1>1, <1>7 DEF Idle, GoodWorker, Worker, GroupStatus, Named
<1>8. QED
  BY <1>3, <1>4, <1>5, <1>6, <1>7

\* The first statement of batch_set_groups_to_processing.
LEMMA LaunchShape ==
  ASSUME Shape, NEW w \in Workers, SetGroups(w)
  PROVE  grp' \in [Groups -> GroupRow] /\ WorkerShape'
<1> USE DEF Shape
<1> DEFINE moved == {g \in worker[w].ready : Eligible(g)}
<1>0. worker[w] \in GoodWorker /\ moved \subseteq Groups
  BY WorkerMoves DEF WorkerShape
<1>1. grp' \in [Groups -> GroupRow]
  BY ZenonT(60), Vocabulary DEF SetGroups, DbShape, GroupRow, GroupStatus, Stamps
<1>2. [worker[w] EXCEPT !.pc = "setTasks", !.ready = {}, !.todo = moved] \in GoodWorker
  BY <1>0 DEF GoodWorker, Worker, Pcs, UpdatingTask
<1>3. WorkerShape'
  BY <1>0, <1>2, WorkerMoves DEF SetGroups, Done, WorkerShape
<1>4. QED
  BY <1>1, <1>3

-----------------------------------------------------------------------------
(***************************************************************************)
(* Every action keeps the shape.                                           *)
(***************************************************************************)
\* SubmitWorkflow keeps the shape.
LEMMA SubmitShape ==
  ASSUME Shape, NEW w \in Workers, Submit(w)
  PROVE  Shape'
<1> USE DEF Shape, db, jobs, cluster, CrashShape
<1>0. worker[w] \in GoodWorker
  BY DEF WorkerShape
<1>1. CASE InsertWorkflow(w)
  <2>1. PICK j \in queue : /\ Take(j) /\ Start(w, j, "insertGroups", Absent)
    BY <1>1 DEF InsertWorkflow
  <2>2. j \in Named
    BY DEF JobShape
  <2>3. DbShape'
    BY <1>1, Vocabulary DEF InsertWorkflow, DbShape, WorkflowRow
  <2>4. JobShape'
    BY <2>1 DEF Take, JobShape
  <2>5. WorkerShape'
    BY <2>1, <2>2, <1>0, WorkerMoves DEF Start, WorkerShape, Pcs, UpdatingTask, GroupStatus
  <2>6. QED
    BY <1>1, <2>3, <2>4, <2>5 DEF InsertWorkflow, ClusterShape
<1>2. CASE InsertGroups(w)
  <2>1. grp' \in [Groups -> GroupRow]
    <3>1. ASSUME NEW g \in Groups
          PROVE  /\ grp[g] \in GroupRow
                 /\ [grp[g] EXCEPT !.status = "SUBMITTING", !.remaining = Upstream[g]] \in GroupRow
      <4>1. grp[g] \in GroupRow /\ Upstream[g] \in SUBSET Groups
        BY WorkflowAssumption DEF DbShape
      <4>2. QED
        BY <4>1, Vocabulary DEF GroupRow, GroupStatus
    <3>2. QED
      BY <1>2, <3>1 DEF InsertGroups
  <2>2. rows' \in [Tasks -> [Retries -> Row]]
    <3>1. ASSUME NEW t \in Tasks
          PROVE  /\ rows[t] \in [Retries -> Row]
                 /\ [rows[t] EXCEPT ![0].status = "WAITING"] \in [Retries -> Row]
      <4>1. rows[t] \in [Retries -> Row] /\ 0 \in Retries
        BY WorkflowAssumption DEF DbShape, Retries
      <4>2. [rows[t][0] EXCEPT !.status = "WAITING"] \in Row
        BY <4>1, Vocabulary DEF Row
      <4>3. QED
        BY <4>1, <4>2
    <3>2. QED
      BY <1>2, <3>1 DEF InsertGroups
  <2>3. WorkerShape'
    BY <1>2, <1>0, WorkerMoves DEF InsertGroups, Goto, WorkerShape, Pcs, UpdatingTask
  <2>4. QED
    BY <1>2, <2>1, <2>2, <2>3 DEF InsertGroups, DbShape, JobShape, ClusterShape
<1>3. CASE MarkWaiting(w)
  <2>1. grp' \in [Groups -> GroupRow]
    <3>1. ASSUME NEW g \in Groups
          PROVE  grp[g] \in GroupRow /\ [grp[g] EXCEPT !.status = "WAITING"] \in GroupRow
      BY Vocabulary DEF DbShape, GroupRow, GroupStatus
    <3>2. QED
      BY <1>3, <3>1 DEF MarkWaiting
  <2>2. WorkerShape'
    <3>1. [worker[w] EXCEPT !.pc = "checkWaiting",
                            !.ready = {g \in Groups : grp[g].remaining = {}}] \in GoodWorker
      BY <1>0 DEF GoodWorker, Worker, Pcs, UpdatingTask
    <3>2. QED
      BY <1>3, <3>1 DEF MarkWaiting, WorkerShape
  <2>3. QED
    BY <1>3, <2>1, <2>2 DEF MarkWaiting, DbShape, JobShape, ClusterShape
<1>4. CASE CheckWaiting(w)
  <2>1. CASE worker' = [worker EXCEPT ![w] = Idle] /\ UNCHANGED <<grp, jobs>>
    BY <1>4, <2>1, <1>0, WorkerMoves
       DEF CheckWaiting, DbShape, JobShape, ClusterShape, WorkerShape
  <2>2. CASE SetGroups(w) /\ UNCHANGED jobs
    BY <1>4, <2>2, LaunchShape DEF CheckWaiting, DbShape, JobShape, ClusterShape
  <2>3. CASE /\ Done(w) /\ UNCHANGED grp
             /\ Send({UpdateGroup(g, "FAILED_SERVER_ERROR") :
                        g \in {h \in Groups : grp[h].status \notin Finished}})
    <3>1. {UpdateGroup(g, "FAILED_SERVER_ERROR") :
             g \in {h \in Groups : grp[h].status \notin Finished}} \subseteq Named
      BY JobTypes, Vocabulary DEF GroupStatus
    <3>2. JobShape'
      BY <2>3, <3>1, SendTypes DEF JobShape
    <3>3. QED
      BY <1>4, <2>3, <3>2, <1>0, WorkerMoves
         DEF CheckWaiting, Done, DbShape, ClusterShape, WorkerShape
  <2>4. QED
    BY <1>4, <2>1, <2>2, <2>3 DEF CheckWaiting, Done
<1>5. QED
  BY <1>1, <1>2, <1>3, <1>4 DEF Submit

\* Launching groups keeps the shape.
LEMMA ProcessShape ==
  ASSUME Shape, NEW w \in Workers, Process(w)
  PROVE  Shape'
<1> USE DEF Shape, db, jobs, cluster, CrashShape
<1>0. worker[w] \in GoodWorker
  BY DEF WorkerShape
<1>1. CASE LaunchDownstream(w)
  BY <1>1, LaunchShape DEF LaunchDownstream, DbShape, JobShape, ClusterShape
<1>2. CASE SetTasks(w)
  <2>1. rows' \in [Tasks -> [Retries -> Row]]
    <3>1. ASSUME NEW t \in Tasks, NEW r \in Retries
          PROVE  rows[t][r] \in Row /\ [rows[t][r] EXCEPT !.status = "PROCESSING"] \in Row
      BY Vocabulary DEF DbShape, Row
    <3>2. rows \in [Tasks -> [Retries -> Row]]
      BY DEF DbShape
    <3>3. QED
      BY <1>2, <3>1, <3>2 DEF SetTasks
  <2>2. WorkerShape'
    BY <1>2, <1>0, WorkerMoves DEF SetTasks, Goto, WorkerShape, Pcs, UpdatingTask
  <2>3. QED
    BY <1>2, <2>1, <2>2 DEF SetTasks, DbShape, JobShape, ClusterShape
<1>3. CASE SendCreate(w)
  <2>1. PICK g \in worker[w].todo :
          /\ Send({GroupJob("CreateGroup", g)})
          /\ IF worker[w].todo = {g} THEN Done(w)
             ELSE worker' = [worker EXCEPT ![w].todo = @ \ {g}]
    BY <1>3 DEF SendCreate
  <2>2. g \in Groups
    BY <1>0, WorkerMoves
  <2>3. JobShape'
    BY <2>1, <2>2, SendTypes, JobTypes DEF JobShape
  <2>4. [worker[w] EXCEPT !.todo = @ \ {g}] \in GoodWorker
    BY <1>0 DEF GoodWorker, Worker
  <2>5. WorkerShape'
    BY <2>1, <2>4, <1>0, WorkerMoves DEF Done, WorkerShape
  <2>6. QED
    BY <1>3, <2>3, <2>5 DEF SendCreate, DbShape, ClusterShape
<1>4. QED
  BY <1>1, <1>2, <1>3 DEF Process

\* The first statements of a cancel keep the shape.
LEMMA CancelShape ==
  ASSUME Shape, NEW w \in Workers, FetchCancel(w) \/ Cancel(w) \/ Recheck(w)
  PROVE  Shape'
<1> USE DEF Shape, db, jobs, cluster, CrashShape
<1>0. worker[w] \in GoodWorker
  BY DEF WorkerShape
<1>j. /\ worker[w].job \in Named /\ worker[w].job.status \in GroupStatus
  BY <1>0, WorkerMoves DEF Named, Job, GroupStatus
<1>1. CASE FetchCancel(w)
  <2>1. PICK j \in queue : Take(j) /\ Start(w, j, "cancel", j.status)
    BY <1>1 DEF FetchCancel
  <2>2. j \in Named /\ j.status \in GroupStatus
    BY DEF JobShape, Named, Job, GroupStatus
  <2>3. JobShape'
    BY <2>1 DEF Take, JobShape
  <2>4. WorkerShape'
    BY <2>1, <2>2, <1>0, WorkerMoves DEF Start, WorkerShape, Pcs, UpdatingTask
  <2>5. QED
    BY <1>1, <2>3, <2>4 DEF FetchCancel, DbShape, ClusterShape
<1>2. CASE Cancel(w)
  <2>1. grp' \in [Groups -> GroupRow]
    <3>1. ASSUME NEW g \in Groups
          PROVE  /\ grp[g] \in GroupRow
                 /\ UpdateGroupRow(grp[g], worker[w].job.status, worker[w].job.force) \in GroupRow
      BY <1>j, GroupRowTypes DEF DbShape
    <3>2. QED
      BY <1>2, <3>1 DEF Cancel, DbShape
  <2>2. WorkerShape'
    BY <1>2, <1>0, WorkerMoves DEF Cancel, Goto, WorkerShape, Pcs, UpdatingTask
  <2>3. QED
    BY <1>2, <2>1, <2>2 DEF Cancel, DbShape, JobShape, ClusterShape
<1>3. CASE Recheck(w)
  <2>1. BatchUpdate(worker[w].job.group, worker[w].job.status, None) \in [Tasks -> [Retries -> Row]]
    BY <1>j, BatchTypes DEF DbShape
  <2>2. [worker[w] EXCEPT !.pc = "writeGroup", !.new = worker[w].job.status] \in GoodWorker
    BY <1>0, <1>j, Vocabulary DEF GoodWorker, Worker, Pcs, UpdatingTask
  <2>3. CASE grp[worker[w].job.group].status = "PROCESSING"
    BY <1>3, <2>3, <1>j, <1>0, WorkerMoves
       DEF Recheck, Done, DbShape, JobShape, ClusterShape, WorkerShape
  <2>4. CASE grp[worker[w].job.group].status # "PROCESSING"
    BY <1>3, <2>4, <2>1, <2>2, <1>0
       DEF Recheck, DbShape, JobShape, ClusterShape, WorkerShape
  <2>5. QED
    BY <2>3, <2>4
<1>4. QED
  BY <1>1, <1>2, <1>3

\* An exit action turns the status of a job into a status.
LEMMA ExitStatusTypes ==
  ASSUME NEW j \in Job
  PROVE  j.status \in GroupStatus /\ ExitStatus(j) \in GroupStatus
  BY Vocabulary DEF ExitStatus, Job, ExitActions, GroupStatus

\* The UPDATE of a task row by a job that names its task.
LEMMA TaskRowShape ==
  ASSUME Shape, NEW w \in Workers, NEW j \in Named, j.task \in Tasks, UpdateTaskRowOf(w, j)
  PROVE  DbShape' /\ WorkerShape' /\ ClusterShape' /\ CrashShape'
<1> DEFINE s == IF j.status \in Finished THEN ExitStatus(j) ELSE j.status
           me == [Idle EXCEPT !.pc = "reread", !.job = j, !.eff = s,
                              !.clocks = Timeouts \cap Clocks(j, s)]
<1>1. j \in Job /\ s \in GroupStatus
  BY ExitStatusTypes DEF Named
<1>2. rows' \in [Tasks -> [Retries -> Row]]
  <2>1. ASSUME NEW t \in Tasks, NEW r \in Retries
        PROVE  rows[t][r] \in Row /\ UpdateTaskRow(rows[t][r], s) \in Row
    BY <1>1, TaskRowTypes DEF Shape, DbShape
  <2>2. rows' = [rows EXCEPT ![j.task][j.retry] = UpdateTaskRow(@, s)]
    BY DEF UpdateTaskRowOf
  <2>3. rows \in [Tasks -> [Retries -> Row]]
    BY DEF Shape, DbShape
  <2>4. [rows[j.task] EXCEPT ![j.retry] = UpdateTaskRow(@, s)] \in [Retries -> Row]
    BY <2>1, <2>3
  <2>5. QED
    BY <2>2, <2>3, <2>4
<1>3. WorkerShape'
  <2>1. Absent \in AnyStatus
    BY DEF AnyStatus
  <2>2. me \in GoodWorker
    BY <1>1, <2>1 DEF GoodWorker, Worker, Idle, Pcs, UpdatingTask, GroupStatus
  <2>3. worker' = [worker EXCEPT ![w] = me]
    BY DEF UpdateTaskRowOf
  <2>4. QED
    BY <2>2, <2>3 DEF Shape, WorkerShape
<1>4. QED
  BY <1>2, <1>3
     DEF Shape, UpdateTaskRowOf, DbShape, ClusterShape, CrashShape, cluster

\* The first statements of every other UpdateGroup keep the shape.
LEMMA TaskUpdateShape ==
  ASSUME Shape, NEW w \in Workers,
         \/ UpdateWholeGroup(w) \/ UpdateNoTask(w) \/ CheckStartTimeout(w)
         \/ EndLateStart(w) \/ UpdateTaskStatus(w)
  PROVE  Shape'
<1> USE DEF Shape, db, jobs, cluster, CrashShape
<1>0. worker[w] \in GoodWorker
  BY DEF WorkerShape
<1>j. ASSUME NEW j \in queue
      PROVE  /\ j \in Named /\ j.status \in GroupStatus
             /\ PerTask(j) => j.task \in Tasks
             /\ Take(j) => JobShape'
  <2>1. j \in Named /\ j \in Job
    BY DEF JobShape, Named
  <2>2. QED
    BY <2>1, ExitStatusTypes DEF PerTask, Job, Take, JobShape
<1>1. CASE UpdateWholeGroup(w)
  <2>1. PICK j \in queue : /\ Take(j) /\ Start(w, j, "aggregate", j.status)
                           /\ rows' = BatchUpdate(j.group, j.status, None)
    BY <1>1 DEF UpdateWholeGroup
  <2>2. rows' \in [Tasks -> [Retries -> Row]]
    BY <2>1, <1>j, BatchTypes DEF DbShape
  <2>3. WorkerShape'
    BY <2>1, <1>j, <1>0, WorkerMoves DEF Start, WorkerShape, Pcs, UpdatingTask
  <2>4. QED
    BY <1>1, <1>j, <2>1, <2>2, <2>3 DEF UpdateWholeGroup, DbShape, ClusterShape
<1>2. CASE UpdateNoTask(w)
  <2>1. PICK j \in queue : Take(j) /\ Start(w, j, "aggregate", j.status)
    BY <1>2 DEF UpdateNoTask
  <2>2. WorkerShape'
    BY <2>1, <1>j, <1>0, WorkerMoves DEF Start, WorkerShape, Pcs, UpdatingTask
  <2>3. QED
    BY <1>2, <1>j, <2>1, <2>2 DEF UpdateNoTask, DbShape, ClusterShape
<1>3. CASE CheckStartTimeout(w)
  <2>1. PICK j \in queue : /\ PerTask(j) /\ Take(j)
                           /\ \/ Start(w, j, "startTimeout", j.status)
                              \/ UNCHANGED worker
    BY <1>3 DEF CheckStartTimeout
  <2>2. WorkerShape'
    <3>1. [Idle EXCEPT !.pc = "startTimeout", !.job = j, !.eff = j.status] \in GoodWorker
      BY <2>1, <1>j, <1>0, WorkerMoves DEF Pcs, UpdatingTask
    <3>2. QED
      BY <2>1, <3>1 DEF Start, WorkerShape
  <2>3. QED
    BY <1>3, <1>j, <2>1, <2>2 DEF CheckStartTimeout, DbShape, ClusterShape
<1>4. CASE EndLateStart(w)
  <2>1. worker[w].job \in Named /\ worker[w].job.task \in Tasks
    BY <1>4, <1>0 DEF EndLateStart, At, GoodWorker, UpdatingTask
  <2>2. UpdateTaskRowOf(w, worker[w].job) /\ UNCHANGED jobs
    BY <1>4 DEF EndLateStart
  <2>3. QED
    BY <2>1, <2>2, TaskRowShape DEF JobShape
<1>5. CASE UpdateTaskStatus(w)
  <2>1. PICK j \in queue : PerTask(j) /\ Take(j) /\ UpdateTaskRowOf(w, j)
    BY <1>5 DEF UpdateTaskStatus
  <2>2. QED
    BY <2>1, <1>j, TaskRowShape
<1>6. QED
  BY <1>1, <1>2, <1>3, <1>4, <1>5

\* What schedule_cleanup_job sends and writes.
LEMMA CleanupShape ==
  ASSUME Shape, NEW j \in Named, NEW s, NEW found
  PROVE  /\ CleanupGroupJobs(j, s, found) \subseteq Named
         /\ CleanedGroups(j, s, found) \in [Groups -> GroupRow]
         /\ PatchCleanedUp(j.group) \in [Groups -> GroupRow]
         /\ CleanupJobs(j.group) \subseteq Named
<1>1. j.group \in Groups \cup {None}
  BY DEF Named, Job
<1>2. CleanupJobs(j.group) \subseteq Named
  BY JobTypes DEF CleanupJobs, FrontendTypes
<1>3. CleanupGroupJobs(j, s, found) \subseteq Named
  BY <1>1, <1>2, JobTypes DEF CleanupGroupJobs
<1>4. grp \in [Groups -> GroupRow]
  BY DEF Shape, DbShape
<1>5. PatchCleanedUp(j.group) \in [Groups -> GroupRow]
  <2>1. \A row \in GroupRow : [row EXCEPT !.cleaned = TRUE] \in GroupRow
    BY DEF GroupRow
  <2>2. QED
    BY <2>1, <1>4 DEF PatchCleanedUp
<1>6. QED
  BY <1>2, <1>3, <1>4, <1>5 DEF CleanedGroups

\* The statements that end or retry a task keep the shape.
LEMMA EndTaskShape ==
  ASSUME Shape, NEW w \in Workers,
         \/ FailWithoutBackend(w) \/ Reread(w) \/ UpdateSiblings(w)
         \/ InsertRetry(w) \/ SendRetry(w)
  PROVE  Shape'
<1> USE DEF Shape, db, jobs, cluster, CrashShape
<1>0. worker[w] \in GoodWorker /\ worker[w].job \in Named /\ worker[w].job \in Job
  BY DEF WorkerShape, GoodWorker, Named
<1>1. CASE FailWithoutBackend(w)
  <2>1. ASSUME NEW j \in Named
        PROVE  FailureGroups(j) \in [Groups -> GroupRow] /\ FailureJobs(j) \subseteq Named
    BY CleanupShape DEF FailureGroups, FailureJobs, DbShape
  <2>2. PICK j \in Named : /\ grp' = FailureGroups(j)
                           /\ TakeAndSend(j, FailureJobs(j)) \/ Send(FailureJobs(j))
                           /\ UNCHANGED worker \/ Done(w)
    BY <1>1, <1>0 DEF FailWithoutBackend, JobShape
  <2>3. JobShape'
    BY <2>1, <2>2, SendTypes DEF JobShape
  <2>4. WorkerShape'
    BY <2>2, <1>0, WorkerMoves DEF Done, WorkerShape
  <2>5. QED
    BY <1>1, <2>1, <2>2, <2>3, <2>4 DEF FailWithoutBackend, DbShape, ClusterShape
<1>2. CASE Reread(w)
  <2>1. worker[w].pc = "reread"
    BY <1>2 DEF Reread, At
  <2>2. \A p \in {"insertRetry", "siblings", "aggregate"} : [worker[w] EXCEPT !.pc = p] \in GoodWorker
    BY <2>1, <1>0, WorkerMoves DEF UpdatingTask, Pcs
  <2>3. \E p \in {"insertRetry", "siblings", "aggregate"} : Goto(w, p) \/ Done(w)
    BY <1>2 DEF Reread
  <2>4. WorkerShape'
    BY <2>2, <2>3, <1>0, WorkerMoves DEF Goto, Done, WorkerShape
  <2>5. QED
    BY <1>2, <2>4 DEF Reread, DbShape, JobShape, ClusterShape
<1>3. CASE UpdateSiblings(w)
  <2>1. (IF worker[w].eff \in FailedStatuses THEN "FAILED" ELSE worker[w].eff) \in GroupStatus
    BY <1>0, WorkerMoves, Vocabulary DEF GroupStatus
  <2>2. rows' \in [Tasks -> [Retries -> Row]]
    BY <1>3, <2>1, BatchTypes DEF UpdateSiblings, DbShape
  <2>3. WorkerShape'
    BY ZenonT(60), <1>3, <1>0, WorkerMoves DEF UpdateSiblings, Goto, WorkerShape, Pcs, UpdatingTask
  <2>4. QED
    BY <1>3, <2>2, <2>3 DEF UpdateSiblings, DbShape, JobShape, ClusterShape
<1>4. CASE InsertRetry(w)
  <2>1. rows' \in [Tasks -> [Retries -> Row]]
    <3>1. rows \in [Tasks -> [Retries -> Row]]
      BY DEF DbShape
    <3>2. ASSUME NEW t \in Tasks, NEW r \in Retries
          PROVE  rows[t][r] \in Row /\ [rows[t][r] EXCEPT !.status = "PROCESSING"] \in Row
      <4>1. rows[t][r] \in Row
        BY <3>1
      <4>2. QED
        BY <4>1, Vocabulary DEF Row
    <3>3. ASSUME NEW t \in Tasks, NEW r
          PROVE  [rows[t] EXCEPT ![r].status = "PROCESSING"] \in [Retries -> Row]
      BY <3>1, <3>2
    <3>4. ASSUME NEW t, NEW r
          PROVE  [rows EXCEPT ![t][r].status = "PROCESSING"] \in [Tasks -> [Retries -> Row]]
      BY <3>1, <3>3
    <3>5. QED
      BY <1>4, <3>1, <3>4 DEF InsertRetry
  <2>2. WorkerShape'
    BY <1>4, <1>0, WorkerMoves DEF InsertRetry, Goto, At, WorkerShape, Pcs, UpdatingTask
  <2>3. QED
    BY ZenonT(60), <1>4, <2>1, <2>2 DEF InsertRetry, DbShape, JobShape, ClusterShape
<1>5. CASE SendRetry(w)
  <2>1. TaskJob("RescheduleTask", worker[w].job.task, worker[w].job.retry + 1) \in Named
    <3>1. worker[w].job.task \in Tasks
      BY <1>5, <1>0 DEF SendRetry, At, GoodWorker, UpdatingTask
    <3>2. worker[w].job.retry + 1 \in Nat
      BY <1>0 DEF Job
    <3>3. QED
      BY <3>1, <3>2, JobTypes DEF BackendTypes
  <2>2. JobShape'
    BY <1>5, <2>1, SendTypes DEF SendRetry, JobShape
  <2>3. WorkerShape'
    BY <1>5, <1>0, WorkerMoves DEF SendRetry, Goto, WorkerShape, Pcs, UpdatingTask
  <2>4. QED
    BY <1>5, <2>2, <2>3 DEF SendRetry, DbShape, ClusterShape
<1>6. QED
  BY <1>1, <1>2, <1>3, <1>4, <1>5

\* The statements on the group, the workflow and the downstream groups keep the shape.
LEMMA GroupUpdateShape ==
  ASSUME Shape, NEW w \in Workers,
         \/ Aggregate(w) \/ WriteGroup(w) \/ ReadGroups(w) \/ WriteWorkflow(w)
         \/ Finish(w) \/ ReleaseDownstream(w)
  PROVE  Shape'
<1> USE DEF Shape, db, jobs, cluster, CrashShape
<1> DEFINE me == worker[w]
           g  == me.job.group
<1>0. /\ me \in GoodWorker /\ me.job \in Named /\ me.job \in Job /\ g \in Groups \cup {None}
      /\ me.eff \in GroupStatus /\ me.todo \subseteq Groups /\ me.ready \subseteq Groups
      /\ Absent \in AnyStatus
  BY DEF WorkerShape, GoodWorker, Worker, Named, Job, GroupStatus, AnyStatus
<1>1. CASE Aggregate(w)
  <2> DEFINE self == IF me.eff = "RESCHEDULED" THEN "RUNNING" ELSE me.eff
             new  == IF self \in InQueue THEN self
                     ELSE AggregateGroup(LatestStatus(g), Considered(g))
             J    == {GroupJob(IF c = "queue" THEN "CheckQueueTimeout" ELSE "CheckRunTimeout", g) :
                        c \in me.clocks}
  <2>1. self \in GroupStatus
    BY <1>0, Vocabulary DEF GroupStatus
  <2>2. new \in GroupStatus
    BY <2>1, GroupAggregates DEF GroupStatus
  <2>3. J \subseteq Named
    BY <1>0, JobTypes DEF FrontendTypes
  <2>4. JobShape'
    BY <1>1, <2>3, SendTypes DEF Aggregate, JobShape
  <2>5. [me EXCEPT !.pc = "writeGroup", !.eff = self, !.new = new, !.clocks = {}] \in GoodWorker
    <3> HIDE DEF self, new
    <3>1. QED
      BY ZenonT(60), <1>0, <2>1, <2>2, Vocabulary DEF GoodWorker, Worker, Pcs, UpdatingTask, GroupStatus
  <2>6. WorkerShape'
    <3>1. worker' = [worker EXCEPT ![w] = [me EXCEPT !.pc = "writeGroup", !.eff = self,
                                                    !.new = new, !.clocks = {}]]
      BY <1>1 DEF Aggregate, WorkerShape
    <3>2. QED
      BY <3>1, <2>5 DEF WorkerShape
  <2>7. QED
    BY <1>1, <2>4, <2>6 DEF Aggregate, DbShape, ClusterShape
<1>2. CASE WriteGroup(w)
  <2>1. me.new \in GroupStatus
    BY <1>2, <1>0 DEF WriteGroup, At, GoodWorker
  <2>2. grp' \in [Groups -> GroupRow]
    <3>1. ASSUME NEW h \in Groups
          PROVE  grp[h] \in GroupRow /\ UpdateGroupRow(grp[h], me.new, FALSE) \in GroupRow
      BY <2>1, GroupRowTypes DEF DbShape
    <3>2. QED
      BY <1>2, <3>1 DEF WriteGroup, DbShape
  <2>3. [me EXCEPT !.pc = "readGroups", !.new = Absent] \in GoodWorker
    BY <1>0 DEF GoodWorker, Worker, Pcs, UpdatingTask
  <2>4. QED
    BY <1>2, <2>2, <2>3 DEF WriteGroup, DbShape, JobShape, ClusterShape, WorkerShape
<1>3. CASE ReadGroups(w)
  <2>1. AggregateWorkflow(GroupStatuses) \in AnyStatus
    BY WorkflowAggregates, Vocabulary
  <2>2. [me EXCEPT !.pc = "writeWorkflow", !.new = AggregateWorkflow(GroupStatuses)] \in GoodWorker
    BY <1>0, <2>1 DEF GoodWorker, Worker, Pcs, UpdatingTask
  <2>3. QED
    BY <1>3, <2>2 DEF ReadGroups, DbShape, JobShape, ClusterShape, WorkerShape
<1>4. CASE WriteWorkflow(w)
  <2>1. wf' \in WorkflowRow
    BY <1>4, WorkflowRowTypes DEF WriteWorkflow, DbShape, WorkflowRow
  <2>2. [me EXCEPT !.pc = "finish", !.new = Absent] \in GoodWorker
    BY <1>0 DEF GoodWorker, Worker, Pcs, UpdatingTask
  <2>3. QED
    BY <1>4, <2>1, <2>2 DEF WriteWorkflow, DbShape, JobShape, ClusterShape, WorkerShape
<1>5. CASE Finish(w)
  <2> DEFINE failure == IF ~HasBackend(me.job) THEN {"FAILED"}
                        ELSE IF grp[g].status \in FailedStatuses THEN {"FAILED_UPSTREAM"} ELSE {}
             J == CleanupGroupJobs(me.job, me.eff, HasBackend(me.job))
                    \cup {UpdateGroup(d, f) : d \in Downstream(g), f \in failure}
  <2>1. Downstream(g) \subseteq Groups
    BY DEF Downstream
  <2>2. failure \subseteq GroupStatus
    BY Vocabulary DEF GroupStatus
  <2>3. J \subseteq Named
    <3> HIDE DEF failure
    <3>1. QED
      BY <1>0, <2>1, <2>2, JobTypes, CleanupShape
  <2>4. Send(J) /\ grp' = CleanedGroups(me.job, me.eff, HasBackend(me.job))
    BY <1>5 DEF Finish
  <2>5. JobShape' /\ grp' \in [Groups -> GroupRow]
    BY <1>0, <2>3, <2>4, SendTypes, CleanupShape DEF JobShape
  <2>6. [me EXCEPT !.pc = "downstream", !.todo = Downstream(g)] \in GoodWorker
    BY <1>0, <2>1 DEF GoodWorker, Worker, Pcs, UpdatingTask
  <2>7. \/ worker' = [worker EXCEPT ![w].pc = "downstream", ![w].todo = Downstream(g)]
        \/ worker' = [worker EXCEPT ![w] = Idle]
    BY <1>5 DEF Finish, Done
  <2>8. WorkerShape'
    BY <2>6, <2>7, <1>0, WorkerMoves DEF WorkerShape
  <2>9. QED
    BY <1>5, <2>5, <2>8 DEF Finish, DbShape, ClusterShape
<1>6. CASE ReleaseDownstream(w)
  <2>1. PICK d \in me.todo :
          LET rest  == grp[d].remaining \ {g}
              ready == me.ready \cup {x \in {d} : rest = {}}
          IN /\ grp' = [grp EXCEPT ![d].remaining = rest]
             /\ IF me.todo # {d}
                THEN worker' = [worker EXCEPT ![w].todo = @ \ {d}, ![w].ready = ready]
                ELSE IF ready = {} THEN Done(w)
                ELSE worker' = [worker EXCEPT ![w].pc = "setGroups", ![w].todo = {},
                                              ![w].ready = ready]
    BY <1>6 DEF ReleaseDownstream
  <2> DEFINE rest  == grp[d].remaining \ {g}
             ready == me.ready \cup {x \in {d} : rest = {}}
  <2>2. ready \subseteq Groups
    BY <1>0
  <2>3. grp' \in [Groups -> GroupRow]
    <3>1. grp \in [Groups -> GroupRow] /\ d \in Groups
      BY <1>0 DEF DbShape
    <3>2. [grp[d] EXCEPT !.remaining = rest] \in GroupRow
      BY <3>1 DEF GroupRow
    <3>3. QED
      BY <2>1, <3>1, <3>2
  <2>4. WorkerShape'
    <3> HIDE DEF ready
    <3>1. /\ [me EXCEPT !.todo = @ \ {d}, !.ready = ready] \in GoodWorker
          /\ [me EXCEPT !.pc = "setGroups", !.todo = {}, !.ready = ready] \in GoodWorker
      BY ZenonT(60), <1>0, <2>2 DEF GoodWorker, Worker, Pcs, UpdatingTask
    <3>2. \/ worker' = [worker EXCEPT ![w].todo = @ \ {d}, ![w].ready = ready]
          \/ worker' = [worker EXCEPT ![w] = Idle]
          \/ worker' = [worker EXCEPT ![w].pc = "setGroups", ![w].todo = {}, ![w].ready = ready]
      BY <2>1 DEF Done, ready
    <3>3. QED
      BY <3>1, <3>2, <1>0, WorkerMoves DEF WorkerShape
  <2>5. QED
    BY <1>6, <2>3, <2>4 DEF ReleaseDownstream, DbShape, JobShape, ClusterShape
<1>7. QED
  BY <1>1, <1>2, <1>3, <1>4, <1>5, <1>6

\* The remaining jobs of the workers, and their death, keep the shape.
LEMMA OtherShape ==
  ASSUME Shape, NEW w \in Workers, Other(w) \/ Crash(w)
  PROVE  Shape'
<1> USE DEF Shape, db, jobs, cluster, CrashShape
<1>0. /\ worker[w] \in GoodWorker /\ worker[w].job \in Named
  BY DEF WorkerShape, GoodWorker
<1>j. ASSUME NEW j \in queue
      PROVE  /\ j \in Named /\ j.force \in BOOLEAN /\ j.group \in Groups \cup {None}
             /\ \A s \in TaskGroupStatuses :
                  TakeAndSend(j, {UpdateGroup(j.group, s)}) => JobShape'
             /\ Take(j) => JobShape'
  <2>1. j \in Named /\ j.force \in BOOLEAN /\ j.group \in Groups \cup {None}
    BY DEF JobShape, Named, Job
  <2>2. \A s \in TaskGroupStatuses : {UpdateGroup(j.group, s)} \subseteq Named
    BY <2>1, JobTypes DEF GroupStatus
  <2>3. QED
    BY <2>1, <2>2, SendTypes DEF Take, JobShape
<1>1. CASE CancelWorkflow(w)
  <2>1. PICK j \in queue :
          TakeAndSend(j, {[UpdateGroup(g, "FAILED_CANCELED") EXCEPT !.force = j.force] :
                            g \in {h \in Groups : /\ grp[h].status # Absent
                                                  /\ grp[h].status \notin Finished \/ j.force}})
    BY <1>1 DEF CancelWorkflow
  <2>2. ASSUME NEW g \in Groups
        PROVE  [UpdateGroup(g, "FAILED_CANCELED") EXCEPT !.force = j.force] \in Named
    <3>1. UpdateGroup(g, "FAILED_CANCELED") \in Named
      BY JobTypes, Vocabulary DEF GroupStatus
    <3>2. QED
      BY <3>1, <1>j DEF Named, Job
  <2>3. JobShape'
    BY <2>1, <2>2, SendTypes DEF JobShape
  <2>4. QED
    BY <1>1, <2>3 DEF CancelWorkflow, DbShape, WorkerShape, ClusterShape
<1>2. CASE CheckQueueTimeout(w)
  <2>1. \E j \in queue : \/ TakeAndSend(j, {UpdateGroup(j.group, "FAILED_QUEUE_TIMEOUT")})
                         \/ Take(j)
    BY <1>2 DEF CheckQueueTimeout
  <2>2. JobShape'
    BY <2>1, <1>j, Vocabulary
  <2>3. QED
    BY <1>2, <2>2 DEF CheckQueueTimeout, DbShape, WorkerShape, ClusterShape
<1>3. CASE CheckRunTimeout(w)
  <2>1. \E j \in queue : \/ TakeAndSend(j, {UpdateGroup(j.group, "FAILED_EXEC_TIMEOUT")})
                         \/ Take(j)
    BY <1>3 DEF CheckRunTimeout
  <2>2. JobShape'
    BY <2>1, <1>j, Vocabulary
  <2>3. QED
    BY <1>3, <2>2 DEF CheckRunTimeout, DbShape, WorkerShape, ClusterShape
<1>4. CASE CleanupWorkflow(w)
  <2>1. JobShape'
    BY <1>4, <1>j DEF CleanupWorkflow
  <2>2. QED
    BY <1>4, <2>1 DEF CleanupWorkflow, DbShape, WorkerShape, ClusterShape
<1>5. CASE Crash(w)
  <2>1. WorkerShape'
    BY <1>5, <1>0, WorkerMoves DEF Crash, Done, WorkerShape
  <2>2. JobShape' /\ CrashShape'
    BY <1>5, <1>0, WorkflowAssumption DEF Crash, JobShape
  <2>3. QED
    BY <1>5, <2>1, <2>2 DEF Crash, DbShape, ClusterShape
<1>6. QED
  BY <1>1, <1>2, <1>3, <1>4, <1>5 DEF Other

\* What the backend worker does to the queue and to itself.
LEMMA AgentTypes ==
  ASSUME Shape
  PROVE  /\ agent.job \in Named /\ [pc |-> "idle", job |-> NoJob] \in [pc : {"idle", "apply", "execute"}, job : Named]
         /\ \A j \in Named : [pc |-> "apply", job |-> j] \in [pc : {"idle", "apply", "execute"}, job : Named]
         /\ [agent EXCEPT !.pc = "execute"] \in [pc : {"idle", "apply", "execute"}, job : Named]
         /\ \A j \in queue : j \in Named /\ (Take(j) => JobShape')
         /\ NoPod \in [retry : Nat, phase : DOMAIN Phase]
         /\ \A r \in Nat : Pod(r) \in [retry : Nat, phase : DOMAIN Phase]
         /\ \A t \in Tasks : Pod(Latest(t)) \in [retry : Nat, phase : DOMAIN Phase]
<1>1. NoJob \in Named
  BY JobTypes
<1>2. agent \in [pc : {"idle", "apply", "execute"}, job : Named]
  BY DEF Shape, ClusterShape
<1>3. [agent EXCEPT !.pc = "execute"] \in [pc : {"idle", "apply", "execute"}, job : Named]
  BY <1>2
<1>4. \A j \in queue : j \in Named /\ (Take(j) => JobShape')
  BY DEF Shape, JobShape, Take
<1>5. \A t \in Tasks : Latest(t) \in Nat
  BY LatestRetry, WorkflowAssumption DEF Retries
<1>6. /\ NoPod \in [retry : Nat, phase : DOMAIN Phase]
      /\ \A r \in Nat : Pod(r) \in [retry : Nat, phase : DOMAIN Phase]
  BY DEF NoPod, Pod, Phase
<1>7. QED
  BY <1>1, <1>2, <1>3, <1>4, <1>5, <1>6

\* What the service prepares for the backend keeps the shape.
LEMMA PrepareShape ==
  ASSUME Shape, PrepareCreateGroup \/ PrepareCleanupGroup \/ PrepareRescheduleTask
  PROVE  Shape'
<1> USE DEF Shape, db, jobs, cluster, CrashShape
<1>1. CASE PrepareCreateGroup
  <2>1. PICK j \in queue :
          \/ Launch(j) /\ Take(j)
          \/ TakeAndSend(j, {UpdateGroup(j.group, "FAILED_SERVER_ERROR")}) /\ UNCHANGED agent
    BY <1>1 DEF PrepareCreateGroup
  <2>2. UpdateGroup(j.group, "FAILED_SERVER_ERROR") \in Named
    BY JobTypes, Vocabulary DEF JobShape, Named, Job, GroupStatus
  <2>3. JobShape'
    BY <2>1, <2>2, AgentTypes, SendTypes DEF JobShape
  <2>4. agent' \in [pc : {"idle", "apply", "execute"}, job : Named]
    BY <2>1, AgentTypes DEF Launch, ClusterShape
  <2>5. QED
    BY <1>1, <2>3, <2>4 DEF PrepareCreateGroup, DbShape, WorkerShape, ClusterShape
<1>2. CASE PrepareCleanupGroup
  <2>1. PICK j \in queue : Launch(j) /\ Take(j)
    BY <1>2 DEF PrepareCleanupGroup
  <2>2. agent' \in [pc : {"idle", "apply", "execute"}, job : Named]
    BY <2>1, AgentTypes DEF Launch
  <2>3. QED
    BY <1>2, <2>1, <2>2, AgentTypes DEF PrepareCleanupGroup, DbShape, WorkerShape, ClusterShape
<1>3. CASE PrepareRescheduleTask
  <2> DEFINE fail(j) == BackendError(j)
  <2>1. PICK j \in queue :
          /\ j.type = "RescheduleTask"
          /\ \/ Launch(j) /\ Take(j)
             \/ /\ UNCHANGED agent
                /\ \E T \in SUBSET {j.task} :
                     TakeAndSend(j, {fail(j)} \cup {TaskJob("CleanupGroup", t, j.retry) : t \in T})
    BY <1>3 DEF PrepareRescheduleTask
  <2>2. j \in Named /\ j.task \in Tasks /\ j.retry \in Nat
    BY <2>1 DEF JobShape, Named, Job
  <2>3. fail(j) \in Named
    BY <2>2, BackendErrorTypes DEF Named
  <2>4. \A t \in {j.task} : TaskJob("CleanupGroup", t, j.retry) \in Named
    BY <2>2, JobTypes DEF BackendTypes
  <2>5. JobShape'
    <3> HIDE DEF fail
    <3>1. ASSUME NEW T \in SUBSET {j.task}
          PROVE  {fail(j)} \cup {TaskJob("CleanupGroup", t, j.retry) : t \in T} \in SUBSET Named
      BY <2>3, <2>4
    <3>2. QED
      BY <2>1, <3>1, AgentTypes, SendTypes DEF JobShape
  <2>6. agent' \in [pc : {"idle", "apply", "execute"}, job : Named]
    BY <2>1, AgentTypes DEF Launch, ClusterShape
  <2>7. QED
    BY <1>3, <2>5, <2>6 DEF PrepareRescheduleTask, DbShape, WorkerShape, ClusterShape
<1>4. QED
  BY <1>1, <1>2, <1>3

\* What the backend worker does and reports keeps the shape.
LEMMA ClusterStepShape ==
  ASSUME Shape, Apply \/ Execute \/ Refuse \/ Disconnect
  PROVE  Shape'
<1> USE DEF Shape, db, jobs, cluster, CrashShape
<1> DEFINE j       == agent.job
           Agent   == [pc : {"idle", "apply", "execute"}, job : Named]
           PodType == [retry : Nat, phase : DOMAIN Phase]
<1>0. /\ j \in Named /\ j.group \in Groups \cup {None} /\ j.retry \in Nat
      /\ pod \in [Tasks -> PodType] /\ [pc |-> "idle", job |-> NoJob] \in Agent
  BY AgentTypes DEF ClusterShape, Named, Job
<1>1. CASE Apply
  <2>1. agent' \in Agent
    BY <1>1, AgentTypes DEF Apply
  <2>2. pod' \in [Tasks -> PodType]
    <3>1. ASSUME NEW t \in Tasks
          PROVE  pod[t] \in PodType /\ Pod(Latest(t)) \in PodType /\ NoPod \in PodType
                 /\ Pod(j.retry) \in PodType
      BY <1>0, AgentTypes
    <3> HIDE DEF PodType
    <3>2. QED
      BY <1>1, <3>1 DEF Apply
  <2>3. QED
    BY <1>1, <2>1, <2>2 DEF Apply, DbShape, JobShape, WorkerShape, ClusterShape
<1>2. CASE Execute
  <2>1. \/ /\ grp' = PatchCleanedUp(j.group) /\ Send(CleanupJobs(j.group))
        \/ /\ UNCHANGED grp
           /\ \E T \in SUBSET ({j.task} \ {None}) :
                Send({TaskJob("CleanupGroup", t, j.retry) : t \in T})
    BY <1>2 DEF Execute
  <2>2. grp' \in [Groups -> GroupRow]
    BY ZenonT(60), <1>0, <2>1, CleanupShape DEF DbShape
  <2>3. JobShape'
    <3>1. \A t \in {j.task} \ {None} : TaskJob("CleanupGroup", t, j.retry) \in Named
      <4>1. \A t \in {j.task} \ {None} : t \in Tasks
        BY <1>0 DEF Named, Job
      <4>2. QED
        BY <4>1, <1>0, JobTypes DEF BackendTypes
    <3>2. CASE Send(CleanupJobs(j.group))
      BY <1>0, <3>2, CleanupShape, SendTypes DEF JobShape
    <3>3. CASE \E T \in SUBSET ({j.task} \ {None}) :
                 Send({TaskJob("CleanupGroup", t, j.retry) : t \in T})
      <4>1. PICK T \in SUBSET ({j.task} \ {None}) :
              Send({TaskJob("CleanupGroup", t, j.retry) : t \in T})
        BY <3>3
      <4>2. {TaskJob("CleanupGroup", t, j.retry) : t \in T} \in SUBSET Named
        BY <3>1
      <4>3. QED
        BY <4>1, <4>2, SendTypes DEF JobShape
    <3>4. QED
      BY <2>1, <3>2, <3>3
  <2>4. QED
    BY <1>2, <1>0, <2>2, <2>3 DEF Execute, DbShape, WorkerShape, ClusterShape
<1>3. CASE Refuse
  <2>1. agent' \in Agent
    BY <1>3, <1>0 DEF Refuse
  <2>2. CASE j.type = "CreateGroup"
    <3>1. PICK T \in SUBSET TasksOf(j.group) :
            pod' = [t \in Tasks |-> IF t \in T /\ pod[t].phase = "none"
                                    THEN Pod(Latest(t)) ELSE pod[t]]
      BY <1>3, <2>2 DEF Refuse
    <3>2. pod' \in [Tasks -> PodType]
      <4>1. ASSUME NEW t \in Tasks
            PROVE  pod[t] \in PodType /\ Pod(Latest(t)) \in PodType
        BY <1>0, AgentTypes
      <4> HIDE DEF PodType
      <4>2. QED
        BY <3>1, <4>1
    <3>3. {UpdateGroup(j.group, "FAILED_SERVER_ERROR")} \in SUBSET Named
      BY <1>0, JobTypes, Vocabulary DEF GroupStatus
    <3>4. JobShape'
      BY <1>3, <2>2, <3>3, SendTypes DEF Refuse, JobShape
    <3>5. QED
      BY <1>3, <2>1, <3>2, <3>4 DEF Refuse, DbShape, WorkerShape, ClusterShape
  <2>3. CASE j.type = "RescheduleTask"
    <3>1. pod' = [pod EXCEPT ![j.task] = IF @.retry < j.retry THEN NoPod ELSE @]
      BY <1>3, <2>3 DEF Refuse
    <3>2. pod' \in [Tasks -> PodType]
      BY <1>0, <3>1, AgentTypes
    <3>3. {BackendError(j)} \in SUBSET Named
      BY <1>0, <2>3, BackendErrorTypes DEF Named
    <3>4. JobShape'
      BY <1>3, <2>3, <3>3, SendTypes DEF Refuse, JobShape
    <3>5. QED
      BY <1>3, <2>1, <3>2, <3>4 DEF Refuse, DbShape, WorkerShape, ClusterShape
  <2>4. CASE j.type \notin {"CreateGroup", "RescheduleTask"}
    BY <1>3, <1>0, <2>1, <2>4 DEF Refuse, DbShape, JobShape, WorkerShape, ClusterShape
  <2>5. QED
    BY <2>2, <2>3, <2>4
<1>4. CASE Disconnect
  <2>1. JobShape' /\ CrashShape'
    BY <1>4, <1>0, WorkflowAssumption DEF Disconnect, JobShape
  <2>2. QED
    BY <1>4, <1>0, <2>1 DEF Disconnect, DbShape, WorkerShape, ClusterShape
<1>5. QED
  BY <1>1, <1>2, <1>3, <1>4

\* The reports about pods keep the shape.
LEMMA PodShape ==
  ASSUME Shape, NEW t \in Tasks, PodMoves(t) \/ PodEnds(t)
  PROVE  Shape'
<1> USE DEF Shape, db, jobs, cluster, CrashShape
<1> DEFINE PodType == [retry : Nat, phase : DOMAIN Phase]
<1>0. pod \in [Tasks -> PodType] /\ pod[t].retry \in Nat
  BY DEF ClusterShape
<1>1. CASE PodMoves(t)
  <2>1. PICK s \in Reports :
          /\ pod' = [pod EXCEPT ![t].phase = s]
          /\ \/ Send({UpdateTask(t, pod[t].retry, s)})
             \/ \E late \in StartTimeouts(t, s) : Send({UpdateTask(t, pod[t].retry, s), late})
    BY <1>1 DEF PodMoves
  <2>2. pod' \in [Tasks -> PodType]
    <3>1. s \in DOMAIN Phase
      BY WorkflowAssumption DEF Phase
    <3>2. QED
      BY <1>0, <2>1, <3>1
  <2>3. UpdateTask(t, pod[t].retry, s) \in Named
    BY <1>0, JobTypes, Vocabulary, WorkflowAssumption DEF GroupStatus
  <2>4. \A late \in StartTimeouts(t, s) : late \in Named
    <3>1. UpdateTask(t, pod[t].retry, "FAILED_START_TIMEOUT") \in Named
      BY <1>0, JobTypes, Vocabulary DEF GroupStatus
    <3>2. \A a \in {"NONE", "RESCHEDULED"} :
            [UpdateTask(t, pod[t].retry, "FAILED_START_TIMEOUT") EXCEPT !.action = a] \in Named
      BY <3>1 DEF Named, Job, ExitActions
    <3>3. QED
      BY <3>2 DEF StartTimeouts
  <2>5. JobShape'
    BY <2>1, <2>3, <2>4, SendTypes DEF JobShape
  <2>6. QED
    BY <1>1, <2>2, <2>5 DEF PodMoves, DbShape, WorkerShape, ClusterShape
<1>2. CASE PodEnds(t)
  <2>1. PICK o \in Outcomes :
          /\ pod' = [pod EXCEPT ![t].phase = "ended"]
          /\ Send({[UpdateTask(t, pod[t].retry, o.status) EXCEPT !.action = o.action]})
    BY <1>2 DEF PodEnds
  <2>2. pod' \in [Tasks -> PodType]
    <3>1. "ended" \in DOMAIN Phase
      BY DEF Phase
    <3>2. QED
      BY <1>0, <2>1, <3>1
  <2>3. UpdateTask(t, pod[t].retry, o.status) \in Named /\ o.action \in ExitActions
    <3>1. o.status \in GroupStatus /\ o.action \in ExitActions
      BY Vocabulary, WorkflowAssumption DEF GroupStatus, GroupFinished, FailedStatuses
    <3>2. QED
      BY <1>0, <3>1, JobTypes
  <2>4. {[UpdateTask(t, pod[t].retry, o.status) EXCEPT !.action = o.action]} \in SUBSET Named
    BY <2>3 DEF Named, Job
  <2>5. JobShape'
    BY <2>1, <2>4, SendTypes DEF JobShape
  <2>6. QED
    BY <1>2, <2>2, <2>5 DEF PodEnds, DbShape, WorkerShape, ClusterShape
<1>3. QED
  BY <1>1, <1>2

\* Cancels and the deletion of the backend keep the shape.
LEMMA RequestShape ==
  ASSUME Shape, DeleteBackend \/ \E force \in CancelForms : AskCancel(force)
  PROVE  Shape'
<1> USE DEF Shape, db, jobs, cluster, CrashShape
<1>1. CASE DeleteBackend
  BY <1>1 DEF DeleteBackend, DbShape, JobShape, WorkerShape, ClusterShape
<1>2. ASSUME NEW force \in CancelForms, AskCancel(force)
      PROVE  Shape'
  <2>1. {[JobOf("CancelWorkflow") EXCEPT !.force = force]} \in SUBSET Named
    <3>1. JobOf("CancelWorkflow") \in Named /\ force \in BOOLEAN
      BY JobTypes, WorkflowAssumption DEF FrontendTypes
    <3>2. QED
      BY <3>1 DEF Named, Job
  <2>2. JobShape'
    BY <1>2, <2>1, SendTypes DEF AskCancel, JobShape
  <2>3. QED
    BY <1>2, <2>2 DEF AskCancel, DbShape, WorkerShape, ClusterShape
<1>3. QED
  BY <1>1, <1>2

\* A stuttering step keeps the shape.
LEMMA StutterShape == Shape /\ UNCHANGED vars => Shape'
  BY DEF vars, db, jobs, cluster, Shape, DbShape, JobShape, WorkerShape, ClusterShape, CrashShape

\* The system stays in shape.
LEMMA ShapeInvariant == Spec => []Shape
<1>1. Shape /\ [Next]_vars => Shape'
  <2> SUFFICES ASSUME Shape, [Next]_vars PROVE Shape'
    OBVIOUS
  <2>1. ASSUME NEW w \in Workers, WorkerStep(w) \/ Crash(w) PROVE Shape'
    BY <2>1, SubmitShape, ProcessShape, CancelShape, TaskUpdateShape, EndTaskShape,
       GroupUpdateShape, OtherShape DEF WorkerStep, Update
  <2>2. ASSUME AgentStep \/ Refuse \/ Disconnect PROVE Shape'
    BY <2>2, PrepareShape, ClusterStepShape DEF AgentStep
  <2>3. ASSUME NEW t \in Tasks, PodMoves(t) \/ PodEnds(t) PROVE Shape'
    BY <2>3, PodShape
  <2>4. ASSUME DeleteBackend \/ \E force \in CancelForms : AskCancel(force) PROVE Shape'
    BY <2>4, RequestShape
  <2>5. CASE UNCHANGED vars
    BY <2>5, StutterShape
  <2>6. QED
    BY <2>1, <2>2, <2>3, <2>4, <2>5 DEF Next
<1>2. QED
  BY <1>1, InitShape, PTL DEF Spec

\* Every row, job, worker and pod is one the program can hold, after any steps.
THEOREM TypeCorrect == Spec => []TypeOK
  BY ShapeInvariant, ShapeGivesTypes, PTL

-----------------------------------------------------------------------------
(***************************************************************************)
(* What a step does to the status of a group: it is not touched, or the    *)
(* group was not finished and a named statement wrote it.                  *)
(***************************************************************************)
\* A guarded UPDATE only moves a row out of one of its sources.
LEMMA EnterMoves ==
  ASSUME NEW row \in GroupRow, NEW s, NEW sources
  PROVE  \/ Enter(row, s, sources).status = row.status
         \/ row.status \in sources /\ Enter(row, s, sources).status = s
  BY DEF Enter, GroupRow

\* No guarded UPDATE of a group moves a finished one.
LEMMA UpdateMoves ==
  ASSUME NEW row \in GroupRow, NEW s, NEW force
  PROVE  \/ UpdateGroupRow(row, s, force).status = row.status
         \/ row.status \notin GroupFinished /\ UpdateGroupRow(row, s, force).status = s
<1>1. GroupSources(s, force) \cap GroupFinished = {}
  BY DEF GroupSources, GroupFinished, FailedStatuses, Prerunning, InQueue, Prescheduling
<1>2. QED
  BY <1>1, EnterMoves DEF UpdateGroupRow

\* patch_cleaned_up leaves the status of every group alone.
LEMMA CleanupKeepsStatus ==
  ASSUME Shape, NEW g \in Groups
  PROVE  /\ \A h : PatchCleanedUp(h)[g].status = grp[g].status
         /\ \A j, s, f : CleanedGroups(j, s, f)[g].status = grp[g].status
<1>1. grp \in [Groups -> GroupRow]
  BY DEF Shape, DbShape
<1>2. ASSUME NEW h PROVE PatchCleanedUp(h)[g].status = grp[g].status
  <2>1. [grp[g] EXCEPT !.cleaned = TRUE].status = grp[g].status
    BY <1>1 DEF GroupRow
  <2>2. PatchCleanedUp(h)[g] \in {grp[g], [grp[g] EXCEPT !.cleaned = TRUE]}
    BY <1>1 DEF PatchCleanedUp
  <2>3. QED
    BY <2>1, <2>2
<1>3. QED
  BY <1>2 DEF CleanedGroups

\* The statuses a group has before it starts, and those that launching gives it.
Unstarted == {Absent, "SUBMITTING", "WAITING"}
Launching == {"SUBMITTING", "WAITING", "PROCESSING"}

Moved(g, w) ==
  \/ grp'[g].status = grp[g].status
  \/ /\ grp[g].status \notin GroupFinished
     /\ \/ grp[g].status \in Unstarted /\ grp'[g].status \in Launching
        \/ At(w, "cancel") /\ grp'[g].status = worker[w].job.status
        \/ At(w, "writeGroup") /\ worker[w].job.group = g /\ grp'[g].status = worker[w].new

\* Submitting and launching move only groups that have not started.
LEMMA LaunchMoves ==
  ASSUME Shape, NEW w \in Workers, NEW g \in Groups,
         SetGroups(w) \/ InsertGroups(w) \/ MarkWaiting(w)
  PROVE  \/ grp'[g].status = grp[g].status
         \/ /\ grp[g].status \notin GroupFinished
            /\ grp[g].status \in Unstarted /\ grp'[g].status \in Launching
<1>1. grp[g] \in GroupRow /\ "ABSENT" \notin GroupFinished
      /\ Launching \cap GroupFinished = {}
  BY DEF Shape, DbShape, Launching, GroupFinished, FailedStatuses
<1>2. CASE SetGroups(w)
  <2>1. \/ grp'[g] = grp[g]
        \/ /\ Eligible(g)
           /\ grp'[g] = [grp[g] EXCEPT !.status = "PROCESSING", !.stamps = @ \cup {"processing"}]
    BY <1>2 DEF SetGroups
  <2>2. QED
    BY <1>1, <2>1 DEF Eligible, Unstarted, Launching, GroupRow
<1>3. CASE InsertGroups(w)
  <2>1. \/ grp'[g] = grp[g]
        \/ /\ grp[g].status = Absent
           /\ grp'[g] = [grp[g] EXCEPT !.status = "SUBMITTING", !.remaining = Upstream[g]]
    BY <1>3 DEF InsertGroups
  <2>2. QED
    BY <1>1, <2>1 DEF Absent, Unstarted, Launching, GroupRow
<1>4. CASE MarkWaiting(w)
  <2>1. \/ grp'[g] = grp[g]
        \/ /\ grp[g].status = "SUBMITTING"
           /\ grp'[g] = [grp[g] EXCEPT !.status = "WAITING"]
    BY <1>4 DEF MarkWaiting
  <2>2. QED
    BY <1>1, <2>1 DEF Unstarted, Launching, GroupRow
<1>5. QED
  BY <1>2, <1>3, <1>4

\* No statement of UpdateGroup moves a finished group.
LEMMA UpdateGroupMoves ==
  ASSUME Shape, NEW w \in Workers, NEW g \in Groups, Update(w)
  PROVE  Moved(g, w)
<1> USE DEF db
<1>0. grp \in [Groups -> GroupRow] /\ grp[g] \in GroupRow
  BY DEF Shape, DbShape
<1>1. CASE Cancel(w)
  <2>1. \/ grp'[g] = grp[g]
        \/ grp'[g] = UpdateGroupRow(grp[g], worker[w].job.status, worker[w].job.force)
    BY <1>0, <1>1 DEF Cancel
  <2>2. QED
    BY <1>0, <1>1, <2>1, UpdateMoves DEF Cancel, Moved
<1>2. CASE WriteGroup(w)
  <2>1. \/ grp'[g] = grp[g]
        \/ worker[w].job.group = g /\ grp'[g] = UpdateGroupRow(grp[g], worker[w].new, FALSE)
    BY <1>0, <1>2 DEF WriteGroup
  <2>2. At(w, "writeGroup")
    BY <1>2 DEF WriteGroup
  <2>3. \/ UpdateGroupRow(grp[g], worker[w].new, FALSE).status = grp[g].status
        \/ /\ grp[g].status \notin GroupFinished
           /\ UpdateGroupRow(grp[g], worker[w].new, FALSE).status = worker[w].new
    BY <1>0, UpdateMoves
  <2>4. QED
    BY <2>1, <2>2, <2>3 DEF Moved
<1>3. CASE FailWithoutBackend(w)
  <2>1. \A j : FailureGroups(j)[g].status = grp[g].status
    BY CleanupKeepsStatus DEF FailureGroups
  <2>2. PICK j : grp' = FailureGroups(j)
    BY <1>3 DEF FailWithoutBackend
  <2> QED
    BY <2>1, <2>2 DEF Moved
<1>4. CASE Finish(w)
  BY <1>4, CleanupKeepsStatus DEF Finish, Moved
<1>5. CASE ReleaseDownstream(w)
  <2>1. PICK d : grp' = [grp EXCEPT ![d].remaining = grp[d].remaining \ {worker[w].job.group}]
    BY <1>5 DEF ReleaseDownstream
  <2>2. [grp[g] EXCEPT !.remaining = grp[d].remaining \ {worker[w].job.group}].status
          = grp[g].status
    BY <1>0 DEF GroupRow
  <2>3. grp'[g] \in {grp[g], [grp[g] EXCEPT !.remaining =
                                grp[d].remaining \ {worker[w].job.group}]}
    BY <1>0, <2>1
  <2>4. QED
    BY <2>2, <2>3 DEF Moved
<1>6. CASE FetchCancel(w) \/ Recheck(w) \/ UpdateWholeGroup(w) \/ UpdateNoTask(w)
           \/ CheckStartTimeout(w)
  BY <1>6 DEF FetchCancel, Recheck, UpdateWholeGroup, UpdateNoTask, CheckStartTimeout, Moved
<1>7. CASE EndLateStart(w) \/ UpdateTaskStatus(w) \/ Reread(w) \/ UpdateSiblings(w)
  BY <1>7 DEF EndLateStart, UpdateTaskStatus, UpdateTaskRowOf, Reread, UpdateSiblings, Moved
<1>8. CASE InsertRetry(w) \/ SendRetry(w) \/ Aggregate(w) \/ ReadGroups(w) \/ WriteWorkflow(w)
  BY <1>8 DEF InsertRetry, SendRetry, Aggregate, ReadGroups, WriteWorkflow, Moved
<1>9. QED
  BY <1>1, <1>2, <1>3, <1>4, <1>5, <1>6, <1>7, <1>8 DEF Update

\* No step at all moves a finished group.
LEMMA GroupMoves ==
  ASSUME Shape, [Next]_vars, NEW g \in Groups
  PROVE  grp'[g].status = grp[g].status \/ \E w \in Workers : Moved(g, w)
<1> USE DEF db
<1>1. ASSUME NEW w \in Workers, WorkerStep(w) \/ Crash(w)
      PROVE  Moved(g, w)
  <2>1. CASE InsertGroups(w) \/ MarkWaiting(w)
    BY <2>1, LaunchMoves DEF Moved
  <2>2. CASE CheckWaiting(w) \/ LaunchDownstream(w)
    <3>1. SetGroups(w) \/ UNCHANGED grp
      BY <2>2 DEF CheckWaiting, LaunchDownstream
    <3>2. QED
      BY <3>1, LaunchMoves DEF Moved
  <2>3. CASE InsertWorkflow(w) \/ SetTasks(w) \/ SendCreate(w)
    BY <2>3 DEF InsertWorkflow, SetTasks, SendCreate, Moved
  <2>4. CASE Update(w)
    BY <2>4, UpdateGroupMoves
  <2>5. CASE Other(w) \/ Crash(w)
    BY <2>5 DEF Other, CancelWorkflow, CheckQueueTimeout, CheckRunTimeout, CleanupWorkflow, Crash,
                Moved
  <2>6. QED
    BY <1>1, <2>1, <2>2, <2>3, <2>4, <2>5 DEF WorkerStep, Submit, Process
<1>2. CASE Execute
  BY <1>2, CleanupKeepsStatus DEF Execute
<1>3. CASE PrepareCreateGroup \/ PrepareCleanupGroup \/ PrepareRescheduleTask \/ Apply
           \/ Refuse \/ Disconnect
  BY <1>3 DEF PrepareCreateGroup, PrepareCleanupGroup, PrepareRescheduleTask, Apply, Refuse,
              Disconnect
<1>4. CASE \/ \E t \in Tasks : PodMoves(t) \/ PodEnds(t)
           \/ \E force \in CancelForms : AskCancel(force)
           \/ DeleteBackend
  BY <1>4 DEF PodMoves, PodEnds, AskCancel, DeleteBackend
<1>5. CASE UNCHANGED vars
  BY <1>5 DEF vars
<1>6. QED
  BY <1>1, <1>2, <1>3, <1>4, <1>5 DEF Next, AgentStep

\* A group that has finished keeps its status, whatever report, cancel, timeout or
\* retry comes after: no guarded UPDATE has a finished status among its sources.
THEOREM FinishedGroupsStay == Spec => GroupsStayFinished
<1>1. ASSUME Shape, [Next]_vars
      PROVE  [\A g \in Groups : grp[g].status \in GroupFinished => grp'[g].status = grp[g].status]_vars
  BY <1>1, GroupMoves DEF Moved
<1>2. QED
  BY <1>1, ShapeInvariant, PTL DEF Spec, GroupsStayFinished

-----------------------------------------------------------------------------
(***************************************************************************)
(* The end of the workflow.  A worker that is about to write a finished    *)
(* status into the workflow has seen every group finished, and since a     *)
(* finished group keeps its status what it computed is still right when it *)
(* writes.  A group is never RESCHEDULED, which a task may be: finished()  *)
(* would take such a group for one that is over.                           *)
(***************************************************************************)
EndsWith(s) == /\ \A g \in Groups : grp[g].status \in GroupFinished
               /\ s = AggregateWorkflow(GroupStatuses)

PlainGroups == \A g \in Groups : grp[g].status # "RESCHEDULED"

PlainWorker(x) == /\ x.pc \in {"cancel", "recheck"} => x.job.status # "RESCHEDULED"
                  /\ x.pc = "writeGroup" => x.new # "RESCHEDULED"
EndingWorker(x) == x.pc = "writeWorkflow" /\ x.new \in WorkflowFinished => EndsWith(x.new)

Ends == /\ PlainGroups
        /\ \A v \in Workers : PlainWorker(worker[v]) /\ EndingWorker(worker[v])
        /\ wf.ended => wf.status \in WorkflowFinished /\ EndsWith(wf.status)

\* At the start nothing is about to be written.
LEMMA InitEnds == Init => Ends
  BY DEF Init, Ends, PlainGroups, PlainWorker, EndingWorker, Idle, Absent

\* A finished aggregate means that every group is finished.
LEMMA AggregatesEnd ==
  ASSUME PlainGroups, grp \in [Groups -> GroupRow],
         AggregateWorkflow(GroupStatuses) \in WorkflowFinished
  PROVE  EndsWith(AggregateWorkflow(GroupStatuses))
<1> DEFINE all == {GroupStatuses[g] : g \in DOMAIN GroupStatuses}
<1>1. \A g \in Groups : grp[g].status \in all
  BY DEF GroupStatuses
<1>2. "RUNNING" \notin WorkflowFinished /\ "PENDING" \notin WorkflowFinished
  BY DEF WorkflowFinished, FailedStatuses
<1>3. all \ Finished = {}
  BY <1>2 DEF AggregateWorkflow
<1>4. QED
  BY <1>1, <1>3 DEF EndsWith, Finished, PlainGroups

\* What a step does to a worker: it leaves it alone, or takes it to a place where
\* nothing is about to be written, or it is one of the steps that prepare a write.
Loaded == {"cancel", "recheck", "insertRetry", "writeGroup", "writeWorkflow"}
Loads(v) == \/ FetchCancel(v) \/ Cancel(v) \/ Recheck(v) \/ Reread(v) \/ Aggregate(v)
            \/ ReadGroups(v)

\* A step that prepares no write leaves no worker about to write.
LEMMA UnloadedMoves ==
  ASSUME Shape, NEW w \in Workers, WorkerStep(w) \/ Crash(w), ~Loads(w), NEW v \in Workers
  PROVE  worker'[v] = worker[v] \/ worker'[v].pc \notin Loaded
<1>1. worker \in [Workers -> Worker] /\ worker[v] \in Worker /\ Idle.pc \notin Loaded
  BY DEF Shape, WorkerShape, GoodWorker, Idle, Loaded
<1>2. ASSUME NEW p, p \notin Loaded, Goto(w, p)
      PROVE  worker'[v] = worker[v] \/ worker'[v].pc \notin Loaded
  <2>1. [worker[v] EXCEPT !.pc = p].pc = p
    BY <1>1 DEF Worker
  <2>2. QED
    BY <1>1, <1>2, <2>1 DEF Goto
<1>3. ASSUME NEW j, NEW s, NEW p, p \notin Loaded, Start(w, j, p, s)
      PROVE  worker'[v] = worker[v] \/ worker'[v].pc \notin Loaded
  <2>1. [Idle EXCEPT !.pc = p, !.job = j, !.eff = s].pc = p
    BY DEF Idle
  <2>2. QED
    BY <1>1, <1>3, <2>1 DEF Start
<1>4. Done(w) => worker'[v] = worker[v] \/ worker'[v].pc \notin Loaded
  BY <1>1 DEF Done
<1> USE DEF Loaded
<1>5. CASE InsertGroups(w) \/ SetTasks(w) \/ UpdateSiblings(w) \/ InsertRetry(w) \/ SendRetry(w)
  BY <1>2, <1>5 DEF InsertGroups, SetTasks, UpdateSiblings, InsertRetry, SendRetry
<1>6. CASE InsertWorkflow(w) \/ UpdateWholeGroup(w) \/ UpdateNoTask(w)
  BY <1>3, <1>6 DEF InsertWorkflow, UpdateWholeGroup, UpdateNoTask
<1>7. CASE CheckStartTimeout(w)
  BY <1>3, <1>7 DEF CheckStartTimeout
<1>8. CASE UpdateTaskStatus(w) \/ EndLateStart(w)
  <2>1. PICK j : UpdateTaskRowOf(w, j)
    BY <1>8 DEF UpdateTaskStatus, EndLateStart
  <2> DEFINE s == IF j.status \in Finished THEN ExitStatus(j) ELSE j.status
             x == [Idle EXCEPT !.pc = "reread", !.job = j, !.eff = s,
                               !.clocks = Timeouts \cap Clocks(j, s)]
  <2>2. worker' = [worker EXCEPT ![w] = x]
    BY <2>1 DEF UpdateTaskRowOf
  <2>3. x.pc = "reread"
    BY DEF Idle
  <2> HIDE DEF x
  <2>4. QED
    BY <1>1, <2>2, <2>3
<1>9. CASE FailWithoutBackend(w) \/ Crash(w)
  BY <1>4, <1>9 DEF FailWithoutBackend, Crash
<1>10. CASE Other(w)
  BY <1>10 DEF Other, CancelWorkflow, CheckQueueTimeout, CheckRunTimeout, CleanupWorkflow
<1>11. CASE CheckWaiting(w) \/ LaunchDownstream(w) \/ MarkWaiting(w)
  <2>1. \/ \E a : worker' = [worker EXCEPT ![w].pc = "checkWaiting", ![w].ready = a]
        \/ \E b : worker' = [worker EXCEPT ![w].pc = "setTasks", ![w].ready = {}, ![w].todo = b]
        \/ Done(w)
    BY <1>11 DEF CheckWaiting, LaunchDownstream, MarkWaiting, SetGroups
  <2>2. ASSUME NEW a, worker' = [worker EXCEPT ![w].pc = "checkWaiting", ![w].ready = a]
        PROVE  worker'[v] = worker[v] \/ worker'[v].pc = "checkWaiting"
    BY <1>1, <2>2 DEF Worker
  <2>3. ASSUME NEW b,
               worker' = [worker EXCEPT ![w].pc = "setTasks", ![w].ready = {}, ![w].todo = b]
        PROVE  worker'[v] = worker[v] \/ worker'[v].pc = "setTasks"
    BY <1>1, <2>3 DEF Worker
  <2>4. QED
    BY <1>4, <2>1, <2>2, <2>3
<1>12. CASE SendCreate(w) \/ ReleaseDownstream(w)
  <2>1. worker[w].pc \notin Loaded
    BY <1>12 DEF SendCreate, ReleaseDownstream, At
  <2>2. \/ Done(w)
        \/ \E b : worker' = [worker EXCEPT ![w].todo = b]
        \/ \E a, b : worker' = [worker EXCEPT ![w].todo = b, ![w].ready = a]
        \/ \E a, b : worker' = [worker EXCEPT ![w].pc = "setGroups", ![w].todo = b, ![w].ready = a]
    BY <1>1, <1>12 DEF SendCreate, ReleaseDownstream
  <2>3. ASSUME NEW b, worker' = [worker EXCEPT ![w].todo = b]
        PROVE  worker'[v] = worker[v] \/ worker'[v].pc = worker[w].pc
    BY <1>1, <2>3 DEF Worker
  <2>4. ASSUME NEW a, NEW b, worker' = [worker EXCEPT ![w].todo = b, ![w].ready = a]
        PROVE  worker'[v] = worker[v] \/ worker'[v].pc = worker[w].pc
    BY <1>1, <2>4 DEF Worker
  <2>5. ASSUME NEW a, NEW b,
               worker' = [worker EXCEPT ![w].pc = "setGroups", ![w].todo = b, ![w].ready = a]
        PROVE  worker'[v] = worker[v] \/ worker'[v].pc = "setGroups"
    BY <1>1, <2>5 DEF Worker
  <2>6. QED
    BY <1>4, <2>1, <2>2, <2>3, <2>4, <2>5
<1>13. CASE WriteGroup(w) \/ WriteWorkflow(w) \/ Finish(w)
  <2>1. \/ Done(w)
        \/ \E p \in {"readGroups", "finish"} :
             worker' = [worker EXCEPT ![w].pc = p, ![w].new = Absent]
        \/ worker' = [worker EXCEPT ![w].pc = "downstream", ![w].todo = Downstream(worker[w].job.group)]
    <3>1. CASE WriteGroup(w)
      BY <3>1 DEF WriteGroup
    <3>2. CASE WriteWorkflow(w)
      BY <3>2 DEF WriteWorkflow
    <3>3. CASE Finish(w)
      BY <3>3 DEF Finish
    <3>4. QED
      BY <1>13, <3>1, <3>2, <3>3
  <2>2. ASSUME NEW p \in {"readGroups", "finish"},
               worker' = [worker EXCEPT ![w].pc = p, ![w].new = Absent]
        PROVE  worker'[v] = worker[v] \/ worker'[v].pc = p
    BY <1>1, <2>2 DEF Worker
  <2>3. ASSUME NEW a, worker' = [worker EXCEPT ![w].pc = "downstream", ![w].todo = a]
        PROVE  worker'[v] = worker[v] \/ worker'[v].pc = "downstream"
    BY <1>1, <2>3 DEF Worker
  <2>4. QED
    BY <1>4, <2>1, <2>2, <2>3
<1>14. QED
  BY <1>5, <1>6, <1>7, <1>8, <1>9, <1>10, <1>11, <1>12, <1>13
     DEF WorkerStep, Submit, Process, Update, Loads

\* The steps that prepare a write prepare the right one.
LEMMA LoadedMoves ==
  ASSUME Shape, Ends, NEW w \in Workers, Loads(w), NEW v \in Workers
  PROVE  \/ worker'[v] = worker[v]
         \/ PlainWorker(worker'[v]) /\ EndingWorker(worker'[v])
<1>1. /\ worker \in [Workers -> Worker] /\ worker[v] \in Worker /\ PlainWorker(worker[w])
      /\ PlainWorker(Idle) /\ EndingWorker(Idle) /\ worker[w] \in Worker
  BY DEF Shape, WorkerShape, GoodWorker, Ends, PlainWorker, EndingWorker, Idle
<1>2. \A s \in Canceled \cup InQueue \cup {"RUNNING"} : s # "RESCHEDULED"
  BY DEF Canceled, InQueue, Prescheduling
<1>3. CASE FetchCancel(w)
  <2>1. PICK j \in queue : Start(w, j, "cancel", j.status) /\ j.status \in Canceled
    BY <1>3 DEF FetchCancel
  <2> DEFINE x == [Idle EXCEPT !.pc = "cancel", !.job = j, !.eff = j.status]
  <2>2. x.pc = "cancel" /\ x.job = j
    BY DEF Idle
  <2>3. worker' = [worker EXCEPT ![w] = x]
    BY <2>1 DEF Start
  <2> HIDE DEF x
  <2>4. PlainWorker(x) /\ EndingWorker(x)
    BY <1>2, <2>1, <2>2 DEF PlainWorker, EndingWorker
  <2>5. QED
    BY <1>1, <2>3, <2>4
<1>4. CASE Cancel(w)
  <2>1. worker'[v] = worker[v] \/ (worker'[v].pc = "recheck" /\ worker'[v].job = worker[w].job)
    BY <1>1, <1>4 DEF Cancel, Goto, Worker
  <2>2. worker[w].job.status # "RESCHEDULED"
    BY <1>1, <1>4 DEF Cancel, At, PlainWorker
  <2>3. QED
    BY <2>1, <2>2 DEF PlainWorker, EndingWorker
<1>5. CASE Recheck(w)
  <2>1. CASE Done(w)
    BY <1>1, <2>1 DEF Done
  <2>2. CASE worker' = [worker EXCEPT ![w].pc = "writeGroup", ![w].new = worker[w].job.status]
    <3>1. \/ worker'[v] = worker[v]
          \/ worker'[v].pc = "writeGroup" /\ worker'[v].new = worker[w].job.status
      BY <1>1, <2>2 DEF Worker
    <3>2. worker[w].job.status # "RESCHEDULED"
      BY <1>1, <1>5 DEF Recheck, At, PlainWorker
    <3>3. QED
      BY <3>1, <3>2 DEF PlainWorker, EndingWorker
  <2>3. QED
    BY <1>5, <2>1, <2>2 DEF Recheck
<1>6. CASE Reread(w)
  <2>1. PICK p \in {"idle", "insertRetry", "siblings", "aggregate"} : Goto(w, p) \/ Done(w)
    BY <1>6 DEF Reread
  <2>2. worker'[v] = worker[v] \/ worker'[v].pc = p \/ worker'[v] = Idle
    BY <1>1, <2>1 DEF Goto, Done, Worker
  <2>3. QED
    BY <1>1, <2>2 DEF PlainWorker, EndingWorker
<1>7. CASE Aggregate(w)
  <2> DEFINE me   == worker[w]
             self == IF me.eff = "RESCHEDULED" THEN "RUNNING" ELSE me.eff
             new  == IF self \in InQueue THEN self
                     ELSE AggregateGroup(LatestStatus(me.job.group), Considered(me.job.group))
  <2>1. new # "RESCHEDULED"
    BY <1>2 DEF AggregateGroup
  <2>2. worker' = [worker EXCEPT ![w].pc = "writeGroup", ![w].eff = self, ![w].new = new,
                                 ![w].clocks = {}]
    BY <1>7 DEF Aggregate
  <2> HIDE DEF self, new
  <2>3. worker'[v] = worker[v] \/ (worker'[v].pc = "writeGroup" /\ worker'[v].new = new)
    BY <1>1, <2>2 DEF Worker
  <2>4. QED
    BY <2>1, <2>3 DEF PlainWorker, EndingWorker
<1>8. CASE ReadGroups(w)
  <2> DEFINE new == AggregateWorkflow(GroupStatuses)
  <2>1. worker' = [worker EXCEPT ![w].pc = "writeWorkflow", ![w].new = new]
    BY <1>8 DEF ReadGroups
  <2>2. new \in WorkflowFinished => EndsWith(new)
    BY AggregatesEnd DEF Ends, Shape, DbShape
  <2> HIDE DEF new
  <2>3. worker'[v] = worker[v] \/ (worker'[v].pc = "writeWorkflow" /\ worker'[v].new = new)
    BY <1>1, <2>1 DEF Worker
  <2>4. QED
    BY <2>2, <2>3 DEF PlainWorker, EndingWorker
<1>9. QED
  BY <1>3, <1>4, <1>5, <1>6, <1>7, <1>8 DEF Loads

\* A worker that changes is never about to write the wrong thing.
LEMMA WorkerChanges ==
  ASSUME Shape, Ends, [Next]_vars, NEW v \in Workers
  PROVE  \/ worker'[v] = worker[v]
         \/ PlainWorker(worker'[v]) /\ EndingWorker(worker'[v])
<1> USE DEF cluster
<1>1. worker'[v].pc \notin Loaded => PlainWorker(worker'[v]) /\ EndingWorker(worker'[v])
  BY DEF Loaded, PlainWorker, EndingWorker
<1>2. ASSUME NEW w \in Workers, WorkerStep(w) \/ Crash(w)
      PROVE  \/ worker'[v] = worker[v]
             \/ PlainWorker(worker'[v]) /\ EndingWorker(worker'[v])
  BY <1>1, <1>2, UnloadedMoves, LoadedMoves
<1>3. CASE PrepareCreateGroup \/ PrepareCleanupGroup \/ PrepareRescheduleTask \/ Apply
           \/ Execute \/ Refuse \/ Disconnect
  BY <1>3 DEF PrepareCreateGroup, PrepareCleanupGroup, PrepareRescheduleTask, Apply, Execute,
              Refuse, Disconnect
<1>4. CASE \/ \E t \in Tasks : PodMoves(t) \/ PodEnds(t)
           \/ \E force \in CancelForms : AskCancel(force)
           \/ DeleteBackend
  BY <1>4 DEF PodMoves, PodEnds, AskCancel, DeleteBackend
<1>5. CASE UNCHANGED vars
  BY <1>5 DEF vars
<1>6. QED
  BY <1>2, <1>3, <1>4, <1>5 DEF Next, AgentStep

\* Only SubmitWorkflow and UpdateGroup write the row of the workflow.
LEMMA WorkflowChanges ==
  ASSUME [Next]_vars
  PROVE  \/ wf' = wf
         \/ \E w \in Workers : InsertWorkflow(w) \/ WriteWorkflow(w)
<1> USE DEF db
<1>1. ASSUME NEW w \in Workers, WorkerStep(w) \/ Crash(w), ~InsertWorkflow(w), ~WriteWorkflow(w)
      PROVE  wf' = wf
  <2>1. CASE InsertGroups(w) \/ MarkWaiting(w) \/ CheckWaiting(w) \/ Process(w)
    BY <2>1 DEF InsertGroups, MarkWaiting, CheckWaiting, Process, LaunchDownstream, SetTasks,
                SendCreate
  <2>2. CASE FetchCancel(w) \/ Cancel(w) \/ Recheck(w) \/ UpdateWholeGroup(w) \/ UpdateNoTask(w)
             \/ CheckStartTimeout(w)
    BY <2>2 DEF FetchCancel, Cancel, Recheck, UpdateWholeGroup, UpdateNoTask, CheckStartTimeout
  <2>3. CASE EndLateStart(w) \/ UpdateTaskStatus(w) \/ FailWithoutBackend(w) \/ Reread(w)
             \/ UpdateSiblings(w) \/ InsertRetry(w) \/ SendRetry(w)
    BY <2>3 DEF EndLateStart, UpdateTaskStatus, UpdateTaskRowOf, FailWithoutBackend, Reread,
                UpdateSiblings, InsertRetry, SendRetry
  <2>4. CASE Aggregate(w) \/ WriteGroup(w) \/ ReadGroups(w)
    BY <2>4 DEF Aggregate, WriteGroup, ReadGroups
  <2>5. CASE Finish(w) \/ ReleaseDownstream(w)
    BY <2>5 DEF Finish, ReleaseDownstream
  <2>6. CASE Other(w) \/ Crash(w)
    BY <2>6 DEF Other, CancelWorkflow, CheckQueueTimeout, CheckRunTimeout, CleanupWorkflow, Crash
  <2>7. QED
    BY <1>1, <2>1, <2>2, <2>3, <2>4, <2>5, <2>6 DEF WorkerStep, Submit, Update
<1>2. CASE PrepareCreateGroup \/ PrepareCleanupGroup \/ PrepareRescheduleTask \/ Apply
           \/ Execute \/ Refuse \/ Disconnect
  BY <1>2 DEF PrepareCreateGroup, PrepareCleanupGroup, PrepareRescheduleTask, Apply, Execute,
              Refuse, Disconnect
<1>3. CASE \/ \E t \in Tasks : PodMoves(t) \/ PodEnds(t)
           \/ \E force \in CancelForms : AskCancel(force)
           \/ DeleteBackend
  BY <1>3 DEF PodMoves, PodEnds, AskCancel, DeleteBackend
<1>4. CASE UNCHANGED vars
  BY <1>4 DEF vars
<1>5. QED
  BY <1>1, <1>2, <1>3, <1>4 DEF Next, AgentStep

\* What is known about the end of the workflow stays true.
LEMMA EndsStay ==
  ASSUME Shape, Ends, [Next]_vars
  PROVE  Ends'
<1>1. PlainGroups'
  <2> SUFFICES ASSUME NEW g \in Groups PROVE grp'[g].status # "RESCHEDULED"
    BY DEF PlainGroups
  <2>1. grp[g].status # "RESCHEDULED" /\ \A w \in Workers : PlainWorker(worker[w])
    BY DEF Ends, PlainGroups
  <2>2. QED
    BY <2>1, GroupMoves DEF Moved, Launching, PlainWorker, At
<1>2. ASSUME NEW s, EndsWith(s)
      PROVE  /\ \A g \in Groups : grp'[g].status \in GroupFinished
             /\ s = AggregateWorkflow(GroupStatuses')
  <2>1. \A g \in Groups : grp[g].status \in GroupFinished /\ grp'[g].status = grp[g].status
    BY <1>2, GroupMoves DEF Moved, EndsWith
  <2>2. GroupStatuses' = GroupStatuses
    BY <2>1 DEF GroupStatuses
  <2>3. QED
    BY <1>2, <2>1, <2>2 DEF EndsWith
<1>3. ASSUME NEW v \in Workers
      PROVE  PlainWorker(worker[v])' /\ EndingWorker(worker[v])'
  <2>1. PlainWorker(worker'[v]) /\ EndingWorker(worker'[v])
    BY WorkerChanges DEF Ends
  <2>2. QED
    BY <2>1, <1>2 DEF PlainWorker, EndingWorker, EndsWith
<1>4. (wf.ended => wf.status \in WorkflowFinished /\ EndsWith(wf.status))'
  <2>1. wf \in WorkflowRow /\ "PENDING" \notin WorkflowFinished /\ Absent \notin WorkflowFinished
        /\ WorkflowAlive \cap WorkflowFinished = {}
    BY DEF Shape, DbShape, WorkflowFinished, FailedStatuses, WorkflowAlive, Absent
  <2>2. wf'.ended => wf'.status \in WorkflowFinished /\ EndsWith(wf'.status)
    <3>1. CASE wf' = wf
      BY <3>1 DEF Ends
    <3>2. ASSUME NEW w \in Workers, InsertWorkflow(w)
          PROVE  wf'.ended => wf'.status \in WorkflowFinished /\ EndsWith(wf'.status)
      BY <3>2, <2>1 DEF InsertWorkflow, Ends, WorkflowRow
    <3>3. ASSUME NEW w \in Workers, WriteWorkflow(w)
          PROVE  wf'.ended => wf'.status \in WorkflowFinished /\ EndsWith(wf'.status)
      <4>1. /\ wf' = UpdateWorkflowRow(wf, worker[w].new, worker[w].eff = "FAILED_CANCELED"
                                                          /\ worker[w].new = "FAILED_CANCELED")
            /\ worker[w].new \in WorkflowFinished => EndsWith(worker[w].new)
        BY <3>3 DEF WriteWorkflow, At, Ends, EndingWorker
      <4>2. \/ /\ wf'.status = worker[w].new /\ wf'.ended = wf.ended
               /\ worker[w].new \in WorkflowAlive /\ wf.status \in WorkflowAlive
            \/ wf'.status = worker[w].new /\ worker[w].new \in WorkflowFinished
            \/ wf' = wf
        BY <4>1, <2>1 DEF UpdateWorkflowRow, WorkflowRow, WorkflowAlive
      <4>3. QED
        BY <4>1, <4>2, <2>1 DEF Ends
    <3>4. QED
      BY <3>1, <3>2, <3>3, WorkflowChanges
  <2>3. QED
    BY <2>2, <1>2 DEF EndsWith
<1>5. QED
  BY <1>1, <1>3, <1>4 DEF Ends

\* The workflow is finished only when every group is, and with the status that
\* their final statuses add up to, although Workflow.update_status_to_db reads the
\* groups in one statement and writes the workflow in another.
THEOREM EndIsRight == Spec => []WorkflowEndsWithGroups
<1>1. Ends => WorkflowEndsWithGroups
  BY DEF Ends, EndsWith, WorkflowEndsWithGroups
<1>2. Shape /\ Ends /\ [Next]_vars => Ends'
  BY EndsStay
<1>3. QED
  BY <1>1, <1>2, InitEnds, ShapeInvariant, PTL DEF Spec

-----------------------------------------------------------------------------
(***************************************************************************)
(* Retries.  A row that is RESCHEDULED is over, and the row of a retry is  *)
(* inserted only by a worker that has read the row before as RESCHEDULED.  *)
(***************************************************************************)
Open == Prerunning \cup {"RUNNING"}

\* What a step does to the row of a retry: an open row may go on, the first row is
\* inserted with its group, and a later one by _retry_task.
RowMoved(t, r, w) ==
  \/ rows'[t][r].status = rows[t][r].status
  \/ rows[t][r].status \in Open
  \/ rows[t][r].status = Absent /\ r = 0
  \/ /\ rows[t][r].status = Absent /\ At(w, "insertRetry")
     /\ worker[w].job.task = t /\ worker[w].job.retry + 1 = r

RetryingWorker(x) ==
  x.pc = "insertRetry" /\ x.job.retry \in Retries
    => rows[x.job.task][x.job.retry].status = "RESCHEDULED"

Retried == /\ RetriesFollowReschedule
           /\ \A v \in Workers : RetryingWorker(worker[v])

\* At the start there is no retry.
LEMMA InitRetried == Init => Retried
<1> SUFFICES ASSUME Init PROVE Retried
  OBVIOUS
<1>1. \A t \in Tasks, r \in Retries : rows[t][r].status = Absent
  BY DEF Init, RowAbsent
<1>2. QED
  BY <1>1 DEF Init, Retried, RetriesFollowReschedule, RetryingWorker, Idle

\* A guarded UPDATE of a task only moves an open row.
LEMMA TaskRowMoves ==
  ASSUME NEW row \in Row, NEW s
  PROVE  UpdateTaskRow(row, s).status = row.status \/ row.status \in Open
<1>1. TaskSources(s) \subseteq Open
  BY DEF TaskSources, Open, Prerunning, InQueue, Prescheduling
<1>2. QED
  BY <1>1 DEF UpdateTaskRow, Enter, Row

\* So does the update of a whole group.
LEMMA BatchMoves ==
  ASSUME Shape, NEW g, NEW s, NEW x, NEW t \in Tasks, NEW r \in Retries
  PROVE  \/ BatchUpdate(g, s, x)[t][r].status = rows[t][r].status
         \/ rows[t][r].status \in Open
<1>1. rows[t][r] \in Row
  BY DEF Shape, DbShape
<1>2. BatchUpdate(g, s, x)[t][r] \in {rows[t][r], UpdateTaskRow(rows[t][r], s)}
  BY DEF BatchUpdate
<1>3. QED
  BY <1>1, <1>2, TaskRowMoves

\* The steps of a worker change the row of a retry as RowMoved says.
LEMMA WorkerRowMoves ==
  ASSUME Shape, NEW w \in Workers, WorkerStep(w) \/ Crash(w), NEW t \in Tasks, NEW r \in Retries
  PROVE  RowMoved(t, r, w)
<1> USE DEF db
<1>0. /\ rows \in [Tasks -> [Retries -> Row]] /\ rows[t] \in [Retries -> Row]
      /\ rows[t][r] \in Row
  BY DEF Shape, DbShape
<1>1. CASE InsertGroups(w)
  <2>1. \/ rows'[t] = rows[t]
        \/ /\ rows[t][0].status = Absent
           /\ rows'[t] = [rows[t] EXCEPT ![0].status = "WAITING"]
    BY <1>1 DEF InsertGroups
  <2>2. r # 0 => [rows[t] EXCEPT ![0].status = "WAITING"][r] = rows[t][r]
    BY <1>0
  <2>3. QED
    BY <2>1, <2>2 DEF RowMoved
<1>2. CASE SetTasks(w)
  <2>1. rows'[t][r] = rows[t][r] \/ rows[t][r].status = "WAITING"
    BY <1>2 DEF SetTasks
  <2>2. QED
    BY <2>1 DEF RowMoved, Open, Prerunning, InQueue, Prescheduling
<1>3. CASE Recheck(w) \/ UpdateWholeGroup(w) \/ UpdateSiblings(w)
  <2>1. \/ UNCHANGED rows
        \/ \E g, s, x : rows' = BatchUpdate(g, s, x)
    BY <1>3 DEF Recheck, UpdateWholeGroup, UpdateSiblings
  <2>2. QED
    BY <2>1, BatchMoves DEF RowMoved
<1>4. CASE UpdateTaskStatus(w) \/ EndLateStart(w)
  <2>1. PICK j : UpdateTaskRowOf(w, j)
    BY <1>4 DEF UpdateTaskStatus, EndLateStart
  <2>2. PICK s : rows' = [rows EXCEPT ![j.task][j.retry] = UpdateTaskRow(@, s)]
    BY <2>1 DEF UpdateTaskRowOf
  <2>3. rows'[t][r] = rows[t][r] \/ rows'[t][r] = UpdateTaskRow(rows[t][r], s)
    BY <1>0, <2>2
  <2>4. QED
    BY <1>0, <2>3, TaskRowMoves DEF RowMoved
<1>5. CASE InsertRetry(w)
  <2> DEFINE j == worker[w].job
  <2>1. CASE UNCHANGED rows
    BY <2>1 DEF RowMoved
  <2>2. CASE /\ rows[j.task][j.retry + 1].status = Absent
             /\ rows' = [rows EXCEPT ![j.task][j.retry + 1].status = "PROCESSING"]
    <3>1. t # j.task \/ r # j.retry + 1 => rows'[t][r] = rows[t][r]
      BY ZenonT(60), <1>0, <2>2
    <3>2. At(w, "insertRetry")
      BY <1>5 DEF InsertRetry
    <3>3. QED
      BY <2>2, <3>1, <3>2 DEF RowMoved
  <2>3. QED
    BY <1>5, <2>1, <2>2 DEF InsertRetry
<1>6. CASE InsertWorkflow(w) \/ MarkWaiting(w) \/ CheckWaiting(w) \/ LaunchDownstream(w)
           \/ SendCreate(w)
  BY <1>6 DEF InsertWorkflow, MarkWaiting, CheckWaiting, LaunchDownstream, SendCreate, RowMoved
<1>7. CASE FetchCancel(w) \/ Cancel(w) \/ UpdateNoTask(w) \/ CheckStartTimeout(w)
           \/ FailWithoutBackend(w) \/ Reread(w) \/ SendRetry(w)
  BY <1>7 DEF FetchCancel, Cancel, UpdateNoTask, CheckStartTimeout, FailWithoutBackend, Reread,
              SendRetry, RowMoved
<1>8. CASE Aggregate(w) \/ WriteGroup(w) \/ ReadGroups(w) \/ WriteWorkflow(w)
  BY <1>8 DEF Aggregate, WriteGroup, ReadGroups, WriteWorkflow, RowMoved
<1>9. CASE Finish(w) \/ ReleaseDownstream(w)
  BY <1>9 DEF Finish, ReleaseDownstream, RowMoved
<1>10. CASE Other(w) \/ Crash(w)
  BY <1>10 DEF Other, CancelWorkflow, CheckQueueTimeout, CheckRunTimeout, CleanupWorkflow, Crash,
               RowMoved
<1>11. QED
  BY <1>1, <1>2, <1>3, <1>4, <1>5, <1>6, <1>7, <1>8, <1>9, <1>10
     DEF WorkerStep, Submit, Process, Update

\* So does every step.
LEMMA RowMoves ==
  ASSUME Shape, [Next]_vars, NEW t \in Tasks, NEW r \in Retries
  PROVE  rows'[t][r].status = rows[t][r].status \/ \E w \in Workers : RowMoved(t, r, w)
<1> USE DEF db
<1>1. CASE PrepareCreateGroup \/ PrepareCleanupGroup \/ PrepareRescheduleTask \/ Apply
           \/ Execute \/ Refuse \/ Disconnect
  BY <1>1 DEF PrepareCreateGroup, PrepareCleanupGroup, PrepareRescheduleTask, Apply, Execute,
              Refuse, Disconnect
<1>2. CASE \/ \E u \in Tasks : PodMoves(u) \/ PodEnds(u)
           \/ \E force \in CancelForms : AskCancel(force)
           \/ DeleteBackend
  BY <1>2 DEF PodMoves, PodEnds, AskCancel, DeleteBackend
<1>3. CASE UNCHANGED vars
  BY <1>3 DEF vars
<1>4. QED
  BY <1>1, <1>2, <1>3, WorkerRowMoves DEF Next, AgentStep

\* Only Reread leads to insertRetry, once it has read the row as RESCHEDULED.
LEMMA RetryMoves ==
  ASSUME Shape, [Next]_vars, NEW v \in Workers
  PROVE  worker'[v] = worker[v] \/ RetryingWorker(worker'[v])
<1> USE DEF cluster
<1>1. worker \in [Workers -> Worker] /\ worker[v] \in Worker /\ RetryingWorker(Idle)
  BY DEF Shape, WorkerShape, GoodWorker, RetryingWorker, Idle
<1>2. worker'[v].pc # "insertRetry" => RetryingWorker(worker'[v])
  BY DEF RetryingWorker
<1>3. ASSUME NEW w \in Workers, Reread(w)
      PROVE  worker'[v] = worker[v] \/ RetryingWorker(worker'[v])
  <2>1. CASE Done(w)
    BY <1>1, <2>1 DEF Done
  <2>2. CASE \E p \in {"siblings", "aggregate"} : Goto(w, p)
    <3>1. worker'[v] = worker[v] \/ worker'[v].pc \in {"siblings", "aggregate"}
      BY <1>1, <2>2 DEF Goto, Worker
    <3>2. QED
      BY <1>2, <3>1
  <2>3. CASE /\ Goto(w, "insertRetry")
             /\ rows[worker[w].job.task][worker[w].job.retry].status = "RESCHEDULED"
    <3>1. worker'[v] = worker[v] \/ worker'[v].job = worker[w].job
      BY <1>1, <2>3 DEF Goto, Worker
    <3>2. QED
      BY <2>3, <3>1 DEF RetryingWorker
  <2>4. QED
    BY <1>3, <2>1, <2>2, <2>3 DEF Reread
<1>4. ASSUME NEW w \in Workers, \/ FetchCancel(w) \/ Cancel(w) \/ Recheck(w) \/ Aggregate(w)
                                \/ ReadGroups(w)
      PROVE  worker'[v] = worker[v] \/ RetryingWorker(worker'[v])
  <2>1. CASE FetchCancel(w)
    <3>1. PICK j : worker' = [worker EXCEPT ![w] = [Idle EXCEPT !.pc = "cancel", !.job = j,
                                                               !.eff = j.status]]
      BY <2>1 DEF FetchCancel, Start
    <3>2. [Idle EXCEPT !.pc = "cancel", !.job = j, !.eff = j.status].pc = "cancel"
      BY DEF Idle
    <3>3. QED
      BY <1>1, <1>2, <3>1, <3>2
  <2>2. CASE Cancel(w)
    BY <1>1, <1>2, <2>2 DEF Cancel, Goto, Worker
  <2>3. CASE Recheck(w)
    BY <1>1, <1>2, <2>3 DEF Recheck, Done, Worker
  <2>4. CASE Aggregate(w)
    <3>1. \E e, n : worker' = [worker EXCEPT ![w].pc = "writeGroup", ![w].eff = e, ![w].new = n,
                                             ![w].clocks = {}]
      BY <2>4 DEF Aggregate
    <3>2. ASSUME NEW e, NEW n,
                 worker' = [worker EXCEPT ![w].pc = "writeGroup", ![w].eff = e, ![w].new = n,
                                          ![w].clocks = {}]
          PROVE  worker'[v] = worker[v] \/ worker'[v].pc = "writeGroup"
      BY <1>1, <3>2 DEF Worker
    <3>3. QED
      BY <1>2, <3>1, <3>2
  <2>5. CASE ReadGroups(w)
    BY <1>1, <1>2, <2>5 DEF ReadGroups, Worker
  <2>6. QED
    BY <1>4, <2>1, <2>2, <2>3, <2>4, <2>5
<1>5. ASSUME NEW w \in Workers, WorkerStep(w) \/ Crash(w), ~Loads(w)
      PROVE  worker'[v] = worker[v] \/ RetryingWorker(worker'[v])
  BY <1>2, <1>5, UnloadedMoves DEF Loaded
<1>6. CASE PrepareCreateGroup \/ PrepareCleanupGroup \/ PrepareRescheduleTask \/ Apply
           \/ Execute \/ Refuse \/ Disconnect
  BY <1>6 DEF PrepareCreateGroup, PrepareCleanupGroup, PrepareRescheduleTask, Apply, Execute,
              Refuse, Disconnect
<1>7. CASE \/ \E t \in Tasks : PodMoves(t) \/ PodEnds(t)
           \/ \E force \in CancelForms : AskCancel(force)
           \/ DeleteBackend
  BY <1>7 DEF PodMoves, PodEnds, AskCancel, DeleteBackend
<1>8. CASE UNCHANGED vars
  BY <1>8 DEF vars
<1>9. QED
  BY <1>3, <1>4, <1>5, <1>6, <1>7, <1>8 DEF Next, AgentStep, Loads

\* What is known about retries stays true.
LEMMA RetriedStays ==
  ASSUME Shape, Shape', Retried, [Next]_vars
  PROVE  Retried'
<1>0. MaxRetry \in Nat /\ "RESCHEDULED" \notin Open /\ "RESCHEDULED" # Absent
  BY WorkflowAssumption DEF Open, Prerunning, InQueue, Prescheduling, Absent
<1>1. ASSUME NEW t \in Tasks, NEW r \in Retries, rows[t][r].status = "RESCHEDULED"
      PROVE  rows'[t][r].status = "RESCHEDULED"
  BY <1>0, <1>1, RowMoves DEF RowMoved
<1>2. ASSUME NEW t \in Tasks, NEW r \in Retries \ {0}, rows'[t][r].status # Absent
      PROVE  rows'[t][r - 1].status = "RESCHEDULED"
  <2>1. r - 1 \in Retries
    BY <1>0 DEF Retries
  <2>2. CASE rows[t][r].status # Absent
    BY <1>1, <2>1, <2>2 DEF Retried, RetriesFollowReschedule
  <2>3. CASE rows[t][r].status = Absent
    <3>1. PICK w \in Workers : RowMoved(t, r, w)
      BY <1>2, <2>3, RowMoves
    <3>2. At(w, "insertRetry") /\ worker[w].job.task = t /\ worker[w].job.retry + 1 = r
      BY <1>2, <2>3, <3>1 DEF RowMoved, Open, Prerunning, InQueue, Prescheduling, Absent
    <3>3. worker[w].job.retry = r - 1
      <4>1. worker[w].job.retry \in Nat
        BY DEF Shape, WorkerShape, GoodWorker, Worker, Job
      <4>2. QED
        BY <4>1, <3>2
    <3>4. rows[t][r - 1].status = "RESCHEDULED"
      BY <2>1, <3>2, <3>3 DEF Retried, RetryingWorker, At
    <3>5. QED
      BY <1>1, <2>1, <3>4
  <2>4. QED
    BY <2>2, <2>3
<1>3. ASSUME NEW v \in Workers
      PROVE  RetryingWorker(worker[v])'
  <2>1. RetryingWorker(worker'[v])
    BY RetryMoves DEF Retried
  <2>2. worker'[v].pc = "insertRetry" => worker'[v].job.task \in Tasks
    BY DEF Shape, WorkerShape, GoodWorker, UpdatingTask
  <2>3. QED
    BY <1>1, <2>1, <2>2 DEF RetryingWorker
<1>4. QED
  BY <1>2, <1>3 DEF Retried, RetriesFollowReschedule

\* A task gets another retry only after the one before was rescheduled, however
\* often its jobs are delivered or its workers die.
THEOREM RetriesAreEarned == Spec => []RetriesFollowReschedule
<1>1. Shape /\ Shape' /\ Retried /\ [Next]_vars => Retried'
  BY RetriedStays
<1>2. Retried => RetriesFollowReschedule
  BY DEF Retried
<1>3. QED
  BY <1>1, <1>2, InitRetried, ShapeInvariant, PTL DEF Spec

-----------------------------------------------------------------------------
(***************************************************************************)
(* Start timeouts.  The job read the row before it wrote it, so only the   *)
(* guard of the UPDATE can spare a task that has begun to run since.       *)
(***************************************************************************)
Spared(t, r) == rows[t][r].status = "RUNNING" => rows'[t][r].status # "FAILED_START_TIMEOUT"

\* No guarded UPDATE ends a running row as timed out.
LEMMA RowUpdateSpares ==
  ASSUME NEW row \in Row, row.status = "RUNNING", NEW s
  PROVE  UpdateTaskRow(row, s).status # "FAILED_START_TIMEOUT"
<1>1. CASE s = "FAILED_START_TIMEOUT"
  <2>1. "RUNNING" \notin TaskSources(s)
    BY <1>1 DEF TaskSources, Prerunning, InQueue, Prescheduling
  <2>2. QED
    BY <2>1 DEF UpdateTaskRow, Enter
<1>2. CASE s # "FAILED_START_TIMEOUT"
  BY <1>2 DEF UpdateTaskRow, Enter, Row
<1>3. QED
  BY <1>1, <1>2

\* A worker changes a row by such an UPDATE, or before it can run.
LEMMA WorkerStepSpares ==
  ASSUME Shape, NEW w \in Workers, WorkerStep(w) \/ Crash(w), NEW t \in Tasks, NEW r \in Retries
  PROVE  Spared(t, r)
<1> USE DEF db
<1>0. /\ rows \in [Tasks -> [Retries -> Row]] /\ rows[t] \in [Retries -> Row]
      /\ rows[t][r] \in Row
  BY DEF Shape, DbShape
<1>1. CASE InsertGroups(w)
  <2>1. \/ rows'[t] = rows[t]
        \/ /\ rows[t][0].status = Absent
           /\ rows'[t] = [rows[t] EXCEPT ![0].status = "WAITING"]
    BY <1>1 DEF InsertGroups
  <2>2. r # 0 => [rows[t] EXCEPT ![0].status = "WAITING"][r] = rows[t][r]
    BY <1>0
  <2>3. QED
    BY <2>1, <2>2 DEF Spared, Absent
<1>2. CASE SetTasks(w)
  <2>1. rows'[t][r] = rows[t][r] \/ rows[t][r].status = "WAITING"
    BY <1>2 DEF SetTasks
  <2>2. QED
    BY <2>1 DEF Spared
<1>3. CASE Recheck(w) \/ UpdateWholeGroup(w) \/ UpdateSiblings(w)
  <2>1. \/ UNCHANGED rows
        \/ \E g, s, x : rows' = BatchUpdate(g, s, x)
    BY <1>3 DEF Recheck, UpdateWholeGroup, UpdateSiblings
  <2>2. ASSUME NEW g, NEW s, NEW x, rows' = BatchUpdate(g, s, x) PROVE Spared(t, r)
    <3>1. rows'[t][r] \in {rows[t][r], UpdateTaskRow(rows[t][r], s)}
      BY <2>2 DEF BatchUpdate
    <3>2. QED
      BY <1>0, <3>1, RowUpdateSpares DEF Spared
  <2>3. QED
    BY <2>1, <2>2 DEF Spared
<1>4. CASE UpdateTaskStatus(w) \/ EndLateStart(w)
  <2>1. PICK j : UpdateTaskRowOf(w, j)
    BY <1>4 DEF UpdateTaskStatus, EndLateStart
  <2>2. PICK s : rows' = [rows EXCEPT ![j.task][j.retry] = UpdateTaskRow(@, s)]
    BY <2>1 DEF UpdateTaskRowOf
  <2>3. rows'[t][r] = rows[t][r] \/ rows'[t][r] = UpdateTaskRow(rows[t][r], s)
    BY <1>0, <2>2
  <2>4. QED
    BY <1>0, <2>3, RowUpdateSpares DEF Spared
<1>5. CASE InsertRetry(w)
  <2> DEFINE j == worker[w].job
  <2>1. CASE UNCHANGED rows
    BY <2>1 DEF Spared
  <2>2. CASE /\ rows[j.task][j.retry + 1].status = Absent
             /\ rows' = [rows EXCEPT ![j.task][j.retry + 1].status = "PROCESSING"]
    <3>1. t # j.task \/ r # j.retry + 1 => rows'[t][r] = rows[t][r]
      BY <1>0, <2>2
    <3>2. QED
      BY <2>2, <3>1 DEF Spared, Absent
  <2>3. QED
    BY <1>5, <2>1, <2>2 DEF InsertRetry
<1>6. CASE InsertWorkflow(w) \/ MarkWaiting(w) \/ CheckWaiting(w) \/ LaunchDownstream(w)
           \/ SendCreate(w)
  BY <1>6 DEF InsertWorkflow, MarkWaiting, CheckWaiting, LaunchDownstream, SendCreate, Spared
<1>7. CASE FetchCancel(w) \/ Cancel(w) \/ UpdateNoTask(w) \/ CheckStartTimeout(w)
           \/ FailWithoutBackend(w) \/ Reread(w) \/ SendRetry(w)
  BY <1>7 DEF FetchCancel, Cancel, UpdateNoTask, CheckStartTimeout, FailWithoutBackend, Reread,
              SendRetry, Spared
<1>8. CASE Aggregate(w) \/ WriteGroup(w) \/ ReadGroups(w) \/ WriteWorkflow(w)
  BY <1>8 DEF Aggregate, WriteGroup, ReadGroups, WriteWorkflow, Spared
<1>9. CASE Finish(w) \/ ReleaseDownstream(w)
  BY <1>9 DEF Finish, ReleaseDownstream, Spared
<1>10. CASE Other(w) \/ Crash(w)
  BY <1>10 DEF Other, CancelWorkflow, CheckQueueTimeout, CheckRunTimeout, CleanupWorkflow, Crash,
               Spared
<1>11. QED
  BY <1>1, <1>2, <1>3, <1>4, <1>5, <1>6, <1>7, <1>8, <1>9, <1>10
     DEF WorkerStep, Submit, Process, Update

\* A task that runs is never ended as one that did not start, for any order of its
\* reports, any number of workers and any crash between the read and the write.
THEOREM StartTimeoutsSpare == Spec => StartTimeoutsSpareRunning
<1>1. Shape /\ [Next]_vars =>
        [\A t \in Tasks : \A r \in Retries :
           rows[t][r].status = "RUNNING" => rows'[t][r].status # "FAILED_START_TIMEOUT"]_vars
  <2> SUFFICES ASSUME Shape, [Next]_vars, ~UNCHANGED vars, NEW t \in Tasks, NEW r \in Retries
               PROVE  Spared(t, r)
    BY DEF Spared
  <2> USE DEF db
  <2>1. CASE PrepareCreateGroup \/ PrepareCleanupGroup \/ PrepareRescheduleTask \/ Apply
             \/ Execute \/ Refuse \/ Disconnect
    BY <2>1 DEF PrepareCreateGroup, PrepareCleanupGroup, PrepareRescheduleTask, Apply, Execute,
                Refuse, Disconnect, Spared
  <2>2. CASE \/ \E u \in Tasks : PodMoves(u) \/ PodEnds(u)
             \/ \E force \in CancelForms : AskCancel(force)
             \/ DeleteBackend
    BY <2>2 DEF PodMoves, PodEnds, AskCancel, DeleteBackend, Spared
  <2>3. QED
    BY <2>1, <2>2, WorkerStepSpares DEF Next, AgentStep
<1>2. QED
  BY <1>1, ShapeInvariant, PTL DEF Spec, StartTimeoutsSpareRunning

=============================================================================
