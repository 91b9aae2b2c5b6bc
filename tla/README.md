# OSMO in TLA+

OSMO runs workflows of containers on Kubernetes clusters. This directory holds
TLA+ models of two parts of it. The first decides what becomes of a workflow:
the status rows in PostgreSQL, the jobs that move them, the queue those jobs
travel through, the websocket to the cluster, and the cluster they act on. The
second is what the web console keeps by itself: a log that is streamed, a shell
in a task, and the panel beside the graph. The modules are translated from
`src/src/utils/job`, `src/src/service/worker`, `src/src/service/agent`,
`src/src/service/delayed_job_monitor`, `src/src/operator` and `src/src/ui`;
`PROJECT.json` maps each definition to its lines.

## The system

| Component | State | Operations | Talks to |
|---|---|---|---|
| Core service (`service/core`) | none of its own | submit, cancel, configuration | queues `SubmitWorkflow`, `CancelWorkflow` |
| Job queue (`jobs_base.py`, kombu on redis) | messages, `dedupe:<id>`, `retry:<id>` | send, deliver, redeliver, requeue, ack | workers, agent |
| Delayed job monitor | a redis sorted set | send what is due, then remove it | job queue |
| Service workers (`service/worker`, `jobs.py`) | the job in hand | SubmitWorkflow, UpdateGroup, CancelWorkflow, CheckQueueTimeout, CheckRunTimeout, CleanupWorkflow, ... | database, job queue |
| Database (`task.py`, `workflow.py`) | rows of workflows, groups, tasks (one per retry) | guarded UPDATEs, each its own transaction | service workers, agent |
| Agent service (`service/agent`) | the current backend job | prepare, send over a websocket, execute, retry or fail | backend worker, database |
| Backend worker (`operator/backend_worker.py`) | the job in hand | CreateGroup, CleanupGroup, RescheduleTask on the cluster | agent, Kubernetes |
| Backend listener (`operator/backend_listener.py`) | status cache, unacknowledged messages | reports pods as UpdateGroup jobs | agent |
| Logger, barriers | redis lists and sets per group | notify the pods of a group | pods |
| Console: log and event streams (`ui`, `use-log-stream.ts`, `log-viewer`) | phase, entries shown and pending, the flattened list, a selection | connect, read, flush, retry, render, select | core service |
| Console: shells (`use-shell.ts`, `shell-state.ts`, `shell-cache.ts`) | a cached session per task, sockets, timeouts | connect, disconnect, reconnect, remove | core service, router |
| Console: workflow panel (`panel-resize-state-machine.ts`) | width on show, width to come back to, phase, stored width | drag, collapse, expand, hide or show the graph, reload | browser storage |
| Router, CLI, rest of the UI, runtime, authorization, configuration | - | - | - |

A workflow is a DAG of groups; a group is a set of tasks that run together, one
of them the lead; a task has a row for each retry. `SubmitWorkflow` inserts the
rows and launches the groups that wait for nothing. `CreateGroup` makes the
pods. Every event afterwards (a report of a pod, a timeout, a cancel, the
failure of an upstream group) is an `UpdateGroup` job, which updates task rows,
aggregates them into the group, aggregates the groups into the workflow, sends
the cleanup, and launches or fails the downstream groups.

What makes it hard:

* no transaction spans two statements, so every job is a sequence of steps
  between which other workers run, and what a job read is stale when it writes;
* messages are delivered at least once, in any order, and each copy may meet a
  process that dies;
* the same event arrives by several ways (a report and a timeout, a cancel and
  a completion), and the guards of the UPDATEs are all that orders them;
* retries give a task new rows and new pods while the group may end;
* each end of a websocket notices by itself that it is gone, and goes on with
  what it had in hand;
* in the console, events of old sockets, timeouts, aborted effects and
  animations arrive in any order and meet whatever state is there by then.

The correctness of each part, in a sentence: statuses never leave a finished
one; the workflow ends exactly when its groups have, with the status they add
up to; groups start after their upstream groups; every retry follows a
reschedule; nothing is left running when the workflow is over; one copy of a job
runs; a job that keeps failing stops; everything that ends is reported in the end.
A result is that of the job the agent waits for, and no thread waits for nothing.
In the console: what is shown of a log is a piece of it, each line once, and all
of it when the stream says so; a task has one connection, which is open while a
shell is attached; the panel comes to rest and returns to the width it had.
`PROJECT.json` lists the places where this is hard to get right ("hazards"),
each with the properties that would notice.

## Modules

* `TaskGroupStatus`: the pure part. The two status vocabularies, the two
  aggregations, and the guarded UPDATEs as operators on a row: a row is its
  status and the set of its time stamps that are not NULL, because the UPDATEs
  test both (`Enter`).
* `WorkflowJobs` extends it: one workflow with its rows (`wf`, `grp`, `rows`,
  `logs`), the queued jobs and their dedupe keys (`queue`, `sent`), the service
  workers (`worker`), the agent with the backend worker (`agent`), the pods
  (`pod`), whether the backend is configured (`backendUp`), and a budget of
  crashes. A step of a worker is one database statement and the computation
  before it; the field `pc` of the worker says which. The reads in front of the
  first write of a job are one step with it, since they only select what to write.
* `GroupFlow`: the abstract specification of a workflow's groups, in five actions:
  groups start together, each after the groups it waits for; a group completes once
  started, or fails; the workflow ends once, after them all; the order is lost.
  `WorkflowJobs` implements it with `stage` mapped to the statuses of the groups,
  `end` to the row of the workflow and `ordered` to `backendUp`.
* `JobQueue`: the queue by itself, per job id and copy: sending in three steps
  (test the key, publish, set the key), delayed copies and the monitor, delivery,
  owner check, retry limit, results, acknowledgement, and the death of any
  process. `WorkflowJobs` uses what it promises: a job with a key is not queued
  again, and a dead worker's job comes back.
* `DedupedJobs`: the abstract specification of the dedupe keys, in two actions:
  a copy claims an id nobody owns; an owner runs. `JobQueue` implements it with
  `owner` mapped to the redis key.
* `BackendLink`: how a job reaches the backend worker. Each link has a record of
  the agent's side (`agent`: the thread in `run_job`, the job in `_job_queue`, the
  current job, the result), what is under way (`down`, `up`) and whether the wire
  is whole; the worker has its two queues (`inbox`, `outbox`), the jobs its tasks
  execute and the link it is on. `WorkflowJobs` sees the same job as one that is
  prepared, executed, and retried or failed when the link drops.
* `ShellSession`: one task's shell. `session` is the record in the cache, with the
  phases of `shell-state.ts`; `call`, `socket` and `armed` are the exec calls,
  websockets and timeouts of each attempt to connect, `screen` the terminal that its
  websocket writes to, `printed` the terminals that have shown something. An event
  carries no attempt, as in the code: `Dispatch` applies it to the session that has the
  key.
* `LogStream`: one log, from `useLogStream` (`loop`, `buffers`) to the list below
  it (`view`): the stream is fetched from its start on each connection, flushed in
  animation frames, filtered, flattened by patches where `classifyEntriesChange`
  allows, and a selection is an index into the result. An entry is a record of its
  run, connection and line, so equality is the code's object identity.
* `PanelResize`: the panel's machine (`panel`), the animation frames and the
  safety timeout, the gesture, the layout's strip width and the stored width.
* `JobQueueProofs`, `BackendLinkProofs`, `ConsoleProofs` (panel, shell and log stream):
  the theorems about each. Those about `WorkflowJobs` are in five modules, each on the
  one before: `WorkflowJobsProofs` (types and guarded updates), `WorkflowOrderProofs`
  (what starts and what completes), `GroupFlowProofs` (the refinement),
  `WorkflowRestProofs` (the cleanup and the logs) and `WorkflowStuckProofs` (what a
  workflow at rest has come to).
* `MCWorkflowJobs`, `MCJobQueue`, `MCClients`: the small instances.

Operators marked `FAULT` are plausible mistakes of the code. No specification
uses them; each stands in for the correct definition once, to show that a property
notices.

### How the state abstracts the code

Names, messages, exit codes, pod specs and times are left out. The exit action
an exit code selects is part of the job that reports it; that of a `RescheduleTask`
which fails is the constant `ErrorAction`. A timeout is a delayed
job that may arrive when it is due (below). A group knows its upstream groups
that remain; the downstream groups are derived. `patch_cleaned_up` (an UPDATE and
a SELECT) and the sending that follows are one step: of two groups that become
clean at once both may then send `CleanupWorkflow`, whose id is the same.
A job that asks to be retried (`FAILED_RETRY`) comes back as it does after a
crash, which `Crash` and `Disconnect` model. The statement `WriteGroup` is
attempted whenever the code attempts it or has just read the row with that very
status, where it would match nothing. A job that has looked its backend up goes on
with what it found, as `BackendConfigCache` lets it (`HasBackend`), though the
backend may be deleted meanwhile.

In the console, a callback is one step: JavaScript runs it to its end. A step of
`connect` or of the stream's loop goes from one `await` to the next. Widths are
percentages as in the code; pixels appear only as the width of a strip. What a
terminal shows is whether a shell has printed to it; the text of a line and the
layout of the page are left out.

## Runs

| Run | Instance | Question |
|---|---|---|
| `diamond` | 4 groups in a diamond, 2 fair workers, pods complete or fail, backend may go | implements `GroupFlow` (order of groups, one end of each and of the workflow), nothing stuck, the workflow ends if its pods do |
| `retry` | 1 task, 2 retries, plain and forced cancel, a retry may be refused, whose exit action asks for another, 2 workers | retries, logs, no orphan pods |
| `pair` | lead and nonlead task, 1 retry each, 2 workers | completed groups really are; finished groups stay so |
| `timeouts` | 1 task, start and run timeouts, backend may go | races of reports with timeouts |
| `faults` | 1 task, 1 retry, 1 crash or disconnect, any backend job may be refused, a refused retry counts as completed | types, end of the workflow and retries under faults |
| `cancel` | 1 task, 2 fair workers, cancel, queue timeout | the workflow ends if its pods do; a cancel that reached the group ends it anyway and clears the cluster |
| `job_queue` | 3 copies of 1 job (one delayed, one a cancel), 2 workers, 1 crash, retry limit 1 | one owner, live keys, bounded retries, every job settles |
| `clients` | 2 jobs over 2 links; 3 attempts at a shell; a log of 4 lines, 2 runs, 1 break; a panel with 2 strip widths | results are those of the job waited for; one live connection, whose output is on show; the log is shown whole; the panel comes to rest where it was |
| `lost_cancel` | 1 task, 1 cancel | violated: a cancel during submission is lost |
| `untimed` | lead and nonlead task, run timeout | violated: a group that runs by aggregation has no clock |
| `redelivery` | 1 task, 1 disconnect | violated: a disconnect after CreateGroup fails the group |
| `shell_history` | 2 attempts at a shell | violated: a reconnection after an error drops the terminal and what it shows |

The four violations are disagreements between the code and its own comments or
documentation; "findings" in `PROJECT.json` quotes both sides.

**Bounds.** Two workers are enough for every race of two jobs, and a crash adds a
third party: a redelivered job meets what its first run left behind. One retry
distinguishes the first, the last and the one too many; two, in `retry`, let a retry
that was refused be asked for again. The diamond is the
smallest graph with two releases of one group and with failures that meet.
`MaxCrashes`, `MaxRetry`, `RetryLimit` and one forced cancel bound the counters;
`failed` in `JobQueue` stops counting above the limit. Features are switched on
per run (reports, timeouts, cancels, refusals), which keeps each instance below
half a million states (`retry`: 1.8 million) while the passing runs together take
every action. `ErrorAction`, what a task's exit actions make of the exit code of a retry
that cannot be created, is none in most runs, RESCHEDULED in `retry` and COMPLETED in
`faults`; the theorems hold for all of them.
In `cancel` the pod reports that it is scheduled and that it runs: a queue timeout would
end a pod that is only scheduled, and so hide a cancel that was lost.
Workers are symmetric where no liveness is checked. Deadlock is not checked
because a workflow that has ended is at rest.

`clients` plays four machines that share no state: `scene` picks one in the first
state and the others stay as they start, so the run costs the sum of the four, not
their product, and each property of a machine is checked in its own behaviours.
Two links are enough for a result of one to meet the job of the other, and two
jobs to tell them apart. Three attempts (`MaxAttempts`) are one more than the two
that can overlap, so that a late event can meet a session twice removed. Four
lines with `MaxEntries` = 3 trim the buffer; they lie on days 1, 2, 2, 1, so a separator
is needed, not needed, and needed for a day seen before. `MaxRetries`, `MaxRuns`
and `MaxBreaks` let one run give up, a second one overlap it, and a stream start
over. The pointer's and the stored widths lie on and between the thresholds of
the panel, and two strip widths stand for a window that is resized.

**Fairness.** Service workers and backend worker loop over the queue for ever
(`kombu` consumers restarted by Kubernetes), so their steps are weakly fair; a
pod that was created produces events, so its moves are. No fairness is
assumed of pods ending, users cancelling, senders before they start, or
failures. `WorkflowEnds` therefore assumes that the pods end and the backend stays,
and `CancelEnds` needs no such assumption: the cleanup ends the pods.
In the console, browsers paint frames and fire timeouts (`PanelProgress`,
`Flush`, `Render`), exec calls are answered or fail and sockets open or fail
(`ShellProgress`, one condition for all attempts, because each takes few such steps),
and a service that has lines sends them and ends a finished log
(`StreamProgress`). Nothing is assumed of the user, of the end of an
animation (`transitionend` may never come), or of the shell behind a socket.

**Timing.** Two conditions stand for time. `Expires`: a timeout check is not
processed while a worker is about to write that group, because timeouts are
minutes or more after they are armed. `PrepareCleanupGroup`: the cleanup that
`RescheduleTask` delays by an hour comes when the workers have finished what they
had in hand. `JobQueue` takes the visibility timeout of the broker to be longer
than a job, so a message is redelivered only when its worker dies, and the
five-day life of the keys to be longer than any job.

**Properties that hold only while the backend is configured** say so
(`backendUp`). Without it the code fails downstream groups by a job that writes
no task, and the end of a task raises; the workflow may then never end. This is
listed under the hazards, as are a crash between `SetGroups` and `SendCreate`,
which strands a group in PROCESSING, and a refused cleanup, which has no retry.

**Properties that hold up to a history variable.** `ResultsAreOwn` is stated until the
worker loses a link while it has a job (`late`): afterwards its old tasks send
their results over the new link, and since JOB_STATUS names no job the agent takes
them for the current one's. No line of the source says otherwise, so this is a hazard
and not a finding. `OneConnection` and `OutputIsOnShow` are stated until a session is
given up with something of it alive (`strayed`), in two ways. `removeShell` closes no
socket: it deletes the record alone (`shell-cache.ts:106`) and does not call `dispose`
(`use-shell.ts:603`), although `shell-context.tsx:34` says "Remove a shell from rendering
and dispose its session" and `details-panel.tsx:169` "closes WebSocket + removes from
list". No run asks for this: a property would restate the one action `Remove`. A timeout
leaves the socket it gave up, of which no line says anything. Both are hazards.

## Proofs

`tlapm` on each of the `*Proofs` modules checks all proofs. They assume only the
named assumptions on the constants (`QueueAssumption`, `WorkflowAssumption`,
`LinkAssumption`, `PanelAssumption`, `ShellAssumption`, `StreamAssumption`), which
TLC evaluates on the instances.

*Job queue.* `TypeCorrect` is inductive as stated. `QueueDedupes`
(`Spec => Deduped!Spec`) needs that whoever has passed the owner check still
owns the key: `OwnersOnly`, which is inductive because a key is set once and
never cleared. Each step then maps to `Claim`, `Run` or a stutter. `KeysLive`
needs what lies between publishing a copy and setting its key: a copy that has
been published is queued, with a worker, or its id has a verdict or another
owner. It shows that no order of the three steps of `send_job`, and no death in
between, leaves a key that bars a job nobody holds.
`RunAloneAlways` adds to `OwnersOnly` that a copy which is not delayed is one
message (`OneMessage`): it is not sent yet, or queued once, or with one worker, or
gone, also after a death, which gives the message back as the worker lets go of
it. `RetriesStayBounded` counts (`Counted`): a run is counted when it starts, so
until the job has succeeded its failures and its runs under way are together at
most the tries and at most `RetryLimit`. That only finitely many workers run a job
is part of the invariant, since `Workers` may be infinite.

*Workflow jobs.* Every theorem rests on `Shape`, which is `TypeOK` and three facts
that a step relies on beyond it (`ShapeInvariant`, one lemma per group of
actions): a worker that is updating a task has one, what it is about to write
into a group is a status of a group, and a `RescheduleTask` job names its task.
`TypeOK` alone is not inductive, because a job that comes back after a crash
could then be one without a task. `TypeCorrect` follows.

`FinishedGroupsStay` goes through `GroupMoves`: whatever the step, the status of a
group stays, or the group was not finished. The guarded UPDATEs are the reason
(`UpdateMoves`: no finished status is among their sources), and every other write
to the groups table touches another column or tests for an unfinished status.

`EndIsRight` is the stale read between the SELECT of the group statuses and the
UPDATE of the workflow. The invariant `Ends` says that a worker which is about to
write a finished status (`EndingWorker`) computed it when every group was
finished. By `GroupMoves` those groups still have those statuses, so the write
is right however late it comes; a worker with an older, unfinished view writes
RUNNING, which the guard of the UPDATE refuses once the workflow has ended. One
more fact is needed: no group is ever RESCHEDULED (`PlainGroups`), because
`finished()` counts that status as over.

`RetriesAreEarned` needs that a row which is RESCHEDULED never moves again
(`RowMoves`), and that a worker which is about to insert a retry has read the row
before it as RESCHEDULED (`RetryingWorker`). It holds for any number of crashes
and redeliveries: a job that starts again reads the row again.

`StartTimeoutsSpareRunning` is a property of steps. The job that ends a task which
did not start has read its row in an earlier statement, and the pod may have begun
to run since, so what spares it is the guard of the UPDATE alone: RUNNING is not
among the sources of FAILED_START_TIMEOUT (`RowUpdateSpares`). The rest of the proof
is that every other write of a row is such an UPDATE or meets a row that is absent
or WAITING (`WorkerStepSpares`).

`StartsInOrder` is about the longest way a status goes: a group that ends, the UPDATE
that takes it out of the groups that remain, and the launch of a downstream group
that has none left, in three statements of any number of workers. `Sound` says that a
worker which is about to take a group out has seen it COMPLETED, and that nothing but
the submission and cancels is under way until all groups are inserted. `Ordered`
says of each group that its upstream groups have completed or that it is
`Unlaunched`. The remaining groups alone (`EarlyGroup`) are not inductive: a group can
also leave WAITING by an update of its own, so `Unlaunched` also lists what may be
there before the launch. No pod, no row that runs, no job that would create a pod or
report one of its tasks (`EarlyJob`), and no worker that holds such a job or an
aggregate of tasks that run (`EarlyWorker`); what may be there are the jobs that end
the group as a whole, and they can only fail it. Since a completed group stays
completed (`CompletedStays`), a launch that is late is still right. `backendUp` is
needed: without a backend the downstream groups are sent an update without a task,
which aggregates rows that are WAITING to INITIALIZING, launched by no one.

`CompletionIsEarned` is the stale read of the task statuses. `Honest` adds that a
worker which is about to write COMPLETED read rows which say so (`RanWorker`). That
they still do when it writes needs two facts: a finished row stays, and a task whose
latest row has completed gets no further retry (`CompletedIsLatest`), which rests on
`RetriesAreEarned` and on the rows of a task being inserted in order (`LatestRetry`).

`FlowRefined` (`Spec => ImplementsFlow`) puts these together: every step of
`WorkflowJobs` maps to an action of `GroupFlow` or a stutter. It needs two more
invariants, because `GroupFlow` has no step back and no completion without a start.
`Hearsay`: the statuses that jobs report, that workers compute from them and that
they write into a group all come after the launch, so a group that has started never
waits again, although no guard of the UPDATEs forbids it. `Untouched`: a group that
has not started has no pod, no row that has completed, and no job that creates one or
speaks of its tasks, with or without a backend; so what ends it then is a failure.
The start of a group is in order by `Ordered`; the end of the workflow is the
aggregate of its groups by `Ends`; the deletion of the backend loses the order.

Four theorems say what a workflow has come to when it moves on to the logs or comes to
rest. They are proved for `MaxRetry = 0`, the default of `max_retry_per_task`, while
the backend is configured, and each under the conditions that its statement names:

| Theorem | Conditions | What happens without them |
|---|---|---|
| `LogsMoveLate` | `MaxRetry = 0` | with a retry and a crash: `RescheduleTask` sends a cleanup of the retry that ended meanwhile, which counts the group as clean although the worker that closed it died before it wrote the workflow |
| `NoPodIsLeft` | and `CleanupsKept`: no cleanup refused, no crash while there are start timeouts | a refused cleanup has no failure handler; a start timeout that is delivered again finds its row written and is dropped before it cleans up |
| `NothingIsStuck` | and `Lossless`: no crash, no cleanup refused; `Acyclic`; a group | a worker that dies between `SetGroups` and `SendCreate` loses the launch |
| `RunningIsTimed` | `MaxRetry = 0`, `Lossless`, `"run" \in Timeouts`, `Solo`: a group is its lead task | a group that runs by aggregation has no clock (`untimed`) |

All else is free: the graph of the groups, the tasks of each, which nonlead statuses are
ignored, the number of workers, what pods report and how they end, plain and forced
cancels, the timeouts, refused CreateGroups, and for `LogsMoveLate` any number of
crashes, redeliveries and refusals.

`Orderly` is what the four share. A row or a group with an end time is over
(`PlainData`), a job carries what its sender knew (`PlainJobs`), and a worker whose job
will clean up has ended what it cleans up (`Ending`): the rows before it derives the
status of the group, the group before it goes on. It is inductive because
a finished row stays (`RowsKeep`) and the aggregate of rows that are all over is a
finished status (`AggregateIsOver`).

`LogsMoveLate` needs to know who ends the workflow. `Late` says that a group is cleaned, or
has a cleanup anywhere, only when it is closed, and that until the workflow is written
some group is still open to the count: the one that closed last has no cleanup yet,
because its worker reads the groups and writes the workflow before it sends one
(`LastCloses`). So the cleanup that finds all other groups clean comes after that
write.

`NoPodIsLeft` is an argument about debts. `Owed`: once a group has begun to end, by
itself or by a task that takes it along, and is not closed or still has pods, its
cleanup is a job, the job that will send it, or with the worker that has that job
(`Owing`). Who ends it takes the debt on (`EndingOwes`, `ClosingOwes`), each step hands it
on (`OwingStays`), only the deletion of the pods discharges it, and no pod appears
after that (`NoPodsAppear`). At rest nobody owes anything.

`NothingIsStuck` follows the work through the service. `Moving` has seven parts, one per way
a workflow could stand still: the submission marks every group (`Submitting`); a group
is launched once and its CreateGroup sent once (`LaunchedOnce`), so the dedupe key that it
leaves bars no launch; an update of the whole group that left its key ends the group
(`Obeyed`); the end of a pod is reported (`ReportsCount`); a group that has started and is not
closed has its CreateGroup under way, a pod of its lead task, or a cleanup that is owed
(`Underway`); of what a group waits for, a group that has finished has a worker about to
tell it, or its own end is owed, and when nothing remains a worker has seen so (`Awaiting`); and when all groups are closed a worker has yet to write the workflow
(`EndIsNear`). The parts rest on one another: `Underway` survives a refused CreateGroup by
`Obeyed`, `Awaiting` survives an upstream failure by it. At rest, then, every group that
started is closed; of the groups that did not, one waits for none of the others, because
the graph has no circle, and somebody would have to be about to launch it.

`RunningIsTimed` follows the clock. `Timed`: a task that runs in a group that is not closed
has its clock wound by the worker that wrote the row, or a check in the queue that will
find the start stamp of the group, which is there or is about to be written, or its
cleanup is owed. The check that is taken finds the stamp because a timeout outlasts the
write (`Expires`), and the update it sends ends the group by `Obeyed`.

*Backend link.* `LinkInv` is what both ends know of each other: a thread that waits on
a live link has its job in exactly one of three places (`AgentOK`), a link that was
never made is untouched (`Unused`), and the greeting of a link is sent once and is
gone when the link is on (`Greeted`). The last is why no greeting is taken for a
result, which would leave the thread without one. `LinkResultsAreOwn` needs `Own`:
until a link is lost with a job, the current job of a link is in one place at a
time, on the wire, in a queue of the worker, executing, or answered (`OnePlace`),
and a link the worker has left holds at most its answer.

*Workflow panel.* `PanelInv` holds four facts besides the types. Before the stored
width is restored the machine is fresh (`Untouched`). It settles exactly while
frames are due, and an animation goes to the width on show (`Awaited`). Outside a
drag a width in the free zone is the remembered one (`Remembered`), which extends
`RemembersWidth` to the phases a width comes to rest through. The store is
behind only while the panel is dragged or animated (`Followed`): every way out of
those phases passes through `Settle` and stores the width that is settled.
`PanelForgetsByDrags` then follows action by action.

*Shell sessions.* `ShellInv` is `ShellTypeOK`, `AttachedIsOpen` and one more fact: an
attempt whose call is not over has no socket (`CallsFirst`), so a socket that opens
was asked for by its own attempt. With it `AttachedIsOpen` is inductive: the events
that close a socket also detach the session, whichever attempt they come from.
`OneConnection` needs `Tidy`: until something strays, what is alive is what the
session's phase says (`Held`: a call while it is connecting, a connecting socket
while it is opening, an open one only as its own, a timeout only as its own), and no
two attempts are alive in the same way (`Single`). `OutputIsOnShow` follows from it: a
socket gets the terminal that the session has from then on, and only a reconnection
after an error changes that (`Keeps`), when by `Tidy` no socket is alive. That this
reconnection loses what the old terminal showed is the finding `shell_history`.

*Log stream.* `StreamInv` speaks of pieces: entries of one run and one connection whose
lines follow one another and end at a given line (`Piece`). The lines that wait for
a frame end where the connection has been read to, and those of earlier frames end
where these begin, unless the waiting ones already fill the buffer (`Windows`); both
together reach back to the start of the log or over `MaxEntries`. What is on show may
be older than the connection, but then nothing of this one has been painted
(`Displayed`). A frame joins the two pieces and keeps the newest, which is a piece
again (`PiecesMeet`, `PieceNewest`), and a stream that is complete has been read to
its end (`Control`): hence `ShowsOnePiece` and `CompleteIsShown`, for any log and any
bound.
`PatchedListIsFull` is about the recursive functions. What is filtered from a piece
misses no line in between (`Sifted`), so two such lists by one filter that share
their first entry agree as far as both go (`SiftedAgree`): this is why the test of
`classifyEntriesChange`, which compares two entries only, is enough. A list that
begins as the old one does is the old one with the rest appended (`AppendingIsFull`),
whatever dates the separators fall on. The recursive functions are unfolded by an
argument about the least number for which a claim fails, since the library's induction
theorems take an operator. `SelectionKeepsItsLine` follows: a patch leaves the items before
it where they were, and a list that is built anew drops the selection.

Only model-checked, and why:

* the liveness properties (`WorkflowEnds`, `CancelTakesEffect`, `CancelEnds`,
  `JobsSettle`, `PanelComesToRest`, `ShellSettles`, `ShowsInTheEnd`): fairness is out of
  the prover's reach;
* `LogsMoveAfterEnd` and `NoOrphanPods` with retries: the theorems are for
  `MaxRetry = 0`, the run `retry` checks them for a group of one task with two retries,
  which may be refused, and both kinds of cancel. A retry has a pod and a cleanup of its own, so the debts above
  would have to be kept per retry. In a group of a lead and a nonlead, one retry each, TLC
  finds these two and `NothingStuck` violated without any crash: a task that is
  rescheduled meets the end that its sibling's job writes to the group and gets its new row
  and pod after the group was cleaned. So retries could be let in for groups of one task
  only;
* `RunningGroupsAreTimed` once the backend has left the configuration, in `timeouts`;
* `DisconnectsAreRetried`, which a disconnect violates (`redelivery`).

None of the four theorems about rest is one of `Spec` alone: the last column of the table above
is what TLC finds on a small instance when retries, crashes, refusals or groups of several
tasks are let in. That a workflow has a group and no circle
is checked before it is submitted (`utils/job/workflow.py`, lines 276 and 331).

## Not modelled

*Service.* Barriers and task restarts (redis lists that only the pods read),
notifications, uploads and deletes of files and apps, node labels and queue
synchronisation, job priorities, the expiry of keys, and timeout jobs queued by
releases that had no group in them. Of the listener: its window of
unacknowledged messages and its status cache, which repeat what a pod has
reached. Of the link: heartbeats, log messages, and the choice a close code makes
between the two results a lost job may have, which is left open
(`AgentDisconnects`). Parsing and validation, Kubernetes templates, router,
command line, data transfer, authorization and configuration hold no state of a
workflow.

*Console.* `useEventStream` has the loop of `useLogStream` and is not written
twice. A chunk that resolves in the same microtask as its abort, entries the
server itself trimmed, a websocket that cannot be constructed and a container of
less than 200 pixels are left out, as are the terminal's fitting and addons. What
remains of the user interface is generated types (the longest file), queries and
their caches, tables, forms, the timeline and the rendering of each; its state is
mostly that of React Query and of the page's URL. The models, which are
about the machines that keep state over several events, stand for a small share of
the lines of the user interface.

*Hazards without a property* are in `PROJECT.json` with the reason: most are what the
code does and no source line says it should not, and three lie in parts that are
not modelled.

## Plan

Done: `TaskGroupStatus`, `WorkflowJobs`, `GroupFlow`, `DedupedJobs`, `JobQueue`,
`BackendLink`, `PanelResize`, `ShellSession`, `LogStream`, and the proofs above. What is
left, in order:

1. Proofs: `NoPodIsLeft` with retries for groups of one task (`Solo`), with `Owed` kept per
   retry and the delayed cleanup of `RescheduleTask` among those who owe.
2. `BackendListener`: the window of unacknowledged messages and the status cache; a
   status of a pod reaches the service at least once, in order for a connection.
3. `Barrier`: join, leave and notify of a group's barrier by concurrent workers and
   the logger; notified when all that remain have joined.
4. A poison job and the key expiry in `JobQueue`.
