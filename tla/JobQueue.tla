------------------------------ MODULE JobQueue ------------------------------
(***************************************************************************)
(* The job queue: how a job is sent, now or later, and how a worker takes  *)
(* it, runs it, retries it and gives it up.                                *)
(*                                                                         *)
(* A job has an id, made from its contents, and each of its copies a uuid  *)
(* of its own.  The redis key dedupe:<id> holds the uuid of the first copy *)
(* and every other copy is skipped; retry:<id> counts the starts.  The     *)
(* keys outlive a job by days and are taken to stay.  The broker (kombu on *)
(* redis) delivers a message again when its worker dies before the ack.    *)
(***************************************************************************)
EXTENDS Integers, FiniteSets

CONSTANTS
  Ids, Copies,
  IdOf,        \* the job id of a copy
  Delayed,     \* the copies sent through the delayed job queue
  Cancels,     \* the copies that are UpdateGroups with a canceled status
  Workers,
  RetryLimit,  \* max_retry_per_job
  MaxCrashes,  \* how many processes may die
  None         \* no copy

ASSUME QueueAssumption ==
  /\ IdOf \in [Copies -> Ids] /\ None \notin Copies
  /\ Delayed \subseteq Copies /\ Cancels \subseteq Copies
  /\ RetryLimit \in Nat /\ MaxCrashes \in Nat

VARIABLES
  stage,    \* how far the sending of a copy has come
  key,      \* dedupe:<id>
  tries,    \* retry:<id>
  queue,    \* how many messages of a copy are queued
  worker,   \* what each worker is doing with which copy
  crashes,
  backend,  \* the ids of the jobs of a backend; it never changes
  ran, failed, verdict  \* history: the copies that have started, how often a job
                        \* of an id asked to be retried, what became of the id

history == <<ran, failed, verdict>>
vars    == <<stage, key, tries, queue, worker, crashes, backend, history>>

Idle == [pc |-> "idle", copy |-> None]

Init ==
  /\ stage  = [c \in Copies |-> "new"]
  /\ key    = [i \in Ids |-> None]
  /\ tries  = [i \in Ids |-> 0]
  /\ queue  = [c \in Copies |-> 0]
  /\ worker = [w \in Workers |-> Idle]
  /\ crashes = 0 /\ backend \in SUBSET Ids
  /\ ran = {} /\ failed = [i \in Ids |-> 0] /\ verdict = [i \in Ids |-> {}]

-----------------------------------------------------------------------------
(***************************************************************************)
(* Sending.  The monitor sends the delayed copies that are due one by one, *)
(* and removes each from the delayed queue once it is sent.                *)
(***************************************************************************)
Reach(c, s) == stage' = [stage EXCEPT ![c] = s]
AfterSend(c) == IF c \in Delayed THEN "sent" ELSE "over"
Sending == {"checked", "published", "sent"}

\* FAULT: the later copy takes the key.
Overwrite(c) == key' = [key EXCEPT ![IdOf[c]] = c]

\* The first copy takes the key.
SetNX(c) == key' = IF key[IdOf[c]] = None THEN [key EXCEPT ![IdOf[c]] = c] ELSE key

Delay(c) ==
  /\ c \in Delayed /\ stage[c] = "new" /\ Reach(c, "delayed")
  /\ UNCHANGED <<key, tries, queue, worker, crashes, backend, history>>

\* A copy whose id has a key is not sent, unless it is a cancel.
CheckKey(c) ==
  /\ IF c \in Delayed
     THEN stage[c] = "delayed" /\ \A d \in Delayed : stage[d] \notin Sending
     ELSE stage[c] = "new"
  /\ Reach(c, IF key[IdOf[c]] # None /\ c \notin Cancels THEN AfterSend(c) ELSE "checked")
  /\ UNCHANGED <<key, tries, queue, worker, crashes, backend, history>>

Publish(c) ==
  /\ stage[c] = "checked" /\ Reach(c, "published")
  /\ queue' = [queue EXCEPT ![c] = @ + 1]
  /\ UNCHANGED <<key, tries, worker, crashes, backend, history>>

SetKey(c) ==
  /\ stage[c] = "published" /\ Reach(c, AfterSend(c)) /\ SetNX(c)
  /\ UNCHANGED <<tries, queue, worker, crashes, backend, history>>

Remove(c) ==
  /\ stage[c] = "sent" /\ Reach(c, "over")
  /\ UNCHANGED <<key, tries, queue, worker, crashes, backend, history>>

\* The sender dies: the monitor starts over, any other copy stays as it is.
SenderDies(c) ==
  /\ stage[c] \in Sending /\ crashes < MaxCrashes
  /\ crashes' = crashes + 1
  /\ Reach(c, IF c \in Delayed THEN "delayed" ELSE "over")
  /\ UNCHANGED <<key, tries, queue, worker, backend, history>>

-----------------------------------------------------------------------------
(***************************************************************************)
(* Running: Worker.run_job for a job of the service; for one of a backend, *)
(* handle_job, which sends it there, and finish_current_job.  Workers are  *)
(* the processes of either kind.                                           *)
(***************************************************************************)
At(w, pc)   == worker[w].pc = pc
Goto(w, pc) == worker' = [worker EXCEPT ![w].pc = pc]
Job(w)      == worker[w].copy
Id(w)       == IdOf[Job(w)]
Stop(w)     == worker' = [worker EXCEPT ![w] = Idle]
PutBack(w)  == queue' = [queue EXCEPT ![Job(w)] = @ + 1] /\ Stop(w)
Judge(w, v) == verdict' = [verdict EXCEPT ![Id(w)] = @ \cup {v}]

\* FAULT: the broker hands out a message that a worker still has.
TakeAgain(w) ==
  \E c \in Copies :
    /\ At(w, "idle") /\ (queue[c] > 0 \/ \E v \in Workers : Job(v) = c)
    /\ queue' = [queue EXCEPT ![c] = @ - 1]
    /\ worker' = [worker EXCEPT ![w] = [pc |-> "check", copy |-> c]]
    /\ SetNX(c)
    /\ UNCHANGED <<stage, tries, crashes, backend, history>>

Take(w) ==
  \E c \in Copies :
    /\ At(w, "idle") /\ queue[c] > 0
    /\ queue' = [queue EXCEPT ![c] = @ - 1]
    /\ worker' = [worker EXCEPT ![w] = [pc |-> "check", copy |-> c]]
    /\ SetNX(c)
    /\ UNCHANGED <<stage, tries, crashes, backend, history>>

\* FAULT: a copy is a duplicate only when another one has succeeded.
CheckUnlessDone(w) ==
  /\ At(w, "check")
  /\ Goto(w, IF "done" \in verdict[Id(w)] THEN "ack" ELSE "limit")
  /\ UNCHANGED <<stage, key, tries, queue, crashes, backend, history>>

\* A copy that does not hold the key is a duplicate.
CheckOwner(w) ==
  /\ At(w, "check")
  /\ Goto(w, IF key[Id(w)] = Job(w) THEN "limit" ELSE "ack")
  /\ UNCHANGED <<stage, key, tries, queue, crashes, backend, history>>

\* FAULT: the starts are counted and not limited.
CountOnly(w) ==
  /\ At(w, "limit") /\ Goto(w, "run")
  /\ tries' = [tries EXCEPT ![Id(w)] = IF @ > RetryLimit THEN @ ELSE @ + 1]
  /\ ran' = ran \cup {Job(w)}
  /\ UNCHANGED <<stage, key, queue, crashes, backend, failed, verdict>>

\* _check_job_retry_limit: one start too many is a failure.
CheckLimit(w) ==
  LET over == tries[Id(w)] + 1 > RetryLimit IN
  /\ At(w, "limit") /\ Goto(w, IF over THEN "fail" ELSE "run")
  /\ tries' = [tries EXCEPT ![Id(w)] = @ + 1]
  /\ ran' = IF over THEN ran ELSE ran \cup {Job(w)}
  /\ UNCHANGED <<stage, key, queue, crashes, backend, failed, verdict>>

Succeed(w) ==
  /\ At(w, "run") /\ Goto(w, IF Id(w) \in backend THEN "ack" ELSE "clear")
  /\ Judge(w, "done")
  /\ UNCHANGED <<stage, key, tries, queue, crashes, backend, ran, failed>>

\* _clear_retry_limit
Clear(w) ==
  /\ At(w, "clear") /\ Goto(w, "ack")
  /\ tries' = [tries EXCEPT ![Id(w)] = 0]
  /\ UNCHANGED <<stage, key, queue, crashes, backend, history>>

\* FAULT: the count starts again with each result.
RetryAfresh(w) ==
  /\ At(w, "run") /\ PutBack(w)
  /\ tries' = [tries EXCEPT ![Id(w)] = 0]
  /\ failed' = [failed EXCEPT ![Id(w)] = IF @ > RetryLimit THEN @ ELSE @ + 1]
  /\ UNCHANGED <<stage, key, crashes, backend, ran, verdict>>

\* The job returns FAILED_RETRY, or the connection to the backend drops.
\* BOUND: failed stops counting above the limit.
Retry(w) ==
  /\ At(w, "run") /\ PutBack(w)
  /\ failed' = [failed EXCEPT ![Id(w)] = IF @ > RetryLimit THEN @ ELSE @ + 1]
  /\ UNCHANGED <<stage, key, tries, crashes, backend, ran, verdict>>

\* The job raises, or a backend job returns FAILED_NO_RETRY.
Fail(w) ==
  /\ At(w, "run") /\ Goto(w, "fail")
  /\ UNCHANGED <<stage, key, tries, queue, crashes, backend, history>>

\* A job of the service that returns FAILED_NO_RETRY is only acknowledged.
Decline(w) ==
  /\ At(w, "run") /\ Id(w) \notin backend /\ Goto(w, "ack")
  /\ Judge(w, "declined")
  /\ UNCHANGED <<stage, key, tries, queue, crashes, backend, ran, failed>>

HandleFailure(w) ==
  /\ At(w, "fail") /\ Goto(w, "ack") /\ Judge(w, "failed")
  /\ UNCHANGED <<stage, key, tries, queue, crashes, backend, ran, failed>>

Ack(w) ==
  /\ At(w, "ack") /\ Stop(w)
  /\ UNCHANGED <<stage, key, tries, queue, crashes, backend, history>>

\* FAULT: a message is acknowledged when it is taken.
DieAcked(w) ==
  /\ ~At(w, "idle") /\ crashes < MaxCrashes
  /\ crashes' = crashes + 1 /\ Stop(w)
  /\ UNCHANGED <<stage, key, tries, queue, backend, history>>

WorkerDies(w) ==
  /\ ~At(w, "idle") /\ crashes < MaxCrashes
  /\ crashes' = crashes + 1 /\ PutBack(w)
  /\ UNCHANGED <<stage, key, tries, backend, history>>

-----------------------------------------------------------------------------
SenderStep(c) == CheckKey(c) \/ Publish(c) \/ SetKey(c) \/ Remove(c)
WorkerStep(w) == \/ Take(w) \/ CheckOwner(w) \/ CheckLimit(w)
                 \/ Succeed(w) \/ Clear(w) \/ Retry(w) \/ Fail(w) \/ Decline(w)
                 \/ HandleFailure(w) \/ Ack(w)

Next == \/ \E c \in Copies : Delay(c) \/ SenderStep(c) \/ SenderDies(c)
        \/ \E w \in Workers : WorkerStep(w) \/ WorkerDies(w)

Spec == Init /\ [][Next]_vars

\* Workers and the monitor loop for ever; a sender goes on until it dies.
Fairness == /\ \A c \in Copies : WF_vars(SenderStep(c) /\ stage[c] # "new")
            /\ \A w \in Workers : WF_vars(WorkerStep(w))
FairSpec == Spec /\ Fairness

-----------------------------------------------------------------------------
(***************************************************************************)
(* Properties                                                              *)
(***************************************************************************)
Stages   == {"new", "delayed", "over"} \cup Sending
Pcs      == {"idle", "check", "limit", "run", "clear", "fail", "ack"}
Verdicts == {"done", "failed", "declined"}

\* Every key names a copy and every count is a number.
TypeOK ==
  /\ stage \in [Copies -> Stages]
  /\ key \in [Ids -> Copies \cup {None}]
  /\ tries \in [Ids -> Nat] /\ queue \in [Copies -> Nat]
  /\ worker \in [Workers -> [pc : Pcs, copy : Copies \cup {None}]]
  /\ \A w \in Workers : worker[w].pc # "idle" => worker[w].copy \in Copies
  /\ crashes \in 0..MaxCrashes /\ backend \subseteq Ids
  /\ ran \subseteq Copies /\ failed \in [Ids -> Nat] /\ verdict \in [Ids -> SUBSET Verdicts]

\* However many copies of a job are sent and delivered, one owns its id and runs.
Deduped == INSTANCE DedupedJobs WITH owner <- key
OnlyOwnersRun == Deduped!Spec

\* A key never bars an id for nothing: the copy it names is queued, or with a
\* worker, or the job is over.
KeysAreLive ==
  \A i \in Ids : key[i] # None =>
    \/ queue[key[i]] > 0
    \/ \E w \in Workers : worker[w].pc # "idle" /\ worker[w].copy = key[i]
    \/ verdict[i] # {}

\* A job that never succeeds asks for a retry at most max_retry_per_job times,
\* whatever the crashes in between.
RetriesAreBounded ==
  \A i \in Ids : failed[i] > RetryLimit => "done" \in verdict[i]

\* Two workers never run a job of one id at the same time.  A delayed job may,
\* when the monitor dies between sending it and removing it.
Running(w) == worker[w].pc \in {"run", "fail"}
RunAlone ==
  \A v, w \in Workers : v # w /\ Running(v) /\ Running(w) /\ Id(v) = Id(w)
                          => Job(v) \in Delayed

\* Every job that is queued, or in the delayed queue, comes to an end: it
\* succeeds, it declines or its failure is handled.
Pending(i) == \E c \in Copies : IdOf[c] = i /\ (queue[c] > 0 \/ stage[c] = "delayed")
JobsSettle == \A i \in Ids : Pending(i) ~> verdict[i] # {}

=============================================================================
