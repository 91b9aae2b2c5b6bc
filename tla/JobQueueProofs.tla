--------------------------- MODULE JobQueueProofs ---------------------------
(***************************************************************************)
(* Proofs about the job queue: it is well typed, a key is never taken over *)
(* and only the copy it names runs, no key bars an id for nothing, a job   *)
(* runs in one place, and it is retried no more often than it may be.      *)
(***************************************************************************)
EXTENDS JobQueue, FiniteSetTheorems, TLAPS

USE QueueAssumption

\* Every variable keeps its type.
THEOREM TypeCorrect == Spec => []TypeOK
<1>1. Init => TypeOK
  BY DEF Init, TypeOK, Idle, Stages, Pcs, Verdicts
<1>2. TypeOK /\ [Next]_vars => TypeOK'
  <2> SUFFICES ASSUME TypeOK, [Next]_vars PROVE TypeOK'
    OBVIOUS
  <2>1. ASSUME NEW c \in Copies, Delay(c) \/ CheckKey(c) \/ Remove(c) \/ SenderDies(c)
        PROVE  TypeOK'
    BY <2>1 DEF TypeOK, Delay, CheckKey, Remove, SenderDies, Reach, AfterSend, Sending,
                Stages, Verdicts, history
  <2>2. ASSUME NEW c \in Copies, Publish(c) PROVE TypeOK'
    BY <2>2 DEF TypeOK, Publish, Reach, Stages, Sending, history
  <2>3. ASSUME NEW c \in Copies, SetKey(c) PROVE TypeOK'
    BY <2>3 DEF TypeOK, SetKey, SetNX, Reach, AfterSend, Stages, Sending, history
  <2>4. ASSUME NEW w \in Workers, Take(w) PROVE TypeOK'
    BY <2>4 DEF TypeOK, Take, SetNX, At, Pcs, history
  <2>5. ASSUME NEW w \in Workers, CheckOwner(w) \/ Clear(w) \/ Fail(w) PROVE TypeOK'
    BY <2>5 DEF TypeOK, CheckOwner, Clear, Fail, At, Goto, Job, Id, Pcs, history
  <2>6. ASSUME NEW w \in Workers, CheckLimit(w) PROVE TypeOK'
    BY <2>6 DEF TypeOK, CheckLimit, At, Goto, Job, Id, Pcs
  <2>7. ASSUME NEW w \in Workers, Succeed(w) \/ Decline(w) \/ HandleFailure(w)
        PROVE  TypeOK'
    BY <2>7 DEF TypeOK, Succeed, Decline, HandleFailure, Judge, At, Goto, Job, Id, Pcs, Verdicts
  <2>8. ASSUME NEW w \in Workers, Retry(w) PROVE TypeOK'
    BY <2>8 DEF TypeOK, Retry, PutBack, Stop, Idle, At, Job, Id, Pcs
  <2>9. ASSUME NEW w \in Workers, Ack(w) PROVE TypeOK'
    BY <2>9 DEF TypeOK, Ack, Stop, Idle, At, Pcs, history
  <2>10. ASSUME NEW w \in Workers, WorkerDies(w) PROVE TypeOK'
    BY <2>10 DEF TypeOK, WorkerDies, PutBack, Stop, Idle, At, Job, Pcs, history
  <2>11. CASE UNCHANGED vars
    BY <2>11 DEF TypeOK, vars, history
  <2> QED
    BY <2>1, <2>2, <2>3, <2>4, <2>5, <2>6, <2>7, <2>8, <2>9, <2>10, <2>11
    DEF Next, SenderStep, WorkerStep
<1> QED
  BY <1>1, <1>2, PTL DEF Spec

-----------------------------------------------------------------------------
(***************************************************************************)
(* A worker past the check of the key has the copy that the key names, and *)
(* a key, once set, stays: so only owners run.                             *)
(***************************************************************************)
PastCheck == {"limit", "run", "clear", "fail"}
OwnersOnly == \A w \in Workers : worker[w].pc \in PastCheck => key[Id(w)] = Job(w)

\* A key that is set never changes owner.
LEMMA KeysStay ==
  ASSUME TypeOK, [Next]_vars, NEW i \in Ids, key[i] # None
  PROVE  key'[i] = key[i]
<1>1. ASSUME NEW c \in Copies, SetNX(c) PROVE key'[i] = key[i]
  BY <1>1 DEF SetNX, TypeOK
<1>2. ASSUME NEW c \in Copies, Delay(c) \/ SenderStep(c) \/ SenderDies(c)
      PROVE  key'[i] = key[i]
  BY <1>1, <1>2 DEF Delay, SenderStep, CheckKey, Publish, SetKey, Remove, SenderDies
<1>3. ASSUME NEW w \in Workers, WorkerStep(w) \/ WorkerDies(w) PROVE key'[i] = key[i]
  BY <1>1, <1>3 DEF WorkerStep, Take, CheckOwner, CheckLimit, Succeed, Clear, Retry, Fail,
                    Decline, HandleFailure, Ack, WorkerDies
<1> QED
  BY <1>2, <1>3 DEF Next, vars

\* Whoever has passed the owner check still owns the key.
LEMMA OwnersOnlyStep == TypeOK /\ OwnersOnly /\ [Next]_vars => OwnersOnly'
<1> SUFFICES ASSUME TypeOK, OwnersOnly, [Next]_vars,
                    NEW v \in Workers, worker'[v].pc \in PastCheck
             PROVE  key'[IdOf[worker'[v].copy]] = worker'[v].copy
  BY DEF OwnersOnly, Id, Job
<1>1. CASE worker'[v] = worker[v]
  <2>1. key[IdOf[worker[v].copy]] = worker[v].copy /\ worker[v].copy \in Copies
    BY <1>1 DEF OwnersOnly, Id, Job, TypeOK, PastCheck
  <2>2. key'[IdOf[worker[v].copy]] = worker[v].copy
    BY <2>1, KeysStay
  <2> QED
    BY <1>1, <2>2
<1>2. ASSUME NEW w \in Workers, WorkerStep(w) \/ WorkerDies(w), worker'[v] # worker[v]
      PROVE  key'[IdOf[worker'[v].copy]] = worker'[v].copy
  <2>1. CASE CheckOwner(w)
    BY <1>2, <2>1 DEF CheckOwner, At, Goto, Id, Job, TypeOK, PastCheck
  <2>2. CASE CheckLimit(w) \/ Succeed(w) \/ Clear(w) \/ Fail(w) \/ Decline(w)
             \/ HandleFailure(w)
    BY <1>2, <2>2 DEF CheckLimit, Succeed, Clear, Fail, Decline, HandleFailure, At, Goto,
                      Id, Job, TypeOK, PastCheck, OwnersOnly
  <2>3. CASE Take(w) \/ Retry(w) \/ Ack(w) \/ WorkerDies(w)
    BY <1>2, <2>3 DEF Take, Retry, Ack, WorkerDies, PutBack, Stop, Idle, TypeOK, PastCheck
  <2> QED
    BY <1>2, <2>1, <2>2, <2>3 DEF WorkerStep
<1>3. ASSUME NEW c \in Copies, Delay(c) \/ SenderStep(c) \/ SenderDies(c)
      PROVE  worker' = worker
  BY <1>3 DEF Delay, SenderStep, CheckKey, Publish, SetKey, Remove, SenderDies
<1> QED
  BY <1>1, <1>2, <1>3 DEF Next, vars

\* OnlyOwnersRun: the queue implements DedupedJobs.  Its initial states are initial
\* there, a key that is set is a Claim, a start is a Run, all else is a stutter.
THEOREM QueueDedupes == Spec => OnlyOwnersRun
<1>1. Init => Deduped!Init
  BY DEF Init, Deduped!Init
<1>2. TypeOK /\ OwnersOnly /\ [Next]_vars => [Deduped!Next]_<<key, ran>>
  <2> SUFFICES ASSUME TypeOK, OwnersOnly, [Next]_vars
               PROVE  [Deduped!Next]_<<key, ran>>
    OBVIOUS
  <2>1. ASSUME NEW c \in Copies, SetNX(c), ran' = ran
        PROVE  [Deduped!Next]_<<key, ran>>
    BY <2>1 DEF SetNX, Deduped!Next, Deduped!Claim
  <2>2. ASSUME NEW c \in Copies, Delay(c) \/ SenderStep(c) \/ SenderDies(c)
        PROVE  [Deduped!Next]_<<key, ran>>
    BY <2>1, <2>2 DEF Delay, SenderStep, CheckKey, Publish, SetKey, Remove, SenderDies, history
  <2>3. ASSUME NEW w \in Workers, CheckLimit(w)
        PROVE  [Deduped!Next]_<<key, ran>>
    <3>1. Job(w) \in Copies /\ key[IdOf[Job(w)]] = Job(w) /\ key' = key
      BY <2>3 DEF CheckLimit, At, Job, Id, TypeOK, OwnersOnly, PastCheck
    <3>2. ran' = ran \/ ran' = ran \cup {Job(w)}
      BY <2>3 DEF CheckLimit
    <3> QED
      BY <3>1, <3>2 DEF Deduped!Next, Deduped!Run
  <2>4. ASSUME NEW w \in Workers, WorkerStep(w) \/ WorkerDies(w)
        PROVE  [Deduped!Next]_<<key, ran>>
    BY <2>1, <2>3, <2>4 DEF WorkerStep, Take, CheckOwner, Succeed, Clear, Retry, Fail,
                            Decline, HandleFailure, Ack, WorkerDies, history
  <2> QED
    BY <2>2, <2>4 DEF Next, vars, history
<1>3. Init => OwnersOnly
  BY DEF Init, Idle, OwnersOnly, PastCheck
<1> QED
  BY <1>1, <1>2, <1>3, OwnersOnlyStep, TypeCorrect, PTL DEF Spec, OnlyOwnersRun, Deduped!Spec

-----------------------------------------------------------------------------
(***************************************************************************)
(* KeysAreLive is not inductive: a key is set from a message that is       *)
(* queued, and a worker lets go of the owner only when its id is settled.  *)
(***************************************************************************)
PublishedIsThere ==
  \A c \in Copies : stage[c] = "published" => key[IdOf[c]] # None \/ queue[c] > 0
TakenHasKey == \A w \in Workers : worker[w].pc # "idle" => key[Id(w)] # None
AckedIsSettled ==
  \A w \in Workers : worker[w].pc \in {"clear", "ack"} =>
    key[Id(w)] # Job(w) \/ verdict[Id(w)] # {}

KeysMatch == \A i \in Ids : key[i] # None => IdOf[key[i]] = i
KeysInv == PublishedIsThere /\ TakenHasKey /\ AckedIsSettled /\ KeysMatch /\ KeysAreLive

Held(c)     == \E w \in Workers : worker[w].pc # "idle" /\ worker[w].copy = c
HeldNext(c) == \E w \in Workers : worker'[w].pc # "idle" /\ worker'[w].copy = c

\* A key names a copy of its own job.
LEMMA KeysMatchStep == TypeOK /\ KeysMatch /\ [Next]_vars => KeysMatch'
<1> SUFFICES ASSUME TypeOK, KeysMatch, [Next]_vars PROVE KeysMatch'
  OBVIOUS
<1>1. ASSUME NEW c \in Copies, SetNX(c) PROVE KeysMatch'
  BY <1>1 DEF SetNX, TypeOK, KeysMatch
<1>2. key' = key => KeysMatch'
  BY DEF KeysMatch
<1>3. ASSUME NEW c \in Copies, Delay(c) \/ SenderStep(c) \/ SenderDies(c)
      PROVE  KeysMatch'
  BY <1>1, <1>2, <1>3 DEF Delay, SenderStep, CheckKey, Publish, SetKey, Remove, SenderDies
<1>4. ASSUME NEW w \in Workers, WorkerStep(w) \/ WorkerDies(w) PROVE KeysMatch'
  BY <1>1, <1>2, <1>4 DEF WorkerStep, Take, CheckOwner, CheckLimit, Succeed, Clear, Retry,
                          Fail, Decline, HandleFailure, Ack, WorkerDies
<1> QED
  BY <1>2, <1>3, <1>4 DEF Next, vars

\* The steps of the senders and of the monitor leave no key dead.
LEMMA SenderKeepsKeys ==
  ASSUME TypeOK, KeysInv, [Next]_vars, NEW c \in Copies,
         Delay(c) \/ SenderStep(c) \/ SenderDies(c)
  PROVE  KeysInv'
<1>1. worker' = worker /\ verdict' = verdict
  BY DEF Delay, SenderStep, CheckKey, Publish, SetKey, Remove, SenderDies, history
<1>2. \A d \in Copies : queue'[d] >= queue[d] /\ queue'[d] \in Nat
  BY DEF Delay, SenderStep, CheckKey, Publish, SetKey, Remove, SenderDies, TypeOK
<1>3. \A i \in Ids : key[i] # None => key'[i] = key[i]
  BY KeysStay
<1>4. \A d \in Copies : IdOf[d] \in Ids
  OBVIOUS
<1>5. PublishedIsThere'
  <2> SUFFICES ASSUME NEW d \in Copies, stage'[d] = "published"
               PROVE  key'[IdOf[d]] # None \/ queue'[d] > 0
    BY DEF PublishedIsThere
  <2>1. CASE stage[d] = "published"
    <3>1. key[IdOf[d]] # None \/ queue[d] > 0
      BY <2>1 DEF KeysInv, PublishedIsThere
    <3> QED
      BY <3>1, <1>2, <1>3, <1>4 DEF TypeOK
  <2>2. CASE stage[d] # "published"
    <3>1. Publish(c) /\ d = c
      BY <2>2 DEF Delay, SenderStep, CheckKey, Publish, SetKey, Remove, SenderDies, Reach,
                  AfterSend, TypeOK
    <3> QED
      BY <3>1 DEF Publish, TypeOK
  <2> QED
    BY <2>1, <2>2
<1>6. TakenHasKey'
  BY <1>1, <1>3, <1>4 DEF KeysInv, TakenHasKey, TypeOK, Id, Job
<1>7. AckedIsSettled'
  <2> SUFFICES ASSUME NEW w \in Workers, worker[w].pc \in {"clear", "ack"},
                      verdict[Id(w)] = {}
               PROVE  key'[Id(w)] # Job(w)
    BY <1>1 DEF AckedIsSettled, Id, Job
  <2>1. key[Id(w)] # None /\ key[Id(w)] # Job(w)
    BY DEF KeysInv, TakenHasKey, AckedIsSettled
  <2>2. Id(w) \in Ids
    BY <1>4 DEF TypeOK, Id, Job
  <2> QED
    BY <2>1, <2>2, <1>3
<1>8. KeysAreLive'
  <2> SUFFICES ASSUME NEW i \in Ids, key'[i] # None
               PROVE  queue'[key'[i]] > 0 \/ Held(key'[i]) \/ verdict[i] # {}
    BY <1>1 DEF KeysAreLive, Held
  <2>1. CASE key[i] # None
    <3>1. key'[i] = key[i] /\ key[i] \in Copies
      BY <2>1, <1>3 DEF TypeOK
    <3>2. queue[key[i]] > 0 \/ Held(key[i]) \/ verdict[i] # {}
      BY <2>1 DEF KeysInv, KeysAreLive, Held
    <3>3. queue[key[i]] > 0 => queue'[key[i]] > 0
      BY <3>1, <1>2 DEF TypeOK
    <3> QED
      BY <3>1, <3>2, <3>3
  <2>2. CASE key[i] = None
    <3>1. SetKey(c) /\ i = IdOf[c] /\ key'[i] = c
      BY <2>2 DEF Delay, SenderStep, CheckKey, Publish, SetKey, Remove, SenderDies, SetNX, TypeOK
    <3>2. queue[c] > 0 /\ queue' = queue
      BY <3>1, <2>2 DEF KeysInv, PublishedIsThere, SetKey
    <3> QED
      BY <3>1, <3>2
  <2> QED
    BY <2>1, <2>2
<1> QED
  BY <1>5, <1>6, <1>7, <1>8, KeysMatchStep DEF KeysInv

\* The steps and the death of a worker leave no key dead.
LEMMA WorkerKeepsKeys ==
  ASSUME TypeOK, KeysInv, OwnersOnly, [Next]_vars, NEW w \in Workers,
         WorkerStep(w) \/ WorkerDies(w)
  PROVE  KeysInv'
<1>1. stage' = stage
  BY DEF WorkerStep, Take, CheckOwner, CheckLimit, Succeed, Clear, Retry, Fail, Decline,
         HandleFailure, Ack, WorkerDies
<1>2. \A i \in Ids : key[i] # None => key'[i] = key[i]
  BY KeysStay
<1>3. \A d \in Copies : IdOf[d] \in Ids
  OBVIOUS
<1>4. \A i \in Ids : verdict[i] \subseteq verdict'[i]
  BY DEF WorkerStep, Take, CheckOwner, CheckLimit, Succeed, Clear, Retry, Fail, Decline,
         HandleFailure, Ack, WorkerDies, Judge, TypeOK, history
<1>5. \A v \in Workers : v # w => worker'[v] = worker[v]
  BY DEF WorkerStep, Take, CheckOwner, CheckLimit, Succeed, Clear, Retry, Fail, Decline,
         HandleFailure, Ack, WorkerDies, Goto, PutBack, Stop, TypeOK
<1>6. CASE Take(w)
  <2>1. PICK c \in Copies :
          /\ queue[c] > 0 /\ queue' = [queue EXCEPT ![c] = @ - 1]
          /\ worker' = [worker EXCEPT ![w] = [pc |-> "check", copy |-> c]]
          /\ SetNX(c) /\ verdict' = verdict /\ worker[w].pc = "idle"
    BY <1>6 DEF Take, At, history
  <2>2. key'[IdOf[c]] # None
    BY <2>1, <1>3 DEF SetNX, TypeOK
  <2>3. worker'[w].pc = "check" /\ worker'[w].copy = c
    BY <2>1 DEF TypeOK
  <2>4. PublishedIsThere'
    <3> SUFFICES ASSUME NEW d \in Copies, stage[d] = "published"
                 PROVE  key'[IdOf[d]] # None \/ queue'[d] > 0
      BY <1>1 DEF PublishedIsThere
    <3>1. CASE d = c
      BY <3>1, <2>2
    <3>2. CASE d # c
      <4>1. key[IdOf[d]] # None \/ queue[d] > 0
        BY DEF KeysInv, PublishedIsThere
      <4> QED
        BY <4>1, <3>2, <2>1, <1>2, <1>3 DEF TypeOK
    <3> QED
      BY <3>1, <3>2
  <2>5. TakenHasKey'
    <3> SUFFICES ASSUME NEW v \in Workers, worker'[v].pc # "idle"
                 PROVE  key'[IdOf[worker'[v].copy]] # None
      BY DEF TakenHasKey, Id, Job
    <3>1. CASE v = w
      BY <3>1, <2>2, <2>3
    <3>2. CASE v # w
      BY <3>2, <1>5, <1>2, <1>3 DEF KeysInv, TakenHasKey, Id, Job, TypeOK
    <3> QED
      BY <3>1, <3>2
  <2>6. AckedIsSettled'
    <3> SUFFICES ASSUME NEW v \in Workers, worker'[v].pc \in {"clear", "ack"}
                 PROVE  \/ key'[IdOf[worker'[v].copy]] # worker'[v].copy
                        \/ verdict'[IdOf[worker'[v].copy]] # {}
      BY DEF AckedIsSettled, Id, Job
    <3>1. v # w
      BY <2>3
    <3>2. worker'[v] = worker[v] /\ worker[v].copy \in Copies
      BY <3>1, <1>5 DEF TypeOK
    <3> QED
      BY <3>2, <1>2, <1>3, <2>1 DEF KeysInv, TakenHasKey, AckedIsSettled, Id, Job
  <2>7. KeysAreLive'
    <3> SUFFICES ASSUME NEW i \in Ids, key'[i] # None
                 PROVE  queue'[key'[i]] > 0 \/ HeldNext(key'[i]) \/ verdict[i] # {}
      BY <2>1 DEF KeysAreLive, Held, HeldNext
    <3>1. CASE key'[i] = c
      BY <3>1, <2>3 DEF Held, HeldNext
    <3>2. CASE key'[i] # c
      <4>1. key'[i] = key[i] /\ key[i] \in Copies
        BY <3>2, <2>1 DEF SetNX, TypeOK
      <4>2. queue[key[i]] > 0 \/ Held(key[i]) \/ verdict[i] # {}
        BY <4>1 DEF KeysInv, KeysAreLive, Held, HeldNext
      <4>3. Held(key[i]) => HeldNext(key[i])
        BY <4>1, <1>5, <2>1 DEF Held, HeldNext
      <4>4. queue[key[i]] > 0 => queue'[key[i]] > 0
        BY <4>1, <3>2, <2>1 DEF TypeOK
      <4> QED
        BY <4>1, <4>2, <4>3, <4>4
    <3> QED
      BY <3>1, <3>2
  <2> QED
    BY <2>4, <2>5, <2>6, <2>7, KeysMatchStep DEF KeysInv
<1>7. CASE ~Take(w)
  <2>1. key' = key /\ worker[w].pc # "idle" /\ worker[w].copy \in Copies
    BY <1>7 DEF WorkerStep, CheckOwner, CheckLimit, Succeed, Clear, Retry, Fail, Decline,
                HandleFailure, Ack, WorkerDies, At, TypeOK
  <2>2. \A d \in Copies : queue'[d] >= queue[d] /\ queue'[d] \in Nat
    BY <1>7 DEF WorkerStep, CheckOwner, CheckLimit, Succeed, Clear, Retry, Fail, Decline,
                HandleFailure, Ack, WorkerDies, PutBack, Job, TypeOK
  <2>3. \/ worker'[w].pc # "idle" /\ worker'[w].copy = worker[w].copy
        \/ worker'[w] = Idle /\ queue'[worker[w].copy] > 0
        \/ worker'[w] = Idle /\ worker[w].pc = "ack"
    BY <1>7, <2>1 DEF WorkerStep, CheckOwner, CheckLimit, Succeed, Clear, Retry, Fail, Decline,
                HandleFailure, Ack, WorkerDies, PutBack, Stop, Goto, At, Job, TypeOK
  <2>4. PublishedIsThere'
    BY <1>1, <2>1, <2>2 DEF KeysInv, PublishedIsThere, TypeOK
  <2>5. TakenHasKey'
    BY <2>1, <2>3, <1>5 DEF KeysInv, TakenHasKey, Idle, Id, Job
  <2>6. AckedIsSettled'
    <3> SUFFICES ASSUME NEW v \in Workers, worker'[v].pc \in {"clear", "ack"}
                 PROVE  \/ key[IdOf[worker'[v].copy]] # worker'[v].copy
                        \/ verdict'[IdOf[worker'[v].copy]] # {}
      BY <2>1 DEF AckedIsSettled, Id, Job
    <3>1. CASE worker'[v] = worker[v]
      BY <3>1, <1>3, <1>4 DEF KeysInv, AckedIsSettled, Id, Job, TypeOK
    <3>2. CASE v = w /\ worker'[v] # worker[v]
      <4>1. worker'[w].copy = worker[w].copy /\ worker[w].copy \in Copies
            /\ (worker[w].pc = "clear" \/ verdict'[IdOf[worker[w].copy]] # {}
                  \/ key[IdOf[worker[w].copy]] # worker[w].copy)
        <5>1. CASE CheckOwner(w) \/ Clear(w)
          BY <5>1, <2>1, <3>2 DEF CheckOwner, Clear, Goto, At, Id, Job, TypeOK
        <5>2. worker[w].copy \in Copies /\ IdOf[worker[w].copy] \in Ids
          <6>1. worker[w].copy \in Copies
            BY <2>1
          <6> QED
            BY <6>1, <1>3
        <5>3. ASSUME NEW x, Judge(w, x) PROVE verdict'[IdOf[worker[w].copy]] # {}
          <6>1. x \in verdict'[IdOf[worker[w].copy]]
            BY <5>2, <5>3 DEF Judge, Id, Job, TypeOK
          <6> QED
            BY <6>1
        <5>4. CASE Succeed(w) \/ Decline(w) \/ HandleFailure(w)
          <6>1. worker'[w].copy = worker[w].copy
            BY <5>4 DEF Succeed, Decline, HandleFailure, Goto, TypeOK
          <6> QED
            BY <5>2, <5>3, <5>4, <6>1 DEF Succeed, Decline, HandleFailure
        <5>5. CASE CheckLimit(w) \/ Fail(w)
          BY <5>5, <3>2 DEF CheckLimit, Fail, Goto, TypeOK
        <5>6. CASE Retry(w) \/ Ack(w) \/ WorkerDies(w)
          BY <5>6, <3>2 DEF Retry, Ack, WorkerDies, PutBack, Stop, Idle, TypeOK
        <5> QED
          BY <5>1, <5>2, <5>3, <5>4, <5>5, <5>6, <1>7 DEF WorkerStep
      <4> QED
        BY <4>1, <3>2, <1>3, <1>4 DEF KeysInv, AckedIsSettled, Id, Job
    <3> QED
      BY <3>1, <3>2, <1>5
  <2>7. KeysAreLive'
    <3> SUFFICES ASSUME NEW i \in Ids, key[i] # None, verdict'[i] = {}
                 PROVE  queue'[key[i]] > 0 \/ HeldNext(key[i])
      BY <2>1 DEF KeysAreLive, Held, HeldNext
    <3>1. key[i] \in Copies /\ verdict[i] = {}
      BY <1>4 DEF TypeOK
    <3>2. queue[key[i]] > 0 \/ Held(key[i])
      BY <3>1 DEF KeysInv, KeysAreLive, Held, HeldNext
    <3>3. queue[key[i]] > 0 => queue'[key[i]] > 0
      BY <3>1, <2>2 DEF TypeOK
    <3>4. ASSUME NEW v \in Workers, worker[v].pc # "idle", worker[v].copy = key[i]
          PROVE  queue'[key[i]] > 0 \/ HeldNext(key[i])
      <4>1. CASE v # w
        BY <4>1, <3>4, <1>5 DEF Held, HeldNext
      <4>2. CASE v = w /\ ~(worker'[w] = Idle /\ worker[w].pc = "ack")
        BY <4>2, <3>4, <2>3 DEF Held, HeldNext
      <4>3. CASE v = w /\ worker'[w] = Idle /\ worker[w].pc = "ack"
        <5>1. key[IdOf[key[i]]] # key[i] \/ verdict[IdOf[key[i]]] # {}
          BY <4>3, <3>4 DEF KeysInv, AckedIsSettled, Id, Job
        <5> QED
          BY <5>1, <3>1 DEF KeysInv, KeysMatch
      <4> QED
        BY <4>1, <4>2, <4>3
    <3> QED
      BY <3>2, <3>3, <3>4 DEF Held, HeldNext
  <2> QED
    BY <2>4, <2>5, <2>6, <2>7, KeysMatchStep DEF KeysInv
<1> QED
  BY <1>6, <1>7

\* A key that is set is live: the broker, a worker or the history accounts for it.
THEOREM KeysLive == Spec => []KeysAreLive
<1>1. Init => KeysInv
  BY DEF Init, Idle, KeysInv, PublishedIsThere, TakenHasKey, AckedIsSettled, KeysMatch,
         KeysAreLive
<1>2. TypeOK /\ OwnersOnly /\ KeysInv /\ [Next]_vars => KeysInv'
  <2> SUFFICES ASSUME TypeOK, OwnersOnly, KeysInv, [Next]_vars PROVE KeysInv'
    OBVIOUS
  <2>1. CASE UNCHANGED vars
    BY <2>1 DEF vars, history, KeysInv, PublishedIsThere, TakenHasKey, AckedIsSettled,
                KeysMatch, KeysAreLive, Id, Job
  <2> QED
    BY <2>1, SenderKeepsKeys, WorkerKeepsKeys DEF Next
<1>3. Init => OwnersOnly
  BY DEF Init, Idle, OwnersOnly, PastCheck
<1>4. KeysInv => KeysAreLive
  BY DEF KeysInv
<1> QED
  BY <1>1, <1>2, <1>3, <1>4, OwnersOnlyStep, TypeCorrect, PTL DEF Spec

-----------------------------------------------------------------------------
(***************************************************************************)
(* A copy that is not delayed is one message: it is not sent yet, queued,  *)
(* with one worker, or gone.                                               *)
(***************************************************************************)
Has(w, c) == worker[w].pc # "idle" /\ worker[w].copy = c
OneMessage ==
  \A c \in Copies \ Delayed :
    /\ queue[c] \in {0, 1}
    /\ stage[c] \in {"new", "checked"} \/ queue[c] = 1 => \A w \in Workers : ~Has(w, c)
    /\ stage[c] \in {"new", "checked"} => queue[c] = 0
    /\ \A v, w \in Workers : Has(v, c) /\ Has(w, c) => v = w

LEMMA OneMessageStep == TypeOK /\ OneMessage /\ [Next]_vars => OneMessage'
<1> SUFFICES ASSUME TypeOK, OneMessage, [Next]_vars PROVE OneMessage'
  OBVIOUS
<1>1. ASSUME UNCHANGED <<queue, worker>>,
             \A c \in Copies \ Delayed : stage'[c] \in {"new", "checked"}
                                           => stage[c] \in {"new", "checked"}
      PROVE  OneMessage'
  BY <1>1 DEF OneMessage, Has
<1>2. ASSUME NEW c \in Copies,
             Delay(c) \/ CheckKey(c) \/ SetKey(c) \/ Remove(c) \/ SenderDies(c)
      PROVE  OneMessage'
  BY <1>1, <1>2 DEF TypeOK, Delay, CheckKey, SetKey, Remove, SenderDies, Reach, AfterSend, Sending
<1>3. ASSUME NEW c \in Copies, Publish(c) PROVE OneMessage'
  <2>1. /\ worker' = worker /\ stage[c] = "checked"
        /\ stage'[c] = "published" /\ queue'[c] = queue[c] + 1
        /\ \A d \in Copies : d # c => stage'[d] = stage[d] /\ queue'[d] = queue[d]
    BY <1>3 DEF TypeOK, Publish, Reach
  <2> QED
    BY <2>1 DEF OneMessage, Has
<1>4. ASSUME NEW w \in Workers,
             \/ CheckOwner(w) \/ CheckLimit(w) \/ Succeed(w) \/ Clear(w) \/ Fail(w)
             \/ Decline(w) \/ HandleFailure(w)
      PROVE  OneMessage'
  <2>1. /\ UNCHANGED <<stage, queue>>
        /\ worker[w].pc # "idle" /\ worker'[w].pc # "idle" /\ worker'[w].copy = worker[w].copy
        /\ \A v \in Workers : v # w => worker'[v] = worker[v]
    BY <1>4 DEF TypeOK, At, Goto, CheckOwner, CheckLimit, Succeed, Clear, Fail, Decline,
                HandleFailure
  <2>2. \A v \in Workers, c \in Copies : Has(v, c)' <=> Has(v, c)
    BY <2>1 DEF Has
  <2> QED
    BY <2>1, <2>2 DEF OneMessage
<1>5. ASSUME NEW w \in Workers, Ack(w) \/ Retry(w) \/ WorkerDies(w) PROVE OneMessage'
  <2>1. /\ stage' = stage /\ Job(w) \in Copies /\ Has(w, Job(w)) /\ worker'[w] = Idle
        /\ \A v \in Workers : v # w => worker'[v] = worker[v]
        /\ queue'[Job(w)] \in {queue[Job(w)], queue[Job(w)] + 1}
        /\ \A d \in Copies : d # Job(w) => queue'[d] = queue[d]
    BY <1>5 DEF TypeOK, At, Has, Job, Ack, Retry, WorkerDies, PutBack, Stop
  <2>2. \A v \in Workers, c \in Copies : Has(v, c)' <=> v # w /\ Has(v, c)
    BY <2>1 DEF Has, Idle
  <2> QED
    BY <2>1, <2>2 DEF OneMessage
<1>6. ASSUME NEW w \in Workers, Take(w) PROVE OneMessage'
  <2>1. PICK c \in Copies :
          /\ At(w, "idle") /\ queue[c] > 0
          /\ queue' = [queue EXCEPT ![c] = @ - 1]
          /\ worker' = [worker EXCEPT ![w] = [pc |-> "check", copy |-> c]]
          /\ stage' = stage
    BY <1>6 DEF Take
  <2>2. /\ queue'[c] = queue[c] - 1
        /\ \A d \in Copies : d # c => queue'[d] = queue[d]
        /\ \A v \in Workers, d \in Copies : Has(v, d)' <=> (IF v = w THEN d = c ELSE Has(v, d))
    BY <2>1 DEF TypeOK, Has
  <2> QED
    BY <2>1, <2>2 DEF OneMessage
<1>7. CASE UNCHANGED vars
  BY <1>1, <1>7 DEF vars
<1> QED
  BY <1>2, <1>3, <1>4, <1>5, <1>6, <1>7 DEF Next, SenderStep, WorkerStep

\* Two workers in a job of one id both own its key, so they have the same copy, and one
\* that is not delayed is with one worker only.
THEOREM RunAloneAlways == Spec => []RunAlone
<1>1. Init => OneMessage
  BY DEF Init, Idle, OneMessage, Has
<1>2. Init => OwnersOnly
  BY DEF Init, Idle, OwnersOnly, PastCheck
<1>3. TypeOK /\ OwnersOnly /\ OneMessage => RunAlone
  <2> SUFFICES ASSUME TypeOK, OwnersOnly, OneMessage, NEW v \in Workers, NEW w \in Workers,
                      v # w, Running(v), Running(w), Id(v) = Id(w)
               PROVE  Job(v) \in Delayed
    BY DEF RunAlone
  <2>1. Job(v) = Job(w) /\ Job(v) \in Copies /\ Has(v, Job(v)) /\ Has(w, Job(v))
    BY DEF OwnersOnly, Running, PastCheck, TypeOK, Has, Job
  <2> QED
    BY <2>1 DEF OneMessage
<1> QED
  BY <1>1, <1>2, <1>3, OwnersOnlyStep, OneMessageStep, TypeCorrect, PTL DEF Spec

-----------------------------------------------------------------------------
(***************************************************************************)
(* Retries: every run of a job was counted when it started, and the count  *)
(* starts over only when the job has succeeded.                            *)
(***************************************************************************)
Runs(i) == {w \in Workers : worker[w].pc = "run" /\ Id(w) = i}
Counted ==
  /\ \A w \in Workers : worker[w].pc = "clear" => "done" \in verdict[Id(w)]
  /\ \A i \in Ids : "done" \notin verdict[i] =>
       /\ IsFiniteSet(Runs(i))
       /\ failed[i] + Cardinality(Runs(i)) <= tries[i]
       /\ failed[i] + Cardinality(Runs(i)) <= RetryLimit

\* A step in which fewer workers run a job, and one more may have asked for a retry.
LEMMA CountedStep ==
  ASSUME TypeOK, Counted, NEW i \in Ids, "done" \notin verdict[i], NEW w \in Workers,
         failed'[i] \in Nat, tries'[i] = tries[i],
         \/ Runs(i)' = Runs(i) /\ failed'[i] = failed[i]
         \/ w \in Runs(i) /\ Runs(i)' = Runs(i) \ {w} /\ failed'[i] <= failed[i] + 1
  PROVE  /\ IsFiniteSet(Runs(i)')
         /\ failed'[i] + Cardinality(Runs(i)') <= tries'[i]
         /\ failed'[i] + Cardinality(Runs(i)') <= RetryLimit
<1>1. /\ IsFiniteSet(Runs(i)) /\ Cardinality(Runs(i)) \in Nat
      /\ failed[i] \in Nat /\ tries[i] \in Nat /\ RetryLimit \in Nat
      /\ failed[i] + Cardinality(Runs(i)) <= tries[i]
      /\ failed[i] + Cardinality(Runs(i)) <= RetryLimit
  BY FS_CardinalityType DEF Counted, TypeOK
<1>2. CASE w \in Runs(i) /\ Runs(i)' = Runs(i) \ {w} /\ failed'[i] <= failed[i] + 1
  <2>1. IsFiniteSet(Runs(i)') /\ Cardinality(Runs(i)') = Cardinality(Runs(i)) - 1
    BY <1>1, <1>2, FS_RemoveElement
  <2> QED
    BY <1>1, <1>2, <2>1
<1> QED
  BY <1>1, <1>2

LEMMA CountedNext == TypeOK /\ Counted /\ [Next]_vars => Counted'
<1> SUFFICES ASSUME TypeOK, Counted, [Next]_vars PROVE Counted'
  OBVIOUS
<1>1. CASE UNCHANGED <<worker, tries, failed, verdict>>
  BY <1>1 DEF Counted, Runs, Id, Job
<1>2. ASSUME NEW c \in Copies, Delay(c) \/ SenderStep(c) \/ SenderDies(c) PROVE Counted'
  BY <1>1, <1>2 DEF Delay, SenderStep, CheckKey, Publish, SetKey, Remove, SenderDies, history
\* Workers that do not start a run.
<1>3. ASSUME NEW w \in Workers,
             \/ Take(w) \/ CheckOwner(w) \/ Succeed(w) \/ Retry(w) \/ Fail(w) \/ Decline(w)
             \/ HandleFailure(w) \/ Ack(w) \/ WorkerDies(w)
      PROVE  Counted'
  <2>1. /\ tries' = tries /\ worker'[w].pc # "run"
        /\ \A v \in Workers : v # w => worker'[v] = worker[v]
    BY <1>3 DEF TypeOK, Take, CheckOwner, Succeed, Retry, Fail, Decline, HandleFailure, Ack,
                WorkerDies, At, Goto, PutBack, Stop, Idle
  <2>2. worker[w].pc = "run" => Job(w) \in Copies /\ Id(w) \in Ids
    BY DEF TypeOK, Job, Id
  <2>3. \A i \in Ids : /\ verdict[i] \subseteq verdict'[i] /\ failed'[i] \in Nat
                       /\ \/ failed'[i] = failed[i]
                          \/ worker[w].pc = "run" /\ Id(w) = i /\ failed'[i] <= failed[i] + 1
    BY <1>3, <2>2 DEF TypeOK, Take, CheckOwner, Succeed, Retry, Fail, Decline, HandleFailure,
                Ack, WorkerDies, At, Judge, history
  <2>4. \A i \in Ids : Runs(i)' = Runs(i) \ {w}
    BY <2>1 DEF Runs, Id, Job
  <2>5. \A i \in Ids : w \in Runs(i) <=> worker[w].pc = "run" /\ Id(w) = i
    BY DEF Runs
  <2>6. \A v \in Workers : worker'[v].pc = "clear" => "done" \in verdict'[Id(v)']
    <3>1. worker'[w].pc = "clear" => "done" \in verdict'[Id(w)']
      BY <1>3, <2>2 DEF TypeOK, Take, CheckOwner, Succeed, Retry, Fail, Decline, HandleFailure,
            Ack, WorkerDies, At, Goto, PutBack, Stop, Idle, Judge, Id, Job
    <3>2. ASSUME NEW v \in Workers, v # w, worker'[v].pc = "clear"
          PROVE  "done" \in verdict'[Id(v)']
      <4>1. Id(v)' = Id(v) /\ "done" \in verdict[Id(v)] /\ Id(v) \in Ids
        BY <2>1, <3>2 DEF Counted, Id, Job, TypeOK
      <4> QED
        BY <2>3, <4>1
    <3> QED
      BY <3>1, <3>2
  <2>7. ASSUME NEW i \in Ids, "done" \notin verdict'[i]
        PROVE  /\ IsFiniteSet(Runs(i)')
               /\ failed'[i] + Cardinality(Runs(i)') <= tries'[i]
               /\ failed'[i] + Cardinality(Runs(i)') <= RetryLimit
    <3>1. "done" \notin verdict[i]
      BY <2>3, <2>7
    <3>2. \/ Runs(i)' = Runs(i) /\ failed'[i] = failed[i]
          \/ w \in Runs(i) /\ Runs(i)' = Runs(i) \ {w} /\ failed'[i] <= failed[i] + 1
      <4>1. CASE w \in Runs(i)
        <5>1. failed[i] \in Nat
          BY DEF TypeOK
        <5> QED
          BY <2>3, <2>4, <4>1, <5>1
      <4>2. CASE w \notin Runs(i)
        BY <2>3, <2>4, <2>5, <4>2
      <4> QED
        BY <4>1, <4>2
    <3> QED
      BY <2>1, <2>3, <3>1, <3>2, CountedStep
  <2> QED
    BY <2>6, <2>7 DEF Counted
<1>4. ASSUME NEW w \in Workers, CheckLimit(w) PROVE Counted'
  <2>0. PICK j \in Ids : j = Id(w)
    BY <1>4 DEF CheckLimit, TypeOK, At, Id, Job
  <2>1. /\ worker[w].pc = "limit" /\ Job(w) \in Copies
        /\ UNCHANGED <<failed, verdict>>
        /\ tries'[j] = tries[j] + 1 /\ \A i \in Ids : i # j => tries'[i] = tries[i]
        /\ worker'[w].copy = worker[w].copy
        /\ worker'[w].pc = (IF tries[j] + 1 > RetryLimit THEN "fail" ELSE "run")
        /\ \A v \in Workers : v # w => worker'[v] = worker[v]
    BY <1>4, <2>0 DEF CheckLimit, TypeOK, At, Goto, Id, Job
  <2>2. /\ w \notin Runs(j) /\ \A i \in Ids : i # j => Runs(i)' = Runs(i)
        /\ tries[j] + 1 > RetryLimit => Runs(j)' = Runs(j)
        /\ ~(tries[j] + 1 > RetryLimit) => Runs(j)' = Runs(j) \cup {w}
    <3>1. Id(w)' = j /\ \A v \in Workers : v # w => Id(v)' = Id(v)
      BY <2>0, <2>1 DEF Id, Job
    <3>2. \A i \in Ids, v \in Workers : v # w => (v \in Runs(i)' <=> v \in Runs(i))
      BY <2>1, <3>1 DEF Runs
    <3>3. /\ \A i \in Ids : w \notin Runs(i) /\ (i # j => w \notin Runs(i)')
          /\ w \in Runs(j)' <=> ~(tries[j] + 1 > RetryLimit)
      BY <2>1, <3>1 DEF Runs
    <3>4. \A i \in Ids : Runs(i) \subseteq Workers /\ Runs(i)' \subseteq Workers
      BY DEF Runs
    <3>5. ASSUME NEW i \in Ids, i # j PROVE Runs(i)' = Runs(i)
      BY <3>2, <3>3, <3>4, <3>5
    <3>6. ASSUME tries[j] + 1 > RetryLimit PROVE Runs(j)' = Runs(j)
      BY <3>2, <3>3, <3>4, <3>6
    <3>7. ASSUME ~(tries[j] + 1 > RetryLimit) PROVE Runs(j)' = Runs(j) \cup {w}
      <4>1. w \in Runs(j)' /\ w \in Workers
        BY <3>3, <3>7
      <4> QED
        BY <3>2, <3>4, <4>1
    <3> QED
      BY <3>3, <3>5, <3>6, <3>7
  <2>3. \A v \in Workers : worker'[v].pc = "clear" => "done" \in verdict'[Id(v)']
    BY <2>1 DEF Counted, Id, Job
  <2>4. ASSUME NEW i \in Ids, "done" \notin verdict'[i]
        PROVE  /\ IsFiniteSet(Runs(i)')
               /\ failed'[i] + Cardinality(Runs(i)') <= tries'[i]
               /\ failed'[i] + Cardinality(Runs(i)') <= RetryLimit
    <3>1. /\ IsFiniteSet(Runs(i)) /\ Cardinality(Runs(i)) \in Nat
          /\ failed[i] \in Nat /\ tries[i] \in Nat /\ RetryLimit \in Nat
          /\ failed[i] + Cardinality(Runs(i)) <= tries[i]
          /\ failed[i] + Cardinality(Runs(i)) <= RetryLimit
      BY <2>1, <2>4, FS_CardinalityType DEF Counted, TypeOK
    <3>2. CASE i # j
      BY <2>1, <2>2, <3>1, <3>2
    <3>3. CASE i = j /\ tries[j] + 1 > RetryLimit
      BY <2>1, <2>2, <3>1, <3>3
    <3>4. CASE i = j /\ ~(tries[j] + 1 > RetryLimit)
      <4>1. IsFiniteSet(Runs(i)') /\ Cardinality(Runs(i)') = Cardinality(Runs(i)) + 1
        BY <2>2, <3>1, <3>4, FS_AddElement
      <4> QED
        BY <2>1, <3>1, <3>4, <4>1
    <3> QED
      BY <3>2, <3>3, <3>4
  <2> QED
    BY <2>3, <2>4 DEF Counted
<1>5. ASSUME NEW w \in Workers, Clear(w) PROVE Counted'
  <2>1. /\ "done" \in verdict[Id(w)] /\ Job(w) \in Copies /\ Id(w) \in Ids
        /\ worker[w].pc = "clear" /\ worker'[w].pc = "ack"
        /\ \A v \in Workers : v # w => worker'[v] = worker[v]
        /\ UNCHANGED <<failed, verdict>>
        /\ \A i \in Ids : i # Id(w) => tries'[i] = tries[i]
    BY <1>5 DEF Clear, Counted, TypeOK, At, Goto, Id, Job, history
  <2>2. \A i \in Ids : Runs(i)' = Runs(i)
    BY <2>1 DEF Runs, Id, Job
  <2>3. \A v \in Workers : worker'[v].pc = "clear" => "done" \in verdict'[Id(v)']
    BY <2>1 DEF Counted, Id, Job
  <2>4. \A i \in Ids : "done" \notin verdict'[i] => "done" \notin verdict[i] /\ tries'[i] = tries[i]
    BY <2>1
  <2> QED
    BY <2>1, <2>2, <2>3, <2>4 DEF Counted
<1>6. CASE UNCHANGED vars
  BY <1>1, <1>6 DEF vars, history
<1> QED
  BY <1>2, <1>3, <1>4, <1>5, <1>6 DEF Next, WorkerStep

\* A job that has not succeeded was retried at most RetryLimit times, for any number of
\* workers, copies and crashes.
THEOREM RetriesStayBounded == Spec => []RetriesAreBounded
<1>1. Init => Counted
  <2> SUFFICES ASSUME Init PROVE Counted
    OBVIOUS
  <2>1. \A i \in Ids : Runs(i) = {}
    BY DEF Init, Idle, Runs
  <2>2. /\ \A w \in Workers : worker[w].pc # "clear"
        /\ \A i \in Ids : failed[i] = 0 /\ tries[i] = 0
    BY DEF Init, Idle
  <2> QED
    BY <2>1, <2>2, FS_EmptySet DEF Counted
<1>2. TypeOK /\ Counted => RetriesAreBounded
  <2> SUFFICES ASSUME TypeOK, Counted, NEW i \in Ids, "done" \notin verdict[i]
               PROVE  failed[i] <= RetryLimit
    BY DEF RetriesAreBounded, TypeOK
  <2>1. Cardinality(Runs(i)) \in Nat /\ failed[i] \in Nat
    BY FS_CardinalityType DEF Counted, TypeOK
  <2> QED
    BY <2>1 DEF Counted
<1> QED
  BY <1>1, <1>2, CountedNext, TypeCorrect, PTL DEF Spec

=============================================================================
