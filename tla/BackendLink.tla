---------------------------- MODULE BackendLink ----------------------------
(***************************************************************************)
(* How a job of a backend reaches the backend worker: the thread of a      *)
(* WebsocketWorker that takes it from the broker, the event loop that      *)
(* sends it over the websocket, and the tasks of the backend worker.       *)
(*                                                                         *)
(* Each side notices by itself that a websocket is gone.  The worker's     *)
(* tasks that did not notice go on: a job that is running ends, and its    *)
(* result, which says nothing of the job, goes over the next websocket.    *)
(***************************************************************************)
EXTENDS Integers, Sequences, FiniteSets

CONSTANTS
  Jobs,     \* the jobs of the backend
  NoJob,    \* no job
  MaxLinks  \* BOUND: how often the worker connects

ASSUME LinkAssumption == NoJob \notin Jobs /\ MaxLinks \in Nat

VARIABLES
  broker,   \* the jobs that wait in the queue of the backend
  agent,    \* the WebsocketWorker of each link
  down, up, \* what is under way on each link
  intact,   \* the links whose wire is not cut
  link,     \* the link the backend worker is on, 0 for none
  links,    \* the links there were; each left a run_backend_job task behind
  inbox,    \* job_queue of the backend worker
  running,  \* the jobs its tasks execute, with the link they came over
  outbox,   \* message_queue of the backend worker
  late      \* history: the worker lost a link while it had a job

service  == <<broker, agent>>
wire     == <<down, up, intact>>
worker   == <<link, links, inbox, running, outbox, late>>
linkVars == <<service, wire, worker>>

Links    == 1..MaxLinks
Results  == {"retry", "final"}
Hello    == [link |-> 0, job |-> NoJob, result |-> "none"]
NoAgent  == [state |-> "none", thread |-> NoJob, handed |-> FALSE, current |-> NoJob, result |-> "none"]

LinkInit ==
  /\ broker = Jobs /\ agent = [l \in Links |-> NoAgent]
  /\ down = [l \in Links |-> <<>>] /\ up = [l \in Links |-> <<>>] /\ intact = {}
  /\ link = 0 /\ links = 0 /\ inbox = <<>> /\ running = {} /\ outbox = <<>> /\ late = FALSE

-----------------------------------------------------------------------------
(***************************************************************************)
(* The agent service.  `thread` is the job run_job waits for, `handed` says *)
(* that it is in _job_queue, `result` is _result with _result_ready.       *)
(***************************************************************************)
\* run_job, to where it waits.  A thread that has not seen should_stop yet takes a job
\* although its event loop has ended.
RunJob(l) ==
  /\ agent[l].state \in {"on", "off"} /\ agent[l].thread = NoJob
  /\ \E j \in broker :
       /\ broker' = broker \ {j}
       /\ agent' = [agent EXCEPT ![l].thread = j, ![l].handed = TRUE]
  /\ UNCHANGED <<wire, worker>>

\* The rest of run_job: the job is requeued or acknowledged.
RunJobReturns(l) ==
  /\ agent[l].result # "none"
  /\ broker' = IF agent[l].result = "retry" THEN broker \cup {agent[l].thread} ELSE broker
  /\ agent' = [agent EXCEPT ![l].thread = NoJob, ![l].result = "none"]
  /\ UNCHANGED <<wire, worker>>

\* The consumer sees should_stop.
ThreadStops(l) ==
  /\ agent[l].state = "off" /\ agent[l].thread = NoJob
  /\ agent' = [agent EXCEPT ![l].state = "stopped"]
  /\ UNCHANGED <<broker, wire, worker>>

\* The broker takes back what a thread holds that nobody will wake.
TakenBack(l) ==
  /\ agent[l].state = "off" /\ agent[l].thread # NoJob /\ agent[l].result = "none"
  /\ broker' = broker \cup {agent[l].thread}
  /\ agent' = [agent EXCEPT ![l].state = "stopped", ![l].thread = NoJob, ![l].handed = FALSE]
  /\ UNCHANGED <<wire, worker>>

\* finish_current_job: it does nothing when there is no job.
Finished(ag, result) ==
  IF ag.current = NoJob THEN ag ELSE [ag EXCEPT !.current = NoJob, !.result = result]

\* The event loop of a link is over, and its websocket is closed.
Ends(l, ag) ==
  /\ agent' = [agent EXCEPT ![l] = [ag EXCEPT !.state = "off"]]
  /\ intact' = intact \ {l}

\* FAULT: a duplicate is skipped and its thread is not told.
SkippedSilently(ag) == [ag EXCEPT !.handed = FALSE]

\* A duplicate is skipped, a job beyond its retry limit or not fit to run is failed.
Skipped(ag) == [ag EXCEPT !.handed = FALSE, !.result = "final"]

\* handle_job.  A statement that fails raises, before there is a current job or after:
\* then the job is failed with the link.
HandleJob(l) ==
  LET ag == agent[l] IN
  /\ ag.state = "on" /\ ag.handed
  /\ \/ agent' = [agent EXCEPT ![l] = Skipped(ag)] /\ UNCHANGED wire
     \/ /\ \E result \in {"none", "final"} : Ends(l, [ag EXCEPT !.handed = FALSE, !.result = result])
        /\ UNCHANGED <<down, up>>
     \/ /\ agent' = [agent EXCEPT ![l] = [ag EXCEPT !.handed = FALSE, !.current = ag.thread]]
        /\ down' = [down EXCEPT ![l] = Append(@, ag.thread)]
        /\ UNCHANGED <<up, intact>>
  /\ UNCHANGED <<broker, worker>>

\* The next message: the greeting first, then results, each for the current job.
\* Any other order raises.
HandleMessage(l) ==
  LET ag == agent[l]
      m  == Head(up[l])
  IN
  /\ ag.state \in {"init", "on"} /\ up[l] # <<>> /\ up' = [up EXCEPT ![l] = Tail(@)]
  /\ \/ /\ ag.state = "init" /\ m = Hello
        /\ agent' = [agent EXCEPT ![l].state = "on"] /\ UNCHANGED intact
     \/ /\ ag.state = "init" /\ m # Hello /\ Ends(l, ag)
     \/ /\ ag.state = "on" /\ ag.current = NoJob /\ Ends(l, ag)
     \/ /\ ag.state = "on" /\ ag.current # NoJob
        /\ agent' = [agent EXCEPT ![l] = Finished(ag, m.result)] /\ UNCHANGED intact
  /\ UNCHANGED <<broker, down, worker>>

\* The websocket is found closed.  A job that was too big for it (code 1009) has
\* failed, any other is tried again.
AgentDisconnects(l) ==
  /\ agent[l].state \in {"init", "on"} /\ l \notin intact
  /\ \E result \in Results : Ends(l, Finished(agent[l], result))
  /\ UNCHANGED <<broker, down, up, worker>>

-----------------------------------------------------------------------------
(***************************************************************************)
(* The backend worker                                                      *)
(***************************************************************************)
WireBreaks ==
  /\ link \in intact /\ intact' = intact \ {link}
  /\ UNCHANGED <<service, down, up, worker>>

\* A turn of the loop in main: a websocket, a greeting and one more of each task.
WorkerConnects ==
  /\ link = 0 /\ links < MaxLinks /\ links' = links + 1 /\ link' = links + 1
  /\ intact' = intact \cup {links + 1} /\ outbox' = Append(outbox, Hello)
  /\ agent' = [agent EXCEPT ![links + 1].state = "init"]
  /\ UNCHANGED <<broker, down, up, inbox, running, late>>

\* FAULT: what was to be sent over the old websocket goes over the next.
WorkerDisconnectsKeeping ==
  /\ link # 0 /\ link \notin intact /\ link' = 0
  /\ late' = (late \/ inbox # <<>> \/ running # {})
  /\ UNCHANGED <<service, wire, links, inbox, running, outbox>>

\* The queue of messages is cleared.  The jobs at hand are not.
WorkerDisconnects ==
  /\ link # 0 /\ link \notin intact /\ link' = 0 /\ outbox' = <<>>
  /\ late' = (late \/ inbox # <<>> \/ running # {})
  /\ UNCHANGED <<service, wire, links, inbox, running>>

ReceiveMessages ==
  /\ link # 0 /\ down[link] # <<>>
  /\ down' = [down EXCEPT ![link] = Tail(@)]
  /\ inbox' = Append(inbox, [link |-> link, job |-> Head(down[link])])
  /\ UNCHANGED <<service, up, intact, link, links, running, outbox, late>>

\* run_backend_job: the tasks of old links go on taking jobs.
RunBackendJob ==
  /\ inbox # <<>> /\ Cardinality(running) < links
  /\ inbox' = Tail(inbox) /\ running' = running \cup {Head(inbox)}
  /\ UNCHANGED <<service, wire, link, links, outbox, late>>

\* While there is no link the forwarder of the last one may take the result, and lose it.
JobEnds(r, result) ==
  /\ r \in running /\ running' = running \ {r}
  /\ \/ outbox' = Append(outbox, [link |-> r.link, job |-> r.job, result |-> result])
     \/ link = 0 /\ UNCHANGED outbox
  /\ UNCHANGED <<service, wire, link, links, inbox, late>>

ForwardMessages ==
  /\ link \in intact /\ outbox # <<>> /\ outbox' = Tail(outbox)
  /\ up' = [up EXCEPT ![link] = Append(@, Head(outbox))]
  /\ UNCHANGED <<service, down, intact, link, links, inbox, running, late>>

LinkNext ==
  \/ \E l \in Links :
       \/ RunJob(l) \/ RunJobReturns(l) \/ ThreadStops(l) \/ TakenBack(l)
       \/ HandleJob(l) \/ HandleMessage(l) \/ AgentDisconnects(l)
  \/ WireBreaks \/ WorkerConnects \/ WorkerDisconnects
  \/ ReceiveMessages \/ RunBackendJob \/ ForwardMessages
  \/ \E r \in running, result \in Results : JobEnds(r, result)

LinkSpec == LinkInit /\ [][LinkNext]_linkVars

-----------------------------------------------------------------------------
(***************************************************************************)
(* Properties                                                              *)
(***************************************************************************)
\* A thread that waits on a live link is waiting for something: its job is on its way
\* to the event loop or is the current one, of which there is one.  So no job meets
\* another ("Got job while already running a job!"), and a thread can wait for ever
\* only when its event loop has ended.
LinkTypeOK ==
  /\ broker \subseteq Jobs /\ intact \subseteq Links
  /\ link \in 0..links /\ links \in 0..MaxLinks /\ late \in BOOLEAN
  /\ \A l \in Links : LET ag == agent[l] IN
       /\ ag.state \in {"none", "init", "on", "off", "stopped"}
       /\ ag.thread \in Jobs \cup {NoJob} /\ ag.handed \in BOOLEAN
       /\ ag.current \in {NoJob, ag.thread} /\ ag.result \in Results \cup {"none"}
       /\ ag.thread # NoJob /\ ag.state = "on" =>
            \/ ag.handed /\ ag.current = NoJob /\ ag.result = "none"
            \/ ~ag.handed /\ ag.current # NoJob /\ ag.result = "none"
            \/ ~ag.handed /\ ag.current = NoJob /\ ag.result # "none"
       /\ ag.state # "on" => ag.current = NoJob

\* Until the worker loses a link while it has a job, every result is one of the job the
\* agent is waiting for: it comes over the link of the job and finds it current.
ResultsAreOwn ==
  ~late => \A l \in Links : \A i \in DOMAIN up[l] : LET m == up[l][i] IN
    m # Hello /\ agent[l].state = "on" =>
      m.link = l /\ m.job = agent[l].current /\ Len(up[l]) = 1

=============================================================================
