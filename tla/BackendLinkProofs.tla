------------------------- MODULE BackendLinkProofs -------------------------
(***************************************************************************)
(* Proofs about BackendLink: no thread of a live link waits for nothing,   *)
(* and a result is that of the job the agent waits for, for any number of  *)
(* jobs and links.                                                         *)
(***************************************************************************)
EXTENDS BackendLink, TLAPS

Agents   == [state : {"none", "init", "on", "off", "stopped"}, thread : Jobs \cup {NoJob},
             handed : BOOLEAN, current : Jobs \cup {NoJob}, result : Results \cup {"none"}]
Items    == [link : Links, job : Jobs]
Messages == {Hello} \cup [link : Links, job : Jobs, result : Results]

\* The agent's side of a link: a thread waits only for what is on its way.
AgentOK(ag) ==
  /\ ag \in Agents
  /\ ag.current \in {NoJob, ag.thread}
  /\ ag.thread # NoJob /\ ag.state = "on" =>
       \/ ag.handed /\ ag.current = NoJob /\ ag.result = "none"
       \/ ~ag.handed /\ ag.current # NoJob /\ ag.result = "none"
       \/ ~ag.handed /\ ag.current = NoJob /\ ag.result # "none"
  /\ ag.state # "on" => ag.current = NoJob
  /\ ag.thread = NoJob => ~ag.handed /\ ag.result = "none"
  /\ ag.result # "none" => ~ag.handed
  /\ ag.state \in {"none", "init"} => ag.thread = NoJob

\* The greeting of a link is sent once, and is gone when the link is on.
NoHello(s)  == \A i \in DOMAIN s : s[i] # Hello
OneHello(s) == \A i, j \in DOMAIN s : s[i] = Hello /\ s[j] = Hello => i = j
Greeted ==
  /\ OneHello(outbox) /\ (link = 0 => NoHello(outbox))
  /\ \A l \in Links :
       /\ agent[l].state = "on" => NoHello(up[l]) /\ (link = l => NoHello(outbox))
       /\ agent[l].state = "init" =>
            OneHello(up[l]) /\ (link = l => NoHello(up[l]) \/ NoHello(outbox))

\* The types of what is under way, and links that were never made.
Wired ==
  /\ down \in [Links -> Seq(Jobs)] /\ up \in [Links -> Seq(Messages)]
  /\ inbox \in Seq(Items) /\ running \subseteq Items /\ outbox \in Seq(Messages)
  /\ broker \subseteq Jobs /\ intact \subseteq Links
  /\ link \in 0..links /\ links \in 0..MaxLinks /\ late \in BOOLEAN
Unused == \A l \in Links : l > links => agent[l].state = "none" /\ up[l] = <<>> /\ down[l] = <<>>
AgentsOK == agent \in [Links -> Agents] /\ \A l \in Links : AgentOK(agent[l])

LinkInv == Wired /\ AgentsOK /\ Unused /\ Greeted

-----------------------------------------------------------------------------
(***************************************************************************)
(* Lemmas                                                                  *)
(***************************************************************************)
LEMMA HelloIsNoResult == Hello \notin [link : Links, job : Jobs, result : Results]
BY DEF Hello, Links

LEMMA InvariantImpliesTypes == LinkInv => LinkTypeOK
BY DEF LinkInv, Wired, AgentsOK, AgentOK, Agents, LinkTypeOK

\* What Append and Tail do to the greeting.
LEMMA HelloAppended ==
  ASSUME NEW s \in Seq(Messages), NEW m \in Messages
  PROVE  /\ m # Hello /\ NoHello(s) => NoHello(Append(s, m))
         /\ m # Hello /\ OneHello(s) => OneHello(Append(s, m))
         /\ NoHello(s) => OneHello(Append(s, m))
<1>1. /\ DOMAIN Append(s, m) = 1..(Len(s) + 1)
      /\ Append(s, m)[Len(s) + 1] = m
      /\ \A i \in 1..Len(s) : Append(s, m)[i] = s[i]
  OBVIOUS
<1>2. DOMAIN s = 1..Len(s) /\ Len(s) \in Nat
  OBVIOUS
<1>3. \A i \in DOMAIN Append(s, m) : i = Len(s) + 1 \/ i \in DOMAIN s
  BY <1>1, <1>2
<1>. QED  BY <1>1, <1>2, <1>3 DEF NoHello, OneHello

LEMMA HelloTaken ==
  ASSUME NEW s \in Seq(Messages), s # <<>>
  PROVE  /\ Head(s) \in Messages /\ Tail(s) \in Seq(Messages)
         /\ NoHello(s) => NoHello(Tail(s)) /\ Head(s) # Hello
         /\ OneHello(s) => OneHello(Tail(s))
         /\ OneHello(s) /\ Head(s) = Hello => NoHello(Tail(s))
<1>1. /\ Len(s) \in Nat \ {0} /\ DOMAIN s = 1..Len(s) /\ Head(s) = s[1]
      /\ DOMAIN Tail(s) = 1..(Len(s) - 1)
      /\ \A i \in 1..(Len(s) - 1) : Tail(s)[i] = s[i + 1]
  OBVIOUS
<1>2. Head(s) \in Messages /\ Tail(s) \in Seq(Messages)
  OBVIOUS
<1>3. \A i \in DOMAIN Tail(s) : i + 1 \in DOMAIN s /\ i + 1 # 1 /\ i \in Int /\ Tail(s)[i] = s[i + 1]
  BY <1>1
<1>. QED  BY <1>1, <1>2, <1>3 DEF NoHello, OneHello

LEMMA LinkInitInv == LinkInit => LinkInv
<1> SUFFICES ASSUME LinkInit PROVE LinkInv
  OBVIOUS
<1>1. Wired
  <2>1. <<>> \in Seq(Jobs) /\ <<>> \in Seq(Messages) /\ <<>> \in Seq(Items)
    OBVIOUS
  <2>2. down \in [Links -> Seq(Jobs)] /\ up \in [Links -> Seq(Messages)]
    BY <2>1 DEF LinkInit
  <2>3. link \in 0..links /\ links \in 0..MaxLinks
    BY LinkAssumption DEF LinkInit
  <2>. QED  BY <2>1, <2>2, <2>3 DEF LinkInit, Wired
<1>2. AgentsOK
  BY DEF LinkInit, AgentsOK, AgentOK, Agents, NoAgent
<1>3. Unused
  BY DEF LinkInit, Unused, NoAgent
<1>4. Greeted
  BY DEF LinkInit, Greeted, NoAgent, NoHello, OneHello
<1>. QED  BY <1>1, <1>2, <1>3, <1>4 DEF LinkInv

-----------------------------------------------------------------------------
(***************************************************************************)
(* The agent service                                                       *)
(***************************************************************************)
LEMMA AgentStep ==
  ASSUME AgentsOK, NEW l \in Links, NEW ag, AgentOK(ag), agent' = [agent EXCEPT ![l] = ag]
  PROVE  AgentsOK'
BY DEF AgentsOK, AgentOK

\* A step of an agent that does not come on keeps the greetings, and a link that was
\* never made stays so.
LEMMA AgentStepKeeps ==
  ASSUME LinkInv, NEW l \in Links, NEW ag, agent' = [agent EXCEPT ![l] = ag],
         agent[l].state # "none", ag.state \in {agent[l].state, "off", "stopped"},
         UNCHANGED <<up, worker>>,
         \A k \in Links : k # l => down'[k] = down[k]
  PROVE  Greeted' /\ Unused'
<1>1. /\ agent'[l] = ag
      /\ \A k \in Links : k # l => agent'[k] = agent[k]
  BY DEF LinkInv, AgentsOK
<1>2. Greeted'
  BY <1>1 DEF LinkInv, Greeted, worker, NoHello, OneHello
<1>3. Unused'
  BY <1>1 DEF LinkInv, Unused, worker
<1>. QED  BY <1>2, <1>3

LEMMA RunJobKeeps == ASSUME LinkInv, NEW l \in Links, RunJob(l) PROVE LinkInv'
<1>1. PICK j \in broker : /\ broker' = broker \ {j}
                          /\ agent' = [agent EXCEPT ![l].thread = j, ![l].handed = TRUE]
  BY DEF RunJob
<1> DEFINE ag == [agent[l] EXCEPT !.thread = j, !.handed = TRUE]
<1>2. agent' = [agent EXCEPT ![l] = ag]
  BY <1>1 DEF LinkInv, AgentsOK, Agents
<1>3. j \in Jobs /\ j # NoJob /\ AgentOK(agent[l])
  BY LinkAssumption DEF LinkInv, Wired, AgentsOK
<1>4. AgentOK(ag)
  BY <1>3 DEF RunJob, AgentOK, Agents
<1>5. Wired'
  BY <1>1 DEF LinkInv, Wired, RunJob, wire, worker
<1>6. ag.state = agent[l].state /\ agent[l].state # "none"
  BY <1>3 DEF RunJob, AgentOK, Agents
<1>. QED  BY <1>2, <1>4, <1>5, <1>6, AgentStep, AgentStepKeeps DEF LinkInv, RunJob, wire

LEMMA RunJobReturnsKeeps == ASSUME LinkInv, NEW l \in Links, RunJobReturns(l) PROVE LinkInv'
<1> DEFINE ag == [agent[l] EXCEPT !.thread = NoJob, !.result = "none"]
<1>1. AgentOK(agent[l]) /\ agent[l] \in Agents
  BY DEF LinkInv, AgentsOK, AgentOK
<1>2. agent' = [agent EXCEPT ![l] = ag]
  BY DEF LinkInv, AgentsOK, Agents, RunJobReturns
<1>3. agent[l].thread \in Jobs /\ agent[l].state \notin {"none"}
  BY <1>1 DEF RunJobReturns, AgentOK, Agents
<1>4. AgentOK(ag)
  BY <1>1, <1>3, LinkAssumption DEF RunJobReturns, AgentOK, Agents
<1>5. Wired'
  BY <1>3 DEF LinkInv, Wired, RunJobReturns, wire, worker
<1>6. ag.state = agent[l].state
  BY <1>1 DEF Agents
<1>. QED  BY <1>2, <1>3, <1>4, <1>5, <1>6, AgentStep, AgentStepKeeps DEF LinkInv, RunJobReturns, wire

LEMMA ThreadStopsKeeps == ASSUME LinkInv, NEW l \in Links, ThreadStops(l) PROVE LinkInv'
<1> DEFINE ag == [agent[l] EXCEPT !.state = "stopped"]
<1>1. agent' = [agent EXCEPT ![l] = ag]
  BY DEF LinkInv, AgentsOK, Agents, ThreadStops
<1>2. AgentOK(ag)
  BY DEF LinkInv, AgentsOK, ThreadStops, AgentOK, Agents
<1>3. Wired'
  BY DEF LinkInv, Wired, ThreadStops, wire, worker
<1>4. ag.state = "stopped" /\ agent[l].state # "none"
  BY DEF LinkInv, AgentsOK, Agents, ThreadStops
<1>. QED  BY <1>1, <1>2, <1>3, <1>4, AgentStep, AgentStepKeeps DEF LinkInv, ThreadStops, wire

LEMMA TakenBackKeeps == ASSUME LinkInv, NEW l \in Links, TakenBack(l) PROVE LinkInv'
<1> DEFINE ag == [agent[l] EXCEPT !.state = "stopped", !.thread = NoJob, !.handed = FALSE]
<1>1. agent' = [agent EXCEPT ![l] = ag]
  BY DEF LinkInv, AgentsOK, Agents, TakenBack
<1>2. AgentOK(agent[l]) /\ agent[l].thread \in Jobs
  BY DEF LinkInv, AgentsOK, AgentOK, Agents, TakenBack
<1>3. AgentOK(ag)
  BY <1>2 DEF TakenBack, AgentOK, Agents
<1>4. Wired'
  BY <1>2 DEF LinkInv, Wired, TakenBack, wire, worker
<1>5. ag.state = "stopped" /\ agent[l].state # "none"
  BY DEF LinkInv, AgentsOK, Agents, TakenBack
<1>. QED  BY <1>1, <1>3, <1>4, <1>5, AgentStep, AgentStepKeeps DEF LinkInv, TakenBack, wire

\* The thread of a link that is on and has a job for the event loop.
LEMMA HandleJobKeeps == ASSUME LinkInv, NEW l \in Links, HandleJob(l) PROVE LinkInv'
<1> DEFINE ag == agent[l]
<1>1. /\ AgentOK(ag) /\ ag \in Agents /\ ag.thread \in Jobs /\ ag.thread # NoJob
      /\ ag.state = "on" /\ ag.handed /\ ag.current = NoJob /\ ag.result = "none"
  BY LinkAssumption DEF LinkInv, AgentsOK, AgentOK, Agents, HandleJob
<1>2. CASE agent' = [agent EXCEPT ![l] = Skipped(ag)] /\ UNCHANGED wire
  <2>1. AgentOK(Skipped(ag)) /\ Skipped(ag).state = "on"
    BY <1>1 DEF Skipped, AgentOK, Agents, Results
  <2>2. Wired'
    BY <1>2 DEF LinkInv, Wired, HandleJob, wire, worker
  <2>. QED  BY <1>1, <1>2, <2>1, <2>2, AgentStep, AgentStepKeeps DEF LinkInv, HandleJob, wire
<1>3. ASSUME NEW result \in {"none", "final"},
             Ends(l, [ag EXCEPT !.handed = FALSE, !.result = result]), UNCHANGED <<down, up>>
      PROVE  LinkInv'
  <2> DEFINE new == [ag EXCEPT !.handed = FALSE, !.result = result, !.state = "off"]
  <2>1. AgentOK(new) /\ new.state = "off"
    BY <1>1 DEF AgentOK, Agents, Results
  <2>2. agent' = [agent EXCEPT ![l] = new]
    BY <1>1, <1>3 DEF Ends, Agents
  <2>3. Wired'
    BY <1>3 DEF LinkInv, Wired, HandleJob, Ends, worker
  <2>. QED  BY <1>1, <1>3, <2>1, <2>2, <2>3, AgentStep, AgentStepKeeps DEF LinkInv, HandleJob
<1>4. CASE /\ agent' = [agent EXCEPT ![l] = [ag EXCEPT !.handed = FALSE, !.current = ag.thread]]
           /\ down' = [down EXCEPT ![l] = Append(@, ag.thread)]
           /\ UNCHANGED <<up, intact>>
  <2> DEFINE new == [ag EXCEPT !.handed = FALSE, !.current = ag.thread]
  <2>1. AgentOK(new) /\ new.state = "on"
    BY <1>1 DEF AgentOK, Agents
  <2>2. Wired'
    <3>1. down' \in [Links -> Seq(Jobs)]
      BY <1>1, <1>4 DEF LinkInv, Wired
    <3>. QED  BY <1>4, <3>1 DEF LinkInv, Wired, HandleJob, worker
  <2>3. \A k \in Links : k # l => down'[k] = down[k]
    BY <1>4 DEF LinkInv, Wired
  <2>. QED  BY <1>1, <1>4, <2>1, <2>2, <2>3, AgentStep, AgentStepKeeps DEF LinkInv, HandleJob
<1>. QED  BY <1>2, <1>3, <1>4 DEF HandleJob

LEMMA AgentDisconnectsKeeps == ASSUME LinkInv, NEW l \in Links, AgentDisconnects(l) PROVE LinkInv'
<1>1. PICK result \in Results : Ends(l, Finished(agent[l], result))
  BY DEF AgentDisconnects
<1> DEFINE ag == [Finished(agent[l], result) EXCEPT !.state = "off"]
<1>2. AgentOK(agent[l]) /\ agent[l] \in Agents /\ agent[l].state \in {"init", "on"}
  BY DEF LinkInv, AgentsOK, AgentOK, AgentDisconnects
<1>3. AgentOK(ag) /\ ag.state = "off"
  BY <1>2 DEF Finished, AgentOK, Agents, Results
<1>4. agent' = [agent EXCEPT ![l] = ag]
  BY <1>1 DEF Ends
<1>5. Wired'
  BY <1>1 DEF LinkInv, Wired, AgentDisconnects, Ends, worker
<1>. QED  BY <1>2, <1>3, <1>4, <1>5, AgentStep, AgentStepKeeps DEF LinkInv, AgentDisconnects

LEMMA HandleMessageKeeps == ASSUME LinkInv, NEW l \in Links, HandleMessage(l) PROVE LinkInv'
<1> DEFINE ag == agent[l]
           m  == Head(up[l])
<1>1. AgentOK(ag) /\ ag \in Agents /\ up[l] \in Seq(Messages) /\ up[l] # <<>>
  BY DEF LinkInv, AgentsOK, AgentOK, Wired, HandleMessage
<1>2. Wired'
  <2>1. Tail(up[l]) \in Seq(Messages)
    BY <1>1, HelloTaken
  <2>2. up' \in [Links -> Seq(Messages)]
    BY <2>1 DEF LinkInv, Wired, HandleMessage
  <2>3. intact' \subseteq intact
    BY DEF HandleMessage, Ends
  <2>. QED  BY <2>2, <2>3 DEF LinkInv, Wired, HandleMessage, worker
<1>3. /\ up'[l] = Tail(up[l]) /\ \A k \in Links : k # l => up'[k] = up[k]
      /\ UNCHANGED worker /\ down' = down
  BY DEF LinkInv, Wired, HandleMessage
<1>4. ASSUME NEW new, AgentOK(new), agent' = [agent EXCEPT ![l] = new], new.state # "init",
             new.state = "on" => NoHello(up'[l]) /\ (link = l => NoHello(outbox))
      PROVE  LinkInv'
  <2>1. agent'[l] = new /\ \A k \in Links : k # l => agent'[k] = agent[k]
    BY <1>4 DEF LinkInv, AgentsOK
  <2>2. Greeted'
    BY <1>3, <1>4, <2>1, ZenonT(60) DEF LinkInv, Greeted, worker, NoHello, OneHello
  <2>3. Unused'
    BY <1>1, <1>3, <2>1 DEF LinkInv, Unused, HandleMessage, worker
  <2>. QED  BY <1>2, <1>4, <2>2, <2>3, AgentStep DEF LinkInv
<1>5. CASE ag.state = "init" /\ m = Hello /\ agent' = [agent EXCEPT ![l].state = "on"]
  <2> DEFINE new == [ag EXCEPT !.state = "on"]
  <2>1. AgentOK(new) /\ new.state = "on"
    BY <1>1, <1>5 DEF AgentOK, Agents
  <2>2. agent' = [agent EXCEPT ![l] = new]
    BY <1>5 DEF LinkInv, AgentsOK
  <2>3. OneHello(up[l]) /\ ~NoHello(up[l])
    BY <1>1, <1>5, HelloTaken DEF LinkInv, Greeted
  <2>4. NoHello(up'[l]) /\ (link = l => NoHello(outbox))
    BY <1>1, <1>3, <1>5, <2>3, HelloTaken DEF LinkInv, Greeted
  <2>. QED  BY <1>4, <2>1, <2>2, <2>4
<1>6. CASE /\ ag.state = "init" \/ (ag.state = "on" /\ ag.current = NoJob)
           /\ Ends(l, ag)
  <2> DEFINE new == [ag EXCEPT !.state = "off"]
  <2>1. AgentOK(new) /\ new.state = "off"
    BY <1>1, <1>6 DEF AgentOK, Agents
  <2>. QED  BY <1>4, <1>6, <2>1 DEF Ends
<1>7. CASE /\ ag.state = "on" /\ ag.current # NoJob
           /\ agent' = [agent EXCEPT ![l] = Finished(ag, m.result)]
  <2>1. NoHello(up[l]) /\ (link = l => NoHello(outbox))
    BY <1>7 DEF LinkInv, Greeted
  <2>2. m \in Messages /\ m # Hello /\ NoHello(up'[l])
    BY <1>1, <1>3, <2>1, HelloTaken
  <2>3. m.result \in Results
    BY <2>2 DEF Messages
  <2>4. AgentOK(Finished(ag, m.result)) /\ Finished(ag, m.result).state = "on"
    <3> HIDE DEF m
    <3>. QED  BY <1>1, <1>7, <2>3 DEF Finished, AgentOK, Agents, Results
  <2>. QED  BY <1>4, <1>7, <2>1, <2>2, <2>4
<1>8. \/ ag.state = "init" /\ m = Hello /\ agent' = [agent EXCEPT ![l].state = "on"]
      \/ (ag.state = "init" \/ (ag.state = "on" /\ ag.current = NoJob)) /\ Ends(l, ag)
      \/ /\ ag.state = "on" /\ ag.current # NoJob
         /\ agent' = [agent EXCEPT ![l] = Finished(ag, m.result)]
  BY DEF HandleMessage
<1>. QED  BY <1>5, <1>6, <1>7, <1>8

-----------------------------------------------------------------------------
(***************************************************************************)
(* The backend worker                                                      *)
(***************************************************************************)
LEMMA WireBreaksKeeps == ASSUME LinkInv, WireBreaks PROVE LinkInv'
<1>1. /\ UNCHANGED <<broker, agent, down, up, link, links, inbox, running, outbox, late>>
      /\ intact' \subseteq intact
  BY DEF WireBreaks, service, worker
<1>. QED  BY <1>1 DEF LinkInv, Wired, AgentsOK, AgentOK, Unused, Greeted, NoHello, OneHello

LEMMA WorkerConnectsKeeps == ASSUME LinkInv, WorkerConnects PROVE LinkInv'
<1> DEFINE n == links + 1
           new == [agent[n] EXCEPT !.state = "init"]
<1>1. n \in Links /\ n \in 0..MaxLinks /\ links \in Nat /\ links < n
  BY LinkAssumption DEF LinkInv, Wired, WorkerConnects, Links
<1>2. /\ agent[n].state = "none" /\ up[n] = <<>> /\ down[n] = <<>>
      /\ AgentOK(agent[n]) /\ agent[n] \in Agents
  BY <1>1 DEF LinkInv, Unused, AgentsOK, AgentOK
<1>3. agent' = [agent EXCEPT ![n] = new] /\ AgentOK(new) /\ new.state = "init"
  BY <1>1, <1>2 DEF WorkerConnects, AgentOK, Agents
<1>4. /\ agent'[n].state = "init" /\ \A k \in Links : k # n => agent'[k] = agent[k]
      /\ UNCHANGED <<broker, down, up, inbox, running, late>>
      /\ link = 0 /\ link' = n /\ links' = n /\ outbox' = Append(outbox, Hello)
      /\ intact' = intact \cup {n}
  BY <1>1, <1>3 DEF LinkInv, AgentsOK, WorkerConnects
<1>5. AgentsOK'
  BY <1>1, <1>3, AgentStep DEF LinkInv
<1>6. Wired'
  <2>1. outbox' \in Seq(Messages)
    BY <1>4 DEF LinkInv, Wired, Messages
  <2>2. link' \in 0..links' /\ links' \in 0..MaxLinks /\ intact' \subseteq Links
    BY <1>1, <1>4 DEF LinkInv, Wired
  <2>. QED  BY <1>4, <2>1, <2>2 DEF LinkInv, Wired
<1>7. Unused'
  <2> SUFFICES ASSUME NEW k \in Links, k > links'
               PROVE  agent'[k].state = "none" /\ up'[k] = <<>> /\ down'[k] = <<>>
    BY DEF Unused
  <2>1. k > links /\ k # n
    BY <1>1, <1>4 DEF Links
  <2>. QED  BY <1>4, <2>1 DEF LinkInv, Unused
<1>8. Greeted'
  <2>1. OneHello(outbox') /\ link' # 0
    BY <1>1, <1>4, HelloAppended DEF LinkInv, Greeted, Wired, Messages
  <2>2. NoHello(up[n])
    BY <1>2 DEF NoHello
  <2>3. \A k \in Links : k # n => link' # k
    BY <1>4
  <2>4. OneHello(up[n])
    BY <1>2 DEF OneHello
  <2>5. \A k \in Links : k # n =>
          /\ agent'[k].state = "on" => NoHello(up'[k])
          /\ agent'[k].state = "init" => OneHello(up'[k])
    BY <1>4 DEF LinkInv, Greeted
  <2>. QED  BY <1>1, <1>4, <2>1, <2>2, <2>3, <2>4, <2>5 DEF Greeted, NoHello, OneHello
<1>. QED  BY <1>5, <1>6, <1>7, <1>8 DEF LinkInv

LEMMA WorkerDisconnectsKeeps == ASSUME LinkInv, WorkerDisconnects PROVE LinkInv'
<1>1. /\ UNCHANGED <<broker, agent, down, up, intact, links, inbox, running>>
      /\ link' = 0 /\ outbox' = <<>>
  BY DEF WorkerDisconnects, service, wire
<1>2. late' \in BOOLEAN /\ link' \in 0..links'
  BY <1>1 DEF LinkInv, Wired, WorkerDisconnects
<1>3. Wired' /\ AgentsOK' /\ Unused'
  BY <1>1, <1>2 DEF LinkInv, Wired, AgentsOK, AgentOK, Unused
<1>4. Greeted'
  <2>1. \A l \in Links : l # 0
    BY DEF Links
  <2>. QED  BY <1>1, <2>1 DEF LinkInv, Greeted, NoHello, OneHello
<1>. QED  BY <1>3, <1>4 DEF LinkInv

\* What the worker does with its jobs does not concern the greeting.
LEMMA WorkerStep ==
  ASSUME LinkInv, Wired', UNCHANGED <<agent, up, link, links, outbox>>,
         \A l \in Links : l > links => down'[l] = <<>>
  PROVE  LinkInv'
BY DEF LinkInv, AgentsOK, AgentOK, Unused, Greeted, NoHello, OneHello

LEMMA ReceiveMessagesKeeps == ASSUME LinkInv, ReceiveMessages PROVE LinkInv'
<1>1. link \in Links /\ ~(link > links)
  BY LinkAssumption DEF LinkInv, Wired, ReceiveMessages, Links
<1>2. down[link] \in Seq(Jobs) /\ down[link] # <<>>
  BY <1>1 DEF LinkInv, Wired, ReceiveMessages
<1>3. down' \in [Links -> Seq(Jobs)] /\ \A l \in Links : l # link => down'[l] = down[l]
  BY <1>1, <1>2 DEF LinkInv, Wired, ReceiveMessages
<1>4. inbox' \in Seq(Items)
  <2>1. [link |-> link, job |-> Head(down[link])] \in Items
    BY <1>1, <1>2 DEF Items
  <2>. QED  BY <2>1 DEF LinkInv, Wired, ReceiveMessages
<1>5. Wired'
  BY <1>3, <1>4 DEF LinkInv, Wired, ReceiveMessages, service
<1>6. \A l \in Links : l > links => down'[l] = <<>>
  BY <1>1, <1>3 DEF LinkInv, Unused
<1>. QED  BY <1>5, <1>6, WorkerStep DEF ReceiveMessages, service

LEMMA RunBackendJobKeeps == ASSUME LinkInv, RunBackendJob PROVE LinkInv'
<1>1. Head(inbox) \in Items /\ Tail(inbox) \in Seq(Items)
  BY DEF LinkInv, Wired, RunBackendJob
<1>2. Wired'
  BY <1>1 DEF LinkInv, Wired, RunBackendJob, service, wire
<1>. QED  BY <1>2, WorkerStep DEF LinkInv, Unused, RunBackendJob, service, wire

LEMMA JobEndsKeeps ==
  ASSUME LinkInv, NEW r \in running, NEW result \in Results, JobEnds(r, result) PROVE LinkInv'
<1> DEFINE m == [link |-> r.link, job |-> r.job, result |-> result]
<1>1. m \in [link : Links, job : Jobs, result : Results]
  BY DEF LinkInv, Wired, Items
<1>2. m \in Messages /\ m # Hello
  BY <1>1, HelloIsNoResult DEF Messages
<1>3. /\ UNCHANGED <<broker, agent, down, up, intact, link, links, inbox, late>>
      /\ running' \subseteq running
      /\ outbox' = Append(outbox, m) \/ outbox' = outbox
  BY DEF JobEnds, service, wire
<1> HIDE DEF m
<1>4. outbox' \in Seq(Messages)
  BY <1>2, <1>3 DEF LinkInv, Wired
<1>5. Wired' /\ AgentsOK' /\ Unused'
  BY <1>3, <1>4 DEF LinkInv, Wired, AgentsOK, AgentOK, Unused
<1>6. /\ OneHello(outbox) => OneHello(outbox')
      /\ NoHello(outbox) => NoHello(outbox')
  BY <1>2, <1>3, HelloAppended DEF LinkInv, Wired
<1>7. Greeted'
  BY <1>3, <1>6 DEF LinkInv, Greeted, OneHello, NoHello
<1>. QED  BY <1>5, <1>7 DEF LinkInv

LEMMA ForwardMessagesKeeps == ASSUME LinkInv, ForwardMessages PROVE LinkInv'
<1> DEFINE m == Head(outbox)
<1>1. link \in Links /\ link \in intact /\ ~(link > links) /\ link # 0
  BY LinkAssumption DEF LinkInv, Wired, ForwardMessages, Links
<1>2. /\ outbox \in Seq(Messages) /\ outbox # <<>> /\ up[link] \in Seq(Messages)
      /\ m \in Messages /\ outbox' = Tail(outbox) /\ outbox' \in Seq(Messages)
  BY <1>1 DEF LinkInv, Wired, ForwardMessages
<1>3. /\ UNCHANGED <<broker, agent, down, intact, link, links, inbox, running, late>>
      /\ up' = [up EXCEPT ![link] = Append(@, m)]
  BY DEF ForwardMessages, service
<1>4. up'[link] = Append(up[link], m) /\ \A l \in Links : l # link => up'[l] = up[l]
  BY <1>1, <1>3 DEF LinkInv, Wired
<1>5. Wired'
  <2>1. Append(up[link], m) \in Seq(Messages)
    BY <1>2
  <2>2. up' \in [Links -> Seq(Messages)]
    BY <1>1, <1>3, <2>1 DEF LinkInv, Wired
  <2>. QED  BY <1>2, <1>3, <2>2 DEF LinkInv, Wired
<1>6. AgentsOK' /\ Unused'
  BY <1>1, <1>3, <1>4 DEF LinkInv, AgentsOK, AgentOK, Unused
<1>7. /\ NoHello(outbox) => NoHello(outbox') /\ m # Hello
      /\ OneHello(outbox) => OneHello(outbox')
      /\ OneHello(outbox) /\ m = Hello => NoHello(outbox')
  BY <1>2, HelloTaken
<1>8. /\ m # Hello /\ NoHello(up[link]) => NoHello(up'[link])
      /\ m # Hello /\ OneHello(up[link]) => OneHello(up'[link])
      /\ NoHello(up[link]) => OneHello(up'[link])
  BY <1>2, <1>4, HelloAppended
<1>9. m = Hello => ~NoHello(outbox)
  BY <1>7
<1> HIDE DEF m
<1>10. OneHello(outbox') /\ link' # 0
  BY <1>1, <1>3, <1>7 DEF LinkInv, Greeted
<1>11. \A l \in Links :
         /\ agent[l].state = "on" => NoHello(up'[l]) /\ (link = l => NoHello(outbox'))
         /\ agent[l].state = "init" =>
              OneHello(up'[l]) /\ (link = l => NoHello(up'[l]) \/ NoHello(outbox'))
  BY <1>1, <1>4, <1>7, <1>8, <1>9 DEF LinkInv, Greeted
<1>12. Greeted'
  BY <1>3, <1>10, <1>11 DEF Greeted, NoHello, OneHello
<1>. QED  BY <1>5, <1>6, <1>12 DEF LinkInv

LEMMA LinkStepInv == LinkInv /\ [LinkNext]_linkVars => LinkInv'
<1> SUFFICES ASSUME LinkInv, [LinkNext]_linkVars PROVE LinkInv'
  OBVIOUS
<1>1. CASE UNCHANGED linkVars
  BY <1>1 DEF LinkInv, Wired, AgentsOK, AgentOK, Unused, Greeted, NoHello, OneHello,
     linkVars, service, wire, worker
<1>2. ASSUME NEW l \in Links,
             \/ RunJob(l) \/ RunJobReturns(l) \/ ThreadStops(l) \/ TakenBack(l)
             \/ HandleJob(l) \/ HandleMessage(l) \/ AgentDisconnects(l)
      PROVE  LinkInv'
  BY <1>2, RunJobKeeps, RunJobReturnsKeeps, ThreadStopsKeeps, TakenBackKeeps, HandleJobKeeps,
     HandleMessageKeeps, AgentDisconnectsKeeps
<1>3. CASE WireBreaks \/ WorkerConnects \/ WorkerDisconnects
           \/ ReceiveMessages \/ RunBackendJob \/ ForwardMessages
  BY <1>3, WireBreaksKeeps, WorkerConnectsKeeps, WorkerDisconnectsKeeps, ReceiveMessagesKeeps,
     RunBackendJobKeeps, ForwardMessagesKeeps
<1>4. ASSUME NEW r \in running, NEW result \in Results, JobEnds(r, result) PROVE LinkInv'
  BY <1>4, JobEndsKeeps
<1>. QED  BY <1>1, <1>2, <1>3, <1>4 DEF LinkNext

\* LinkInv holds in every state.
THEOREM LinkInvariant == LinkSpec => []LinkInv
BY LinkInitInv, LinkStepInv, PTL DEF LinkSpec

\* The thread that run_job blocks waits, on a live link, for a job that is on its way to
\* the event loop or being executed, for any number of jobs, links and disconnections:
\* finish_current_job is called for every job handle_job accepts, and no greeting is
\* taken for a result.
THEOREM LinkTypeCorrect == LinkSpec => []LinkTypeOK
BY LinkInvariant, InvariantImpliesTypes, PTL

-----------------------------------------------------------------------------
(***************************************************************************)
(* Results are those of the current job                                    *)
(***************************************************************************)
\* What is under way on a link until the worker loses one with a job: the greeting
\* before the link is on, then the current job, which is in one place at a time.
Result(l, j, r) == [link |-> l, job |-> j, result |-> r]
Answered(l, cur, u) ==
  \/ u = <<>>
  \/ cur # NoJob /\ \E r \in Results : u = <<Result(l, cur, r)>>
OnePlace(l, cur, d, i, run, o, u) ==
  \/ d = <<>> /\ i = <<>> /\ run = {} /\ o = <<>> /\ Answered(l, cur, u)
  \/ /\ cur # NoJob /\ u = <<>>
     /\ \/ d = <<cur>> /\ i = <<>> /\ run = {} /\ o = <<>>
        \/ d = <<>> /\ i = <<[link |-> l, job |-> cur]>> /\ run = {} /\ o = <<>>
        \/ d = <<>> /\ i = <<>> /\ run = {[link |-> l, job |-> cur]} /\ o = <<>>
        \/ d = <<>> /\ i = <<>> /\ run = {} /\ \E r \in Results : o = <<Result(l, cur, r)>>
Greeting(d, i, run, o, u) ==
  /\ d = <<>> /\ i = <<>> /\ run = {}
  /\ \/ o = <<Hello>> /\ u = <<>>
     \/ o = <<>> /\ u = <<Hello>>

OwnAt(l) ==
  /\ agent[l].state = "on" =>
       IF link = l THEN OnePlace(l, agent[l].current, down[l], inbox, running, outbox, up[l])
       ELSE Answered(l, agent[l].current, up[l])
  /\ agent[l].state = "init" =>
       IF link = l THEN Greeting(down[l], inbox, running, outbox, up[l])
       ELSE up[l] \in {<<>>, <<Hello>>}
Own ==
  ~late => /\ link = 0 => inbox = <<>> /\ running = {} /\ outbox = <<>>
           /\ \A l \in Links : OwnAt(l)

LEMMA OneElement ==
  /\ \A x : /\ <<x>> # <<>> /\ Head(<<x>>) = x /\ Tail(<<x>>) = <<>>
            /\ Append(<<>>, x) = <<x>> /\ Len(<<x>>) = 1 /\ DOMAIN <<x>> = {1} /\ <<x>>[1] = x
  /\ DOMAIN <<>> = {}
OBVIOUS

LEMMA OwnImpliesResultsAreOwn == Own => ResultsAreOwn
<1> SUFFICES ASSUME Own, ~late, NEW l \in Links, NEW i \in DOMAIN up[l],
                    up[l][i] # Hello, agent[l].state = "on"
             PROVE  up[l][i].link = l /\ up[l][i].job = agent[l].current /\ Len(up[l]) = 1
  BY DEF ResultsAreOwn
<1>1. Answered(l, agent[l].current, up[l])
  BY DEF Own, OwnAt, OnePlace, Answered
<1>2. up[l] # <<>>
  BY OneElement
<1>3. PICK r \in Results : up[l] = <<Result(l, agent[l].current, r)>>
  BY <1>1, <1>2 DEF Answered
<1>4. i = 1 /\ Len(up[l]) = 1 /\ up[l][i] = Result(l, agent[l].current, r)
  BY <1>3, OneElement
<1>. QED  BY <1>4 DEF Result

\* A step of the agent of one link.
LEMMA OwnAgentStep ==
  ASSUME Own, NEW l \in Links, UNCHANGED worker,
         \A k \in Links : k # l => agent'[k] = agent[k] /\ up'[k] = up[k] /\ down'[k] = down[k],
         ~late => OwnAt(l)'
  PROVE  Own'
<1> SUFFICES ASSUME ~late
             PROVE  /\ link = 0 => inbox = <<>> /\ running = {} /\ outbox = <<>>
                    /\ \A k \in Links : OwnAt(k)'
  BY DEF Own, worker
<1>1. ASSUME NEW k \in Links, k # l PROVE OwnAt(k)'
  BY <1>1 DEF Own, OwnAt, worker
<1>. QED  BY <1>1 DEF Own

\* What an agent does with its thread alone, and its end.
LEMMA OwnThreadStep ==
  ASSUME LinkInv, Own, NEW l \in Links, NEW ag, agent' = [agent EXCEPT ![l] = ag],
         UNCHANGED <<down, up, worker>>,
         \/ ag.state = agent[l].state /\ ag.current = agent[l].current
         \/ ag.state \in {"off", "stopped"}
  PROVE  Own'
<1>1. agent'[l] = ag /\ \A k \in Links : k # l => agent'[k] = agent[k]
  BY DEF LinkInv, AgentsOK
<1>2. ~late => OwnAt(l)'
  BY <1>1 DEF Own, OwnAt, worker
<1>. QED  BY <1>1, <1>2, OwnAgentStep

LEMMA OwnAgentNext ==
  ASSUME LinkInv, Own, NEW l \in Links,
         \/ RunJob(l) \/ RunJobReturns(l) \/ ThreadStops(l) \/ TakenBack(l) \/ AgentDisconnects(l)
  PROVE  Own'
<1>1. agent \in [Links -> Agents] /\ agent[l] \in Agents
  BY DEF LinkInv, AgentsOK
<1>2. CASE RunJob(l)
  <2>1. PICK j \in broker : agent' = [agent EXCEPT ![l].thread = j, ![l].handed = TRUE]
    BY <1>2 DEF RunJob
  <2> DEFINE ag == [agent[l] EXCEPT !.thread = j, !.handed = TRUE]
  <2>2. /\ agent' = [agent EXCEPT ![l] = ag]
        /\ ag.state = agent[l].state /\ ag.current = agent[l].current
    BY <1>1, <2>1 DEF Agents
  <2>. QED  BY <1>2, <2>2, OwnThreadStep DEF RunJob, wire
<1>3. CASE RunJobReturns(l)
  <2> DEFINE ag == [agent[l] EXCEPT !.thread = NoJob, !.result = "none"]
  <2>1. /\ agent' = [agent EXCEPT ![l] = ag]
        /\ ag.state = agent[l].state /\ ag.current = agent[l].current
    BY <1>1, <1>3 DEF Agents, RunJobReturns
  <2>. QED  BY <1>3, <2>1, OwnThreadStep DEF RunJobReturns, wire
<1>4. CASE ThreadStops(l)
  <2> DEFINE ag == [agent[l] EXCEPT !.state = "stopped"]
  <2>1. agent' = [agent EXCEPT ![l] = ag] /\ ag.state = "stopped"
    BY <1>1, <1>4 DEF Agents, ThreadStops
  <2>. QED  BY <1>4, <2>1, OwnThreadStep DEF ThreadStops, wire
<1>5. CASE TakenBack(l)
  <2> DEFINE ag == [agent[l] EXCEPT !.state = "stopped", !.thread = NoJob, !.handed = FALSE]
  <2>1. agent' = [agent EXCEPT ![l] = ag] /\ ag.state = "stopped"
    BY <1>1, <1>5 DEF Agents, TakenBack
  <2>. QED  BY <1>5, <2>1, OwnThreadStep DEF TakenBack, wire
<1>6. CASE AgentDisconnects(l)
  <2>1. PICK result \in Results : Ends(l, Finished(agent[l], result))
    BY <1>6 DEF AgentDisconnects
  <2> DEFINE ag == [Finished(agent[l], result) EXCEPT !.state = "off"]
  <2>2. agent' = [agent EXCEPT ![l] = ag] /\ ag.state = "off"
    BY <1>1, <2>1 DEF Ends, Finished, Agents
  <2>. QED  BY <1>6, <2>2, OwnThreadStep DEF AgentDisconnects
<1>. QED  BY <1>2, <1>3, <1>4, <1>5, <1>6

LEMMA OwnHandleJob == ASSUME LinkInv, Own, NEW l \in Links, HandleJob(l) PROVE Own'
<1> DEFINE ag == agent[l]
<1>1. /\ ag \in Agents /\ ag.thread \in Jobs /\ ag.thread # NoJob
      /\ ag.state = "on" /\ ag.handed /\ ag.current = NoJob
  BY LinkAssumption DEF LinkInv, AgentsOK, AgentOK, Agents, HandleJob
<1>2. CASE agent' = [agent EXCEPT ![l] = Skipped(ag)] /\ UNCHANGED wire
  <2>1. Skipped(ag).state = ag.state /\ Skipped(ag).current = ag.current
    BY <1>1 DEF Skipped, Agents
  <2>. QED  BY <1>2, <2>1, OwnThreadStep DEF HandleJob, wire
<1>3. ASSUME NEW result \in {"none", "final"},
             Ends(l, [ag EXCEPT !.handed = FALSE, !.result = result]), UNCHANGED <<down, up>>
      PROVE  Own'
  <2> DEFINE new == [ag EXCEPT !.handed = FALSE, !.result = result, !.state = "off"]
  <2>1. agent' = [agent EXCEPT ![l] = new] /\ new.state = "off"
    BY <1>1, <1>3 DEF Ends, Agents
  <2>. QED  BY <1>3, <2>1, OwnThreadStep DEF HandleJob
<1>4. CASE /\ agent' = [agent EXCEPT ![l] = [ag EXCEPT !.handed = FALSE, !.current = ag.thread]]
           /\ down' = [down EXCEPT ![l] = Append(@, ag.thread)]
           /\ UNCHANGED <<up, intact>>
  <2>1. /\ agent'[l].state = "on" /\ agent'[l].current = ag.thread
        /\ down'[l] = Append(down[l], ag.thread) /\ up' = up
        /\ \A k \in Links : k # l => agent'[k] = agent[k] /\ down'[k] = down[k]
        /\ UNCHANGED worker
    BY <1>1, <1>4 DEF LinkInv, AgentsOK, Agents, Wired, HandleJob
  <2>2. ASSUME ~late PROVE OwnAt(l)'
    <3>1. CASE link = l
      <4>1. /\ down[l] = <<>> /\ inbox = <<>> /\ running = {} /\ outbox = <<>> /\ up[l] = <<>>
        BY <1>1, <2>2, <3>1 DEF Own, OwnAt, OnePlace, Answered
      <4>2. down'[l] = <<ag.thread>>
        BY <2>1, <4>1, OneElement
      <4>3. OnePlace(l, ag.thread, down'[l], inbox, running, outbox, up[l])
        BY <1>1, <4>1, <4>2 DEF OnePlace
      <4>. QED  BY <2>1, <3>1, <4>3 DEF OwnAt, worker
    <3>2. CASE link # l
      <4>1. up[l] = <<>>
        BY <1>1, <2>2, <3>2 DEF Own, OwnAt, Answered
      <4>. QED  BY <2>1, <3>2, <4>1 DEF OwnAt, Answered, worker
    <3>. QED  BY <3>1, <3>2
  <2>. QED  BY <2>1, <2>2, OwnAgentStep
<1>. QED  BY <1>2, <1>3, <1>4 DEF HandleJob

LEMMA OwnHandleMessage == ASSUME LinkInv, Own, NEW l \in Links, HandleMessage(l) PROVE Own'
<1> DEFINE ag == agent[l]
           m  == Head(up[l])
<1>1. ag \in Agents /\ up[l] # <<>>
  BY DEF LinkInv, AgentsOK, HandleMessage
<1>2. /\ up'[l] = Tail(up[l]) /\ \A k \in Links : k # l => up'[k] = up[k]
      /\ UNCHANGED worker /\ down' = down
  BY DEF LinkInv, Wired, HandleMessage
<1>3. ASSUME NEW new, agent' = [agent EXCEPT ![l] = new],
             ~late => \/ new.state \notin {"on", "init"}
                      \/ /\ new.state = "on" /\ up'[l] = <<>>
                         /\ link = l => down[l] = <<>> /\ inbox = <<>> /\ running = {} /\ outbox = <<>>
      PROVE  Own'
  <2>1. agent'[l] = new /\ \A k \in Links : k # l => agent'[k] = agent[k]
    BY <1>3 DEF LinkInv, AgentsOK
  <2>2. ~late => OwnAt(l)'
    BY <1>2, <1>3, <2>1 DEF OwnAt, OnePlace, Answered, worker
  <2>. QED  BY <1>2, <2>1, <2>2, OwnAgentStep
<1>4. CASE ag.state = "init" /\ m = Hello /\ agent' = [agent EXCEPT ![l].state = "on"]
  <2> DEFINE new == [ag EXCEPT !.state = "on"]
  <2>1. agent' = [agent EXCEPT ![l] = new] /\ new.state = "on"
    BY <1>1, <1>4 DEF LinkInv, AgentsOK, Agents
  <2>2. ~late => /\ up'[l] = <<>>
                 /\ link = l => down[l] = <<>> /\ inbox = <<>> /\ running = {} /\ outbox = <<>>
    BY <1>1, <1>2, <1>4, OneElement DEF Own, OwnAt, Greeting
  <2>. QED  BY <1>3, <2>1, <2>2
<1>5. CASE /\ ag.state = "init" \/ (ag.state = "on" /\ ag.current = NoJob)
           /\ Ends(l, ag)
  <2> DEFINE new == [ag EXCEPT !.state = "off"]
  <2>1. agent' = [agent EXCEPT ![l] = new] /\ new.state = "off"
    BY <1>1, <1>5 DEF Ends, Agents
  <2>. QED  BY <1>3, <2>1
<1>6. CASE /\ ag.state = "on" /\ ag.current # NoJob
           /\ agent' = [agent EXCEPT ![l] = Finished(ag, m.result)]
  <2>1. Finished(ag, m.result).state = "on"
    BY <1>1, <1>6 DEF Finished, Agents
  <2>2. ~late => /\ Answered(l, ag.current, up[l])
                 /\ link = l => down[l] = <<>> /\ inbox = <<>> /\ running = {} /\ outbox = <<>>
    BY <1>1, <1>6 DEF Own, OwnAt, OnePlace, Answered
  <2>3. ~late => up'[l] = <<>>
    BY <1>1, <1>2, <2>2, OneElement DEF Answered
  <2>. QED  BY <1>3, <1>6, <2>1, <2>2, <2>3
<1>7. \/ ag.state = "init" /\ m = Hello /\ agent' = [agent EXCEPT ![l].state = "on"]
      \/ (ag.state = "init" \/ (ag.state = "on" /\ ag.current = NoJob)) /\ Ends(l, ag)
      \/ /\ ag.state = "on" /\ ag.current # NoJob
         /\ agent' = [agent EXCEPT ![l] = Finished(ag, m.result)]
  BY DEF HandleMessage
<1>. QED  BY <1>4, <1>5, <1>6, <1>7

\* A step of the worker leaves the agents alone, and concerns the link it is on.
LEMMA OwnWorkerStep ==
  ASSUME LinkInv, Own, UNCHANGED <<agent, link, late>>,
         \A k \in Links : k # link => up'[k] = up[k],
         ~late => link # 0,
         link \in Links /\ ~late => OwnAt(link)'
  PROVE  Own'
<1> SUFFICES ASSUME ~late PROVE \A k \in Links : OwnAt(k)'
  BY DEF Own
<1>1. ASSUME NEW k \in Links, k # link PROVE OwnAt(k)'
  BY <1>1 DEF Own, OwnAt
<1>2. ASSUME link \in Links PROVE OwnAt(link)'
  BY <1>2
<1>3. ASSUME NEW k \in Links, k = link PROVE OwnAt(k)'
  BY <1>2, <1>3 DEF OwnAt
<1>. QED  BY <1>1, <1>3

LEMMA OwnWireBreaks == ASSUME LinkInv, Own, WireBreaks PROVE Own'
BY DEF Own, OwnAt, WireBreaks, service, worker

LEMMA OwnWorkerConnects == ASSUME LinkInv, Own, WorkerConnects PROVE Own'
<1> DEFINE n == links + 1
<1>1. n \in Links /\ links < n /\ n # 0
  BY LinkAssumption DEF LinkInv, Wired, WorkerConnects, Links
<1>2. /\ agent' = [agent EXCEPT ![n].state = "init"] /\ outbox' = Append(outbox, Hello)
      /\ link = 0 /\ link' = n /\ UNCHANGED <<down, up, inbox, running, late>>
  BY DEF WorkerConnects
<1>3. agent'[n].state = "init" /\ \A k \in Links : k # n => agent'[k] = agent[k]
  BY <1>1, <1>2 DEF LinkInv, AgentsOK, Agents
<1>4. up[n] = <<>> /\ down[n] = <<>>
  BY <1>1 DEF LinkInv, Unused
<1> SUFFICES ASSUME ~late PROVE \A k \in Links : OwnAt(k)'
  BY <1>1, <1>2 DEF Own
<1>5. ASSUME NEW k \in Links, k = n PROVE OwnAt(k)'
  <2>1. outbox' = <<Hello>> /\ inbox = <<>> /\ running = {}
    BY <1>2, OneElement DEF Own
  <2>. QED  BY <1>2, <1>3, <1>4, <1>5, <2>1 DEF OwnAt, Greeting
<1>6. ASSUME NEW k \in Links, k # n PROVE OwnAt(k)'
  <2>1. link # k /\ link' # k
    BY <1>2, <1>6 DEF Links
  <2>. QED  BY <1>2, <1>3, <1>6, <2>1 DEF Own, OwnAt
<1>. QED  BY <1>5, <1>6

LEMMA OwnWorkerDisconnects == ASSUME LinkInv, Own, WorkerDisconnects PROVE Own'
<1>1. /\ UNCHANGED <<agent, down, up, inbox, running>> /\ link' = 0 /\ outbox' = <<>>
      /\ ~late' => ~late /\ inbox = <<>> /\ running = {}
  BY DEF WorkerDisconnects, service, wire
<1> SUFFICES ASSUME ~late, inbox = <<>>, running = {} PROVE \A k \in Links : OwnAt(k)'
  BY <1>1 DEF Own
<1> TAKE k \in Links
<1>2. k # 0
  BY DEF Links
<1>3. /\ agent[k].state = "on" => Answered(k, agent[k].current, up[k])
      /\ agent[k].state = "init" => up[k] \in {<<>>, <<Hello>>}
  BY DEF Own, OwnAt, OnePlace, Answered, Greeting
<1>. QED  BY <1>1, <1>2, <1>3 DEF OwnAt

LEMMA OwnReceiveMessages == ASSUME LinkInv, Own, ReceiveMessages PROVE Own'
<1>1. link \in Links /\ link # 0 /\ down[link] # <<>>
  BY LinkAssumption DEF LinkInv, Wired, ReceiveMessages, Links
<1>2. /\ UNCHANGED <<agent, up, link, running, outbox, late>>
      /\ down'[link] = Tail(down[link])
      /\ inbox' = Append(inbox, [link |-> link, job |-> Head(down[link])])
  BY <1>1 DEF LinkInv, Wired, ReceiveMessages, service
<1>3. ASSUME ~late PROVE OwnAt(link)'
  <2> DEFINE cur == agent[link].current
  <2>1. ASSUME agent[link].state = "on"
        PROVE  OnePlace(link, cur, down'[link], inbox', running, outbox, up[link])
    <3>1. OnePlace(link, cur, down[link], inbox, running, outbox, up[link])
      BY <1>1, <1>3, <2>1 DEF Own, OwnAt
    <3>2. /\ cur # NoJob /\ down[link] = <<cur>> /\ inbox = <<>>
          /\ running = {} /\ outbox = <<>> /\ up[link] = <<>>
      BY <1>1, <3>1 DEF OnePlace
    <3>3. down'[link] = <<>> /\ inbox' = <<[link |-> link, job |-> cur]>>
      BY <1>2, <3>2, OneElement
    <3>. QED  BY <3>2, <3>3 DEF OnePlace
  <2>2. agent[link].state # "init"
    BY <1>1, <1>3 DEF Own, OwnAt, Greeting
  <2>. QED  BY <1>2, <2>1, <2>2 DEF OwnAt
<1>. QED  BY <1>1, <1>2, <1>3, OwnWorkerStep

LEMMA OwnRunBackendJob == ASSUME LinkInv, Own, RunBackendJob PROVE Own'
<1>1. /\ UNCHANGED <<agent, down, up, link, outbox, late>> /\ inbox # <<>>
      /\ inbox' = Tail(inbox) /\ running' = running \cup {Head(inbox)}
  BY DEF RunBackendJob, service, wire
<1>2. ~late => link # 0
  BY <1>1 DEF Own
<1>3. ASSUME link \in Links, ~late PROVE OwnAt(link)'
  <2> DEFINE cur == agent[link].current
  <2>1. ASSUME agent[link].state = "on"
        PROVE  OnePlace(link, cur, down[link], inbox', running', outbox, up[link])
    <3>1. OnePlace(link, cur, down[link], inbox, running, outbox, up[link])
      BY <1>3, <2>1 DEF Own, OwnAt
    <3>2. /\ cur # NoJob /\ down[link] = <<>> /\ inbox = <<[link |-> link, job |-> cur]>>
          /\ running = {} /\ outbox = <<>> /\ up[link] = <<>>
      BY <1>1, <3>1 DEF OnePlace
    <3>3. inbox' = <<>> /\ running' = {[link |-> link, job |-> cur]}
      BY <1>1, <3>2, OneElement
    <3>. QED  BY <3>2, <3>3 DEF OnePlace
  <2>2. agent[link].state # "init"
    BY <1>1, <1>3 DEF Own, OwnAt, Greeting
  <2>. QED  BY <1>1, <2>1, <2>2 DEF OwnAt
<1>. QED  BY <1>1, <1>2, <1>3, OwnWorkerStep

LEMMA OwnJobEnds ==
  ASSUME LinkInv, Own, NEW r \in running, NEW result \in Results, JobEnds(r, result) PROVE Own'
<1>1. /\ UNCHANGED <<agent, down, up, link, inbox, late>> /\ running' = running \ {r}
      /\ \/ outbox' = Append(outbox, Result(r.link, r.job, result))
         \/ link = 0
  BY DEF JobEnds, Result, service, wire
<1>2. ~late => link # 0
  BY DEF Own
<1>3. ASSUME link \in Links, ~late PROVE OwnAt(link)'
  <2> DEFINE cur == agent[link].current
  <2>1. ASSUME agent[link].state = "on"
        PROVE  OnePlace(link, cur, down[link], inbox, running', outbox', up[link])
    <3>1. OnePlace(link, cur, down[link], inbox, running, outbox, up[link])
      BY <1>3, <2>1 DEF Own, OwnAt
    <3>2. /\ cur # NoJob /\ down[link] = <<>> /\ inbox = <<>>
          /\ running = {[link |-> link, job |-> cur]} /\ outbox = <<>> /\ up[link] = <<>>
      BY <3>1 DEF OnePlace
    <3>3. r.link = link /\ r.job = cur /\ running' = {}
      BY <1>1, <3>2
    <3>4. outbox' = <<Result(link, cur, result)>>
      BY <1>1, <1>2, <1>3, <3>2, <3>3, OneElement
    <3>. QED  BY <3>2, <3>3, <3>4 DEF OnePlace
  <2>2. agent[link].state # "init"
    BY <1>3 DEF Own, OwnAt, Greeting
  <2>. QED  BY <1>1, <2>1, <2>2 DEF OwnAt
<1>. QED  BY <1>1, <1>2, <1>3, OwnWorkerStep

LEMMA OwnForwardMessages == ASSUME LinkInv, Own, ForwardMessages PROVE Own'
<1>1. link \in Links /\ link # 0 /\ outbox # <<>>
  BY DEF LinkInv, Wired, ForwardMessages, Links
<1>2. /\ UNCHANGED <<agent, down, link, inbox, running, late>>
      /\ outbox' = Tail(outbox) /\ up'[link] = Append(up[link], Head(outbox))
      /\ \A k \in Links : k # link => up'[k] = up[k]
  BY <1>1 DEF LinkInv, Wired, ForwardMessages, service
<1>3. ASSUME ~late PROVE OwnAt(link)'
  <2> DEFINE cur == agent[link].current
  <2>1. ASSUME agent[link].state = "on"
        PROVE  OnePlace(link, cur, down[link], inbox, running, outbox', up'[link])
    <3>1. OnePlace(link, cur, down[link], inbox, running, outbox, up[link])
      BY <1>1, <1>3, <2>1 DEF Own, OwnAt
    <3>2. /\ cur # NoJob /\ down[link] = <<>> /\ inbox = <<>> /\ running = {} /\ up[link] = <<>>
          /\ \E r \in Results : outbox = <<Result(link, cur, r)>>
      BY <1>1, <3>1 DEF OnePlace
    <3>3. PICK r \in Results : outbox = <<Result(link, cur, r)>>
      BY <3>2
    <3>4. outbox' = <<>> /\ up'[link] = <<Result(link, cur, r)>>
      BY <1>2, <3>2, <3>3, OneElement
    <3>. QED  BY <3>2, <3>4 DEF OnePlace, Answered
  <2>2. ASSUME agent[link].state = "init"
        PROVE  Greeting(down[link], inbox, running, outbox', up'[link])
    <3>1. Greeting(down[link], inbox, running, outbox, up[link])
      BY <1>1, <1>3, <2>2 DEF Own, OwnAt
    <3>2. outbox = <<Hello>> /\ up[link] = <<>>
      BY <1>1, <3>1 DEF Greeting
    <3>3. outbox' = <<>> /\ up'[link] = <<Hello>>
      BY <1>2, <3>2, OneElement
    <3>. QED  BY <3>1, <3>3 DEF Greeting
  <2>. QED  BY <1>2, <2>1, <2>2 DEF OwnAt
<1>. QED  BY <1>1, <1>2, <1>3, OwnWorkerStep

LEMMA OwnInit == LinkInit => Own
BY OneElement DEF LinkInit, Own, OwnAt, NoAgent

LEMMA OwnNext == LinkInv /\ Own /\ [LinkNext]_linkVars => Own'
<1> SUFFICES ASSUME LinkInv, Own, [LinkNext]_linkVars PROVE Own'
  OBVIOUS
<1>1. CASE UNCHANGED linkVars
  BY <1>1 DEF Own, OwnAt, linkVars, service, wire, worker
<1>2. ASSUME NEW l \in Links,
             \/ RunJob(l) \/ RunJobReturns(l) \/ ThreadStops(l) \/ TakenBack(l)
             \/ HandleJob(l) \/ HandleMessage(l) \/ AgentDisconnects(l)
      PROVE  Own'
  BY <1>2, OwnAgentNext, OwnHandleJob, OwnHandleMessage
<1>3. CASE WireBreaks \/ WorkerConnects \/ WorkerDisconnects
           \/ ReceiveMessages \/ RunBackendJob \/ ForwardMessages
  BY <1>3, OwnWireBreaks, OwnWorkerConnects, OwnWorkerDisconnects, OwnReceiveMessages,
     OwnRunBackendJob, OwnForwardMessages
<1>4. ASSUME NEW r \in running, NEW result \in Results, JobEnds(r, result) PROVE Own'
  BY <1>4, OwnJobEnds
<1>. QED  BY <1>1, <1>2, <1>3, <1>4 DEF LinkNext

\* JOB_STATUS names no job, and yet handle_messages gives every result to the job it is
\* of, for any number of jobs and links, until the worker loses a link while it has a job.
THEOREM LinkResultsAreOwn == LinkSpec => []ResultsAreOwn
<1>1. LinkSpec => []Own
  BY LinkInvariant, OwnInit, OwnNext, PTL DEF LinkSpec
<1>. QED  BY <1>1, OwnImpliesResultsAreOwn, PTL

=============================================================================
