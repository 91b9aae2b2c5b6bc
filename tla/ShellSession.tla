---------------------------- MODULE ShellSession ----------------------------
(***************************************************************************)
(* The shell of one task in the web console: its record in the session     *)
(* cache, the calls that ask the service for a shell, the websockets to    *)
(* the router and the timeouts that wait for the shell to say something.   *)
(*                                                                         *)
(* The cache knows a session by its task, and an event does not say which  *)
(* attempt to connect it comes from: what an old socket, timeout or call   *)
(* reports is applied to whatever session has the key by then.             *)
(***************************************************************************)
EXTENDS Integers, FiniteSets

CONSTANT MaxAttempts  \* BOUND: how often the task is connected to

ASSUME ShellAssumption == MaxAttempts \in Nat

\* An attempt has one call, and at most one socket, terminal and timeout, which
\* bear its number; 0 is none.
Attempts == 1..MaxAttempts

VARIABLES
  session,  \* CachedSession: with the phase go a terminal and a socket
  call,     \* the exec call of an attempt
  socket,   \* readyState of its websocket
  screen,   \* the terminal that its websocket writes to
  armed,    \* the timeouts that may still fire
  printed,  \* history: the terminals that have shown something of a shell
  strayed   \* history: a session was given up while something of it was alive

shellVars == <<session, call, socket, screen, armed, printed, strayed>>

NoSession == [phase |-> "none", term |-> 0, ws |-> 0, timer |-> 0,
              container |-> FALSE, isConnecting |-> FALSE]
Exists == session.phase # "none"

ShellInit ==
  /\ session = NoSession /\ armed = {} /\ printed = {} /\ strayed = FALSE
  /\ call = [a \in Attempts |-> "none"] /\ socket = [a \in Attempts |-> "none"]
  /\ screen = [a \in Attempts |-> 0]

-----------------------------------------------------------------------------
(***************************************************************************)
(* transition: the phases, and what each keeps                             *)
(***************************************************************************)
Attached == {"initializing", "ready"}
Phases   == {"none", "idle", "connecting", "opening", "disconnected", "error"} \cup Attached

Moves == {
  <<"idle", "CONNECT", "connecting">>, <<"disconnected", "CONNECT", "connecting">>,
  <<"error", "CONNECT", "connecting">>,
  <<"connecting", "API_SUCCESS", "opening">>, <<"connecting", "API_ERROR", "error">>,
  <<"opening", "WS_OPENED", "initializing">>, <<"opening", "WS_ERROR", "error">>,
  <<"opening", "WS_CLOSED", "disconnected">>, <<"opening", "TIMEOUT", "error">>,
  <<"initializing", "FIRST_DATA", "ready">>, <<"initializing", "TIMEOUT", "disconnected">>,
  <<"initializing", "WS_CLOSED", "disconnected">>, <<"initializing", "WS_ERROR", "error">>,
  <<"ready", "WS_CLOSED", "disconnected">>, <<"ready", "WS_ERROR", "error">>}

\* FAULT: a socket that closes before the shell has spoken goes unnoticed.
AfterIgnoringEarlyClose(phase, event) ==
  LET to == {p \in Phases : <<phase, event, p>> \in Moves}
  IN  IF to = {} \/ (phase = "initializing" /\ event = "WS_CLOSED") THEN phase
      ELSE CHOOSE p \in to : TRUE

\* Events that mean nothing to the phase are ignored.
After(phase, event) ==
  LET to == {p \in Phases : <<phase, event, p>> \in Moves}
  IN  IF to = {} THEN phase ELSE CHOOSE p \in to : TRUE

\* FAULT: the terminal waits for the first connection that opens.
TransitionWithoutTerm(s, event, a) ==
  LET p     == After(s.phase, event)
      moved == p # s.phase
  IN  [s EXCEPT !.phase = p,
                !.term = IF s.phase = "error" /\ moved THEN 0
                         ELSE IF event = "WS_OPENED" /\ moved /\ @ = 0 THEN a ELSE @,
                !.ws = IF p \notin Attached THEN 0
                       ELSE IF event = "WS_OPENED" /\ moved THEN a ELSE @]

\* A reconnection after an error starts without a terminal; every other one keeps it.
Transition(s, event, a) ==
  LET p     == After(s.phase, event)
      moved == p # s.phase
  IN  [s EXCEPT !.phase = p,
                !.term = IF s.phase = "error" /\ moved THEN 0
                         ELSE IF event = "API_SUCCESS" /\ moved /\ @ = 0 THEN a ELSE @,
                !.ws = IF p \notin Attached THEN 0
                       ELSE IF event = "WS_OPENED" /\ moved THEN a ELSE @]

\* dispatch: a session that is gone hears nothing.
Dispatch(event, a) == session' = IF Exists THEN Transition(session, event, a) ELSE session

\* onmessage, onclose and onerror clear the timeout the session knows of.
Hear(event, a) ==
  /\ armed' = armed \ {session.timer}
  /\ session' = IF Exists THEN Transition([session EXCEPT !.timer = 0], event, a) ELSE session

-----------------------------------------------------------------------------
(***************************************************************************)
(* The user and the page                                                   *)
(***************************************************************************)
\* connectShell
OpenShell ==
  /\ ~Exists /\ session' = [NoSession EXCEPT !.phase = "idle"]
  /\ UNCHANGED <<call, socket, screen, armed, printed, strayed>>

\* The terminal view mounts and its container enters the cache.
Mount ==
  /\ Exists /\ ~session.container /\ session' = [session EXCEPT !.container = TRUE]
  /\ UNCHANGED <<call, socket, screen, armed, printed, strayed>>

\* connect, to where it awaits the exec call.
Connect(a) ==
  /\ session.container /\ ~session.isConnecting
  /\ call[a] = "none" /\ \A b \in 1..(a - 1) : call[b] # "none"
  /\ call' = [call EXCEPT ![a] = "asking"]
  /\ session' = [Transition(session, "CONNECT", a) EXCEPT !.isConnecting = TRUE]
  /\ UNCHANGED <<socket, screen, armed, printed, strayed>>

AutoConnect(a) == session.phase = "idle" /\ Connect(a)
Reconnect(a)   == session.phase \in {"disconnected", "error"} /\ Connect(a)

CloseSocket == [a \in Attempts |->
  IF a = session.ws /\ socket[a] = "open" THEN "closing" ELSE socket[a]]

\* FAULT: the session is told to disconnect, its socket is not.
DisconnectSessionOnly ==
  /\ session.phase \in Attached /\ socket[session.ws] = "open"
  /\ session' = [session EXCEPT !.phase = "disconnected", !.ws = 0]
  /\ UNCHANGED <<call, socket, screen, armed, printed, strayed>>

\* disconnectSession: the phase follows when the close event comes.
Disconnect ==
  /\ session.phase \in Attached /\ socket[session.ws] = "open"
  /\ socket' = CloseSocket
  /\ UNCHANGED <<session, call, screen, armed, printed, strayed>>

Live(a) == call[a] = "asking" \/ socket[a] \in {"connecting", "open", "closing"} \/ a \in armed
GiveUp  == session' = NoSession /\ strayed' = (strayed \/ \E a \in Attempts : Live(a))

\* removeShell forgets the session and nothing else.
Remove == Exists /\ GiveUp /\ UNCHANGED <<call, socket, screen, armed, printed>>

\* disconnectAll, when the user leaves the workflow.
Leave ==
  /\ Exists /\ GiveUp
  /\ socket' = CloseSocket /\ armed' = armed \ {session.timer}
  /\ UNCHANGED <<call, screen, printed>>

-----------------------------------------------------------------------------
(***************************************************************************)
(* Answers and events                                                      *)
(***************************************************************************)
Answered(a) == call[a] = "asking" /\ call' = [call EXCEPT ![a] = "over"]
Finally(s)  == [s EXCEPT !.isConnecting = FALSE]

\* FAULT: every connection gets a terminal of its own.
TerminalAlwaysNew(a) == a

\* The terminal of the session if it has one, else a new one.
Terminal(a) == IF session.term # 0 THEN session.term ELSE a

\* The rest of connect: a terminal, and a websocket that will write to it.
CallSucceeds(a) ==
  /\ Answered(a)
  /\ IF session.container
     THEN /\ session' = Finally(Transition(session, "API_SUCCESS", a))
          /\ socket' = [socket EXCEPT ![a] = "connecting"]
          /\ screen' = [screen EXCEPT ![a] = Terminal(a)]
     ELSE /\ session' = IF Exists THEN Finally(Transition(session, "API_ERROR", a)) ELSE session
          /\ UNCHANGED <<socket, screen>>
  /\ UNCHANGED <<armed, printed, strayed>>

CallFails(a) ==
  /\ Answered(a)
  /\ session' = IF Exists THEN Finally(Transition(session, "API_ERROR", a)) ELSE session
  /\ UNCHANGED <<socket, screen, armed, printed, strayed>>

\* FAULT: nobody waits for the shell to say something.
SocketOpensUntimed(a) ==
  /\ socket[a] = "connecting" /\ socket' = [socket EXCEPT ![a] = "open"]
  /\ Dispatch("WS_OPENED", a)
  /\ UNCHANGED <<call, screen, armed, printed, strayed>>

SocketOpens(a) ==
  /\ socket[a] = "connecting" /\ socket' = [socket EXCEPT ![a] = "open"]
  /\ armed' = armed \cup {a}
  /\ session' = IF Exists THEN [Transition(session, "WS_OPENED", a) EXCEPT !.timer = a] ELSE session
  /\ UNCHANGED <<call, screen, printed, strayed>>

\* A message is written to the terminal of its socket; the first ends the wait.
Message(a) ==
  /\ socket[a] = "open" /\ printed' = printed \cup {screen[a]}
  /\ \/ session.timer # 0 /\ Hear("FIRST_DATA", a)
     \/ session.timer = 0 /\ UNCHANGED <<session, armed>>
  /\ UNCHANGED <<call, socket, screen, strayed>>

SocketCloses(a) ==
  /\ socket[a] \in {"open", "closing"} /\ socket' = [socket EXCEPT ![a] = "closed"]
  /\ Hear("WS_CLOSED", a)
  /\ UNCHANGED <<call, screen, printed, strayed>>

\* The browser fires error and then close, which finds nothing left to do.
SocketFails(a) ==
  /\ socket[a] \in {"connecting", "open"} /\ socket' = [socket EXCEPT ![a] = "closed"]
  /\ Hear("WS_ERROR", a)
  /\ UNCHANGED <<call, screen, printed, strayed>>

\* The shell said nothing for five seconds.  Its socket stays open.
Timeout(a) ==
  /\ a \in armed /\ armed' = armed \ {a} /\ Dispatch("TIMEOUT", a)
  /\ strayed' = (strayed \/ session.phase = "initializing")
  /\ UNCHANGED <<call, socket, screen, printed>>

Answer(a) == CallSucceeds(a) \/ CallFails(a)
Resolve(a) == SocketOpens(a) \/ SocketFails(a)

ShellNext ==
  \/ OpenShell \/ Mount \/ Disconnect \/ Remove \/ Leave
  \/ \E a \in Attempts :
       \/ AutoConnect(a) \/ Reconnect(a) \/ Answer(a) \/ Resolve(a)
       \/ Message(a) \/ SocketCloses(a) \/ Timeout(a)

ShellSpec == ShellInit /\ [][ShellNext]_shellVars

\* Calls are answered or fail, the browser opens a socket or gives up, timeouts fire.
\* Nothing is assumed of the user or of the router.  An attempt takes few such steps,
\* so the others are not kept from theirs.
ShellProgress == \E a \in Attempts :
  Answer(a) \/ (socket[a] = "connecting" /\ Resolve(a)) \/ Timeout(a)
ShellFairSpec == ShellSpec /\ WF_shellVars(ShellProgress)

-----------------------------------------------------------------------------
(***************************************************************************)
(* Properties                                                              *)
(***************************************************************************)
Maybe0 == Attempts \cup {0}

\* Each phase has what the code takes it to have: a shell that is attached has a
\* socket, and from opening on there is a terminal.
ShellTypeOK ==
  /\ session \in [phase : Phases, term : Maybe0, ws : Maybe0, timer : Maybe0,
                  container : BOOLEAN, isConnecting : BOOLEAN]
  /\ session.ws # 0 <=> session.phase \in Attached
  /\ session.phase \in {"opening", "disconnected"} \cup Attached => session.term # 0
  /\ session.phase \in {"none", "idle"} => session.term = 0
  /\ ~Exists => session = NoSession
  /\ call \in [Attempts -> {"none", "asking", "over"}]
  /\ socket \in [Attempts -> {"none", "connecting", "open", "closing", "closed"}]
  /\ screen \in [Attempts -> Maybe0] /\ printed \subseteq Attempts
  /\ armed \subseteq Attempts /\ strayed \in BOOLEAN

\* What the user types reaches a socket that is open, or one the user has just
\* asked to close: no late event of another attempt attaches a dead one.
AttachedIsOpen == session.phase \in Attached => socket[session.ws] \in {"open", "closing"}

\* Until a session is given up, a task has one connection at most, and the session
\* shows it.
InUse(a) == socket[a] \in {"connecting", "open", "closing"}
OneConnection ==
  ~strayed => \A a \in Attempts : InUse(a) =>
    /\ \A b \in Attempts : InUse(b) => b = a
    /\ IF socket[a] = "connecting" THEN session.phase = "opening" ELSE session.ws = a

\* Until a session is given up, what a shell prints appears in the terminal that the
\* user sees and types into, reconnections included.
OutputIsOnShow ==
  ~strayed => \A a \in Attempts : InUse(a) => screen[a] = session.term

\* What a shell has printed stays on show as long as the session does: "Terminal
\* history preserved", "Reconnect: Preserves history" (task-shell.tsx).
KeepsHistory ==
  [][session.term \in printed /\ session'.phase # "none" => session'.term = session.term]_shellVars

\* Connecting comes to an end: a shell, or a phase that offers to connect again.
Settled == session.phase \in {"none", "idle", "ready", "disconnected", "error"}
ShellSettles == ~Settled ~> Settled

=============================================================================
