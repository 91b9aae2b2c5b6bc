---------------------------- MODULE MCClients ----------------------------
(***************************************************************************)
(* The machines on the far side of the service: the link of the backend    *)
(* worker and three machines of the web console.  They share no state, so  *)
(* a behaviour plays one of them and leaves the others as they start.      *)
(***************************************************************************)
EXTENDS BackendLink, PanelResize, ShellSession, LogStream

Days    == <<1, 2, 2, 1>>
Filters == {1..4, {2, 4}}

VARIABLE scene  \* the machine that is played

vars == <<scene, linkVars, panelVars, shellVars, streamVars>>

\* The machines that are not played start in one state.
Init ==
  /\ scene \in {"link", "panel", "shell", "log"}
  /\ LinkInit /\ PanelInit /\ ShellInit /\ StreamInit
  /\ scene = "panel" \/ stored = DefaultPct
  /\ scene = "log" \/ query = 1..4

Next ==
  /\ UNCHANGED scene
  /\ \/ scene = "link" /\ LinkNext /\ UNCHANGED <<panelVars, shellVars, streamVars>>
     \/ scene = "panel" /\ PanelNext /\ UNCHANGED <<linkVars, shellVars, streamVars>>
     \/ scene = "shell" /\ ShellNext /\ UNCHANGED <<linkVars, panelVars, streamVars>>
     \/ scene = "log" /\ StreamNext /\ UNCHANGED <<linkVars, panelVars, shellVars>>

\* Each machine is as fair as its own specification says.
Spec ==
  /\ Init /\ [][Next]_vars
  /\ WF_panelVars(scene = "panel" /\ PanelProgress)
  /\ WF_shellVars(scene = "shell" /\ ShellProgress)
  /\ WF_streamVars(scene = "log" /\ StreamProgress)
  /\ WF_streamVars(scene = "log" /\ Flush)
  /\ WF_streamVars(scene = "log" /\ Render)

=============================================================================
