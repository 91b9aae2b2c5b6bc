---------------------------- MODULE PanelResize ----------------------------
(***************************************************************************)
(* The side panel of the workflow page of the web console: the machine of  *)
(* PanelResizeStateMachine, the drag gesture that feeds it and the stored  *)
(* width it is restored from.                                              *)
(*                                                                         *)
(* Widths are percentages of the page.  Below StripThreshold the panel is  *)
(* collapsed to a strip of fixed pixels, whose percentage `strip` changes  *)
(* with the container; from FullStart on it covers the graph.              *)
(***************************************************************************)
EXTENDS Integers

CONSTANTS
  Strips,    \* the percentages a strip of 40 pixels can be
  Pointers,  \* the widths a pointer can ask for
  Kept,      \* the widths an earlier visit may have stored
  NoWidth    \* no width

StripThreshold == 20
FullStart      == 80
FullTarget     == 100
DefaultPct     == 60
DefaultStrip   == 2

\* The container is wider than 200 pixels.
ASSUME PanelAssumption ==
  /\ Strips \subseteq 1..(StripThreshold - 1) /\ DefaultStrip \in Strips
  /\ Pointers \subseteq 1..FullTarget /\ Kept \subseteq 1..FullTarget
  /\ NoWidth \notin Int

VARIABLES
  panel,     \* ResizeState
  strip,     \* stripSnapTargetPct, which is minPct as well
  frames,    \* animation frames until the layout is stable, 0: none requested
  timer,     \* the safety timeout of a snap is set
  stored,    \* the width in the local storage
  restored,  \* the stored width was restored since the page was loaded
  gesture,   \* the pointer is down on the handle
  batched    \* the width that waits for the next frame of the gesture

handle    == <<gesture, batched>>
panelVars == <<panel, strip, frames, timer, stored, restored, handle>>

Zone(w)      == IF w >= FullStart THEN "full" ELSE IF w < StripThreshold THEN "strip" ELSE "none"
Collapsed(w) == w < StripThreshold
Free(w)      == Zone(w) = "none"
Normal(w)    == IF Free(w) THEN w ELSE DefaultPct

Fresh == [phase |-> "IDLE", widthPct |-> DefaultPct, persistedPct |-> DefaultPct,
          snapZone |-> "none", snapTarget |-> NoWidth, dagVisible |-> TRUE,
          dragStartWidthPct |-> NoWidth]

PanelInit ==
  /\ panel = Fresh /\ strip = DefaultStrip /\ frames = 0 /\ timer = FALSE
  /\ stored \in Kept /\ restored = FALSE
  /\ gesture = FALSE /\ batched = NoWidth

-----------------------------------------------------------------------------
(***************************************************************************)
(* Mounting                                                                *)
(***************************************************************************)
\* restorePersistedState, once, before the user can touch the panel.
Restore ==
  LET shown == IF Collapsed(stored) THEN strip ELSE stored IN
  /\ ~restored /\ restored' = TRUE
  /\ panel' = IF stored = panel.widthPct THEN panel
              ELSE [panel EXCEPT !.phase = "IDLE", !.widthPct = shown,
                                 !.persistedPct = Normal(stored), !.dagVisible = shown < 100]
  /\ UNCHANGED <<strip, frames, timer, stored, handle>>

\* updateStripSnapTarget, by the ResizeObserver of the layout.
Measure(s) ==
  LET rests == panel.phase = "IDLE" /\ Collapsed(panel.widthPct) IN
  /\ s # strip /\ strip' = s
  /\ panel'  = IF rests THEN [panel EXCEPT !.widthPct = s] ELSE panel
  /\ stored' = IF rests THEN s ELSE stored
  /\ UNCHANGED <<frames, timer, restored, handle>>

\* The user leaves the page and comes back: the machine is disposed of, with its
\* frames and its timeout, and another is made.
Reload ==
  /\ restored /\ restored' = FALSE
  /\ panel' = Fresh /\ strip' = DefaultStrip /\ frames' = 0 /\ timer' = FALSE
  /\ gesture' = FALSE /\ batched' = NoWidth
  /\ UNCHANGED stored

-----------------------------------------------------------------------------
(***************************************************************************)
(* Dragging.  The gesture and the machine have phases of their own: a      *)
(* gesture that starts during an animation moves nothing.                  *)
(***************************************************************************)
GestureStart ==
  /\ restored /\ ~gesture /\ gesture' = TRUE
  /\ panel' = IF panel.phase # "IDLE" THEN panel
              ELSE [panel EXCEPT !.phase = "DRAGGING", !.dragStartWidthPct = panel.widthPct,
                                 !.snapZone = "none", !.snapTarget = NoWidth]
  /\ UNCHANGED <<strip, frames, timer, stored, restored, batched>>

\* The gesture batches what the pointer asks for.
PointerMove(w) ==
  /\ gesture /\ w # panel.widthPct /\ batched' = w
  /\ UNCHANGED <<panel, strip, frames, timer, stored, restored, gesture>>

\* updateDrag, in the next animation frame.
GestureFrame ==
  LET w == IF batched < strip THEN strip ELSE batched IN
  /\ batched # NoWidth /\ batched' = NoWidth
  /\ panel' = IF panel.phase # "DRAGGING" THEN panel
              ELSE [panel EXCEPT !.widthPct = w, !.snapZone = Zone(w), !.dagVisible = w < 100]
  /\ UNCHANGED <<strip, frames, timer, stored, restored, gesture>>

Settle(p) == panel' = [p EXCEPT !.phase = "SETTLING", !.snapZone = "none"] /\ frames' = 2

\* FAULT: the store learns of the new width, the machine forgets to.
SettleUnremembered ==
  /\ Settle([panel EXCEPT !.snapTarget = NoWidth])
  /\ stored' = panel.widthPct /\ UNCHANGED timer

\* FAULT: the width is not stored.
SettleUnsaved ==
  /\ Settle([panel EXCEPT !.persistedPct = Normal(panel.widthPct), !.snapTarget = NoWidth])
  /\ UNCHANGED <<stored, timer>>

SettleWithoutSnap ==
  /\ Settle([panel EXCEPT !.persistedPct = Normal(panel.widthPct), !.snapTarget = NoWidth])
  /\ stored' = panel.widthPct /\ UNCHANGED timer

\* FAULT: the width to come back to is where the pointer was let go.
SnapFromPointer(target, dag) ==
  LET p == [panel EXCEPT !.widthPct = target, !.snapTarget = target, !.dagVisible = dag,
                         !.persistedPct = panel.widthPct] IN
  IF panel.widthPct = target
  THEN Settle(p) /\ stored' = target /\ UNCHANGED timer
  ELSE panel' = [p EXCEPT !.phase = "SNAPPING"] /\ timer' = TRUE /\ UNCHANGED <<frames, stored>>

\* Released in a snap zone: the width to come back to is the one from before the drag.
Snap(target, dag) ==
  LET p == [panel EXCEPT !.widthPct = target, !.snapTarget = target, !.dagVisible = dag,
                         !.persistedPct = Normal(panel.dragStartWidthPct)] IN
  IF panel.widthPct = target
  THEN Settle(p) /\ stored' = target /\ UNCHANGED timer
  ELSE panel' = [p EXCEPT !.phase = "SNAPPING"] /\ timer' = TRUE /\ UNCHANGED <<frames, stored>>

EndDrag ==
  IF panel.snapZone = "full" \/ panel.widthPct >= FullTarget THEN Snap(FullTarget, FALSE)
  ELSE IF panel.snapZone = "strip" THEN Snap(strip, TRUE)
  ELSE SettleWithoutSnap

\* The pointer is released.  endDrag comes before the flush of the batched width,
\* which updateDrag then ignores.
GestureEnd ==
  /\ gesture /\ gesture' = FALSE /\ batched' = NoWidth
  /\ IF panel.phase = "DRAGGING" THEN EndDrag ELSE UNCHANGED <<panel, frames, timer, stored>>
  /\ UNCHANGED <<strip, restored>>

-----------------------------------------------------------------------------
(***************************************************************************)
(* Buttons, hotkeys and selections.  All of them animate, and only a panel *)
(* at rest follows them.                                                   *)
(***************************************************************************)
\* FAULT: the animation waits for its end and has no safety timeout.
AnimateUnguarded(target, remembered, dag) ==
  /\ restored /\ panel.phase = "IDLE"
  /\ panel' = [panel EXCEPT !.phase = "SNAPPING", !.widthPct = target, !.snapTarget = target,
                            !.persistedPct = remembered, !.dagVisible = dag]
  /\ stored' = target /\ timer' = FALSE
  /\ UNCHANGED <<strip, frames, restored, handle>>

AnimateTo(target, remembered, dag) ==
  /\ restored /\ panel.phase = "IDLE"
  /\ panel' = [panel EXCEPT !.phase = "SNAPPING", !.widthPct = target, !.snapTarget = target,
                            !.persistedPct = remembered, !.dagVisible = dag]
  /\ stored' = target /\ timer' = TRUE
  /\ UNCHANGED <<strip, frames, restored, handle>>

\* FAULT: the width to come back to is the one on show, whatever it is.
CollapseFromAnywhere ==
  ~Collapsed(panel.widthPct) /\ AnimateTo(strip, Normal(panel.widthPct), TRUE)

Collapse ==
  /\ ~Collapsed(panel.widthPct)
  /\ AnimateTo(strip, IF Free(panel.widthPct) THEN panel.widthPct ELSE panel.persistedPct, TRUE)

\* expand: a toggle, the selection of a task or the choice of a shell session.
Expand ==
  LET target == Normal(panel.persistedPct) IN
  Collapsed(panel.widthPct) /\ AnimateTo(target, target, TRUE)

HideDAG == panel.dagVisible /\ AnimateTo(FullTarget, panel.persistedPct, FALSE)
ShowDAG == LET target == Normal(panel.persistedPct) IN
           ~panel.dagVisible /\ AnimateTo(target, target, TRUE)

-----------------------------------------------------------------------------
(***************************************************************************)
(* The end of an animation                                                 *)
(***************************************************************************)
CompleteSnap ==
  /\ panel.phase = "SNAPPING"
  /\ Settle([panel EXCEPT !.snapTarget = NoWidth])
  /\ stored' = IF panel.snapTarget = NoWidth THEN panel.widthPct ELSE panel.snapTarget
  /\ timer' = FALSE /\ UNCHANGED <<strip, restored, handle>>

\* onTransitionComplete.  The browser may never say so.
TransitionEnds == CompleteSnap
SafetyTimeout  == timer /\ CompleteSnap

\* The two frames of scheduleLayoutStable.
Frame ==
  /\ frames > 0 /\ frames' = frames - 1
  /\ panel' = IF frames > 1 THEN panel
              ELSE [panel EXCEPT !.phase = "IDLE", !.dragStartWidthPct = NoWidth]
  /\ UNCHANGED <<strip, timer, stored, restored, handle>>

PanelNext ==
  \/ Restore \/ Reload \/ \E s \in Strips : Measure(s)
  \/ GestureStart \/ GestureFrame \/ GestureEnd \/ \E w \in Pointers : PointerMove(w)
  \/ Collapse \/ Expand \/ HideDAG \/ ShowDAG
  \/ TransitionEnds \/ SafetyTimeout \/ Frame

PanelSpec == PanelInit /\ [][PanelNext]_panelVars

\* Browsers paint frames and run timeouts.
PanelProgress == SafetyTimeout \/ Frame
PanelFairSpec == PanelSpec /\ WF_panelVars(PanelProgress)

-----------------------------------------------------------------------------
(***************************************************************************)
(* Properties                                                              *)
(***************************************************************************)
Widths == 1..FullTarget
Maybe(S) == S \cup {NoWidth}

ResizeState == [phase : {"IDLE", "DRAGGING", "SNAPPING", "SETTLING"}, widthPct : Widths,
                persistedPct : {w \in Widths : Free(w)}, snapZone : {"none", "strip", "full"},
                snapTarget : Maybe(Widths), dagVisible : BOOLEAN,
                dragStartWidthPct : Maybe(Widths)]

\* The width on show never leaves the page, and the width to come back to is a
\* usable one.
PanelTypeOK ==
  /\ panel \in ResizeState
  /\ panel.phase = "DRAGGING" => panel.dragStartWidthPct \in Widths
  /\ strip \in Strips /\ frames \in 0..2 /\ timer \in BOOLEAN
  /\ stored \in Widths /\ restored \in BOOLEAN
  /\ gesture \in BOOLEAN /\ batched \in Maybe(Pointers)

\* At rest in the free zone the panel shows the width it remembers, so hiding the
\* graph or collapsing the panel and undoing it comes back to the same width.
RemembersWidth ==
  panel.phase = "IDLE" /\ Free(panel.widthPct) => panel.persistedPct = panel.widthPct

\* What is remembered changes only by a drag: no button, no animation, no resize
\* of the window and no timeout loses it.
OnlyDragsForget ==
  [][restored /\ restored' /\ panel.phase # "DRAGGING"
       => panel'.persistedPct = panel.persistedPct]_panelVars

\* At rest the stored width is the one on show, or both are a strip, so a reload
\* shows the panel as it was left.
StoreFollowsWidth ==
  restored /\ panel.phase = "IDLE" =>
    \/ stored = panel.widthPct
    \/ Collapsed(stored) /\ Collapsed(panel.widthPct)

\* Every animation comes to rest, even when the browser never reports its end.
PanelComesToRest == panel.phase \in {"SNAPPING", "SETTLING"} ~> panel.phase = "IDLE"

=============================================================================
