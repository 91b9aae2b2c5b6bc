--------------------------- MODULE ConsoleProofs ---------------------------
(***************************************************************************)
(* Proofs about the three machines of the web console, which share no      *)
(* state.  PanelResize: for every set of strips, pointers and stored       *)
(* widths, with the thresholds of the code.  ShellSession: for any number  *)
(* of attempts to connect.  LogStream: for a log of any length, any bound  *)
(* on what is kept and any filters, what is on show is one piece of one    *)
(* connection's log, a complete stream shows the end of the log, and the   *)
(* list that is patched is the list that would be built anew.              *)
(***************************************************************************)
EXTENDS PanelResize, ShellSession, LogStream, SequenceTheorems, WellFoundedInduction, TLAPS

-----------------------------------------------------------------------------
(***************************************************************************)
(* The panel: its invariant                                                *)
(***************************************************************************)
\* Before the stored width is restored nothing has happened to the machine.
Untouched == ~restored => panel = Fresh /\ frames = 0

\* The phases agree with what they wait for.
Awaited ==
  /\ panel.phase = "SETTLING" <=> frames > 0
  /\ panel.phase = "SNAPPING" => panel.snapTarget = panel.widthPct

\* Only while it is dragged does a panel show a free width it does not remember.
Remembered ==
  panel.phase # "DRAGGING" /\ Free(panel.widthPct) => panel.persistedPct = panel.widthPct

\* The store is behind only while the panel is dragged or animated.
Followed ==
  restored /\ panel.phase \in {"IDLE", "SETTLING"} =>
    \/ stored = panel.widthPct
    \/ Collapsed(stored) /\ Collapsed(panel.widthPct)

PanelInv == PanelTypeOK /\ Untouched /\ Awaited /\ Remembered /\ Followed

-----------------------------------------------------------------------------
(***************************************************************************)
(* The panel: widths                                                       *)
(***************************************************************************)
\* A strip is collapsed, the full width and a collapsed one are not free, and what is
\* normalised is a free width.
LEMMA WidthFacts ==
  /\ \A s \in Strips : s \in Widths /\ Collapsed(s) /\ ~Free(s)
  /\ FullTarget \in Widths /\ ~Free(FullTarget) /\ ~Collapsed(FullTarget)
  /\ \A w \in Widths : Normal(w) \in Widths /\ Free(Normal(w)) /\ (Free(w) => Normal(w) = w)
  /\ \A w \in Widths : Free(w) => ~Collapsed(w)
  /\ DefaultPct \in Widths /\ Free(DefaultPct) /\ DefaultStrip \in Strips
BY PanelAssumption DEF Widths, Collapsed, Free, Zone, Normal, StripThreshold, FullStart,
   FullTarget, DefaultPct

-----------------------------------------------------------------------------
(***************************************************************************)
(* The panel: types                                                        *)
(***************************************************************************)
\* The part of the types that a step of the machine may disturb.
MachineOK ==
  /\ panel \in ResizeState /\ (panel.phase = "DRAGGING" => panel.dragStartWidthPct \in Widths)
  /\ frames \in 0..2 /\ stored \in Widths
ScalarsOK == strip \in Strips /\ batched \in Maybe(Pointers)
FlagsOK   == timer \in BOOLEAN /\ restored \in BOOLEAN /\ gesture \in BOOLEAN

LEMMA TypeParts == PanelTypeOK <=> MachineOK /\ ScalarsOK /\ FlagsOK
BY DEF PanelTypeOK, MachineOK, ScalarsOK, FlagsOK

\* A panel that settles, as all animations and drags do.
LEMMA SettleTypes ==
  ASSUME NEW p \in ResizeState, Settle(p), stored' \in Widths PROVE MachineOK'
<1>1. panel' \in ResizeState /\ panel'.phase = "SETTLING"
  BY DEF Settle, ResizeState
<1>2. frames' \in 0..2
  BY DEF Settle
<1> QED
  BY <1>1, <1>2 DEF MachineOK

LEMMA AnimateTypes ==
  ASSUME NEW t \in Widths, NEW r \in Widths, NEW d \in BOOLEAN, Free(r), MachineOK,
         AnimateTo(t, r, d)
  PROVE  MachineOK'
BY DEF AnimateTo, MachineOK, ResizeState, Maybe

LEMMA SnapTypes ==
  ASSUME NEW t \in Widths, NEW d \in BOOLEAN, MachineOK, panel.phase = "DRAGGING", Snap(t, d)
  PROVE  MachineOK'
<1> DEFINE p == [panel EXCEPT !.widthPct = t, !.snapTarget = t, !.dagVisible = d,
                              !.persistedPct = Normal(panel.dragStartWidthPct)]
<1>1. p \in ResizeState
  BY WidthFacts DEF MachineOK, ResizeState, Maybe
<1>2. CASE panel.widthPct = t
  BY <1>1, <1>2, SettleTypes DEF Snap
<1>3. CASE panel.widthPct # t
  BY <1>1, <1>3 DEF Snap, MachineOK, ResizeState
<1> QED
  BY <1>2, <1>3

LEMMA MachineTypes == MachineOK /\ ScalarsOK /\ [PanelNext]_panelVars => MachineOK'
<1> SUFFICES ASSUME MachineOK, ScalarsOK, [PanelNext]_panelVars PROVE MachineOK'
  OBVIOUS
<1>1. CASE Restore
  <2> DEFINE width == IF Collapsed(stored) THEN strip ELSE stored
  <2>1. width \in Widths /\ Normal(stored) \in Widths /\ Free(Normal(stored))
    BY WidthFacts DEF MachineOK, ScalarsOK
  <2>2. (width < 100) \in BOOLEAN
    OBVIOUS
  <2> HIDE DEF width
  <2>3. [panel EXCEPT !.phase = "IDLE", !.widthPct = width, !.persistedPct = Normal(stored),
                      !.dagVisible = width < 100] \in ResizeState
    BY <2>1, <2>2, ZenonT(60) DEF MachineOK, ResizeState
  <2> USE DEF width
  <2>4. panel' \in ResizeState /\ (panel'.phase = "DRAGGING" => panel'.dragStartWidthPct \in Widths)
    BY <1>1, <2>3 DEF Restore, MachineOK, ResizeState
  <2> QED
    BY <1>1, <2>4 DEF Restore, MachineOK
<1>2. ASSUME NEW s \in Strips, Measure(s) PROVE MachineOK'
  BY <1>2, WidthFacts DEF Measure, MachineOK, ResizeState
<1>3. CASE Reload
  BY <1>3, WidthFacts DEF Reload, MachineOK, ResizeState, Fresh, Maybe
<1>4. CASE GestureStart
  BY <1>4 DEF GestureStart, MachineOK, ResizeState, Maybe
<1>5. CASE \E w \in Pointers : PointerMove(w)
  BY <1>5 DEF PointerMove, MachineOK
<1>6. CASE GestureFrame
  <2> DEFINE w == IF batched < strip THEN strip ELSE batched
  <2>1. w \in Widths
    BY <1>6, WidthFacts, PanelAssumption DEF GestureFrame, ScalarsOK, Maybe, Widths, FullTarget
  <2>2. Zone(w) \in {"none", "strip", "full"} /\ (w < 100) \in BOOLEAN
    BY DEF Zone
  <2> HIDE DEF w
  <2>3. [panel EXCEPT !.widthPct = w, !.snapZone = Zone(w), !.dagVisible = w < 100] \in ResizeState
    BY <2>1, <2>2 DEF MachineOK, ResizeState
  <2> USE DEF w
  <2>4. panel' \in ResizeState /\ (panel'.phase = "DRAGGING" => panel'.dragStartWidthPct \in Widths)
    BY <1>6, <2>3 DEF GestureFrame, MachineOK, ResizeState
  <2> QED
    BY <1>6, <2>4 DEF GestureFrame, MachineOK
<1>7. CASE GestureEnd
  <2>1. CASE panel.phase # "DRAGGING"
    BY <1>7, <2>1 DEF GestureEnd, MachineOK
  <2>2. CASE panel.phase = "DRAGGING" /\ SettleWithoutSnap
    <3> DEFINE p == [panel EXCEPT !.persistedPct = Normal(panel.widthPct), !.snapTarget = NoWidth]
    <3>1. p \in ResizeState
      BY WidthFacts DEF MachineOK, ResizeState, Maybe
    <3> QED
      BY <2>2, <3>1, SettleTypes DEF SettleWithoutSnap, MachineOK, ResizeState
  <2>3. CASE panel.phase = "DRAGGING" /\ (Snap(FullTarget, FALSE) \/ Snap(strip, TRUE))
    BY <2>3, SnapTypes, WidthFacts DEF ScalarsOK
  <2> QED
    BY <1>7, <2>1, <2>2, <2>3 DEF GestureEnd, EndDrag
<1>8. CASE Collapse
  BY <1>8, AnimateTypes, WidthFacts DEF Collapse, MachineOK, ScalarsOK, ResizeState
<1>9. CASE Expand \/ ShowDAG
  BY <1>9, AnimateTypes, WidthFacts DEF Expand, ShowDAG, MachineOK, ResizeState
<1>10. CASE HideDAG
  BY <1>10, AnimateTypes, WidthFacts DEF HideDAG, MachineOK, ResizeState
<1>11. CASE CompleteSnap
  <2>1. [panel EXCEPT !.snapTarget = NoWidth] \in ResizeState
    BY DEF MachineOK, ResizeState, Maybe
  <2> QED
    BY <1>11, <2>1, SettleTypes DEF CompleteSnap, MachineOK, ResizeState, Maybe
<1>12. CASE Frame
  <2>1. panel' \in ResizeState /\ (panel'.phase = "DRAGGING" => panel'.dragStartWidthPct \in Widths)
    BY <1>12 DEF Frame, MachineOK, ResizeState, Maybe
  <2>2. frames' \in 0..2
    BY <1>12 DEF Frame, MachineOK
  <2> QED
    BY <1>12, <2>1, <2>2 DEF Frame, MachineOK
<1>13. CASE UNCHANGED panelVars
  BY <1>13 DEF panelVars, MachineOK
<1> QED
  BY <1>1, <1>2, <1>3, <1>4, <1>5, <1>6, <1>7, <1>8, <1>9, <1>10, <1>11, <1>12, <1>13
  DEF PanelNext, TransitionEnds, SafetyTimeout

LEMMA ScalarTypes == ScalarsOK /\ FlagsOK /\ [PanelNext]_panelVars => ScalarsOK' /\ FlagsOK'
<1> SUFFICES ASSUME ScalarsOK, FlagsOK, [PanelNext]_panelVars PROVE ScalarsOK' /\ FlagsOK'
  OBVIOUS
<1>1. CASE Restore \/ Reload \/ GestureStart \/ GestureFrame
  BY <1>1, WidthFacts
  DEF Restore, Reload, GestureStart, GestureFrame, ScalarsOK, FlagsOK, Maybe, handle
<1>2. CASE (\E s \in Strips : Measure(s)) \/ (\E w \in Pointers : PointerMove(w))
  BY <1>2 DEF Measure, PointerMove, ScalarsOK, FlagsOK, Maybe, handle
<1>3. CASE GestureEnd
  BY <1>3 DEF GestureEnd, EndDrag, Snap, Settle, SettleWithoutSnap, ScalarsOK, FlagsOK, Maybe
<1>4. CASE Collapse \/ Expand \/ HideDAG \/ ShowDAG
  BY <1>4 DEF Collapse, Expand, HideDAG, ShowDAG, AnimateTo, ScalarsOK, FlagsOK, handle
<1>5. CASE CompleteSnap \/ Frame
  BY <1>5 DEF CompleteSnap, Frame, ScalarsOK, FlagsOK, handle
<1>6. CASE UNCHANGED panelVars
  BY <1>6 DEF panelVars, handle, ScalarsOK, FlagsOK
<1> QED
  BY <1>1, <1>2, <1>3, <1>4, <1>5, <1>6 DEF PanelNext, TransitionEnds, SafetyTimeout

-----------------------------------------------------------------------------
(***************************************************************************)
(* The panel: the rest of its invariant                                    *)
(***************************************************************************)
\* A gesture that ends outside of a drag changes nothing; a drag settles where it is,
\* or snaps to the full width or to a strip, at once or in an animation.
LEMMA GestureEndFacts ==
  ASSUME MachineOK, GestureEnd
  PROVE  /\ restored' = restored
         /\ \/ panel.phase # "DRAGGING" /\ UNCHANGED <<panel, frames, stored>>
            \/ /\ panel.phase = "DRAGGING" /\ panel'.phase = "SETTLING" /\ frames' = 2
               /\ panel'.widthPct = panel.widthPct /\ stored' = panel.widthPct
               /\ panel'.persistedPct = Normal(panel.widthPct)
            \/ /\ panel.phase = "DRAGGING" /\ panel'.phase = "SETTLING" /\ frames' = 2
               /\ panel'.widthPct \in {FullTarget, strip} /\ stored' = panel'.widthPct
            \/ /\ panel.phase = "DRAGGING" /\ panel'.phase = "SNAPPING" /\ frames' = frames
               /\ panel'.widthPct \in {FullTarget, strip}
               /\ panel'.snapTarget = panel'.widthPct
<1>1. CASE panel.phase # "DRAGGING"
  BY <1>1 DEF GestureEnd
<1>2. CASE panel.phase = "DRAGGING" /\ SettleWithoutSnap
  BY <1>2 DEF GestureEnd, SettleWithoutSnap, Settle, MachineOK, ResizeState
<1>3. ASSUME NEW t \in {FullTarget, strip}, NEW d \in BOOLEAN, Snap(t, d)
      PROVE  \/ /\ panel'.phase = "SETTLING" /\ frames' = 2
                /\ panel'.widthPct = t /\ stored' = t
             \/ /\ panel'.phase = "SNAPPING" /\ frames' = frames
                /\ panel'.widthPct = t /\ panel'.snapTarget = t
  BY <1>3 DEF Snap, Settle, MachineOK, ResizeState
<1> QED
  BY <1>1, <1>2, <1>3 DEF GestureEnd, EndDrag

LEMMA UntouchedStays ==
  MachineOK /\ Untouched /\ Awaited /\ [PanelNext]_panelVars => Untouched'
<1> SUFFICES ASSUME MachineOK, Untouched, Awaited, [PanelNext]_panelVars PROVE Untouched'
  OBVIOUS
<1>1. CASE Restore \/ Reload
  BY <1>1 DEF Restore, Reload, Untouched
<1>2. ASSUME NEW s \in Strips, Measure(s) PROVE Untouched'
  <2>1. CASE ~restored
    <3>1. ~Collapsed(panel.widthPct)
      BY <2>1, WidthFacts DEF Untouched, Fresh
    <3> QED
      BY <1>2, <2>1, <3>1 DEF Measure, Untouched
  <2> QED
    BY <1>2, <2>1 DEF Measure, Untouched
<1>3. CASE GestureStart \/ GestureFrame \/ \E w \in Pointers : PointerMove(w)
  BY <1>3 DEF GestureStart, GestureFrame, PointerMove, Untouched, Fresh
<1>4. CASE GestureEnd
  BY <1>4 DEF GestureEnd, Untouched, Fresh
<1>5. CASE Collapse \/ Expand \/ HideDAG \/ ShowDAG
  BY <1>5 DEF Collapse, Expand, HideDAG, ShowDAG, AnimateTo, Untouched
<1>6. CASE CompleteSnap
  BY <1>6 DEF CompleteSnap, Untouched, Fresh
<1>7. CASE Frame
  BY <1>7 DEF Frame, Untouched
<1>8. CASE UNCHANGED panelVars
  BY <1>8 DEF panelVars, Untouched
<1> QED
  BY <1>1, <1>2, <1>3, <1>4, <1>5, <1>6, <1>7, <1>8 DEF PanelNext, TransitionEnds, SafetyTimeout

LEMMA AwaitedStays ==
  MachineOK /\ Untouched /\ Awaited /\ [PanelNext]_panelVars => Awaited'
<1> SUFFICES ASSUME MachineOK, Untouched, Awaited, [PanelNext]_panelVars PROVE Awaited'
  OBVIOUS
<1>1. CASE Restore
  BY <1>1 DEF Restore, MachineOK, ResizeState, Untouched, Awaited, Fresh
<1>2. ASSUME NEW s \in Strips, Measure(s) PROVE Awaited'
  BY <1>2 DEF Measure, MachineOK, ResizeState, Awaited
<1>3. CASE Reload
  BY <1>3 DEF Reload, Awaited, Fresh
<1>4. CASE GestureStart \/ GestureFrame \/ \E w \in Pointers : PointerMove(w)
  BY <1>4 DEF GestureStart, GestureFrame, PointerMove, MachineOK, ResizeState, Awaited
<1>5. CASE GestureEnd
  BY <1>5, GestureEndFacts DEF Awaited
<1>6. CASE Collapse \/ Expand \/ HideDAG \/ ShowDAG
  BY <1>6, ZenonT(60) DEF Collapse, Expand, HideDAG, ShowDAG, AnimateTo, MachineOK, ResizeState, Awaited
<1>7. CASE CompleteSnap
  BY <1>7 DEF CompleteSnap, Settle, MachineOK, ResizeState, Awaited
<1>8. CASE Frame
  BY <1>8 DEF Frame, MachineOK, ResizeState, Awaited
<1>9. CASE UNCHANGED panelVars
  BY <1>9 DEF panelVars, Awaited
<1> QED
  BY <1>1, <1>2, <1>3, <1>4, <1>5, <1>6, <1>7, <1>8, <1>9
  DEF PanelNext, TransitionEnds, SafetyTimeout

\* A drag and an animation leave a panel that remembers the free width it shows.
LEMMA RememberedStays ==
  MachineOK /\ ScalarsOK /\ Awaited /\ Remembered /\ [PanelNext]_panelVars => Remembered'
<1> SUFFICES ASSUME MachineOK, ScalarsOK, Awaited, Remembered, [PanelNext]_panelVars
             PROVE  Remembered'
  OBVIOUS
<1>1. CASE Restore
  BY <1>1, WidthFacts DEF Restore, MachineOK, ScalarsOK, ResizeState, Remembered
<1>2. ASSUME NEW s \in Strips, Measure(s) PROVE Remembered'
  BY <1>2, WidthFacts DEF Measure, MachineOK, ResizeState, Remembered
<1>3. CASE Reload
  BY <1>3 DEF Reload, Remembered, Fresh
<1>4. CASE GestureStart \/ GestureFrame \/ \E w \in Pointers : PointerMove(w)
  BY <1>4 DEF GestureStart, GestureFrame, PointerMove, MachineOK, ResizeState, Remembered
<1>5. CASE GestureEnd
  <2>1. panel.widthPct \in Widths
    BY DEF MachineOK, ResizeState
  <2> QED
    BY <1>5, <2>1, GestureEndFacts, WidthFacts DEF ScalarsOK, Remembered
<1>6. CASE Collapse
  BY <1>6, WidthFacts DEF Collapse, AnimateTo, MachineOK, ScalarsOK, ResizeState, Remembered
<1>7. CASE Expand \/ ShowDAG
  BY <1>7, ZenonT(60) DEF Expand, ShowDAG, AnimateTo, MachineOK, ResizeState, Remembered
<1>8. CASE HideDAG
  BY <1>8, WidthFacts DEF HideDAG, AnimateTo, MachineOK, ResizeState, Remembered
<1>9. CASE CompleteSnap
  BY <1>9 DEF CompleteSnap, Settle, MachineOK, ResizeState, Remembered
<1>10. CASE Frame
  <2>1. panel' = panel \/ panel' = [panel EXCEPT !.phase = "IDLE", !.dragStartWidthPct = NoWidth]
    BY <1>10 DEF Frame
  <2>2. panel.phase = "SETTLING"
    BY <1>10 DEF Frame, Awaited
  <2> QED
    BY <2>1, <2>2 DEF MachineOK, ResizeState, Remembered
<1>11. CASE UNCHANGED panelVars
  BY <1>11 DEF panelVars, Remembered
<1> QED
  BY <1>1, <1>2, <1>3, <1>4, <1>5, <1>6, <1>7, <1>8, <1>9, <1>10, <1>11
  DEF PanelNext, TransitionEnds, SafetyTimeout

\* What is stored is what is shown once the panel settles, and stays so at rest.
LEMMA FollowedStays ==
  MachineOK /\ ScalarsOK /\ Untouched /\ Awaited /\ Followed /\ [PanelNext]_panelVars => Followed'
<1> SUFFICES ASSUME MachineOK, ScalarsOK, Untouched, Awaited, Followed, [PanelNext]_panelVars
             PROVE  Followed'
  OBVIOUS
<1>1. CASE Restore
  BY <1>1, WidthFacts DEF Restore, MachineOK, ScalarsOK, ResizeState, Followed
<1>2. ASSUME NEW s \in Strips, Measure(s) PROVE Followed'
  BY <1>2, WidthFacts DEF Measure, MachineOK, ResizeState, Followed
<1>3. CASE Reload
  BY <1>3 DEF Reload, Followed
<1>4. CASE GestureStart \/ GestureFrame \/ \E w \in Pointers : PointerMove(w)
  BY <1>4 DEF GestureStart, GestureFrame, PointerMove, MachineOK, ResizeState, Followed
<1>5. CASE GestureEnd
  BY <1>5, GestureEndFacts DEF Followed
<1>6. CASE Collapse \/ Expand \/ HideDAG \/ ShowDAG
  BY <1>6 DEF Collapse, Expand, HideDAG, ShowDAG, AnimateTo, MachineOK, ResizeState, Followed
<1>7. CASE CompleteSnap
  BY <1>7 DEF CompleteSnap, Settle, MachineOK, ResizeState, Awaited, Followed
<1>8. CASE Frame
  BY <1>8 DEF Frame, MachineOK, ResizeState, Awaited, Followed
<1>9. CASE UNCHANGED panelVars
  BY <1>9 DEF panelVars, Followed
<1> QED
  BY <1>1, <1>2, <1>3, <1>4, <1>5, <1>6, <1>7, <1>8, <1>9
  DEF PanelNext, TransitionEnds, SafetyTimeout

-----------------------------------------------------------------------------
(***************************************************************************)
(* The panel: its theorems                                                 *)
(***************************************************************************)
LEMMA PanelInvariant == PanelSpec => []PanelInv
<1>1. PanelInit => PanelInv
  <2> SUFFICES ASSUME PanelInit PROVE PanelInv
    OBVIOUS
  <2>1. Fresh \in ResizeState
    BY WidthFacts DEF Fresh, ResizeState, Maybe
  <2>2. stored \in Widths
    BY PanelAssumption DEF PanelInit, Widths, FullTarget
  <2>3. MachineOK
    BY <2>1, <2>2 DEF PanelInit, MachineOK, Fresh
  <2>4. ScalarsOK /\ FlagsOK
    BY WidthFacts DEF PanelInit, ScalarsOK, FlagsOK, Maybe
  <2>5. Untouched /\ Awaited /\ Followed
    BY DEF PanelInit, Untouched, Awaited, Followed, Fresh
  <2>6. Remembered
    BY DEF PanelInit, Remembered, Fresh
  <2> QED
    BY <2>3, <2>4, <2>5, <2>6, TypeParts DEF PanelInv
<1>2. PanelInv /\ [PanelNext]_panelVars => PanelInv'
  <2> SUFFICES ASSUME PanelInv, [PanelNext]_panelVars PROVE PanelInv'
    OBVIOUS
  <2>1. MachineOK /\ ScalarsOK /\ FlagsOK
    BY TypeParts DEF PanelInv
  <2>2. MachineOK' /\ ScalarsOK' /\ FlagsOK'
    BY <2>1, MachineTypes, ScalarTypes
  <2>3. PanelTypeOK'
    BY <2>2 DEF PanelTypeOK, MachineOK, ScalarsOK, FlagsOK
  <2>4. Untouched' /\ Awaited' /\ Remembered' /\ Followed'
    BY <2>1, UntouchedStays, AwaitedStays, RememberedStays, FollowedStays DEF PanelInv
  <2> QED
    BY <2>3, <2>4 DEF PanelInv
<1> QED
  BY <1>1, <1>2, PTL DEF PanelSpec

\* Widths and phases keep their types: the width to come back to is always a free one.
THEOREM PanelTypeCorrect == PanelSpec => []PanelTypeOK
<1>1. PanelInv => PanelTypeOK
  BY DEF PanelInv
<1> QED
  BY <1>1, PanelInvariant, PTL

\* A panel at rest in the free zone remembers the width it shows.
THEOREM PanelRemembers == PanelSpec => []RemembersWidth
<1>1. PanelInv => RemembersWidth
  BY DEF PanelInv, Remembered, RemembersWidth
<1> QED
  BY <1>1, PanelInvariant, PTL

\* What is stored is what a panel at rest shows.
THEOREM PanelStores == PanelSpec => []StoreFollowsWidth
<1>1. PanelInv => StoreFollowsWidth
  BY DEF PanelInv, Followed, StoreFollowsWidth
<1> QED
  BY <1>1, PanelInvariant, PTL

\* Only a drag changes what a restored panel remembers.
THEOREM PanelForgetsByDrags == PanelSpec => OnlyDragsForget
<1>1. ASSUME PanelInv, PanelNext, restored, restored', panel.phase # "DRAGGING"
      PROVE  panel'.persistedPct = panel.persistedPct
  <2>1. MachineOK /\ Remembered
    BY <1>1, TypeParts DEF PanelInv
  <2>2. panel.persistedPct \in Widths /\ Normal(panel.persistedPct) = panel.persistedPct
    BY <2>1, WidthFacts DEF MachineOK, ResizeState
  <2>3. CASE Restore \/ Reload
    BY <1>1, <2>3 DEF Restore, Reload
  <2>4. ASSUME NEW s \in Strips, Measure(s) PROVE panel'.persistedPct = panel.persistedPct
    BY <2>1, <2>4 DEF Measure, MachineOK, ResizeState
  <2>5. CASE GestureStart \/ GestureFrame \/ \E w \in Pointers : PointerMove(w)
    BY <2>1, <2>5 DEF GestureStart, GestureFrame, PointerMove, MachineOK, ResizeState
  <2>6. CASE GestureEnd
    BY <1>1, <2>1, <2>6, GestureEndFacts
  <2>7. CASE Collapse
    BY <2>1, <2>7 DEF Collapse, AnimateTo, MachineOK, ResizeState, Remembered
  <2>8. CASE Expand \/ HideDAG \/ ShowDAG
    BY <2>1, <2>2, <2>8 DEF Expand, HideDAG, ShowDAG, AnimateTo, MachineOK, ResizeState
  <2>9. CASE CompleteSnap
    BY <2>1, <2>9 DEF CompleteSnap, Settle, MachineOK, ResizeState
  <2>10. CASE Frame
    BY <2>1, <2>10 DEF Frame, MachineOK, ResizeState
  <2> QED
    BY <1>1, <2>3, <2>4, <2>5, <2>6, <2>7, <2>8, <2>9, <2>10
    DEF PanelNext, TransitionEnds, SafetyTimeout
<1>2. PanelInv /\ [PanelNext]_panelVars =>
        [restored /\ restored' /\ panel.phase # "DRAGGING"
           => panel'.persistedPct = panel.persistedPct]_panelVars
  BY <1>1
<1> QED
  BY <1>2, PanelInvariant, PTL DEF PanelSpec, OnlyDragsForget

-----------------------------------------------------------------------------
(***************************************************************************)
(* The shell: its phases                                                   *)
(***************************************************************************)
\* A phase and an event leave no choice.
LEMMA MovesAreFunctional ==
  ASSUME NEW ph, NEW e, NEW p, NEW q, <<ph, e, p>> \in Moves, <<ph, e, q>> \in Moves
  PROVE  p = q
BY DEF Moves

LEMMA MovesArePhases ==
  ASSUME NEW ph, NEW e, NEW p, <<ph, e, p>> \in Moves PROVE p \in Phases \ {"none", "idle"}
BY DEF Moves, Phases, Attached

LEMMA AfterMoves ==
  ASSUME NEW ph, NEW e, NEW p, <<ph, e, p>> \in Moves PROVE After(ph, e) = p
<1>1. {q \in Phases : <<ph, e, q>> \in Moves} = {p}
  BY MovesAreFunctional, MovesArePhases
<1> QED
  BY <1>1 DEF After

LEMMA AfterStays ==
  ASSUME NEW ph, NEW e, \A p \in Phases : <<ph, e, p>> \notin Moves PROVE After(ph, e) = ph
BY DEF After

LEMMA AfterChoice ==
  ASSUME NEW ph \in Phases, NEW e
  PROVE  After(ph, e) = ph \/ <<ph, e, After(ph, e)>> \in Moves
<1>1. CASE \E p \in Phases : <<ph, e, p>> \in Moves
  BY <1>1, AfterMoves
<1>2. CASE \A p \in Phases : <<ph, e, p>> \notin Moves
  BY <1>2, AfterStays
<1> QED
  BY <1>1, <1>2

\* How the phases are entered.
LEMMA AfterFacts ==
  ASSUME NEW ph \in Phases, NEW e, After(ph, e) # ph
  PROVE  LET p == After(ph, e) IN
         /\ p \in Phases \ {"none", "idle"} /\ ph # "none"
         /\ p \in Attached => \/ e = "WS_OPENED" /\ ph = "opening" /\ p = "initializing"
                              \/ e # "WS_OPENED" /\ ph = "initializing" /\ p = "ready"
         /\ e = "WS_OPENED" => p \in Attached
         /\ p = "opening" <=> e = "API_SUCCESS"
         /\ p = "disconnected" => ph \in {"opening"} \cup Attached
         /\ p = "connecting" <=> e = "CONNECT"
         /\ ph = "error" => p = "connecting"
BY AfterChoice DEF Moves, Phases, Attached

\* What ends an attachment.
LEMMA AfterEnds ==
  ASSUME NEW ph \in Attached, NEW e \in {"WS_CLOSED", "WS_ERROR"}
  PROVE  After(ph, e) \notin Attached
<1>1. <<ph, e, IF e = "WS_CLOSED" THEN "disconnected" ELSE "error">> \in Moves
  BY DEF Moves, Attached
<1> QED
  BY <1>1, AfterMoves DEF Attached

-----------------------------------------------------------------------------
(***************************************************************************)
(* The shell: its session                                                  *)
(***************************************************************************)
Sessions == [phase : Phases, term : Maybe0, ws : Maybe0, timer : Maybe0,
             container : BOOLEAN, isConnecting : BOOLEAN]

\* The part of ShellTypeOK that is about one session.
SessionOK(s) ==
  /\ s \in Sessions
  /\ s.ws # 0 <=> s.phase \in Attached
  /\ s.phase \in {"opening", "disconnected"} \cup Attached => s.term # 0
  /\ s.phase \in {"none", "idle"} => s.term = 0

LEMMA AttemptsAreNumbers == \A a \in Attempts : a # 0
BY ShellAssumption DEF Attempts

\* What a transition keeps of a session, and where it gets a socket from.
LEMMA TransitionFacts ==
  ASSUME NEW s, SessionOK(s), s.phase # "none", NEW a \in Attempts, NEW e
  PROVE  /\ SessionOK(Transition(s, e, a))
         /\ Transition(s, e, a).phase = After(s.phase, e)
         /\ Transition(s, e, a).phase # "none"
         /\ Transition(s, e, a).timer = s.timer
         /\ Transition(s, e, a).container = s.container
         /\ Transition(s, e, a).isConnecting = s.isConnecting
         /\ s.term # 0 /\ Transition(s, e, a).term # s.term => s.phase = "error"
         /\ Transition(s, e, a).phase \in Attached =>
              \/ s.phase \in Attached /\ Transition(s, e, a).ws = s.ws
              \/ e = "WS_OPENED" /\ Transition(s, e, a).ws = a
<1> DEFINE t == Transition(s, e, a)
           p == After(s.phase, e)
<1>1. /\ s.phase \in Phases /\ p \in Phases /\ p # "none" /\ a # 0 /\ a \in Maybe0 /\ 0 \in Maybe0
      /\ p # s.phase => p # "idle"
  BY AfterFacts, AttemptsAreNumbers DEF SessionOK, Sessions, Maybe0
<1>2. /\ t.phase = p /\ t.timer = s.timer /\ t.container = s.container
      /\ t.isConnecting = s.isConnecting
      /\ t.term = IF s.phase = "error" /\ p # s.phase THEN 0
                  ELSE IF e = "API_SUCCESS" /\ p # s.phase /\ s.term = 0 THEN a ELSE s.term
      /\ t.ws = IF p \notin Attached THEN 0
                ELSE IF e = "WS_OPENED" /\ p # s.phase THEN a ELSE s.ws
  BY DEF Transition, SessionOK, Sessions
<1>3. t \in Sessions
  BY <1>1 DEF Transition, SessionOK, Sessions
<1>4. t.ws # 0 <=> t.phase \in Attached
  BY <1>1, <1>2, AfterFacts DEF SessionOK, Attached
<1>5. /\ t.phase \in {"opening", "disconnected"} \cup Attached => t.term # 0
      /\ t.phase \in {"none", "idle"} => t.term = 0
  BY <1>1, <1>2, AfterFacts DEF SessionOK, Attached
<1>6. t.phase \in Attached =>
        (s.phase \in Attached /\ t.ws = s.ws) \/ (e = "WS_OPENED" /\ t.ws = a)
  BY <1>1, <1>2, AfterFacts DEF Attached
<1>7. s.term # 0 /\ t.term # s.term => s.phase = "error"
  BY <1>2
<1> HIDE DEF t, p
<1> QED
  BY <1>1, <1>2, <1>3, <1>4, <1>5, <1>6, <1>7 DEF SessionOK, t, p

-----------------------------------------------------------------------------
(***************************************************************************)
(* The shell: steps of the session                                         *)
(***************************************************************************)
Gone    == ~Exists => session = NoSession
Sockets == [Attempts -> {"none", "connecting", "open", "closing", "closed"}]
CallsFirst == \A a \in Attempts : call[a] # "over" => socket[a] = "none"
Rest    == /\ CallsFirst
           /\ call \in [Attempts -> {"none", "asking", "over"}]
           /\ socket \in Sockets
           /\ armed \subseteq Attempts /\ strayed \in BOOLEAN

ShellInv == SessionOK(session) /\ Gone /\ Rest /\ AttachedIsOpen

\* A session changes its terminal only when it goes or reconnects after an error.
Keeps == session.term # 0 /\ session'.term # session.term
           => session'.phase = "none" \/ session.phase = "error"

\* The step leaves a well-formed session, which is attached to a socket that it was
\* attached to or that has opened.
SessionStep(opened) ==
  /\ SessionOK(session)' /\ Gone' /\ Keeps
  /\ session'.phase \in Attached =>
       (session.phase \in Attached /\ session'.ws = session.ws) \/ session'.ws \in opened

\* Flags and timers are not the business of SessionOK.
LEMMA FlagsAreFree ==
  ASSUME NEW s, SessionOK(s), NEW t \in Maybe0, NEW c \in BOOLEAN, NEW i \in BOOLEAN
  PROVE  LET r == [s EXCEPT !.timer = t, !.container = c, !.isConnecting = i] IN
         /\ SessionOK(r) /\ r.phase = s.phase /\ r.term = s.term /\ r.ws = s.ws
         /\ r.timer = t /\ r.container = c /\ r.isConnecting = i
<1> DEFINE r == [s EXCEPT !.timer = t, !.container = c, !.isConnecting = i]
<1>1. s \in Sessions
  BY DEF SessionOK
<1>2. r \in Sessions
  BY <1>1 DEF Sessions
<1>3. r.phase = s.phase /\ r.term = s.term /\ r.ws = s.ws
      /\ r.timer = t /\ r.container = c /\ r.isConnecting = i
  BY <1>1 DEF Sessions
<1> HIDE DEF r
<1>4. SessionOK(r)
  BY <1>2, <1>3 DEF SessionOK
<1> QED
  BY <1>3, <1>4 DEF r

LEMMA NoSessionFacts == SessionOK(NoSession) /\ NoSession.phase = "none" /\ NoSession.term = 0
BY DEF SessionOK, Sessions, NoSession, Phases, Attached, Maybe0

\* A session that exists makes a transition, and its flags may change.
LEMMA TransitionStep ==
  ASSUME SessionOK(session), Exists, NEW e, NEW a \in Attempts,
         NEW s, SessionOK(s), s.phase = session.phase, s.term = session.term, s.ws = session.ws,
         session'.phase = Transition(s, e, a).phase, session'.term = Transition(s, e, a).term,
         session'.ws = Transition(s, e, a).ws, SessionOK(session')
  PROVE  SessionStep(IF e = "WS_OPENED" THEN {a} ELSE {})
BY TransitionFacts DEF SessionStep, Exists, Gone, Keeps

LEMMA SameSession ==
  ASSUME SessionOK(session), Gone, UNCHANGED session
  PROVE  SessionStep({})
BY DEF SessionStep, Keeps, Gone, Exists, SessionOK


LEMMA HearStep ==
  ASSUME ShellInv, NEW e \in {"FIRST_DATA", "WS_CLOSED", "WS_ERROR"}, NEW a \in Attempts, Hear(e, a)
  PROVE  /\ SessionStep({}) /\ armed' \subseteq Attempts
         /\ e # "FIRST_DATA" => session'.phase \notin Attached
<1>1. armed' \subseteq Attempts
  BY DEF Hear, ShellInv, Rest, CallsFirst
<1>2. CASE ~Exists
  BY <1>1, <1>2, SameSession, NoSessionFacts DEF Hear, ShellInv, Exists, Attached
<1>3. CASE Exists
  <2> DEFINE s == [session EXCEPT !.timer = 0]
  <2>1. SessionOK(session) /\ session \in Sessions /\ session' = Transition(s, e, a)
    BY <1>3 DEF Hear, ShellInv, SessionOK
  <2>2. s \in Sessions /\ s.phase = session.phase /\ s.term = session.term /\ s.ws = session.ws
    BY <2>1 DEF Sessions, Maybe0
  <2> HIDE DEF s
  <2>3. SessionOK(s) /\ s.phase # "none"
    BY <1>3, <2>1, <2>2 DEF SessionOK, Exists
  <2>4. SessionOK(session') /\ session'.phase = After(session.phase, e)
    BY <2>1, <2>2, <2>3, TransitionFacts
  <2>5. SessionStep({})
    BY <1>3, <2>1, <2>2, <2>3, <2>4, TransitionStep
  <2>6. e # "FIRST_DATA" => After(session.phase, e) \notin Attached
    BY <2>1, AfterEnds, AfterFacts DEF SessionOK, Sessions, Attached
  <2> QED
    BY <1>1, <2>4, <2>5, <2>6
<1> QED
  BY <1>2, <1>3

LEMMA DispatchStep ==
  ASSUME ShellInv, NEW e, e # "WS_OPENED", NEW a \in Attempts, Dispatch(e, a)
  PROVE  SessionStep({})
<1>1. CASE ~Exists
  BY <1>1, SameSession DEF Dispatch, ShellInv
<1>2. CASE Exists
  <2>1. SessionOK(session) /\ session' = Transition(session, e, a)
    BY <1>2 DEF Dispatch, ShellInv
  <2>2. SessionOK(session')
    BY <1>2, <2>1, TransitionFacts DEF Exists
  <2> QED
    BY <1>2, <2>1, <2>2, TransitionStep
<1> QED
  BY <1>1, <1>2

\* A transition that also marks the call as begun or over.
LEMMA CallStep ==
  ASSUME SessionOK(session), Exists, NEW e, e # "WS_OPENED", NEW a \in Attempts, NEW i \in BOOLEAN,
         session' = [Transition(session, e, a) EXCEPT !.isConnecting = i]
  PROVE  SessionStep({}) /\ session'.phase = After(session.phase, e)
<1> DEFINE t == Transition(session, e, a)
<1>1. SessionOK(t) /\ t \in Sessions /\ t.phase = After(session.phase, e)
  BY TransitionFacts DEF Exists, SessionOK
<1>2. session' = [t EXCEPT !.isConnecting = i]
  OBVIOUS
<1> HIDE DEF t
<1>3. session' \in Sessions /\ session'.phase = t.phase /\ session'.term = t.term /\ session'.ws = t.ws
  BY <1>1, <1>2 DEF Sessions
<1>4. SessionOK(session')
  BY <1>1, <1>3 DEF SessionOK
<1> USE DEF t
<1> QED
  BY <1>1, <1>3, <1>4, TransitionStep

-----------------------------------------------------------------------------
(***************************************************************************)
(* The shell: its invariant                                                *)
(***************************************************************************)
LEMMA ShellInvInit == ShellInit => ShellInv
BY NoSessionFacts
   DEF ShellInit, ShellInv, Gone, Exists, Rest, CallsFirst, Sockets, AttachedIsOpen, Attached

\* What an action does to the session and to the sockets is enough for the invariant.
LEMMA StepKeepsInv ==
  ASSUME ShellInv, Rest', NEW opened, SessionStep(opened),
         \A a \in opened : socket'[a] = "open",
         session.phase \in Attached /\ session'.phase \in Attached /\ session'.ws = session.ws =>
           socket'[session.ws] \in {"open", "closing"}
  PROVE  ShellInv' /\ Keeps
<1>1. AttachedIsOpen'
  BY DEF SessionStep, AttachedIsOpen
<1>2. SessionOK(session)' /\ Gone' /\ Keeps
  BY DEF SessionStep
<1> QED
  BY <1>1, <1>2 DEF ShellInv


LEMMA ShellInvNext == ShellInv /\ [ShellNext]_shellVars => ShellInv' /\ (ShellNext => Keeps)
<1> SUFFICES ASSUME ShellInv, [ShellNext]_shellVars PROVE ShellInv' /\ (ShellNext => Keeps)
  OBVIOUS
<1>0. SessionOK(session) /\ Gone /\ Rest /\ AttachedIsOpen
  BY DEF ShellInv
<1>stay. ASSUME UNCHANGED <<session, socket>>, Rest' PROVE ShellInv' /\ Keeps
  <2>1. SessionStep({})
    BY <1>0, <1>stay, SameSession
  <2>2. session.phase \in Attached => socket'[session.ws] \in {"open", "closing"}
    BY <1>0, <1>stay DEF AttachedIsOpen
  <2> QED
    BY <1>stay, <2>1, <2>2, StepKeepsInv
<1>open. ASSUME NEW opened, SessionStep(opened), UNCHANGED <<call, socket, strayed>>, armed' \subseteq Attempts,
                \A a \in opened : socket[a] = "open"
         PROVE  ShellInv' /\ Keeps
  <2>1. Rest'
    BY <1>0, <1>open DEF Rest, CallsFirst
  <2>2. session.phase \in Attached => socket'[session.ws] \in {"open", "closing"}
    BY <1>0, <1>open DEF AttachedIsOpen
  <2>3. \A a \in opened : socket'[a] = "open"
    BY <1>0, <1>open
  <2> QED
    BY <1>open, <2>1, <2>2, <2>3, StepKeepsInv
<1>given. ASSUME GiveUp, Rest' PROVE ShellInv' /\ Keeps
  <2>1. SessionStep({}) /\ session'.phase \notin Attached
    BY <1>0, <1>given, NoSessionFacts DEF GiveUp, SessionStep, Gone, Keeps, Attached
  <2> QED
    BY <1>given, <2>1, StepKeepsInv
<1>1. CASE UNCHANGED shellVars
  <2>1. Rest'
    BY <1>0, <1>1 DEF shellVars, Rest, CallsFirst, Sockets
  <2> QED
    BY <1>0, <1>1, <2>1, <1>stay DEF shellVars
<1>2. CASE OpenShell
  <2>1. SessionOK(session') /\ session'.phase = "idle" /\ session.term = 0
    BY <1>0, <1>2, NoSessionFacts
       DEF OpenShell, SessionOK, Sessions, NoSession, Phases, Attached, Maybe0, Gone
  <2>2. SessionStep({})
    BY <1>0, <2>1 DEF SessionStep, Gone, Exists, Keeps, Attached
  <2> QED
    BY <1>0, <1>2, <2>2, <1>open DEF OpenShell, Rest, CallsFirst
<1>3. CASE Mount
  <2>1. session \in Sessions /\ session' = [session EXCEPT !.container = TRUE]
    BY <1>0, <1>3 DEF Mount, SessionOK
  <2>2. /\ session' \in Sessions /\ session'.phase = session.phase
        /\ session'.term = session.term /\ session'.ws = session.ws
    BY <1>0, <2>1 DEF Sessions
  <2>3. SessionOK(session') /\ Exists
    BY <1>0, <1>3, <2>2 DEF SessionOK, Mount
  <2>4. SessionStep({})
    BY <1>0, <2>2, <2>3 DEF SessionStep, Gone, Exists, Keeps
  <2> QED
    BY <1>0, <1>3, <2>4, <1>open DEF Mount, Rest, CallsFirst
<1>4. CASE Disconnect
  <2>1. Rest'
    BY <1>0, <1>4 DEF Disconnect, CloseSocket, Rest, CallsFirst, Sockets
  <2>2. SessionStep({})
    BY <1>0, <1>4, SameSession DEF Disconnect
  <2>3. session.phase \in Attached => socket'[session.ws] \in {"open", "closing"}
    BY <1>0, <1>4 DEF Disconnect, CloseSocket, AttachedIsOpen, SessionOK, Sessions, Maybe0
  <2> QED
    BY <2>1, <2>2, <2>3, StepKeepsInv
<1>5. CASE Remove
  <2>1. strayed' \in BOOLEAN
    BY <1>0, <1>5 DEF Remove, GiveUp, Rest, CallsFirst
  <2>2. Rest'
    BY <1>0, <1>5, <2>1 DEF Remove, Rest, CallsFirst
  <2> QED
    BY <1>0, <1>5, <2>2, <1>given DEF Remove
<1>6. CASE Leave
  <2>1. strayed' \in BOOLEAN
    BY <1>0, <1>6 DEF Leave, GiveUp, Rest, CallsFirst
  <2>2. Rest'
    BY <1>0, <1>6, <2>1 DEF Leave, CloseSocket, Rest, CallsFirst, Sockets
  <2> QED
    BY <1>0, <1>6, <2>2, <1>given DEF Leave
<1>7. ASSUME NEW a \in Attempts, AutoConnect(a) \/ Reconnect(a) PROVE ShellInv' /\ Keeps
  <2>1. /\ Exists /\ UNCHANGED <<socket, armed, strayed>>
        /\ call[a] = "none" /\ call' = [call EXCEPT ![a] = "asking"]
        /\ session' = [Transition(session, "CONNECT", a) EXCEPT !.isConnecting = TRUE]
    BY <1>0, <1>7 DEF AutoConnect, Reconnect, Connect, Exists
  <2>2. SessionStep({})
    BY <1>0, <2>1, CallStep
  <2>3. Rest'
    BY <1>0, <2>1 DEF Rest, CallsFirst
  <2>4. session.phase \in Attached => socket'[session.ws] \in {"open", "closing"}
    BY <1>0, <2>1 DEF AttachedIsOpen
  <2> QED
    BY <2>2, <2>3, <2>4, StepKeepsInv
<1>8. ASSUME NEW a \in Attempts, Answer(a) PROVE ShellInv' /\ Keeps
  <2>1. Rest' /\ call[a] # "over"
    BY <1>0, <1>8 DEF Answer, CallSucceeds, CallFails, Answered, Rest, CallsFirst, Sockets
  <2>2. SessionStep({})
    <3>1. CASE ~Exists
      <4>1. UNCHANGED session
        BY <1>0, <1>8, <3>1 DEF Answer, CallSucceeds, CallFails, Gone, NoSession
      <4> QED
        BY <1>0, <4>1, SameSession
    <3>2. CASE Exists
      <4>1. PICK e \in {"API_SUCCESS", "API_ERROR"} : session' = Finally(Transition(session, e, a))
        BY <1>8, <3>2 DEF Answer, CallSucceeds, CallFails
      <4> QED
        BY <1>0, <3>2, <4>1, CallStep DEF Finally
    <3> QED
      BY <3>1, <3>2
  <2>3. session.phase \in Attached => socket'[session.ws] \in {"open", "closing"}
    <3> SUFFICES ASSUME session.phase \in Attached PROVE socket'[session.ws] \in {"open", "closing"}
      OBVIOUS
    <3>1. session.ws \in Attempts /\ session.ws # a
      BY <1>0, <2>1 DEF SessionOK, Sessions, Maybe0, Rest, CallsFirst, AttachedIsOpen
    <3>2. socket'[session.ws] = socket[session.ws]
      BY <1>0, <1>8, <3>1 DEF Answer, CallSucceeds, CallFails, Rest, CallsFirst, Sockets
    <3> QED
      BY <1>0, <3>2 DEF AttachedIsOpen
  <2> QED
    BY <2>1, <2>2, <2>3, StepKeepsInv
<1>9. ASSUME NEW a \in Attempts, SocketOpens(a) PROVE ShellInv' /\ Keeps
  <2>1. Rest' /\ socket'[a] = "open"
    BY <1>0, <1>9 DEF SocketOpens, Rest, CallsFirst, Sockets
  <2>2. SessionStep({a})
    <3>1. CASE ~Exists
      <4>1. SessionStep({})
        BY <1>0, <1>9, <3>1, SameSession DEF SocketOpens
      <4> QED
        BY <4>1 DEF SessionStep
    <3>2. CASE Exists
      <4> DEFINE t == Transition(session, "WS_OPENED", a)
      <4>1. SessionOK(t) /\ t \in Sessions /\ session' = [t EXCEPT !.timer = a]
        BY <1>0, <1>9, <3>2, TransitionFacts DEF SocketOpens, SessionOK, Exists
      <4> HIDE DEF t
      <4>2. /\ session' \in Sessions /\ session'.phase = t.phase
            /\ session'.term = t.term /\ session'.ws = t.ws
        BY <4>1 DEF Sessions, Maybe0
      <4>3. SessionOK(session')
        BY <4>1, <4>2 DEF SessionOK
      <4>4. SessionOK(session)
        BY <1>0
      <4> USE DEF t
      <4> QED
        BY <3>2, <4>2, <4>3, <4>4, TransitionStep
    <3> QED
      BY <3>1, <3>2
  <2>3. session.phase \in Attached => socket'[session.ws] \in {"open", "closing"}
    BY <1>0, <1>9 DEF SocketOpens, AttachedIsOpen, Rest, CallsFirst, Sockets
  <2> QED
    BY <2>1, <2>2, <2>3, StepKeepsInv
<1>10. ASSUME NEW a \in Attempts, Message(a) PROVE ShellInv' /\ Keeps
  <2>1. SessionStep({}) /\ armed' \subseteq Attempts
    BY <1>0, <1>10, HearStep, SameSession DEF Message, Rest
  <2> QED
    BY <1>10, <2>1, <1>open DEF Message
<1>11. ASSUME NEW a \in Attempts, NEW e \in {"WS_CLOSED", "WS_ERROR"}, Hear(e, a),
              socket[a] # "none", socket' = [socket EXCEPT ![a] = "closed"], UNCHANGED <<call, strayed>>
       PROVE  ShellInv' /\ Keeps
  <2>1. SessionStep({}) /\ armed' \subseteq Attempts /\ session'.phase \notin Attached
    BY <1>11, HearStep
  <2>2. Rest'
    BY <1>0, <1>11, <2>1 DEF Rest, CallsFirst, Sockets
  <2> QED
    BY <2>1, <2>2, StepKeepsInv
<1>12. ASSUME NEW a \in Attempts, Timeout(a) PROVE ShellInv' /\ Keeps
  <2>1. SessionStep({})
    BY <1>12, DispatchStep DEF Timeout
  <2>2. strayed' \in BOOLEAN
    BY <1>0, <1>12 DEF Timeout, Rest, CallsFirst
  <2>3. Rest'
    BY <1>0, <1>12, <2>2 DEF Timeout, Rest, CallsFirst
  <2>4. session.phase \in Attached => socket'[session.ws] \in {"open", "closing"}
    BY <1>0, <1>12 DEF Timeout, AttachedIsOpen
  <2> QED
    BY <2>1, <2>3, <2>4, StepKeepsInv
<1>13. ASSUME NEW a \in Attempts, SocketCloses(a) \/ SocketFails(a) PROVE ShellInv' /\ Keeps
  BY <1>11, <1>13 DEF SocketCloses, SocketFails
<1> QED
  BY <1>1, <1>2, <1>3, <1>4, <1>5, <1>6, <1>7, <1>8, <1>9, <1>10, <1>12, <1>13
     DEF ShellNext, Resolve

THEOREM ShellInvariant == ShellSpec => []ShellInv
BY ShellInvInit, ShellInvNext, PTL DEF ShellSpec

\* A websocket writes to a terminal.
Screens == /\ screen \in [Attempts -> Maybe0] /\ printed \subseteq Attempts
           /\ \A a \in Attempts : socket[a] # "none" => screen[a] # 0

LEMMA ShellScreensInit == ShellInit => Screens
BY DEF ShellInit, Screens, Maybe0

LEMMA ShellScreensNext == ShellInv /\ Screens /\ [ShellNext]_shellVars => Screens'
<1> SUFFICES ASSUME ShellInv, Screens, [ShellNext]_shellVars PROVE Screens'
  OBVIOUS
<1>0. socket \in Sockets /\ session.term \in Maybe0
  BY DEF ShellInv, Rest, SessionOK, Sessions
<1>1. ASSUME UNCHANGED <<screen, printed>>,
             \A a \in Attempts : socket'[a] # "none" => socket[a] # "none"
      PROVE  Screens'
  BY <1>1 DEF Screens
<1>2. ASSUME NEW a \in Attempts, CallSucceeds(a) PROVE Screens'
  <2>1. Terminal(a) \in Maybe0 /\ Terminal(a) # 0
    BY <1>0, AttemptsAreNumbers DEF Terminal, Maybe0
  <2>2. CASE UNCHANGED <<socket, screen>>
    BY <1>1, <1>2, <2>2 DEF CallSucceeds
  <2>3. CASE /\ socket' = [socket EXCEPT ![a] = "connecting"]
             /\ screen' = [screen EXCEPT ![a] = Terminal(a)]
    BY <1>0, <1>2, <2>1, <2>3 DEF CallSucceeds, Screens, Sockets
  <2> QED
    BY <1>2, <2>2, <2>3 DEF CallSucceeds
<1>3. ASSUME NEW a \in Attempts, Message(a) PROVE Screens'
  BY <1>3 DEF Message, Screens, Maybe0
<1>4. ASSUME NEW a \in Attempts, socket[a] # "none", NEW r, socket' = [socket EXCEPT ![a] = r],
             UNCHANGED <<screen, printed>>
      PROVE  Screens'
  BY <1>0, <1>1, <1>4 DEF Sockets
<1>5. ASSUME NEW a \in Attempts, Resolve(a) \/ SocketCloses(a) PROVE Screens'
  BY <1>4, <1>5 DEF Resolve, SocketOpens, SocketFails, SocketCloses
<1>6. CASE Disconnect \/ Leave
  <2>1. UNCHANGED <<screen, printed>> /\ socket' = CloseSocket
    BY <1>6 DEF Disconnect, Leave
  <2> QED
    BY <1>1, <2>1 DEF CloseSocket
<1>7. ASSUME NEW a \in Attempts, AutoConnect(a) \/ Reconnect(a) \/ CallFails(a) \/ Timeout(a)
      PROVE  Screens'
  BY <1>1, <1>7 DEF AutoConnect, Reconnect, Connect, CallFails, Timeout
<1>8. CASE OpenShell \/ Mount \/ Remove \/ UNCHANGED shellVars
  BY <1>1, <1>8 DEF OpenShell, Mount, Remove, shellVars
<1> QED
  BY <1>2, <1>3, <1>5, <1>6, <1>7, <1>8 DEF ShellNext, Answer

LEMMA ShellScreens == ShellSpec => []Screens
BY ShellScreensInit, ShellScreensNext, ShellInvariant, PTL DEF ShellSpec

\* The session is well formed whatever order the events of its attempts come in: a
\* phase that is attached has a socket, and from opening on there is a terminal
\* (transition, the handlers of setupWebSocketHandlers, connect and disconnectAll).
THEOREM ShellTypeCorrect == ShellSpec => []ShellTypeOK
<1>1. ShellInv /\ Screens => ShellTypeOK
  BY DEF ShellInv, Screens, ShellTypeOK, SessionOK, Sessions, Gone, Rest, Sockets
<1> QED
  BY <1>1, ShellInvariant, ShellScreens, PTL

\* What the user types goes to a socket that is open or closing: onclose and onerror end
\* the attachment, whichever socket they come from.
THEOREM ShellAttachesOpen == ShellSpec => []AttachedIsOpen
<1>1. ShellInv => AttachedIsOpen
  BY DEF ShellInv
<1> QED
  BY <1>1, ShellInvariant, PTL

-----------------------------------------------------------------------------
(***************************************************************************)
(* The shell: one connection                                               *)
(***************************************************************************)
\* What is alive belongs to the session, as long as none was given up: the call of a
\* connecting session, the socket of an opening or attached one, the timeout of one
\* that is initializing.
Held == \A a \in Attempts :
          /\ socket[a] = "connecting" => session.phase = "opening"
          /\ socket[a] \in {"open", "closing"} => session.ws = a
          /\ call[a] = "asking" => session.phase = "connecting"
          /\ a \in armed => session.phase = "initializing" /\ session.timer = a
Single == \A a, b \in Attempts :
            /\ socket[a] = "connecting" /\ socket[b] = "connecting" => a = b
            /\ call[a] = "asking" /\ call[b] = "asking" => a = b
Tidy == ~strayed => Held /\ Single

LEMMA ShellTidyInit == ShellInit => Tidy
BY DEF ShellInit, Tidy, Held, Single

LEMMA ShellTidyNext == ShellInv /\ ShellInv' /\ Tidy /\ [ShellNext]_shellVars => Tidy'
<1> SUFFICES ASSUME ShellInv, ShellInv', Tidy, [ShellNext]_shellVars, strayed' = FALSE
             PROVE  Held' /\ Single'
  BY DEF Tidy, ShellInv, Rest
<1>0. /\ SessionOK(session) /\ session.phase \in Phases /\ Gone /\ Rest /\ CallsFirst
      /\ SessionOK(session)'
  BY DEF ShellInv, SessionOK, Sessions, Rest
<1>a. strayed = FALSE
  BY <1>0 DEF ShellNext, shellVars, OpenShell, Mount, Disconnect, Remove, Leave, GiveUp, AutoConnect,
     Reconnect, Connect, Answer, CallSucceeds, CallFails, Resolve, SocketOpens, SocketFails, Message,
     SocketCloses, Timeout, Rest
<1>h. Held /\ Single
  BY <1>a DEF Tidy
<1>1. CASE UNCHANGED shellVars
  BY <1>1, <1>h DEF shellVars, Held, Single
<1>2. CASE OpenShell
  <2>1. session.phase = "none" /\ session.ws = 0 /\ session'.phase = "idle" /\ session'.ws = 0
    BY <1>0, <1>2 DEF OpenShell, NoSession, Exists, Gone
  <2>2. \A a \in Attempts : /\ socket[a] \notin {"connecting", "open", "closing"}
                            /\ call[a] # "asking" /\ a \notin armed
    BY <1>h, <2>1, AttemptsAreNumbers DEF Held
  <2> QED
    BY <1>2, <2>2 DEF OpenShell, Held, Single
<1>3. CASE Mount
  <2>1. /\ session'.phase = session.phase /\ session'.ws = session.ws /\ session'.timer = session.timer
        /\ UNCHANGED <<socket, call, armed>>
    BY <1>0, <1>3 DEF Mount, SessionOK, Sessions
  <2> QED
    BY <1>h, <2>1 DEF Held, Single
<1>4. CASE Disconnect
  <2>1. \A a \in Attempts : /\ socket'[a] = "connecting" => socket[a] = "connecting"
                            /\ socket'[a] \in {"open", "closing"} => socket[a] \in {"open", "closing"}
    BY <1>4 DEF Disconnect, CloseSocket
  <2> QED
    BY <1>4, <1>h, <2>1 DEF Disconnect, Held, Single
<1>5. CASE Remove \/ Leave
  <2>1. \A a \in Attempts : ~Live(a)
    BY <1>5 DEF Remove, Leave, GiveUp
  <2>2. /\ \A a \in Attempts : socket'[a] = socket[a] \/ socket[a] = "open"
        /\ armed' \subseteq armed /\ UNCHANGED call
    BY <1>5 DEF Remove, Leave, CloseSocket
  <2> QED
    BY <2>1, <2>2 DEF Live, Held, Single
<1>6. ASSUME NEW a \in Attempts, AutoConnect(a) \/ Reconnect(a) PROVE Held' /\ Single'
  <2>1. /\ session.phase \in {"idle", "disconnected", "error"} /\ session.ws = 0
        /\ UNCHANGED <<socket, armed>> /\ call' = [call EXCEPT ![a] = "asking"]
        /\ session' = [Transition(session, "CONNECT", a) EXCEPT !.isConnecting = TRUE]
    BY <1>0, <1>6 DEF AutoConnect, Reconnect, Connect, SessionOK, Attached
  <2>2. Exists
    BY <2>1 DEF Exists
  <2>3. session'.phase = After(session.phase, "CONNECT")
    BY <1>0, <2>1, <2>2, CallStep
  <2>4. session'.phase = "connecting"
    <3>1. <<session.phase, "CONNECT", "connecting">> \in Moves
      BY <2>1 DEF Moves
    <3> QED
      BY <2>3, <3>1, AfterMoves
  <2>5. \A b \in Attempts : /\ socket[b] \notin {"connecting", "open", "closing"}
                            /\ call[b] # "asking" /\ b \notin armed
    BY <1>h, <2>1, AttemptsAreNumbers DEF Held
  <2> QED
    BY <1>0, <2>1, <2>4, <2>5 DEF Held, Single, Rest
<1>7. ASSUME NEW a \in Attempts, Answer(a) PROVE Held' /\ Single'
  <2>1. /\ call[a] = "asking" /\ call' = [call EXCEPT ![a] = "over"] /\ armed' = armed
        /\ session.phase = "connecting" /\ session.ws = 0
    BY <1>0, <1>7, <1>h DEF Answer, CallSucceeds, CallFails, Answered, Held, SessionOK, Attached
  <2>2. \A b \in Attempts : /\ socket[b] \notin {"connecting", "open", "closing"} /\ b \notin armed
                            /\ call'[b] # "asking"
    BY <1>0, <1>h, <2>1, AttemptsAreNumbers DEF Held, Single, Rest
  <2>3. \/ UNCHANGED socket
        \/ /\ socket' = [socket EXCEPT ![a] = "connecting"]
           /\ session' = Finally(Transition(session, "API_SUCCESS", a))
    BY <1>7 DEF Answer, CallSucceeds, CallFails
  <2>4. CASE UNCHANGED socket
    BY <2>1, <2>2, <2>4 DEF Held, Single
  <2>5. CASE /\ socket' = [socket EXCEPT ![a] = "connecting"]
             /\ session' = Finally(Transition(session, "API_SUCCESS", a))
    <3>1. Exists
      BY <2>1 DEF Exists
    <3>2. session'.phase = After(session.phase, "API_SUCCESS")
      BY <1>0, <2>5, <3>1, CallStep DEF Finally
    <3>3. <<session.phase, "API_SUCCESS", "opening">> \in Moves
      BY <2>1 DEF Moves
    <3>4. session'.phase = "opening"
      BY <3>2, <3>3, AfterMoves
    <3> QED
      BY <1>0, <2>1, <2>2, <2>5, <3>4 DEF Held, Single, Rest, Sockets
  <2> QED
    BY <2>3, <2>4, <2>5
<1>8. ASSUME NEW a \in Attempts, SocketOpens(a) PROVE Held' /\ Single'
  <2>1. /\ socket[a] = "connecting" /\ socket' = [socket EXCEPT ![a] = "open"]
        /\ armed' = armed \cup {a} /\ UNCHANGED call
        /\ session.phase = "opening" /\ session.ws = 0
    BY <1>0, <1>8, <1>h DEF SocketOpens, Held, SessionOK, Attached
  <2>2. \A b \in Attempts : /\ b \notin armed /\ call[b] # "asking" /\ socket[b] \notin {"open", "closing"}
                            /\ socket[b] = "connecting" => b = a
    BY <1>h, <2>1, AttemptsAreNumbers DEF Held, Single
  <2>3. session'.phase = "initializing" /\ session'.ws = a /\ session'.timer = a
    <3> DEFINE t == Transition(session, "WS_OPENED", a)
    <3>1. Exists /\ <<session.phase, "WS_OPENED", "initializing">> \in Moves
      BY <2>1 DEF Exists, Moves
    <3>2. After(session.phase, "WS_OPENED") = "initializing"
      BY <3>1, AfterMoves
    <3>3. t \in Sessions /\ t.phase = "initializing" /\ t.ws = a
      BY <1>0, <2>1, <3>1, <3>2, TransitionFacts DEF Exists, SessionOK, Attached
    <3>4. session' = [t EXCEPT !.timer = a]
      BY <1>8, <3>1 DEF SocketOpens
    <3> HIDE DEF t
    <3> QED
      BY <3>3, <3>4 DEF Sessions
  <2> QED
    BY <1>0, <2>1, <2>2, <2>3 DEF Held, Single, Rest, Sockets
<1>9. ASSUME NEW a \in Attempts, NEW e, Hear(e, a) PROVE armed' = {}
  BY <1>0, <1>9, <1>h DEF Hear, Held, Rest
<1>10. ASSUME NEW a \in Attempts, Message(a), Hear("FIRST_DATA", a) PROVE Held' /\ Single'
  <2>1. /\ socket[a] = "open" /\ session.ws = a /\ session.phase \in Attached
        /\ UNCHANGED <<socket, call>> /\ armed' = {}
    BY <1>0, <1>9, <1>10, <1>h, AttemptsAreNumbers DEF Message, Held, SessionOK
  <2>2. session'.ws = session.ws
    <3> DEFINE s == [session EXCEPT !.timer = 0]
    <3>1. Exists /\ session' = Transition(s, "FIRST_DATA", a)
      BY <1>10, <2>1 DEF Message, Hear, Exists, Attached
    <3>2. s \in Sessions /\ s.phase = session.phase /\ s.term = session.term /\ s.ws = session.ws
      BY <1>0 DEF SessionOK, Sessions, Maybe0
    <3> HIDE DEF s
    <3>3. SessionOK(s) /\ s.phase # "none"
      BY <1>0, <3>1, <3>2 DEF SessionOK, Exists
    <3>4. session'.phase = After(session.phase, "FIRST_DATA")
      BY <3>1, <3>2, <3>3, TransitionFacts
    <3>5. After(session.phase, "FIRST_DATA") \in Attached
      BY <1>0, <2>1, AfterChoice DEF Moves, Attached
    <3> QED
      BY <3>1, <3>2, <3>3, <3>4, <3>5, TransitionFacts
  <2>3. \A b \in Attempts : socket[b] # "connecting" /\ call[b] # "asking"
    BY <1>h, <2>1 DEF Held, Attached
  <2> QED
    BY <1>h, <2>1, <2>2, <2>3 DEF Held, Single
<1>11. ASSUME NEW a \in Attempts, SocketCloses(a) \/ SocketFails(a) PROVE Held' /\ Single'
  <2>1. /\ socket[a] \in {"connecting", "open", "closing"} /\ socket' = [socket EXCEPT ![a] = "closed"]
        /\ armed' = {} /\ UNCHANGED call
    BY <1>9, <1>11 DEF SocketCloses, SocketFails
  <2>2. \A b \in Attempts : /\ call[b] # "asking"
                            /\ b # a => socket[b] \notin {"connecting", "open", "closing"}
    BY <1>0, <1>h, <2>1, AttemptsAreNumbers DEF Held, Single, SessionOK, Attached
  <2> QED
    BY <1>0, <2>1, <2>2 DEF Held, Single, Rest, Sockets
<1>12. ASSUME NEW a \in Attempts, Timeout(a) PROVE Held' /\ Single'
  BY <1>12, <1>h DEF Timeout, Held
<1>13. ASSUME NEW a \in Attempts, Message(a), UNCHANGED <<session, armed>> PROVE Held' /\ Single'
  BY <1>13, <1>h DEF Message, Held, Single
<1>14. ASSUME NEW a \in Attempts, Message(a) PROVE Held' /\ Single'
  BY <1>10, <1>13, <1>14 DEF Message
<1> QED
  BY <1>1, <1>2, <1>3, <1>4, <1>5, <1>6, <1>7, <1>8, <1>11, <1>12, <1>14 DEF ShellNext, Resolve

LEMMA ShellTidy == ShellSpec => []Tidy
BY ShellTidyInit, ShellTidyNext, ShellInvariant, PTL DEF ShellSpec

\* Until a session is given up with something of it alive, a task has one connection
\* at most and the session shows it (the guards of connect, the transitions of opening).
THEOREM ShellConnectsOnce == ShellSpec => []OneConnection
<1>1. ShellInv /\ Tidy => OneConnection
  <2> SUFFICES ASSUME ShellInv, Held, Single, NEW a \in Attempts, InUse(a)
               PROVE  /\ \A b \in Attempts : InUse(b) => b = a
                      /\ IF socket[a] = "connecting" THEN session.phase = "opening" ELSE session.ws = a
    BY DEF Tidy, OneConnection
  <2> QED
    BY AttemptsAreNumbers DEF InUse, Held, Single, ShellInv, SessionOK, Attached
<1> QED
  BY <1>1, ShellTidy, ShellInvariant, PTL

\* A socket that is in use keeps the terminal that it was given, and the session does
\* not change its own meanwhile.
LEMMA ShellShownNext ==
  ASSUME ShellInv, Tidy, Screens, OutputIsOnShow, [ShellNext]_shellVars
  PROVE  OutputIsOnShow'
<1> SUFFICES ASSUME strayed' = FALSE, NEW b \in Attempts, InUse(b)'
             PROVE  screen'[b] = session'.term
  BY ShellInvNext DEF OutputIsOnShow, ShellInv, Rest
<1>0. /\ SessionOK(session) /\ Gone /\ Rest /\ screen \in [Attempts -> Maybe0]
      /\ ShellNext => Keeps
  BY ShellInvNext DEF ShellInv, Screens
<1>a. strayed = FALSE
  BY <1>0 DEF ShellNext, shellVars, OpenShell, Mount, Disconnect, Remove, Leave, GiveUp, AutoConnect,
     Reconnect, Connect, Answer, CallSucceeds, CallFails, Resolve, SocketOpens, SocketFails, Message,
     SocketCloses, Timeout, Rest
<1>h. Held /\ Single /\ \A a \in Attempts : InUse(a) => screen[a] = session.term
  BY <1>a DEF Tidy, OutputIsOnShow
<1>1. CASE UNCHANGED shellVars
  BY <1>1, <1>h DEF shellVars, InUse
<1>2. ASSUME ShellNext, InUse(b), UNCHANGED screen, session'.phase # "none" PROVE screen'[b] = session'.term
  <2>1. session.phase \in {"opening"} \cup Attached /\ session.term # 0
    BY <1>0, <1>2, <1>h, AttemptsAreNumbers DEF InUse, Held, SessionOK
  <2>2. session'.term = session.term
    BY <1>0, <1>2, <2>1 DEF Keeps, Attached
  <2> QED
    BY <1>2, <1>h, <2>2
<1>3. ASSUME NEW a \in Attempts, CallSucceeds(a) PROVE screen'[b] = session'.term
  <2>1. call[a] = "asking" /\ session.phase = "connecting" /\ Exists
    BY <1>3, <1>h DEF CallSucceeds, Answered, Held, Exists
  <2>2. /\ ~InUse(b) /\ b = a /\ screen'[b] = Terminal(a)
        /\ session' = Finally(Transition(session, "API_SUCCESS", a))
    BY <1>0, <1>3, <1>h, <2>1, AttemptsAreNumbers
       DEF CallSucceeds, InUse, Held, SessionOK, Attached, Rest, Sockets
  <2>3. After(session.phase, "API_SUCCESS") = "opening"
    <3>1. <<session.phase, "API_SUCCESS", "opening">> \in Moves
      BY <2>1 DEF Moves
    <3> QED
      BY <3>1, AfterMoves
  <2>4. session'.term = Terminal(a)
    BY <1>0, <2>1, <2>2, <2>3 DEF Transition, Finally, Terminal, SessionOK, Sessions
  <2> QED
    BY <2>2, <2>4
<1>4. CASE Remove \/ Leave
  BY <1>4 DEF Remove, Leave, GiveUp, CloseSocket, Live, InUse
<1>5. ASSUME ~InUse(b) PROVE \E a \in Attempts : CallSucceeds(a)
  BY <1>0, <1>5 DEF ShellNext, shellVars, OpenShell, Mount, Disconnect, Remove, Leave, CloseSocket,
     AutoConnect, Reconnect, Connect, Answer, CallFails, Resolve, SocketOpens, SocketFails,
     Message, SocketCloses, Timeout, InUse, Rest, Sockets
<1>6. session'.phase # "none"
  <2>1. Held' /\ SessionOK(session)'
    BY ShellInvNext, ShellTidyNext DEF Tidy, ShellInv
  <2> QED
    BY <2>1, AttemptsAreNumbers DEF InUse, Held, SessionOK, Attached
<1>7. ASSUME ShellNext, ~(Remove \/ Leave), \A a \in Attempts : ~CallSucceeds(a)
      PROVE  UNCHANGED screen
  BY <1>7 DEF ShellNext, OpenShell, Mount, Disconnect, AutoConnect, Reconnect, Connect, Answer,
     CallFails, Resolve, SocketOpens, SocketFails, Message, SocketCloses, Timeout
<1> QED
  BY <1>1, <1>2, <1>3, <1>4, <1>5, <1>6, <1>7

\* Until a session is given up, what a shell prints appears in the terminal on show:
\* connect hands its websocket the terminal of the session, which only a session that
\* has no websocket left can lose (connect, the CONNECT of the error state).
THEOREM ShellShowsOutput == ShellSpec => []OutputIsOnShow
<1>1. ShellInit => OutputIsOnShow
  BY DEF ShellInit, OutputIsOnShow, InUse
<1> QED
  BY <1>1, ShellShownNext, ShellTidy, ShellScreens, ShellInvariant, PTL DEF ShellSpec

-----------------------------------------------------------------------------
(***************************************************************************)
(* The log: numbers and sequences                                          *)
(***************************************************************************)
\* A set of numbers has a least one.
LEMMA LeastNumber ==
  ASSUME NEW S, S \subseteq Nat, S # {}
  PROVE  \E n \in S : \A m \in S : n <= m
<1> DEFINE R == OpToRel(<, Nat)
<1>1. IsWellFoundedOn(R, Nat)
  BY NatLessThanWellFounded
<1>2. \A x, y \in Nat : x < y => <<x, y>> \in R
  BY DEF OpToRel
<1> HIDE DEF R
<1>3. PICK n \in S : \A m \in S : <<m, n>> \notin R
  BY <1>1, WFMin
<1>4. ASSUME NEW m \in S PROVE n <= m
  <2>1. m \in Nat /\ n \in Nat
    OBVIOUS
  <2>2. ~(m < n)
    BY <1>2, <1>3, <2>1
  <2> QED
    BY <2>1, <2>2
<1> QED
  BY <1>4

\* The bounds are numbers.
LEMMA Bounds ==
  /\ Len(DateOf) \in Nat /\ MaxEntries \in Nat \ {0}
  /\ MaxRetries \in Nat /\ MaxRuns \in Nat /\ MaxBreaks \in Nat
BY StreamAssumption, LenProperties

\* What is in a sequence of entries is an entry.
LEMMA EntryTypes ==
  ASSUME NEW s \in Seq(Entries), NEW i \in 1..Len(s)
  PROVE  s[i] \in Entries /\ s[i].line \in 1..Len(DateOf) /\ s[i].line \in Int
<1>1. s[i] \in Entries
  BY ElementOfSeq, Zenon
<1> QED
  BY <1>1, Bounds DEF Entries, Lines

\* An entry is known by its run, its connection and its line.
LEMMA EntryEqual ==
  ASSUME NEW x \in Entries, NEW y \in Entries, x.run = y.run, x.conn = y.conn, x.line = y.line
  PROVE  x = y
BY DEF Entries

\* The lines before line b and b itself, one after the other, as connection c of
\* run r delivered them.
Piece(s, r, c, b) ==
  /\ s \in Seq(Entries)
  /\ \A i \in 1..Len(s) : s[i].run = r /\ s[i].conn = c /\ s[i].line = b - Len(s) + i

\* A piece does not reach back before the log.
LEMMA PieceIsInLog ==
  ASSUME NEW s, NEW r, NEW c, NEW b \in Int, Piece(s, r, c, b)
  PROVE  Len(s) = 0 \/ Len(s) <= b
<1>1. Len(s) \in Nat
  BY LenProperties DEF Piece
<1>2. CASE Len(s) > 0
  <2>1. 1 \in 1..Len(s)
    BY <1>1, <1>2
  <2>2. s[1].line = b - Len(s) + 1 /\ s[1].line \in 1..Len(DateOf)
    BY <2>1, EntryTypes DEF Piece
  <2> QED
    BY <1>1, <2>2, Bounds
<1> QED
  BY <1>1, <1>2

\* Two pieces that meet are one.
LEMMA PiecesMeet ==
  ASSUME NEW s, NEW t, NEW r, NEW c, NEW b \in Int,
         Piece(s, r, c, b - Len(t)), Piece(t, r, c, b)
  PROVE  Piece(s \o t, r, c, b) /\ Len(s \o t) = Len(s) + Len(t)
<1> DEFINE u == s \o t
<1>1. s \in Seq(Entries) /\ t \in Seq(Entries)
  BY DEF Piece
<1>2. Len(s) \in Nat /\ Len(t) \in Nat
  BY <1>1, LenProperties
<1>3. /\ u \in Seq(Entries) /\ Len(u) = Len(s) + Len(t)
      /\ \A i \in 1..(Len(s) + Len(t)) : u[i] = IF i <= Len(s) THEN s[i] ELSE t[i - Len(s)]
  BY <1>1, ConcatProperties
<1> HIDE DEF u
<1>4. ASSUME NEW i \in 1..Len(u)
      PROVE  u[i].run = r /\ u[i].conn = c /\ u[i].line = b - Len(u) + i
  <2>1. CASE i <= Len(s)
    <3>1. i \in 1..Len(s) /\ u[i] = s[i]
      BY <1>2, <1>3, <2>1
    <3>2. s[i].run = r /\ s[i].conn = c /\ s[i].line = b - Len(t) - Len(s) + i
      BY <3>1 DEF Piece
    <3> QED
      BY <1>2, <1>3, <3>1, <3>2
  <2>2. CASE ~(i <= Len(s))
    <3>1. i - Len(s) \in 1..Len(t) /\ u[i] = t[i - Len(s)]
      BY <1>2, <1>3, <2>2
    <3>2. t[i - Len(s)].run = r /\ t[i - Len(s)].conn = c /\ t[i - Len(s)].line = b - Len(t) + (i - Len(s))
      BY <3>1 DEF Piece
    <3> QED
      BY <1>2, <1>3, <3>1, <3>2
  <2> QED
    BY <2>1, <2>2
<1> QED
  BY <1>3, <1>4 DEF Piece, u

\* Newest keeps the end of a sequence, and no more than the bound.
LEMMA NewestFacts ==
  ASSUME NEW S, NEW s \in Seq(S)
  PROVE  LET n == IF Len(s) > MaxEntries THEN MaxEntries ELSE Len(s) IN
         /\ n \in Nat /\ Newest(s) \in Seq(S) /\ Len(Newest(s)) = n
         /\ \A i \in 1..n : Newest(s)[i] = s[Len(s) - n + i]
<1>1. Len(s) \in Nat /\ \A i \in 1..Len(s) : s[i] \in S
  BY LenProperties, ElementOfSeq
<1> USE Bounds
<1>2. CASE Len(s) > MaxEntries
  <2>1. /\ SubSeq(s, Len(s) - MaxEntries + 1, Len(s)) \in Seq(S)
        /\ Len(SubSeq(s, Len(s) - MaxEntries + 1, Len(s))) = MaxEntries
        /\ \A i \in 1..MaxEntries :
             SubSeq(s, Len(s) - MaxEntries + 1, Len(s))[i] = s[Len(s) - MaxEntries + i]
    <3> DEFINE m == Len(s) - MaxEntries + 1
               n == Len(s)
    <3>1. m \in Int /\ n \in Int /\ m <= n /\ n - m + 1 = MaxEntries
      BY <1>1, <1>2
    <3>2. \A i \in m..n : s[i] \in S
      BY <1>1, <1>2
    <3>3. \A i \in 1..MaxEntries : m + i - 1 = Len(s) - MaxEntries + i
      BY <1>1
    <3> HIDE DEF m, n
    <3>4. /\ SubSeq(s, m, n) \in Seq(S) /\ Len(SubSeq(s, m, n)) = MaxEntries
          /\ \A i \in 1..MaxEntries : SubSeq(s, m, n)[i] = s[m + i - 1]
      BY <3>1, <3>2, SubSeqProperties
    <3>5. QED
      BY <3>3, <3>4 DEF m, n
  <2> QED
    BY <1>1, <1>2, <2>1 DEF Newest
<1>3. CASE ~(Len(s) > MaxEntries)
  BY <1>1, <1>3 DEF Newest
<1> QED
  BY <1>2, <1>3

\* The newest entries of a piece are a piece that ends where it ended.
LEMMA PieceNewest ==
  ASSUME NEW s, NEW r, NEW c, NEW b \in Int, Piece(s, r, c, b)
  PROVE  /\ Piece(Newest(s), r, c, b)
         /\ Len(Newest(s)) = IF Len(s) > MaxEntries THEN MaxEntries ELSE Len(s)
<1> DEFINE n == IF Len(s) > MaxEntries THEN MaxEntries ELSE Len(s)
<1>1. s \in Seq(Entries) /\ Len(s) \in Nat
  BY LenProperties DEF Piece
<1>2. n \in Nat /\ n <= Len(s)
  BY <1>1, Bounds
<1>3. /\ Newest(s) \in Seq(Entries) /\ Len(Newest(s)) = n
      /\ \A i \in 1..n : Newest(s)[i] = s[Len(s) - n + i]
  BY <1>1, NewestFacts
<1> HIDE DEF n
<1>4. ASSUME NEW i \in 1..n
      PROVE  LET e == Newest(s)[i] IN e.run = r /\ e.conn = c /\ e.line = b - n + i
  <2>1. Len(s) - n + i \in 1..Len(s) /\ b - Len(s) + (Len(s) - n + i) = b - n + i
    BY <1>1, <1>2
  <2> QED
    BY <1>3, <2>1 DEF Piece
<1> QED
  BY <1>3, <1>4 DEF Piece, n

\* What comes before a full buffer is dropped.
LEMMA NewestOfFull ==
  ASSUME NEW S, NEW s \in Seq(S), NEW t \in Seq(S), Len(t) = MaxEntries
  PROVE  Newest(s \o t) = t
<1> DEFINE u == s \o t
<1>1. Len(s) \in Nat /\ Len(t) \in Nat
  BY LenProperties
<1> USE Bounds
<1>2. /\ u \in Seq(S) /\ Len(u) = Len(s) + MaxEntries
      /\ \A i \in 1..(Len(s) + Len(t)) : u[i] = IF i <= Len(s) THEN s[i] ELSE t[i - Len(s)]
  BY ConcatProperties
<1> HIDE DEF u
<1>3. /\ Newest(u) \in Seq(S) /\ Len(Newest(u)) = MaxEntries
      /\ \A i \in 1..MaxEntries : Newest(u)[i] = u[Len(s) + i]
  <2>1. Len(u) > MaxEntries \/ (Len(u) = MaxEntries /\ Len(s) = 0)
    BY <1>1, <1>2
  <2>2. Len(u) - MaxEntries = Len(s)
    BY <1>1, <1>2
  <2>3. (IF Len(u) > MaxEntries THEN MaxEntries ELSE Len(u)) = MaxEntries
    BY <2>1
  <2>4. /\ Newest(u) \in Seq(S) /\ Len(Newest(u)) = MaxEntries
        /\ \A i \in 1..MaxEntries : Newest(u)[i] = u[Len(u) - MaxEntries + i]
    BY <1>2, <2>3, NewestFacts
  <2> QED
    BY <2>2, <2>4
<1>4. ASSUME NEW i \in 1..MaxEntries PROVE Newest(u)[i] = t[i]
  <2>1. PICK k \in 1..(Len(s) + Len(t)) : k = Len(s) + i
    BY <1>1
  <2>2. ~(k <= Len(s)) /\ k - Len(s) = i
    BY <1>1, <2>1
  <2>3. u[k] = t[i]
    BY <1>2, <2>2
  <2> QED
    BY <1>3, <2>1, <2>3
<1>5. Newest(u) = t
  <2>1. PICK v \in Seq(S) : v = Newest(u)
    BY <1>3
  <2>2. Len(v) = Len(t) /\ \A i \in 1..Len(v) : v[i] = t[i]
    BY <1>3, <1>4, <2>1
  <2>3. v = t
    BY <2>2, SeqEqual
  <2> QED
    BY <2>1, <2>3
<1> QED
  BY <1>5 DEF u
-----------------------------------------------------------------------------
(***************************************************************************)
(* The log: its stream                                                     *)
(***************************************************************************)
\* The loop: its phase, and how often it can have connected.
Control ==
  /\ written \in 0..Len(DateOf) /\ finished \in BOOLEAN
  /\ run \in 0..MaxRuns /\ pc \in Running \cup {"off", "over"}
  /\ phase \in {"idle", "connecting", "streaming", "reconnecting", "complete", "error"}
  /\ retries \in 0..MaxRetries /\ got \in 0..written
  /\ aborted \in BOOLEAN /\ breaks \in 0..MaxBreaks
  /\ conn \in 0..(breaks + 1) /\ (pc \in {"fetching", "waiting"} => conn <= breaks)
  /\ pc = "reading" => run > 0 /\ conn > 0
  /\ pc # "off" => run > 0
  /\ pc = "fetching" => phase \in {"connecting", "reconnecting"}
  /\ pc = "reading" <=> pc # "off" /\ phase = "streaming"
  /\ pc = "waiting" => phase = "reconnecting"
  /\ pc = "over" => phase \in {"complete", "error"}
  /\ pc = "over" /\ phase = "complete" => finished /\ got = written

\* What was read from the connection: the lines that wait for a frame end where it
\* stands, and unless they fill the buffer, those of earlier frames end where they
\* begin.  Together they go back to the start of the log, or as far as the bound.
Windows ==
  /\ Piece(pending, run, conn, got) /\ Len(pending) <= MaxEntries
  /\ acc \in Seq(Entries) /\ Len(acc) <= MaxEntries
  /\ Len(pending) = MaxEntries \/ Piece(acc, run, conn, got - Len(pending))
  /\ Len(acc) + Len(pending) = got \/ Len(acc) + Len(pending) >= MaxEntries

\* What is on show is what was read, or what was before the connection broke.
Displayed ==
  /\ shown \in Seq(Entries) /\ Len(shown) <= MaxEntries
  /\ ShownIsOnePiece
  /\ \A i \in 1..Len(shown) : shown[i].line <= written
  /\ acc = shown \/ acc = <<>>

\* The empty sequence is one of entries.
LEMMA Empty == <<>> \in Seq(Entries) /\ Len(<<>>) = 0
BY EmptySeq

\* It is a piece of any connection, and ends anywhere.
LEMMA EmptyPiece == \A r, c, b : Piece(<<>>, r, c, b)
BY Empty DEF Piece

\* The loop as it starts.
LEMMA ControlInitially == StreamInit => Control
<1> SUFFICES ASSUME StreamInit PROVE Control
  OBVIOUS
<1>1. /\ written = 0 /\ finished = FALSE /\ run = 0 /\ pc = "off" /\ phase = "idle" /\ retries = 0
      /\ conn = 0 /\ got = 0 /\ aborted = FALSE /\ breaks = 0
  BY DEF StreamInit
<1>2. /\ finished \in BOOLEAN /\ aborted \in BOOLEAN
  BY <1>1
<1>3. /\ written \in 0..Len(DateOf) /\ run \in 0..MaxRuns /\ retries \in 0..MaxRetries
      /\ got \in 0..written /\ breaks \in 0..MaxBreaks /\ conn \in 0..(breaks + 1)
  BY <1>1, Bounds
<1> QED
  BY <1>1, <1>2, <1>3 DEF Control, Running

\* No step of the stream disturbs what is known of the loop.
LEMMA ControlStays == Control /\ [StreamNext]_streamVars => Control'
<1> SUFFICES ASSUME Control, [StreamNext]_streamVars PROVE Control'
  OBVIOUS
<1> USE Bounds DEF Control, Running, loop, source
<1>1. CASE WriteLine
  BY <1>1 DEF WriteLine
<1>2. CASE FinishLog
  BY <1>2 DEF FinishLog
<1>3. CASE Start
  BY <1>3 DEF Start
<1>4. CASE Disable
  BY <1>4 DEF Disable
<1>5. CASE HearAbort
  BY <1>5 DEF HearAbort
<1>6. CASE Connected
  BY <1>6 DEF Connected
<1>7. CASE DelayEnds
  BY <1>7 DEF DelayEnds
<1>8. ASSUME NEW transient \in BOOLEAN, FetchFails(transient) PROVE Control'
  BY <1>8 DEF FetchFails, Fail
<1>9. ASSUME NEW transient \in BOOLEAN, StreamBreaks(transient) PROVE Control'
  BY <1>9 DEF StreamBreaks, Fail
<1>10. ASSUME NEW n \in Lines, ReadChunk(n) PROVE Control'
  BY <1>10 DEF ReadChunk, Receive, Lines
<1>11. CASE StreamDone
  BY <1>11 DEF StreamDone, Receive
<1>12. CASE Flush
  BY <1>12 DEF Flush
<1>13. CASE Render
  BY <1>13 DEF Render
<1>14. ASSUME NEW q \in Queries, SetQuery(q) PROVE Control'
  BY <1>14 DEF SetQuery
<1>15. ASSUME NEW i \in 1..MaxEntries, Select(i) PROVE Control'
  BY <1>15 DEF Select
<1>16. CASE UNCHANGED streamVars
  BY <1>16 DEF streamVars
<1> QED
  BY <1>1, <1>2, <1>3, <1>4, <1>5, <1>6, <1>7, <1>8, <1>9, <1>10, <1>11, <1>12, <1>13,
     <1>14, <1>15, <1>16 DEF StreamNext

\* What the service sends is the piece that follows.
LEMMA SentIsPiece ==
  ASSUME Control, NEW n \in Nat, got <= n, n <= written, pc = "reading"
  PROVE  Piece(Sent(got, n), run, conn, n) /\ Len(Sent(got, n)) = n - got
<1> DEFINE s == Sent(got, n)
<1>1. got \in Nat /\ written \in Nat /\ n - got \in Nat /\ n <= Len(DateOf)
  BY Bounds DEF Control
<1>2. run \in 1..MaxRuns /\ conn \in 1..(MaxBreaks + 1)
  BY Bounds DEF Control
<1>3. \A i \in 1..(n - got) : [run |-> run, conn |-> conn, line |-> got + i] \in Entries
  <2> TAKE i \in 1..(n - got)
  <2>1. got + i \in 1..Len(DateOf)
    BY <1>1, Bounds
  <2> QED
    BY <1>2, <2>1 DEF Entries, Lines
<1>4. s \in [1..(n - got) -> Entries]
  BY <1>3 DEF Sent
<1>5. s \in Seq(Entries)
  BY <1>1, <1>4, SeqDef
<1>6. DOMAIN s = 1..(n - got)
  BY DEF Sent
<1>7. Len(s) = n - got
  BY <1>1, <1>5, <1>6, LenProperties
<1>8. ASSUME NEW i \in 1..(n - got)
      PROVE  s[i].run = run /\ s[i].conn = conn /\ s[i].line = got + i
  BY <1>8 DEF Sent
<1> HIDE DEF s
<1>9. ASSUME NEW i \in 1..Len(s)
      PROVE  s[i].run = run /\ s[i].conn = conn /\ s[i].line = n - Len(s) + i
  BY <1>1, <1>7, <1>8
<1>10. Piece(s, run, conn, n)
  BY <1>5, <1>9 DEF Piece
<1> QED
  BY <1>7, <1>10 DEF s

\* Receiving lines moves the windows on.
LEMMA ReceiveKeepsWindows ==
  ASSUME Control, Windows, pc = "reading", NEW n \in Nat, got <= n, n <= written,
         Receive(n), run' = run, conn' = conn, acc' = acc
  PROVE  Windows'
<1> DEFINE s == Sent(got, n)
           u == pending \o s
<1>1. Piece(s, run, conn, n) /\ Len(s) = n - got
  BY SentIsPiece
<1>2. /\ got \in Nat /\ Len(pending) \in Nat /\ Len(acc) \in Nat /\ Piece(pending, run, conn, got)
      /\ acc \in Seq(Entries)
  BY Bounds, LenProperties DEF Control, Windows, Piece
<1> HIDE DEF s
<1>3. Piece(u, run, conn, n) /\ Len(u) = Len(pending) + (n - got)
  <2>1. n - Len(s) = got
    BY <1>1, <1>2
  <2>2. Piece(pending, run, conn, n - Len(s))
    BY <1>2, <2>1
  <2> QED
    BY <1>1, <2>2, PiecesMeet
<1>4. pending' = Newest(u) /\ got' = n
  BY DEF Receive, s
<1> HIDE DEF u
<1>5. /\ Piece(pending', run, conn, n)
      /\ Len(pending') = IF Len(u) > MaxEntries THEN MaxEntries ELSE Len(u)
  BY <1>3, <1>4, PieceNewest
<1>6. Len(pending') = MaxEntries \/ Piece(acc, run, conn, n - Len(pending'))
  <2>1. CASE Len(u) >= MaxEntries
    BY <1>2, <1>3, <1>5, <2>1, Bounds
  <2>2. CASE ~(Len(u) >= MaxEntries)
    <3>1. Len(pending) # MaxEntries /\ n - Len(pending') = got - Len(pending)
      BY <1>2, <1>3, <1>5, <2>2, Bounds
    <3> QED
      BY <3>1 DEF Windows
  <2> QED
    BY <2>1, <2>2
<1>7. Len(acc) + Len(pending') = n \/ Len(acc) + Len(pending') >= MaxEntries
  <2>1. CASE Len(u) >= MaxEntries
    BY <1>2, <1>3, <1>5, <2>1, Bounds
  <2>2. CASE ~(Len(u) >= MaxEntries)
    <3>1. Len(pending') = Len(pending) + (n - got)
      BY <1>2, <1>3, <1>5, <2>2, Bounds
    <3>2. Len(acc) + Len(pending) = got \/ Len(acc) + Len(pending) >= MaxEntries
      BY DEF Windows
    <3> QED
      BY <1>2, <3>1, <3>2, Bounds
  <2> QED
    BY <2>1, <2>2
<1>8. Len(pending') <= MaxEntries
  BY <1>2, <1>3, <1>5, Bounds
<1>9. Len(acc) <= MaxEntries
  BY DEF Windows
<1> QED
  BY <1>2, <1>4, <1>5, <1>6, <1>7, <1>8, <1>9 DEF Windows

\* A frame shows the newest of both.
LEMMA FlushFacts ==
  ASSUME Control, Windows, Flush
  PROVE  /\ Piece(acc', run, conn, got) /\ Len(acc') <= MaxEntries
         /\ Len(acc') = got \/ Len(acc') = MaxEntries
<1>1. /\ got \in Nat /\ Len(pending) \in Nat /\ Len(acc) \in Nat /\ acc \in Seq(Entries)
      /\ pending \in Seq(Entries) /\ Len(pending) <= MaxEntries /\ Len(acc) <= MaxEntries
      /\ Piece(pending, run, conn, got)
      /\ Len(acc) + Len(pending) = got \/ Len(acc) + Len(pending) >= MaxEntries
  BY Bounds, LenProperties DEF Control, Windows, Piece
<1>2. acc' = Newest(acc \o pending)
  BY DEF Flush
<1>3. CASE Len(pending) = MaxEntries
  <2>1. acc' = pending
    BY <1>1, <1>2, <1>3, NewestOfFull
  <2> QED
    BY <1>1, <1>3, <2>1
<1>4. CASE Len(pending) # MaxEntries
  <2> DEFINE u == acc \o pending
  <2>1. Piece(acc, run, conn, got - Len(pending))
    BY <1>4 DEF Windows
  <2>2. Piece(u, run, conn, got) /\ Len(u) = Len(acc) + Len(pending)
    BY <1>1, <2>1, PiecesMeet
  <2>5. acc' = Newest(u)
    BY <1>2
  <2> HIDE DEF u
  <2>3. /\ Piece(acc', run, conn, got)
        /\ Len(acc') = IF Len(u) > MaxEntries THEN MaxEntries ELSE Len(u)
    BY <1>1, <2>2, <2>5, PieceNewest
  <2> QED
    BY <1>1, <2>2, <2>3, Bounds
<1> QED
  BY <1>3, <1>4

\* Nothing was read at the start.
LEMMA WindowsInitially == StreamInit => Windows
BY Empty, EmptyPiece, Bounds DEF StreamInit, Windows

\* No step disturbs the windows: only reading, painting and a new connection touch them.
LEMMA WindowsStay == Control /\ Windows /\ [StreamNext]_streamVars => Windows'
<1> SUFFICES ASSUME Control, Windows, [StreamNext]_streamVars PROVE Windows'
  OBVIOUS
<1>1. ASSUME UNCHANGED <<run, conn, got, pending, acc>> PROVE Windows'
  BY <1>1 DEF Windows
<1>2. ASSUME got' = 0, pending' = <<>>, acc' = <<>> PROVE Windows'
  BY <1>2, Empty, EmptyPiece, Bounds DEF Windows
<1>3. CASE Start \/ Connected
  BY <1>2, <1>3 DEF Start, Connected
<1>4. CASE WriteLine \/ FinishLog \/ Disable \/ HearAbort \/ DelayEnds
  BY <1>1, <1>4 DEF WriteLine, FinishLog, Disable, HearAbort, DelayEnds, loop, buffers
<1>5. ASSUME NEW transient \in BOOLEAN, FetchFails(transient) \/ StreamBreaks(transient)
      PROVE  Windows'
  BY <1>1, <1>5 DEF FetchFails, StreamBreaks, Fail, buffers
<1>6. ASSUME NEW n \in Lines, ReadChunk(n) PROVE Windows'
  <2>1. n \in Nat /\ got <= n /\ n <= written /\ pc = "reading"
    BY <1>6, Bounds DEF ReadChunk, Lines, Control
  <2> QED
    BY <1>6, <2>1, ReceiveKeepsWindows DEF ReadChunk
<1>7. CASE StreamDone
  <2>1. written \in Nat /\ got <= written /\ written <= written /\ pc = "reading"
    BY <1>7, Bounds DEF StreamDone, Control
  <2> QED
    BY <1>7, <2>1, ReceiveKeepsWindows DEF StreamDone
<1>8. CASE Flush
  <2>1. /\ Piece(acc', run, conn, got) /\ Len(acc') <= MaxEntries
        /\ Len(acc') = got \/ Len(acc') = MaxEntries
    BY <1>8, FlushFacts
  <2>2. pending' = <<>> /\ run' = run /\ conn' = conn /\ got' = got /\ got \in Nat
    BY <1>8, Bounds DEF Flush, loop, Control
  <2>3. Len(acc') \in Nat /\ acc' \in Seq(Entries)
    BY <2>1, LenProperties DEF Piece
  <2>4. got - 0 = got
    BY <2>2
  <2> QED
    BY <2>1, <2>2, <2>3, <2>4, Empty, EmptyPiece, Bounds DEF Windows
<1>9. CASE Render
  BY <1>1, <1>9 DEF Render, loop, buffers
<1>10. ASSUME NEW q \in Queries, SetQuery(q) PROVE Windows'
  BY <1>1, <1>10 DEF SetQuery, loop, buffers
<1>11. ASSUME NEW i \in 1..MaxEntries, Select(i) PROVE Windows'
  BY <1>1, <1>11 DEF Select, loop, buffers
<1>12. CASE UNCHANGED streamVars
  BY <1>1, <1>12 DEF streamVars, loop, buffers
<1> QED
  BY <1>3, <1>4, <1>5, <1>6, <1>7, <1>8, <1>9, <1>10, <1>11, <1>12 DEF StreamNext

\* A piece that ends in the log may be shown.
LEMMA PieceIsShown ==
  ASSUME Control, Len(shown') \in Nat, Len(shown') <= MaxEntries,
         Piece(shown', run, conn, got), run' = run, written' = written, acc' = shown'
  PROVE  Displayed'
<1>1. shown' \in Seq(Entries) /\ DOMAIN shown' = 1..Len(shown')
  BY LenProperties DEF Piece
<1>2. got \in Nat /\ got <= written /\ written \in Nat
  BY Bounds DEF Control
<1>3. ASSUME NEW i \in 1..Len(shown')
      PROVE  /\ shown'[i].run = run /\ shown'[i].conn = shown'[1].conn
             /\ shown'[i].line = shown'[1].line + i - 1 /\ shown'[i].line <= written
  <2>1. 1 \in 1..Len(shown')
    OBVIOUS
  <2>2. /\ shown'[i].run = run /\ shown'[i].conn = conn /\ shown'[i].line = got - Len(shown') + i
        /\ shown'[1].conn = conn /\ shown'[1].line = got - Len(shown') + 1
    BY <2>1 DEF Piece
  <2> QED
    BY <1>2, <2>2
<1> QED
  BY <1>1, <1>3 DEF Displayed, ShownIsOnePiece

\* Nothing is on show at the start.
LEMMA DisplayedInitially == StreamInit => Displayed
BY Empty, Bounds DEF StreamInit, Displayed, ShownIsOnePiece

\* No step disturbs what is known of the entries on show.
LEMMA DisplayedStays == Control /\ Windows /\ Displayed /\ [StreamNext]_streamVars => Displayed'
<1> SUFFICES ASSUME Control, Windows, Displayed, [StreamNext]_streamVars PROVE Displayed'
  OBVIOUS
<1>1. ASSUME run' = run, shown' = shown, written' \in Int, written <= written',
             acc' = acc \/ acc' = <<>>
      PROVE  Displayed'
  <2>1. \A i \in 1..Len(shown) : shown[i].line \in Int
    BY EntryTypes DEF Displayed
  <2>2. written \in Int
    BY Bounds DEF Control
  <2> QED
    BY <1>1, <2>1, <2>2 DEF Displayed, ShownIsOnePiece
<1>2. written \in Int /\ written <= written
  BY Bounds DEF Control
<1>3. CASE Start
  BY <1>3, Empty, Bounds DEF Start, Displayed, ShownIsOnePiece
<1>4. CASE Connected
  BY <1>1, <1>2, <1>4 DEF Connected, source
<1>5. CASE WriteLine
  BY <1>1, <1>2, <1>5 DEF WriteLine, loop, buffers
<1>6. CASE FinishLog \/ Disable \/ HearAbort \/ DelayEnds
  BY <1>1, <1>2, <1>6 DEF FinishLog, Disable, HearAbort, DelayEnds, loop, buffers, source
<1>7. ASSUME NEW transient \in BOOLEAN, FetchFails(transient) \/ StreamBreaks(transient)
      PROVE  Displayed'
  BY <1>1, <1>2, <1>7 DEF FetchFails, StreamBreaks, Fail, buffers, source
<1>8. ASSUME NEW n \in Lines, ReadChunk(n) PROVE Displayed'
  BY <1>1, <1>2, <1>8 DEF ReadChunk, source
<1>9. CASE StreamDone
  BY <1>1, <1>2, <1>9 DEF StreamDone, source
<1>10. CASE Flush
  <2>1. Piece(acc', run, conn, got) /\ Len(acc') <= MaxEntries
    BY <1>10, FlushFacts
  <2>2. Len(acc') \in Nat
    BY <2>1, LenProperties DEF Piece
  <2>3. acc' = shown' /\ run' = run /\ written' = written
    BY <1>10 DEF Flush, loop, source
  <2> QED
    BY <2>1, <2>2, <2>3, PieceIsShown
<1>11. CASE Render
  BY <1>1, <1>2, <1>11 DEF Render, loop, buffers, source
<1>12. ASSUME NEW q \in Queries, SetQuery(q) PROVE Displayed'
  BY <1>1, <1>2, <1>12 DEF SetQuery, loop, buffers, source
<1>13. ASSUME NEW i \in 1..MaxEntries, Select(i) PROVE Displayed'
  BY <1>1, <1>2, <1>13 DEF Select, loop, buffers, source
<1>14. CASE UNCHANGED streamVars
  BY <1>1, <1>2, <1>14 DEF streamVars, loop, buffers, source
<1> QED
  BY <1>3, <1>4, <1>5, <1>6, <1>7, <1>8, <1>9, <1>10, <1>11, <1>12, <1>13, <1>14 DEF StreamNext

\* The buffers and what is shown, in every state.
StreamInv == Control /\ Windows /\ Displayed

\* So it is in every state.
LEMMA StreamInvariant == StreamSpec => []StreamInv
<1>1. StreamInit => StreamInv
  BY ControlInitially, WindowsInitially, DisplayedInitially DEF StreamInv
<1>2. StreamInv /\ [StreamNext]_streamVars => StreamInv'
  BY ControlStays, WindowsStay, DisplayedStays DEF StreamInv
<1> QED
  BY <1>1, <1>2, PTL DEF StreamSpec

\* The entries on show are a piece of one connection's log, whatever breaks, is
\* restarted or turned off meanwhile (flushPending and runStream of useLogStream).
THEOREM ShowsOnePiece == StreamSpec => []ShownIsOnePiece
<1>1. StreamInv => ShownIsOnePiece
  BY DEF StreamInv, Displayed
<1> QED
  BY <1>1, StreamInvariant, PTL

\* A stream that says it is complete shows the newest lines of the log as soon as the
\* last frame is painted (the end of runStream and flushPending).
THEOREM CompleteIsShown == StreamSpec => []CompleteShowsAll
<1>1. ASSUME StreamInv PROVE CompleteShowsAll
  <2> SUFFICES ASSUME pc = "over", phase = "complete", pending = <<>>
               PROVE  [i \in DOMAIN shown |-> shown[i].line] = Newest([i \in 1..written |-> i])
    BY DEF CompleteShowsAll
  <2> DEFINE all == [i \in 1..written |-> i]
             n   == Len(shown)
             m   == IF written > MaxEntries THEN MaxEntries ELSE written
  <2>1. got = written /\ got \in Nat /\ written \in Nat
    BY <1>1, Bounds DEF StreamInv, Control
  <2>2. /\ shown \in Seq(Entries) /\ n \in Nat /\ DOMAIN shown = 1..n /\ n <= MaxEntries
    BY <1>1, LenProperties DEF StreamInv, Displayed
  <2>3. /\ Piece(acc, run, conn, got) /\ Len(acc) \in Nat /\ Len(acc) <= MaxEntries
        /\ Len(acc) = got \/ Len(acc) >= MaxEntries
    <3>1. Len(pending) = 0 /\ Len(acc) \in Nat
      BY <1>1, Empty, LenProperties DEF StreamInv, Windows
    <3>2. got - 0 = got /\ Len(acc) + 0 = Len(acc)
      BY <2>1, <3>1
    <3> QED
      BY <1>1, <3>1, <3>2, Bounds DEF StreamInv, Windows
  <2>4. acc = shown
    <3>1. SUFFICES ASSUME acc = <<>> PROVE shown = <<>>
      BY <1>1 DEF StreamInv, Displayed
    <3>2. written = 0
      BY <2>1, <2>3, <3>1, Empty, Bounds
    <3>3. \A i \in 1..n : shown[i].line \in 1..Len(DateOf) /\ shown[i].line <= 0
      BY <1>1, <2>2, <3>2, EntryTypes DEF StreamInv, Displayed
    <3>4. n = 0
      <4>1. SUFFICES ASSUME n # 0 PROVE FALSE
        OBVIOUS
      <4>2. 1 \in 1..n
        BY <2>2, <4>1
      <4> QED
        BY <3>3, <4>2, Bounds
    <3> QED
      BY <2>2, <3>4, EmptySeq
  <2>5. n = m
    <3>1. n = 0 \/ n <= got
      BY <2>1, <2>3, <2>4, PieceIsInLog
    <3> QED
      <4>1. n \in Nat /\ written \in Nat /\ MaxEntries \in Nat \ {0} /\ n <= MaxEntries
        BY <2>1, <2>2, Bounds
      <4>2. (n = written \/ n >= MaxEntries) /\ (n = 0 \/ n <= written)
        BY <2>1, <2>3, <2>4, <3>1
      <4> QED
        BY <4>1, <4>2
  <2>6. ASSUME NEW i \in 1..n PROVE shown[i].line = written - n + i
    BY <2>1, <2>3, <2>4, <2>6 DEF Piece
  <2>7. all \in Seq(Nat) /\ Len(all) = written
    <3>1. all \in [1..written -> Nat]
      BY <2>1
    <3>2. all \in Seq(Nat)
      BY <2>1, <3>1, SeqDef
    <3> QED
      BY <2>1, <3>2, LenProperties
  <2>8. \A i \in 1..written : all[i] = i
    OBVIOUS
  <2> HIDE DEF all
  <2>9. /\ Newest(all) \in Seq(Nat) /\ Len(Newest(all)) = m
        /\ \A i \in 1..m : Newest(all)[i] = all[written - m + i]
    BY <2>7, NewestFacts
  <2>10. m \in Nat /\ m <= written
    BY <2>1, Bounds
  <2> HIDE DEF m
  <2>11. ASSUME NEW i \in 1..m PROVE Newest(all)[i] = written - m + i
    <3>1. written - m + i \in 1..written
      BY <2>1, <2>10
    <3> QED
      BY <2>8, <2>9, <3>1
  <2>12. DOMAIN Newest(all) = 1..m
    BY <2>9, LenProperties
  <2>13. Newest(all) = [i \in 1..m |-> Newest(all)[i]]
    <3>1. Newest(all) \in [1..m -> Nat]
      BY <2>9, LenProperties
    <3> QED
      BY <3>1
  <2>14. [i \in 1..n |-> shown[i].line] = [i \in 1..m |-> Newest(all)[i]]
    BY <2>5, <2>6, <2>11
  <2> QED
    BY <2>2, <2>13, <2>14 DEF all
<1> QED
  BY <1>1, StreamInvariant, PTL

-----------------------------------------------------------------------------
(***************************************************************************)
(* The log: its list                                                       *)
(***************************************************************************)
\* The first n + 1 values of a list that entries are added to, one by one.
Adding(F, flat, es, n) ==
  F = [i \in 0..n |-> IF i = 0 THEN flat ELSE AddEntry(F[i - 1], es[i])]

\* There are such values: the recursion of AppendFlatten is well founded.
LEMMA AddingExists ==
  ASSUME NEW flat, NEW es, NEW n \in Nat
  PROVE  \E F : Adding(F, flat, es, n)
<1> DEFINE S == {k \in Nat : ~\E F : Adding(F, flat, es, k)}
<1>1. SUFFICES ASSUME S # {} PROVE FALSE
  OBVIOUS
<1>2. PICK k \in S : \A m \in S : k <= m
  <2>1. S \subseteq Nat
    OBVIOUS
  <2> HIDE DEF S
  <2> QED
    BY <1>1, <2>1, LeastNumber
<1>3. k # 0
  <2>1. Adding([i \in 0..0 |-> flat], flat, es, 0)
    BY DEF Adding
  <2> QED
    BY <2>1
<1>4. k - 1 \in Nat /\ k - 1 \notin S
  BY <1>2, <1>3
<1>5. PICK F : Adding(F, flat, es, k - 1)
  BY <1>4
<1> DEFINE G == [i \in 0..k |-> IF i = k THEN AddEntry(F[k - 1], es[k]) ELSE F[i]]
<1>6. ASSUME NEW i \in 0..k
      PROVE  G[i] = IF i = 0 THEN flat ELSE AddEntry(G[i - 1], es[i])
  <2>1. CASE i = k
    <3>1. k - 1 \in 0..k /\ k - 1 # k
      BY <1>3
    <3> QED
      BY <1>3, <2>1, <3>1
  <2>2. CASE i # k /\ i # 0
    <3>1. i \in 0..(k - 1) /\ i - 1 \in 0..k /\ i - 1 # k
      BY <2>2
    <3>2. F[i] = AddEntry(F[i - 1], es[i])
      BY <1>5, <2>2, <3>1 DEF Adding
    <3> QED
      BY <2>2, <3>1, <3>2
  <2>3. CASE i # k /\ i = 0
    <3>1. i \in 0..(k - 1)
      BY <1>3, <2>3
    <3> QED
      BY <1>5, <2>3, <3>1 DEF Adding
  <2> QED
    BY <2>1, <2>2, <2>3
<1>7. G = [i \in 0..k |-> G[i]]
  OBVIOUS
<1> HIDE DEF G
<1>8. Adding(G, flat, es, k)
  BY <1>6, <1>7 DEF Adding
<1> QED
  BY <1>2, <1>8

\* Their first, and how each follows from the one before.
LEMMA AddingSteps ==
  ASSUME NEW F, NEW flat, NEW es, NEW n \in Nat, Adding(F, flat, es, n)
  PROVE  F[0] = flat /\ \A i \in 1..n : F[i] = AddEntry(F[i - 1], es[i])
<1>1. 0 \in 0..n /\ \A i \in 1..n : i \in 0..n /\ i # 0
  OBVIOUS
<1> QED
  BY <1>1 DEF Adding

\* Adding entries to a list and then others is adding all of them.
LEMMA AddingGoesOn ==
  ASSUME NEW F, NEW G, NEW flat, NEW es, NEW et, NEW m \in Nat, NEW n \in Nat, NEW a \in 0..m,
         Adding(F, flat, es, m), Adding(G, F[a], et, n),
         NEW k \in 0..n, a + k <= m, \A i \in 1..k : et[i] = es[a + i]
  PROVE  G[k] = F[a + k]
<1> DEFINE S == {j \in Nat : j <= k /\ G[j] # F[a + j]}
<1>1. SUFFICES ASSUME S # {} PROVE FALSE
  BY DEF S
<1>2. PICK j \in S : \A i \in S : j <= i
  <2>1. S \subseteq Nat
    OBVIOUS
  <2> HIDE DEF S
  <2> QED
    BY <1>1, <2>1, LeastNumber
<1>3. j \in 0..n /\ a + j \in 0..m
  BY <1>2
<1>4. j # 0
  <2>1. G[0] = F[a] /\ a + 0 = a
    BY DEF Adding
  <2> QED
    BY <1>2, <2>1
<1>5. j - 1 \in Nat /\ G[j - 1] = F[a + (j - 1)]
  <2>1. j - 1 \in Nat /\ j - 1 <= k /\ ~(j <= j - 1)
    BY <1>2, <1>4
  <2> QED
    BY <1>2, <2>1
<1>6. G[j] = AddEntry(G[j - 1], et[j])
  BY <1>3, <1>4 DEF Adding
<1>7. F[a + j] = AddEntry(F[a + j - 1], es[a + j])
  <2>1. a + j # 0
    BY <1>2, <1>4
  <2> QED
    BY <1>3, <2>1 DEF Adding
<1>8. et[j] = es[a + j] /\ a + (j - 1) = a + j - 1
  BY <1>2, <1>4
<1> QED
  BY <1>2, <1>5, <1>6, <1>7, <1>8

\* The list is what the additions come to.
LEMMA Flattening ==
  ASSUME NEW flat, NEW es, Len(es) \in Nat
  PROVE  \E F : Adding(F, flat, es, Len(es)) /\ AppendFlatten(flat, es) = F[Len(es)]
<1> DEFINE F == CHOOSE F : F = [i \in 0..Len(es) |-> IF i = 0 THEN flat ELSE AddEntry(F[i - 1], es[i])]
<1>1. AppendFlatten(flat, es) = F[Len(es)]
  BY DEF AppendFlatten
<1>2. \E G : G = [i \in 0..Len(es) |-> IF i = 0 THEN flat ELSE AddEntry(G[i - 1], es[i])]
  <2>1. PICK G : Adding(G, flat, es, Len(es))
    BY AddingExists
  <2> QED
    BY <2>1 DEF Adding
<1>3. F = [i \in 0..Len(es) |-> IF i = 0 THEN flat ELSE AddEntry(F[i - 1], es[i])]
  BY <1>2
<1> HIDE DEF F
<1> QED
  BY <1>1, <1>3 DEF Adding

\* A list that starts as another does is that list with the rest appended: what
\* appendFlatten and fullFlatten promise each other.
LEMMA AppendingIsFull ==
  ASSUME NEW old \in Seq(Entries), NEW new \in Seq(Entries), Len(old) > 0, Len(old) <= Len(new),
         \A i \in 1..Len(old) : new[i] = old[i]
  PROVE  LET flat == FullFlatten(old) IN
         AppendFlatten([items |-> flat.items, lastDate |-> flat.lastDate],
                       SubSeq(new, Len(old) + 1, Len(new))) = FullFlatten(new)
<1> DEFINE none == [items |-> <<>>, lastDate |-> 0]
           flat == FullFlatten(old)
           m    == Len(old)
           n    == Len(new)
           rest == SubSeq(new, m + 1, n)
<1>1. m \in Nat /\ n \in Nat
  BY LenProperties
<1>2. \E F : Adding(F, none, new, n) /\ FullFlatten(new) = F[n]
  BY <1>1, Flattening DEF FullFlatten
<1>3. \E G : Adding(G, none, old, m) /\ flat = G[m]
  BY <1>1, Flattening DEF FullFlatten
<1>4. m # 0 /\ m <= n /\ n - m \in Nat
  BY <1>1
<1>5. /\ Len(rest) = n - m
      /\ \A i \in 1..(n - m) : rest[i] = new[m + i]
  <2>1. m + 1 \in Int /\ n \in Int /\ \A i \in (m + 1)..n : new[i] \in Entries
    <3>1. \A i \in (m + 1)..n : i \in 1..Len(new)
      BY <1>1
    <3> QED
      BY <1>1, <3>1, EntryTypes
  <2>2. /\ Len(rest) = IF m + 1 <= n THEN n - (m + 1) + 1 ELSE 0
        /\ \A i \in 1..(n - (m + 1) + 1) : rest[i] = new[(m + 1) + i - 1]
    <3> HIDE DEF m, n
    <3> QED
      BY <2>1, SubSeqProperties
  <2>3. n - (m + 1) + 1 = n - m /\ \A i \in Int : (m + 1) + i - 1 = m + i
    BY <1>1
  <2> QED
    BY <1>1, <2>2, <2>3
<1>6. \A i \in 1..m : old[i] = new[0 + i]
  OBVIOUS
<1>7. AppendFlatten([items |-> flat.items, lastDate |-> flat.lastDate], rest)
        = AppendFlatten([items |-> flat.items, lastDate |-> flat.lastDate], SubSeq(new, Len(old) + 1, Len(new)))
  OBVIOUS
<1> HIDE DEF rest, none, flat, m, n
<1>8. PICK F : Adding(F, none, new, n) /\ FullFlatten(new) = F[n]
  BY <1>2
<1>9. PICK G : Adding(G, none, old, m) /\ flat = G[m]
  BY <1>3
<1>10. G[m] = F[m]
  <2>1. F[0] = none
    BY <1>1, <1>8, AddingSteps
  <2>2. Adding(G, F[0], old, m)
    BY <1>9, <2>1
  <2>3. 0 \in 0..n /\ m \in 0..m /\ 0 + m <= n /\ 0 + m = m
    BY <1>1, <1>4
  <2>4. G[m] = F[0 + m]
    BY <1>1, <1>6, <1>8, <2>2, <2>3, AddingGoesOn
  <2> QED
    BY <2>3, <2>4
<1>11. [items |-> flat.items, lastDate |-> flat.lastDate] = flat
  <2>1. m \in 1..m
    BY <1>1, <1>4
  <2>2. G[m] = AddEntry(G[m - 1], old[m])
    BY <1>1, <1>9, <2>1, AddingSteps
  <2> QED
    BY <1>9, <2>2 DEF AddEntry
<1>12. PICK H : Adding(H, flat, rest, n - m) /\ AppendFlatten(flat, rest) = H[n - m]
  BY <1>4, <1>5, Flattening
<1>13. H[n - m] = F[n]
  <2>1. Adding(H, F[m], rest, n - m)
    BY <1>9, <1>10, <1>12
  <2>2. PICK d : d = n - m
    OBVIOUS
  <2>3. d \in Nat /\ d \in 0..d /\ m \in 0..n /\ m + d <= n /\ m + d = n
    BY <1>1, <1>4, <2>2
  <2>4. Adding(F, none, new, n) /\ Adding(H, F[m], rest, d)
    BY <1>8, <2>1, <2>2
  <2>5. \A i \in 1..d : rest[i] = new[m + i]
    BY <1>5, <2>2
  <2>6. H[d] = F[m + d]
    BY <1>1, <2>3, <2>4, <2>5, AddingGoesOn
  <2> QED
    BY <2>2, <2>3, <2>6
<1>14. AppendFlatten([items |-> flat.items, lastDate |-> flat.lastDate], rest) = FullFlatten(new)
  BY <1>8, <1>11, <1>12, <1>13
<1> QED
  BY <1>7, <1>14 DEF flat, rest, m, n
\* The first n + 1 values of a filter that entries pass, one by one.
Passing(F, es, q, n) ==
  F = [i \in 0..n |-> IF i = 0 THEN <<>>
                      ELSE IF es[i].line \in q THEN Append(F[i - 1], es[i]) ELSE F[i - 1]]

\* There are such values: the recursion of Filtered is well founded.
LEMMA PassingExists ==
  ASSUME NEW es, NEW q, NEW n \in Nat
  PROVE  \E F : Passing(F, es, q, n)
<1> DEFINE S == {k \in Nat : ~\E F : Passing(F, es, q, k)}
<1>1. SUFFICES ASSUME S # {} PROVE FALSE
  OBVIOUS
<1>2. PICK k \in S : \A m \in S : k <= m
  <2>1. S \subseteq Nat
    OBVIOUS
  <2> HIDE DEF S
  <2> QED
    BY <1>1, <2>1, LeastNumber
<1>3. k # 0
  <2>1. Passing([i \in 0..0 |-> <<>>], es, q, 0)
    BY DEF Passing
  <2> QED
    BY <2>1
<1>4. k - 1 \in Nat /\ k - 1 \notin S
  BY <1>2, <1>3
<1>5. PICK F : Passing(F, es, q, k - 1)
  BY <1>4
<1> DEFINE G == [i \in 0..k |-> IF i = k
                                THEN IF es[k].line \in q THEN Append(F[k - 1], es[k]) ELSE F[k - 1]
                                ELSE F[i]]
<1>6. ASSUME NEW i \in 0..k
      PROVE  G[i] = IF i = 0 THEN <<>>
                    ELSE IF es[i].line \in q THEN Append(G[i - 1], es[i]) ELSE G[i - 1]
  <2>1. CASE i = k
    <3>1. k - 1 \in 0..k /\ k - 1 # k
      BY <1>3
    <3> QED
      BY <1>3, <2>1, <3>1
  <2>2. CASE i # k /\ i # 0
    <3>1. i \in 0..(k - 1) /\ i - 1 \in 0..k /\ i - 1 # k
      BY <2>2
    <3>2. F[i] = IF es[i].line \in q THEN Append(F[i - 1], es[i]) ELSE F[i - 1]
      BY <1>5, <2>2, <3>1 DEF Passing
    <3> QED
      BY <2>2, <3>1, <3>2
  <2>3. CASE i # k /\ i = 0
    <3>1. i \in 0..(k - 1)
      BY <1>3, <2>3
    <3> QED
      BY <1>5, <2>3, <3>1 DEF Passing
  <2> QED
    BY <2>1, <2>2, <2>3
<1>7. G = [i \in 0..k |-> G[i]]
  OBVIOUS
<1> HIDE DEF G
<1>8. Passing(G, es, q, k)
  BY <1>6, <1>7 DEF Passing
<1> QED
  BY <1>2, <1>8

\* Their first, and how each follows from the one before.
LEMMA PassingSteps ==
  ASSUME NEW F, NEW es, NEW q, NEW n \in Nat, Passing(F, es, q, n)
  PROVE  /\ F[0] = <<>>
         /\ \A i \in 1..n :
              F[i] = IF es[i].line \in q THEN Append(F[i - 1], es[i]) ELSE F[i - 1]
<1>1. 0 \in 0..n /\ \A i \in 1..n : i \in 0..n /\ i # 0
  OBVIOUS
<1> QED
  BY <1>1 DEF Passing

\* What is filtered is what passes.
LEMMA Filtering ==
  ASSUME NEW es, NEW q, Len(es) \in Nat
  PROVE  \E F : Passing(F, es, q, Len(es)) /\ Filtered(es, q) = F[Len(es)]
<1> DEFINE F == CHOOSE F : F =
                  [i \in 0..Len(es) |->
                     IF i = 0 THEN <<>>
                     ELSE IF es[i].line \in q THEN Append(F[i - 1], es[i]) ELSE F[i - 1]]
<1>1. Filtered(es, q) = F[Len(es)]
  BY DEF Filtered
<1>2. \E G : G = [i \in 0..Len(es) |->
                    IF i = 0 THEN <<>>
                    ELSE IF es[i].line \in q THEN Append(G[i - 1], es[i]) ELSE G[i - 1]]
  <2>1. PICK G : Passing(G, es, q, Len(es))
    BY PassingExists
  <2> QED
    BY <2>1 DEF Passing
<1>3. F = [i \in 0..Len(es) |->
             IF i = 0 THEN <<>>
             ELSE IF es[i].line \in q THEN Append(F[i - 1], es[i]) ELSE F[i - 1]]
  BY <1>2
<1> HIDE DEF F
<1> QED
  BY <1>1, <1>3 DEF Passing

\* A selection from a piece: its lines pass the filter, they follow one another, and
\* none that passes is missing in between.
Sifted(s, q) ==
  /\ \A i \in 1..Len(s) : s[i].line \in q /\ s[i].run = s[1].run /\ s[i].conn = s[1].conn
  /\ \A i \in 2..Len(s) :
       /\ s[i - 1].line < s[i].line
       /\ \A l \in q : ~(s[i - 1].line < l /\ l < s[i].line)

\* What was sifted when the filter has come to line b.
SiftedTo(s, q, r, c, b) ==
  /\ s \in Seq(Entries) /\ Sifted(s, q)
  /\ \A i \in 1..Len(s) : s[i].run = r /\ s[i].conn = c
  /\ Len(s) > 0 => /\ s[Len(s)].line <= b
                   /\ \A l \in q : ~(s[Len(s)].line < l /\ l <= b)

\* The filter comes to one entry more.
LEMMA SiftingStep ==
  ASSUME NEW s, NEW q, q \subseteq Int, NEW r, NEW c, NEW b \in Int, SiftedTo(s, q, r, c, b - 1),
         NEW e \in Entries, e.run = r, e.conn = c, e.line = b
  PROVE  IF b \in q THEN SiftedTo(Append(s, e), q, r, c, b) ELSE SiftedTo(s, q, r, c, b)
<1>1. s \in Seq(Entries) /\ Len(s) \in Nat
  BY LenProperties DEF SiftedTo
<1>2. \A i \in 1..Len(s) : s[i].line \in Int
  BY <1>1, EntryTypes
<1>3. CASE b \notin q
  <2>1. ASSUME Len(s) > 0
        PROVE  s[Len(s)].line <= b /\ \A l \in q : ~(s[Len(s)].line < l /\ l <= b)
    <3>1. Len(s) \in 1..Len(s) /\ s[Len(s)].line \in Int
      BY <1>1, <1>2, <2>1
    <3>2. s[Len(s)].line <= b - 1 /\ \A l \in q : ~(s[Len(s)].line < l /\ l <= b - 1)
      BY <2>1 DEF SiftedTo
    <3>3. \A l \in q : l \in Int /\ (l <= b => l <= b - 1)
      BY <1>3
    <3> QED
      BY <3>1, <3>2, <3>3
  <2>2. SiftedTo(s, q, r, c, b)
    BY <2>1 DEF SiftedTo
  <2> QED
    BY <1>3, <2>2
<1>4. CASE b \in q
  <2> DEFINE t == Append(s, e)
             n == Len(s)
  <2>1. /\ t \in Seq(Entries) /\ Len(t) = n + 1
        /\ \A i \in 1..n : t[i] = s[i]
        /\ t[n + 1] = e
    BY <1>1, AppendProperties
  <2> HIDE DEF t
  <2>2. ASSUME NEW i \in 1..(n + 1) PROVE t[i].line \in q /\ t[i].run = r /\ t[i].conn = c
    <3>1. CASE i \in 1..n
      BY <2>1, <3>1 DEF SiftedTo, Sifted
    <3>2. CASE i = n + 1
      BY <1>4, <2>1, <3>2
    <3> QED
      BY <1>1, <3>1, <3>2
  <2>3. 1 \in 1..(n + 1)
    BY <1>1
  <2>4. ASSUME NEW i \in 2..(n + 1)
        PROVE  /\ t[i - 1].line < t[i].line
               /\ \A l \in q : ~(t[i - 1].line < l /\ l < t[i].line)
    <3>1. CASE i \in 2..n
      <4>1. t[i] = s[i] /\ t[i - 1] = s[i - 1]
        BY <1>1, <2>1, <3>1
      <4> QED
        BY <3>1, <4>1 DEF SiftedTo, Sifted
    <3>2. CASE i = n + 1
      <4>1. n > 0 /\ n \in 1..n /\ i - 1 = n
        BY <1>1, <3>2
      <4>2. t[i - 1] = s[n] /\ t[i].line = b /\ s[n].line \in Int
        BY <1>2, <2>1, <3>2, <4>1
      <4>3. s[n].line <= b - 1 /\ \A l \in q : ~(s[n].line < l /\ l <= b - 1)
        BY <4>1 DEF SiftedTo
      <4>4. \A l \in q : l \in Int /\ (l < b => l <= b - 1)
        OBVIOUS
      <4> QED
        BY <4>2, <4>3, <4>4
    <3>3. i \in 2..n \/ i = n + 1
      BY <1>1
    <3> QED
      BY <3>1, <3>2, <3>3
  <2>5. Sifted(t, q)
    BY <2>1, <2>2, <2>3, <2>4 DEF Sifted
  <2>6. t[Len(t)].line <= b /\ \A l \in q : ~(t[Len(t)].line < l /\ l <= b)
    <3>1. t[Len(t)].line = b
      BY <2>1
    <3>2. \A l \in q : l \in Int
      OBVIOUS
    <3> QED
      BY <3>1, <3>2
  <2>7. SiftedTo(t, q, r, c, b)
    BY <2>1, <2>2, <2>5, <2>6 DEF SiftedTo
  <2> QED
    BY <1>4, <2>7 DEF t
<1> QED
  BY <1>3, <1>4

\* What a filter makes of a piece, and that it is no longer.
LEMMA FilteredFacts ==
  ASSUME NEW s \in Seq(Entries), NEW q, q \subseteq Int, NEW r, NEW c, NEW a \in Int,
         \A i \in 1..Len(s) : s[i].run = r /\ s[i].conn = c /\ s[i].line = a + i
  PROVE  /\ Filtered(s, q) \in Seq(Entries) /\ Len(Filtered(s, q)) <= Len(s)
         /\ Sifted(Filtered(s, q), q)
<1>1. Len(s) \in Nat
  BY LenProperties
<1>2. PICK F : Passing(F, s, q, Len(s)) /\ Filtered(s, q) = F[Len(s)]
  BY <1>1, Filtering
<1> DEFINE Good(k) == SiftedTo(F[k], q, r, c, a + k) /\ Len(F[k]) <= k
           S == {k \in Nat : k <= Len(s) /\ ~Good(k)}
<1>3. Good(0)
  <2>1. F[0] = <<>>
    BY <1>1, <1>2, PassingSteps
  <2> QED
    BY <2>1, Empty DEF SiftedTo, Sifted
<1>4. ASSUME NEW k \in 1..Len(s), Good(k - 1) PROVE Good(k)
  <2>1. F[k] = IF s[k].line \in q THEN Append(F[k - 1], s[k]) ELSE F[k - 1]
    BY <1>1, <1>2, PassingSteps
  <2>2. s[k] \in Entries /\ s[k].run = r /\ s[k].conn = c /\ s[k].line = a + k
    BY EntryTypes
  <2>3. a + k \in Int /\ a + k - 1 = a + (k - 1)
    OBVIOUS
  <2>4. SiftedTo(F[k - 1], q, r, c, a + k - 1)
    BY <1>4, <2>3
  <2>5. SiftedTo(F[k], q, r, c, a + k)
    <3> HIDE DEF Good, S
    <3> DEFINE f == F[k - 1]
               e == s[k]
               b == a + k
    <3>1. SiftedTo(f, q, r, c, b - 1) /\ e \in Entries /\ e.run = r /\ e.conn = c /\ e.line = b /\ b \in Int
      BY <2>2, <2>3, <2>4
    <3> HIDE DEF f, e, b
    <3>2. IF b \in q THEN SiftedTo(Append(f, e), q, r, c, b) ELSE SiftedTo(f, q, r, c, b)
      BY <3>1, SiftingStep
    <3> QED
      BY <2>1, <2>2, <3>2 DEF f, e, b
  <2>6. F[k - 1] \in Seq(Entries) /\ Len(F[k - 1]) \in Nat /\ Len(F[k - 1]) <= k - 1
    BY <1>4, LenProperties DEF SiftedTo
  <2>7. Len(F[k]) <= k
    <3>1. Len(Append(F[k - 1], s[k])) = Len(F[k - 1]) + 1
      BY <2>2, <2>6, AppendProperties
    <3> QED
      BY <2>1, <2>6, <3>1
  <2> QED
    BY <2>5, <2>7
<1>5. S = {}
  <2> HIDE DEF Good
  <2>1. SUFFICES ASSUME S # {} PROVE FALSE
    OBVIOUS
  <2>2. PICK k \in S : \A m \in S : k <= m
    <3>1. S \subseteq Nat
      OBVIOUS
    <3> HIDE DEF S
    <3> QED
      BY <2>1, <3>1, LeastNumber
  <2>3. k \in 1..Len(s)
    BY <1>1, <1>3, <2>2
  <2>4. k - 1 \in Nat /\ k - 1 <= Len(s) /\ k - 1 \notin S
    BY <1>1, <2>2, <2>3
  <2> QED
    BY <1>4, <2>2, <2>3, <2>4
<1>6. Good(Len(s))
  BY <1>1, <1>5
<1> QED
  BY <1>2, <1>6 DEF SiftedTo

\* Two selections by one filter that start with one entry go on alike: the ends of
\* a list say all that classifyEntriesChange has to know of it.
LEMMA SiftedAgree ==
  ASSUME NEW s \in Seq(Entries), NEW t \in Seq(Entries), NEW q, Sifted(s, q), Sifted(t, q),
         Len(s) <= Len(t), Len(s) > 0, s[1] = t[1]
  PROVE  \A i \in 1..Len(s) : t[i] = s[i]
<1> DEFINE S == {k \in Nat : k \in 1..Len(s) /\ t[k] # s[k]}
<1>1. SUFFICES ASSUME S # {} PROVE FALSE
  BY LenProperties
<1>2. PICK k \in S : \A m \in S : k <= m
  <2>1. S \subseteq Nat
    OBVIOUS
  <2> HIDE DEF S
  <2> QED
    BY <1>1, <2>1, LeastNumber
<1>3. Len(s) \in Nat /\ Len(t) \in Nat
  BY LenProperties
<1>4. k \in 2..Len(s) /\ k \in 2..Len(t)
  BY <1>2, <1>3
<1>5. s[k - 1] = t[k - 1]
  <2>1. k - 1 \in Nat /\ k - 1 \in 1..Len(s) /\ k - 1 \notin S
    BY <1>2, <1>3, <1>4
  <2> QED
    BY <2>1
<1>6. k \in 1..Len(s) /\ k \in 1..Len(t)
  BY <1>3, <1>4
<1>7. s[k].line = t[k].line
  <2>1. s[k].line \in Int /\ t[k].line \in Int
    BY <1>6, EntryTypes
  <2>2. s[k].line \in q /\ t[k].line \in q
    BY <1>6 DEF Sifted
  <2>3. ~(t[k - 1].line < s[k].line /\ s[k].line < t[k].line)
    BY <1>4, <2>2 DEF Sifted
  <2>4. ~(s[k - 1].line < t[k].line /\ t[k].line < s[k].line)
    BY <1>4, <2>2 DEF Sifted
  <2>5. s[k - 1].line < s[k].line /\ t[k - 1].line < t[k].line
    BY <1>4 DEF Sifted
  <2> QED
    BY <1>5, <2>1, <2>3, <2>4, <2>5
<1>8. s[k].run = t[k].run /\ s[k].conn = t[k].conn
  BY <1>6 DEF Sifted
<1>9. s[k] \in Entries /\ t[k] \in Entries
  BY <1>6, EntryTypes
<1>10. s[k] = t[k]
  BY <1>7, <1>8, <1>9, EntryEqual, Zenon
<1> QED
  BY <1>2, <1>10

\* The list is the one of what it was given, which passed the filter it knows.
Listed ==
  /\ seen \in Seq(Entries) /\ Len(seen) <= MaxEntries /\ Sifted(seen, list.query)
  /\ list.entries = seen
  /\ list.items = FullFlatten(seen).items /\ list.lastDate = FullFlatten(seen).lastDate
  /\ query \in Queries /\ picked.index \in 0..MaxEntries
  /\ SelectionStaysPut

\* The list of nothing.
LEMMA EmptyList == FullFlatten(<<>>) = [items |-> <<>>, lastDate |-> 0]
<1> DEFINE none == [items |-> <<>>, lastDate |-> 0]
<1>1. Len(<<>>) = 0 /\ 0 \in Nat
  BY Empty
<1>2. PICK F : Adding(F, none, <<>>, 0) /\ FullFlatten(<<>>) = F[0]
  BY <1>1, Flattening DEF FullFlatten
<1> HIDE DEF none
<1>3. F[0] = none
  BY <1>2, AddingSteps
<1> QED
  BY <1>2, <1>3 DEF none

\* The list as it starts.
LEMMA ListedInitially == StreamInit => Listed
<1> SUFFICES ASSUME StreamInit PROVE Listed
  OBVIOUS
<1>1. /\ query \in Queries /\ seen = <<>> /\ list = NoList /\ picked = NoChoice
  BY DEF StreamInit
<1>2. /\ list.entries = <<>> /\ list.items = <<>> /\ list.lastDate = 0 /\ picked.index = 0
  BY <1>1 DEF NoList, NoChoice
<1>3. FullFlatten(seen).items = <<>> /\ FullFlatten(seen).lastDate = 0
  BY <1>1, EmptyList
<1>4. Sifted(seen, list.query)
  BY <1>1, Empty DEF Sifted
<1>5. seen \in Seq(Entries) /\ Len(seen) <= MaxEntries /\ 0 \in 0..MaxEntries
  BY <1>1, Empty, Bounds
<1> QED
  BY <1>1, <1>2, <1>3, <1>4, <1>5 DEF Listed, SelectionStaysPut

\* What the list is given.
LEMMA ShownFiltered ==
  ASSUME Displayed, Listed
  PROVE  LET es == Filtered(shown, query) IN
         es \in Seq(Entries) /\ Len(es) \in Nat /\ Len(es) <= MaxEntries /\ Sifted(es, query)
<1>1. shown \in Seq(Entries) /\ Len(shown) \in Nat /\ DOMAIN shown = 1..Len(shown)
  BY LenProperties DEF Displayed
<1>2. query \subseteq Int
  BY StreamAssumption, Bounds DEF Listed
<1>3. PICK a \in Int : Len(shown) > 0 => a = shown[1].line - 1
  <2>1. CASE Len(shown) > 0
    <3>1. 1 \in 1..Len(shown)
      BY <1>1, <2>1
    <3>2. shown[1].line - 1 \in Int
      BY <1>1, <3>1, EntryTypes
    <3> QED
      BY <3>2
  <2>2. CASE ~(Len(shown) > 0)
    BY <2>2
  <2> QED
    BY <2>1, <2>2
<1>4. ASSUME NEW i \in 1..Len(shown)
      PROVE  shown[i].run = run /\ shown[i].conn = shown[1].conn /\ shown[i].line = a + i
  <2>1. /\ shown[i].run = run /\ shown[i].conn = shown[1].conn
        /\ shown[i].line = shown[1].line + i - 1
    BY <1>1 DEF Displayed, ShownIsOnePiece
  <2>2. 1 \in 1..Len(shown) /\ Len(shown) > 0
    BY <1>1
  <2>3. shown[1].line \in Int
    BY <1>1, <2>2, EntryTypes
  <2>4. a = shown[1].line - 1
    BY <1>3, <2>2
  <2> QED
    BY <2>1, <2>3, <2>4
<1> DEFINE es == Filtered(shown, query)
<1>5. es \in Seq(Entries) /\ Len(es) <= Len(shown) /\ Sifted(es, query)
  BY <1>1, <1>2, <1>4, FilteredFacts
<1>6. Len(shown) <= MaxEntries
  BY DEF Displayed
<1> HIDE DEF es
<1>7. Len(es) \in Nat
  BY <1>5, LenProperties
<1>8. Len(es) <= MaxEntries
  BY <1>1, <1>5, <1>6, <1>7, Bounds
<1> QED
  BY <1>5, <1>7, <1>8 DEF es

\* Where the entries are not replaced, the old ones are still there.
LEMMA KeptIsPrefix ==
  ASSUME Listed, NEW es \in Seq(Entries), Sifted(es, query),
         NEW change, change = Classify(list.entries, es, list.query, query), change # "replace"
  PROVE  /\ Len(seen) \in Nat /\ Len(es) \in Nat /\ Len(seen) <= Len(es)
         /\ \A i \in 1..Len(seen) : es[i] = seen[i]
         /\ (change = "unchanged" /\ es = seen) \/ (change = "append" /\ Len(seen) > 0)
         /\ list.query = query
<1>1. list.entries = seen /\ seen \in Seq(Entries) /\ Len(seen) \in Nat /\ Len(es) \in Nat
  BY LenProperties DEF Listed
<1>2. /\ list.query = query
      /\ \/ /\ change = "unchanged" /\ Len(es) = Len(seen)
            /\ Len(seen) = 0 \/ es[1] = seen[1]
         \/ change = "append" /\ Len(seen) > 0 /\ Len(es) > Len(seen) /\ es[1] = seen[1]
  BY <1>1 DEF Classify
<1>3. Len(seen) <= Len(es)
  BY <1>1, <1>2
<1>4. ASSUME Len(seen) > 0 PROVE \A i \in 1..Len(seen) : es[i] = seen[i]
  <2>1. Sifted(seen, query)
    BY <1>2 DEF Listed
  <2>2. seen[1] = es[1]
    BY <1>1, <1>2, <1>4
  <2> QED
    BY <1>1, <1>3, <1>4, <2>1, <2>2, SiftedAgree
<1>5. \A i \in 1..Len(seen) : es[i] = seen[i]
  BY <1>1, <1>4
<1>6. Len(es) = Len(seen) => es = seen
  BY <1>1, <1>5, SeqEqual
<1> QED
  BY <1>1, <1>2, <1>3, <1>5, <1>6

\* Rendering leaves the list of what it was given, and a valid selection on its line.
LEMMA RenderKeepsList ==
  ASSUME Displayed, Listed, Render PROVE Listed'
<1> DEFINE es     == Filtered(shown, query)
           change == Classify(list.entries, es, list.query, query)
           flat   == Flattened(es, change)
<1>1. es \in Seq(Entries) /\ Len(es) \in Nat /\ Len(es) <= MaxEntries /\ Sifted(es, query)
  BY ShownFiltered
<1>2. /\ seen' = es /\ query' = query
      /\ list' = IF change = "unchanged" THEN list
                 ELSE [entries |-> es, query |-> query, items |-> flat.items,
                       lastDate |-> flat.lastDate]
      /\ picked' = IF Resets(es, change) THEN NoChoice ELSE picked
  BY DEF Render
<1>3. /\ seen \in Seq(Entries) /\ Len(seen) \in Nat /\ DOMAIN seen = 1..Len(seen)
      /\ list.entries = seen /\ query \in Queries /\ picked.index \in 0..MaxEntries
  BY LenProperties DEF Listed
<1>4. change # "replace" =>
        /\ Len(seen) <= Len(es) /\ \A i \in 1..Len(seen) : es[i] = seen[i]
        /\ (change = "unchanged" /\ es = seen) \/ (change = "append" /\ Len(seen) > 0)
        /\ list.query = query
  <2> HIDE DEF es
  <2> DEFINE ch == change
  <2>1. ch = Classify(list.entries, es, list.query, query)
    OBVIOUS
  <2> HIDE DEF ch
  <2>2. ch # "replace" =>
        /\ Len(seen) <= Len(es) /\ \A i \in 1..Len(seen) : es[i] = seen[i]
        /\ (ch = "unchanged" /\ es = seen) \/ (ch = "append" /\ Len(seen) > 0)
        /\ list.query = query
    BY <1>1, <2>1, KeptIsPrefix
  <2> QED
    BY <2>2 DEF ch
<1>5. DOMAIN es = 1..Len(es)
  BY <1>1, LenProperties
<1>6. flat = Flattened(es, change)
  OBVIOUS
<1> HIDE DEF es, change, flat
<1>7. change = "append" => flat = FullFlatten(es)
  <2> SUFFICES ASSUME change = "append" PROVE flat = FullFlatten(es)
    OBVIOUS
  <2>1. Len(seen) > 0 /\ Len(seen) <= Len(es) /\ \A i \in 1..Len(seen) : es[i] = seen[i]
    BY <1>4
  <2>2. LET full == FullFlatten(seen) IN
        AppendFlatten([items |-> full.items, lastDate |-> full.lastDate],
                      SubSeq(es, Len(seen) + 1, Len(es))) = FullFlatten(es)
    BY <1>1, <1>3, <2>1, AppendingIsFull
  <2>3. list.items = FullFlatten(seen).items /\ list.lastDate = FullFlatten(seen).lastDate
    BY DEF Listed
  <2>4. flat = AppendFlatten([items |-> list.items, lastDate |-> list.lastDate],
                             SubSeq(es, Len(seen) + 1, Len(es)))
    BY <1>3, <1>6 DEF Flattened
  <2> QED
    BY <2>2, <2>3, <2>4
<1>8. change = "replace" => flat = FullFlatten(es)
  BY <1>6 DEF Flattened
<1>9. /\ list'.entries = es /\ Sifted(es, list'.query)
      /\ list'.items = FullFlatten(es).items /\ list'.lastDate = FullFlatten(es).lastDate
  <2>1. CASE change = "unchanged"
    <3>1. list' = list /\ es = seen
      BY <1>2, <1>4, <2>1
    <3> QED
      BY <3>1 DEF Listed
  <2>2. CASE change # "unchanged"
    <3>1. flat = FullFlatten(es)
      BY <1>4, <1>7, <1>8, <2>2
    <3>2. list' = [entries |-> es, query |-> query, items |-> flat.items, lastDate |-> flat.lastDate]
      BY <1>2, <2>2
    <3>3. list'.entries = es /\ list'.query = query /\ list'.items = flat.items /\ list'.lastDate = flat.lastDate
      BY <3>2
    <3> QED
      BY <1>1, <3>1, <3>3
  <2> QED
    BY <2>1, <2>2
<1>10. /\ picked'.index \in 0..MaxEntries
       /\ picked'.index # 0 => picked'.index \in DOMAIN es /\ es[picked'.index] = picked'.entry
  <2>1. CASE Resets(es, change)
    <3>1. picked' = NoChoice
      BY <1>2, <2>1
    <3>2. picked'.index = 0
      BY <3>1 DEF NoChoice
    <3> QED
      BY <3>2, Bounds
  <2>2. CASE ~Resets(es, change)
    <3>1. picked' = picked
      BY <1>2, <2>2
    <3>2. CASE picked.index = 0
      BY <1>3, <3>1, <3>2
    <3>3. CASE picked.index # 0
      <4>1. picked.index \in 1..Len(seen) /\ seen[picked.index] = picked.entry
        BY <1>3, <3>3 DEF Listed, SelectionStaysPut
      <4>2. seen # <<>>
        BY <4>1, Empty
      <4>3. change # "replace"
        BY <1>3, <2>2, <4>2 DEF Resets
      <4>4. picked.index \in 1..Len(es) /\ es[picked.index] = seen[picked.index]
        BY <1>1, <1>3, <1>4, <4>1, <4>3
      <4> QED
        BY <1>3, <1>5, <3>1, <4>1, <4>4
    <3> QED
      BY <3>2, <3>3
  <2> QED
    BY <2>1, <2>2
<1> QED
  BY <1>1, <1>2, <1>3, <1>9, <1>10 DEF Listed, SelectionStaysPut

\* No step disturbs the list.
LEMMA ListedStays == Displayed /\ Listed /\ [StreamNext]_streamVars => Listed'
<1> SUFFICES ASSUME Displayed, Listed, [StreamNext]_streamVars PROVE Listed'
  OBVIOUS
<1>1. ASSUME UNCHANGED view PROVE Listed'
  BY <1>1 DEF Listed, view, SelectionStaysPut
<1>2. CASE WriteLine \/ FinishLog \/ Start \/ Disable \/ HearAbort \/ Connected \/ DelayEnds \/ StreamDone
           \/ Flush
  BY <1>1, <1>2 DEF WriteLine, FinishLog, Start, Disable, HearAbort, Connected, DelayEnds, StreamDone, Flush
<1>3. ASSUME NEW transient \in BOOLEAN, FetchFails(transient) \/ StreamBreaks(transient)
      PROVE  Listed'
  BY <1>1, <1>3 DEF FetchFails, StreamBreaks, Fail
<1>4. ASSUME NEW n \in Lines, ReadChunk(n) PROVE Listed'
  BY <1>1, <1>4 DEF ReadChunk
<1>5. CASE Render
  BY <1>5, RenderKeepsList
<1>6. ASSUME NEW q \in Queries, SetQuery(q) PROVE Listed'
  BY <1>6 DEF SetQuery, Listed, SelectionStaysPut
<1>7. ASSUME NEW i \in 1..MaxEntries, Select(i) PROVE Listed'
  <2>1. /\ i \in DOMAIN seen /\ picked' = [index |-> i, entry |-> seen[i]]
        /\ UNCHANGED <<query, seen, list>>
    BY <1>7 DEF Select
  <2>2. picked'.index = i /\ picked'.entry = seen[i] /\ i \in 0..MaxEntries
    BY <2>1, Bounds
  <2> QED
    BY <2>1, <2>2 DEF Listed, SelectionStaysPut
<1>8. CASE UNCHANGED streamVars
  BY <1>1, <1>8 DEF streamVars
<1> QED
  BY <1>2, <1>3, <1>4, <1>5, <1>6, <1>7, <1>8 DEF StreamNext

\* So it is in every state.
LEMMA ListInvariant == StreamSpec => []Listed
<1>1. StreamInit => Listed
  BY ListedInitially
<1>2. StreamInv /\ Listed /\ [StreamNext]_streamVars => Listed'
  BY ListedStays DEF StreamInv
<1> QED
  BY <1>1, <1>2, StreamInvariant, PTL DEF StreamSpec

\* The list that is patched, appended to as long as its two ends are where they were,
\* is the one that would be built anew (useIncrementalFlatten).
THEOREM PatchedListIsFull == StreamSpec => []ListIsFull
<1>1. Listed => ListIsFull
  BY DEF Listed, ListIsFull
<1> QED
  BY <1>1, ListInvariant, PTL

\* A selection is an index, and it is void as soon as the index may mean another line
\* (useIncrementalFlatten's resetCount and the selection of LogList).
THEOREM SelectionKeepsItsLine == StreamSpec => []SelectionStaysPut
<1>1. Listed => SelectionStaysPut
  BY DEF Listed
<1> QED
  BY <1>1, ListInvariant, PTL

\* Every variable of the stream keeps its type, the buffers their bound, and the phase
\* is the one of the run that is active.
THEOREM StreamTypeCorrect == StreamSpec => []StreamTypeOK
<1>1. ASSUME NEW s \in Seq(Entries), Len(s) <= MaxEntries PROVE Short(s)
  BY <1>1, LenProperties, ElementOfSeq DEF Short
<1>2. ASSUME StreamInv, Listed PROVE StreamTypeOK
  <2>1. Short(pending) /\ Short(acc) /\ Short(shown) /\ Short(seen)
    BY <1>1, <1>2 DEF StreamInv, Windows, Displayed, Listed, Piece
  <2>2. conn \in 0..(MaxBreaks + 1)
    BY <1>2, Bounds DEF StreamInv, Control
  <2> QED
    BY <1>2, <2>1, <2>2 DEF StreamInv, Control, Listed, StreamTypeOK
<1> QED
  BY <1>2, StreamInvariant, ListInvariant, PTL

=============================================================================
