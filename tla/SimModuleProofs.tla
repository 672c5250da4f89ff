--------------------------- MODULE SimModuleProofs ---------------------------
(***************************************************************************)
(* What holds of the simulation module and its viewer for every length of  *)
(* the history, number of bodies, cameras and states, and however many     *)
(* events the user causes.                                                 *)
(***************************************************************************)
EXTENDS SimModule, TLAPS

(* The ring buffer.                                                        *)

\* A number below n is its own remainder, with or without one turn more.
LEMMA Modulo ==
  ASSUME NEW n \in Nat \ {0}, NEW x \in 0..(n - 1)
  PROVE  /\ x % n = x
         /\ (x + n) % n = x
  OBVIOUS

\* The slot that lies k steps before the cursor c, around the end of the buffer.
Back(c, k) == IF k <= c THEN c - k ELSE c - k + nhistory_

\* The two remainders of the code, which have the sign of their left operands,
\* find the slot k steps back.
LEMMA SlotOf ==
  ASSUME NEW c \in Slots, NEW k \in Slots
  PROVE  /\ Rem(Rem(-k + c, nhistory_) + nhistory_, nhistory_) = Back(c, k)
         /\ Back(c, k) \in Slots
  <1>0. /\ nhistory_ \in Nat \ {0} /\ c \in 0..(nhistory_ - 1) /\ k \in 0..(nhistory_ - 1)
    BY ViewerAssumption DEF Slots
  <1>1. CASE k <= c
    <2>1. c - k \in 0..(nhistory_ - 1) /\ c - k >= 0 /\ (c - k) + nhistory_ >= 0
      BY <1>0, <1>1
    <2>2. Rem(-k + c, nhistory_) = c - k
      BY <1>0, <2>1, Modulo DEF Rem
    <2>3. ((c - k) + nhistory_) % nhistory_ = c - k
      BY <1>0, <2>1, Modulo
    <2>4. Rem((c - k) + nhistory_, nhistory_) = c - k
      BY <1>0, <2>1, <2>3 DEF Rem
    <2> QED
      BY <1>0, <1>1, <2>1, <2>2, <2>4 DEF Back, Slots
  <1>2. CASE ~(k <= c)
    <2>1. k - c \in 0..(nhistory_ - 1) /\ -(-k + c) = k - c /\ -k + c < 0
      BY <1>0, <1>2
    <2>2. Rem(-k + c, nhistory_) = -(k - c)
      BY <1>0, <2>1, Modulo DEF Rem
    <2>3. (c - k + nhistory_) \in 0..(nhistory_ - 1)
      BY <1>0, <1>2
    <2>4. Rem(-(k - c) + nhistory_, nhistory_) = c - k + nhistory_
      BY <1>0, <2>1, <2>3, Modulo DEF Rem
    <2> QED
      BY <1>0, <1>2, <2>2, <2>3, <2>4 DEF Back, Slots
  <1> QED
    BY <1>1, <1>2

\* HistoryIsLog, with the slots named.
RingIsLog == \A k \in Slots : history_[Back(history_cursor_, k)] = log[k + 1]

\* HistoryIsLog says the same.
LEMMA RingFacts ==
  /\ history_cursor_ \in Slots => (HistoryIsLog <=> RingIsLog)
  /\ history_cursor_' \in Slots => (HistoryIsLog' <=> RingIsLog')
  BY SlotOf DEF HistoryIsLog, RingIsLog, ScrubSlot, Slots

\* Recording a state moves every older one a step further back, also over the end
\* of the buffer, and overwrites the oldest.
LEMMA HistoryStep ==
  ASSUME NEW s \in State, history_ \in [Slots -> State], history_cursor_ \in Slots,
         log \in [1..nhistory_ -> State], RingIsLog, AddToHistory(s)
  PROVE  /\ history_' \in [Slots -> State] /\ history_cursor_' \in Slots
         /\ log' \in [1..nhistory_ -> State]
         /\ RingIsLog'
  <1> DEFINE c == history_cursor_
             e == IF c + 1 = nhistory_ THEN 0 ELSE c + 1
  <1>0. nhistory_ \in Nat \ {0} /\ c \in 0..(nhistory_ - 1)
    BY ViewerAssumption DEF Slots
  <1>1. history_cursor_' = e
    <2>1. CASE c + 1 = nhistory_
      <3>1. (0 + nhistory_) % nhistory_ = 0
        BY <1>0, Modulo
      <3> QED
        BY <1>0, <2>1, <3>1 DEF AddToHistory
    <2>2. CASE c + 1 # nhistory_
      <3>1. c + 1 \in 0..(nhistory_ - 1)
        BY <1>0, <2>2
      <3> QED
        BY <1>0, <2>2, <3>1, Modulo DEF AddToHistory
    <2> QED
      BY <2>1, <2>2
  <1>2. e \in Slots
    BY <1>0 DEF Slots
  <1>3. /\ history_' = [history_ EXCEPT ![e] = s]
        /\ log' = [k \in 1..nhistory_ |-> IF k = 1 THEN s ELSE log[k - 1]]
    BY <1>1 DEF AddToHistory
  <1>4. history_' \in [Slots -> State] /\ log' \in [1..nhistory_ -> State]
    BY <1>0, <1>2, <1>3
  <1>5. ASSUME NEW k \in Slots PROVE history_'[Back(e, k)] = log'[k + 1]
    <2>0. k \in 0..(nhistory_ - 1) /\ k + 1 \in 1..nhistory_
      BY <1>0 DEF Slots
    <2>1. CASE k = 0
      <3>1. Back(e, k) = e
        BY <1>0, <2>1 DEF Back
      <3> QED
        BY <1>0, <1>2, <1>3, <2>0, <2>1, <3>1
    <2>2. CASE k # 0
      <3>1. k - 1 \in Slots /\ k + 1 # 1 /\ (k + 1) - 1 = (k - 1) + 1
        BY <1>0, <2>0, <2>2 DEF Slots
      <3>2. Back(e, k) = Back(c, k - 1) /\ Back(e, k) # e
        BY <1>0, <2>0, <2>2 DEF Back
      <3>3. Back(c, k - 1) \in Slots
        BY <3>1, SlotOf
      <3>4. history_'[Back(e, k)] = history_[Back(c, k - 1)]
        BY <1>2, <1>3, <3>2, <3>3
      <3>5. log'[k + 1] = log[(k - 1) + 1]
        BY <1>3, <2>0, <3>1
      <3> QED
        BY <3>1, <3>4, <3>5 DEF RingIsLog
    <2> QED
      BY <2>1, <2>2
  <1> QED
    BY <1>1, <1>2, <1>4, <1>5 DEF RingIsLog

-----------------------------------------------------------------------------
(* Which actions move which part of the viewer's state.                    *)

\* The history changes when a model is loaded and when a step is recorded.
LEMMA HistoryMoves ==
  ASSUME Next
  PROVE  \/ UNCHANGED histVars
         \/ LoadOnRenderThread
         \/ KeyRight /\ AddToHistory(d') /\ d' = Stepped(d)
  <1> USE DEF vars, viewerVars, simVars, histVars, UnchangedViewerButLoad, UnchangedButQuit,
              UnchangedButRun, UnchangedButView
  <1>1. CASE Frame
    <2>1. CASE FrameBegin
      BY <2>1 DEF FrameBegin
    <2>2. CASE Render \/ LoopEnd
      BY <2>2 DEF Render, LoopEnd
    <2>3. CASE UiEvent
      BY <2>3 DEF UiEvent, CloseWindow, Quit, DropFile, Ask, RunItem, Scrubber, JointSlider,
         KeySpace, KeyRight, KeyLeft, KeyPageUp, KeyCamera, KeyEscape, RenderingItem, Press,
         Release, OnWindowResize, KeyTab, Redraw
    <2> QED
      BY <1>1, <2>1, <2>2, <2>3 DEF Frame
  <1>2. CASE SyncStep
    BY <1>2 DEF SyncStep, Sync
  <1>3. CASE ~Frame /\ ~SyncStep
    BY <1>3 DEF Next, Start, RenderCreate, RenderLoadXML, StartFlag, StartLoad, StartWake,
       StartNames, Shutdown, Warm, CmdArrives, CmdTooEarly, CmdStep
  <1> QED
    BY <1>1, <1>2, <1>3

\* The camera is changed by the load, the clicks that Sync handles, the keys and
\* the panel.
LEMMA CameraMoves ==
  ASSUME Next
  PROVE  \/ UNCHANGED camVars
         \/ LoadOnRenderThread \/ SyncView \/ KeyCamera \/ KeyEscape
         \/ \E c \in 0..(ncam_ + 1) : RenderingItem(c)
  <1> USE DEF vars, viewerVars, simVars, camVars, UnchangedViewerButLoad, UnchangedButQuit,
              UnchangedButRun, UnchangedButView
  <1>1. CASE Frame
    <2>1. CASE FrameBegin
      BY <2>1 DEF FrameBegin
    <2>2. CASE Render \/ LoopEnd
      BY <2>2 DEF Render, LoopEnd
    <2>3. CASE UiEvent
      BY <2>3 DEF UiEvent, CloseWindow, Quit, DropFile, Ask, RunItem, Scrubber, JointSlider,
         KeySpace, KeyRight, KeyLeft, KeyPageUp, Press, Release, OnWindowResize, KeyTab, Redraw
    <2> QED
      BY <1>1, <2>1, <2>2, <2>3 DEF Frame
  <1>2. CASE SyncStep
    BY <1>2 DEF SyncStep, Sync
  <1>3. CASE ~Frame /\ ~SyncStep
    BY <1>3 DEF Next, Start, RenderCreate, RenderLoadXML, StartFlag, StartLoad, StartWake,
       StartNames, Shutdown, Warm, CmdArrives, CmdTooEarly, CmdStep
  <1> QED
    BY <1>1, <1>2, <1>3

-----------------------------------------------------------------------------
(* Types.                                                                  *)

FlagType ==
  /\ m_ \in BOOLEAN /\ mnew_ \in BOOLEAN
  /\ closed \in BOOLEAN /\ droploadrequest \in BOOLEAN

LifeType ==
  /\ renderPc \in {"none", "create", "xml", "loop", "poll", "spin", "draw", "end"}
  /\ loadrequest \in 0..3 /\ exitrequest \in 0..2
  /\ pending_ \subseteq Requests

RingType ==
  /\ history_ \in [Slots -> State] /\ history_cursor_ \in Slots
  /\ log \in [1..nhistory_ -> State]

DataType ==
  /\ d \in State /\ key_ \in State
  /\ run \in 0..1 /\ scrub_index \in (1 - nhistory_)..0

ViewType ==
  /\ newperturb \in Perturb /\ active \in Perturb
  /\ selecting \in 0..3 /\ select \in Bodies /\ dragrect \in {0, 1, 3}

CameraType == camera \in 0..(ncam_ + 1) /\ cam \in Cameras

PanelType ==
  /\ ui0_enable \in BOOLEAN /\ ui_update_ \subseteq {"simulation", "rendering"}
  /\ shown \in [run : 0..1, scrub_index : (1 - nhistory_)..0, camera : 0..(ncam_ + 1)]
  /\ events \in 0..MaxEvents

ThreadType ==
  /\ startPc \in {"init", "flag", "load", "wait", "names", "done", "stopped"}
  /\ is_render_thread_running_ \in BOOLEAN /\ sim_ \in BOOLEAN
  /\ model \in {"null", "live", "freed"}
  /\ warm \in BOOLEAN /\ cmdPc \in {"none", "taken"} /\ crashed \in BOOLEAN

\* The parts make up the type invariant.
LEMMA TypeParts ==
  /\ TypeOK <=> FlagType /\ LifeType /\ RingType /\ DataType /\ ViewType /\ CameraType
                /\ PanelType /\ ThreadType
  /\ TypeOK' <=> FlagType' /\ LifeType' /\ RingType' /\ DataType' /\ ViewType' /\ CameraType'
                 /\ PanelType' /\ ThreadType'
  BY DEF TypeOK, ViewerTypeOK, FlagType, LifeType, RingType, DataType, ViewType, CameraType,
     PanelType, ThreadType

\* A camera of the right type, as the panel names it.
CameraInv == CameraType /\ CameraMatches

\* A camera that is made a fixed one is a camera still.
LEMMA FixedCamera ==
  ASSUME NEW c \in Cameras, NEW k \in 0..(ncam_ - 1)
  PROVE  LET f == [c EXCEPT !.type = "FIXED", !.fixedcamid = k]
         IN  f \in Cameras /\ f.type = "FIXED" /\ f.fixedcamid = k
  <1>1. k \in -1..(ncam_ - 1)
    BY ViewerAssumption
  <1> QED
    BY <1>1 DEF Cameras

\* Every change of the camera changes what the panel is to show with it.
LEMMA CameraStep ==
  ASSUME TypeOK, CameraMatches, [Next]_vars
  PROVE  CameraInv'
  <1>0. /\ nbody \in Nat \ {0} /\ ncam_ \in Nat /\ select \in 0..(nbody - 1)
        /\ camera \in 0..(ncam_ + 1) /\ cam \in Cameras
    BY ViewerAssumption DEF TypeOK, ViewerTypeOK, Bodies
  <1>1. CASE UNCHANGED camVars
    BY <1>0, <1>1 DEF camVars, CameraInv, CameraType, CameraMatches, CameraIndex
  <1>2. CASE LoadOnRenderThread
    BY <1>0, <1>2 DEF LoadOnRenderThread, FreeCamera, Cameras, CameraInv, CameraType,
       CameraMatches, CameraIndex
  <1>3. CASE SyncView
    <2>1. PICK b \in -1..(nbody - 1) :
            /\ cam' = Tracking(IF "align" \in pending_ THEN FreeCamera ELSE cam, b)
            /\ camera' = CameraIndex(cam')
      BY <1>3 DEF SyncView
    <2>2. cam' \in Cameras
      BY <1>0, <2>1 DEF Tracking, FreeCamera, Cameras
    <2>3. /\ cam'.type = "TRACKING" => cam'.trackbodyid \in 1..(nbody - 1)
          /\ cam'.type = "FIXED" => cam'.fixedcamid \in 0..(ncam_ - 1)
      BY <1>0, <2>1 DEF Tracking, FreeCamera, CameraMatches
    <2>4. CameraIndex(cam') \in 0..(ncam_ + 1)
      BY <1>0, <2>2, <2>3 DEF CameraIndex, Cameras
    <2> QED
      BY <2>1, <2>2, <2>3, <2>4 DEF CameraInv, CameraType, CameraMatches, CameraIndex
  <1>4. CASE KeyCamera
    <2>1. camera' \in 2..(ncam_ + 1) /\ camera' - 2 \in 0..(ncam_ - 1)
      BY <1>0, <1>4 DEF KeyCamera, CameraUp, CameraDown
    <2>2. cam' \in Cameras /\ cam'.type = "FIXED" /\ cam'.fixedcamid = camera' - 2
      BY <1>0, <1>4, <2>1, FixedCamera DEF KeyCamera
    <2> QED
      BY <1>0, <2>1, <2>2 DEF CameraInv, CameraType, CameraMatches, CameraIndex
  <1>5. CASE KeyEscape
    <2>1. cam' \in Cameras /\ cam'.type = "FREE" /\ camera' = 0
      BY <1>0, <1>5 DEF KeyEscape, Cameras
    <2> QED
      BY <1>0, <2>1 DEF CameraInv, CameraType, CameraMatches, CameraIndex
  <1>6. CASE \E c \in 0..(ncam_ + 1) : RenderingItem(c)
    <2>1. PICK c \in 0..(ncam_ + 1) : RenderingItem(c)
      BY <1>6
    <2>2. CASE cam' = [cam EXCEPT !.type = "FREE"] /\ camera' = 0
      <3>1. cam' \in Cameras /\ cam'.type = "FREE"
        BY <1>0, <2>2 DEF Cameras
      <3> QED
        BY <1>0, <2>2, <3>1 DEF CameraInv, CameraType, CameraMatches, CameraIndex
    <2>3. CASE /\ select > 0 /\ camera' = 1
               /\ cam' = [type |-> "TRACKING", trackbodyid |-> select, fixedcamid |-> -1]
      BY <1>0, <2>3 DEF Cameras, CameraInv, CameraType, CameraMatches, CameraIndex
    <2>4. CASE /\ c > 1 /\ camera' = c
               /\ cam' = [cam EXCEPT !.type = "FIXED", !.fixedcamid = c - 2]
      <3>1. c - 2 \in 0..(ncam_ - 1)
        BY <1>0, <2>1, <2>4
      <3>2. cam' \in Cameras /\ cam'.type = "FIXED" /\ cam'.fixedcamid = c - 2
        BY <1>0, <2>4, <3>1, FixedCamera
      <3> QED
        BY <1>0, <2>1, <2>4, <3>1, <3>2 DEF CameraInv, CameraType, CameraMatches, CameraIndex
    <2> QED
      BY <2>1, <2>2, <2>3, <2>4 DEF RenderingItem
  <1>7. CASE UNCHANGED vars
    BY <1>1, <1>7 DEF vars, viewerVars, camVars
  <1> QED
    BY <1>1, <1>2, <1>3, <1>4, <1>5, <1>6, <1>7, CameraMoves

\* Every step keeps the history and the log together.
LEMMA RingStep ==
  ASSUME TypeOK, RingIsLog, [Next]_vars
  PROVE  RingType' /\ RingIsLog'
  <1>0. /\ d \in State /\ RingType /\ MaxState \in Nat /\ nhistory_ \in Nat \ {0}
    BY TypeParts, ViewerAssumption DEF DataType
  <1>1. CASE UNCHANGED histVars
    BY <1>0, <1>1 DEF histVars, RingType, RingIsLog
  <1>2. CASE LoadOnRenderThread
    <2>1. /\ history_' = [i \in Slots |-> d] /\ history_cursor_' = 0
          /\ log' = [i \in 1..nhistory_ |-> d]
      BY <1>2 DEF LoadOnRenderThread
    <2>2. RingType'
      BY <1>0, <2>1 DEF RingType, Slots
    <2>3. ASSUME NEW k \in Slots PROVE (history_[Back(history_cursor_, k)] = log[k + 1])'
      BY <1>0, <2>1, <2>2, SlotOf DEF RingType, Slots
    <2> QED
      BY <2>2, <2>3 DEF RingIsLog
  <1>3. CASE KeyRight /\ AddToHistory(d') /\ d' = Stepped(d)
    <2>1. d' \in State
      BY <1>0, <1>3 DEF Stepped, State
    <2> QED
      BY <1>0, <1>3, <2>1, HistoryStep DEF RingType
  <1>4. CASE UNCHANGED vars
    BY <1>1, <1>4 DEF vars, viewerVars, histVars
  <1> QED
    BY <1>1, <1>2, <1>3, <1>4, HistoryMoves

\* A scrub finds a state, the one recorded as many steps ago.
LEMMA ScrubFinds ==
  ASSUME TypeOK, NEW k \in (1 - nhistory_)..0
  PROVE  /\ ScrubSlot(k) = Back(history_cursor_, -k)
         /\ history_[ScrubSlot(k)] \in State
         /\ RingIsLog => history_[ScrubSlot(k)] = log[1 - k]
  <1>0. /\ nhistory_ \in Nat \ {0} /\ history_cursor_ \in Slots
        /\ history_ \in [Slots -> State]
    BY TypeParts, ViewerAssumption DEF RingType
  <1>1. -k \in Slots /\ -(-k) = k /\ 1 - k = (-k) + 1
    BY <1>0 DEF Slots
  <1>2. ScrubSlot(k) = Back(history_cursor_, -k) /\ Back(history_cursor_, -k) \in Slots
    <2>1. ScrubSlot(-(-k)) = Back(history_cursor_, -k)
      BY <1>0, <1>1, SlotOf DEF ScrubSlot
    <2> QED
      BY <1>0, <1>1, <2>1, SlotOf
  <1> QED
    BY <1>0, <1>1, <1>2 DEF RingIsLog

\* The state, the keyframe, the mode and the scrubber stay in their ranges.
LEMMA DataStep ==
  ASSUME TypeOK, [Next]_vars
  PROVE  DataType'
  <1> USE DEF vars, viewerVars, simVars, dataVars, runVars, UnchangedViewerButLoad,
              UnchangedButQuit, UnchangedButRun, UnchangedButView
  <1>0. /\ d \in State /\ key_ \in State /\ run \in 0..1 /\ scrub_index \in (1 - nhistory_)..0
        /\ nhistory_ \in Nat \ {0} /\ MaxState \in Nat /\ 0 \in State
        /\ 0 \in (1 - nhistory_)..0 /\ Stepped(d) \in State
    BY TypeParts, ViewerAssumption DEF DataType, State, Stepped
  <1>1. CASE FrameBegin
    BY <1>0, <1>1 DEF FrameBegin, LoadOnRenderThread, DataType
  <1>2. CASE Render \/ LoopEnd
    BY <1>0, <1>2 DEF Render, LoopEnd, DataType
  <1>3. CASE CloseWindow \/ Quit \/ DropFile \/ (\E q \in Requests : Ask(q)) \/ KeyPageUp
             \/ KeyCamera \/ KeyEscape \/ Release \/ OnWindowResize \/ KeyTab \/ Redraw
    BY <1>0, <1>3 DEF CloseWindow, Quit, DropFile, Ask, KeyPageUp, KeyCamera, KeyEscape, Release,
       OnWindowResize, KeyTab, Redraw, DataType
  <1>4. CASE \/ \E c \in 0..(ncam_ + 1) : RenderingItem(c)
             \/ \E rect \in {1, 3}, button \in {"left", "right"}, control, double \in BOOLEAN :
                  Press(rect, button, control, double)
    BY <1>0, <1>4 DEF RenderingItem, Press, DataType
  <1>5. CASE \/ \E r \in 0..1 : RunItem(r)
             \/ \E k \in (1 - nhistory_)..0 : Scrubber(k)
             \/ \E s \in State : JointSlider(s)
    BY <1>0, <1>5 DEF RunItem, Scrubber, JointSlider, DataType
  <1>6. CASE KeySpace
    BY <1>0, <1>6 DEF KeySpace, DataType
  <1>7. CASE KeyRight
    BY <1>0, <1>7 DEF KeyRight, DataType
  <1>8. CASE KeyLeft
    BY <1>0, <1>8 DEF KeyLeft, ScrubbedBack, DataType
  <1>9. CASE SyncStep
    <2>1. CASE SyncData /\ UNCHANGED run
      BY <1>0, <2>1, ScrubFinds DEF SyncData, DataType
    <2> QED
      BY <1>0, <1>9, <2>1 DEF SyncStep, Sync, DataType
  <1>10. CASE CmdStep
    BY <1>0, <1>10 DEF CmdStep, DataType
  <1>11. CASE UNCHANGED <<dataVars, runVars>>
    BY <1>0, <1>11 DEF DataType
  <1>12. CASE Next /\ ~Frame /\ ~SyncStep /\ ~CmdStep
    BY <1>11, <1>12 DEF Next, Start, RenderCreate, RenderLoadXML, StartFlag, StartLoad, StartWake,
       StartNames, Shutdown, Warm, CmdArrives, CmdTooEarly
  <1>13. CASE Frame
    BY <1>1, <1>2, <1>3, <1>4, <1>5, <1>6, <1>7, <1>8, <1>13 DEF Frame, UiEvent, Requests
  <1> QED
    BY <1>9, <1>10, <1>11, <1>12, <1>13

\* So do the selection and the perturbation.
LEMMA ViewStep ==
  ASSUME TypeOK, [Next]_vars
  PROVE  ViewType'
  <1> USE DEF vars, viewerVars, simVars, pertVars, UnchangedViewerButLoad, UnchangedButQuit,
              UnchangedButRun, UnchangedButView
  <1>0. /\ newperturb \in Perturb /\ active \in Perturb /\ selecting \in 0..3
        /\ select \in Bodies /\ dragrect \in {0, 1, 3} /\ "none" \in Perturb /\ 0 \in Bodies
        /\ nbody \in Nat \ {0}
    BY TypeParts, ViewerAssumption DEF ViewType, Bodies, Perturb
  <1>1. CASE FrameBegin
    BY <1>0, <1>1 DEF FrameBegin, LoadOnRenderThread, ViewType
  <1>2. CASE KeySpace
    BY <1>0, <1>2 DEF KeySpace, ViewType
  <1>3. CASE KeyPageUp
    BY <1>0, <1>3 DEF KeyPageUp, Parent, ViewType, Bodies
  <1>4. CASE \E rect \in {1, 3}, button \in {"left", "right"}, control, double \in BOOLEAN :
               Press(rect, button, control, double)
    BY <1>0, <1>4 DEF Press, ViewType, Perturb
  <1>5. CASE Release \/ OnWindowResize
    BY <1>0, <1>5 DEF Release, OnWindowResize, ViewType
  <1>6. CASE SyncStep
    <2>1. CASE SyncView /\ UNCHANGED dragrect
      BY <1>0, <2>1 DEF SyncView, NoSelect, ViewType, Bodies
    <2> QED
      BY <1>0, <1>6, <2>1 DEF SyncStep, Sync, ViewType
  <1>7. CASE UNCHANGED pertVars
    BY <1>0, <1>7 DEF ViewType
  <1>8. CASE Frame
    BY <1>1, <1>2, <1>3, <1>4, <1>5, <1>7, <1>8 DEF Frame, Render, LoopEnd, UiEvent, CloseWindow,
       Quit, DropFile, Ask, RunItem, Scrubber, JointSlider, KeyRight, KeyLeft, KeyCamera,
       KeyEscape, RenderingItem, KeyTab, Redraw
  <1>9. CASE Next /\ ~Frame /\ ~SyncStep
    BY <1>7, <1>9 DEF Next, Start, RenderCreate, RenderLoadXML, StartFlag, StartLoad, StartWake,
       StartNames, Shutdown, Warm, CmdArrives, CmdTooEarly, CmdStep
  <1> QED
    BY <1>6, <1>7, <1>8, <1>9

\* So do the flags of the load and of the window.
LEMMA FlagStep ==
  ASSUME TypeOK, [Next]_vars
  PROVE  FlagType'
  <1> USE DEF vars, viewerVars, simVars, loadVars, quitVars, UnchangedViewerButLoad,
              UnchangedButQuit, UnchangedButRun, UnchangedButView, FlagType
  <1>0. FlagType
    BY TypeParts
  <1>1. CASE FrameBegin
    BY <1>0, <1>1 DEF FrameBegin, LoadOnRenderThread
  <1>2. CASE CloseWindow \/ DropFile
    BY <1>0, <1>2 DEF CloseWindow, DropFile, Event
  <1>3. CASE StartLoad
    BY <1>0, <1>3 DEF StartLoad, LoadRequested
  <1>4. CASE UNCHANGED <<m_, mnew_, closed, droploadrequest>>
    BY <1>0, <1>4
  <1>5. CASE Frame
    BY <1>1, <1>2, <1>4, <1>5 DEF Frame, Render, LoopEnd, UiEvent, Event, Quit, Ask, RunItem,
       Scrubber, JointSlider, KeySpace, KeyRight, KeyLeft, KeyPageUp, KeyCamera, KeyEscape,
       RenderingItem, Press, Release, OnWindowResize, KeyTab, Redraw
  <1>6. CASE Next /\ ~Frame /\ ~StartLoad
    BY <1>4, <1>6 DEF Next, SyncStep, Sync, Start, RenderCreate, RenderLoadXML, LoadMessage,
       StartFlag, LoadMessageClear, StartWake, StartNames, Shutdown, Warm, CmdArrives,
       CmdTooEarly, CmdStep
  <1> QED
    BY <1>3, <1>4, <1>5, <1>6

\* So do the requests and the place of the render thread.
LEMMA LifeStep ==
  ASSUME TypeOK, [Next]_vars
  PROVE  LifeType'
  <1> USE DEF vars, viewerVars, simVars, loadVars, quitVars, UnchangedViewerButLoad,
              UnchangedButQuit, UnchangedButRun, UnchangedButView, LifeType
  <1>0. LifeType
    BY TypeParts
  <1>1. CASE FrameBegin \/ Render \/ LoopEnd
    BY <1>0, <1>1 DEF FrameBegin, LoadOnRenderThread, LoadedRequest, Render, LoopEnd
  <1>2. CASE CloseWindow \/ Quit \/ DropFile
    BY <1>0, <1>2 DEF CloseWindow, Quit, DropFile, Event
  <1>3. CASE \/ \E q \in {"reset", "align", "load_key", "save_key"} : Ask(q)
             \/ \E k \in (1 - nhistory_)..0 : Scrubber(k)
             \/ KeyRight \/ KeyLeft
    BY <1>0, <1>3 DEF Ask, Scrubber, KeyRight, KeyLeft, Event, Requests
  <1>4. CASE UNCHANGED <<renderPc, loadVars, quitVars, pending_>>
    BY <1>0, <1>4
  <1>5. CASE Frame
    BY <1>1, <1>2, <1>3, <1>4, <1>5 DEF Frame, UiEvent, Event, RunItem, JointSlider, KeySpace,
       KeyPageUp, KeyCamera, KeyEscape, RenderingItem, Press, Release, OnWindowResize, KeyTab,
       Redraw
  <1>6. CASE SyncStep
    BY <1>0, <1>6 DEF SyncStep, Sync
  <1>7. CASE Start \/ RenderCreate \/ \E loaded \in {"live", "null"} : RenderLoadXML(loaded)
    BY <1>0, <1>7 DEF Start, RenderCreate, RenderLoadXML, LoadMessage
  <1>8. CASE StartFlag \/ StartLoad
    BY <1>0, <1>8 DEF StartFlag, StartLoad, LoadRequested, LoadMessageClear
  <1>9. CASE Next /\ ~Frame /\ ~SyncStep /\ ~Start /\ ~RenderCreate /\ ~StartFlag /\ ~StartLoad
             /\ ~(\E loaded \in {"live", "null"} : RenderLoadXML(loaded))
    BY <1>4, <1>9 DEF Next, StartWake, StartNames, Shutdown, Warm, CmdArrives, CmdTooEarly,
       CmdStep
  <1> QED
    BY <1>4, <1>5, <1>6, <1>7, <1>8, <1>9

\* So does what the module keeps.
LEMMA ThreadStep ==
  ASSUME TypeOK, [Next]_vars
  PROVE  ThreadType'
  <1>0. ThreadType
    BY TypeParts
  <1>1. CASE UNCHANGED simVars
    BY <1>0, <1>1 DEF simVars, ThreadType
  <1>2. CASE SyncStep
    BY <1>0, <1>2 DEF SyncStep, ThreadType
  <1>3. CASE Next /\ ~Frame /\ ~SyncStep
    BY <1>0, <1>3 DEF Next, Start, RenderCreate, RenderLoadXML, StartFlag, StartLoad, StartWake,
       StartNames, Shutdown, Warm, CmdArrives, CmdTooEarly, CmdStep, ThreadType
  <1> QED
    BY <1>1, <1>2, <1>3 DEF Frame, vars, simVars

\* What Sync has found out of date is noted until the frame is drawn, and only
\* then; a panel that is shown is out of date in noted sections only.  A model
\* that is to be loaded is there.
Noted(section) == section \in ui_update_

PanelInv ==
  /\ ~m_ \/ renderPc # "draw" => ui_update_ = {}
  /\ m_ /\ ui0_enable /\ ~Noted("simulation") =>
       shown.run = run /\ shown.scrub_index = scrub_index
  /\ m_ /\ ui0_enable /\ ~Noted("rendering") => shown.camera = camera
  /\ loadrequest \in {1, 2} => mnew_

ShownType == [run : 0..1, scrub_index : (1 - nhistory_)..0, camera : 0..(ncam_ + 1)]

\* What the panel shows is of the types of what it shows it for.
LEMMA PanelTypeStep ==
  ASSUME TypeOK, DataType', CameraType', [Next]_vars
  PROVE  PanelType'
  <1> USE DEF vars, viewerVars, simVars, uiVars, UnchangedViewerButLoad,
              UnchangedButQuit, UnchangedButRun, UnchangedButView
  <1>0. /\ ui0_enable \in BOOLEAN /\ ui_update_ \subseteq {"simulation", "rendering"}
        /\ shown \in ShownType
        /\ shown.run \in 0..1 /\ shown.scrub_index \in (1 - nhistory_)..0
        /\ shown.camera \in 0..(ncam_ + 1)
    BY TypeParts DEF PanelType, ShownType
  <1>1. events' \in 0..MaxEvents
    <2>1. events \in 0..MaxEvents /\ MaxEvents \in Nat
      BY TypeParts, ViewerAssumption DEF PanelType
    <2>2. events' = events \/ (events < MaxEvents /\ events' = events + 1)
      BY DEF Next, Frame, FrameBegin, Render, LoopEnd, UiEvent, Event, CloseWindow, Quit,
         DropFile, Ask, RunItem, Scrubber, JointSlider, KeySpace, KeyRight, KeyLeft, KeyPageUp,
         KeyCamera, KeyEscape, RenderingItem, Press, Release, OnWindowResize, KeyTab, Redraw,
         SyncStep, Sync, Start, RenderCreate, RenderLoadXML, StartFlag, StartLoad, StartWake,
         StartNames, Shutdown, Warm, CmdArrives, CmdTooEarly, CmdStep
    <2> QED
      BY <2>1, <2>2
  <1>2. /\ run' \in 0..1 /\ scrub_index' \in (1 - nhistory_)..0
        /\ camera' \in 0..(ncam_ + 1)
        /\ run \in 0..1 /\ scrub_index \in (1 - nhistory_)..0 /\ camera \in 0..(ncam_ + 1)
    BY TypeParts DEF DataType, CameraType
  <1>3. ui0_enable' \in BOOLEAN
    BY <1>0 DEF Next, Frame, FrameBegin, LoadOnRenderThread, Render, RenderSections, LoopEnd,
       UiEvent, Event, CloseWindow, Quit, ShowAll, ShowSimulation, ShowRendering,
       DropFile, Ask, RunItem, Scrubber, JointSlider, KeySpace, KeyRight, KeyLeft, KeyPageUp,
       KeyCamera, KeyEscape, RenderingItem, Press, Release, OnWindowResize, KeyTab, Redraw,
       SyncStep, Sync, Start, RenderCreate, RenderLoadXML, StartFlag, StartLoad, StartWake,
       StartNames, Shutdown, Warm, CmdArrives, CmdTooEarly, CmdStep
  <1>4. ui_update_' \subseteq {"simulation", "rendering"}
    BY <1>0 DEF Next, Frame, FrameBegin, LoadOnRenderThread, Render, RenderSections, LoopEnd,
       UiEvent, Event, CloseWindow, Quit, ShowAll, ShowSimulation, ShowRendering, SyncUpdates,
       DropFile, Ask, RunItem, Scrubber, JointSlider, KeySpace, KeyRight, KeyLeft, KeyPageUp,
       KeyCamera, KeyEscape, RenderingItem, Press, Release, OnWindowResize, KeyTab, Redraw,
       SyncStep, Sync, Start, RenderCreate, RenderLoadXML, StartFlag, StartLoad, StartWake,
       StartNames, Shutdown, Warm, CmdArrives, CmdTooEarly, CmdStep
  <1>5. shown' \in ShownType
    <2>1. CASE ShowSimulation
      BY <1>0, <1>2, <2>1 DEF ShowSimulation, ShownType
    <2>2. CASE ShowRendering
      BY <1>0, <1>2, <2>2 DEF ShowRendering, ShownType
    <2>3. CASE ShowAll
      BY <1>0, <1>2, <2>3 DEF ShowAll, ShownType
    <2>4. CASE RenderSections
      BY <1>0, <1>2, <2>4 DEF RenderSections, ShownType
    <2>5. CASE \E r \in 0..1 : RunItem(r)
      BY <1>0, <1>2, <2>5 DEF RunItem, ShownType
    <2>6. CASE shown' = shown
      BY <1>0, <2>6
    <2>7. ShowSimulation \/ ShowRendering \/ ShowAll \/ RenderSections
            \/ (\E r \in 0..1 : RunItem(r)) \/ shown' = shown
      BY DEF Next, Frame, FrameBegin, LoadOnRenderThread, Render, LoopEnd, UiEvent, CloseWindow,
       Quit, DropFile, Ask, Scrubber, JointSlider, KeySpace, KeyRight, KeyLeft, KeyPageUp,
       KeyCamera, KeyEscape, RenderingItem, Press, Release, OnWindowResize, KeyTab, Redraw,
       SyncStep, Sync, Start, RenderCreate, RenderLoadXML, StartFlag, StartLoad, StartWake,
       StartNames, Shutdown, Warm, CmdArrives, CmdTooEarly, CmdStep
    <2> QED
      BY <2>1, <2>2, <2>3, <2>4, <2>5, <2>6, <2>7
  <1> QED
    BY <1>1, <1>3, <1>4, <1>5 DEF PanelType, ShownType

\* The render thread sets its flag when it has made the viewer and tried to load
\* the model, and Start goes on from the flag.  The viewer has the model when its
\* request is over, and keeps it.
StartInv ==
  /\ startPc = "init" => renderPc = "none" /\ ~is_render_thread_running_
  /\ renderPc \notin {"none", "create"} => sim_
  /\ is_render_thread_running_ => renderPc \notin {"none", "create", "xml"}
  /\ startPc \in {"load", "wait", "names", "done"} =>
       is_render_thread_running_ /\ model = "live"
  /\ startPc = "wait" /\ loadrequest = 0 => m_
  /\ startPc \in {"names", "done"} => m_
  /\ startPc = "done" => ~crashed

\* The viewer keeps the model it has, and has one when a request to load is over.
LEMMA LoadStep ==
  ASSUME TypeOK, PanelInv, [Next]_vars
  PROVE  /\ loadrequest' \in {1, 2} => mnew_'
         /\ m_ => m_'
         /\ loadrequest \in {1, 2} /\ loadrequest' = 0 /\ ~StartFlag => m_'
  <1> USE DEF vars, viewerVars, simVars, loadVars, UnchangedViewerButLoad
  <1>1. CASE FrameBegin
    BY <1>1 DEF FrameBegin, LoadOnRenderThread, LoadedRequest, PanelInv
  <1>2. CASE RenderCreate
    BY <1>2 DEF RenderCreate, LoadMessage
  <1>3. CASE StartFlag
    BY <1>3 DEF StartFlag, LoadMessageClear, PanelInv
  <1>4. CASE StartLoad
    BY <1>4 DEF StartLoad, LoadRequested
  <1>5. CASE UNCHANGED loadVars
    BY <1>5 DEF PanelInv
  <1>6. CASE UiEvent
    BY <1>5, <1>6 DEF UiEvent, Event, CloseWindow, Quit, DropFile, Ask, RunItem, Scrubber,
       JointSlider, KeySpace, KeyRight, KeyLeft, KeyPageUp, KeyCamera, KeyEscape, RenderingItem,
       Press, Release, OnWindowResize, KeyTab, Redraw
  <1>7. CASE Next /\ ~FrameBegin /\ ~RenderCreate /\ ~StartFlag /\ ~StartLoad /\ ~UiEvent
    BY <1>5, <1>7 DEF Next, Frame, Render, LoopEnd, SyncStep, Sync, Start, RenderLoadXML,
       StartWake, StartNames, Shutdown, Warm, CmdArrives, CmdTooEarly, CmdStep
  <1> QED
    BY <1>1, <1>2, <1>3, <1>4, <1>5, <1>6, <1>7

\* Every step keeps what Start relies on.
LEMMA StartStep ==
  ASSUME TypeOK, PanelInv, StartInv, [Next]_vars
  PROVE  StartInv'
  <1> USE DEF vars, viewerVars, simVars, UnchangedViewerButLoad
  <1>1. CASE UNCHANGED vars
    BY <1>1 DEF StartInv, loadVars
  <1>2. CASE Start \/ RenderCreate \/ \E loaded \in {"live", "null"} : RenderLoadXML(loaded)
    BY <1>2 DEF Start, RenderCreate, RenderLoadXML, StartInv, Next, loadVars, LoadMessage
  <1>3. CASE StartFlag
    BY <1>3 DEF StartFlag, StartInv, loadVars, LoadMessageClear
  <1>4. CASE StartLoad
    BY <1>4 DEF StartLoad, LoadRequested, StartInv
  <1>5. CASE Next /\ (StartWake \/ StartNames \/ Shutdown)
    BY <1>5 DEF Next, StartWake, LoadDone, StartNames, Shutdown, StartInv, loadVars
  <1>6. CASE Warm \/ CmdArrives \/ CmdTooEarly
    BY <1>6 DEF Warm, CmdArrives, CmdTooEarly, StartInv, loadVars
  <1>7. CASE CmdStep
    BY <1>7 DEF CmdStep, CmdValid, StartInv, loadVars
  <1>8. CASE (Frame \/ SyncStep) /\ ~StartFlag
    <2>1. /\ UNCHANGED <<startPc, is_render_thread_running_, sim_, model>>
          /\ crashed' = crashed \/ crashed' = (m_ /\ exitrequest = 0 /\ model = "freed")
      BY <1>8 DEF Frame, SyncStep
    <2>2. /\ renderPc \in {"loop", "poll", "draw"}
          /\ renderPc' \in {"loop", "poll", "draw", "spin", "end"}
      BY <1>8 DEF Frame, FrameBegin, Render, LoopEnd, UiEvent, Event, CloseWindow, Quit, DropFile,
         Ask, RunItem, Scrubber, JointSlider, KeySpace, KeyRight, KeyLeft, KeyPageUp, KeyCamera,
         KeyEscape, RenderingItem, Press, Release, OnWindowResize, KeyTab, Redraw, SyncStep, Sync,
         UnchangedButRun, UnchangedButView
    <2>3. loadrequest' = 0 => loadrequest \in {0, 1, 2}
      BY <1>8 DEF Frame, FrameBegin, LoadOnRenderThread, Render, LoopEnd, UiEvent, Event,
         CloseWindow, Quit, DropFile, Ask, RunItem, Scrubber, JointSlider, KeySpace, KeyRight,
         KeyLeft, KeyPageUp, KeyCamera, KeyEscape, RenderingItem, Press, Release,
         OnWindowResize, KeyTab, Redraw, SyncStep, Sync, loadVars
    <2>4. (m_ => m_') /\ (loadrequest \in {1, 2} /\ loadrequest' = 0 => m_')
      BY <1>8, LoadStep
    <2>5. /\ startPc' = "wait" /\ loadrequest' = 0 => m_'
          /\ startPc' \in {"names", "done"} => m_'
      BY <2>1, <2>3, <2>4 DEF StartInv
    <2>6. startPc' = "done" => ~crashed'
      BY <2>1 DEF StartInv
    <2>7. /\ startPc' # "init"
          /\ startPc' \in {"load", "wait", "names", "done"} =>
               is_render_thread_running_' /\ model' = "live"
          /\ sim_'
      BY <2>1, <2>2 DEF StartInv
    <2> QED
      BY <2>2, <2>5, <2>6, <2>7 DEF StartInv
  <1>9. CASE (Frame \/ SyncStep) /\ StartFlag
    BY <1>3, <1>9
  <1> QED
    BY <1>1, <1>2, <1>3, <1>4, <1>5, <1>6, <1>7, <1>8, <1>9 DEF Next

\* What the panel shows of the mode and the scrubber, and of the camera, is right.
Shows(sim, camera_) ==
  /\ sim => shown.run = run /\ shown.scrub_index = scrub_index
  /\ camera_ => shown.camera = camera

\* An event leaves the panel as right as it was: what it changes it shows at once,
\* also in a panel that is hidden.
LEMMA EventKeepsPanel ==
  ASSUME TypeOK, ui_update_ = {}, m_ /\ ui0_enable => Shows(TRUE, TRUE), UiEvent
  PROVE  ui_update_' = {} /\ (m_' /\ ui0_enable' => Shows(TRUE, TRUE)')
  <1> USE DEF uiVars, runVars, camVars, loadVars, UnchangedButQuit, UnchangedButRun,
              UnchangedButView, Event
  <1>0. shown \in ShownType
    BY TypeParts DEF PanelType, ShownType
  <1>1. CASE UNCHANGED <<uiVars, runVars, camVars, m_>>
    BY <1>1 DEF Shows
  <1>2. CASE ShowAll
    BY <1>2 DEF ShowAll, Shows
  <1>3. CASE ShowSimulation /\ UNCHANGED <<camVars, m_>>
    BY <1>0, <1>3 DEF ShowSimulation, Shows, ShownType
  <1>4. CASE ShowRendering /\ UNCHANGED <<runVars, m_>>
    BY <1>0, <1>4 DEF ShowRendering, Shows, ShownType
  <1>5. CASE \E r \in 0..1 : RunItem(r)
    BY <1>0, <1>5 DEF RunItem, Shows, ShownType
  <1>6. CASE RenderSections /\ UNCHANGED <<runVars, camVars, m_>>
    BY <1>0, <1>1, <1>6 DEF RenderSections, Shows
  <1>7. \/ UNCHANGED <<uiVars, runVars, camVars, m_>>
        \/ ShowAll
        \/ ShowSimulation /\ UNCHANGED <<camVars, m_>>
        \/ ShowRendering /\ UNCHANGED <<runVars, m_>>
        \/ \E r \in 0..1 : RunItem(r)
        \/ RenderSections /\ UNCHANGED <<runVars, camVars, m_>>
    BY DEF UiEvent, CloseWindow, Quit, DropFile, Ask, Scrubber, JointSlider, KeySpace, KeyRight,
       KeyLeft, KeyPageUp, KeyCamera, KeyEscape, RenderingItem, Press, Release, OnWindowResize,
       KeyTab, Redraw
  <1> QED
    BY <1>1, <1>2, <1>3, <1>4, <1>5, <1>6, <1>7

\* What Sync changes without showing it is noted, and drawn with the frame.
LEMMA PanelStep ==
  ASSUME TypeOK, PanelInv, StartInv, [Next]_vars
  PROVE  PanelInv'
  <1> USE DEF vars, viewerVars, simVars, uiVars, runVars, camVars, loadVars,
              UnchangedViewerButLoad
  <1> DEFINE Drawn == ~m_ \/ renderPc # "draw" => ui_update_ = {}
             Fresh == m_ /\ ui0_enable => Shows(~Noted("simulation"), ~Noted("rendering"))
  <1>0. Drawn /\ Fresh /\ (loadrequest \in {1, 2} => mnew_)
    BY DEF PanelInv, Shows
  <1>1. SUFFICES Drawn' /\ Fresh'
    BY LoadStep DEF PanelInv, Shows, Noted
  <1>2. CASE FrameBegin
    <2>1. CASE LoadOnRenderThread
      BY <1>0, <1>2, <2>1 DEF FrameBegin, LoadOnRenderThread, ShowAll, Shows
    <2>2. CASE UNCHANGED <<m_, runVars, camVars, uiVars>>
      BY <1>0, <1>2, <2>2 DEF FrameBegin, Shows, Noted
    <2> QED
      BY <1>2, <2>1, <2>2 DEF FrameBegin
  <1>3. CASE Render
    <2>1. CASE m_
      <3>1. /\ shown' = [run |-> IF ui0_enable /\ "simulation" \in ui_update_ THEN run
                                 ELSE shown.run,
                         scrub_index |-> IF ui0_enable /\ "simulation" \in ui_update_
                                         THEN scrub_index ELSE shown.scrub_index,
                         camera |-> IF ui0_enable /\ "rendering" \in ui_update_
                                    THEN camera ELSE shown.camera]
            /\ ui_update_' = {} /\ UNCHANGED <<ui0_enable, runVars, camVars>>
        BY <1>3, <2>1 DEF Render, RenderSections
      <3> QED
        BY <1>0, <2>1, <3>1 DEF Shows, Noted
    <2>2. CASE ~m_
      BY <1>0, <1>3, <2>2 DEF Render, RenderSections
    <2> QED
      BY <2>1, <2>2
  <1>4. CASE UiEvent
    <2>1. renderPc = "poll" /\ ui_update_ = {} /\ renderPc' \in {"poll", "spin"}
      BY <1>0, <1>4 DEF UiEvent, Event, CloseWindow, Quit, DropFile, Ask, RunItem, Scrubber,
         JointSlider, KeySpace, KeyRight, KeyLeft, KeyPageUp, KeyCamera, KeyEscape,
         RenderingItem, Press, Release, OnWindowResize, KeyTab, Redraw, UnchangedButRun,
         UnchangedButView
    <2>2. m_ /\ ui0_enable => Shows(TRUE, TRUE)
      BY <1>0, <2>1 DEF Shows, Noted
    <2> QED
      BY <1>4, <2>1, <2>2, EventKeepsPanel DEF Shows, Noted
  <1>5. CASE SyncStep
    <2>1. renderPc = "poll" /\ renderPc' = "draw" /\ UNCHANGED <<m_, run, ui0_enable, shown>>
      BY <1>5 DEF SyncStep, Sync
    <2>2. CASE m_ /\ SyncData /\ ui_update_' = ui_update_ \cup SyncUpdates
      BY <1>0, <2>1, <2>2 DEF SyncData, SyncUpdates, Shows, Noted
    <2>3. CASE UNCHANGED <<scrub_index, camera, ui_update_>>
      BY <1>0, <2>1, <2>3 DEF Shows, Noted
    <2> QED
      BY <1>5, <2>2, <2>3 DEF SyncStep, Sync
  <1>6. CASE /\ UNCHANGED <<m_, runVars, camVars, uiVars>>
             /\ renderPc' = renderPc \/ renderPc # "draw"
    BY <1>0, <1>6 DEF Shows, Noted
  <1>7. CASE Next /\ ~FrameBegin /\ ~Render /\ ~UiEvent /\ ~SyncStep
    BY <1>6, <1>7 DEF Next, Frame, LoopEnd, Start, RenderCreate, RenderLoadXML, LoadMessage,
       StartFlag, LoadMessageClear, StartLoad, LoadRequested, StartWake, StartNames, Shutdown,
       Warm, CmdArrives, CmdTooEarly, CmdStep, StartInv
  <1> QED
    BY <1>2, <1>3, <1>4, <1>5, <1>6, <1>7 DEF Frame

-----------------------------------------------------------------------------
(* Theorems.                                                               *)

\* The inductive invariant.
SimInv == TypeOK /\ CameraMatches /\ RingIsLog /\ PanelInv /\ StartInv

\* The invariant holds initially and every step preserves it.
THEOREM SimInvariant == Spec => []SimInv
  <1>1. Init => SimInv
    <2> SUFFICES ASSUME Init PROVE SimInv
      OBVIOUS
    <2>0. /\ nhistory_ \in Nat \ {0} /\ MaxState \in Nat /\ nbody \in Nat \ {0} /\ ncam_ \in Nat
          /\ MaxEvents \in Nat
      BY ViewerAssumption
    <2>1. FlagType /\ LifeType /\ ViewType /\ ThreadType
      <3>1. FlagType /\ ThreadType
        BY DEF Init, ViewerInit, FlagType, ThreadType
      <3>2. LifeType /\ ViewType
        BY <2>0 DEF Init, ViewerInit, LifeType, ViewType, Perturb, Bodies, NoSelect, Requests
      <3> QED
        BY <3>1, <3>2
    <2>2. RingType /\ DataType /\ RingIsLog
      <3>1. RingType /\ DataType
        BY <2>0 DEF Init, ViewerInit, RingType, DataType, State, Slots
      <3>2. ASSUME NEW k \in Slots PROVE history_[Back(history_cursor_, k)] = log[k + 1]
        BY <2>0, <3>1, SlotOf DEF Init, ViewerInit, RingType, Slots
      <3> QED
        BY <3>1, <3>2 DEF RingIsLog
    <2>3. CameraType /\ CameraMatches
      BY <2>0 DEF Init, ViewerInit, CameraType, CameraMatches, CameraIndex, FreeCamera, Cameras
    <2>4. PanelType
      BY <2>0 DEF Init, ViewerInit, PanelType
    <2>5. PanelInv /\ StartInv
      BY DEF Init, ViewerInit, PanelInv, StartInv
    <2> QED
      BY <2>1, <2>2, <2>3, <2>4, <2>5, TypeParts DEF SimInv
  <1>2. SimInv /\ [Next]_vars => SimInv'
    BY RingStep, DataStep, ViewStep, FlagStep, LifeStep, ThreadStep, CameraStep, PanelTypeStep,
       PanelStep, StartStep, TypeParts DEF SimInv, CameraInv
  <1> QED
    BY <1>1, <1>2, PTL DEF Spec

\* Every variable keeps its type: no event, in whatever order, moves the scrubber,
\* the cursor, the selection or the camera out of range (simulate.cc:1326-1803).
THEOREM SimTypeCorrect == Spec => []TypeOK
  BY SimInvariant, PTL DEF SimInv

\* The camera that is drawn is the one the panel names and one the model has:
\* the keys, the panel, the clicks and Sync keep camera and cam together
\* (simulate.cc, UpdateSettings and UiEvent).
THEOREM CameraIsNamed == Spec => []CameraMatches
  BY SimInvariant, PTL DEF SimInv

\* Going k slots back in the ring buffer always finds the state recorded k steps
\* ago (AddToHistory, simulate.cc:2733-2744).
THEOREM RingBuffer == Spec => []HistoryIsLog
  <1>1. SimInv => HistoryIsLog
    BY RingFacts, TypeParts DEF SimInv, RingType
  <1> QED
    BY <1>1, SimInvariant, PTL

\* A panel that is shown is up to date after every frame, although Sync only notes
\* what it changes and Render skips a hidden panel (simulate.cc, Sync and Render).
THEOREM PanelAfterFrame == Spec => []PanelFresh
  <1>1. SimInv => PanelFresh
    <2> SUFFICES ASSUME SimInv, renderPc = "loop", m_, ui0_enable
                 PROVE  shown = [run |-> run, scrub_index |-> scrub_index, camera |-> camera]
      BY DEF PanelFresh
    <2>1. shown \in ShownType
      BY TypeParts DEF SimInv, PanelType, ShownType
    <2>2. shown.run = run /\ shown.scrub_index = scrub_index /\ shown.camera = camera
      BY DEF SimInv, PanelInv, Noted
    <2> QED
      BY <2>1, <2>2 DEF ShownType
  <1> QED
    BY <1>1, SimInvariant, PTL

\* Between the end of Start and Shutdown the viewer, the model and the arrays exist
\* and nothing has used an invalid pointer (sim_module.cc, Start and CmdCallback).
THEOREM StartedIsUsable == Spec => []OnceStarted
  <1>1. SimInv => OnceStarted
    BY DEF SimInv, StartInv, OnceStarted
  <1> QED
    BY <1>1, SimInvariant, PTL

\* What Sync loads for a scrub is the state recorded that many steps ago, whatever
\* else was asked for in the frame, unless a keyframe was.
THEOREM ScrubLoadsRecorded == Spec => ScrubShows
  <1> DEFINE A == Sync /\ m_ /\ exitrequest = 0
                    /\ "load_from_history" \in pending_ /\ "load_key" \notin pending_
                  => d' = log[1 - scrub_index']
  <1>1. SimInv /\ [Next]_vars => [A]_viewerVars
    <2> SUFFICES ASSUME SimInv, Sync, m_, exitrequest = 0, "load_from_history" \in pending_,
                        "load_key" \notin pending_
                 PROVE  d' = log[1 - scrub_index']
      OBVIOUS
    <2>1. /\ scrub_index' = IF "reset" \in pending_ THEN 0 ELSE scrub_index
          /\ d' = history_[ScrubSlot(scrub_index')]
      BY DEF Sync, SyncData
    <2>2. scrub_index \in (1 - nhistory_)..0 /\ nhistory_ \in Nat \ {0}
      BY TypeParts, ViewerAssumption DEF SimInv, DataType
    <2>3. scrub_index' \in (1 - nhistory_)..0
      BY <2>1, <2>2
    <2> QED
      BY <2>1, <2>3, ScrubFinds DEF SimInv
  <1>2. Spec => [][A]_viewerVars
    BY <1>1, SimInvariant, PTL DEF Spec
  <1> QED
    BY <1>2 DEF ScrubShows

=============================================================================
