------------------------------- MODULE Viewer -------------------------------
(***************************************************************************)
(* The MuJoCo viewer (mj::Simulate and its UI adapter) as the simulation   *)
(* module uses it: is_passive_ is false.  The render thread repeats a      *)
(* frame: under mtx it adopts a model it was asked to load, handles the    *)
(* events of the window and applies what they left pending (Sync); without *)
(* mtx it draws.                                                           *)
(*                                                                         *)
(* MuJoCo, GLFW and the user are external.  A number stands for the state  *)
(* of mjData: 0 is the state after a reset and mj_step goes to the next    *)
(* one.  One keyframe stands for all.  What only changes the drawing       *)
(* (options, labels, panels, screenshots, saved files, the real time       *)
(* index), the controls, and the forces of a perturbation are left out; so *)
(* are uiloadrequest, which nobody reads, and qpos_, which the sliders     *)
(* only use in a passive viewer and which otherwise follows mjData.  The   *)
(* sections of the panels are taken to be open.                            *)
(***************************************************************************)
EXTENDS Integers, Sequences

CONSTANTS
  nhistory_,   \* length of the history buffer
  MaxState,    \* bound: the states are 0..MaxState
  nbody,       \* the bodies are 0..nbody-1, 0 is the world
  ncam_,       \* fixed cameras
  MaxEvents    \* bound on the events of a behaviour

ASSUME ViewerAssumption ==
  /\ nhistory_ \in Nat \ {0} /\ MaxState \in Nat /\ nbody \in Nat \ {0}
  /\ ncam_ \in Nat /\ MaxEvents \in Nat

VARIABLES
  renderPc,              \* where the render thread is
  m_, mnew_,             \* the viewer has a model; it has been given one
  loadrequest, exitrequest, droploadrequest,
  closed,                \* the user has closed the window
  d, key_,               \* the state of mjData, and the one the keyframe holds
  run, scrub_index,
  history_, history_cursor_,
  log,                   \* the last nhistory_ states recorded, newest first
  pending_,              \* the flags of pending_ that are set
  newperturb, selecting, \* pending_.newperturb, and select with select_state
  active, select,        \* of pert
  dragrect,              \* the rectangle a mouse button went down in
  camera, cam,
  ui0_enable,            \* the left panel is shown
  shown, ui_update_,     \* what it shows; the sections Render is to update
  events

loadVars == <<m_, mnew_, loadrequest>>
quitVars == <<exitrequest, closed, droploadrequest>>
dataVars == <<d, key_>>
histVars == <<history_, history_cursor_, log>>
runVars  == <<run, scrub_index>>
pertVars == <<newperturb, selecting, active, select, dragrect>>
camVars  == <<camera, cam>>
uiVars   == <<ui0_enable, shown, ui_update_>>
viewerVars == <<renderPc, loadVars, quitVars, dataVars, histVars, runVars, pending_,
                pertVars, camVars, uiVars, events>>

State  == 0..MaxState
Slots  == 0..(nhistory_ - 1)
Bodies == 0..(nbody - 1)
Requests == {"reset", "align", "load_from_history", "load_key", "save_key"}
Perturb == {"none", "translate", "rotate"}
Cameras == [type : {"FREE", "TRACKING", "FIXED"}, trackbodyid : -1..(nbody - 1),
            fixedcamid : -1..(ncam_ - 1)]
FreeCamera == [type |-> "FREE", trackbodyid |-> -1, fixedcamid |-> -1]
\* selmode: 1 selects a body, 2 looks at it, 3 tracks it.
NoSelect == 0

ViewerTypeOK ==
  /\ renderPc \in {"none", "create", "xml", "loop", "poll", "spin", "draw", "end"}
  /\ m_ \in BOOLEAN /\ mnew_ \in BOOLEAN /\ loadrequest \in 0..3
  /\ exitrequest \in 0..2 /\ closed \in BOOLEAN /\ droploadrequest \in BOOLEAN
  /\ d \in State /\ key_ \in State
  /\ run \in 0..1 /\ scrub_index \in (1 - nhistory_)..0
  /\ history_ \in [Slots -> State] /\ history_cursor_ \in Slots
  /\ log \in [1..nhistory_ -> State]
  /\ pending_ \subseteq Requests
  /\ newperturb \in Perturb /\ active \in Perturb
  /\ selecting \in 0..3 /\ select \in Bodies /\ dragrect \in {0, 1, 3}
  /\ camera \in 0..(ncam_ + 1) /\ cam \in Cameras
  /\ ui0_enable \in BOOLEAN /\ ui_update_ \subseteq {"simulation", "rendering"}
  /\ shown \in [run : 0..1, scrub_index : (1 - nhistory_)..0, camera : 0..(ncam_ + 1)]
  /\ events \in 0..MaxEvents

ViewerInit ==
  /\ renderPc = "none"
  /\ m_ = FALSE /\ mnew_ = FALSE /\ loadrequest = 0
  /\ exitrequest = 0 /\ closed = FALSE /\ droploadrequest = FALSE
  /\ d = 0 /\ key_ = 0
  /\ run = 1 /\ scrub_index = 0
  /\ history_ = [i \in Slots |-> 0] /\ history_cursor_ = 0
  /\ log = [i \in 1..nhistory_ |-> 0]
  /\ pending_ = {} /\ newperturb = "none" /\ selecting = NoSelect
  /\ active = "none" /\ select = 0 /\ dragrect = 0
  /\ camera = 0 /\ cam = FreeCamera
  /\ ui0_enable = TRUE /\ ui_update_ = {}
  /\ shown = [run |-> 1, scrub_index |-> 0, camera |-> 0]
  /\ events = 0

-----------------------------------------------------------------------------
(* What plausible slips of the code would look like.                       *)

\* The thread that draws ends with mtx held.
MtxFreeUntilTheEnd == renderPc \notin {"poll", "spin", "end"}

\* LEFT goes back without a limit.
ScrubbedBackWithoutLimit == scrub_index - 1

\* The state is written before the cursor moves.
AddToHistoryWritesFirst(s) ==
  /\ history_' = [history_ EXCEPT ![history_cursor_] = s]
  /\ history_cursor_' = (history_cursor_ + 1) % nhistory_
  /\ log' = [k \in 1..nhistory_ |-> IF k = 1 THEN s ELSE log[k - 1]]

\* The test for the last camera is off by one.
CameraUpOffByOne == IF camera < 2 \/ camera = 2 + ncam_ THEN 2 ELSE camera + 1

\* A change of the camera is not noted.
SyncUpdatesSimulationOnly == IF "reset" \in pending_ THEN {"simulation"} ELSE {}

\* The request is not cleared when the model is loaded.
LoadedRequestKept == loadrequest

-----------------------------------------------------------------------------
(* The history buffer, and the mutex.                                      *)

\* The render thread holds mtx from the load of a frame to the end of Sync.
MtxFree == renderPc \notin {"poll", "spin"}

\* mj_step
Stepped(s) == IF s = MaxState THEN 0 ELSE s + 1

\* C's remainder has the sign of its left operand.
Rem(a, n) == IF a < 0 THEN -((-a) % n) ELSE a % n

ScrubSlot(k) == Rem(Rem(k + history_cursor_, nhistory_) + nhistory_, nhistory_)

AddToHistory(s) ==
  /\ history_cursor_' = (history_cursor_ + 1) % nhistory_
  /\ history_' = [history_ EXCEPT ![history_cursor_'] = s]
  /\ log' = [k \in 1..nhistory_ |-> IF k = 1 THEN s ELSE log[k - 1]]

-----------------------------------------------------------------------------
(* The left panel: mjui0_update_section, and UiModify, which updates every *)
(* section.                                                                *)

ShowSimulation ==
  /\ shown' = [shown EXCEPT !.run = run', !.scrub_index = scrub_index']
  /\ UNCHANGED <<ui0_enable, ui_update_>>
ShowRendering ==
  /\ shown' = [shown EXCEPT !.camera = camera']
  /\ UNCHANGED <<ui0_enable, ui_update_>>
ShowAll ==
  /\ shown' = [run |-> run', scrub_index |-> scrub_index', camera |-> camera']
  /\ UNCHANGED ui_update_

\* What Render does with the sections that are to be updated.
RenderSections ==
  IF ~m_ THEN UNCHANGED uiVars
  ELSE /\ shown' = [run |-> IF ui0_enable /\ "simulation" \in ui_update_ THEN run ELSE shown.run,
                    scrub_index |-> IF ui0_enable /\ "simulation" \in ui_update_
                                    THEN scrub_index ELSE shown.scrub_index,
                    camera |-> IF ui0_enable /\ "rendering" \in ui_update_
                               THEN camera ELSE shown.camera]
       /\ ui_update_' = {}
       /\ UNCHANGED ui0_enable

-----------------------------------------------------------------------------
(* Loading a model.                                                        *)

LoadMessage ==
  /\ loadrequest' = 3
  /\ UNCHANGED <<m_, mnew_>>

LoadRequested ==
  /\ mnew_' = TRUE
  /\ loadrequest' = 2
  /\ UNCHANGED m_

LoadMessageClear ==
  /\ loadrequest' = 0
  /\ UNCHANGED <<m_, mnew_>>

LoadedRequest == 0

LoadOnRenderThread ==
  /\ m_' = mnew_ /\ mnew_' = FALSE
  /\ loadrequest' = LoadedRequest
  /\ history_' = [i \in Slots |-> d] /\ history_cursor_' = 0
  /\ log' = [i \in 1..nhistory_ |-> d]
  /\ scrub_index' = 0
  /\ active' = "none" /\ select' = 0
  /\ cam' = FreeCamera /\ camera' = 0
  /\ UNCHANGED <<d, key_, run, newperturb, selecting, dragrect, ui0_enable>>
  /\ ShowAll

-----------------------------------------------------------------------------
(* A frame of RenderLoop: up to the events, Sync, Render.                  *)

FrameBegin ==
  /\ renderPc = "loop" /\ ~closed /\ exitrequest = 0
  /\ renderPc' = "poll"
  /\ \/ /\ loadrequest = 1
        /\ LoadOnRenderThread
     \/ /\ loadrequest # 1
        /\ loadrequest' = IF loadrequest = 2 THEN 1 ELSE loadrequest
        /\ UNCHANGED <<m_, mnew_, dataVars, histVars, runVars, pertVars, camVars, uiVars>>
  /\ UNCHANGED <<quitVars, pending_, events>>

\* UpdateSettings: the index of the camera the panel shows.
CameraIndex(c) ==
  CASE c.type = "FIXED" -> 2 + c.fixedcamid
    [] c.type = "TRACKING" -> 1
    [] OTHER -> 0

\* The camera after a click that found body b, or nothing for -1.
Tracking(c, b) ==
  IF selecting = 3 /\ b > 0
  THEN [type |-> "TRACKING", trackbodyid |-> b, fixedcamid |-> -1] ELSE c

SyncData ==
  LET afterReset == IF "reset" \in pending_ THEN 0 ELSE d
      scrub == IF "reset" \in pending_ THEN 0 ELSE scrub_index
      afterScrub == IF "load_from_history" \in pending_ THEN history_[ScrubSlot(scrub)]
                                                        ELSE afterReset
      afterKey == IF "load_key" \in pending_ THEN key_ ELSE afterScrub
  IN  /\ scrub_index' = scrub
      /\ d' = afterKey
      /\ key_' = IF "save_key" \in pending_ THEN afterKey ELSE key_

SyncView ==
  \E b \in -1..(nbody - 1) :
    LET aligned == IF "align" \in pending_ THEN FreeCamera ELSE cam
    IN  /\ selecting = NoSelect => b = -1
        /\ active' = IF newperturb # "none" THEN newperturb ELSE active
        /\ select' = IF selecting = 1 THEN (IF b < 0 THEN 0 ELSE b) ELSE select
        /\ cam' = Tracking(aligned, b)
        /\ camera' = CameraIndex(cam')
        /\ newperturb' = "none" /\ selecting' = NoSelect

\* The sections of the panel that Sync finds out of date.
SyncUpdates == (IF "reset" \in pending_ THEN {"simulation"} ELSE {})
               \cup (IF camera' # camera THEN {"rendering"} ELSE {})

Sync ==
  /\ renderPc = "poll"
  /\ renderPc' = "draw"
  /\ \/ /\ m_ /\ exitrequest = 0
        /\ SyncData /\ SyncView
        /\ ui_update_' = ui_update_ \cup SyncUpdates
        /\ pending_' = {}
     \/ /\ ~m_ \/ exitrequest # 0
        /\ UNCHANGED <<dataVars, scrub_index, pending_, newperturb, selecting, active, select,
                       camVars, ui_update_>>
  /\ UNCHANGED <<loadVars, quitVars, histVars, run, dragrect, ui0_enable, shown, events>>

Render ==
  /\ renderPc = "draw"
  /\ renderPc' = "loop"
  /\ RenderSections
  /\ UNCHANGED <<loadVars, quitVars, dataVars, histVars, runVars, pending_, pertVars, camVars,
                 events>>

LoopEnd ==
  /\ renderPc = "loop" /\ (closed \/ exitrequest # 0)
  /\ renderPc' = "end"
  /\ exitrequest' = 2
  /\ UNCHANGED <<loadVars, closed, droploadrequest, dataVars, histVars, runVars, pending_,
                 pertVars, camVars, uiVars, events>>

-----------------------------------------------------------------------------
(* The events of a frame.                                                  *)

Event ==
  /\ renderPc = "poll" /\ events < MaxEvents
  /\ events' = events + 1
  /\ UNCHANGED loadVars

UnchangedButQuit ==
  UNCHANGED <<dataVars, histVars, runVars, pending_, pertVars, camVars, uiVars>>
UnchangedButRun  == UNCHANGED <<renderPc, quitVars, key_, pertVars, camVars>>
UnchangedButView == UNCHANGED <<renderPc, quitVars, dataVars, histVars, runVars, pending_>>

CloseWindow ==
  /\ Event
  /\ closed' = TRUE
  /\ UNCHANGED <<renderPc, exitrequest, droploadrequest>> /\ UnchangedButQuit

Quit ==
  /\ Event
  /\ exitrequest' = 1
  /\ UNCHANGED <<renderPc, closed, droploadrequest>> /\ UnchangedButQuit

\* A file is dropped while droploadrequest is still set: the handler spins, with mtx held.
DropFile ==
  /\ Event
  /\ renderPc' = IF droploadrequest THEN "spin" ELSE "poll"
  /\ droploadrequest' = TRUE
  /\ UNCHANGED <<exitrequest, closed>> /\ UnchangedButQuit

\* Whether the items of a category can be used.
UiPredicate(category) == category \in {2, 3, 5} => m_

Ask(request) ==
  /\ Event /\ UiPredicate(IF request \in {"load_key", "save_key"} THEN 3 ELSE 2)
  /\ pending_' = pending_ \cup {request}
  /\ UNCHANGED <<d, histVars, runVars, uiVars>> /\ UnchangedButRun

RunItem(r) ==
  /\ Event /\ UiPredicate(5)
  /\ run' = r
  /\ shown' = [shown EXCEPT !.run = r]
  /\ UNCHANGED <<d, histVars, scrub_index, pending_, ui0_enable, ui_update_>>
  /\ UnchangedButRun

Scrubber(k) ==
  /\ Event /\ UiPredicate(5)
  /\ run' = 0 /\ scrub_index' = k
  /\ pending_' = pending_ \cup {"load_from_history"}
  /\ ShowSimulation
  /\ UNCHANGED <<d, histVars>> /\ UnchangedButRun

JointSlider(s) ==
  /\ Event /\ m_
  /\ d' = s
  /\ UNCHANGED <<histVars, runVars, pending_, uiVars>> /\ UnchangedButRun

KeySpace ==
  /\ Event /\ m_
  /\ run' = 1 - run
  /\ scrub_index' = IF run = 0 THEN 0 ELSE scrub_index
  /\ active' = "none"
  /\ UNCHANGED <<renderPc, quitVars, dataVars, histVars, pending_, newperturb, selecting,
                 select, dragrect, camVars, ui0_enable>>
  /\ ShowAll

KeyRight ==
  /\ Event /\ m_ /\ run = 0
  /\ \/ /\ scrub_index < 0
        /\ scrub_index' = scrub_index + 1
        /\ pending_' = pending_ \cup {"load_from_history"}
        /\ UNCHANGED <<run, d, histVars>>
        /\ ShowSimulation
     \/ /\ scrub_index = 0
        /\ d' = Stepped(d)
        /\ AddToHistory(d')
        /\ UNCHANGED <<run, scrub_index, pending_, uiVars>>
  /\ UnchangedButRun

ScrubbedBack == IF scrub_index = 1 - nhistory_ THEN scrub_index ELSE scrub_index - 1

KeyLeft ==
  /\ Event /\ m_
  /\ run' = 0
  /\ scrub_index' = ScrubbedBack
  /\ pending_' = pending_ \cup {"load_from_history"}
  /\ ShowSimulation
  /\ UNCHANGED <<d, histVars>> /\ UnchangedButRun

\* The bodies of the model: each hangs from the one before it.
Parent(b) == b - 1

KeyPageUp ==
  /\ Event /\ m_ /\ select > 0
  /\ select' = Parent(select)
  /\ active' = IF Parent(select) = 0 THEN "none" ELSE active
  /\ UNCHANGED <<newperturb, selecting, dragrect, camVars, uiVars>> /\ UnchangedButView

-----------------------------------------------------------------------------
(* Cameras and the mouse.                                                  *)

CameraUp == IF camera < 2 \/ camera = 2 + ncam_ - 1 THEN 2 ELSE camera + 1
CameraDown == IF camera <= 2 THEN 2 + ncam_ - 1 ELSE camera - 1

KeyCamera ==
  /\ Event /\ m_ /\ ncam_ > 0
  /\ camera' \in {CameraUp, CameraDown}
  /\ cam' = [cam EXCEPT !.type = "FIXED", !.fixedcamid = camera' - 2]
  /\ ShowRendering
  /\ UNCHANGED pertVars /\ UnchangedButView

KeyEscape ==
  /\ Event
  /\ cam' = [cam EXCEPT !.type = "FREE"]
  /\ camera' = 0
  /\ ShowRendering
  /\ UNCHANGED pertVars /\ UnchangedButView

\* Any item of the rendering section, among them the camera's with the choice c.
RenderingItem(c) ==
  /\ Event /\ m_
  /\ \/ /\ c = 0 \/ (c = 1 /\ select = 0)
        /\ cam' = [cam EXCEPT !.type = "FREE"]
        /\ camera' = 0
     \/ /\ c = 1 /\ select > 0
        /\ cam' = [type |-> "TRACKING", trackbodyid |-> select, fixedcamid |-> -1]
        /\ camera' = c
     \/ /\ c > 1
        /\ cam' = [cam EXCEPT !.type = "FIXED", !.fixedcamid = c - 2]
        /\ camera' = c
  /\ ShowRendering
  /\ UNCHANGED pertVars /\ UnchangedButView

\* A button goes down over the panel (1) or the scene (3).
Press(rect, button, control, doubleclick) ==
  /\ Event
  /\ dragrect' = rect
  /\ LET double == rect = 3 /\ doubleclick /\ m_
         perturb == rect = 3 /\ control /\ select > 0 /\ m_ /\ active = "none"
     IN  /\ newperturb' = IF double THEN "none"
                          ELSE IF perturb
                               THEN (IF button = "right" THEN "translate" ELSE "rotate")
                               ELSE newperturb
         /\ selecting' = IF ~double THEN selecting
                         ELSE IF button = "left" THEN 1 ELSE IF control THEN 3 ELSE 2
         /\ active' = IF double THEN "none" ELSE active
  /\ UNCHANGED <<select, camVars, uiVars>> /\ UnchangedButView

Release ==
  /\ Event
  /\ dragrect' = 0
  /\ LET ends == dragrect = 3 /\ m_
     IN  /\ active' = IF ends THEN "none" ELSE active
         /\ newperturb' = IF ends THEN "none" ELSE newperturb
  /\ UNCHANGED <<selecting, select, camVars, uiVars>> /\ UnchangedButView

OnWindowResize ==
  /\ Event
  /\ dragrect' = 0
  /\ UNCHANGED <<newperturb, selecting, active, select, camVars, uiVars>> /\ UnchangedButView

KeyTab ==
  /\ Event
  /\ ui0_enable' = ~ui0_enable
  /\ UNCHANGED <<pertVars, camVars>> /\ UnchangedButView
  /\ ShowAll

\* A redraw event draws at once.
Redraw ==
  /\ Event
  /\ RenderSections
  /\ UNCHANGED <<pertVars, camVars>> /\ UnchangedButView

UiEvent ==
  \/ CloseWindow \/ Quit \/ DropFile
  \/ \E request \in {"reset", "align", "load_key", "save_key"} : Ask(request)
  \/ \E r \in 0..1 : RunItem(r)
  \/ \E k \in (1 - nhistory_)..0 : Scrubber(k)
  \/ \E s \in State : JointSlider(s)
  \/ KeySpace \/ KeyRight \/ KeyLeft \/ KeyPageUp
  \/ KeyCamera \/ KeyEscape
  \/ \E c \in 0..(ncam_ + 1) : RenderingItem(c)
  \/ \E rect \in {1, 3}, button \in {"left", "right"}, control, doubleclick \in BOOLEAN :
       Press(rect, button, control, doubleclick)
  \/ Release \/ OnWindowResize \/ KeyTab \/ Redraw

-----------------------------------------------------------------------------
(* Properties.                                                             *)

\* The camera that is drawn is the one the panel names, a tracking camera
\* follows a body and a fixed camera is one the model has.
CameraMatches ==
  /\ camera = CameraIndex(cam)
  /\ cam.type = "TRACKING" => cam.trackbodyid \in 1..(nbody - 1)
  /\ cam.type = "FIXED" => cam.fixedcamid \in 0..(ncam_ - 1)

\* When a frame has been drawn, the panel shows the mode, the scrubber and the
\* camera that are in force, although most changes of them are only noted by
\* Sync and the panel may have been hidden at the time.
PanelFresh ==
  renderPc = "loop" /\ m_ /\ ui0_enable
    => shown = [run |-> run, scrub_index |-> scrub_index, camera |-> camera]

\* Going k slots back from the cursor of the ring buffer finds the state that
\* was recorded k steps ago.
HistoryIsLog == \A k \in 0..(nhistory_ - 1) : history_[ScrubSlot(-k)] = log[k + 1]

\* When the user has moved the scrubber, the state that Sync loads is the one
\* recorded that many steps ago, whatever else the frame's events asked for,
\* unless a keyframe was asked for too.
ScrubShows ==
  [][Sync /\ m_ /\ exitrequest = 0
       /\ "load_from_history" \in pending_ /\ "load_key" \notin pending_
     => d' = log[1 - scrub_index']]_viewerVars

=============================================================================
