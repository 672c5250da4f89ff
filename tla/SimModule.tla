------------------------------ MODULE SimModule ------------------------------
(***************************************************************************)
(* The simulation module: Start spawns the render thread, which loads the  *)
(* model, and hands the model to the viewer; CmdCallback steps the physics *)
(* for every joint command; Shutdown frees the model.  The framework, the  *)
(* clock and the sender of the commands are external.                      *)
(***************************************************************************)
EXTENDS Viewer

VARIABLES
  startPc,                    \* where the framework's thread is
  is_render_thread_running_,
  sim_,                       \* the viewer has been made
  model,                      \* m_ and d_ of the module
  warm,                       \* more than 3000 ms have passed since Initialize
  cmdPc,                      \* CmdCallback has a message
  crashed                     \* an invalid pointer has been used

simVars == <<startPc, is_render_thread_running_, sim_, model, warm, cmdPc, crashed>>
vars == <<viewerVars, simVars>>

TypeOK ==
  /\ ViewerTypeOK
  /\ startPc \in {"init", "flag", "load", "wait", "names", "done", "stopped"}
  /\ is_render_thread_running_ \in BOOLEAN /\ sim_ \in BOOLEAN
  /\ model \in {"null", "live", "freed"}
  /\ warm \in BOOLEAN /\ cmdPc \in {"none", "taken"} /\ crashed \in BOOLEAN

Init ==
  /\ ViewerInit
  /\ startPc = "init" /\ is_render_thread_running_ = FALSE
  /\ sim_ = FALSE /\ model = "null"
  /\ warm = FALSE /\ cmdPc = "none" /\ crashed = FALSE

UnchangedViewerButLoad ==
  UNCHANGED <<quitVars, dataVars, histVars, runVars, pending_, pertVars, camVars, uiVars, events>>

-----------------------------------------------------------------------------
(* What plausible slips of the code would look like.                       *)

\* Load does not wait for the render thread.
LoadDoneAtOnce == TRUE

-----------------------------------------------------------------------------
(* Start, and the render thread up to its loop.                            *)

Start ==
  /\ startPc = "init"
  /\ startPc' = "flag" /\ renderPc' = "create"
  /\ UNCHANGED <<loadVars, is_render_thread_running_, sim_, model, warm, cmdPc, crashed>>
  /\ UnchangedViewerButLoad

RenderCreate ==
  /\ renderPc = "create"
  /\ renderPc' = "xml"
  /\ sim_' = TRUE
  /\ LoadMessage
  /\ UNCHANGED <<startPc, is_render_thread_running_, model, warm, cmdPc, crashed>>
  /\ UnchangedViewerButLoad

\* mj_loadXML, which fails for a file that is missing or malformed.
RenderLoadXML(loaded) ==
  /\ renderPc = "xml"
  /\ renderPc' = "loop"
  /\ model' = loaded
  /\ is_render_thread_running_' = TRUE
  /\ UNCHANGED <<loadVars, startPc, sim_, warm, cmdPc, crashed>> /\ UnchangedViewerButLoad

\* Without a model Start goes on to read m_->njnt.
StartFlag ==
  /\ startPc = "flag" /\ is_render_thread_running_
  /\ \/ /\ model = "live"
        /\ startPc' = "load"
        /\ UNCHANGED <<loadVars, crashed>>
     \/ /\ model = "null" /\ MtxFree
        /\ LoadMessageClear
        /\ crashed' = TRUE
        /\ UNCHANGED startPc
  /\ UNCHANGED <<renderPc, is_render_thread_running_, sim_, model, warm, cmdPc>>
  /\ UnchangedViewerButLoad

StartLoad ==
  /\ startPc = "load" /\ MtxFree
  /\ LoadRequested
  /\ startPc' = "wait"
  /\ UNCHANGED <<renderPc, is_render_thread_running_, sim_, model, warm, cmdPc, crashed>>
  /\ UnchangedViewerButLoad

LoadDone == loadrequest = 0

StartWake ==
  /\ startPc = "wait" /\ MtxFree /\ LoadDone
  /\ startPc' = "names"
  /\ UNCHANGED <<viewerVars, is_render_thread_running_, sim_, model, warm, cmdPc, crashed>>

\* mj_forward, the joint names, and the arrays that are as long.
StartNames ==
  /\ startPc = "names" /\ MtxFree
  /\ startPc' = "done"
  /\ UNCHANGED <<viewerVars, is_render_thread_running_, sim_, model, warm, cmdPc, crashed>>

Shutdown ==
  /\ startPc = "done"
  /\ startPc' = "stopped"
  /\ model' = "freed"
  /\ UNCHANGED <<viewerVars, is_render_thread_running_, sim_, warm, cmdPc, crashed>>

-----------------------------------------------------------------------------
(* CmdCallback.                                                            *)

Warm ==
  /\ ~warm
  /\ warm' = TRUE
  /\ UNCHANGED <<viewerVars, startPc, is_render_thread_running_, sim_, model, cmdPc, crashed>>

CmdArrives ==
  /\ cmdPc = "none"
  /\ cmdPc' = "taken"
  /\ UNCHANGED <<viewerVars, startPc, is_render_thread_running_, sim_, model, warm, crashed>>

CmdTooEarly ==
  /\ cmdPc = "taken" /\ ~warm
  /\ cmdPc' = "none"
  /\ UNCHANGED <<viewerVars, startPc, is_render_thread_running_, sim_, model, warm, crashed>>

\* The arrays of the PD law have a length only when Start is over.
CmdValid == sim_ /\ model = "live" /\ startPc = "done"

CmdStep ==
  /\ cmdPc = "taken" /\ warm
  /\ sim_ => MtxFree
  /\ cmdPc' = "none"
  /\ crashed' = ~CmdValid
  /\ d' = IF CmdValid THEN Stepped(d) ELSE d
  /\ UNCHANGED <<renderPc, loadVars, quitVars, key_, histVars, runVars,
                 pending_, pertVars, camVars, uiVars, events,
                 startPc, is_render_thread_running_, sim_, model, warm>>

-----------------------------------------------------------------------------
(* The frames.  Sync reads the model, which Shutdown may have freed.        *)

Frame ==
  /\ FrameBegin \/ Render \/ LoopEnd \/ UiEvent
  /\ UNCHANGED simVars

SyncStep ==
  /\ Sync
  /\ crashed' = (m_ /\ exitrequest = 0 /\ model = "freed")
  /\ UNCHANGED <<startPc, is_render_thread_running_, sim_, model, warm, cmdPc>>

Next ==
  /\ ~crashed
  /\ \/ Start \/ RenderCreate
     \/ \E loaded \in {"live", "null"} : RenderLoadXML(loaded)
     \/ StartFlag \/ StartLoad \/ StartWake \/ StartNames \/ Shutdown
     \/ Warm \/ CmdArrives \/ CmdTooEarly \/ CmdStep
     \/ Frame \/ SyncStep

Spec == Init /\ [][Next]_vars

\* Every thread goes on.  A thread that asks for mtx again and again gets it:
\* the render thread is without it for as long as it draws a frame.
RenderThread ==
  ~crashed /\ \/ RenderCreate \/ \E loaded \in {"live", "null"} : RenderLoadXML(loaded)
              \/ (FrameBegin \/ Render \/ LoopEnd) /\ UNCHANGED simVars
              \/ SyncStep
StartThread == ~crashed /\ (StartFlag \/ StartLoad \/ StartWake \/ StartNames)
CmdThread == ~crashed /\ (CmdTooEarly \/ CmdStep)

FairSpec == Spec /\ WF_vars(RenderThread) /\ SF_vars(StartThread) /\ SF_vars(CmdThread)

-----------------------------------------------------------------------------
(* Properties.                                                             *)

\* Once Start has returned and until Shutdown, the viewer and the model exist,
\* the viewer shows that model, and nothing has used an invalid pointer.
OnceStarted == startPc = "done" => sim_ /\ model = "live" /\ m_ /\ ~crashed

\* Start returns, or has met the missing model, unless the window is closed or
\* frozen before the viewer has the model, or a command comes too soon.
StartEnds == startPc = "flag" ~> startPc = "done" \/ crashed \/ renderPc \in {"spin", "end"}

\* A command that is taken after Start is answered, in whatever state the viewer
\* is (paused, scrubbing, closed) unless a second dropped file has frozen it, or
\* the module is shut down.
CommandAnswered ==
  (startPc = "done" /\ cmdPc = "taken")
    ~> (cmdPc = "none" \/ renderPc = "spin" \/ startPc = "stopped")

=============================================================================
