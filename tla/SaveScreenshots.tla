-------------------------- MODULE SaveScreenshots --------------------------
(***************************************************************************)
(* fixes/save_screenshots.h.  A request for a save's screenshot leaves a   *)
(* number in screenshot_requested_location; three hooks in the function    *)
(* that renders a frame act on it.  The second one overwrites the register *)
(* that holds the render target, the third has to put it back.             *)
(*                                                                         *)
(* Requests and frames are the main thread's: no request inside a frame.   *)
(***************************************************************************)
EXTENDS Naturals

CONSTANTS
  Targets,        \* what the engine may hold in the register: ESI, or EDI on SE
  SavedTarget     \* 1, the target for a screenshot without flicker

ASSUME ScreenshotAssumption == SavedTarget \notin Targets

VARIABLES
  dof,                            \* bDoDepthOfField
  screenshot_requested_location,  \* 0 none, 1 ProcessEvents, 2 menu
  screenshotRequested,            \* SaveScreenshotRequestedDword
  saved_register,
  frameAt,                        \* where the frame is
  targetRegister,
  engineTarget,                   \* history: its value before RenderTargetHook_1
  requestAtStart                  \* history: the request the frame began with

screenshotVars == <<dof, screenshot_requested_location, screenshotRequested, saved_register,
                    frameAt, targetRegister, engineTarget, requestAtStart>>

FrameStep == {"between", "jnz", "hook1", "target", "hook2", "rest", "skipped"}

\* Install() with TAA off; the hooks differ in what ProcessEvents leaves.
ScreenshotStart(depthOfField, target) ==
  /\ dof = depthOfField
  /\ screenshot_requested_location = 0 /\ screenshotRequested = FALSE
  /\ saved_register = 0 /\ frameAt = "between"
  /\ targetRegister = target /\ engineTarget = target /\ requestAtStart = 0

ScreenshotInit == \E d \in BOOLEAN, r \in Targets : ScreenshotStart(d, r)

\* IsSaveRequest_Code: every save that is not made from the journal menu.
ProcessEventsRequest ==
  /\ frameAt = "between"
  /\ screenshot_requested_location' = IF dof THEN 2 ELSE 1
  /\ screenshotRequested' = TRUE
  /\ UNCHANGED <<dof, saved_register, frameAt, targetRegister, engineTarget, requestAtStart>>

\* MenuSave_Code, which runs twice for one menu.
MenuRequest ==
  /\ frameAt = "between"
  /\ screenshot_requested_location' = 2 /\ screenshotRequested' = TRUE
  /\ UNCHANGED <<dof, saved_register, frameAt, targetRegister, engineTarget, requestAtStart>>

BeginFrame ==
  /\ frameAt = "between" /\ frameAt' = "jnz"
  /\ requestAtStart' = screenshot_requested_location
  /\ UNCHANGED <<dof, screenshot_requested_location, screenshotRequested, saved_register,
                 targetRegister, engineTarget>>

\* ScreenshotRender_Code: a request skips the engine's jump over the render target
\* code; one of ProcessEvents is done with here.  Without one DIL decides.
ScreenshotJnz ==
  /\ frameAt = "jnz"
  /\ \/ screenshot_requested_location = 0 /\ frameAt' = "skipped"
     \/ frameAt' = "hook1"
  /\ screenshot_requested_location' =
       IF screenshot_requested_location = 1 THEN 0 ELSE screenshot_requested_location
  /\ UNCHANGED <<dof, screenshotRequested, saved_register, targetRegister, engineTarget,
                 requestAtStart>>

\* The engine's code up to the first hook: it loads the register, or leaves.
EngineToHook1 ==
  /\ frameAt = "hook1"
  /\ \/ frameAt' = "skipped" /\ UNCHANGED <<targetRegister, engineTarget>>
     \/ /\ frameAt' = "target"
        /\ \E r \in Targets : targetRegister' = r /\ engineTarget' = r
  /\ UNCHANGED <<dof, screenshot_requested_location, screenshotRequested, saved_register,
                 requestAtStart>>

\* RenderTargetHook_1_Code, and the engine's code that uses the register.
RenderTargetHook_1 ==
  /\ frameAt = "target" /\ frameAt' = "hook2"
  /\ IF screenshot_requested_location = 2
     THEN saved_register' = targetRegister /\ targetRegister' = SavedTarget
     ELSE UNCHANGED <<saved_register, targetRegister>>
  /\ UNCHANGED <<dof, screenshot_requested_location, screenshotRequested, engineTarget,
                 requestAtStart>>

\* Mutant: the register is put back in every frame.
RestoreInEveryFrame ==
  /\ frameAt = "hook2" /\ frameAt' = "rest"
  /\ screenshot_requested_location' = 0 /\ targetRegister' = saved_register
  /\ UNCHANGED <<dof, screenshotRequested, saved_register, engineTarget, requestAtStart>>

\* RenderTargetHook_2_Code.
RenderTargetHook_2 ==
  /\ frameAt = "hook2" /\ frameAt' = "rest"
  /\ IF screenshot_requested_location = 2
     THEN screenshot_requested_location' = 0 /\ targetRegister' = saved_register
     ELSE UNCHANGED <<screenshot_requested_location, targetRegister>>
  /\ UNCHANGED <<dof, screenshotRequested, saved_register, engineTarget, requestAtStart>>

\* The engine's rest of the frame; it takes the screenshot if it is asked for.
EndFrame ==
  /\ frameAt \in {"rest", "skipped"} /\ frameAt' = "between"
  /\ screenshotRequested' \in {screenshotRequested, FALSE}
  /\ UNCHANGED <<dof, screenshot_requested_location, saved_register, targetRegister,
                 engineTarget, requestAtStart>>

ScreenshotNext ==
  \/ ProcessEventsRequest \/ MenuRequest \/ BeginFrame \/ ScreenshotJnz
  \/ EngineToHook1 \/ RenderTargetHook_1 \/ RenderTargetHook_2 \/ EndFrame

ScreenshotSpec == ScreenshotInit /\ [][ScreenshotNext]_screenshotVars
-----------------------------------------------------------------------------
\* The hooks pair up over the one shared location: the target is replaced in just
\* the frames that began with a menu request, the engine has its own register back
\* after the third hook in every frame, and a frame that passes the hooks leaves no
\* request to the next, however often and from where requests came.
TargetRestored ==
  /\ frameAt = "hook2" => (targetRegister = SavedTarget <=> requestAtStart = 2)
  /\ frameAt = "rest" => targetRegister = engineTarget /\ screenshot_requested_location = 0
  /\ frameAt = "skipped" => requestAtStart # 1 \/ screenshot_requested_location = 0
=============================================================================
