------------------------- MODULE MainMenuMessageBox -------------------------
(***************************************************************************)
(* src/fixes/messagebox_mainmenu.h (VR): the draw loop over the menu stack *)
(* with the rotated order of MenuRenderOrder, and the test popup that asks *)
(* for a message box once the main menu is up.                             *)
(*                                                                         *)
(* Menus open and close between frames.  A menu event reaches the popup's  *)
(* sink some time after the stack has changed, and a task runs some time   *)
(* after it was added.  How a menu is drawn does not change: some have the *)
(* topmost flag, some another property that forbids to move them (the      *)
(* fader's class, a target, a flag or a Display of their own).             *)
(***************************************************************************)
EXTENDS MenuRenderOrder, Sequences, SequencesExt, FiniteSets

CONSTANTS
  Other,        \* menus beside the ones named here
  MaxTopmost,   \* bound on the menus with the topmost flag
  MaxEvents     \* bound on the events on their way

Menu == {"Main", "Mist", "MessageBox", "Loading"} \cup Other
Watched == {"Main", "Mist", "MessageBox", "Loading"}

VARIABLES
  topmost, unsafe,  \* menus with kTopmostRenderedMenu; menus blocked for another reason
  menuStack,        \* bottom first
  start, at,        \* the draw loop's first slot, and where it is (Idle: no draw)
  drawn,            \* the slots drawn so far
  armed, pending, queued,   \* TestPopup
  sink,             \* TestPopup is registered for menu events
  tasks, events,    \* its tasks in the queue, menu events on their way to it
  created,          \* history: popups created
  rejected          \* history: the last creation was refused, nothing happened since

popupVars == <<armed, pending, queued, sink, tasks, created, rejected>>
drawVars == <<start, at, drawn>>
flagVars == <<topmost, unsafe>>
vars == <<topmost, unsafe, menuStack, start, at, drawn, armed, pending, queued, sink,
          tasks, events, created, rejected>>

Idle == MaxMenuCount + 1
IsOpen(m) == m \in Range(menuStack)

Init ==
  /\ topmost \in {S \in SUBSET Menu : Cardinality(S) <= MaxTopmost}
  /\ unsafe \in SUBSET (Menu \ {"Main", "Mist"})
  /\ menuStack = <<>> /\ start = 0 /\ at = Idle /\ drawn = <<>>
  /\ armed = FALSE /\ pending = FALSE /\ queued = FALSE /\ sink = FALSE
  /\ tasks = 0 /\ events = 0 /\ created = 0 /\ rejected = FALSE
-----------------------------------------------------------------------------
(* The draw loop.                                                          *)

\* Mutant: a topmost menu can be moved like any other.
ClassifyTopmost(m) ==
  IF m = "Main" THEN "main"
  ELSE IF m = "Mist" THEN "mist"
  ELSE IF m \in unsafe THEN "blocked"
  ELSE IF m = "MessageBox" THEN "messageBox" ELSE "projected"

\* By class first; the flags block the other menus, the message box included.
Classify(m) ==
  IF m = "Main" THEN "main"
  ELSE IF m = "Mist" THEN "mist"
  ELSE IF m \in topmost \cup unsafe THEN "blocked"
  ELSE IF m = "MessageBox" THEN "messageBox" ELSE "projected"

Count == Len(menuStack)
StackRoles == [i \in 0..(Count - 1) |-> Classify(menuStack[i + 1])]

\* "Native draw begins at the last topmost menu."
FirstSlot(i) ==
  /\ i = 0 \/ menuStack[i + 1] \in topmost
  /\ \A j \in (i + 1)..(Count - 1) : menuStack[j + 1] \notin topmost

BeginDraw ==
  /\ at = Idle
  /\ \E i \in 0..(Count - 1) : FirstSlot(i) /\ start' = i /\ at' = i
  /\ UNCHANGED <<flagVars, menuStack, drawn, popupVars, events>>

\* SelectPatch draws the selected slot; NextPatch goes on from the saved one.
DrawSlot ==
  /\ at < Count
  /\ drawn' = Append(drawn, SelectRenderSlot(Count, at, StackRoles))
  /\ at' = at + 1
  /\ UNCHANGED <<flagVars, menuStack, start, popupVars, events>>

EndDraw ==
  /\ at = Count /\ at' = Idle /\ start' = 0 /\ drawn' = <<>>
  /\ UNCHANGED <<flagVars, menuStack, popupVars, events>>
-----------------------------------------------------------------------------
(* Menus, and their events.                                                *)

\* An event is sent for every menu; only those of watched menus matter.
Notify(m) ==
  IF sink /\ m \in Watched
  THEN events < MaxEvents /\ events' = events + 1 /\ rejected' = FALSE
  ELSE UNCHANGED <<events, rejected>>

Open(m) ==
  /\ at = Idle /\ ~IsOpen(m) /\ Count < MaxMenuCount
  /\ menuStack' = Append(menuStack, m)
  /\ Notify(m)
  /\ UNCHANGED <<flagVars, drawVars, armed, pending, queued, sink, tasks, created>>

Close(i) ==
  /\ at = Idle
  /\ menuStack' = RemoveAt(menuStack, i)
  /\ Notify(menuStack[i])
  /\ UNCHANGED <<flagVars, drawVars, armed, pending, queued, sink, tasks, created>>
-----------------------------------------------------------------------------
(* TestPopup.                                                              *)

\* Mutant: every event adds a task.
RequestAlways == pending' = TRUE /\ tasks' = tasks + 1

Request ==
  IF pending \/ queued
  THEN UNCHANGED <<pending, tasks>>
  ELSE pending' = TRUE /\ tasks' = tasks + 1

\* Arm() from OnDataLoaded: without UI or task interface nothing happens.
Arm ==
  /\ ~armed /\ ~queued
  /\ armed' = TRUE /\ sink' = TRUE
  /\ Request
  /\ UNCHANGED <<flagVars, menuStack, drawVars, queued, events, created, rejected>>

\* An event that arrives after RemoveEventSink is not delivered.
ProcessEvent ==
  /\ events > 0 /\ events' = events - 1
  /\ IF sink THEN Request ELSE UNCHANGED <<pending, tasks>>
  /\ UNCHANGED <<flagVars, menuStack, drawVars, armed, queued, sink, created, rejected>>

Showable ==
  /\ IsOpen("Main") /\ IsOpen("Mist")
  /\ ~IsOpen("Loading") /\ ~IsOpen("MessageBox")

\* MessageBoxMenu::Create under the native creation guards; the sink goes
\* with the popup.
Create ==
  \/ /\ queued' = TRUE /\ sink' = FALSE /\ created' = created + 1
     /\ UNCHANGED rejected
  \/ rejected' = TRUE /\ UNCHANGED <<queued, sink, created>>

\* Mutant: pending_ is reset when the popup is created, not first of all.
RunTaskStuck ==
  /\ tasks > 0 /\ tasks' = tasks - 1
  /\ IF queued \/ ~Showable
     THEN UNCHANGED <<pending, queued, sink, created, rejected>>
     ELSE pending' = FALSE /\ Create
  /\ UNCHANGED <<flagVars, menuStack, drawVars, armed, events>>

\* The task added by Request.
RunTask ==
  /\ tasks > 0 /\ tasks' = tasks - 1
  /\ pending' = FALSE
  /\ IF queued \/ ~Showable
     THEN UNCHANGED <<queued, sink, created, rejected>>
     ELSE Create
  /\ UNCHANGED <<flagVars, menuStack, drawVars, armed, events>>

Draw == BeginDraw \/ DrawSlot \/ EndDraw

Next ==
  \/ Draw \/ Arm \/ ProcessEvent \/ RunTask
  \/ \E m \in Menu : Open(m)
  \/ \E i \in 1..Count : Close(i)

Spec == Init /\ [][Next]_vars
-----------------------------------------------------------------------------
(* Properties.                                                             *)

\* SelectRenderSlot: a draw that begins at the last topmost menu
\* draws every menu from there on exactly once, rotated or not.
EachMenuDrawnOnce ==
  at = Count =>
    /\ Range(drawn) = start..(Count - 1)
    /\ Len(drawn) = Cardinality(Range(drawn))

\* The fix's purpose: a message box that is drawn into the projected texture
\* over main and mist menu is drawn before the mist menu shows that texture,
\* and so is every projected menu between them; no menu that must not be moved
\* changes its turn.
ProducersBeforeMist ==
  at = Count /\ Count > 0 =>
    LET turn(m) == CHOOSE n \in DOMAIN drawn : menuStack[drawn[n] + 1] = m
        slot(m) == CHOOSE i \in DOMAIN menuStack : menuStack[i] = m
        isDrawn(m) == \E n \in DOMAIN drawn : menuStack[drawn[n] + 1] = m
    IN  /\ \A m \in Range(menuStack) :
             isDrawn(m) /\ Classify(m) \in {"blocked", "main"} =>
               turn(m) = slot(m) - start
        /\ /\ IsOpen("Main") /\ isDrawn("Mist") /\ isDrawn("MessageBox")
           /\ slot("Main") < slot("Mist") /\ slot("Mist") < slot("MessageBox")
           /\ \A i \in slot("Mist")..slot("MessageBox") : Classify(menuStack[i]) # "blocked"
           => \A i \in (slot("Mist") + 1)..slot("MessageBox") :
                turn(menuStack[i]) < turn("Mist")

\* Request: however menu events and tasks interleave, one task is under way at
\* a time and one popup is created.
OnePopup == tasks <= 1 /\ created <= 1

\* Request: no chance is missed.  When the menus allow the popup, nothing more
\* is on its way to the sink and it was not refused, a task is queued that will
\* see them.
NoChanceMissed ==
  armed /\ ~queued /\ Showable /\ events = 0 /\ ~rejected => tasks > 0
=============================================================================
