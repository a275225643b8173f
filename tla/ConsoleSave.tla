---------------------------- MODULE ConsoleSave ----------------------------
(***************************************************************************)
(* fixes/console_save_deadlock.h.  The console's SaveGame handler calls    *)
(* Save_Impl on the thread that drains the command queue.  On another      *)
(* thread than main this deadlocks: main's save-load update holds the VM   *)
(* save mutex while it waits for the save, and the save waits for the      *)
(* mutex in SkyrimVM::Freeze.  Hook sends the call to the main thread's    *)
(* task queue instead.                                                     *)
(*                                                                         *)
(* The engine's part is modelled as that file's comment describes it.      *)
(***************************************************************************)
EXTENDS Naturals, Sequences, FiniteSets

CONSTANTS
  SaveNames,   \* names a console command can carry
  MaxSaves     \* bound: console saves

VARIABLES
  drainer,     \* the thread that drains the console queue: "main" or "task"
  mainAt,      \* "loop", "waiting" (update, holding the mutex), "saving"
  console,     \* the handler's call: [at, name]; its frame is gone when it is "none"
  vmMutex,     \* "free", "main", "task"
  saving,      \* the save in progress: [thread, name], or NoSave
  taskQueue,   \* names in the deferred calls
  asked, saved \* history: names of the commands, and of the finished saves

consoleVars == <<drainer, mainAt, console, vmMutex, saving, taskQueue, asked, saved>>

NoSave == [thread |-> "none", name |-> "none"]
NoCall == [at |-> "none", name |-> "none"]

ConsoleStart(d) ==
  /\ drainer = d /\ mainAt = "loop" /\ console = NoCall
  /\ vmMutex = "free" /\ saving = NoSave
  /\ taskQueue = <<>> /\ asked = <<>> /\ saved = <<>>

ConsoleInit == \E d \in {"main", "task"} : ConsoleStart(d)

\* A SaveGame command reaches the call in its handler; on main, between two updates.
Command(name) ==
  /\ console = NoCall /\ Len(asked) < MaxSaves
  /\ drainer = "main" => mainAt = "loop" /\ saving = NoSave
  /\ console' = [at |-> "hook", name |-> name]
  /\ asked' = Append(asked, name)
  /\ UNCHANGED <<drainer, mainAt, vmMutex, saving, taskQueue, saved>>

BeginSave(thread, name) == saving = NoSave /\ saving' = [thread |-> thread, name |-> name]

\* Mutant: the handler's call as it was.
HookPassThrough ==
  /\ console.at = "hook" /\ BeginSave(drainer, console.name)
  /\ console' = [console EXCEPT !.at = "saving"]
  /\ UNCHANGED <<drainer, mainAt, vmMutex, taskQueue, asked, saved>>

\* Hook: straight to Save_Impl on main, a task with its own copy of the name elsewhere.
\* (The pass-through for want of a task interface, :29, is left out: SKSE hands it over
\* in Load, before there is a console.)
Hook ==
  /\ console.at = "hook"
  /\ IF drainer = "main"
     THEN /\ BeginSave("main", console.name)
          /\ console' = [console EXCEPT !.at = "saving"] /\ UNCHANGED taskQueue
     ELSE /\ taskQueue' = Append(taskQueue, console.name)
          /\ console' = NoCall /\ UNCHANGED saving
  /\ UNCHANGED <<drainer, mainAt, vmMutex, asked, saved>>

\* Main runs a task: the deferred Save_Impl.
RunTask ==
  /\ mainAt = "loop" /\ taskQueue # <<>>
  /\ drainer = "main" => console = NoCall
  /\ BeginSave("main", Head(taskQueue)) /\ taskQueue' = Tail(taskQueue)
  /\ UNCHANGED <<drainer, mainAt, console, vmMutex, asked, saved>>

\* Main's save-load manager update: a save in progress elsewhere is waited for,
\* with the mutex held.
Update ==
  /\ mainAt = "loop" /\ vmMutex = "free"
  /\ saving.thread = "task"
  /\ mainAt' = "waiting" /\ vmMutex' = "main"
  /\ UNCHANGED <<drainer, console, saving, taskQueue, asked, saved>>

UpdateDone ==
  /\ mainAt = "waiting" /\ saving = NoSave
  /\ mainAt' = "loop" /\ vmMutex' = "free"
  /\ UNCHANGED <<drainer, console, saving, taskQueue, asked, saved>>

\* Save_Impl from Freeze, which takes the mutex, to its end.
Freeze ==
  /\ saving # NoSave /\ vmMutex = "free" /\ vmMutex' = saving.thread
  /\ UNCHANGED <<drainer, mainAt, console, saving, taskQueue, asked, saved>>

FinishSave ==
  /\ saving # NoSave /\ vmMutex = saving.thread
  /\ mainAt # "waiting" \/ saving.thread # "main"
  /\ saved' = Append(saved, saving.name)
  /\ saving' = NoSave /\ vmMutex' = "free"
  /\ console' = IF console.at = "saving" THEN NoCall ELSE console
  /\ UNCHANGED <<drainer, mainAt, taskQueue, asked>>

MainStep == RunTask \/ Update \/ UpdateDone
ConsoleNext == (\E n \in SaveNames : Command(n)) \/ Hook \/ MainStep \/ Freeze \/ FinishSave

\* The main loop runs on, and so does the thread inside the handler or the save;
\* whether anyone types a command is up to them.
ConsoleFair == WF_consoleVars(MainStep \/ Hook \/ Freeze \/ FinishSave)

ConsoleSpec == ConsoleInit /\ [][ConsoleNext]_consoleVars /\ ConsoleFair
-----------------------------------------------------------------------------
\* "No crash, no crash log": every console save is carried out, with its own name
\* and in order, on whichever thread the queue is drained.
EverySaveHappens ==
  \A n \in 1..MaxSaves : Len(asked) >= n ~> Len(saved) >= n /\ saved[n] = asked[n]
=============================================================================
