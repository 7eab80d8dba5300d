---------------------------- MODULE TuiTerminal ----------------------------
(* The terminal, borrowed and given back (argos-tui/src/runtime.rs): how the UI
   enters it step by step, runs with a thread that reads the keys, and leaves -
   at an error on the way in, a quit, a failed drawing, or a panic, whose hook
   gives the terminal back before anything is unwound.  The hook is everybody's:
   a task that panics runs it too, while the UI goes on.

   Two locks are in play: `locked' is the mutex of TerminalSession.previous_hook,
   and the standard library (external) keeps the hook behind a lock of readers and
   writers, of which `in_hook' are the readers: set_hook waits for them, and
   panics itself in a thread that is panicking.  A call of the terminal that is
   refused is taken to have had no effect. *)
CONSTANT BackgroundTasks    \* tasks of dispatch_commands that may panic

VARIABLES
  modes,         \* what is changed in the terminal: "raw", "screen" (the alternate one), "cursor" (hidden)
  refused,       \* the modes whose restoring was refused, when it was last tried
  marked,        \* TerminalEnterGuard.state; it is armed while the terminal is entered
  main_at,       \* where the main thread is
  input_thread,  \* where InputThread's thread is
  stop,          \* InputThread.stop
  should_exit,   \* an event that ends the loop was sent
  hook,          \* the panic hook: "previous", or "restoring", which calls the previous one
  locked, in_hook,
  panicked       \* the threads that have

terminalVars == <<modes, refused, marked, main_at, input_thread, stop, should_exit, hook, locked, in_hook, panicked>>
hookVars == <<hook, locked, in_hook, panicked>>
inputThreadVars == <<input_thread, stop, should_exit>>

AllModes == {"raw", "screen", "cursor"}
Entering == AllModes \cup {"backend", "hook"}

TerminalInit ==
  /\ modes = {} /\ refused = {} /\ marked = {} /\ main_at = "raw"
  /\ input_thread = "none" /\ stop = FALSE /\ should_exit = FALSE
  /\ hook = "previous" /\ locked = FALSE /\ in_hook = {} /\ panicked = {}

(* Every mode is tried, also after one was refused. *)
restore_terminal_with_state(state) ==
  \E failed \in SUBSET state :
    /\ modes' = modes \ (state \ failed)
    /\ refused' = (refused \ state) \cup failed
restore_terminal == restore_terminal_with_state(AllModes)

(* The `?'s of enter: the guard is dropped while it is armed. *)
GiveUp == restore_terminal_with_state(marked) /\ main_at' = "ended" /\ UNCHANGED marked

(* Defect: the step is not marked. *)
EnterUnmarked(mode, next) ==
  /\ main_at = mode
  /\ \/ modes' = modes \cup {mode} /\ main_at' = next /\ UNCHANGED <<marked, refused>>
     \/ GiveUp
Enter(mode, next) ==
  /\ main_at = mode
  /\ \/ modes' = modes \cup {mode} /\ marked' = marked \cup {mode} /\ main_at' = next /\ UNCHANGED refused
     \/ GiveUp
CreateTerminal ==
  /\ main_at = "backend"
  /\ \/ main_at' = "hook" /\ UNCHANGED <<modes, refused, marked>>
     \/ GiveUp
enter ==
  /\ Enter("raw", "screen") \/ Enter("screen", "cursor") \/ Enter("cursor", "backend") \/ CreateTerminal
  /\ UNCHANGED <<inputThreadVars, hookVars>>
(* ... and disarms the guard. *)
SetHook ==
  /\ main_at = "hook" /\ hook' = "restoring" /\ main_at' = "spawn"
  /\ UNCHANGED <<modes, refused, marked, inputThreadVars, locked, in_hook, panicked>>

SpawnInput ==
  /\ main_at = "spawn" /\ input_thread' = "checking" /\ main_at' = "run"
  /\ UNCHANGED <<modes, refused, marked, stop, should_exit, hookVars>>

(* The thread asks whether to stop, then polls; a key it has read may ask to
   quit, and the report of a failure does. *)
CheckStop ==
  /\ input_thread = "checking" /\ input_thread' = IF stop THEN "ended" ELSE "polling"
  /\ UNCHANGED <<modes, refused, marked, main_at, stop, should_exit, hookVars>>
Poll ==
  /\ input_thread = "polling"
  /\ \/ input_thread' = "checking" /\ should_exit' \in {should_exit, TRUE}
     \/ input_thread' = "ended" /\ should_exit' = TRUE
  /\ UNCHANGED <<modes, refused, marked, main_at, stop, hookVars>>

(* A frame shows the cursor or hides it; one that cannot be drawn ends `run'. *)
draw ==
  /\ main_at = "run"
  /\ \/ modes' \in {modes \cup {"cursor"}, modes \ {"cursor"}} /\ UNCHANGED main_at
     \/ main_at' = "leave" /\ UNCHANGED modes
  /\ UNCHANGED <<refused, marked, inputThreadVars, hookVars>>
LeaveLoop ==
  /\ main_at = "run" /\ should_exit /\ main_at' = "leave"
  /\ UNCHANGED <<modes, refused, marked, inputThreadVars, hookVars>>

(* What `run' owns is dropped, the input thread first. *)
StopInput ==
  /\ main_at = "leave" /\ stop' = TRUE /\ main_at' = IF input_thread = "none" THEN "session" ELSE "join"
  /\ UNCHANGED <<modes, refused, marked, input_thread, should_exit, hookVars>>
JoinInput ==
  /\ main_at = "join" /\ input_thread = "ended" /\ main_at' = "session"
  /\ UNCHANGED <<modes, refused, marked, inputThreadVars, hookVars>>
DropSession ==
  /\ main_at = "session" /\ restore_terminal /\ main_at' = "lock"
  /\ UNCHANGED <<marked, inputThreadVars, hookVars>>
LockHook ==
  /\ main_at = "lock" /\ ~locked /\ locked' = TRUE /\ main_at' = "set_hook"
  /\ UNCHANGED <<modes, refused, marked, inputThreadVars, hook, in_hook, panicked>>
SetPreviousHook ==
  /\ main_at = "set_hook" /\ "main" \notin panicked /\ in_hook = {}
  /\ hook' = "previous" /\ locked' = FALSE /\ main_at' = "ended"
  /\ UNCHANGED <<modes, refused, marked, inputThreadVars, in_hook, panicked>>
(* set_hook panics in a panicking thread: the hook runs once more, and asks for the
   mutex this thread already holds.  That may wait for ever, or panic in the hook,
   which aborts the process. *)
PanicAgain ==
  /\ main_at = "set_hook" /\ "main" \in panicked /\ restore_terminal
  /\ in_hook' = in_hook \cup {"main"} /\ main_at' \in {"stuck", "ended"}
  /\ UNCHANGED <<marked, inputThreadVars, hook, locked, panicked>>

(* A panic: while a key, an answer or a frame is handled, when the thread cannot be
   spawned, or in a task. *)
Panic(thread) ==
  /\ hook = "restoring" /\ restore_terminal
  /\ panicked' = panicked \cup {thread} /\ in_hook' = in_hook \cup {thread}
  /\ UNCHANGED <<marked, inputThreadVars, hook, locked>>
CallPrevious(thread) ==
  /\ thread \in in_hook /\ ~locked /\ in_hook' = in_hook \ {thread}
  /\ UNCHANGED <<modes, refused, marked, inputThreadVars, hook, locked, panicked>>

MainPanics == main_at \in {"spawn", "run"} /\ Panic("main") /\ main_at' = "panic"
Unwind == main_at = "panic" /\ CallPrevious("main") /\ main_at' = "leave"
TaskPanics(t) == input_thread # "none" /\ main_at # "ended" /\ t \notin panicked /\ Panic(t) /\ UNCHANGED main_at
TaskUnwinds(t) == main_at # "ended" /\ CallPrevious(t) /\ UNCHANGED main_at

Leaving == StopInput \/ JoinInput \/ DropSession \/ LockHook \/ SetPreviousHook \/ PanicAgain \/ Unwind
TerminalNext ==
  \/ enter \/ SetHook \/ SpawnInput \/ draw \/ LeaveLoop \/ Leaving \/ MainPanics
  \/ CheckStop \/ Poll
  \/ \E t \in BackgroundTasks : TaskPanics(t) \/ TaskUnwinds(t)

(* Threads run: the loop sees what was sent, a poll ends after 100 ms at the latest,
   and drops and hooks go on unless a lock holds them. *)
TerminalFairness ==
  /\ WF_terminalVars(LeaveLoop) /\ WF_terminalVars(Leaving)
  /\ WF_terminalVars(CheckStop) /\ WF_terminalVars(Poll)
  /\ \A t \in BackgroundTasks : WF_terminalVars(TaskUnwinds(t))

TerminalSpec == TerminalInit /\ [][TerminalNext]_terminalVars /\ TerminalFairness

-----------------------------------------------------------------------------
Left == main_at \notin Entering \cup {"spawn", "run"}

(* The two ways not to end: a thread that waits for itself, and two that wait for
   each other. *)
Deadlocked == main_at = "stuck" \/ (main_at = "set_hook" /\ in_hook # {})

(* The terminal is the UI's while it runs, and is given back when it is left in
   whatever way: modes that could be restored are, no thread reads the keys any
   more, and in the end the hook is the previous one.  A UI that is left, or that hears no keys, comes to its end.  Panics are
   the exceptions: a task's takes the terminal away from a UI that goes on
   (runtime.rs:382), one of the main thread may end with it waiting for the mutex it
   holds, and a task's may meet the end of the session, each waiting for the other's
   lock (runtime.rs:411). *)
Restored == modes \subseteq refused /\ input_thread \in {"none", "ended"}
TheUIsWhileItRuns == main_at = "run" /\ panicked = {} => {"raw", "screen"} \subseteq modes
RestoredAtTheEnd == main_at = "ended" => Restored /\ (hook = "previous" \/ "main" \in panicked)
TerminalIsGivenBack ==
  /\ [](TheUIsWhileItRuns /\ RestoredAtTheEnd)
  /\ Left ~> []Restored
  /\ (Left \/ input_thread = "ended") ~> (main_at = "ended" \/ Deadlocked)
=============================================================================
