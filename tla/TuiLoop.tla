------------------------------ MODULE TuiLoop ------------------------------
(***************************************************************************)
(* The event loop of the terminal user interface (argos-tui/src/runtime.rs,*)
(* `run`): one unbounded channel carries key presses and the results of    *)
(* background tasks.  The loop takes one event, then drains the channel    *)
(* with try_recv, handing every event to a handler that changes AppState   *)
(* and returns commands.  Only when the channel is empty are the commands  *)
(* of the batch spawned, each as a task of its own - unless the batch also *)
(* asked to quit: then the session is saved, and the commands of the batch *)
(* and the tasks still running are lost.                                   *)
(*                                                                         *)
(* A request is one command: it waits in `outbox' until its batch ends, is *)
(* a task in `running' until it has sent its last event, and is over when  *)
(* that event has been handled.  Key presses are not kept in the channel:  *)
(* a key is handled the moment it is taken, and since it carries nothing   *)
(* but itself, every position it could have had in the channel is a moment *)
(* at which the action may happen.                                         *)
(***************************************************************************)
EXTENDS Naturals, Sequences

VARIABLES issued,            \* requests emitted so far
          outbox,            \* commands collected in the current batch
          running,           \* spawned tasks that still have an event to send
          channel,           \* events sent by tasks, not yet handled
          should_quit,       \* AppState.should_quit
          exited             \* `run' has left its loop

loopVars == <<issued, outbox, running, channel, should_quit, exited>>

(* The requests whose event waits in the channel. *)
Reqs(events) == {events[i].req : i \in DOMAIN events}
Waiting == Reqs(channel)

InFlight(r) == r \in outbox \/ r \in running \/ r \in Waiting

LoopInit(started) ==
    /\ issued = started
    /\ outbox = {}
    /\ running = started
    /\ channel = <<>>
    /\ should_quit = FALSE
    /\ exited = FALSE

(* process_event takes the oldest event of the channel. *)
Receive(event) ==
    /\ ~exited
    /\ channel # <<>>
    /\ event = Head(channel)
    /\ channel' = Tail(channel)

(* process_event takes a key press. *)
Key == ~exited /\ UNCHANGED channel

(* A handler returns the commands R. *)
Emit(R) ==
    /\ R \cap issued = {}
    /\ issued' = issued \cup R
    /\ outbox' = outbox \cup R

NoCommand == UNCHANGED <<issued, outbox>>

(* dispatch_commands at the end of a batch that did not ask to quit.  The
   batch ends when try_recv finds the channel empty. *)
Dispatch ==
    /\ ~exited
    /\ ~should_quit
    /\ channel = <<>>
    /\ outbox # {}
    /\ running' = running \cup outbox
    /\ outbox' = {}
    /\ UNCHANGED <<issued, channel, should_quit, exited>>

(* A defect: the loop leaves as soon as it sees should_quit. *)
LeaveUndrained ==
    /\ ~exited
    /\ should_quit
    /\ exited' = TRUE
    /\ outbox' = {}
    /\ running' = {}
    /\ UNCHANGED <<issued, channel, should_quit>>

(* The loop breaks at the end of a batch that asked to quit: the batch's
   commands are not dispatched and the runtime drops the running tasks. *)
Leave ==
    /\ ~exited
    /\ should_quit
    /\ channel = <<>>
    /\ exited' = TRUE
    /\ outbox' = {}
    /\ running' = {}
    /\ UNCHANGED <<issued, channel, should_quit>>

(* Task r sends its last event and ends. *)
SendLast(r, event) ==
    /\ ~exited
    /\ r \in running
    /\ running' = running \ {r}
    /\ channel' = Append(channel, event)
    /\ UNCHANGED <<issued, outbox, should_quit, exited>>

(* Task r sends an event and goes on. *)
SendMore(r, event) ==
    /\ ~exited
    /\ r \in running
    /\ channel' = Append(channel, event)
    /\ UNCHANGED <<issued, outbox, running, should_quit, exited>>

LoopTypeOK(Requests, Events) ==
    /\ issued \subseteq Requests
    /\ outbox \subseteq issued
    /\ running \subseteq issued
    /\ channel \in Seq(Events)
    /\ should_quit \in BOOLEAN
    /\ exited \in BOOLEAN
=============================================================================
