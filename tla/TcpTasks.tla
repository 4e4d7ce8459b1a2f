------------------------------ MODULE TcpTasks ------------------------------
(***************************************************************************)
(* The tasks that poll one stream, and the wakers that make them poll      *)
(* again.  The stream has no task of its own: a segment in the inbox, a    *)
(* deadline that has passed or room in the peer's window changes nothing   *)
(* until a task of the consumer calls poll_read, and a task that got       *)
(* Pending calls again only when the waker it left behind is woken.  The   *)
(* consumer is split in two, as tokio::io::split makes it: a reader that   *)
(* calls poll_read until it gets the end of the stream or an error, and a  *)
(* writer that calls poll_write and then poll_shutdown.  Every step of     *)
(* TcpFlow is taken here by the task that would take it.                   *)
(***************************************************************************)
EXTENDS TcpFlow

VARIABLES
    task,           \* per task: "awake" (will poll), "parked" (got Pending), "done"
    caller,         \* the task inside poll_read while pc = "reading"
    inbox_waker,    \* the waker stream_receiver keeps (line 251)
    timer_waker     \* the waker the deadline keeps (line 209)

Tasks == {"reader", "writer"}

wakers == <<task, caller, inbox_waker, timer_waker>>

tasksVars == <<vars, wakers>>

\* wake_by_ref: a parked task will poll again; any other is left as it is.
Wake(states, woken) ==
    [t \in Tasks |-> IF t \in woken /\ states[t] = "parked" THEN "awake" ELSE states[t]]

\* A mutant of WriteNotified: the waker is taken from the slot and not woken.
WriteNotifiedNever == {}

\* The writer whose waker a pass takes from write_notify and wakes (lines
\* 279-281, and in the same words at lines 315-317 and 323-325).
WriteNotified == {t \in {"writer"} : write_notify /\ ~write_notify'}

\* The writer whose waker Shutdown::ready finds in the slot (lines 36-41).
ShutdownNotified == {t \in {"writer"} : shutdown = "Pending" /\ shutdown' = "Ready"}

\* The tasks a step of the stream wakes.
Notified == WriteNotified \cup ShutdownNotified

\* What the task does after this pass: the loop goes on, the call returned
\* Pending (line 374), it returned bytes, or it returned the end or an error.
Returned ==
    CASE pc' = "reading" -> "awake"
      [] Starved -> "parked"
      [] delivered' # delivered -> "awake"
      [] OTHER -> "done"

\* One pass of poll_read, called by the reader or, through poll_shutdown
\* (lines 437-440), by the writer.  The pass leaves the caller's waker with
\* the deadline (line 209) and, if it finds the inbox empty, with the inbox.
PollRead(t) ==
    /\ \/ /\ pc = "idle" /\ task[t] = "awake" /\ caller' = t
          /\ t = "writer" => shutdown = "Pending"
       \/ /\ pc = "reading" /\ caller = t /\ UNCHANGED caller
    /\ poll_read
    /\ task' = Wake([task EXCEPT ![t] = Returned], Notified)
    /\ timer_waker' = IF Timely THEN t ELSE timer_waker
    /\ inbox_waker' = IF Starved THEN t ELSE inbox_waker

\* poll_write by the writer.  Pending parks it on write_notify (lines
\* 387-390); an error or Ok(0) ends it, as either ends write_all and copy.
PollWrite ==
    /\ task["writer"] = "awake" /\ shutdown = "None"
    /\ \/ WriteParks /\ task' = [task EXCEPT !["writer"] = "parked"]
       \/ /\ WriteFails \/ \E n \in 1 .. MaxWriteBytes : Write(n)
          /\ task' = [task EXCEPT !["writer"] = IF written' = written THEN "done" ELSE @]
    /\ UNCHANGED <<caller, inbox_waker, timer_waker>>

\* The first poll_shutdown (lines 437-440): the waker is kept and the call
\* goes on as a poll_read.
AskShutdown ==
    /\ "shutdown" \in Events /\ task["writer"] = "awake"
    /\ PollShutdown
    /\ caller' = "writer"
    /\ UNCHANGED <<task, inbox_waker, timer_waker>>

\* poll_shutdown of a flow that is done (lines 435-436).
ShutdownReturns ==
    /\ life = "open" /\ pc = "idle" /\ shutdown = "Ready" /\ task["writer"] = "awake"
    /\ task' = [task EXCEPT !["writer"] = "done"]
    /\ UNCHANGED <<vars, caller, inbox_waker, timer_waker>>

\* A segment for the inbox wakes the task that waits on it.
Delivers ==
    /\ Forward
    /\ task' = Wake(task, {inbox_waker}) /\ inbox_waker' = NULL
    /\ UNCHANGED <<caller, timer_waker>>

\* A mutant of Fires: the deadline is looked at without a context, and its
\* passing wakes nobody.
FiresUnheard ==
    /\ "timeout" \in Events /\ Elapse
    /\ UNCHANGED wakers

\* The deadline passes and wakes the task that polled it last.
Fires ==
    /\ "timeout" \in Events /\ Elapse
    /\ task' = Wake(task, {timer_waker}) /\ timer_waker' = NULL
    /\ UNCHANGED <<caller, inbox_waker>>

\* The steps that wake nobody: not even the end of the demultiplexer does,
\* for the stream keeps a sender of its own inbox (line 48).
Unnoticed ==
    /\ Accept \/ Refuse \/ ForwardFails \/ TunWrite \/ DeviceFails
    /\ UNCHANGED wakers

TasksInit ==
    /\ Init
    /\ task = [t \in Tasks |-> "awake"]
    /\ caller = NULL /\ inbox_waker = NULL /\ timer_waker = NULL

TasksNext ==
    \/ \E t \in Tasks : PollRead(t)
    \/ PollWrite \/ AskShutdown \/ ShutdownReturns
    \/ Delivers \/ Fires \/ Unnoticed

TasksSafety == TasksInit /\ [][TasksNext]_tasksVars

\* A task that has been woken is polled by its runtime, and a deadline that
\* is not moved passes.  Nothing is assumed of the peer, the network or the
\* demultiplexer, and nothing makes the writer write or shut down.
TasksSpec ==
    /\ TasksSafety
    /\ \A t \in Tasks : WF_tasksVars(PollRead(t))
    /\ WF_tasksVars(ShutdownReturns)
    /\ WF_tasksVars(Fires)

-----------------------------------------------------------------------------

\* A writer that sleeps has left a waker where a step of the stream will find
\* it: in write_notify (line 388) or in shutdown (line 438).
WriterHasWaker ==
    task["writer"] = "parked" => write_notify \/ shutdown = "Pending"

\* A poll_shutdown that has returned Pending is followed by one that returns,
\* as long as the demultiplexer lives and no pass panics: whichever task the
\* segment or the deadline that ends the flow wakes, the pass that closes the
\* flow wakes the shutdown waiter (lines 196, 202, 215), and with no answer
\* of the peer at all the deadline closes it.
ShutdownCompletes ==
    shutdown = "Pending" ~>
        (task["writer"] = "done" \/ life # "open" \/ upstream = "closed")

\* A poll_read that has returned Pending is followed by one that returns the
\* end of the flow, as long as nobody asks for shutdown: the reader's waker is
\* with the deadline (line 209) and with the inbox (line 251), poll_write
\* moves the deadline (line 385) and leaves that waker where it is, and with
\* a peer that says nothing more the deadline ends the flow.
ReaderCompletes ==
    task["reader"] = "parked" ~>
        (task["reader"] = "done" \/ shutdown # "None" \/ life # "open")

\* The same with no condition on the demultiplexer: a send that fails is
\* reported to a caller who can still act on it.
ShutdownCompletesWhateverFails ==
    shutdown = "Pending" ~> (task["writer"] = "done" \/ life # "open")

\* A reader that sleeps is known to the inbox or to the deadline, the only
\* two places that wake it (lines 209 and 251): poll_read promises to wake
\* the task that got Pending when there is something to read or the flow
\* has ended.
ReaderHasWaker ==
    task["reader"] = "parked" => "reader" \in {inbox_waker, timer_waker}

\* The call that ends the reader tells it why the flow ended: a reset, a
\* timeout and an abort are errors (lines 203, 216, 262), and the reader is
\* not sent away by the quiet return of lines 195-198, which reads as the
\* end of the peer's stream.
ReaderIsToldTheError ==
    [][task["reader"] # "done" /\ task'["reader"] = "done" => tcb.state # Closed]_tasksVars

\* A writer does not sleep on write_notify without a reason once every
\* segment of the peer has been looked at: poll_write promises to wake the
\* task that got Pending (line 389) when the flow can take bytes again or
\* has left Established.  The waker is taken only where a bare ACK is
\* handled (lines 279, 315, 323).
ParkedWriterHasReason ==
    /\ life = "open" /\ pc = "idle" /\ inbox = <<>>
    /\ task["writer"] = "parked" /\ shutdown = "None"
    => tcb.state = Established /\ MustPark(tcb)

=============================================================================
