------------------------------- MODULE Streams -------------------------------
(***************************************************************************)
(* A client's remote streams and two of their consumers (client.py):       *)
(* consume_streams, which runs a callback for every stream and whose       *)
(* handle can be waited for until all is quiet for a timeout, and          *)
(* wait_for_stream, which waits for one stream.                            *)
(*                                                                         *)
(* Tasks keeps a state, the tasks running, a future that is done when none *)
(* is (working_future) and a timer task (timeout_future) that is replaced  *)
(* whenever the quiet starts anew.  wait() loops over the two futures.     *)
(*                                                                         *)
(* An action is what a task runs between two suspensions.  Time is left    *)
(* out: timers have one length and fire in the order they were started.    *)
(* One handle, one call of wait at a time.                                 *)
(***************************************************************************)
EXTENDS Integers, Sequences, FiniteSets, Dispatcher

CONSTANTS
  StreamIds,  \* the streams that may come and go, once each
  Finders,    \* calls of wait_for_stream
  Retries,    \* auto_resume as a number
  Timed,      \* the timeout is positive
  Uses,       \* what may happen besides, by the guards that name it
  MaxTimers   \* bound: timers started

ASSUME StreamsAssumption == Retries \in Nat /\ Timed \in BOOLEAN /\ MaxTimers \in Nat
ASSUME ListenersAssumption == Listeners = Finders \cup {"tasks"}
ASSUME NamesAssumption == "none" \notin StreamIds /\ "tasks" \notin Finders

VARIABLES
  present,  \* keys of remoteStreams
  adding,   \* the stream whose streamadded event is being dispatched
  state,    \* Tasks.state, "none" before consume_streams is called
  active,   \* Tasks.tasks, by their streams
  task,     \* state of each stream's task
  tries,    \* try_times of each task
  working,  \* working_future
  timers,   \* every timeout_future, the one in use last
  waiter,   \* where wait() is suspended, or how it ended
  watched,  \* the timer wait() is suspended on
  finder,   \* where each wait_for_stream is suspended, or how it ended
  unheard   \* history: listeners that the last event, or a join, has passed over

vars == << listeners, serving, todo, detached, present, adding, state, active, task, tries,
           working, timers, waiter, watched, finder, unheard >>
tasksVars == << state, active, working, timers >>

Stopped == {"closed", "closing", "error"}
Current == Len(timers)

TypeOK ==
  /\ present \subseteq StreamIds
  /\ DispatcherTypeOK
  /\ adding \in StreamIds \cup {"none"} /\ (serving <=> adding # "none")
  /\ state \in {"none", "running", "timeouting", "timeouted"} \cup Stopped
  /\ active \subseteq StreamIds
  /\ task \in [StreamIds -> {"new", "none", "running", "raising", "ended", "cancelled"}]
  /\ tries \in [StreamIds -> 0..Retries]
  /\ working \in {"done", "pending", "cancelled", "error"}
  /\ timers \in Seq({"sleep", "done", "cancelled", "error"})
  /\ waiter \in {"none", "working", "timer", "returned", "raised", "spinning"}
  /\ watched \in 0..Current
  /\ finder \in [Finders -> {"none", "waiting", "found", "returned", "timeout", "assertion"}]
  /\ unheard \subseteq Listeners

Init ==
  /\ DispatcherInit
  /\ present \in SUBSET StreamIds /\ adding = "none"
  /\ state = "none" /\ active = {}
  /\ task = [s \in StreamIds |-> IF s \in present THEN "none" ELSE "new"]
  /\ tries = [s \in StreamIds |-> Retries]
  /\ working = "done" /\ timers = << >>
  /\ waiter = "none" /\ watched = 0 /\ finder = [f \in Finders |-> "none"]
  /\ unheard = {}

\* A coroutine that loops without suspending keeps the event loop to itself.
LoopFree == waiter # "spinning"

-----------------------------------------------------------------------------
(* Tasks                                                                   *)

StartTimer == Append(timers, IF Timed THEN "sleep" ELSE "done")

\* Future.cancel() of the timer in use.
TimerKept == timers
TimerCancelled ==
  [timers EXCEPT ![Current] = IF @ = "sleep" THEN "cancelled" ELSE @]

\* add_task of the tasks of the streams in S.
AddTasks(S) ==
  \/ /\ state \in Stopped
     /\ task' = [s \in StreamIds |-> IF s \in S THEN "cancelled" ELSE task[s]]
     /\ UNCHANGED tasksVars
  \/ /\ state \notin Stopped
     /\ task' = [s \in StreamIds |-> IF s \in S THEN "running" ELSE task[s]]
     /\ active' = active \cup S
     /\ IF active = {} /\ S # {}
        THEN state' = "running" /\ working' = "pending" /\ timers' = TimerCancelled
        ELSE UNCHANGED << state, working, timers >>

\* consume_streams: the streams that are there get their tasks at once.
ConsumeStreams ==
  /\ LoopFree /\ state = "none"
  /\ active' = present
  /\ task' = [s \in StreamIds |-> IF s \in present THEN "running" ELSE task[s]]
  /\ IF present = {}
     THEN state' = "timeouting" /\ working' = "done" /\ timers' = StartTimer
     ELSE state' = "running" /\ working' = "pending" /\ timers' = << "cancelled" >>
  /\ AddEventListener("tasks")
  /\ UNCHANGED << dispatchVars, present, adding, tries, waiter, watched, finder, unheard >>

\* _on_task_done: the last task starts the quiet.
TasksLeftAll(s) == active
TasksLeft(s) == active \ {s}

OnTaskDone(s) ==
  /\ LoopFree /\ task[s] = "ended"
  /\ task' = [task EXCEPT ![s] = "none"]
  /\ IF state \in Stopped \/ s \notin active
     THEN UNCHANGED tasksVars
     ELSE /\ active' = TasksLeft(s)
          /\ IF active' = {}
             THEN state' = "timeouting" /\ working' = "done" /\ timers' = StartTimer
             ELSE UNCHANGED << state, working, timers >>
  /\ UNCHANGED << listVars, dispatchVars, present, adding, tries, waiter, watched, finder,
                  unheard >>

\* _do_timeout wakes; it looks at the state, not at whether it is in use.
TimerFires(i) ==
  /\ LoopFree /\ i <= Current /\ timers[i] = "sleep"
  /\ \A j \in 1..(i - 1) : timers[j] # "sleep"
  /\ timers' = [timers EXCEPT ![i] = "done"]
  /\ state' = IF state = "timeouting" THEN "timeouted" ELSE state
  /\ UNCHANGED << listVars, dispatchVars, present, adding, active, task, tries, working, waiter,
                  watched, finder, unheard >>

Renew ==
  /\ LoopFree /\ "renew" \in Uses /\ Current < MaxTimers
  /\ state \in {"timeouting", "timeouted"}
  /\ state' = "timeouting"
  /\ timers' = StartTimer
  /\ UNCHANGED << listVars, dispatchVars, present, adding, active, task, tries, working, waiter,
                  watched, finder, unheard >>

CancelledTasks ==
  [s \in StreamIds |-> IF s \in active /\ task[s] = "running" THEN "cancelled" ELSE task[s]]

\* Handle.close, of a handle that is not closed.
CloseTasks ==
  /\ RemoveEventListener("tasks")
  /\ state' = "closed"
  /\ active' = {} /\ task' = CancelledTasks
  /\ working' = IF working = "pending" THEN "cancelled" ELSE working
  /\ timers' = TimerCancelled

CloseHandle ==
  /\ LoopFree /\ "close" \in Uses
  /\ state \notin {"none", "closed"}
  /\ CloseTasks
  /\ UNCHANGED << dispatchVars, present, adding, tries, waiter, watched, finder, unheard >>

\* The signaling's collector reports an exception.
SetExceptionLost == << working, timers >>
SetExceptionFutures == << "error", Append(TimerCancelled, "error") >>

SetException ==
  /\ LoopFree /\ "error" \in Uses
  /\ state \notin Stopped \cup {"none"}
  /\ state' = "error"
  /\ task' = CancelledTasks
  /\ working' = SetExceptionFutures[1] /\ timers' = SetExceptionFutures[2]
  /\ UNCHANGED << listVars, dispatchVars, present, adding, active, tries, waiter, watched, finder,
                  unheard >>

-----------------------------------------------------------------------------
(* wait()                                                                  *)

\* Once round the loop, from the top: where it suspends, or how it ends.  A
\* future that is done does not suspend it.
Turn ==
  IF working = "pending" THEN "working"
  ELSE IF working = "done" /\ timers[Current] = "sleep" THEN "timer"
  ELSE IF working = "error" \/ timers[Current] = "error" THEN "raised"
  ELSE IF \/ state \in {"closing", "closed"}
          \/ working = "done" /\ timers[Current] = "done" /\ state = "timeouted"
  THEN "returned" ELSE "spinning"

\* wait() goes to the given place; its end closes the handle.
GoesTo(place) ==
  /\ waiter' = place
  /\ watched' = IF place = "timer" THEN Current ELSE 0
  /\ IF place \in {"returned", "raised"} THEN CloseTasks
     ELSE UNCHANGED << tasksVars, task, listVars >>
  /\ UNCHANGED << dispatchVars, present, adding, tries, finder, unheard >>

Wait ==
  /\ waiter \in {"none", "returned", "raised"}
  /\ state \notin {"none", "closed"}
  /\ GoesTo(Turn)

\* What it awaited is done.  The timer it was awaiting may have run out with
\* another one in use.
Wake ==
  \/ /\ waiter = "working" /\ working # "pending"
     /\ GoesTo(Turn)
  \/ /\ waiter = "timer"
     /\ timers[watched] # "sleep"
     /\ GoesTo(IF timers[watched] = "done" /\ state = "timeouted" THEN "returned" ELSE Turn)

\* The task of wait() is cancelled: so is the future it awaits, and wait() goes
\* on unless the handle was closed.
CancelWait ==
  /\ "cancel" \in Uses
  /\ \/ /\ waiter = "working" /\ working = "pending"
        /\ working' = "cancelled"
        /\ waiter' = "spinning"
        /\ UNCHANGED << timers, watched >>
     \/ /\ waiter = "timer" /\ timers[watched] = "sleep"
        /\ timers' = [timers EXCEPT ![watched] = "cancelled"]
        /\ waiter' = IF watched = Current THEN "spinning" ELSE "timer"
        /\ watched' = Current
        /\ UNCHANGED working
  /\ UNCHANGED << listVars, dispatchVars, present, adding, state, active, task, tries, finder,
                  unheard >>

-----------------------------------------------------------------------------
(* wrap_task                                                               *)

CallbackReturns(s) ==
  /\ LoopFree /\ task[s] = "running"
  /\ task' = [task EXCEPT ![s] = "ended"]
  /\ UNCHANGED << listVars, dispatchVars, present, adding, tasksVars, tries, waiter, watched,
                  finder, unheard >>

\* The callback raises: it is tried again while the stream is there and tries
\* are left.  Its TimeoutError (below) is passed on at once.
TriesToTheLast(s) == s \in present /\ tries[s] >= 0
TriesAgain(s) == s \in present /\ tries[s] > 0

CallbackRaises(s) ==
  /\ LoopFree /\ "raise" \in Uses
  /\ task[s] = "running"
  /\ IF TriesAgain(s)
     THEN tries' = [tries EXCEPT ![s] = @ - 1] /\ UNCHANGED task
     ELSE task' = [task EXCEPT ![s] = "ended"] /\ UNCHANGED tries
  /\ UNCHANGED << listVars, dispatchVars, present, adding, tasksVars, waiter, watched, finder,
                  unheard >>

CallbackTimesOut(s) ==
  /\ LoopFree /\ "timeoutError" \in Uses
  /\ task[s] = "running"
  /\ task' = [task EXCEPT ![s] = "raising"]
  /\ UNCHANGED << listVars, dispatchVars, present, adding, tasksVars, tries, waiter, watched,
                  finder, unheard >>

TaskRaises(s) ==
  /\ LoopFree /\ task[s] = "raising"
  /\ task' = [task EXCEPT ![s] = "ended"]
  /\ UNCHANGED << listVars, dispatchVars, present, adding, tasksVars, tries, waiter, watched,
                  finder, unheard >>

-----------------------------------------------------------------------------
(* The streams, and wait_for_stream                                        *)

\* fireStreamAdded.  One message at a time; without a listener it is over.
StreamAdded(s) ==
  /\ LoopFree /\ task[s] = "new" /\ s \notin present
  /\ present' = present \cup {s}
  /\ DispatchBegins
  /\ unheard' = {}
  /\ IF listeners = << >> THEN task' = [task EXCEPT ![s] = "none"] /\ UNCHANGED adding
                          ELSE adding' = s /\ UNCHANGED task
  /\ UNCHANGED << tasksVars, tries, waiter, watched, finder >>

\* The handle's on_stream_add.
TasksListener ==
  /\ LoopFree /\ ListenerRuns("tasks")
  /\ AddTasks({adding})
  /\ UNCHANGED << listVars, present, adding, tries, waiter, watched, finder, unheard >>

\* The one of wait_for_stream, of a filter that every stream passes.
FinderListener(f) ==
  /\ LoopFree /\ ListenerRuns(f)
  /\ RemoveEventListener(f)
  /\ finder' = [finder EXCEPT ![f] = IF @ = "waiting" THEN "found" ELSE @]
  /\ UNCHANGED << present, adding, tasksVars, task, tries, waiter, watched, unheard >>

\* The filter raises, before the event of the caller is set.  What becomes of
\* the exception is SetException's and leave's.
FilterRaises(f) ==
  /\ LoopFree /\ "filter" \in Uses
  /\ ListenerRaises(f)
  /\ unheard' = unheard \cup ToSet(todo)
  /\ UNCHANGED << listVars, present, adding, tasksVars, task, tries, waiter, watched, finder >>

StreamAddedEnds ==
  /\ LoopFree /\ DispatchEnds
  /\ adding' = "none"
  /\ task' = [task EXCEPT ![adding] = IF @ = "new" THEN "none" ELSE @]
  /\ UNCHANGED << present, tasksVars, tries, waiter, watched, finder, unheard >>

StreamRemoved(s) ==
  /\ LoopFree /\ ~serving
  /\ s \in present
  /\ present' = present \ {s}
  /\ UNCHANGED << listVars, dispatchVars, adding, tasksVars, task, tries, waiter, watched, finder,
                  unheard >>

\* leave() forgets every stream, whatever is being dispatched.
Clean ==
  /\ LoopFree /\ "leave" \in Uses
  /\ present' = {}
  /\ UNCHANGED << listVars, dispatchVars, adding, tasksVars, task, tries, waiter, watched, finder,
                  unheard >>

\* join(), after a leave: the streams of the room are there, without an event.
Join(S) ==
  /\ LoopFree /\ "join" \in Uses
  /\ present = {} /\ present' = S
  /\ task' = [s \in StreamIds |-> IF s \in S /\ task[s] = "new" THEN "none" ELSE task[s]]
  /\ unheard' = unheard \cup ToSet(listeners)
  /\ UNCHANGED << listVars, dispatchVars, adding, tasksVars, tries, waiter, watched, finder >>

\* A listener that finds its stream at once is removed at once.
WaitForStream(f) ==
  /\ LoopFree /\ finder[f] = "none"
  /\ IF present # {} THEN finder' = [finder EXCEPT ![f] = "returned"] /\ UNCHANGED listVars
     ELSE finder' = [finder EXCEPT ![f] = "waiting"] /\ AddEventListener(f)
  /\ UNCHANGED << dispatchVars, present, adding, tasksVars, task, tries, waiter, watched, unheard >>

FinderWakes(f) ==
  /\ LoopFree /\ finder[f] = "found"
  /\ finder' = [finder EXCEPT ![f] = IF present # {} THEN "returned" ELSE "assertion"]
  /\ UNCHANGED << listVars, dispatchVars, present, adding, tasksVars, task, tries, waiter, watched,
                  unheard >>

\* Its listener is left behind until the next stream comes.
FinderTimesOut(f) ==
  /\ LoopFree /\ "findTimeout" \in Uses
  /\ finder[f] = "waiting"
  /\ finder' = [finder EXCEPT ![f] = "timeout"]
  /\ UNCHANGED << listVars, dispatchVars, present, adding, tasksVars, task, tries, waiter, watched,
                  unheard >>

-----------------------------------------------------------------------------
FinderStep(f) == FinderListener(f) \/ FinderWakes(f)
DispatchStep == TasksListener \/ StreamAddedEnds
TaskStep(s) == OnTaskDone(s) \/ CallbackReturns(s) \/ TaskRaises(s)

Next ==
  \/ ConsumeStreams \/ Renew \/ CloseHandle \/ SetException
  \/ Wait \/ Wake \/ CancelWait
  \/ \E i \in 1..Current : TimerFires(i)
  \/ \E s \in StreamIds : \/ TaskStep(s) \/ CallbackRaises(s) \/ CallbackTimesOut(s)
                          \/ StreamAdded(s) \/ StreamRemoved(s)
  \/ \E f \in Finders : FinderStep(f) \/ FilterRaises(f) \/ WaitForStream(f) \/ FinderTimesOut(f)
  \/ DispatchStep \/ Clean
  \/ \E S \in SUBSET StreamIds \ {{}} : Join(S)

Spec == Init /\ [][Next]_vars

\* The event loop runs what can run and its timers; callbacks end.
Fairness ==
  /\ WF_vars(Wake) /\ WF_vars(DispatchStep)
  /\ \A f \in Finders : WF_vars(FinderStep(f))
  /\ WF_vars(\E i \in 1..Current : TimerFires(i))
  /\ \A s \in StreamIds : WF_vars(TaskStep(s))

FairSpec == Spec /\ Fairness

-----------------------------------------------------------------------------
(* Properties                                                              *)

\* _on_task_done and add_task (their assertions among them): state, tasks and
\* the two futures tell the same story, so that wait() suspends while a
\* callback runs and goes on to the timer when none does; and no task that a
\* closed or failed handle has dropped goes on unseen.
StateAgrees ==
  /\ state = "running" /\ LoopFree =>
       active # {} /\ working = "pending" /\ timers[Current] # "sleep"
  /\ state \in {"timeouting", "timeouted"} => active = {} /\ working = "done"
  /\ \A s \in StreamIds : task[s] = "running" => s \in active /\ state = "running"

\* A wait that was begun ends, also when streams come, callbacks fail, the
\* session's collector reports an exception or the handle is closed, unless it
\* is cancelled: then it spins.
WaitEnds == waiter \in {"working", "timer"} ~> waiter \in {"returned", "raised"} \/ ~LoopFree

\* wait() keeps the event loop to itself only when it was cancelled, or has no
\* time to wait for: the futures that an exception, a close or a renewal leave
\* never make it go round without suspending.
SpinsOnlyWhenCancelled ==
  ~LoopFree => ~Timed \/ (state # "error" /\ "cancelled" \in {working, timers[Current]})

\* EventDispatcher: a listener stays in the list until its owner gives it up,
\* whatever listeners come, run and go.  Lost are the ones that are added to
\* another list, while the event is dispatched that emptied the one before.
Wants(l) ==
  IF l = "tasks" THEN state \notin {"none", "closed"} ELSE finder[l] = "waiting"

ListenersStay ==
  [][\A l \in Listeners : Listed(l) /\ ~Listed(l)' => ~Wants(l)' \/ detached]_vars

\* wait_for_stream: no stream comes unnoticed by a caller whose listener is in
\* the list, however the listeners of one event remove themselves.  Two things
\* leave it waiting until the next stream comes: a listener of the event raises
\* before its own has run, or raises in its own filter; and the stream is one of
\* those that a join has found in the room.
NoneMissesStream ==
  \A f \in Finders :
    finder[f] = "waiting" /\ Listed(f) /\ present # {} => Contains(todo, f) \/ f \in unheard
=============================================================================
