----------------------------- MODULE StreamsProofs -----------------------------
(***************************************************************************)
(* Proofs about Streams, for any number of streams, of calls of            *)
(* wait_for_stream, of retries and of timers.                              *)
(*                                                                         *)
(* One inductive invariant in three parts: Listening, about the list of    *)
(* listeners and the dispatch; Working, about Tasks: its state, the tasks  *)
(* and its two futures; Waiting, about wait().                             *)
(***************************************************************************)
EXTENDS Streams, ListLemmas

TaskStates == {"new", "none", "running", "raising", "ended", "cancelled"}
TimerStates == {"sleep", "done", "cancelled", "error"}
FinderStates == {"none", "waiting", "found", "returned", "timeout", "assertion"}

\* A listener is added once, and by one who is not done with it yet.
Listening ==
  /\ listeners \in Seq(Listeners) /\ todo \in Seq(Listeners)
  /\ serving \in BOOLEAN /\ detached \in BOOLEAN
  /\ IsInjective(listeners)
  /\ adding \in StreamIds \cup {"none"} /\ (serving <=> adding # "none")
  /\ finder \in [Finders -> FinderStates] /\ unheard \subseteq Listeners
  /\ todo # << >> => serving
  /\ Contains(listeners, "tasks") \/ Contains(todo, "tasks") => state # "none"
  /\ \A f \in Finders : Contains(listeners, f) => finder[f] # "none"

\* StateAgrees, and that a timer which ran out in use has ended the quiet.
WorkingTypes ==
  /\ present \subseteq StreamIds /\ active \subseteq StreamIds
  /\ state \in {"none", "running", "timeouting", "timeouted"} \cup Stopped
  /\ task \in [StreamIds -> TaskStates] /\ tries \in [StreamIds -> 0..Retries]
  /\ working \in {"done", "pending", "cancelled", "error"}
  /\ timers \in Seq(TimerStates)
Futures ==
  /\ state = "none" => active = {} /\ timers = << >>
  /\ state # "none" => timers # << >>
  /\ state = "running" /\ LoopFree =>
       active # {} /\ working = "pending" /\ timers[Current] # "sleep"
  /\ state \in {"timeouting", "timeouted"} => active = {} /\ working = "done"
  /\ state = "timeouting" /\ Timed => timers[Current] # "done"
  /\ state = "error" => working = "error" /\ timers[Current] = "error"
  /\ working = "pending" => state = "running"
Running == \A s \in StreamIds : task[s] = "running" => s \in active /\ state = "running"
Working == WorkingTypes /\ Futures /\ Running

Waiting ==
  /\ waiter \in {"none", "working", "timer", "returned", "raised", "spinning"}
  /\ watched \in 0..Current
  /\ waiter # "none" => state # "none"
  /\ waiter = "timer" => watched # 0
  /\ SpinsOnlyWhenCancelled

SInv == Listening /\ Working /\ Waiting

\* The invariants of the runs are parts of it.
LEMMA Covered == SInv => TypeOK /\ StateAgrees /\ SpinsOnlyWhenCancelled
  <1> SUFFICES ASSUME SInv PROVE TypeOK /\ StateAgrees /\ SpinsOnlyWhenCancelled
    OBVIOUS
  <1>1. TypeOK
    BY DEF SInv, Listening, Working, WorkingTypes, Waiting, TypeOK, DispatcherTypeOK, TaskStates,
           TimerStates, FinderStates
  <1>2. StateAgrees
    BY DEF SInv, Working, Futures, Running, StateAgrees
  <1>3. QED
    BY <1>1, <1>2 DEF SInv, Waiting

-----------------------------------------------------------------------------
(* Helpers                                                                 *)

\* The timer in use is cancelled, unless it has run out.
LEMMA Cancelling ==
  ASSUME timers \in Seq(TimerStates), timers # << >>
  PROVE  /\ TimerCancelled \in Seq(TimerStates) /\ Len(TimerCancelled) = Len(timers)
         /\ TimerCancelled # << >> /\ Current \in 1..Len(timers)
         /\ TimerCancelled[Current] \in TimerStates \ {"sleep"}
         /\ timers[Current] \in {"done", "error"} => TimerCancelled[Current] = timers[Current]
         /\ timers[Current] \in {"sleep", "cancelled"} => TimerCancelled[Current] = "cancelled"
  <1>1. Current \in 1..Len(timers) /\ timers[Current] \in TimerStates
    BY DEF Current
  <1>2. QED
    BY <1>1 DEF TimerCancelled, TimerStates, Current

\* A timer more.
LEMMA Starting ==
  ASSUME timers \in Seq(TimerStates), NEW x \in TimerStates
  PROVE  /\ Append(timers, x) \in Seq(TimerStates) /\ Append(timers, x) # << >>
         /\ Len(Append(timers, x)) = Len(timers) + 1 /\ Append(timers, x)[Len(timers) + 1] = x
  OBVIOUS

\* A step that leaves the listeners and the dispatch alone.
LEMMA ListeningKept ==
  ASSUME Listening, UNCHANGED << listVars, dispatchVars, adding, finder, unheard >>,
         state # "none" => state' # "none"
  PROVE  Listening'
  BY DEF Listening, listVars, dispatchVars

\* A step that starts no task and leaves Tasks alone.
LEMMA WorkingKept ==
  ASSUME Working, UNCHANGED tasksVars, LoopFree' => LoopFree,
         present' \subseteq StreamIds, tries' \in [StreamIds -> 0..Retries],
         task' \in [StreamIds -> TaskStates],
         \A s \in StreamIds : task'[s] = "running" => task[s] = "running"
  PROVE  Working'
  <1>1. WorkingTypes'
    BY DEF Working, WorkingTypes, tasksVars
  <1>2. Futures'
    BY DEF Working, Futures, tasksVars, Current
  <1>3. Running'
    BY DEF Working, Running, tasksVars
  <1>4. QED
    BY <1>1, <1>2, <1>3 DEF Working

\* A step during which wait() does not get on.
LEMMA WaitingKept ==
  ASSUME Waiting, LoopFree, UNCHANGED << waiter, watched >>, state # "none" => state' # "none",
         timers \in Seq(TimerStates), timers' \in Seq(TimerStates), Len(timers) <= Len(timers')
  PROVE  Waiting'
  <1>1. watched' \in 0..Current'
    BY DEF Waiting, Current
  <1>2. QED
    BY <1>1 DEF Waiting, SpinsOnlyWhenCancelled, LoopFree

\* The tasks of a handle that is closed or has failed.
LEMMA CancelledTasksIs ==
  ASSUME Working
  PROVE  /\ CancelledTasks \in [StreamIds -> TaskStates]
         /\ \A s \in StreamIds : CancelledTasks[s] # "running"
  BY DEF Working, WorkingTypes, Running, CancelledTasks, TaskStates

\* A listener gives up its place in the list, the others keep theirs.
LEMMA Removing ==
  ASSUME Listening, NEW l, RemoveEventListener(l)
  PROVE  /\ listeners' \in Seq(Listeners) /\ IsInjective(listeners') /\ detached' \in BOOLEAN
         /\ \A x : Contains(listeners', x) <=> Contains(listeners, x) /\ x # l
  <1>1. /\ listeners' \in Seq(Listeners) /\ IsInjective(listeners')
        /\ \A x : Contains(listeners', x) <=> Contains(listeners, x) /\ x # l
    BY RemoveFirstKeeps DEF Listening, RemoveEventListener, WithoutListener
  <1>2. detached' \in BOOLEAN
    BY DEF Listening, RemoveEventListener
  <1>3. QED
    BY <1>1, <1>2

\* A listener is the last of the list it is added to.
LEMMA Adding ==
  ASSUME Listening, NEW l \in Listeners, ~Contains(listeners, l), AddEventListener(l)
  PROVE  /\ listeners' \in Seq(Listeners) /\ IsInjective(listeners') /\ detached' = detached
         /\ \A x : Contains(listeners', x) <=> Contains(listeners, x) \/ x = l
  BY AppendContains, AppendKeeps DEF Listening, AddEventListener

-----------------------------------------------------------------------------
(* The handle                                                              *)

\* Handle.close, at whatever place wait() then is.
LEMMA CloseHolds ==
  ASSUME SInv, LoopFree, CloseTasks, state # "none",
         UNCHANGED << dispatchVars, present, adding, tries, finder, unheard >>
  PROVE  /\ Listening' /\ Working' /\ timers' \in Seq(TimerStates) /\ Len(timers') = Len(timers)
         /\ state' = "closed"
  <1>1. state' = "closed" /\ active' = {} /\ task' = CancelledTasks /\ timers' = TimerCancelled
        /\ working' = IF working = "pending" THEN "cancelled" ELSE working
    BY DEF CloseTasks
  <1>2. timers' \in Seq(TimerStates) /\ Len(timers') = Len(timers) /\ timers' # << >>
    BY <1>1, Cancelling DEF SInv, Working, WorkingTypes, Futures
  <1>3. Listening'
    BY <1>1, Removing DEF SInv, CloseTasks, Listening, dispatchVars
  <1>4. WorkingTypes'
    BY <1>1, <1>2, CancelledTasksIs DEF SInv, Working, WorkingTypes, Stopped
  <1>5. Futures' /\ Running'
    BY <1>1, <1>2, CancelledTasksIs DEF SInv, Working, WorkingTypes, Futures, Running
  <1>6. QED
    BY <1>1, <1>2, <1>3, <1>4, <1>5 DEF Working

\* consume_streams makes the handle.
LEMMA ConsumeHolds ==
  ASSUME SInv, ConsumeStreams
  PROVE  SInv'
  <1>1. /\ LoopFree /\ state = "none" /\ active' = present /\ timers = << >> /\ state' # "none"
        /\ UNCHANGED << dispatchVars, present, adding, tries, waiter, watched, finder, unheard >>
        /\ task' = [s \in StreamIds |-> IF s \in present THEN "running" ELSE task[s]]
    BY DEF ConsumeStreams, SInv, Working, Futures
  <1>2. \/ /\ present = {} /\ state' = "timeouting" /\ working' = "done"
           /\ timers' = << IF Timed THEN "sleep" ELSE "done" >>
        \/ present # {} /\ state' = "running" /\ working' = "pending" /\ timers' = << "cancelled" >>
    BY <1>1 DEF ConsumeStreams, StartTimer
  <1>3. /\ timers' \in Seq(TimerStates) /\ Len(timers') = 1 /\ timers' # << >>
        /\ timers'[1] = timers'[Current']
    <2>1. "sleep" \in TimerStates /\ "done" \in TimerStates /\ "cancelled" \in TimerStates
      BY DEF TimerStates
    <2>2. QED
      BY <1>2, <2>1 DEF Current
  <1>4. Listening'
    <2>1. "tasks" \in Listeners /\ ~Contains(listeners, "tasks") /\ AddEventListener("tasks")
      BY <1>1, ListenersAssumption DEF ConsumeStreams, SInv, Listening
    <2>2. QED
      BY <1>1, <2>1, Adding, NamesAssumption DEF SInv, Listening, dispatchVars
  <1>5. WorkingTypes'
    BY <1>1, <1>2, <1>3 DEF SInv, Working, WorkingTypes, TaskStates
  <1>6. Futures'
    BY <1>1, <1>2, <1>3 DEF Futures
  <1>7. Running'
    BY <1>1, <1>2 DEF SInv, Working, WorkingTypes, Running
  <1>8. Waiting'
    BY <1>1, <1>3, WaitingKept DEF SInv, Working, WorkingTypes
  <1>9. QED
    BY <1>4, <1>5, <1>6, <1>7, <1>8 DEF SInv, Working

\* The last task to end begins the quiet.
LEMMA DoneHolds ==
  ASSUME SInv, NEW s \in StreamIds, OnTaskDone(s)
  PROVE  SInv'
  <1>1. /\ LoopFree /\ task[s] = "ended" /\ task' = [task EXCEPT ![s] = "none"]
        /\ UNCHANGED << listVars, dispatchVars, present, adding, tries, waiter, watched, finder,
                        unheard >>
    BY DEF OnTaskDone
  <1>2. /\ task' \in [StreamIds -> TaskStates]
        /\ \A x \in StreamIds : task'[x] = "running" => task[x] = "running"
    BY <1>1 DEF SInv, Working, WorkingTypes, TaskStates
  <1>3. CASE UNCHANGED tasksVars
    <2>1. Working'
      BY <1>1, <1>2, <1>3, WorkingKept DEF SInv, LoopFree, Working, WorkingTypes
    <2>2. QED
      BY <1>1, <1>3, <2>1, ListeningKept, WaitingKept DEF SInv, tasksVars, Working, WorkingTypes
  <1>4. CASE state \notin Stopped /\ s \in active
    <2>1. state = "running"
      BY <1>4 DEF SInv, Working, WorkingTypes, Futures
    <2>2. active' = active \ {s}
      BY <1>4 DEF OnTaskDone, TasksLeft
    <2>3. CASE active' # {}
      <3>1. UNCHANGED << state, working, timers >>
        BY <1>4, <2>3 DEF OnTaskDone
      <3>2. Working'
        BY <1>1, <1>2, <2>1, <2>2, <2>3, <3>1 DEF SInv, Working, WorkingTypes, Futures, Running,
           LoopFree, Current
      <3>3. QED
        BY <1>1, <3>1, <3>2, ListeningKept, WaitingKept DEF SInv, Working, WorkingTypes
    <2>4. CASE active' = {}
      <3>1. state' = "timeouting" /\ working' = "done" /\ timers' = StartTimer
        BY <1>4, <2>4 DEF OnTaskDone
      <3>2. /\ timers' \in Seq(TimerStates) /\ Len(timers') = Len(timers) + 1 /\ timers' # << >>
            /\ timers'[Current'] = IF Timed THEN "sleep" ELSE "done"
        BY <3>1, Starting DEF StartTimer, SInv, Working, WorkingTypes, TimerStates, Current
      <3>3. WorkingTypes' /\ Futures'
        BY <1>1, <1>2, <2>4, <3>1, <3>2 DEF SInv, Working, WorkingTypes, Futures
      <3>4. Running'
        BY <1>1, <1>2, <2>2, <2>4 DEF SInv, Working, WorkingTypes, Running
      <3>5. Len(timers) \in Nat
        BY DEF SInv, Working, WorkingTypes
      <3>6. QED
        BY <1>1, <3>1, <3>2, <3>3, <3>4, <3>5, ListeningKept, WaitingKept
           DEF SInv, Working, WorkingTypes
    <2>5. QED
      BY <2>3, <2>4
  <1>5. QED
    BY <1>3, <1>4 DEF OnTaskDone

\* A timer in use ends the quiet; one that is not changes nothing else.
LEMMA TimerHolds ==
  ASSUME SInv, NEW i \in 1..Current, TimerFires(i)
  PROVE  SInv'
  <1>1. /\ LoopFree /\ timers[i] = "sleep" /\ timers' = [timers EXCEPT ![i] = "done"]
        /\ state' = IF state = "timeouting" THEN "timeouted" ELSE state
        /\ UNCHANGED << listVars, dispatchVars, present, adding, active, task, tries, working,
                        waiter, watched, finder, unheard >>
    BY DEF TimerFires
  <1>2. /\ timers' \in Seq(TimerStates) /\ Len(timers') = Len(timers)
        /\ timers # << >> /\ timers' # << >> /\ Current' = Current
        /\ timers'[Current] = IF Current = i THEN "done" ELSE timers[Current]
    BY <1>1 DEF SInv, Working, WorkingTypes, TimerStates, Current
  <1>3. WorkingTypes' /\ Running'
    BY <1>1, <1>2 DEF SInv, Working, WorkingTypes, Running
  <1>4. Futures'
    BY <1>1, <1>2 DEF SInv, Working, Futures, LoopFree
  <1>5. QED
    BY <1>1, <1>2, <1>3, <1>4, ListeningKept, WaitingKept DEF SInv, Working, WorkingTypes

\* A renewed timer is one that has not run out.
LEMMA RenewHolds ==
  ASSUME SInv, Renew
  PROVE  SInv'
  <1>1. /\ LoopFree /\ state \in {"timeouting", "timeouted"} /\ state' = "timeouting"
        /\ timers' = StartTimer
        /\ UNCHANGED << listVars, dispatchVars, present, adding, active, task, tries, working,
                        waiter, watched, finder, unheard >>
    BY DEF Renew
  <1>2. /\ timers' \in Seq(TimerStates) /\ Len(timers') = Len(timers) + 1 /\ timers' # << >>
        /\ timers'[Current'] = IF Timed THEN "sleep" ELSE "done"
    BY <1>1, Starting DEF StartTimer, SInv, Working, WorkingTypes, TimerStates, Current
  <1>3. WorkingTypes' /\ Running' /\ Futures'
    BY <1>1, <1>2 DEF SInv, Working, WorkingTypes, Running, Futures
  <1>4. Len(timers) \in Nat
    BY DEF SInv, Working, WorkingTypes
  <1>5. QED
    BY <1>1, <1>2, <1>3, <1>4, ListeningKept, WaitingKept DEF SInv, Working, WorkingTypes

\* An exception ends the tasks and puts an error into both futures.
LEMMA ErrorHolds ==
  ASSUME SInv, SetException
  PROVE  SInv'
  <1>1. /\ LoopFree /\ state # "none" /\ state' = "error" /\ task' = CancelledTasks
        /\ working' = "error" /\ timers' = Append(TimerCancelled, "error")
        /\ UNCHANGED << listVars, dispatchVars, present, adding, active, tries, waiter, watched,
                        finder, unheard >>
    BY DEF SetException, SetExceptionFutures
  <1>2. TimerCancelled \in Seq(TimerStates) /\ Len(TimerCancelled) = Len(timers)
    BY <1>1, Cancelling DEF SInv, Working, WorkingTypes, Futures
  <1>3. /\ timers' \in Seq(TimerStates) /\ Len(timers') = Len(timers) + 1 /\ timers' # << >>
        /\ timers'[Current'] = "error"
    <2>1. "error" \in TimerStates
      BY DEF TimerStates
    <2>2. QED
      BY <1>1, <1>2, <2>1 DEF Current
  <1>4. WorkingTypes' /\ Running' /\ Futures'
    BY <1>1, <1>3, CancelledTasksIs DEF SInv, Working, WorkingTypes, Running, Futures, Stopped
  <1>5. Len(timers) \in Nat
    BY DEF SInv, Working, WorkingTypes
  <1>6. QED
    BY <1>1, <1>3, <1>4, <1>5, ListeningKept, WaitingKept DEF SInv, Working, WorkingTypes

\* The user closes the handle.
LEMMA CloseHandleHolds ==
  ASSUME SInv, CloseHandle
  PROVE  SInv'
  <1>1. LoopFree /\ state # "none" /\ CloseTasks
        /\ UNCHANGED << dispatchVars, present, adding, tries, waiter, watched, finder, unheard >>
    BY DEF CloseHandle
  <1>2. Len(timers) \in Nat /\ timers \in Seq(TimerStates)
    BY DEF SInv, Working, WorkingTypes
  <1>3. QED
    BY <1>1, <1>2, CloseHolds, WaitingKept DEF SInv

-----------------------------------------------------------------------------
(* wait()                                                                  *)

\* A turn of the loop that suspends nowhere has met a future that was cancelled.
LEMMA TurnSpins ==
  ASSUME SInv, LoopFree, state # "none"
  PROVE  /\ Turn \in {"working", "timer", "returned", "raised", "spinning"}
         /\ Turn = "spinning" /\ Timed =>
              state # "error" /\ "cancelled" \in {working, timers[Current]}
  <1>1. Turn \in {"working", "timer", "returned", "raised", "spinning"}
    BY DEF Turn
  <1>2. timers[Current] \in TimerStates
    BY DEF SInv, Working, WorkingTypes, Futures, Current
  <1>3. ASSUME Turn = "spinning", Timed
        PROVE  state # "error" /\ "cancelled" \in {working, timers[Current]}
    <2>1. /\ working # "pending" /\ working # "error" /\ timers[Current] # "error"
          /\ ~(working = "done" /\ timers[Current] = "sleep")
          /\ state \notin {"closing", "closed"}
          /\ ~(working = "done" /\ timers[Current] = "done" /\ state = "timeouted")
      BY <1>3 DEF Turn
    <2>2. state # "error"
      BY <2>1 DEF SInv, Working, Futures
    <2>3. CASE working = "done"
      <3>1. state \in {"timeouting", "timeouted"}
        BY <2>1, <2>2, <2>3 DEF SInv, Working, WorkingTypes, Futures, Stopped
      <3>2. timers[Current] # "done"
        BY <1>3, <2>1, <2>3, <3>1 DEF SInv, Working, Futures
      <3>3. QED
        BY <1>2, <2>1, <2>2, <2>3, <3>2 DEF TimerStates
    <2>4. CASE working = "cancelled"
      BY <2>2, <2>4
    <2>5. QED
      BY <2>1, <2>3, <2>4 DEF SInv, Working, WorkingTypes
  <1>4. QED
    BY <1>1, <1>3

\* wait() suspends, spins, or ends and closes the handle.
LEMMA GoesHolds ==
  ASSUME SInv, LoopFree, state # "none",
         NEW place \in {"working", "timer", "returned", "raised", "spinning"},
         place = "spinning" /\ Timed =>
           state # "error" /\ "cancelled" \in {working, timers[Current]},
         GoesTo(place)
  PROVE  SInv'
  <1>1. /\ waiter' = place /\ watched' = IF place = "timer" THEN Current ELSE 0
        /\ UNCHANGED << dispatchVars, present, adding, tries, finder, unheard >>
    BY DEF GoesTo
  <1>2. Current \in 1..Len(timers) /\ Len(timers) \in Nat /\ timers \in Seq(TimerStates)
    BY DEF SInv, Working, WorkingTypes, Futures, Current
  <1>3. CASE place \in {"returned", "raised"}
    <2>1. CloseTasks
      BY <1>3 DEF GoesTo
    <2>2. Listening' /\ Working' /\ Len(timers') = Len(timers) /\ state' = "closed"
      BY <1>1, <2>1, CloseHolds
    <2>3. watched' \in 0..Current'
      BY <1>1, <1>2, <1>3, <2>2 DEF Current
    <2>4. Waiting'
      BY <1>1, <1>3, <2>2, <2>3 DEF Waiting, SpinsOnlyWhenCancelled, LoopFree
    <2>5. QED
      BY <2>2, <2>4 DEF SInv
  <1>4. CASE place \notin {"returned", "raised"}
    <2>1. UNCHANGED << tasksVars, task, listVars >>
      BY <1>4 DEF GoesTo
    <2>2. Listening'
      BY <1>1, <2>1, ListeningKept DEF SInv, tasksVars
    <2>3. Working'
      BY <1>1, <2>1, WorkingKept DEF SInv, Working, WorkingTypes
    <2>4. watched' \in 0..Current' /\ (place = "timer" => watched' # 0)
      BY <1>1, <1>2, <2>1 DEF Current, tasksVars
    <2>5. SpinsOnlyWhenCancelled'
      BY <1>1, <2>1 DEF SpinsOnlyWhenCancelled, LoopFree, tasksVars, Current
    <2>6. Waiting'
      BY <1>1, <2>1, <2>4, <2>5 DEF Waiting, tasksVars
    <2>7. QED
      BY <2>2, <2>3, <2>6 DEF SInv
  <1>5. QED
    BY <1>3, <1>4

\* Who cancels wait() cancels the future it is suspended on.
LEMMA CancelWaitHolds ==
  ASSUME SInv, CancelWait
  PROVE  SInv'
  <1>1. /\ UNCHANGED << listVars, dispatchVars, present, adding, state, active, task, tries,
                        finder, unheard >>
        /\ state # "none" /\ LoopFree
    BY DEF CancelWait, SInv, Waiting, LoopFree
  <1>2. Listening'
    BY <1>1, ListeningKept DEF SInv
  <1>3. Current \in 1..Len(timers) /\ Len(timers) \in Nat /\ timers \in Seq(TimerStates)
    BY <1>1 DEF SInv, Working, WorkingTypes, Futures, Current
  <1>4. CASE waiter = "working"
    <2>1. /\ working = "pending" /\ working' = "cancelled" /\ waiter' = "spinning"
          /\ UNCHANGED << timers, watched >>
      BY <1>4 DEF CancelWait
    <2>2. state = "running"
      BY <2>1 DEF SInv, Working, Futures
    <2>3. Working'
      BY <1>1, <2>1, <2>2 DEF SInv, Working, WorkingTypes, Futures, Running, LoopFree
    <2>4. Waiting'
      BY <1>1, <2>1, <2>2 DEF SInv, Waiting, SpinsOnlyWhenCancelled, Current
    <2>5. QED
      BY <1>2, <2>3, <2>4 DEF SInv
  <1>5. CASE waiter = "timer"
    <2>1. /\ timers[watched] = "sleep" /\ timers' = [timers EXCEPT ![watched] = "cancelled"]
          /\ waiter' = IF watched = Current THEN "spinning" ELSE "timer"
          /\ watched' = Current /\ UNCHANGED working
      BY <1>5 DEF CancelWait
    <2>2. watched \in 1..Len(timers)
      BY <1>3, <1>5 DEF SInv, Waiting, Current
    <2>3. /\ timers' \in Seq(TimerStates) /\ Len(timers') = Len(timers) /\ Current' = Current
          /\ timers' # << >>
          /\ timers'[Current] = IF watched = Current THEN "cancelled" ELSE timers[Current]
      BY <1>3, <2>1, <2>2 DEF TimerStates, Current
    <2>4. WorkingTypes' /\ Running'
      BY <1>1, <2>1, <2>3 DEF SInv, Working, WorkingTypes, Running
    <2>5. Futures'
      BY <1>1, <2>1, <2>3 DEF SInv, Working, Futures, LoopFree
    <2>6. state = "error" => watched # Current
      BY <2>1 DEF SInv, Working, Futures
    <2>7. SpinsOnlyWhenCancelled'
      BY <1>1, <2>1, <2>3, <2>6 DEF SpinsOnlyWhenCancelled, LoopFree
    <2>8. Waiting'
      BY <1>1, <1>3, <2>1, <2>3, <2>7 DEF Waiting, Current
    <2>9. QED
      BY <1>2, <2>4, <2>5, <2>8 DEF SInv, Working
  <1>6. QED
    BY <1>4, <1>5 DEF CancelWait

\* The steps of wait().
LEMMA WaitHolds ==
  ASSUME SInv, Wait \/ Wake \/ CancelWait
  PROVE  SInv'
  <1>1. CASE Wait
    <2>1. LoopFree /\ state # "none" /\ GoesTo(Turn)
      BY <1>1 DEF Wait, LoopFree
    <2>2. QED
      BY <2>1, TurnSpins, GoesHolds
  <1>2. CASE Wake
    <2>1. LoopFree /\ state # "none" /\ (GoesTo(Turn) \/ GoesTo("returned"))
      BY <1>2 DEF Wake, LoopFree, SInv, Waiting
    <2>2. QED
      BY <2>1, TurnSpins, GoesHolds
  <1>3. QED
    BY <1>1, <1>2, CancelWaitHolds

-----------------------------------------------------------------------------
(* Callbacks, streams, and wait_for_stream                                 *)

\* A callback that ends has left its task to be done.
LEMMA CallbackHolds ==
  ASSUME SInv, NEW s \in StreamIds,
         CallbackReturns(s) \/ CallbackRaises(s) \/ CallbackTimesOut(s) \/ TaskRaises(s)
  PROVE  SInv'
  <1>1. /\ LoopFree
        /\ UNCHANGED << listVars, dispatchVars, present, adding, tasksVars, waiter, watched,
                        finder, unheard >>
    BY DEF CallbackReturns, CallbackRaises, CallbackTimesOut, TaskRaises
  <1>2. task' = task \/ \E x \in {"ended", "raising"} : task' = [task EXCEPT ![s] = x]
    BY DEF CallbackReturns, CallbackRaises, CallbackTimesOut, TaskRaises
  <1>3. tries' \in [StreamIds -> 0..Retries]
    <2>1. tries' = tries \/ (tries[s] > 0 /\ tries' = [tries EXCEPT ![s] = @ - 1])
      BY DEF CallbackReturns, CallbackRaises, CallbackTimesOut, TaskRaises, TriesAgain
    <2>2. QED
      BY <2>1, StreamsAssumption DEF SInv, Working, WorkingTypes
  <1>4. /\ task' \in [StreamIds -> TaskStates]
        /\ \A x \in StreamIds : task'[x] = "running" => task[x] = "running"
    BY <1>2 DEF SInv, Working, WorkingTypes, TaskStates
  <1>5. Working'
    BY <1>1, <1>3, <1>4, WorkingKept DEF SInv, LoopFree, Working, WorkingTypes
  <1>6. QED
    BY <1>1, <1>5, ListeningKept, WaitingKept DEF SInv, Working, WorkingTypes, tasksVars

\* Streams come and go; an event about one begins and ends.
LEMMA StreamHolds ==
  ASSUME SInv, (\E s \in StreamIds : StreamAdded(s) \/ StreamRemoved(s)) \/ Clean \/ StreamAddedEnds
  PROVE  SInv'
  <1>1. /\ LoopFree /\ UNCHANGED << tasksVars, tries, waiter, watched, finder >>
        /\ present' \subseteq StreamIds
    BY DEF StreamAdded, StreamRemoved, Clean, StreamAddedEnds, SInv, Working, WorkingTypes
  <1>2. \/ task' = task
        \/ \E x \in StreamIds : task' = [task EXCEPT ![x] = IF @ = "new" THEN "none" ELSE @]
    <2>1. ASSUME NEW s \in StreamIds, StreamAdded(s)
          PROVE  task' = task \/ task' = [task EXCEPT ![s] = IF @ = "new" THEN "none" ELSE @]
      BY <2>1 DEF StreamAdded, SInv, Working, WorkingTypes
    <2>2. ASSUME StreamAddedEnds
          PROVE  /\ adding \in StreamIds
                 /\ task' = [task EXCEPT ![adding] = IF @ = "new" THEN "none" ELSE @]
      BY <2>2 DEF StreamAddedEnds, DispatchEnds, SInv, Listening
    <2>3. QED
      BY <2>1, <2>2 DEF StreamRemoved, Clean
  <1>3. /\ task' \in [StreamIds -> TaskStates]
        /\ \A x \in StreamIds : task'[x] = "running" => task[x] = "running"
    BY <1>2 DEF SInv, Working, WorkingTypes, TaskStates
  <1>4. Working'
    BY <1>1, <1>3, WorkingKept DEF SInv, LoopFree, Working, WorkingTypes
  <1>5. Waiting'
    BY <1>1, WaitingKept DEF SInv, Working, WorkingTypes, tasksVars
  <1>6. CASE \E s \in StreamIds : StreamAdded(s)
    <2>1. PICK s \in StreamIds : StreamAdded(s)
      BY <1>6
    <2>2. /\ ~serving /\ serving' = (listeners # << >>) /\ todo' = listeners
          /\ UNCHANGED << listeners, detached >>
      BY <2>1 DEF StreamAdded, DispatchBegins, listVars
    <2>3. adding = "none" /\ adding' = IF listeners = << >> THEN adding ELSE s
      BY <2>1, <2>2 DEF StreamAdded, SInv, Listening
    <2>4. s # "none"
      BY NamesAssumption
    <2>5. unheard' = {}
      BY <2>1 DEF StreamAdded
    <2>6. Listening'
      BY <1>1, <2>2, <2>3, <2>4, <2>5 DEF SInv, Listening, tasksVars
    <2>7. QED
      BY <1>4, <1>5, <2>6 DEF SInv
  <1>7. CASE StreamAddedEnds
    <2>1. /\ serving /\ todo = << >> /\ serving' = FALSE /\ todo' = todo /\ adding' = "none"
          /\ listeners' \in {<< >>, listeners} /\ detached' = FALSE /\ unheard' = unheard
      BY <1>7 DEF StreamAddedEnds, DispatchEnds
    <2>2. /\ listeners' \in Seq(Listeners) /\ IsInjective(listeners')
          /\ \A x : Contains(listeners', x) => Contains(listeners, x)
      <3>1. << >> \in Seq(Listeners) /\ IsInjective(<< >>) /\ \A x : ~Contains(<< >>, x)
        BY DEF IsInjective, Contains
      <3>2. QED
        BY <2>1, <3>1 DEF SInv, Listening
    <2>3. Listening'
      BY <1>1, <2>1, <2>2 DEF SInv, Listening, tasksVars
    <2>4. QED
      BY <1>4, <1>5, <2>3 DEF SInv
  <1>8. CASE (\E s \in StreamIds : StreamRemoved(s)) \/ Clean
    <2>1. UNCHANGED << listVars, dispatchVars, adding, unheard >>
      BY <1>8 DEF StreamRemoved, Clean
    <2>2. QED
      BY <1>1, <1>4, <1>5, <2>1, ListeningKept DEF SInv, tasksVars
  <1>9. QED
    BY <1>6, <1>7, <1>8

\* A join, and a filter that raises, pass listeners over.
LEMMA PassedHolds ==
  ASSUME SInv, (\E S \in SUBSET StreamIds : Join(S)) \/ \E f \in Finders : FilterRaises(f)
  PROVE  SInv'
  <1>1. /\ LoopFree
        /\ UNCHANGED << listVars, serving, adding, tasksVars, tries, waiter, watched, finder >>
    BY DEF Join, FilterRaises, ListenerRaises, dispatchVars
  <1>2. /\ present' \subseteq StreamIds /\ todo' \in {todo, << >>}
        /\ \/ task' = task
           \/ \E S : task' = [s \in StreamIds |->
                             IF s \in S /\ task[s] = "new" THEN "none" ELSE task[s]]
    BY DEF Join, FilterRaises, ListenerRaises, dispatchVars, SInv, Working, WorkingTypes
  <1>3. /\ task' \in [StreamIds -> TaskStates]
        /\ \A x \in StreamIds : task'[x] = "running" => task[x] = "running"
    BY <1>2 DEF SInv, Working, WorkingTypes, TaskStates
  <1>4. Working'
    BY <1>1, <1>2, <1>3, WorkingKept DEF SInv, LoopFree, Working, WorkingTypes
  <1>5. Waiting'
    BY <1>1, WaitingKept DEF SInv, Working, WorkingTypes, tasksVars
  <1>6. unheard' \subseteq Listeners
    BY ToSetContains DEF Join, FilterRaises, SInv, Listening
  <1>7. << >> \in Seq(Listeners) /\ \A x : ~Contains(<< >>, x)
    BY DEF Contains
  <1>8. Listening'
    BY <1>1, <1>2, <1>6, <1>7 DEF SInv, Listening, listVars, tasksVars
  <1>9. QED
    BY <1>4, <1>5, <1>8 DEF SInv

\* The task of a new stream ends the quiet, unless the handle has stopped.
LEMMA TasksListenerHolds ==
  ASSUME SInv, TasksListener
  PROVE  SInv'
  <1>1. /\ LoopFree /\ todo # << >> /\ Head(todo) = "tasks" /\ todo' = Tail(todo)
        /\ serving' = serving
        /\ AddTasks({adding})
        /\ UNCHANGED << listVars, present, adding, tries, waiter, watched, finder, unheard >>
    BY DEF TasksListener, ListenerRuns, Rest
  <1>2. /\ Tail(todo) \in Seq(Listeners)
        /\ \A x : Contains(todo, x) <=> x = "tasks" \/ Contains(Tail(todo), x)
    BY <1>1, TailContains DEF SInv, Listening
  <1>3. state # "none" /\ adding \in StreamIds
    BY <1>1, <1>2 DEF SInv, Listening
  <1>4. state' # "none" => Listening'
    BY <1>1, <1>2, <1>3 DEF SInv, Listening, listVars
  <1>5. CASE state \in Stopped
    <2>1. /\ UNCHANGED tasksVars
          /\ task' = [s \in StreamIds |-> IF s \in {adding} THEN "cancelled" ELSE task[s]]
      BY <1>1, <1>5 DEF AddTasks
    <2>2. /\ task' \in [StreamIds -> TaskStates]
          /\ \A x \in StreamIds : task'[x] = "running" => task[x] = "running"
      BY <2>1 DEF SInv, Working, WorkingTypes, TaskStates
    <2>3. Working'
      BY <1>1, <2>1, <2>2, WorkingKept DEF SInv, LoopFree, Working, WorkingTypes
    <2>4. QED
      BY <1>1, <1>3, <1>4, <2>1, <2>3, WaitingKept DEF SInv, Working, WorkingTypes, tasksVars
  <1>6. CASE state \notin Stopped
    <2>1. /\ task' = [s \in StreamIds |-> IF s \in {adding} THEN "running" ELSE task[s]]
          /\ active' = active \cup {adding}
          /\ \/ /\ active = {} /\ state' = "running" /\ working' = "pending"
                /\ timers' = TimerCancelled
             \/ active # {} /\ UNCHANGED << state, working, timers >>
      BY <1>1, <1>6 DEF AddTasks
    <2>2. active # {} => state = "running"
      BY <1>3, <1>6 DEF SInv, Working, WorkingTypes, Futures
    <2>3. /\ timers' \in Seq(TimerStates) /\ Len(timers') = Len(timers) /\ timers' # << >>
          /\ Current' = Current /\ timers'[Current] # "sleep" /\ state' = "running"
          /\ working' = "pending" /\ Len(timers) \in Nat
      <3>1. timers \in Seq(TimerStates) /\ timers # << >>
        BY <1>3 DEF SInv, Working, WorkingTypes, Futures
      <3>2. QED
        BY <1>1, <2>1, <2>2, <3>1, Cancelling DEF SInv, Working, Futures, Current, TimerStates
    <2>4. WorkingTypes'
      BY <1>1, <1>3, <2>1, <2>3 DEF SInv, Working, WorkingTypes, TaskStates
    <2>5. Futures' /\ Running'
      BY <1>1, <1>3, <2>1, <2>3 DEF SInv, Working, WorkingTypes, Futures, Running
    <2>6. Waiting'
      BY <1>1, <2>3, WaitingKept DEF SInv, Working, WorkingTypes
    <2>7. QED
      BY <1>4, <2>3, <2>4, <2>5, <2>6 DEF SInv, Working
  <1>7. QED
    BY <1>5, <1>6

\* The steps of wait_for_stream and of its listener.
LEMMA FinderHolds ==
  ASSUME SInv, NEW f \in Finders, FinderStep(f) \/ WaitForStream(f) \/ FinderTimesOut(f)
  PROVE  SInv'
  <1>1. LoopFree /\ UNCHANGED << present, adding, tasksVars, task, tries, waiter, watched,
                        unheard >>
    BY DEF FinderStep, FinderListener, FinderWakes, WaitForStream, FinderTimesOut
  <1>2. Working'
    BY <1>1, WorkingKept DEF SInv, LoopFree, Working, WorkingTypes
  <1>3. Waiting'
    BY <1>1, WaitingKept DEF SInv, Working, WorkingTypes, tasksVars
  <1>4. f \in Listeners /\ f # "tasks"
    BY ListenersAssumption, NamesAssumption
  <1>5. CASE FinderListener(f)
    <2>1. /\ todo # << >> /\ todo' = Tail(todo) /\ serving' = serving /\ RemoveEventListener(f)
          /\ finder' = [finder EXCEPT ![f] = IF @ = "waiting" THEN "found" ELSE @]
      BY <1>5 DEF FinderListener, ListenerRuns, Rest
    <2>2. /\ Tail(todo) \in Seq(Listeners)
          /\ \A x : Contains(Tail(todo), x) => Contains(todo, x)
      BY <2>1, TailContains DEF SInv, Listening
    <2>3. /\ finder' \in [Finders -> FinderStates]
          /\ \A x \in Finders : finder'[x] = "none" => finder[x] = "none"
      BY <2>1 DEF SInv, Listening, FinderStates
    <2>4. Listening'
      BY <1>1, <2>1, <2>2, <2>3, Removing DEF SInv, Listening, tasksVars
    <2>5. QED
      BY <1>2, <1>3, <2>4 DEF SInv
  <1>6. CASE WaitForStream(f)
    <2>1. finder[f] = "none" /\ UNCHANGED dispatchVars
      BY <1>6 DEF WaitForStream
    <2>2. \/ finder' = [finder EXCEPT ![f] = "returned"] /\ UNCHANGED listVars
          \/ finder' = [finder EXCEPT ![f] = "waiting"] /\ AddEventListener(f)
      BY <1>6 DEF WaitForStream
    <2>3. /\ finder' \in [Finders -> FinderStates] /\ finder'[f] # "none"
          /\ \A x \in Finders : x # f => finder'[x] = finder[x]
      BY <2>2 DEF SInv, Listening, FinderStates
    <2>4. CASE UNCHANGED listVars
      <3>1. Listening'
        BY <1>1, <2>1, <2>3, <2>4 DEF SInv, Listening, tasksVars, listVars, dispatchVars
      <3>2. QED
        BY <1>2, <1>3, <3>1 DEF SInv
    <2>5. CASE AddEventListener(f)
      <3>1. ~Contains(listeners, f)
        BY <2>1 DEF SInv, Listening
      <3>2. Listening'
        BY <1>1, <1>4, <2>1, <2>3, <2>5, <3>1, Adding DEF SInv, Listening, tasksVars, dispatchVars
      <3>3. QED
        BY <1>2, <1>3, <3>2 DEF SInv
    <2>6. QED
      BY <2>2, <2>4, <2>5
  <1>7. CASE FinderWakes(f) \/ FinderTimesOut(f)
    <2>1. /\ UNCHANGED << listVars, dispatchVars >>
          /\ \E x \in FinderStates \ {"none"} : finder' = [finder EXCEPT ![f] = x]
      BY <1>7 DEF FinderWakes, FinderTimesOut, FinderStates
    <2>2. Listening'
      BY <1>1, <2>1 DEF SInv, Listening, tasksVars, listVars, dispatchVars
    <2>3. QED
      BY <1>2, <1>3, <2>2 DEF SInv
  <1>8. QED
    BY <1>5, <1>6, <1>7 DEF FinderStep

\* Before consume_streams is called.
LEMMA SInit == Init => SInv
  <1> SUFFICES ASSUME Init PROVE SInv
    OBVIOUS
  <1>1. /\ << >> \in Seq(Listeners) /\ << >> \in Seq(TimerStates) /\ IsInjective(<< >>)
        /\ \A x : ~Contains(<< >>, x)
    BY DEF IsInjective, Contains
  <1>2. Listening
    BY <1>1 DEF Init, DispatcherInit, Listening, FinderStates
  <1>3. Working
    <2>1. Retries \in 0..Retries
      BY StreamsAssumption
    <2>2. WorkingTypes
      BY <1>1, <2>1 DEF Init, WorkingTypes, TaskStates
    <2>3. Futures /\ Running
      BY DEF Init, Futures, Running
    <2>4. QED
      BY <2>2, <2>3 DEF Working
  <1>4. Waiting
    BY DEF Init, Waiting, SpinsOnlyWhenCancelled, LoopFree, Current
  <1>5. QED
    BY <1>2, <1>3, <1>4 DEF SInv

\* Every step keeps the invariant.
LEMMA SStep == SInv /\ [Next]_vars => SInv'
  <1> SUFFICES ASSUME SInv, [Next]_vars PROVE SInv'
    OBVIOUS
  <1>1. CASE UNCHANGED vars
    <2>1. Listening'
      BY <1>1 DEF SInv, vars, Listening
    <2>2. Working'
      BY <1>1 DEF SInv, vars, Working, WorkingTypes, Futures, Running, LoopFree, Current
    <2>3. Waiting'
      BY <1>1 DEF SInv, vars, Waiting, SpinsOnlyWhenCancelled, LoopFree, Current
    <2>4. QED
      BY <2>1, <2>2, <2>3 DEF SInv
  <1>2. CASE ConsumeStreams \/ Renew \/ CloseHandle \/ SetException \/ Wait \/ Wake \/ CancelWait
    BY <1>2, ConsumeHolds, RenewHolds, CloseHandleHolds, ErrorHolds, WaitHolds
  <1>3. CASE \E i \in 1..Current : TimerFires(i)
    BY <1>3, TimerHolds
  <1>4. CASE \E s \in StreamIds : TaskStep(s) \/ CallbackRaises(s) \/ CallbackTimesOut(s)
    BY <1>4, DoneHolds, CallbackHolds DEF TaskStep
  <1>5. CASE (\E s \in StreamIds : StreamAdded(s) \/ StreamRemoved(s)) \/ Clean \/ StreamAddedEnds
    BY <1>5, StreamHolds
  <1>6. CASE TasksListener
    BY <1>6, TasksListenerHolds
  <1>7. CASE \E f \in Finders : FinderStep(f) \/ WaitForStream(f) \/ FinderTimesOut(f)
    BY <1>7, FinderHolds
  <1>8. CASE (\E S \in SUBSET StreamIds : Join(S)) \/ \E f \in Finders : FilterRaises(f)
    BY <1>8, PassedHolds
  <1>9. QED
    BY <1>1, <1>2, <1>3, <1>4, <1>5, <1>6, <1>7, <1>8 DEF Next, DispatchStep

\* The map of listeners, the tasks, futures and timers of consume_streams keep
\* their types; a handle that waits on a timer waits on one that was started.
THEOREM StreamsTypes == Spec => []TypeOK
  BY Covered, SInit, SStep, PTL DEF Spec

\* add_task, _on_task_done, _do_timeout: the state, the tasks and the futures
\* of a handle agree, whatever ends it; no task runs that it has dropped.
THEOREM StatesAgree == Spec => []StateAgrees
  BY Covered, SInit, SStep, PTL DEF Spec

\* wait() goes round its loop without suspending only when it was cancelled, or
\* was given no time.
THEOREM SpinsWhenCancelled == Spec => []SpinsOnlyWhenCancelled
  BY Covered, SInit, SStep, PTL DEF Spec

-----------------------------------------------------------------------------
(* The listeners                                                           *)

\* The steps that add a listener, remove one, or put a list back.
LEMMA ListChanges ==
  ASSUME SInv, [Next]_vars
  PROVE  \/ UNCHANGED listVars
         \/ ConsumeStreams
         \/ /\ RemoveEventListener("tasks")
            /\ state' = "closed"
            /\ UNCHANGED << dispatchVars, present, finder >>
         \/ \E f \in Finders : FinderListener(f) \/ WaitForStream(f)
         \/ StreamAddedEnds
  <1>1. CASE UNCHANGED vars
    BY <1>1 DEF vars, listVars
  <1>2. CASE Wait \/ Wake \/ CloseHandle
    <2>1. (\E place : GoesTo(place)) \/ CloseHandle
      BY <1>2 DEF Wait, Wake
    <2>2. \/ UNCHANGED listVars
          \/ CloseTasks /\ UNCHANGED << dispatchVars, present, finder >>
      BY <2>1 DEF GoesTo, CloseHandle
    <2>3. QED
      BY <2>2 DEF CloseTasks
  <1>3. CASE \/ Renew \/ SetException \/ CancelWait \/ TasksListener \/ Clean
             \/ \E i \in 1..Current : TimerFires(i)
             \/ \E s \in StreamIds : \/ TaskStep(s) \/ CallbackRaises(s) \/ CallbackTimesOut(s)
                                     \/ StreamAdded(s) \/ StreamRemoved(s)
             \/ \E f \in Finders : FinderWakes(f) \/ FinderTimesOut(f) \/ FilterRaises(f)
             \/ \E S \in SUBSET StreamIds : Join(S)
    <2>1. UNCHANGED listVars
      BY <1>3 DEF Renew, SetException, CancelWait, TasksListener, Clean, Join, FilterRaises,
                  TimerFires, TaskStep, OnTaskDone, CallbackReturns, TaskRaises, CallbackRaises, CallbackTimesOut,
                  StreamAdded, DispatchBegins, StreamRemoved, FinderWakes, FinderTimesOut
    <2>2. QED
      BY <2>1
  <1>4. QED
    BY <1>1, <1>2, <1>3 DEF Next, DispatchStep, FinderStep

\* No step takes a listener that is wanted out of the list.
LEMMA StayStep ==
  ASSUME SInv, [Next]_vars
  PROVE  \A l \in Listeners : Listed(l) /\ ~Listed(l)' => ~Wants(l)' \/ detached
  <1>1. CASE UNCHANGED listVars
    BY <1>1 DEF listVars, Listed
  <1>2. CASE ConsumeStreams
    <2>1. "tasks" \in Listeners /\ ~Contains(listeners, "tasks") /\ AddEventListener("tasks")
      BY <1>2, ListenersAssumption DEF ConsumeStreams, SInv, Listening
    <2>2. QED
      BY <2>1, Adding DEF SInv, Listed
  <1>3. CASE RemoveEventListener("tasks") /\ state' = "closed"
    BY <1>3, Removing DEF SInv, Listed, Wants
  <1>4. ASSUME NEW f \in Finders, FinderListener(f)
        PROVE  \A l \in Listeners : Listed(l) /\ ~Listed(l)' => ~Wants(l)'
    <2>1. RemoveEventListener(f) /\ finder'[f] # "waiting" /\ f # "tasks"
      BY <1>4, NamesAssumption DEF FinderListener, SInv, Listening
    <2>2. QED
      BY <2>1, Removing DEF SInv, Listed, Wants
  <1>5. ASSUME NEW f \in Finders, WaitForStream(f)
        PROVE  \A l : Listed(l) => Listed(l)'
    <2>1. f \in Listeners /\ ~Contains(listeners, f)
      BY <1>5, ListenersAssumption DEF WaitForStream, SInv, Listening
    <2>2. UNCHANGED listVars \/ AddEventListener(f)
      BY <1>5 DEF WaitForStream
    <2>3. QED
      BY <2>1, <2>2, Adding DEF SInv, Listed, listVars
  <1>6. CASE StreamAddedEnds
    BY <1>6 DEF StreamAddedEnds, DispatchEnds, Listed
  <1>7. QED
    BY <1>1, <1>2, <1>3, <1>4, <1>5, <1>6, ListChanges

\* removeEventListener, dispatchEventAwaitable: a listener stays in the list
\* until its owner gives it up, or the list it is in is put back.
THEOREM ListenersKept == Spec => ListenersStay
  <1>1. SInv /\ [Next]_vars =>
          [\A l \in Listeners : Listed(l) /\ ~Listed(l)' => ~Wants(l)' \/ detached]_vars
    BY StayStep
  <1>2. QED
    BY <1>1, SInit, SStep, PTL DEF Spec, ListenersStay

\* The streams, the dispatch and the callers of wait_for_stream.
LEMMA MissedChanges ==
  ASSUME SInv, [Next]_vars
  PROVE  \/ UNCHANGED << finder, todo, unheard >> /\ present' \subseteq present
         \/ UNCHANGED << finder, listeners >> /\ unheard' = unheard \cup ToSet(listeners)
         \/ /\ UNCHANGED << finder, listeners, present >>
            /\ unheard' = unheard \cup ToSet(todo) /\ todo' = << >>
         \/ \E s \in StreamIds : StreamAdded(s)
         \/ TasksListener
         \/ \E f \in Finders : FinderStep(f) \/ WaitForStream(f) \/ FinderTimesOut(f)
  <1>1. CASE UNCHANGED vars
    BY <1>1 DEF vars
  <1>2. CASE Wait \/ Wake \/ CloseHandle
    <2>1. (\E place : GoesTo(place)) \/ CloseHandle
      BY <1>2 DEF Wait, Wake
    <2>2. QED
      BY <2>1 DEF GoesTo, CloseHandle, dispatchVars
  <1>3. CASE \/ ConsumeStreams \/ Renew \/ SetException \/ CancelWait \/ StreamAddedEnds \/ Clean
             \/ \E i \in 1..Current : TimerFires(i)
             \/ \E s \in StreamIds : \/ TaskStep(s) \/ CallbackRaises(s) \/ CallbackTimesOut(s)
                                     \/ StreamRemoved(s)
    BY <1>3 DEF ConsumeStreams, Renew, SetException, CancelWait, StreamAddedEnds, DispatchEnds,
                Clean, TimerFires, TaskStep, OnTaskDone, CallbackReturns, TaskRaises, CallbackRaises,
                CallbackTimesOut, StreamRemoved, dispatchVars
  <1>4. CASE (\E S \in SUBSET StreamIds : Join(S)) \/ \E f \in Finders : FilterRaises(f)
    BY <1>4 DEF Join, FilterRaises, ListenerRaises, listVars
  <1>5. QED
    BY <1>1, <1>2, <1>3, <1>4 DEF Next, DispatchStep

\* The listener of a caller who waits is among those of the event being dispatched,
\* or among those it has passed over.
LEMMA MissesStep ==
  ASSUME SInv, NoneMissesStream, [Next]_vars
  PROVE  NoneMissesStream'
  <1> SUFFICES ASSUME NEW f \in Finders, finder'[f] = "waiting", Contains(listeners', f),
                      present' # {}
               PROVE  Contains(todo', f) \/ f \in unheard'
    BY DEF NoneMissesStream, Listed
  <1>1. f # "tasks"
    BY NamesAssumption
  <1>2. ASSUME Contains(listeners, f), finder[f] = "waiting", present # {}
        PROVE  Contains(todo, f) \/ f \in unheard
    BY <1>2 DEF NoneMissesStream, Listed
  <1>3. Contains(listeners, f) \/ \E g \in Finders : WaitForStream(g)
    <2>1. CASE ConsumeStreams
      <3>1. "tasks" \in Listeners /\ ~Contains(listeners, "tasks") /\ AddEventListener("tasks")
        BY <2>1, ListenersAssumption DEF ConsumeStreams, SInv, Listening
      <3>2. QED
        BY <1>1, <3>1, Adding DEF SInv
    <2>2. CASE RemoveEventListener("tasks")
      BY <2>2, Removing DEF SInv
    <2>3. ASSUME NEW g \in Finders, FinderListener(g)
          PROVE  Contains(listeners, f)
      BY <2>3, Removing DEF SInv, FinderListener
    <2>4. CASE StreamAddedEnds
      <3>1. listeners' \in {<< >>, listeners} /\ ~Contains(<< >>, f)
        BY <2>4 DEF StreamAddedEnds, DispatchEnds, Contains
      <3>2. QED
        BY <3>1
    <2>5. QED
      BY <2>1, <2>2, <2>3, <2>4, ListChanges DEF listVars
  <1>4. CASE UNCHANGED << finder, todo, unheard >> /\ present' \subseteq present
    <2>1. ~\E g \in Finders : WaitForStream(g)
      <3>1. ASSUME NEW g \in Finders, WaitForStream(g)
            PROVE  finder' # finder
        BY <3>1 DEF WaitForStream, SInv, Listening
      <3>2. QED
        BY <1>4, <3>1
    <2>2. QED
      BY <1>2, <1>3, <1>4, <2>1
  <1>5. CASE \E s \in StreamIds : StreamAdded(s)
    BY <1>5 DEF StreamAdded, DispatchBegins, listVars
  <1>6. CASE TasksListener
    <2>1. /\ todo # << >> /\ Head(todo) = "tasks" /\ todo' = Tail(todo)
          /\ UNCHANGED << listeners, present, finder, unheard >>
      BY <1>6 DEF TasksListener, ListenerRuns, Rest, listVars
    <2>2. Contains(todo, f) => Contains(Tail(todo), f)
      BY <1>1, <2>1, TailContains DEF SInv, Listening
    <2>3. QED
      BY <1>2, <2>1, <2>2
  <1>7. ASSUME NEW g \in Finders, FinderStep(g) \/ WaitForStream(g) \/ FinderTimesOut(g)
        PROVE  Contains(todo', f) \/ f \in unheard'
    <2>1. finder \in [Finders -> FinderStates] /\ present' = present /\ unheard' = unheard
      BY <1>7 DEF SInv, Listening, FinderStep, FinderListener, FinderWakes, WaitForStream,
         FinderTimesOut
    <2>2. CASE WaitForStream(g)
      <3>1. present # {} => /\ finder' = [finder EXCEPT ![g] = "returned"]
                            /\ UNCHANGED << listVars, dispatchVars >>
        BY <2>2 DEF WaitForStream
      <3>2. QED
        BY <1>2, <2>1, <3>1 DEF listVars, dispatchVars
    <2>3. CASE FinderWakes(g) \/ FinderTimesOut(g)
      <3>1. /\ UNCHANGED << listVars, dispatchVars >>
            /\ \E x \in FinderStates \ {"waiting"} : finder' = [finder EXCEPT ![g] = x]
        BY <2>3 DEF FinderWakes, FinderTimesOut, FinderStates
      <3>2. QED
        BY <1>2, <2>1, <3>1 DEF listVars, dispatchVars
    <2>4. CASE FinderListener(g)
      <3>1. /\ todo # << >> /\ Head(todo) = g /\ todo' = Tail(todo) /\ RemoveEventListener(g)
            /\ finder' = [finder EXCEPT ![g] = IF @ = "waiting" THEN "found" ELSE @]
        BY <2>4 DEF FinderListener, ListenerRuns, Rest
      <3>2. g # f /\ finder[f] = "waiting"
        BY <2>1, <3>1
      <3>3. Contains(listeners, f)
        BY <3>1, Removing DEF SInv
      <3>4. Contains(todo, f) => Contains(Tail(todo), f)
        BY <3>1, <3>2, TailContains DEF SInv, Listening
      <3>5. QED
        BY <1>2, <2>1, <3>1, <3>2, <3>3, <3>4
    <2>5. QED
      BY <1>7, <2>2, <2>3, <2>4 DEF FinderStep
  <1>8. CASE UNCHANGED << finder, listeners >> /\ unheard' = unheard \cup ToSet(listeners)
    BY <1>8, ToSetContains DEF SInv, Listening
  <1>9. CASE /\ UNCHANGED << finder, listeners, present >>
             /\ unheard' = unheard \cup ToSet(todo) /\ todo' = << >>
    BY <1>2, <1>9, ToSetContains DEF SInv, Listening
  <1>10. QED
    BY <1>4, <1>5, <1>6, <1>7, <1>8, <1>9, MissedChanges

\* wait_for_stream: a caller whose listener is in the list is told of a stream
\* that is there, however many listeners of its event remove themselves, unless
\* one of them has raised since, or a join has found the stream.
THEOREM NoneMisses == Spec => []NoneMissesStream
  <1>1. Init => NoneMissesStream
    BY DEF Init, NoneMissesStream
  <1>2. QED
    BY <1>1, SInit, SStep, MissesStep, PTL DEF Spec
=============================================================================
