------------------------------ MODULE Dispatcher ------------------------------
(***************************************************************************)
(* EventDispatcher (common.py): the list of listeners of one type of       *)
(* event, and the dispatch that holds the dispatcher's lock.  The dispatch *)
(* reads the list, runs the listeners it read, each in a task of its own,  *)
(* and then writes the list it read back into the map.  Listeners add and  *)
(* remove themselves and others meanwhile, in the list that is in the map: *)
(* another one once the list has been emptied, for it is deleted then.     *)
(*                                                                         *)
(* Nothing in src/ adds a listener with once or without seq: both are left *)
(* out.  The operators are parts of the actions of a component that has a  *)
(* dispatcher.                                                             *)
(***************************************************************************)
EXTENDS Naturals, Sequences, SequencesExt

CONSTANT Listeners

VARIABLES
  listeners,  \* listeners_map[type]
  serving,    \* a dispatch holds the lock
  todo,       \* the listeners it has still to run
  detached    \* the list it read is in the map no more

listVars == << listeners, detached >>
dispatchVars == << serving, todo >>

DispatcherTypeOK ==
  /\ listeners \in Seq(Listeners) /\ todo \in Seq(Listeners)
  /\ serving \in BOOLEAN /\ detached \in BOOLEAN

DispatcherInit ==
  /\ listeners = << >> /\ detached = FALSE
  /\ serving = FALSE /\ todo = << >>

Listed(l) == Contains(listeners, l)

AddEventListener(l) ==
  /\ listeners' = Append(listeners, l)
  /\ UNCHANGED detached

\* The list of a dispatch leaves the map with its last listener.
WithoutFirst(l) == IF listeners = << >> THEN << >> ELSE Tail(listeners)
WithoutListener(l) == RemoveFirst(listeners, l)

RemoveEventListener(l) ==
  /\ listeners' = WithoutListener(l)
  /\ detached' = (detached \/ (serving /\ Listed(l) /\ Len(listeners) = 1))

\* dispatchEventAwaitable, up to its first await; without a listener it is over.
DispatchBegins ==
  /\ ~serving
  /\ serving' = (listeners # << >>)
  /\ todo' = listeners
  /\ UNCHANGED listVars

\* The next listener runs.
RestOfLiveList == IF Len(todo) > 1 THEN Tail(Tail(todo)) ELSE << >>
Rest == Tail(todo)

ListenerRuns(l) ==
  /\ todo # << >> /\ l = Head(todo)
  /\ todo' = Rest
  /\ UNCHANGED serving

\* It raises: the listeners behind it are passed over.
ListenerRaises(l) ==
  /\ todo # << >> /\ l = Head(todo)
  /\ todo' = << >>
  /\ UNCHANGED serving

\* The list that was read is written back, with the listeners that were added
\* to it meanwhile; listeners that were added to another one are lost.  What a
\* listener has raised is raised then, to who dispatches the event.
DispatchEnds ==
  /\ serving /\ todo = << >>
  /\ serving' = FALSE
  /\ listeners' = IF detached THEN << >> ELSE listeners
  /\ detached' = FALSE
  /\ UNCHANGED todo
=============================================================================
