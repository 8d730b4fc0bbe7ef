# A verification project for pyowt

pyowt is a Python client of an OWT conference server. It runs on one asyncio
event loop; nothing is persisted and no thread is started by its own code. What
makes it hard is that nearly every operation is a coroutine that awaits the
server, the peer connection or a listener in its middle, while other coroutines
work on the same dictionaries, futures and locks.

All paths below are relative to `src/`; line numbers are those of the sources.

## Inventory

| Component | Source | State | Operations | Hard parts |
|---|---|---|---|---|
| AsyncExceptionCollector | owt/utils.py:86-322 | a two-group lock (two counters, two waiter futures), listeners, outcome future, pending exceptions | add_exception, add_listener, remove_listener, complete, error, cancel, wait_until_error | awaits under a hand-made lock; list iterated across awaits |
| OwtChannel | owt/channel.py | negotiation futures, transceiver, promise and session dictionaries, id map, peer connection | publish, subscribe, stop, onMessage (soac, ready, error), peer callbacks, close | calls that share a connection, undo runs that overlap, messages during close |
| SioSignaling | owt/signaling.py | socket, gate future (`_ready_future`), `_lock`, ticket | connect, send and its wrappers, disconnect, link lost / back | outages, relogin, several ends of one session |
| ConferenceClient | owt/client.py | joined flag, `__ready_lock`, signalingState, channels, streams, participants | join, leave, publish, subscribe, consume_streams, wait_for_stream, message routing | ends of a session started by anybody; waiting for quiet |
| EventDispatcher | owt/common.py:75-150 | listener lists, a FIFO lock held until the listeners return | add/remove listener, dispatch | listeners that add listeners, or wait for another dispatch |
| Postponer | owt/utils.py:556-674 | a chain of postponed calls | postpone, decorated methods | calls during the postponement |
| QuicChannel | owt/quic.py | connection, promises, streams and subscriptions by id | init, publish, subscribe, bind, close | answer against data stream, close against both |
| ListenerWrapper | owt/utils.py:325-521 | none | picks the way to call a listener | signatures |
| SDP, settings, records | owt/sdputils.py, stream.py, codec.py, webrtc.py, ... | none | conversions | text editing |

How they interact: `ConferenceClient.join` makes the signaling connect; every
message of the socket becomes a `data` event, handled to its end under the
dispatcher's lock (so one message at a time), and routed to the channel by the
transport id. A channel asks the server through the signaling (`ready()`, then
`send()`). Every handler runs inside `collector.collect()`: what it raises goes
to the collector's listeners, of which `SioSignaling` adds one that disconnects.
`disconnect()` dispatches an event on which the client leaves; `leave()` closes
the channels and disconnects. A session's `ended` event closes its channel.

What makes each component correct, in a sentence: the collector's groups exclude
each other and no exception is forgotten; a channel negotiates one call at a
time, tells every caller, announces each end once and asks the server to end
the session of every call that failed; the session opens its gate only to a link
that is logged in, and whoever ends it gets to the end of it and leaves the client
free to join again; the client's tables lead every message to its channel, agree
with the room, and `leave()` closes every session; `wait()` agrees with the
callbacks it waits for, and returns.
Where the code falls short of this is said with the runs, among the exceptions and
the divergences.
`PROJECT.json` lists the hazards at their lines with the properties about them.

## Modules

| Module | Models | Environment |
|---|---|---|
| `Collector` | AsyncExceptionCollector | callers, listeners |
| `ExceptionSink` | what AsyncExceptionCollector promises: the abstract specification that `Collector` implements | |
| `CollectorProofs` | theorems about `Collector`: its lock, its outcome and the refinement | |
| `Signatures` | AsyncExceptionCollectorListenerWrapper | Python's binding of arguments |
| `Channel` | OwtChannel, and what Postponer does for it | the OWT server, the peer connection, the caller |
| `ChannelProofs` | theorems about `Channel`: its safety properties | |
| `Session` | SioSignaling under join and leave | python-socketio, the portal |
| `SessionProofs` | theorems about `Session`: its safety properties | |
| `Client` | ConferenceClient's tables: members, channels; publish, subscribe, leave, and the dispatch of messages | the OWT server, users' listeners |
| `ClientProofs` | theorems about `Client`: its safety properties | |
| `Dispatcher` | EventDispatcher: the list of listeners and a dispatch | |
| `Streams` | remoteStreams, consume_streams, wait_for_stream, as listeners of a `Dispatcher` | the server, users' callbacks |
| `StreamsProofs` | theorems about `Streams`: its safety properties, and that listeners stay | |
| `Quic` | QuicChannel | the OWT server, the data streams |
| `QuicProofs` | theorems about `Quic`: its safety properties | |
| `ListLemmas` | lemmas about lists: append, pop, list.remove, comprehensions, nested loops that append | |
| `Sdp` | sdputils under OwtChannel's loops over its transceivers | aiortc's offer |
| `AlgorithmProofs` | theorems about `Signatures` and `Sdp`: what is admitted can be called; what the edits leave of an offer | |
| `MC*` | one `.cfg` per run; symmetry sets where a run uses them | |

In the modules of coroutines an action is the code between two suspensions of one.
Two facts of asyncio matter: awaiting a future that is done, or a lock that is
free, does not suspend; and asyncio locks are FIFO. So where the code says
`async with lock:` the models either go on in the same step or queue up.

`Channel`, `Session`, `Client`, `Quic` and `Streams` look at one program at different
depths, each taking from the others what it does not model itself. `Client`
takes a channel to be up, closing, and then ended or aborted (`Channel`: `close()`
runs once, and gets to its end or is broken off), and the join to be one step
(`Session` has what happens within it). `Session` counts all channels as
one. They are not composed into a single state machine: `Channel` alone has millions
of states. What is taken is stated
as a property of the module it is taken from (`CloseEnds`, `PortalFree`). `Sdp`
is what `Channel` calls an offer, `Signatures` what `Collector` calls a listener
that can be called; `Streams` extends `Dispatcher`.

### Collector

`lk` holds the four attributes of the lock; `pc[c]` is where call c is
suspended, or how it ended (the exception types are kept apart because the
lock raises them). `hold` is a history variable: which counter the call has
incremented. `lock_exceptions` continues, after it was woken, as
`lock_listeners` (utils.py:175), so `EnterByListeners` is an alternative of an
exception call. A `Release` may fail in three ways; the model keeps the counter
exactly where the code leaves it. The listener's answer is a choice. The calls of a
group wait on one future, which they share: `Cancelled` cancels one of them, and
with it the future and all who wait on it. `Malformed` are the listeners whose
signature the wrapper refuses, after the lock was taken.

`ExceptionSink` says what is left of all this for a user: nobody is inside with
one group while somebody is with the other, the outcome is settled once, each
exception is filed once (consumed, the outcome, or kept), and nothing else
happens. The refinement mapping takes `hold` for the group a call is in, `future`
for the outcome and the pending exceptions without the listeners' own for what
is kept. A call that leaked its counter stays in its group for ever.

### Channel

A call is its own internal id and session id. `chain[o]` is the future of the
call in the negotiation queue; `Follows` and `ResolveSet` are the two chained
futures of `_chainSdpPromise`. `_unpublish` and `_unsubscribe` are one
definition; `un[o][w]` is the run of it that w started: the call's except
clause, the user's `stop()`, the error handler, `close()`. `handler` is the
`onMessage` in progress; `postponed` is the Postponer: a `close()` called
meanwhile runs, but the end of `onMessage` waits for it. `queue` is the sessions of
the dictionary that `close()` is at; in which order it stops them, the order in
which they became sessions, is left open. `refused` and `broken` are history
variables, for the two ways in which an undo run fails: the server is not told
(the error is logged, and the run takes the registration away all the same), or
the request ends in a CancelledError (`UndoBroken`: the run stops where it is, and a
`close()` that awaits it ends there, "aborted"). `NegotiationSerialized` speaks of the
time before a turn is lost (`TurnsLost`): a call that timed out, was cancelled, or
was failed by the server gives its turn away, and may still be preparing, or have
its answer under way, when the next call has it. ConferenceClient makes
one channel for each call, so the part of run `channel_calls` with one call is
the deployed use; the class allows several calls, which the rest of that run and
`channel_two` exercise.

### Session

`at[t]` is where task t is suspended: requests, `leave`, `join`, and the tasks
that the socket starts (`drop`, `handler`, `relogin`, `lost`). `line` is `_lock`
and `door` is `__ready_lock`, each the sequence of holder and waiters. `gate` is
`_ready_future`. Sockets are numbered, because one that was given up while it
was down reconnects later and speaks for the session in use. `LoseLink` is what
python-socketio does to acknowledgements under way: it forgets them. All
channels are one (`open`), whose `close()` is one unpublish: what it raises, also at
a gate that was cancelled, `close()` swallows (channel.py:679), and the leave goes
on to disconnect. The refusal of a gate is swallowed by `_unpublish` before that.

`teller` is the task whose 'disconnect' event is being dispatched. The listener
of that event leaves, and its own `disconnect()` may dispatch again; the
dispatcher's lock makes everybody else who dispatches wait ('connected',
'reconnected', another 'disconnect'). `LockRests` says that a task which was
just handed `_lock` runs before a socket finishes closing: the first is the next
turn of the event loop, the second takes the network.

`refresh` is the task of `_onReconnectionTicket`: it sleeps, asks on the socket
in use by then, and its answer starts the next one. A login, a relogin and an
answered refresh cancel the one there was (`NewTicket`); `disconnect()` cancels
it too, but only if the socket is connected (signaling.py:223). The refresh does
not wait at the gate, as requests do.

### Client

`table` is the channel dictionary in its order, `members` the participants and
remote streams, `roster` who is really there. `queue` is the event being
dispatched by the signaling and the ones waiting for the dispatcher's lock, in
their order; `run` is how far the first one is: its listeners run (`on`), wait
for a postponed close, or are leaving. `chan` is how far the `close()` of each
channel is; one that a `stop()` broke off (`CloseBreaks`) is "aborted": its session is
still up, its key is still in the table, and another `close()` returns at once.
`leave` and `rest` are the `_try_leave` in progress and the channels it has still to
close; between the clearing of the table and the disconnect it closes the QUIC
channel (`cleared`). `ending` has the sessions
whose socket was given up and whose 'disconnect' is still to be told, which may
happen after the next join. A call that raises is one that goes no further: its
channel stays where it was. `size` is the size of the table when the loop over
an update began (client.py:220): another size at the end is the RuntimeError
that ends the session.

### Quic

A call is its own id. `subPromises`, `subStreams`, `subscriptions` and
`publications` are the four dictionaries; `future[s]` and `stream[s]` the promise
and the data stream of a subscription. A stream is `opened` by the server at any
time after it got the request, and bound by `bind_subscription` in a task of its
own, before or after the answer. `server[c]` says whether the end of a session was
asked for, and how: `RequestEnd` is a request that the server takes ("told"), or that
fails in the gate, on the way, by a nack or by being cancelled, which is logged and
never repeated ("refused"). `close()` goes through the lists it made when it
began (`rest`), so its steps meet calls that fail, owners that stop and streams
that are bound. `owed` is a history variable: what was in the tables then.

### Dispatcher

`listeners` is the list in the map, `todo` what a dispatch that runs has still to
call. A list that becomes empty leaves the map (common.py:104) and the dispatch
that read it puts it back at its end (135): `detached` says that this will
happen. A listener that raises ends the loop over the rest (`ListenerRaises`); what
it raised goes to whoever dispatched, after the list was put back. Only one
dispatch runs at a time.

### Streams

`state`, `active` (Tasks.tasks), `working` and `timers` are the attributes of
Tasks; every timer ever started is kept because `_do_timeout` looks at the
state only, not at whether it is still in use. `Turn` is one way round the loop
of `wait()`, with every `await` that does not suspend; a loop without any is the
value "spinning", after which nothing else runs. The dispatch of 'streamadded' is
`Dispatcher`'s, with the listener of the handle and one for each call of
`wait_for_stream`; `adding` is the stream the event is about. Two things pass a
listener over: the filter of one that comes before it raises (`FilterRaises`), and a
`Join`, which puts the streams of the room into `remoteStreams` and fires nothing.
`unheard` has the listeners that the last event, or a join since, has passed over.

### Sdp

The text is a sequence of lines, and a line a record of what the code looks for
in it: its key, payload, codec, the payload it repairs (`apt`), a rate. The edits
are the same cuts and concatenations as in the code, with its `-1` for the end of
the last section, which spares the last line only because the text ends with an
empty one. `Edits` is the sequence of calls of `reorderCodecs` and `setCodecParam`
that the options lead to for each transceiver; a step is one of these calls, or
the turn to the next transceiver. `Edit` changes the text for a publish only: a
subscribe assigns each of its edits to the `sdp` of an object that
`pc.localDescription` has just made and that nobody keeps (channel.py:345), and sends
the text as it was. All of it runs without a suspension: the steps
are as small as they are because a later call cuts the text that an earlier one
has put together. A rate of 0 and a codec "none" stand for the code's `None`.

Three assumptions say what texts and options there are. `LayoutsAssumption`: a
connection has audio and video sections. `MediaAssumption`: what aiortc offers
numbers each payload once, gives a payload at most one that repairs it, and that
one an fmtp line, which names what it repairs. `WishesAssumption`: options are
made of the enumerations of constants.py, in which no codec is both an audio and a
video codec, and nobody asks for the codec of the repairing payloads (rtx).

### Signatures

A step of the machine is one parameter of the listener, chosen among all the
ones Python allows to follow; the variables are the attributes of the wrapper,
the two parameters' names folded into how each argument is passed (by position,
by a name, not at all). `Landed` is what Python then makes of the call.

## Runs

Deadlock checking is off everywhere: every part stops in the end, and two of
the counterexamples are about exactly that.

| Run | Bounds | Shows |
|---|---|---|
| `collector` | 3 exceptions, 2 registrations, 3 listeners of which the wrapper refuses one, 1 watcher, cancelled waiters, symmetric | the groups exclude each other, nobody is added during a notification, no exception is lost, and `ExceptionSink` is implemented. Three exceptions: one inside, one waiting, one coming in between |
| `channel_calls` | one call with all faults but the session error and both peer callbacks (2 tracks, inbox 2), or a publish and a subscribe of 2 tracks with timeout, cancel, refusal, conflict, bad and short answers, and undo runs whose request is refused or breaks off | calls negotiate one after the other, a failed call takes its session back unless its request to do so failed; with fairness: calls end unless they wait for the last track of a session, `close()` ends |
| `channel_two` | publish and subscribe, 2 tracks; cancel, session error, bad and short answers, undo runs that break off, close | safety of a shared channel: dictionaries agree, an end is announced once, no caller is forgotten but one whose subscription was ended short of tracks |
| `session` | 2 joins, 2 requests (one of them a text), a ticket refresh, all faults | a join never finds an old portal, a joined client is never left without one, no request on a link that is not logged in, the ticket is being refreshed; with fairness: every leave that was called, and whoever else ends a joined session, gets to the end |
| `session_leave` | 1 join, 1 request, outage | finding 1 |
| `session_rejoin` | 2 joins, 1 request, outage | finding 2 |
| `client` | 2 calls, 1 member, 2 joins, 1 message waiting; mute, drop, a listener that leaves, a `close()` that breaks off | the tables: every session is reachable, leave calls `close()` on them all, nobody is missing; with fairness: `leave()` ends |
| `client_leave` | 1 call, 1 member, 1 join, a listener that leaves | finding 3 |
| `streams` | 2 streams, 2 calls of wait_for_stream, 1 retry, 2 timers, every use | no callback runs unseen, `wait()` agrees with the callbacks, spins only when cancelled, no listener is lost but in one case, no stream goes unnoticed unless a filter raises or a join finds it; with fairness: `wait()` ends |
| `quic` | 1 publication, 2 subscriptions, every fault | nothing stopped comes back, `close()` asks for the end of all there was, a failed call for the end of its session, no waiting caller is forgotten; with fairness: a subscriber gets its stream or fails |
| `sdp` | up to 3 sections, two audio and six video payloads of aiortc, up to 2 preferences | the edit of one section leaves the others alone, sections stay whole after every edit, what publish sends follows preferences and rates |
| `signatures` | up to 3 parameters, every kind, name, annotation and default | a listener that is admitted can be called, each argument lands where its name and annotation want it |

Bounds in the guards: `MaxInbox` and `MaxQueue` (messages received and not
handled; the server waits), `MaxJoins`, `MaxTimers` (bounds `Renew` only), and
one relogin at a time in `Session`. Two calls are enough for every pair that can
meet in the code's dictionaries; the negotiation queue is first in first out, so
a third call meets nothing a second does not. Two joins are enough for what one
session can leave to the next. Three sections have a first, a middle and a last,
and a section before and after the one that is edited; three parameters have an
exception, a collector and one that takes what is left.

Four runs leave out combinations that only multiply their states; no step that
they leave out is a fair one, so liveness is not helped by it:

* `MCChannel`: the connection is closed or fails from outside only when one call
  is made on it. `channel_two` has `close()` with two calls, without fairness;
  `ChannelProofs` proves the safety properties with nothing left out.
* `MCSession`: a ticket is refreshed by request while no other request is under
  way, and such a refresh begins on the first socket while nobody ends its session.
  What happens between it and its answer is not restricted.
* `MCStreams`: `wait_for_stream` and `wait()` are not used at once; while a
  stream is waited for, the handle is not renewed and its callbacks do not fail.
  A filter raises, or a join finds streams that have not come yet, only while a
  caller of `wait_for_stream` waits and the handle has not ended; the handle is then
  not closed until the next stream has come.
* `MCClient`: the calls, which are alike, begin in one order; the second session has
  one call of its own and no updates; one `close()` breaks off, in the first session,
  and then the second has no call. (Where a `close()` may not break off it ends, which is
  what is fair.)

Exceptions that the properties name, because the code has them. Each is in the
list of divergences below.

* `NoneJoinsDuringNotification` speaks of exceptions that hold the exceptions'
  counter; during one that holds the listeners', after it was woken, listeners are
  added. `NoExceptionLost` is about exceptions that got into the lock: one that ended
  in it was never offered.
* `FailedCallsLeaveNothing` excepts an undo run whose request the server did not take
  (`refused`) or that broke off (`broken`); `EndRequested` says that the end of a
  session is asked for, once, and not that the server took it.
* `PendingCallReachable` and `CallEnds` except `ShortOfTracks`: a subscription that
  became a session before its last track came, in `PendingCallReachable` only when it
  has been ended.
* `NegotiationSerialized` holds until a turn is lost (`TurnsLost`), and says nothing
  of what a lost turn leads to.
* `RequestsFollowLogin` is about the first session. A socket that was given up
  while it was down comes back, its relogin is answered on the next session's
  socket, and may open the gate while that one's link is down.
* `EndersEnd` is about every leave that was called, and about a drop or a failing
  handler of a client that has joined. Before that, a text sent
  during the login waits at the gate with the lock, and a join that is refused
  waits behind it. It excepts `LinkTroubled`, which is finding 1 and an
  acknowledgement lost with its link, and `ToldTooLate`, the event of a session
  that is told in the next one. `LeaveEndsUnlessWithin` of `Client` excepts
  `WaitsForItself`: that event, and finding 3.
* `CallEnds` and `CloseEnds` of `Channel`: a call may also end by the channel's
  being closed under it; a `close()` may end by a `stop()` that raises.
* `TableAgrees` and `LeaveClosesSessions` take such a `close()` as it is: the channel
  keeps its session and, while the client is joined, its key; a leave calls `close()`
  on every channel it owes one and forgets it, ended or not.
* `ListenersStay` excepts a list that is put back by the dispatch in which it
  became empty (`detached`).
* `NoneMissesStream` excepts `unheard`: a caller whose listener was passed over hears
  of the next stream.
* `SpinsOnlyWhenCancelled` and `WaitEnds` except a `wait()` that is cancelled or
  has no time to wait for. `WaitEnds` does not say when or how: an early end by a
  timer that was replaced, and a return where the handle failed, are ends.
* `SubscribeEnds` excepts a stream that broke before it named its subscription,
  and an answer that comes after `close()` cleared the tables.
* `PreferenceFollowed` is about what publish sends; the preferences of a subscribe are
  lost. It says that no payload is listed twice unless a codec is twice
  among the preferred and the allowed ones.
* `CallBinds` and `ArgumentsFit` except `Shadowed`: a listener whose annotated
  parameter is taken by another.

### Fairness

* The event loop runs whatever can run, and its timers: weak fairness of every
  step of a coroutine, and of `Timeout` in `Channel`. Each coroutine has its own
  conjunct; a coroutine that is suspended on nothing stays runnable, so weak
  fairness is all the loop gives and all the properties use.
* The server answers what it was asked as long as the link is up; lost links
  come back (python-socketio retries for ever by default); sockets that are
  being closed get closed.
* Users' callbacks and listeners end. Nothing is assumed of users: no fairness
  on calls, joins, leaves, or on the server's own messages.
* In `Quic` a stream that the server opens names its subscription in the end
  (`StreamBinds`), and the server makes what it was asked and opens its stream;
  that it breaks instead is a fault of the model and not fair.

### Findings

1. `session_leave`: `ready()` holds the lock that everything needs which could
   settle its future (signaling.py:45), so a request during an outage stops the
   relogin and `leave()` for ever.
2. `session_rejoin`: a gate cancelled by `disconnect()` is never replaced
   (signaling.py:70): after leaving during an outage and joining again every
   request is refused.
3. `client_leave`: a listener of 'streamadded' or 'participantjoined' that
   awaits `leave()` waits for the 'disconnect' event, which waits for the lock
   that the event being listened to holds (common.py:111, signaling.py:228).

### Other divergences met while modelling

No run is about these; the models follow the code in all of them.

* utils.py:145, 183: the lock's assertions fail after the first wait, because
  the waiter futures are never reset; the counter then stays up.
* utils.py:175 against 182: a woken exception enters by the listeners' counter
  and releases the exceptions'.
* utils.py:208: a second registration of a listener that is registered returns
  without its release: the counter stays up, and every exception after it waits
  for ever.
* utils.py:133, 172: all who wait for a group wait on one future, so that whoever is
  cancelled while waiting cancels them all, and everybody who waits there later.
* utils.py:209: the wrapper raises for a listener it does not understand after the lock
  was taken and before the `try`: the counter stays up, as after 208.
* utils.py:389: `f(a: Exception, *args)` is admitted and its call raises
  TypeError; annotations of `*args` and `**kwargs` are not looked at for the
  collector; `f(collector: Exception, **kw)` is not given its exception.
* channel.py:345: the preferences of a subscribe call are written into the sdp of
  a fresh object, not into the description that is sent (352).
* channel.py:443, 484: a request to end a session that fails, by a nack, on the way or
  in a failed gate, is logged, and the registration is dropped: the session goes on at
  the server. In a cancelled gate, or when the caller is cancelled (again), the error is
  a CancelledError and nothing is undone.
* channel.py:493-496: a subscription that is a session but short of tracks (366, 547)
  leaves its promise pending when it is ended; its caller waits for ever.
* channel.py:547: a ready message handled while `close()` awaits adds a session
  that `close()` does not stop.
* channel.py:679: a `stop()` that raises ends `close()`: no 'ended' event, so the
  channel keeps its key and its peer connection, and the next `close()` returns at once.
* channel.py:375: only the first subscription of a channel gets its tracks.
* signaling.py:45: a join refused while a text waits at the gate never returns.
* signaling.py:119: a join waits for ever when its socket is closed during the
  login (by a drop or a failing handler), holding `__ready_lock`.
* signaling.py:223: a ticket's refresh is cancelled only if the socket is
  connected: it survives a leave during an outage and asks in the next session;
  a login or relogin that is answered after `disconnect()` began starts one for
  a session that is over.
* signaling.py:242: the time to the refresh is counted from ten seconds before
  the ticket's end and may be negative.
* signaling.py:125: the relogin of a socket given up earlier acts on the next
  session, and waits for ever if that one's link is about to be lost.
* signaling.py:228 (`ToldTooLate`): the 'disconnect' of a session that a drop
  ended may be told after the client has left and joined again. Its listener
  then leaves the new session, and waits for a 'disconnect' event that waits for
  its own.
* client.py:220: a channel added or removed while an update goes round the
  channels ends the session.
* client.py:319-322: a join puts the streams of the room into `remoteStreams` without an
  event: who has waited for a stream since before the join is not told of them.
* client.py:353-356: `leave()` clears the table of a channel that was added
  while it closed the others, and does not close it.
* channel.py:225, 322 and quic.py:220, 275: a caller cancelled while its request
  is under way does not stop the session that the server makes.
* client.py:360: a `leave()` that finds the socket given up by a drop does not
  wait for its end; messages handled later leave members behind in the tables
  of a client that has left. `NobodyMissing` says that none is missing after the
  next join; it does not say that none is left over.
* client.py:433: the assertion that the stream is there when its event has been
  waited for may fail.
* client.py:473, 485: `wait()` with a timeout of zero, or cancelled, goes round
  its loop without suspending.
* client.py:511 against 451: `renew()` does not stop the timer it replaces, the
  earlier one ends the wait.
* client.py:638 against 441: a callback's own TimeoutError is not tried again.
* common.py:104, 135: a listener added to a list that became empty while it was
  dispatched is lost when the dispatch puts the old list back; two calls of
  `wait_for_stream`, one after the other, with no other listener, are enough.
* common.py:130-147: a listener that raises ends the loop over the others, which never
  hear of the event; a filter given to `wait_for_stream` runs in such a listener.
* quic.py:211, 241, 266: a request to end a session that fails or is cancelled is logged,
  and never made again; the CancelledError is swallowed too.
* quic.py:274: the assertion on `quic_stream` fails for every subscription,
  because the client passes none (client.py:257, 778).
* quic.py:100: the caller of a subscription whose stream breaks before it has
  named it waits for ever; so does one whose answer is handled after `close()`
  cleared the tables (294). Entries of `_sub_streams` stay until then.
* quic.py: a failed `init()` leaves its connection, and `close()` leaves what is
  added while it stops the others.
* sdputils.py:28: a mid that is the beginning of an earlier one is looked for
  for ever; the mids of a connection are made by aiortc and have one length.
* sdputils.py:113, 174: with a preferred codec that was not offered the m-line
  has no payload left; a codec that is named twice is listed twice; a maximal
  bitrate for a codec without fmtp line is ignored.

## Proofs

`CollectorProofs` proves, for any finite sets of calls and any listeners and
watchers:

* `Typing`: `Spec => []TypeOK`;
* `GroupsExclude`: `Spec => []Exclusion`;
* `NotificationsUndisturbed`: `Spec => NoneJoinsDuringNotification`.

They rest on the assumptions `CallsFinite` and `OutcomesDistinct` of
`Collector`, which TLC evaluates in run `collector`. `Exclusion` is not
inductive: whether a release may bring a counter to zero while a call is still
inside depends on how many calls hold it. The inductive invariant

    IInv == TypeOK /\ Counts /\ Excludes /\ Stages

adds that each counter is the cardinality of the set of calls that `hold` it
(`Counts`), that they are not both positive (`Excludes`), and which stages of a
call go with which hold (`Stages`). A call whose release failed still holds: that
is how a leaked counter is in the invariant. `SetHold` says what a change of one
call's hold does to the cardinalities; `ReleaseEffect` lists the outcomes of a
release; `StayOutside` is about a call that waits, or ends in the lock (cancelled, or
waiting on a future that is done); one lemma follows for each operator that changes the lock
(`EnterListeners`, `SuspendInside`, `UnlockListenersInv`, `BlockInv`, ...), and
`StepInv` has one step for each action. The action property follows from the
same invariant by `HoldExcludes`.

It goes on to prove, on top of that:

* `NothingLost`: `Spec => []NoExceptionLost`;
* `Implementation`: `Spec => ImplementsSink`, that the collector implements
  `ExceptionSink` under the mapping above.

The abstract specification files an exception once, so a step of the collector
that files one must know that it was in no place before: `Unfiled` says so of
every exception whose call is under way, and `SInv == IInv /\ Unfiled /\
NoExceptionLost` is inductive. `NotifyFiles` says where `Notify` may put an
exception (`Filed`); `UnlockMoves` how a release changes the holds, and
`OthersInside` that whoever else is inside is so with the same group; `OutsideGood`
is about the call that `StayOutside` is about;
`FilingRefines` turns the three into a step of the abstract specification.
`SStep` has one lemma for each kind of action; a step of a registration changes
its group at most, one of the owner settles the outcome.

`QuicProofs` proves the four safety properties of `Quic`, for any publications
and subscriptions, finite or not, and any faults: `QTyping`
(`Spec => []TypeOK`), `PromisesReachable` (`[]PendingReachable`),
`NothingComesBack` (`[]StoppedStaysGone`) and `AllAsked` (`[]EndRequested`). They
rest on `CallsAssumption`. None of the last three is inductive. `QInv` adds

* `Kept`: what is in a table has been answered and not been stopped, from which
  `StoppedStaysGone` follows at once;
* `Past`: what is in a table, or in the list that `close()` goes through, has its
  answer behind it, so that stopping it disturbs no call that is still to enter;
* `Known`: how far the server is by how far the call is;
* `Promised`, `Bound`: where a pending future and a bound stream can be;
* `Stopped`: the end of each of what `close()` owes was asked for, or it is still in
  the list it goes through, or (while that is the publications) in the table of
  subscriptions it has yet to read.

`UndoGone` gives the two `stop` coroutines one shape, and `StopsOneInv`,
`CloseSubsInv` and `ClosePubsInv` follow the loops of `close()` from the inside
out.

`SessionProofs` proves the five safety properties of `Session`, for any number of
joins and requests and any faults, from `RequestsAssumption` and
`JoinsAssumption`: `PortalOfOne` (`[]PortalFree`: when the client is READY, so that
a join may proceed, it has no portal), `SessionTypes` (`[]TypeOK`),
`PortalWhileJoined` (`[]JoinedHasPortal`), `LoginsFirst`
(`[]RequestsFollowLogin`) and `TicketsRefreshed` (`[]TicketFresh`). Two invariants
stand on each other, one about each lock.

`PInv` is about the door, `__ready_lock`; `_lock` plays no part in it. It adds

* `Door`: who waits in it is suspended at it; whoever is in the middle of a leave
  or a join holds it; while somebody does, the client is not joined (so nobody
  else leaves); and who holds it and has ended the session has left no portal,
  which is what declaring the client READY needs;
* `Awaited`: a response is awaited only where the code awaits one, so that the
  loss of a link moves nobody into the door or out of it.

`Door(d, t)` leaves out task `t`, so that one lemma follows each coroutine from the
point where it takes or holds the door (`CutInv`, `DisconnectInv`, `PassInv`,
`TryLeaveInv`, `ConnectInv`), by `HolderStays`, `HolderLeaves`, `OtherGoes` and
`OtherWaits`; `Aside` is for the steps that leave the door alone.

`SInv` is about `_lock`, the sockets and the logins:

* `Line`: `_lock`'s line has just the tasks that are suspended at one of the stages
  that wait for it or hold it, each once;
* `Links`: answers are awaited on links that are up, so nobody awaits one from a
  socket that is closed, down or dropping; while a link waits for the lock to be
  marked as lost nothing happens to its socket but that it is closed;
* `Tickets`: a refresh asks on the socket in use, so that the loss of that link, and
  no other, leaves it hanging;
* `Joins`: whoever gives up the socket that a join made is still to tell the
  client; without this `JoinedHasPortal` breaks at the join's last step;
* `Logins`: in the first session the gate is open, or about to be opened, only if the
  link is logged in, or is lost and somebody is in line to close the gate. Whoever
  opens it stands in line `Before` the one who closes it: the lock is FIFO, and
  nobody gets an answer over a link that is lost. The condition is about the first
  session only: in a later one the late answer to a relogin of a socket that was given
  up may open the gate while the link is down.

Most steps are alike for `SInv`: a task waits, asks over the link in use, or gives up
the socket (`Ordinary`), and leaves or enters the line as its stage says (`Lined`).
`OrdinaryInv` says once what such steps keep, and `PassMoves`, `DisconnectMoves`,
`LeaveNowMoves` and others which steps they are. The answers to a login
(`ToMarkInv`, `OpensInv`), a new socket (`NewSocketInv`), the loss of a link
(`SLinkLost`, `SLinkDown`, `SClosed`, by `LoseLinkIs`) and its return
(`LinkUpInv`) have lemmas of their own.

`ChannelProofs` proves the six safety properties of `Channel`, for any number of
calls, tracks and faults, from `OpsAssumption` and `BoundAssumption`:
`TypeCorrect` (`[]TypeOK`), `EndsOnce` (`[]EndedOnce`), `MapsTogether`
(`[]MapsAgree`), `NothingLeft` (`[]FailedCallsLeaveNothing`), `CallersReached`
(`[]PendingCallReachable`) and `OneNegotiation` (`[]NegotiationSerialized`). Three
invariants stand on each other:

* `TInv`: the types, and that a call that was made has a future: `TypeOK` alone is
  not inductive, because the next call chains to the future of the last one.
* `RInv`, about one call at a time. `Registered`: which dictionaries it can be in at
  which stage, `_reverseIdMap` among them. `Undone`: a run that undoes it knows its
  session; one past its acknowledgement has taken the registration away, once,
  because a second run finds it gone; when it is gone the server has ended the session
  or refused to; and a call that failed and is still registered had its undoing broken
  off.
  `Awaited`: a pending promise is in its dictionary; one whose session is there, or
  whose registration is gone, waits for its last tracks, in the second case with the end
  announced. The other four safety properties
  follow from `RInv` without further steps.
* `SInv`, about all calls. `Places`: each is in the order once. `Served`: the server
  answers after the offer and reports ready after the answer. Until a turn is lost,
  `Turns`: every call before the one that has the turn is through, and only that one
  prepares; and `UnderWay`: at most one answer is asked for, in the inbox, or being
  applied, the call that awaits it has the turn, and its ready message comes after.
  That is why an answer, which gives the turn to the next call whoever sent the
  offer, never takes it from one that is still preparing (`TurnsResolved`).

`LostStays` says that a lost turn stays lost, so that a step of the last invariant
may assume of its first state what it needs in the second.

`ListLemmas` says what a list keeps under `append`, `pop(0)` and `list.remove`,
which removes the first of the elements that are equal (`RemoveFirst` of the
community modules): what it contains, that nothing is in it twice, and, for
`Session`, who comes first (`Before`). `LeastOf`, that a set of
numbers has a least member, is what `RemoveFirst` needs of its index. For `Sdp` it
says what `FlattenSeq` of the community modules returns, which is a loop that
appends a list at a time: `FlattenIs` puts every element of the result at its place
in its block (`Blocks`), and `FilterIs` is the case of a comprehension with a
condition. `FlattenSeq` is a fold, defined by a recursive function that need not
exist; `FlattenFunction` shows that it does, for lists of lists, by the first
prefix of which it would not (there is none, as `LeastOf` says), so that no
induction over operators is needed. All rests on nothing but the library's
theorems about sequences and natural numbers.

`ClientProofs` proves the four safety properties of `Client`, for any finite set
of calls, any members, any number of joins, any bound of the queue and any faults,
from the assumptions of `Client`: `ClientTypes` (`[]TypeOK`), `TableHolds`
(`[]TableAgrees`), `LeaveCloses` (`[]LeaveClosesSessions`) and `NobodyForgotten`
(`[]NobodyMissing`). Three invariants stand on each other:

* `TInv` and `Dispatching`: the types, that no channel is twice in the table, that
  a call in the table was answered, and that a message under way is the first of
  the queue. Since the table has no repetition its length is bounded by the number
  of calls, which is what the size that a loop over it remembers needs.
* `CInv` adds `Channels`: while the client is joined, the channel of every answered
  call of this session is in the table unless its `close()` got to its end; and
  `Leaving`: what a leave owes a `close()` and has not had one is on the rest of its
  list, the channel it waits for is no longer up, and past that list the table has
  nothing that is owed. `LeavingBegins` is where the two meet: the list is
  taken from the table, which therefore has all that is owed. `TableAgrees` and
  `LeaveClosesSessions` follow from it at once.
* `Rosters`: whoever is in the conference is `Expected` to be in the tables when
  the messages that wait are handled: known and not about to be removed, or added
  by a message after which none removes it. `NobodyMissing` says so only of an
  empty queue and is not inductive. `ExpectedAppend` and `ExpectedTail` say what a
  message more or less does to it; messages of an earlier session are among them.

`StreamsProofs` proves the invariants of `Streams` and its action property, for
any number of streams, listeners, retries and timers, from
`StreamsAssumption`, `ListenersAssumption` and `NamesAssumption`: `StreamsTypes`
(`[]TypeOK`), `StatesAgree` (`[]StateAgrees`), `SpinsWhenCancelled`
(`[]SpinsOnlyWhenCancelled`), `ListenersKept` (`ListenersStay`) and `NoneMisses`
(`[]NoneMissesStream`). `SInv` has three parts: `Listening`, that a listener is in
the list once, and only while its owner has a use for it; `Working`, how the state
of a `Tasks` goes with its tasks, its two futures and its timers, where
`StateAgrees` lacks that a timer which has run out is no longer asleep; `Waiting`,
that `wait()` awaits a timer that was started. `PassedHolds` is about the two steps that
pass listeners over. `TurnSpins` follows one turn of the
loop of `wait()`. `ListChanges` names the steps that change the list at all, so
that `StayStep` and `MissesStep` need only look at those.

`AlgorithmProofs` proves both properties of `Signatures`, for any number of
parameters and any other names, from `OthersAssumption`: `CallsBind`
(`[]CallBinds`) and `ArgumentsLand` (`[]ArgumentsFit`). What the two say of the call
is no invariant of the analysis, which sees the parameters one by one; `Inv` says
instead which parameters came before: `Ordered`, that their kinds, names and
defaults are in an order Python allows; and, while the listener is not refused,
`Homes(e, c)`, that exception and collector were given to the parameters at `e` and
`c` (0 is none). A home (`IsHome`) is the parameter that has the name for the
argument, if there is one, and can be taken over just if it is `*args` or `**kwargs`; no
parameter outside the homes needs an argument; and `reverse` tells the order of two
homes that take by position. `HomeStays`, `HomeMoves` and `HomeFree` follow a home
through the next parameter. The rest is about the state that is reached: `LandedIs`
says where the code's call takes the two arguments, `PlacesAre` that parameters
which take by position alone are at the places of their arguments, and `Lands` that
an argument lands on its home and nowhere else, unless `*args` or `**kwargs` is
shadowed.

It also proves the three properties of `Sdp`, whose specification is `SdpSpec`, for any
sections, any offer, and any options that the three assumptions allow:
`SectionsWholeInvariant` (`SdpSpec => []SectionsWhole`), `PreferenceInvariant`
(`[]PreferenceFollowed`) and `RatesInvariant` (`[]RatesSet`). The last two speak only of
sections that all edits have seen; inductive is what `SdpInv == TypeInv /\ TextInv` says of
every section:

* `Cuts`: the text is the session's lines, one section after the other, and the end;
  the cuts are the lines at which the sections start. `RangeIs` says that
  `findMLineRangeWithMID` finds just these, with the `-1` of the last one;
  `ReplaceIs` that another section in the place of one moves the cuts behind it
  and leaves what is between the others as it was.
* `Whole`: a section has its m-line, its mid line, and the lines of just those
  payloads that the m-line lists. `Progress` adds how far it is after so many of
  the call's edits: whether it lists all that was offered or was put in order
  (`Followed`), and that each codec has the last rate that these edits name
  (`LastRate`). A section that no transceiver has reached is the offered one, and every
  section of a subscribe is: `Seen` counts the edits of a publish only.

A reorder collects the payloads of each codec (`BaseIs`), appends what repairs them
(`RepairsAre`), and takes out the lines of the rest (`RemoveReduces`); `ListIs` has
what is in the list and in which order, `ReorderIs` that the section is whole
again. `SetRateIs` says which line a rate changes, and `LastRateIs` that the last
edit for a codec has the rate the caller named last. `EditsAre` and `ReordersAre`
say what edits there are: one reorder at most for each type, to what is asked for.
A reorder for one type does nothing to a section of the other, nor does a rate, whose
codec is of one type only (`NamedOnce`). `ProgressStep` is one more edit of a section,
`EditIs` the same within the text.

Model-checked only: liveness (`CallEnds`, `CloseEnds`, `EndersEnd`,
`LeaveEndsUnlessWithin`, `WaitEnds`, `SubscribeEnds`), which is out of the
prover's reach.

## Plan

1. Done: `Collector` with its proofs and its refinement; `Channel`, `Session`,
   `Client`, `Quic`, `Streams` and `Signatures`, each with the proofs of its safety
   properties; `Sdp` with its proofs; `Dispatcher`, whose effect on `Streams` is
   proved there.
2. An abstract room as seen by its client, that `Client` implements.
3. Composition: a join whose QUIC channel fails to start, within `Session`.

## Not modelled

Media, logging, the REST client for demo tokens, device capture, and plain
records with their conversions (settings, capabilities, RTP parameters, portal
messages): they keep no state, or are pure I/O. SDP is modelled as far as the
code edits it: lines are records of what the code looks for in them, what it
does not look for is left out. The general Postponer is modelled where it is
used, `once` and `seq` of the dispatcher are not, since nothing in the code
passes them. The external parts - python-socketio, aiortc, aioquic, the OWT
server - appear only as the choices the code has to cope with.
