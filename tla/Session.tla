------------------------------- MODULE Session -------------------------------
(***************************************************************************)
(* A client's session with the portal: SioSignaling (signaling.py) under   *)
(* ConferenceClient.join and leave (client.py).                            *)
(*                                                                         *)
(* Requests wait for _ready_future holding _lock, and everything that      *)
(* settles that future takes the same lock.  The future opens at login,    *)
(* closes when the link drops, opens again at relogin, and is cancelled    *)
(* by disconnect().  An end of the session may start from leave(), from a  *)
(* failed join, from the server's drop, and from a handler or a relogin    *)
(* that fails; whichever it is, disconnect() tells the client, which       *)
(* leaves too.                                                             *)
(*                                                                         *)
(* An action is what a task runs between two suspensions: a lock that is   *)
(* free is taken without one.  _lock and __ready_lock are FIFO; each is    *)
(* the sequence of its holder and its waiters.  Sockets are numbered by    *)
(* the join that made them.  python-socketio and the portal are external:  *)
(* a lost link forgets the responses under way and is restored later.  All *)
(* channels count as one, with one publication.  A ticket that the portal  *)
(* hands out has not expired; when a refresh falls due is left open.       *)
(***************************************************************************)
EXTENDS Integers, SequencesExt

CONSTANTS
  Requests,  \* calls that make one request each: publish
  Texts,     \* the ones among them that need no conference: send
  Faults,    \* what may go wrong, by the guards that name it
  MaxJoins   \* bound: calls of join

ASSUME RequestsAssumption ==
  /\ Texts \subseteq Requests
  /\ Requests \cap {"join", "leave", "drop", "handler", "relogin", "lost"} = {}
ASSUME JoinsAssumption == MaxJoins \in Nat \ {0}

VARIABLES
  at,      \* where each task is suspended
  via,     \* the socket it awaits a response from, or closes
  line,    \* _lock: its holder, then its waiters
  gate,    \* _ready_future
  io,      \* the socket of self.io, 0 for None
  sock,    \* state of each socket
  last,    \* the number of sockets made
  hooked,  \* sockets whose connect() registered on_connect
  authed,  \* sockets whose present link is logged in at the portal
  phase,   \* signalingState
  joined,  \* __ready is set
  door,    \* __ready_lock: its holder, then its waiters
  teller,  \* the task that dispatches 'disconnect', as long as it does
  open,    \* the client has a channel with a publication
  refresh  \* the task that will refresh the reconnection ticket

vars == << at, via, line, gate, io, sock, last, hooked, authed, phase, joined, door, teller, open,
           refresh >>
socketVars == << sock, last, hooked, authed >>

Enders == {"join", "leave", "drop", "handler", "relogin"}
Tasks == Requests \cup Enders \cup {"lost"}

TypeOK ==
  /\ at \in [Tasks -> {"idle", "gate", "asked", "hung", "over", "door", "connecting",
                       "login", "relogin", "mark", "unmark", "unpublish",
                       "unpublishing", "closed", "cancel", "closing", "event"}]
  /\ via \in [Tasks -> 0..last]
  /\ line \in Seq(Tasks) /\ door \in Seq(Enders)
  /\ gate \in {"pending", "ok", "failed", "cancelled"}
  /\ io \in 0..last /\ last \in 0..MaxJoins
  /\ sock \in [1..MaxJoins -> {"none", "up", "dropping", "down", "closed"}]
  /\ hooked \subseteq 1..last /\ authed \subseteq 1..last
  /\ phase \in {"READY", "CONNECTING", "CONNECTED"}
  /\ joined \in BOOLEAN /\ open \in BOOLEAN
  /\ teller \in Enders \cup {"none"}
  /\ refresh.stage \in {"none", "sleep", "asked", "hung", "refused"} /\ refresh.via \in 0..last

NoRefresh == [stage |-> "none", via |-> 0]

Init ==
  /\ at = [t \in Tasks |-> "idle"] /\ via = [t \in Tasks |-> 0]
  /\ line = << >> /\ door = << >>
  /\ gate = "pending"
  /\ io = 0 /\ last = 0
  /\ sock = [k \in 1..MaxJoins |-> "none"]
  /\ hooked = {} /\ authed = {}
  /\ phase = "READY" /\ joined = FALSE /\ open = FALSE
  /\ teller = "none" /\ refresh = NoRefresh

Holds(t, q) == q # << >> /\ Head(q) = t
Remote == {"asked", "login", "relogin", "unpublishing", "closing"}

\* Task t is suspended next at the given stage, on the socket in use.  The
\* dispatch of 'disconnect' that its listener left ends with it.
Goto(t, stage) ==
  /\ at' = [at EXCEPT ![t] = stage]
  /\ via' = [via EXCEPT ![t] = IF stage \in Remote THEN io ELSE 0]
  /\ teller' = IF stage = "idle" THEN IF teller = t THEN "none" ELSE teller
               ELSE IF at[t] = "event" THEN t ELSE teller

-----------------------------------------------------------------------------
(* ready() and then send(), for a request and for the unpublish of leave   *)

SendOutcome ==
  IF io = 0 \/ sock[io] \in {"none", "down"} THEN "refused"
  ELSE IF sock[io] = "up" THEN "sent" ELSE "hung"

\* What comes of passing the gate.
Passing ==
  [pending |-> "wait", ok |-> SendOutcome, failed |-> "refused", cancelled |-> "cancelled"][gate]

AfterPassing(t) ==
  IF t \in Requests
  THEN [wait |-> "gate", sent |-> "asked", hung |-> "hung", refused |-> "over",
        cancelled |-> "over"][Passing]
  ELSE [wait |-> "unpublish", sent |-> "unpublishing", hung |-> "hung", refused |-> "closed",
        cancelled |-> "closed"][Passing]

\* Task t, that holds the door as d says if it does, reaches ready().  A refusal
\* is caught by _unpublish, a cancelled future by the channel's close(): the
\* leave goes on.
Pass(t, d, rest) ==
  /\ Goto(t, AfterPassing(t))
  /\ line' = IF Passing = "wait" THEN << t >> \o rest ELSE rest
  /\ door' = d

AskGate(t, d) ==
  \/ line = << >> /\ Pass(t, d, << >>)
  \/ /\ line # << >>
     /\ line' = Append(line, t)
     /\ Goto(t, IF t \in Requests THEN "gate" ELSE "unpublish")
     /\ door' = d

Admitted(t) ==
  /\ at[t] \in {"gate", "unpublish"}
  /\ Holds(t, line)
  /\ Passing # "wait"
  /\ Pass(t, door, Tail(line))
  /\ UNCHANGED << gate, io, refresh, socketVars, phase, joined, open >>

Request(r) ==
  /\ at[r] = "idle"
  /\ joined \/ r \in Texts
  /\ AskGate(r, door)
  /\ UNCHANGED << gate, io, refresh, socketVars, phase, joined, open >>

Response(r) ==
  /\ at[r] = "asked"
  /\ Goto(r, "over")
  /\ open' = (open \/ r \notin Texts)
  /\ UNCHANGED << line, gate, io, refresh, socketVars, phase, joined, door >>

\* The caller's task is cancelled.  At the gate it was awaiting _ready_future
\* itself, which is cancelled with it.
CancelRequest(r) ==
  /\ "cancel" \in Faults
  /\ at[r] \in {"gate", "asked", "hung"}
  /\ Goto(r, "over")
  /\ line' = RemoveFirst(line, r)
  /\ gate' = IF at[r] = "gate" /\ Holds(r, line) /\ gate = "pending" THEN "cancelled" ELSE gate
  /\ UNCHANGED << io, refresh, socketVars, phase, joined, door, open >>

-----------------------------------------------------------------------------
(* disconnect()                                                            *)

\* disconnect() has returned: the client is ready again, if t was leaving.
FinishAny(t, d) ==
  /\ Goto(t, "idle")
  /\ door' = IF Holds(t, d) THEN Tail(d) ELSE d
  /\ phase' = "READY"
Finish(t, d) ==
  /\ Goto(t, "idle")
  /\ door' = IF Holds(t, d) THEN Tail(d) ELSE d
  /\ phase' = IF Holds(t, d) THEN "READY" ELSE phase

\* cancelReady, then self.io is given up.  Somebody may have done that while
\* t waited for the lock: the error of t is collected, and the listener of the
\* collector finds no socket to disconnect.
Cut(t, d) ==
  /\ gate' = IF gate # "pending" THEN gate
             ELSE IF t \in {"handler", "relogin"} THEN "failed" ELSE "cancelled"
  /\ io' = 0
  /\ refresh' = IF io # 0 /\ sock[io] \in {"up", "dropping"} THEN NoRefresh ELSE refresh
  /\ IF io = 0 THEN Finish(t, d)
     ELSE /\ Goto(t, IF sock[io] \in {"up", "dropping"} THEN "closing" ELSE "event")
          /\ door' = d
          /\ UNCHANGED phase

Disconnect(t, d) ==
  \/ io = 0 /\ Finish(t, d) /\ UNCHANGED << line, gate, io, refresh >>
  \/ io # 0 /\ line = << >> /\ Cut(t, d) /\ UNCHANGED line
  \/ /\ io # 0 /\ line # << >>
     /\ line' = Append(line, t) /\ Goto(t, "cancel") /\ door' = d
     /\ UNCHANGED << gate, io, refresh, phase >>

CancelReady(t) ==
  /\ at[t] = "cancel"
  /\ Holds(t, line)
  /\ line' = Tail(line)
  /\ Cut(t, door)
  /\ UNCHANGED << socketVars, joined, open >>

\* What awaits a response over the link of socket k, that is gone, waits for
\* ever.  Task t goes to the given stage.
LoseLink(k, t, stage) ==
  LET hangs(x) == via[x] = k /\ at[x] \notin {"closing", "unmark"}
  IN  /\ at' = [x \in Tasks |-> IF x = t THEN stage
                               ELSE IF ~hangs(x) THEN at[x]
                               ELSE IF at[x] = "relogin" THEN "idle" ELSE "hung"]
      /\ via' = [x \in Tasks |-> IF x = t THEN IF stage = "unmark" THEN k ELSE 0
                                ELSE IF hangs(x) THEN 0 ELSE via[x]]
      /\ UNCHANGED teller
      /\ refresh' = IF refresh.stage = "asked" /\ refresh.via = k
                    THEN [stage |-> "hung", via |-> 0] ELSE refresh

\* Nobody was just handed the lock: its holder, if any, waits for the gate.
LockRests == line # << >> => at[Head(line)] \in {"gate", "unpublish"} /\ Passing = "wait"

\* The socket is closed; its own disconnect handler finds no portal.  That
\* takes the network, whoever is handed the lock meanwhile goes on before.
Closed(t) ==
  /\ at[t] = "closing"
  /\ LockRests
  /\ sock' = [sock EXCEPT ![via[t]] = "closed"]
  /\ authed' = authed \ {via[t]}
  /\ LoseLink(via[t], t, "event")
  /\ UNCHANGED << line, gate, io, last, hooked, phase, joined, door, open >>

-----------------------------------------------------------------------------
(* leave()                                                                 *)

\* _try_leave of t, which holds the door.
TryLeave(t, d) ==
  /\ joined' = FALSE
  /\ IF open THEN AskGate(t, d) /\ UNCHANGED << gate, io, refresh, phase >> ELSE Disconnect(t, d)

LeaveNow(t) ==
  \/ door = << >> /\ TryLeave(t, << t >>)
  \/ door # << >> /\ door' = Append(door, t) /\ Goto(t, "door")
     /\ UNCHANGED << line, gate, io, refresh, phase, joined >>

Leave ==
  /\ at["leave"] = "idle" /\ joined
  /\ LeaveNow("leave")
  /\ UNCHANGED << socketVars, open >>

\* The 'disconnect' listener of the client leaves, if it is still joined.  The
\* dispatch waits for another one to end, its own listener's included.
ToldWithoutLeave(t) ==
  /\ at[t] = "event"
  /\ Finish(t, door) /\ UNCHANGED << line, gate, io, refresh, joined >>
  /\ UNCHANGED << socketVars, open >>
ToldLeavesAlways(t) ==
  /\ at[t] = "event" /\ teller = "none"
  /\ LeaveNow(t)
  /\ UNCHANGED << socketVars, open >>
Told(t) ==
  /\ at[t] = "event" /\ teller = "none"
  /\ \/ joined /\ LeaveNow(t)
     \/ ~joined /\ Finish(t, door) /\ UNCHANGED << line, gate, io, refresh, joined >>
  /\ UNCHANGED << socketVars, open >>

AtDoor(t) ==
  /\ at[t] = "door" /\ t # "join"
  /\ Holds(t, door)
  /\ \/ joined /\ TryLeave(t, door)
     \/ ~joined /\ Goto(t, "idle") /\ door' = Tail(door)
        /\ UNCHANGED << line, gate, io, refresh, phase, joined >>
  /\ UNCHANGED << socketVars, open >>

\* The unpublish of the channel is acknowledged.
Unpublished(t) ==
  /\ at[t] = "unpublishing"
  /\ Goto(t, "closed")
  /\ UNCHANGED << line, gate, io, refresh, socketVars, phase, joined, door, open >>

ChannelsClosed(t) ==
  /\ at[t] = "closed"
  /\ open' = FALSE
  /\ Disconnect(t, door)
  /\ UNCHANGED << socketVars, joined >>

-----------------------------------------------------------------------------
(* join()                                                                  *)

\* join, which holds the door: a new socket, or an error at once.
Connect(d) ==
  \/ /\ joined \/ phase # "READY"
     /\ Goto("join", "idle")
     /\ door' = Tail(d)
     /\ UNCHANGED << io, last, phase >>
  \/ /\ ~joined /\ phase = "READY"
     /\ last' = last + 1 /\ io' = last + 1
     /\ phase' = "CONNECTING"
     /\ Goto("join", "connecting")
     /\ door' = d

Join ==
  /\ last < MaxJoins
  /\ \/ /\ at["join"] = "idle"
        /\ \/ door = << >> /\ Connect(<< "join" >>)
           \/ door # << >> /\ door' = Append(door, "join") /\ Goto("join", "door")
              /\ UNCHANGED << io, last, phase >>
     \/ at["join"] = "door" /\ Holds("join", door) /\ Connect(door)
  /\ UNCHANGED << line, gate, sock, hooked, authed, joined, open, refresh >>

\* The socket connects, 'connected' is dispatched and the login goes out, or
\* join fails: the portal is out of reach, or self.io was given up meanwhile.
Connected ==
  /\ at["join"] = "connecting"
  /\ \/ /\ teller = "none"
        /\ sock' = [sock EXCEPT ![last] = "up"]
        /\ \/ /\ io # 0
              /\ Goto("join", "login")
              /\ UNCHANGED << line, gate, io, refresh, phase, joined, door >>
           \/ /\ io = 0
              /\ TryLeave("join", door)
     \/ /\ "refuse" \in Faults
        /\ TryLeave("join", door)
        /\ UNCHANGED sock
  /\ UNCHANGED << last, hooked, authed, open >>

GateMarked == IF gate = "pending" THEN "ok" ELSE gate

\* _onReconnectionTicket: the task of an earlier ticket is cancelled.
NewTicketUnlessAsked ==
  IF refresh.stage \in {"asked", "hung"} THEN UNCHANGED refresh
  ELSE refresh' = [stage |-> "sleep", via |-> 0]
NewTicket == refresh' = [stage |-> "sleep", via |-> 0]

\* connect() returns and join is over.
Welcome ==
  /\ hooked' = hooked \cup {last}
  /\ joined' = TRUE /\ phase' = "CONNECTED"
  /\ Goto("join", "idle") /\ door' = Tail(door)

\* The answer to the login.  markReady does nothing without a socket: a task
\* may have begun to disconnect between the answer and this step.
LoggedIn ==
  /\ at["join"] = "login"
  /\ \/ /\ authed' = authed \cup {via["join"]}
        /\ \/ /\ io # 0 /\ line # << >>
              /\ line' = Append(line, "join") /\ Goto("join", "mark")
              /\ UNCHANGED << gate, hooked, joined, phase, door, refresh >>
           \/ /\ io = 0 \/ line = << >>
              /\ gate' = IF io = 0 THEN gate ELSE GateMarked
              /\ Welcome
              /\ NewTicket
              /\ UNCHANGED line
        /\ UNCHANGED io
     \/ /\ "refuse" \in Faults
        /\ TryLeave("join", door)
        /\ UNCHANGED << authed, hooked >>
  /\ UNCHANGED << sock, last, open >>

MarkReady(t) ==
  /\ at[t] = "mark"
  /\ Holds(t, line)
  /\ line' = Tail(line)
  /\ gate' = GateMarked
  /\ NewTicket
  /\ \/ t = "join" /\ Welcome
     \/ t = "relogin" /\ Goto(t, "idle") /\ UNCHANGED << hooked, joined, phase, door >>
  /\ UNCHANGED << io, sock, last, authed, open >>

-----------------------------------------------------------------------------
(* The link                                                                *)

\* markNotReady, run by the socket before it gives up the link.
NotReadyNever == gate
NotReadyNone == IF gate # "pending" /\ io # 0 THEN "none" ELSE gate
NotReady == IF gate # "pending" /\ io # 0 THEN "pending" ELSE gate

Down(k) ==
  /\ sock' = [sock EXCEPT ![k] = IF @ = "closed" THEN @ ELSE "down"]
  /\ authed' = authed \ {k}
  /\ gate' = NotReady

\* The link of self.io is lost.
LinkLost ==
  /\ "outage" \in Faults
  /\ io # 0 /\ sock[io] = "up" /\ at["lost"] = "idle"
  /\ \/ line = << >> /\ Down(io) /\ LoseLink(io, "lost", "idle") /\ UNCHANGED line
     \/ /\ line # << >>
        /\ sock' = [sock EXCEPT ![io] = "dropping"]
        /\ line' = Append(line, "lost")
        /\ LoseLink(io, "lost", "unmark")
        /\ UNCHANGED << gate, authed >>
  /\ UNCHANGED << io, last, hooked, phase, joined, door, open >>

LinkDown ==
  /\ at["lost"] = "unmark"
  /\ Holds("lost", line)
  /\ line' = Tail(line)
  /\ Down(via["lost"])
  /\ Goto("lost", "idle")
  /\ UNCHANGED << io, last, hooked, phase, joined, door, open, refresh >>

\* A socket is connected again, the one in use or one that was given up while
\* it was down.  Its on_connect asks for a relogin on the socket in use; if that
\* one is about to lose its link, the on_connect waits for ever.
\* Bound: while no other relogin is in progress.
Reconnect(k) ==
  /\ sock[k] = "down" /\ at["relogin"] = "idle" /\ teller = "none"
  /\ sock' = [sock EXCEPT ![k] = "up"]
  /\ \/ /\ k \notin hooked \/ (k # io /\ SendOutcome = "hung")
        /\ UNCHANGED << at, via, line, gate, io, door, teller, phase, refresh >>
     \/ /\ k \in hooked /\ (k = io \/ SendOutcome = "sent")
        /\ Goto("relogin", "relogin")
        /\ UNCHANGED << line, gate, io, door, phase, refresh >>
     \/ /\ k \in hooked /\ k # io /\ SendOutcome = "refused"
        /\ Disconnect("relogin", door)
  /\ UNCHANGED << last, hooked, authed, joined, open >>

Relogged ==
  /\ at["relogin"] = "relogin"
  /\ \/ /\ authed' = authed \cup {via["relogin"]}
        /\ \/ /\ io # 0 /\ line # << >>
              /\ line' = Append(line, "relogin") /\ Goto("relogin", "mark")
              /\ UNCHANGED << gate, refresh >>
           \/ /\ io = 0 \/ line = << >>
              /\ gate' = IF io = 0 THEN gate ELSE GateMarked
              /\ Goto("relogin", "idle")
              /\ NewTicket
              /\ UNCHANGED line
        /\ UNCHANGED << io, door, phase >>
     \/ /\ "refuse" \in Faults
        /\ Disconnect("relogin", door)
        /\ UNCHANGED authed
  /\ UNCHANGED << sock, last, hooked, joined, open >>

\* The portal drops the participant, or the handler of a message fails.
Fatal(t) ==
  /\ t \in Faults \cap {"drop", "handler"}
  /\ at[t] = "idle"
  /\ io # 0 /\ sock[io] = "up"
  /\ Disconnect(t, door)
  /\ UNCHANGED << socketVars, joined, open >>

\* refreshReconnectionTicket: it asks on the socket in use, whatever the gate.
RefreshWakes ==
  /\ refresh.stage = "sleep"
  /\ refresh' = [refused |-> NoRefresh, sent |-> [stage |-> "asked", via |-> io],
                 hung |-> [stage |-> "hung", via |-> 0]][SendOutcome]
  /\ UNCHANGED << at, via, line, gate, io, socketVars, phase, joined, door, teller, open >>

Refreshed ==
  /\ refresh.stage = "asked"
  /\ \/ NewTicket
     \/ "refuse" \in Faults /\ refresh' = [stage |-> "refused", via |-> 0]
  /\ UNCHANGED << at, via, line, gate, io, socketVars, phase, joined, door, teller, open >>

-----------------------------------------------------------------------------
TaskStep(t) ==
  \/ t \in Requests \cup Enders /\ Admitted(t)
  \/ t \in Requests /\ Response(t)
  \/ t \in Enders /\ \/ CancelReady(t) \/ Closed(t) \/ Told(t) \/ AtDoor(t)
                     \/ Unpublished(t) \/ ChannelsClosed(t)
  \/ t \in {"join", "relogin"} /\ MarkReady(t)
  \/ t = "join" /\ \/ at["join"] = "door" /\ Join
                   \/ Connected \/ LoggedIn
  \/ t = "relogin" /\ Relogged
  \/ t = "lost" /\ LinkDown

LinkBack == \E k \in 1..MaxJoins : Reconnect(k)

Next ==
  \/ \E t \in Tasks : TaskStep(t)
  \/ \E r \in Requests : Request(r) \/ CancelRequest(r)
  \/ \E t \in {"drop", "handler"} : Fatal(t)
  \/ Join \/ Leave \/ LinkLost \/ LinkBack \/ RefreshWakes \/ Refreshed

Spec == Init /\ [][Next]_vars

\* The event loop runs what can run, the portal answers, links come back.
Fairness == (\A t \in Tasks : WF_vars(TaskStep(t))) /\ WF_vars(LinkBack)
FairSpec == Spec /\ Fairness

-----------------------------------------------------------------------------
(* Properties                                                              *)

\* SioSignaling.connect: a join that may proceed never finds the portal of an
\* earlier session still connected, whoever ended that session.
PortalFree == phase = "READY" => io = 0

\* A client that has joined has a portal, or a task that took it away and is
\* about to leave.
JoinedHasPortal ==
  joined => io # 0 \/ \E t \in Enders : at[t] \in {"closing", "event", "door"}

\* ready(): in the client's first session no request is on its way over a link
\* that is not logged in.  In a later one the late answer to a relogin of a
\* socket that was given up may open the gate while the link is down.
RequestsFollowLogin ==
  \A r \in Requests : at[r] = "asked" /\ via[r] = 1 => 1 \in authed

\* README.md:94 "leave the conference will automatically close all the related
\* publications and subscribations", at the end of a program: a leave that was
\* called ends.
LeaveEnds == at["leave"] # "idle" ~> at["leave"] = "idle"

\* The event that ends a session is told when a later one has begun: its
\* listener leaves that one, and waits for an event that waits for it.
ToldTooLate == teller # "none" /\ at[teller] = "event"

\* Only an outage or a lost answer may keep an end from ending: the link in use
\* is not logged in, a request waits at the gate with the lock, or somebody who
\* ends the session waits for an answer that was lost.
LinkTroubled ==
  \/ io # 0 /\ io \notin authed
  \/ line # << >> /\ LockRests
  \/ \E t \in Enders : at[t] = "hung"

\* disconnect(): with these exceptions, a leave that was called ends, and whoever
\* else ends the session of a client that has joined gets to the end of it.
EndersEnd ==
  \A t \in {"leave", "drop", "handler"} :
    at[t] # "idle" /\ (joined \/ t = "leave") ~> at[t] = "idle" \/ ToldTooLate \/ LinkTroubled

\* _onReconnectionTicket: on a link that is logged in and in use the ticket is
\* being refreshed, also after an outage that swallowed the answer to a refresh,
\* unless the portal refused one.
TicketFresh ==
  joined /\ io # 0 /\ io \in authed /\ sock[io] = "up" /\ at["relogin"] # "mark" =>
    refresh.stage \in {"sleep", "asked", "refused"}

\* client.py:295 "to join another conference, leave at first.": a client that
\* has joined is never left with a gate that refuses every request.
JoinedIsUsable == joined /\ io # 0 => gate \notin {"failed", "cancelled"}
=============================================================================
