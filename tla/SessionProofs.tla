----------------------------- MODULE SessionProofs -----------------------------
(***************************************************************************)
(* Proofs about the session with the portal, for any number of joins and   *)
(* requests and any faults, in two parts.                                  *)
(*                                                                         *)
(* The door (__ready_lock): only its holder makes a socket, and only its   *)
(* holder declares the client ready.  So a join never finds the portal of  *)
(* an earlier session (PInv, PortalOfOne).                                 *)
(*                                                                         *)
(* The lock, the sockets and the logins (SInv): _lock's line holds just    *)
(* the tasks that wait for it; nothing awaits an answer on a link that is  *)
(* not up; whoever gives up the socket of a joined client has yet to tell; *)
(* and what opens the gate stands in line before what closes it, so that   *)
(* requests follow the login of the first session.                         *)
(***************************************************************************)
EXTENDS Session, ListLemmas

Stages ==
  {"idle", "gate", "asked", "hung", "over", "door", "connecting", "login", "relogin", "mark",
   "unmark", "unpublish", "unpublishing", "closed", "cancel", "closing", "event"}

\* What the argument about the door needs of TypeOK; _lock plays no part in it.
Types ==
  /\ at \in [Tasks -> Stages] /\ via \in [Tasks -> Nat]
  /\ gate \in {"pending", "ok", "failed", "cancelled"}
  /\ io \in Nat /\ last \in Nat
  /\ phase \in {"READY", "CONNECTING", "CONNECTED"}
  /\ joined \in BOOLEAN

\* Stages of a task that holds the door: of leave(), of join(), and of whoever
\* disconnects, who may also do so without the door.
Leaving == {"unpublish", "unpublishing", "closed"}
Joining == {"connecting", "login", "mark"}
Ending == {"cancel", "closing", "event", "hung"}

\* The door d, but for what concerns task t, which may hold it or not be in it:
\* who waits is at the door, who holds it leaves or joins, the client of a
\* holder is not joined, and one that ended the session has left no portal.
Door(d, t) ==
  /\ d \in Seq(Enders)
  /\ \A i, j \in 1..Len(d) : d[i] = d[j] => i = j
  /\ \A i \in 2..Len(d) : d[i] # t /\ at[d[i]] = "door"
  /\ d # << >> /\ d[1] # t =>
       /\ at[d[1]] \in {"door"} \cup Leaving \cup Ending
            \cup (IF d[1] = "join" THEN Joining ELSE {})
       /\ at[d[1]] # "door" => ~joined
       /\ at[d[1]] \in {"closing", "event"} => io = 0
  /\ \A x \in Enders \ {t} : at[x] \in Leaving => d # << >> /\ d[1] = x
  /\ "join" # t /\ at["join"] \notin {"idle", "door"} => d # << >> /\ d[1] = "join"

\* A response is awaited, or a socket closed, only at the stages that do so.
Awaited ==
  /\ \A x \in Tasks : via[x] # 0 => at[x] \in Remote \cup {"unmark"}
  /\ \A x \in Tasks : at[x] = "closing" => via[x] # 0
  /\ \A x \in Tasks : at[x] = "gate" => x \in Requests
  /\ at["join"] # "relogin"

Rest == Types /\ Awaited /\ PortalFree
PInv == Rest /\ Door(door, "none")

Heads(d, t) == d # << >> /\ d[1] = t

-----------------------------------------------------------------------------
(* The door                                                                *)

\* Requests and the tasks of the library are different tasks.
LEMMA Sorts ==
  /\ Enders \cap Requests = {} /\ Enders \subseteq Tasks /\ Requests \subseteq Tasks
  /\ "none" \notin Enders /\ "lost" \in Tasks /\ "lost" \notin Enders
  BY RequestsAssumption DEF Enders, Tasks

\* A task that is not waiting at the door holds it or is not in it; so does
\* the first of those who wait.
LEMMA DoorOf ==
  ASSUME Door(door, "none"), NEW t \in Enders, at[t] # "door" \/ Heads(door, t)
  PROVE  Door(door, t)
  <1>1. \A i \in 2..Len(door) : door[i] # t
    BY DEF Door, Heads
  <1>2. QED
    BY <1>1, Sorts DEF Door

\* A door that nobody holds is taken at once.
LEMMA DoorTaken ==
  ASSUME Door(door, "none"), door = << >>, NEW t \in Enders
  PROVE  Door(<< t >>, t) /\ Heads(<< t >>, t)
  BY Sorts DEF Door, Heads

\* Holds, for the door.
LEMMA HeadDoor ==
  ASSUME NEW d \in Seq(Enders), NEW t
  PROVE  Holds(t, d) <=> Heads(d, t)
  BY DEF Holds, Heads

\* The holder goes on, within.
LEMMA HolderStays ==
  ASSUME Types, NEW t \in Enders, NEW d, Door(d, t), Heads(d, t), NEW stage,
         at' = [at EXCEPT ![t] = stage], door' = d, ~joined',
         stage \in Leaving \cup Ending \cup (IF t = "join" THEN Joining ELSE {}),
         stage \in {"closing", "event"} => io' = 0
  PROVE  Door(door, "none")'
  <1>1. at'[t] = stage /\ \A x \in Tasks \ {t} : at'[x] = at[x]
    BY Sorts DEF Types
  <1>2. \A i \in 2..Len(d) : d[i] \in Enders /\ d[i] # t
    BY DEF Door
  <1>3. QED
    BY <1>1, <1>2, Sorts DEF Door, Heads, Leaving, Joining, Ending

\* The holder leaves, and the next one is at the door.
LEMMA HolderLeaves ==
  ASSUME Types, NEW t \in Enders, NEW d, Door(d, t), Heads(d, t),
         at' = [at EXCEPT ![t] = "idle"], door' = Tail(d)
  PROVE  Door(door, "none")'
  <1>1. at'[t] = "idle" /\ \A x \in Tasks \ {t} : at'[x] = at[x]
    BY Sorts DEF Types
  <1>2. /\ Tail(d) \in Seq(Enders) /\ Len(Tail(d)) = Len(d) - 1
        /\ \A i \in 1..Len(Tail(d)) : Tail(d)[i] = d[i + 1]
    BY DEF Door, Heads
  <1>3. \A i \in 1..Len(Tail(d)) :
          Tail(d)[i] # t /\ Tail(d)[i] \in Enders /\ at[Tail(d)[i]] = "door"
    BY <1>2 DEF Door
  <1>4. \A i, j \in 1..Len(Tail(d)) : Tail(d)[i] = Tail(d)[j] => i = j
    BY <1>2 DEF Door
  <1>5. \A x \in Enders : at'[x] \notin Leaving
    BY <1>1, Sorts DEF Door, Heads, Leaving
  <1>6. at'["join"] \in {"idle", "door"}
    BY <1>1, Sorts DEF Door, Heads, Enders
  <1>7. door' # << >> => 1 \in 1..Len(door')
    BY <1>2
  <1>8. \A i \in 1..Len(door') : door'[i] # "none" /\ at'[door'[i]] = "door"
    BY <1>1, <1>3, Sorts
  <1>9. QED
    BY <1>2, <1>4, <1>5, <1>6, <1>7, <1>8 DEF Door

\* Another task goes on, without the door.
LEMMA OtherGoes ==
  ASSUME Types, NEW t \in Enders, NEW d, Door(d, t), ~Heads(d, t), NEW stage,
         at' = [at EXCEPT ![t] = stage], door' = d, joined' => joined, io' \in {io, 0},
         stage \notin Leaving, t = "join" => stage \in {"idle", "door"}
  PROVE  Door(door, "none")'
  <1>1. at'[t] = stage /\ \A x \in Tasks \ {t} : at'[x] = at[x]
    BY Sorts DEF Types
  <1>2. \A i \in 1..Len(d) : d[i] \in Enders /\ d[i] # t
    BY DEF Door, Heads
  <1>3. d # << >> => 1 \in 1..Len(d)
    BY DEF Door
  <1>4. QED
    BY <1>1, <1>2, <1>3, Sorts DEF Door, Heads

\* The others, when t queues behind them.
LEMMA OtherWaits ==
  ASSUME Types, NEW t \in Enders, NEW d, Door(d, t), d # << >>, ~Heads(d, t),
         at' = [at EXCEPT ![t] = "door"], door' = Append(d, t), joined' => joined, io' = io
  PROVE  Door(door, "none")'
  <1>1. at'[t] = "door" /\ \A x \in Tasks \ {t} : at'[x] = at[x]
    BY Sorts DEF Types
  <1>2. \A i \in 1..Len(d) : d[i] \in Enders /\ d[i] # t
    BY DEF Door, Heads
  <1>3. /\ door' \in Seq(Enders) /\ Len(door') = Len(d) + 1 /\ door'[Len(d) + 1] = t
        /\ \A i \in 1..Len(d) : door'[i] = d[i]
    BY DEF Door
  <1>4. Len(d) \in Nat /\ 1 \in 1..Len(d) /\ door' # << >>
    BY <1>3 DEF Door
  <1>5. \A i, j \in 1..Len(door') : door'[i] = door'[j] => i = j
    BY <1>2, <1>3, <1>4 DEF Door
  <1>6. \A i \in 2..Len(door') : door'[i] # "none" /\ at'[door'[i]] = "door"
    BY <1>1, <1>2, <1>3, <1>4, Sorts DEF Door
  <1>7. /\ door'[1] = d[1] /\ d[1] \in Enders /\ d[1] # t /\ at'[d[1]] = at[d[1]]
    BY <1>1, <1>2, <1>3, <1>4, Sorts
  <1>8. \A x \in Enders : at'[x] \in Leaving => door' # << >> /\ door'[1] = x
    BY <1>1, <1>4, <1>7, Sorts DEF Door, Leaving
  <1>9. at'["join"] \notin {"idle", "door"} => door' # << >> /\ door'[1] = "join"
    BY <1>1, <1>4, <1>7, Sorts DEF Door, Enders
  <1>10. QED
    BY <1>3, <1>5, <1>6, <1>7, <1>8, <1>9 DEF Door
-----------------------------------------------------------------------------
(* Where a task goes                                                       *)

\* A task goes to its next stage; what is not about the door stays true.
LEMMA GotoRest ==
  ASSUME Rest, NEW t \in Tasks, NEW stage \in Stages, Goto(t, stage),
         stage = "gate" => t \in Requests, stage = "closing" => io # 0,
         stage = "relogin" => t # "join", io' \in Nat, last' \in Nat, joined' \in BOOLEAN,
         gate' \in {"pending", "ok", "failed", "cancelled"},
         phase' \in {"READY", "CONNECTING", "CONNECTED"},
         phase' = "READY" => io' = 0
  PROVE  Rest' /\ at' = [at EXCEPT ![t] = stage]
  <1>1. /\ at' = [at EXCEPT ![t] = stage]
        /\ via' = [via EXCEPT ![t] = IF stage \in Remote THEN io ELSE 0]
    BY DEF Goto
  <1>2. Types'
    BY <1>1 DEF Rest, Types
  <1>3. Awaited'
    BY <1>1 DEF Rest, Types, Awaited, Remote
  <1>4. PortalFree'
    BY DEF PortalFree
  <1>5. QED
    BY <1>1, <1>2, <1>3, <1>4 DEF Rest

\* disconnect() returns; a holder opens the door to the next one.
LEMMA FinishInv ==
  ASSUME Rest, NEW t \in Enders, NEW d, Door(d, t), Finish(t, d), io = 0, io' = 0,
         gate' \in {"pending", "ok", "failed", "cancelled"},
         joined' \in BOOLEAN, joined' => joined, last' = last
  PROVE  PInv'
  <1>1. Rest' /\ at' = [at EXCEPT ![t] = "idle"]
    <2>1. Goto(t, "idle") /\ "idle" \in Stages /\ phase' \in {"READY", "CONNECTING", "CONNECTED"}
      BY DEF Finish, Rest, Types, Stages
    <2>2. QED
      BY <2>1, GotoRest, Sorts DEF Rest, Types
  <1>2. CASE Heads(d, t)
    <2>1. door' = Tail(d)
      BY <1>2, HeadDoor DEF Finish, Door
    <2>2. QED
      BY <1>1, <1>2, <2>1, HolderLeaves DEF PInv, Rest
  <1>3. CASE ~Heads(d, t)
    <2>1. door' = d
      BY <1>3, HeadDoor DEF Finish, Door
    <2>2. QED
      BY <1>1, <1>3, <2>1, OtherGoes DEF PInv, Rest, Leaving
  <1>4. QED
    BY <1>2, <1>3

\* A task goes to one of the stages of disconnect(), whether it holds the door
\* or not.
LEMMA EndingInv ==
  ASSUME Rest, NEW t \in Enders, NEW d, Door(d, t), NEW stage \in Ending, Goto(t, stage),
         door' = d, phase' = phase, last' = last,
         gate' \in {"pending", "ok", "failed", "cancelled"},
         joined' \in BOOLEAN, joined' => joined, Heads(d, t) => ~joined', t = "join" => Heads(d, t),
         io' \in {io, 0}, stage \in {"closing", "event"} => io' = 0,
         stage = "closing" => io # 0
  PROVE  PInv'
  <1>1. stage \in Stages /\ stage # "gate" /\ stage # "relogin"
    BY DEF Ending, Stages
  <1>2. Rest' /\ at' = [at EXCEPT ![t] = stage]
    BY <1>1, GotoRest, Sorts DEF Rest, Types, PortalFree
  <1>3. CASE Heads(d, t)
    BY <1>2, <1>3, HolderStays DEF PInv, Rest
  <1>4. CASE ~Heads(d, t)
    <2>1. stage \notin Leaving
      BY DEF Ending, Leaving
    <2>2. QED
      BY <1>2, <1>4, <2>1, OtherGoes DEF PInv, Rest
  <1>5. QED
    BY <1>3, <1>4

\* The gate is cancelled and self.io given up.
LEMMA CutInv ==
  ASSUME Rest, NEW t \in Enders, NEW d, Door(d, t), Cut(t, d), last' = last,
         joined' \in BOOLEAN, joined' => joined, Heads(d, t) => ~joined', t = "join" => Heads(d, t)
  PROVE  PInv'
  <1>1. io' = 0 /\ gate' \in {"pending", "ok", "failed", "cancelled"}
    BY DEF Cut, Rest, Types
  <1>2. CASE io = 0
    BY <1>1, <1>2, FinishInv DEF Cut
  <1>3. CASE io # 0
    <2>1. PICK stage \in {"closing", "event"} : Goto(t, stage)
      BY <1>3 DEF Cut
    <2>2. door' = d /\ phase' = phase /\ stage \in Ending
      BY <1>3 DEF Cut, Ending
    <2>3. QED
      BY <1>1, <1>3, <2>1, <2>2, EndingInv
  <1>4. QED
    BY <1>2, <1>3

\* disconnect(), at once or when the lock is free.
LEMMA DisconnectInv ==
  ASSUME Rest, NEW t \in Enders, NEW d, Door(d, t), Disconnect(t, d), last' = last,
         joined' \in BOOLEAN, joined' => joined, Heads(d, t) => ~joined', t = "join" => Heads(d, t)
  PROVE  PInv'
  <1>1. CASE io = 0 /\ Finish(t, d) /\ UNCHANGED << line, gate, io, refresh >>
    BY <1>1, FinishInv DEF Rest, Types
  <1>2. CASE Cut(t, d)
    BY <1>2, CutInv
  <1>3. CASE Goto(t, "cancel") /\ door' = d /\ UNCHANGED << gate, io, refresh, phase >>
    <2>1. "cancel" \in Ending
      BY DEF Ending
    <2>2. QED
      BY <1>3, <2>1, EndingInv DEF Rest, Types
  <1>4. QED
    BY <1>1, <1>2, <1>3 DEF Disconnect

\* ready() and send() of the holder's unpublish.
LEMMA PassInv ==
  ASSUME Rest, NEW t \in Enders, NEW d, NEW rest, Door(d, t), Heads(d, t), Pass(t, d, rest),
         ~joined', joined' \in BOOLEAN, UNCHANGED << gate, io, phase, last >>
  PROVE  PInv'
  <1>1. Passing \in {"wait", "sent", "hung", "refused", "cancelled"}
    BY DEF Passing, SendOutcome, Rest, Types
  <1>2. PICK stage : stage = AfterPassing(t) /\ Goto(t, stage)
    BY DEF Pass
  <1>3. stage \in {"unpublish", "unpublishing", "hung", "closed"}
    BY <1>1, <1>2, Sorts DEF AfterPassing
  <1>4. Rest' /\ at' = [at EXCEPT ![t] = stage]
    <2>1. stage \in Stages /\ stage # "gate" /\ stage # "closing" /\ stage # "relogin"
      BY <1>3 DEF Stages
    <2>2. QED
      BY <1>2, <2>1, GotoRest, Sorts DEF Rest, Types, PortalFree
  <1>5. door' = d /\ stage \in Leaving \cup Ending /\ stage \notin {"closing", "event"}
    BY <1>3 DEF Pass, Leaving, Ending
  <1>6. QED
    BY <1>4, <1>5, HolderStays DEF PInv, Rest

\* The unpublish of a leave reaches ready().
LEMMA AskGateInv ==
  ASSUME Rest, NEW t \in Enders, NEW d, Door(d, t), Heads(d, t), AskGate(t, d),
         ~joined', joined' \in BOOLEAN, UNCHANGED << gate, io, phase, last >>
  PROVE  PInv'
  <1>1. CASE Pass(t, d, << >>)
    BY <1>1, PassInv
  <1>2. CASE Goto(t, "unpublish") /\ door' = d
    <2>1. Rest' /\ at' = [at EXCEPT ![t] = "unpublish"]
      <3>1. "unpublish" \in Stages
        BY DEF Stages
      <3>2. QED
        BY <1>2, <3>1, GotoRest, Sorts DEF Rest, Types, PortalFree
    <2>2. QED
      BY <1>2, <2>1, HolderStays DEF PInv, Rest, Leaving
  <1>3. QED
    BY <1>1, <1>2, Sorts DEF AskGate

\* _try_leave of the holder of the door.
LEMMA TryLeaveInv ==
  ASSUME Rest, NEW t \in Enders, NEW d, Door(d, t), Heads(d, t), TryLeave(t, d), last' = last
  PROVE  PInv'
  <1>1. CASE AskGate(t, d) /\ UNCHANGED << gate, io, refresh, phase >>
    BY <1>1, AskGateInv DEF TryLeave
  <1>2. CASE Disconnect(t, d)
    BY <1>2, DisconnectInv DEF TryLeave
  <1>3. QED
    BY <1>1, <1>2 DEF TryLeave

\* leave() is called: the door is free, or t waits at it.
LEMMA LeaveNowInv ==
  ASSUME PInv, NEW t \in Enders, at[t] # "door", ~Heads(door, t), LeaveNow(t), last' = last
  PROVE  PInv'
  <1>1. CASE door = << >> /\ TryLeave(t, << t >>)
    BY <1>1, DoorTaken, TryLeaveInv DEF PInv
  <1>2. CASE door # << >> /\ door' = Append(door, t) /\ Goto(t, "door")
             /\ UNCHANGED << line, gate, io, refresh, phase, joined >>
    <2>1. Rest' /\ at' = [at EXCEPT ![t] = "door"]
      <3>1. "door" \in Stages
        BY DEF Stages
      <3>2. QED
        BY <1>2, <3>1, GotoRest, Sorts DEF PInv, Rest, Types, PortalFree
    <2>2. QED
      BY <1>2, <2>1, DoorOf, OtherWaits DEF PInv, Rest
  <1>3. QED
    BY <1>1, <1>2 DEF LeaveNow

\* A step of somebody else, or the loss of a link: nobody moves to the door or
\* away from it.
LEMMA Aside ==
  ASSUME PInv, Types', Awaited', UNCHANGED << door, io, joined, phase >>,
         \A x \in Enders :
           \/ at'[x] = at[x]
           \/ at[x] \notin {"idle", "door"} /\ at'[x] = "hung"
           \/ x # "join" /\ at[x] \in {"idle", "relogin"} /\ at'[x] \in {"idle", "relogin", "mark"}
           \/ x # "join" /\ at[x] = "mark" /\ at'[x] = "idle"
           \/ at[x] = "unpublishing" /\ at'[x] = "closed"
           \/ at[x] = "closing" /\ at'[x] = "event"
  PROVE  PInv'
  <1>1. PortalFree'
    BY DEF PInv, Rest, PortalFree
  <1>2. door # << >> => door[1] \in Enders
    BY DEF PInv, Door
  <1>3. /\ \A i \in 2..Len(door) : door[i] \in Enders /\ at[door[i]] = "door"
        /\ \A i \in 2..Len(door) : door[i] # "none"
    BY DEF PInv, Door
  <1>4. \A i \in 2..Len(door) : at'[door[i]] = "door"
    BY <1>3
  <1>5. ASSUME door # << >>
        PROVE  /\ at'[door[1]] \in {"door"} \cup Leaving \cup Ending
                                  \cup (IF door[1] = "join" THEN Joining ELSE {})
               /\ at'[door[1]] # "door" => ~joined
               /\ at'[door[1]] \in {"closing", "event"} => io = 0
    <2> DEFINE x == door[1]
    <2>1. /\ x \in Enders
          /\ at[x] \in {"door"} \cup Leaving \cup Ending \cup (IF x = "join" THEN Joining ELSE {})
          /\ at[x] # "door" => ~joined
          /\ at[x] \in {"closing", "event"} => io = 0
      BY <1>2, <1>5, Sorts DEF PInv, Door
    <2>2. at[x] \notin {"idle", "relogin"} /\ (at[x] = "mark" => x = "join")
      BY <2>1 DEF Leaving, Joining, Ending
    <2>3. \/ at'[x] = at[x] \/ (at[x] \notin {"idle", "door"} /\ at'[x] = "hung")
          \/ at[x] = "unpublishing" /\ at'[x] = "closed"
          \/ at[x] = "closing" /\ at'[x] = "event"
      BY <2>1, <2>2
    <2>4. QED
      BY <2>1, <2>3 DEF Leaving, Ending
  <1>6. \A x \in Enders : at'[x] \in Leaving => door # << >> /\ door[1] = x
    <2>1. \A x \in Enders : at'[x] \in Leaving => at[x] \in Leaving
      BY DEF Leaving
    <2>2. QED
      BY <2>1, Sorts DEF PInv, Door
  <1>7. at'["join"] \notin {"idle", "door"} => door # << >> /\ door[1] = "join"
    <2>1. at'["join"] \notin {"idle", "door"} => at["join"] \notin {"idle", "door"}
      BY DEF Enders
    <2>2. QED
      BY <2>1 DEF PInv, Door
  <1>8. Door(door, "none")'
    BY <1>3, <1>4, <1>5, <1>6, <1>7 DEF PInv, Door
  <1>9. QED
    BY <1>1, <1>8 DEF PInv, Rest

-----------------------------------------------------------------------------
(* The actions                                                             *)

\* A socket loses its link: what hangs on it had asked for something.
LEMMA LoseLinkMoves ==
  ASSUME PInv, NEW k \in Nat \ {0}, NEW t \in Tasks, NEW stage \in {"idle", "event", "unmark"},
         LoseLink(k, t, stage)
  PROVE  /\ at' \in [Tasks -> Stages] /\ via' \in [Tasks -> Nat]
         /\ Awaited'
         /\ at'[t] = stage
         /\ \A x \in Tasks \ {t} :
              \/ at'[x] = at[x]
              \/ at[x] \notin {"idle", "door"} /\ at'[x] = "hung"
              \/ at[x] = "relogin" /\ at'[x] = "idle"
  <1> DEFINE hangs(x) == via[x] = k /\ at[x] \notin {"closing", "unmark"}
  <1>1. /\ at' = [x \in Tasks |-> IF x = t THEN stage
                                ELSE IF ~hangs(x) THEN at[x]
                                ELSE IF at[x] = "relogin" THEN "idle" ELSE "hung"]
        /\ via' = [x \in Tasks |-> IF x = t THEN IF stage = "unmark" THEN k ELSE 0
                                 ELSE IF hangs(x) THEN 0 ELSE via[x]]
    BY DEF LoseLink
  <1>2. \A x \in Tasks : hangs(x) => at[x] \notin {"idle", "door"}
    BY DEF PInv, Rest, Awaited, Remote
  <1>3. at' \in [Tasks -> Stages] /\ via' \in [Tasks -> Nat]
    BY <1>1 DEF PInv, Rest, Types, Stages
  <1>4. ASSUME NEW x \in Tasks
        PROVE  /\ via'[x] # 0 => at'[x] \in Remote \cup {"unmark"}
               /\ at'[x] = "closing" => via'[x] # 0
               /\ at'[x] = "gate" => x \in Requests
    <2>1. CASE x = t
      BY <1>1, <2>1
    <2>2. CASE x # t /\ hangs(x)
      BY <1>1, <2>2
    <2>3. CASE x # t /\ ~hangs(x)
      BY <1>1, <2>3 DEF PInv, Rest, Awaited
    <2>4. QED
      BY <2>1, <2>2, <2>3
  <1>5. Awaited'
    <2>1. at'["join"] # "relogin"
      BY <1>1, Sorts DEF PInv, Rest, Awaited, Enders
    <2>2. QED
      BY <1>4, <2>1 DEF Awaited
  <1>6. QED
    BY <1>1, <1>2, <1>3, <1>5

\* The lock is handed to somebody who waits at ready().
LEMMA AdmittedInv ==
  ASSUME PInv, NEW t \in Requests \cup Enders, Admitted(t)
  PROVE  PInv'
  <1>1. CASE t \in Enders
    <2>1. at[t] = "unpublish" /\ Heads(door, t)
      BY <1>1, Sorts DEF Admitted, PInv, Rest, Awaited, Door, Leaving, Heads
    <2>2. Door(door, t) /\ ~joined
      BY <1>1, <2>1, DoorOf, Sorts DEF PInv, Door, Heads
    <2>3. QED
      BY <1>1, <2>1, <2>2, PassInv DEF Admitted, PInv, Rest, Types, socketVars
  <1>2. CASE t \in Requests
    <2>1. Pass(t, door, Tail(line)) /\ door' = door
      BY <1>2, Sorts DEF Admitted, Pass
    <2>2. PICK stage : stage = AfterPassing(t) /\ Goto(t, stage)
      BY <2>1 DEF Pass
    <2>3. stage \in {"gate", "asked", "hung", "over"}
      BY <1>2, <2>2 DEF AfterPassing, Passing, SendOutcome, PInv, Rest, Types
    <2>4. Rest' /\ at' = [at EXCEPT ![t] = stage]
      BY <1>2, <2>2, <2>3, GotoRest, Sorts
      DEF Admitted, PInv, Rest, Types, PortalFree, Stages, socketVars
    <2>5. \A x \in Enders : at'[x] = at[x]
      BY <1>2, <2>4, Sorts DEF PInv, Rest, Types
    <2>6. QED
      BY <2>1, <2>4, <2>5, Aside DEF Admitted, Rest
  <1>3. QED
    BY <1>1, <1>2

\* A task that is no ender moves.
LEMMA RequestMoves ==
  ASSUME PInv, NEW t \in Tasks, t \notin Enders, NEW stage \in Stages, Goto(t, stage),
         stage = "gate" => t \in Requests, stage \notin {"closing", "relogin"},
         UNCHANGED << io, last, joined, phase, door >>,
         gate' \in {"pending", "ok", "failed", "cancelled"}
  PROVE  PInv'
  <1>1. Rest' /\ at' = [at EXCEPT ![t] = stage]
    BY GotoRest DEF PInv, Rest, Types, PortalFree
  <1>2. \A x \in Enders : at'[x] = at[x]
    BY <1>1, Sorts DEF PInv, Rest, Types
  <1>3. QED
    BY <1>1, <1>2, Aside DEF Rest

\* Requests do not come near the door.
LEMMA RequestInv ==
  ASSUME PInv, NEW r \in Requests, Request(r) \/ Response(r) \/ CancelRequest(r)
  PROVE  PInv'
  <1>1. r \in Tasks /\ r \notin Enders
    BY Sorts
  <1>2. CASE Request(r)
    <2>1. PICK stage : stage \in {"gate", AfterPassing(r)} /\ Goto(r, stage)
      BY <1>2 DEF Request, AskGate, Pass
    <2>2. stage \in {"gate", "asked", "hung", "over"} /\ stage \in Stages
      BY <2>1 DEF AfterPassing, Passing, SendOutcome, PInv, Rest, Types, Stages
    <2>3. door' = door
      BY <1>1, <1>2 DEF Request, AskGate, Pass
    <2>4. QED
      BY <1>1, <1>2, <2>1, <2>2, <2>3, RequestMoves DEF Request, PInv, Rest, Types, socketVars
  <1>3. CASE Response(r) \/ CancelRequest(r)
    <2>1. "over" \in Stages
      BY DEF Stages
    <2>2. QED
      BY <1>1, <1>3, <2>1, RequestMoves
      DEF Response, CancelRequest, PInv, Rest, Types, socketVars
  <1>4. QED
    BY <1>2, <1>3

\* The later steps of those that end a session.
LEMMA EnderInv ==
  ASSUME PInv, NEW t \in Enders,
         CancelReady(t) \/ Told(t) \/ AtDoor(t) \/ Unpublished(t) \/ ChannelsClosed(t)
  PROVE  PInv'
  <1>1. at[t] # "door" \/ Heads(door, t) => Door(door, t)
    BY DoorOf DEF PInv
  <1>2. /\ Heads(door, t) => at[t] = "door" \/ ~joined
        /\ t = "join" => at[t] \in {"idle", "door"} \/ Heads(door, t)
    BY Sorts DEF PInv, Door, Heads
  <1>3. CASE CancelReady(t)
    BY <1>1, <1>2, <1>3, CutInv DEF CancelReady, PInv, Rest, Types, socketVars
  <1>4. CASE Told(t)
    <2>1. CASE joined /\ LeaveNow(t)
      BY <1>2, <1>4, <2>1, LeaveNowInv DEF Told, socketVars
    <2>2. CASE ~joined /\ Finish(t, door) /\ UNCHANGED << line, gate, io, refresh, joined >>
      <3>1. CASE Heads(door, t)
        <4>1. io = 0
          BY <1>4, <3>1, Sorts DEF Told, PInv, Door, Heads
        <4>2. QED
          BY <1>1, <1>4, <2>2, <4>1, FinishInv DEF Told, PInv, Rest, Types, socketVars
      <3>2. CASE ~Heads(door, t)
        <4>1. door' = door /\ phase' = phase /\ Goto(t, "idle")
          BY <2>2, <3>2, HeadDoor DEF Finish, PInv, Door
        <4>2. Rest' /\ at' = [at EXCEPT ![t] = "idle"]
          <5>1. "idle" \in Stages
            BY DEF Stages
          <5>2. QED
            BY <1>4, <2>2, <4>1, <5>1, GotoRest, Sorts
            DEF Told, PInv, Rest, Types, PortalFree, socketVars
        <4>3. QED
          BY <1>1, <1>4, <2>2, <3>2, <4>1, <4>2, OtherGoes
          DEF Told, PInv, Rest, Leaving
      <3>3. QED
        BY <3>1, <3>2
    <2>3. QED
      BY <1>4, <2>1, <2>2 DEF Told
  <1>5. CASE AtDoor(t)
    <2>1. Heads(door, t) /\ Door(door, t)
      BY <1>1, <1>5, HeadDoor DEF AtDoor, PInv, Door
    <2>2. CASE joined /\ TryLeave(t, door)
      BY <1>5, <2>1, <2>2, TryLeaveInv DEF AtDoor, PInv, socketVars
    <2>3. CASE Goto(t, "idle") /\ door' = Tail(door)
               /\ UNCHANGED << line, gate, io, refresh, phase, joined >>
      <3>1. Rest' /\ at' = [at EXCEPT ![t] = "idle"]
        <4>1. "idle" \in Stages
          BY DEF Stages
        <4>2. QED
          BY <1>5, <2>3, <4>1, GotoRest, Sorts
          DEF AtDoor, PInv, Rest, Types, PortalFree, socketVars
      <3>2. QED
        BY <2>1, <2>3, <3>1, HolderLeaves DEF PInv, Rest
    <2>4. QED
      BY <1>5, <2>2, <2>3 DEF AtDoor
  <1>6. CASE Unpublished(t)
    <2>1. Rest' /\ at' = [at EXCEPT ![t] = "closed"]
      <3>1. "closed" \in Stages
        BY DEF Stages
      <3>2. QED
        BY <1>6, <3>1, GotoRest, Sorts
        DEF Unpublished, PInv, Rest, Types, PortalFree, socketVars
    <2>2. \A x \in Enders : at'[x] = at[x] \/ (at[x] = "unpublishing" /\ at'[x] = "closed")
      BY <1>6, <2>1, Sorts DEF Unpublished, PInv, Rest, Types
    <2>3. QED
      BY <1>6, <2>1, <2>2, Aside DEF Unpublished, Rest
  <1>7. CASE ChannelsClosed(t)
    BY <1>1, <1>2, <1>7, DisconnectInv DEF ChannelsClosed, PInv, Rest, Types, socketVars
  <1>8. QED
    BY <1>3, <1>4, <1>5, <1>6, <1>7

\* connect() returns, and join with it.
LEMMA WelcomeInv ==
  ASSUME PInv, at["join"] \in Joining, Welcome,
         gate' \in {"pending", "ok", "failed", "cancelled"}, UNCHANGED << io, last >>
  PROVE  PInv'
  <1>1. "join" \in Enders /\ "idle" \in Stages
    BY DEF Enders, Stages
  <1>2. Heads(door, "join") /\ Door(door, "join")
    BY <1>1, DoorOf, Sorts DEF PInv, Door, Heads, Joining
  <1>3. Rest' /\ at' = [at EXCEPT !["join"] = "idle"]
    BY <1>1, GotoRest, Sorts DEF Welcome, PInv, Rest, Types
  <1>4. QED
    BY <1>1, <1>2, <1>3, HolderLeaves DEF Welcome, PInv, Rest

\* join() goes on with the door.
LEMMA JoinGoes ==
  ASSUME Rest, NEW d, Door(d, "join"), Heads(d, "join"), NEW stage \in Joining,
         Goto("join", stage), door' = d, ~joined', joined' \in BOOLEAN,
         gate' \in {"pending", "ok", "failed", "cancelled"}, io' \in Nat, last' \in Nat,
         phase' \in {"READY", "CONNECTING", "CONNECTED"}, phase' = "READY" => io' = 0
  PROVE  PInv'
  <1>1. "join" \in Enders /\ stage \in Stages /\ stage \notin {"gate", "closing", "relogin"}
        /\ stage \notin {"closing", "event"}
    BY DEF Enders, Stages, Joining
  <1>2. Rest' /\ at' = [at EXCEPT !["join"] = stage]
    BY <1>1, GotoRest, Sorts
  <1>3. QED
    BY <1>1, <1>2, HolderStays DEF PInv, Rest

\* The holder of the door makes a socket, or fails.
LEMMA ConnectInv ==
  ASSUME Rest, NEW d, Door(d, "join"), Heads(d, "join"), Connect(d), UNCHANGED << gate, joined >>
  PROVE  PInv'
  <1>1. "join" \in Enders /\ "idle" \in Stages /\ "connecting" \in Joining
    BY DEF Enders, Stages, Joining
  <1>2. CASE Goto("join", "idle") /\ door' = Tail(d) /\ UNCHANGED << io, last, phase >>
    <2>1. Rest' /\ at' = [at EXCEPT !["join"] = "idle"]
      BY <1>1, <1>2, GotoRest, Sorts DEF Rest, Types, PortalFree
    <2>2. QED
      BY <1>1, <1>2, <2>1, HolderLeaves DEF PInv, Rest
  <1>3. CASE /\ ~joined /\ last' = last + 1 /\ io' = last + 1
             /\ phase' = "CONNECTING" /\ Goto("join", "connecting") /\ door' = d
    BY <1>1, <1>3, JoinGoes DEF Rest, Types
  <1>4. QED
    BY <1>2, <1>3 DEF Connect

\* The steps of join.
LEMMA JoinInv ==
  ASSUME PInv, Join \/ Connected \/ LoggedIn \/ MarkReady("join")
  PROVE  PInv'
  <1>1. "join" \in Enders
    BY DEF Enders
  <1>2. at["join"] \in Joining => Heads(door, "join") /\ Door(door, "join") /\ ~joined
    BY <1>1, DoorOf, Sorts DEF PInv, Door, Heads, Joining
  <1>3. CASE Join
    <2>1. CASE at["join"] = "idle" /\ door = << >> /\ Connect(<< "join" >>)
      BY <1>1, <1>3, <2>1, DoorTaken, ConnectInv DEF Join, PInv
    <2>2. CASE /\ at["join"] = "idle" /\ door # << >> /\ door' = Append(door, "join")
               /\ Goto("join", "door") /\ UNCHANGED << io, last, phase >>
      <3>1. Door(door, "join") /\ ~Heads(door, "join")
        BY <1>1, <2>2, DoorOf, Sorts DEF PInv, Door, Heads, Leaving, Joining, Ending
      <3>2. Rest' /\ at' = [at EXCEPT !["join"] = "door"]
        <4>1. "door" \in Stages
          BY DEF Stages
        <4>2. QED
          BY <1>1, <1>3, <2>2, <4>1, GotoRest, Sorts DEF Join, PInv, Rest, Types, PortalFree
      <3>3. QED
        BY <1>1, <1>3, <2>2, <3>1, <3>2, OtherWaits DEF Join, PInv, Rest
    <2>3. CASE Holds("join", door) /\ Connect(door)
      <3>1. Heads(door, "join") /\ Door(door, "join")
        BY <1>1, <2>3, HeadDoor, DoorOf DEF PInv, Door
      <3>2. QED
        BY <1>3, <2>3, <3>1, ConnectInv DEF Join, PInv
    <2>4. QED
      BY <1>3, <2>1, <2>2, <2>3 DEF Join
  <1>4. CASE Connected
    <2>1. at["join"] \in Joining /\ last' = last /\ "login" \in Joining
      BY <1>4 DEF Connected, Joining
    <2>2. CASE TryLeave("join", door)
      BY <1>1, <1>2, <2>1, <2>2, TryLeaveInv DEF PInv
    <2>3. CASE Goto("join", "login") /\ UNCHANGED << line, gate, io, refresh, phase, joined, door >>
      BY <1>2, <2>1, <2>3, JoinGoes DEF PInv, Rest, Types, PortalFree
    <2>4. QED
      BY <1>4, <2>2, <2>3 DEF Connected
  <1>5. CASE LoggedIn
    <2>1. at["join"] \in Joining /\ last' = last /\ "mark" \in Joining
      BY <1>5 DEF LoggedIn, Joining
    <2>2. CASE TryLeave("join", door)
      BY <1>1, <1>2, <2>1, <2>2, TryLeaveInv DEF PInv
    <2>3. CASE Goto("join", "mark")
                 /\ UNCHANGED << gate, hooked, joined, phase, door, refresh, io >>
      BY <1>2, <2>1, <2>3, JoinGoes DEF PInv, Rest, Types, PortalFree
    <2>4. CASE Welcome /\ gate' = (IF io = 0 THEN gate ELSE GateMarked) /\ UNCHANGED io
      BY <2>1, <2>4, WelcomeInv DEF GateMarked, PInv, Rest, Types
    <2>5. QED
      BY <1>5, <2>2, <2>3, <2>4 DEF LoggedIn
  <1>6. CASE MarkReady("join")
    <2>1. at["join"] \in Joining
      BY <1>6 DEF MarkReady, Joining
    <2>2. QED
      BY <1>6, <2>1, WelcomeInv DEF MarkReady, GateMarked, PInv, Rest, Types
  <1>7. QED
    BY <1>3, <1>4, <1>5, <1>6

\* A leave of the application.
LEMMA LeaveInv ==
  ASSUME PInv, Leave
  PROVE  PInv'
  <1>1. "leave" \in Enders /\ ~Heads(door, "leave")
    BY Sorts DEF Enders, Leave, PInv, Door, Heads, Leaving, Joining, Ending
  <1>2. QED
    BY <1>1, LeaveNowInv DEF Leave, socketVars

\* The portal drops the client, or a handler fails.
LEMMA FatalInv ==
  ASSUME PInv, NEW t \in {"drop", "handler"}, Fatal(t)
  PROVE  PInv'
  <1>1. t \in Enders /\ ~Heads(door, t)
    BY Sorts DEF Enders, Fatal, PInv, Door, Heads, Leaving, Joining, Ending
  <1>2. Door(door, t)
    BY <1>1, DoorOf DEF Fatal, PInv
  <1>3. QED
    BY <1>1, <1>2, DisconnectInv DEF Fatal, PInv, Rest, Types, socketVars

\* The relogin runs without the door, but for an end of the session.
LEMMA ReloginGoes ==
  ASSUME PInv, at["relogin"] \in {"idle", "relogin", "mark"},
         NEW stage \in {"idle", "relogin", "mark"},
         at["relogin"] = "mark" => stage = "idle", Goto("relogin", stage),
         UNCHANGED << io, last, joined, phase, door >>,
         gate' \in {"pending", "ok", "failed", "cancelled"}
  PROVE  PInv'
  <1>1. "relogin" \in Enders /\ stage \in Stages /\ stage \notin {"gate", "closing"}
    BY DEF Enders, Stages
  <1>2. Rest' /\ at' = [at EXCEPT !["relogin"] = stage]
    BY <1>1, GotoRest, Sorts DEF PInv, Rest, Types, PortalFree
  <1>3. at'["relogin"] = stage /\ \A x \in Enders \ {"relogin"} : at'[x] = at[x]
    BY <1>1, <1>2, Sorts DEF PInv, Rest, Types
  <1>4. \A x \in Enders :
          \/ at'[x] = at[x]
          \/ x # "join" /\ at[x] \in {"idle", "relogin"} /\ at'[x] \in {"idle", "relogin", "mark"}
          \/ x # "join" /\ at[x] = "mark" /\ at'[x] = "idle"
    BY <1>3
  <1>5. QED
    BY <1>2, <1>4, Aside DEF Rest

\* A relogin that fails ends the session, without the door.
LEMMA ReloginEnds ==
  ASSUME PInv, at["relogin"] \in {"idle", "relogin"}, Disconnect("relogin", door),
         UNCHANGED << last, joined >>
  PROVE  PInv'
  <1>1. "relogin" \in Enders /\ ~Heads(door, "relogin")
    BY Sorts DEF Enders, PInv, Door, Heads, Leaving, Joining, Ending
  <1>2. Door(door, "relogin")
    BY <1>1, DoorOf DEF PInv
  <1>3. QED
    BY <1>1, <1>2, DisconnectInv DEF PInv, Rest, Types

\* The steps of the relogin.
LEMMA ReloginInv ==
  ASSUME PInv, LinkBack \/ Relogged \/ MarkReady("relogin")
  PROVE  PInv'
  <1>1. CASE LinkBack
    <2>1. PICK k \in 1..MaxJoins : Reconnect(k)
      BY <1>1 DEF LinkBack
    <2>2. CASE UNCHANGED << at, via, line, gate, io, door, teller, phase, refresh >>
      BY <2>1, <2>2, Aside DEF Reconnect, PInv, Rest, Types, Awaited
    <2>3. CASE /\ Goto("relogin", "relogin")
               /\ UNCHANGED << line, gate, io, door, phase, refresh >>
      BY <2>1, <2>3, ReloginGoes DEF Reconnect, PInv, Rest, Types
    <2>4. CASE Disconnect("relogin", door)
      BY <2>1, <2>4, ReloginEnds DEF Reconnect
    <2>5. QED
      BY <2>1, <2>2, <2>3, <2>4 DEF Reconnect
  <1>2. CASE Relogged
    <2>1. CASE Disconnect("relogin", door)
      BY <1>2, <2>1, ReloginEnds DEF Relogged
    <2>2. CASE /\ Goto("relogin", "mark") \/ Goto("relogin", "idle")
               /\ gate' \in {gate, GateMarked} /\ UNCHANGED << io, door, phase >>
      BY <1>2, <2>2, ReloginGoes DEF Relogged, GateMarked, PInv, Rest, Types
    <2>3. QED
      BY <1>2, <2>1, <2>2 DEF Relogged
  <1>3. CASE MarkReady("relogin")
    BY <1>3, ReloginGoes DEF MarkReady, GateMarked, PInv, Rest, Types
  <1>4. QED
    BY <1>1, <1>2, <1>3

\* A link is lost, or closed.
LEMMA LinkInv ==
  ASSUME PInv, LinkLost \/ LinkDown \/ \E t \in Enders : Closed(t)
  PROVE  PInv'
  <1>1. NotReady \in {"pending", "ok", "failed", "cancelled"}
    BY DEF NotReady, PInv, Rest, Types
  <1>2. CASE LinkLost
    <2>1. PICK stage \in {"idle", "unmark"} : LoseLink(io, "lost", stage)
      BY <1>2 DEF LinkLost
    <2>2. /\ io \in Nat \ {0} /\ gate' \in {"pending", "ok", "failed", "cancelled"}
          /\ "lost" \in Tasks /\ stage \in {"idle", "event", "unmark"}
      BY <1>1, <1>2, Sorts DEF LinkLost, Down, PInv, Rest, Types
    <2>3. /\ at' \in [Tasks -> Stages] /\ via' \in [Tasks -> Nat] /\ Awaited'
          /\ \A x \in Tasks \ {"lost"} :
               \/ at'[x] = at[x] \/ (at[x] \notin {"idle", "door"} /\ at'[x] = "hung")
               \/ at[x] = "relogin" /\ at'[x] = "idle"
      BY <2>1, <2>2, LoseLinkMoves, Sorts
    <2>4. Types' /\ UNCHANGED << door, io, joined, phase >>
      BY <1>2, <2>2, <2>3 DEF LinkLost, PInv, Rest, Types
    <2>5. \A x \in Enders :
            \/ at'[x] = at[x] \/ (at[x] \notin {"idle", "door"} /\ at'[x] = "hung")
            \/ x # "join" /\ at[x] = "relogin" /\ at'[x] = "idle"
      BY <2>3, Sorts DEF PInv, Rest, Awaited
    <2>6. QED
      BY <2>3, <2>4, <2>5, Aside
  <1>3. CASE LinkDown
    <2>1. "idle" \in Stages
      BY DEF Stages
    <2>2. QED
      BY <1>1, <1>3, <2>1, RequestMoves, Sorts DEF LinkDown, Down
  <1>4. ASSUME NEW t \in Enders, Closed(t)
        PROVE  PInv'
    <2>1. /\ t \in Tasks /\ via[t] \in Nat \ {0} /\ at[t] = "closing"
          /\ "event" \in {"idle", "event", "unmark"}
      BY <1>4, Sorts DEF Closed, PInv, Rest, Types, Awaited
    <2>2. LoseLink(via[t], t, "event")
      BY <1>4 DEF Closed
    <2>3. /\ at' \in [Tasks -> Stages] /\ via' \in [Tasks -> Nat] /\ Awaited' /\ at'[t] = "event"
          /\ \A x \in Tasks \ {t} :
               \/ at'[x] = at[x] \/ (at[x] \notin {"idle", "door"} /\ at'[x] = "hung")
               \/ at[x] = "relogin" /\ at'[x] = "idle"
      BY <2>1, <2>2, LoseLinkMoves
    <2>4. Types' /\ UNCHANGED << door, io, joined, phase >>
      BY <1>4, <2>3 DEF Closed, PInv, Rest, Types
    <2>5. \A x \in Enders :
            \/ at'[x] = at[x] \/ (at[x] \notin {"idle", "door"} /\ at'[x] = "hung")
            \/ x # "join" /\ at[x] = "relogin" /\ at'[x] = "idle"
            \/ at[x] = "closing" /\ at'[x] = "event"
      BY <2>1, <2>3, Sorts DEF PInv, Rest, Awaited
    <2>6. QED
      BY <2>3, <2>4, <2>5, Aside
  <1>5. QED
    BY <1>2, <1>3, <1>4

-----------------------------------------------------------------------------
(* The invariant                                                           *)

\* The door is free at first.
LEMMA PInit == Init => PInv
  <1> SUFFICES ASSUME Init PROVE PInv
    OBVIOUS
  <1>1. \A t \in Tasks : at[t] = "idle" /\ via[t] = 0
    BY DEF Init
  <1>2. Types
    BY DEF Init, Types, Stages
  <1>3. Awaited
    BY <1>1, Sorts DEF Awaited, Enders
  <1>4. Door(door, "none")
    BY <1>1, Sorts DEF Init, Door, Leaving, Joining, Enders
  <1>5. QED
    BY <1>2, <1>3, <1>4 DEF PInv, Rest, PortalFree, Init

\* Every step keeps the door as it should be.
LEMMA PStep == PInv /\ [Next]_vars => PInv'
  <1> SUFFICES ASSUME PInv, [Next]_vars PROVE PInv'
    OBVIOUS
  <1>1. ASSUME NEW t \in Tasks, TaskStep(t)
        PROVE  PInv'
    <2>1. CASE t \in Requests \cup Enders /\ Admitted(t)
      BY <2>1, AdmittedInv
    <2>2. CASE t \in Requests /\ Response(t)
      BY <2>2, RequestInv
    <2>3. CASE t \in Enders /\ (CancelReady(t) \/ Told(t) \/ AtDoor(t) \/ Unpublished(t)
                                \/ ChannelsClosed(t))
      BY <2>3, EnderInv
    <2>4. CASE t \in Enders /\ Closed(t)
      BY <2>4, LinkInv
    <2>5. CASE t \in {"join", "relogin"} /\ MarkReady(t)
      BY <2>5, JoinInv, ReloginInv
    <2>6. CASE Join \/ Connected \/ LoggedIn
      BY <2>6, JoinInv
    <2>7. CASE Relogged
      BY <2>7, ReloginInv
    <2>8. CASE LinkDown
      BY <2>8, LinkInv
    <2>9. QED
      BY <1>1, <2>1, <2>2, <2>3, <2>4, <2>5, <2>6, <2>7, <2>8 DEF TaskStep
  <1>2. CASE \E r \in Requests : Request(r) \/ CancelRequest(r)
    BY <1>2, RequestInv
  <1>3. CASE \E t \in {"drop", "handler"} : Fatal(t)
    BY <1>3, FatalInv
  <1>4. CASE Join
    BY <1>4, JoinInv
  <1>5. CASE Leave
    BY <1>5, LeaveInv
  <1>6. CASE LinkLost
    BY <1>6, LinkInv
  <1>7. CASE LinkBack
    BY <1>7, ReloginInv
  <1>8. CASE RefreshWakes \/ Refreshed \/ UNCHANGED vars
    BY <1>8, Aside
    DEF RefreshWakes, Refreshed, vars, socketVars, PInv, Rest, Types, Awaited
  <1>9. QED
    BY <1>1, <1>2, <1>3, <1>4, <1>5, <1>6, <1>7, <1>8 DEF Next

\* SioSignaling.connect asserts that there is no portal: a join that may proceed
\* never finds that of an earlier session, however often the client joins and
\* whoever ends its sessions.
THEOREM PortalOfOne == Spec => []PortalFree
  <1>1. PInv => PortalFree
    BY DEF PInv, Rest
  <1>2. QED
    BY <1>1, PInit, PStep, PTL DEF Spec

-----------------------------------------------------------------------------
(* The lock, the sockets, the logins                                       *)

SocketStates == {"none", "up", "dropping", "down", "closed"}

\* The rest of TypeOK, and that the socket in use is the latest, if any.
SocketTypes ==
  /\ via \in [Tasks -> 0..last] /\ io \in {0, last} /\ last \in 0..MaxJoins
  /\ sock \in [1..MaxJoins -> SocketStates]
  /\ hooked \subseteq 1..last /\ authed \subseteq 1..last
  /\ open \in BOOLEAN /\ teller \in Enders \cup {"none"}
  /\ refresh.stage \in {"none", "sleep", "asked", "hung", "refused"} /\ refresh.via \in 0..last

\* Stages of a task that holds _lock or waits for it.
InLine == {"gate", "unpublish", "cancel", "mark", "unmark"}

\* Each such task is in _lock's line, once.
Line ==
  /\ line \in Seq(Tasks) /\ IsInjective(line)
  /\ \A t \in Tasks : Contains(line, t) <=> at[t] \in InLine

\* Answers are awaited on links that are up; a login does not outlive its link;
\* while a link waits to be marked as lost nothing happens to its socket but
\* that it is closed; what is closed is no longer in use.
Links ==
  /\ \A x \in Tasks : via[x] # 0 /\ at[x] \notin {"closing", "unmark"} => sock[via[x]] = "up"
  /\ \A x \in Tasks : at[x] \in {"login", "relogin"} => via[x] # 0
  /\ \A k \in 1..MaxJoins : sock[k] \in {"none", "down", "closed"} => k \notin authed
  /\ at["lost"] = "unmark" => via["lost"] # 0 /\ sock[via["lost"]] \in {"dropping", "closed"}
  /\ \A x \in Tasks : at[x] = "closing" => via[x] # io /\ sock[via[x]] # "none"
  /\ \A k \in 1..MaxJoins : k > last \/ (k = last /\ at["join"] = "connecting") => sock[k] = "none"
  /\ \A x \in Tasks : at[x] = "unmark" => x = "lost"

\* A refresh asks on the socket in use.
Tickets ==
  /\ refresh.stage = "asked" => refresh.via = io /\ io # 0 /\ sock[io] = "up"
  /\ TicketFresh

\* Whoever gives up the socket that a join made, or joined with, will tell.
Closing == \E t \in Enders : at[t] = "closing"
Joins ==
  /\ at["join"] = "login" =>
       via["join"] = last /\ (io = last \/ \E t \in Enders : at[t] = "closing" /\ via[t] = last)
  /\ at["join"] = "mark" =>
       last # 0 /\ ((io = last /\ sock[last] \in {"up", "dropping"}) \/ (io = 0 /\ Closing))
  /\ joined /\ io = 0 =>
       \E t \in Enders : at[t] \in {"closing", "event"} \/ (at[t] = "door" /\ t # "join")

\* The gate in the first session: it is open, or about to be opened, only if
\* the link is logged in, or lost and somebody is about to close the gate, who
\* comes after those that are about to open it.
Markers == {"join", "relogin"}
Logins ==
  /\ io = 0 /\ last # 0 => gate # "pending"
  /\ \A t \in Tasks : at[t] = "mark" => t \in Markers
  /\ \A t \in Markers :
       at[t] = "mark" /\ (t = "join" \/ last = 1) /\ at["lost"] = "unmark" /\ via["lost"] = last =>
         Before(line, t, "lost")
  /\ last <= 1 /\ io = last /\ (gate = "ok" \/ \E t \in Markers : at[t] = "mark") =>
       last = 1 /\ (1 \in authed \/ sock[1] = "dropping")
  /\ RequestsFollowLogin

SInv == SocketTypes /\ Line /\ Links /\ Tickets /\ Joins /\ Logins

\* It has the invariants of the runs as parts.
LEMMA SessionCovered == PInv /\ SInv =>
  TypeOK /\ JoinedHasPortal /\ RequestsFollowLogin /\ TicketFresh
  <1> SUFFICES ASSUME PInv, SInv
               PROVE  TypeOK /\ JoinedHasPortal /\ RequestsFollowLogin /\ TicketFresh
    OBVIOUS
  <1>1. TypeOK
    BY JoinsAssumption DEF PInv, Rest, Types, Stages, Door, SInv, SocketTypes, SocketStates,
      Line, TypeOK
  <1>2. JoinedHasPortal
    BY DEF SInv, Joins, JoinedHasPortal
  <1>3. QED
    BY <1>1, <1>2 DEF SInv, Tickets, Logins

-----------------------------------------------------------------------------
(* The steps of a task                                                     *)

\* _lock's line follows what task t does.
Lined(t) ==
  \/ line' = line /\ (at'[t] \in InLine <=> at[t] \in InLine)
  \/ line' = Append(line, t) /\ at[t] \notin InLine /\ at'[t] \in InLine
  \/ line # << >> /\ Head(line) = t /\ line' = Tail(line) /\ at'[t] \notin InLine
  \/ line' = RemoveFirst(line, t) /\ at'[t] \notin InLine

\* Stages at which no answer is awaited, and that any task reaches on its own.
Still == {"idle", "gate", "hung", "over", "door", "unpublish", "closed", "cancel"}
GateSettles == gate' = gate \/ gate' \in {"failed", "cancelled"}
GivenUp == sock[io] \in {"up", "dropping"}

\* Task t waits, asks over the link in use, or gives up the socket.
Rests(t) == /\ \E stage \in Still : Goto(t, stage)
            /\ GateSettles /\ UNCHANGED << io, refresh >>
Asks(t) == /\ \E stage \in {"asked", "unpublishing"} : Goto(t, stage)
           /\ gate = "ok" /\ io # 0 /\ sock[io] = "up" /\ UNCHANGED << gate, io, refresh >>
GivesUp(t) ==
  /\ t \in Enders /\ Goto(t, IF GivenUp THEN "closing" ELSE "event")
  /\ io # 0 /\ io' = 0 /\ GateSettles /\ gate' # "pending"
  /\ refresh' = IF GivenUp THEN NoRefresh ELSE refresh
Moves(t) == Rests(t) \/ Asks(t) \/ GivesUp(t)

\* Who was about to leave a client that is joined still is.
Loyal(t) ==
  /\ joined' => joined
  /\ joined' /\ at[t] \in {"event", "door"} => t = "join" \/ at'[t] = "door"

\* Sockets that were not connected, or were down, may be up.
Awakes ==
  /\ sock' \in [1..MaxJoins -> SocketStates]
  /\ \A k \in 1..MaxJoins :
       \/ sock'[k] = sock[k]
       \/ /\ sock[k] \in {"none", "down"} /\ sock'[k] = "up"
          /\ k <= last /\ (k = last => at'["join"] # "connecting")

\* What the steps of this kind have in common.
Ordinary(t) ==
  /\ Moves(t) /\ Lined(t) /\ Loyal(t) /\ Awakes
  /\ t # "lost" /\ at[t] \notin {"closing", "mark", "unmark"}
  /\ t \in Enders \/ at[t] # "event"
  /\ open' \in BOOLEAN /\ UNCHANGED << last, hooked, authed >>

\* The line, whatever the others do that does not concern it.
LEMMA LineFollows ==
  ASSUME Line, NEW t \in Tasks, Lined(t), \A x \in Tasks \ {t} :
           at'[x] \in InLine <=> at[x] \in InLine
  PROVE  /\ Line'
         /\ \A x, y \in Tasks \ {t} : Before(line, x, y) => Before(line', x, y)
  <1>1. line \in Seq(Tasks) /\ IsInjective(line) /\ \A x \in Tasks :
          Contains(line, x) <=> at[x] \in InLine
    BY DEF Line
  <1>2. CASE line' = line /\ (at'[t] \in InLine <=> at[t] \in InLine)
    BY <1>1, <1>2 DEF Line
  <1>3. CASE line' = Append(line, t) /\ at[t] \notin InLine /\ at'[t] \in InLine
    <2>1. /\ \A x : Contains(line', x) <=> Contains(line, x) \/ x = t
          /\ \A x, y : Before(line, x, y) => Before(line', x, y)
      BY <1>1, <1>3, AppendContains, AppendBefore
    <2>2. line' \in Seq(Tasks) /\ IsInjective(line')
      BY <1>1, <1>3, AppendKeeps
    <2>3. QED
      BY <1>1, <1>3, <2>1, <2>2 DEF Line
  <1>4. CASE line # << >> /\ Head(line) = t /\ line' = Tail(line) /\ at'[t] \notin InLine
    <2>1. /\ line' \in Seq(Tasks) /\ \A x : Contains(line, x) <=> x = t \/ Contains(line', x)
      BY <1>1, <1>4, TailContains
    <2>2. /\ IsInjective(line') /\ ~Contains(line', t)
          /\ \A x, y : Before(line, x, y) /\ x # t => Before(line', x, y)
      BY <1>1, <1>4, TailBefore
    <2>3. QED
      BY <1>1, <1>4, <2>1, <2>2 DEF Line
  <1>5. CASE line' = RemoveFirst(line, t) /\ at'[t] \notin InLine
    <2>1. /\ line' \in Seq(Tasks) /\ IsInjective(line')
          /\ \A x : Contains(line', x) <=> Contains(line, x) /\ x # t
      BY <1>1, <1>5, RemoveFirstKeeps
    <2>2. \A x, y \in Tasks \ {t} : Before(line, x, y) => Before(line', x, y)
      BY <1>1, <1>5, RemoveFirstBefore
    <2>3. QED
      BY <1>1, <1>5, <2>1, <2>2 DEF Line
  <1>6. QED
    BY <1>2, <1>3, <1>4, <1>5 DEF Lined

\* Where t goes, and nobody else.
LEMMA GotoIs ==
  ASSUME PInv, NEW t \in Tasks, NEW stage, Goto(t, stage)
  PROVE  /\ at' = [at EXCEPT ![t] = stage] /\ at'[t] = stage
         /\ via' = [via EXCEPT ![t] = IF stage \in Remote THEN io ELSE 0]
         /\ via'[t] = IF stage \in Remote THEN io ELSE 0
         /\ \A x \in Tasks \ {t} : at'[x] = at[x] /\ via'[x] = via[x]
         /\ t \in Enders /\ teller \in Enders \cup {"none"} => teller' \in Enders \cup {"none"}
         /\ at[t] # "event" /\ teller \in Enders \cup {"none"} => teller' \in Enders \cup {"none"}
  <1>1. at \in [Tasks -> Stages] /\ via \in [Tasks -> Nat]
    BY DEF PInv, Rest, Types
  <1>2. QED
    BY <1>1 DEF Goto

\* What a step of this kind does to tasks, socket and gate.
LEMMA OrdinaryIs ==
  ASSUME PInv, SInv, NEW t \in Tasks, Ordinary(t)
  PROVE  /\ \A x \in Tasks \ {t} : at'[x] = at[x] /\ via'[x] = via[x]
         /\ at'[t] \in Still \cup {"asked", "unpublishing", "closing", "event"}
         /\ via'[t] = IF at'[t] \in {"asked", "unpublishing", "closing"} THEN io ELSE 0
         /\ at'[t] \in {"asked", "unpublishing"} =>
              gate = "ok" /\ io # 0 /\ sock[io] = "up" /\ io' = io
         /\ (io' = io /\ refresh' = refresh /\ at'[t] \notin {"closing", "event"}) \/ GivesUp(t)
         /\ GateSettles
         /\ teller' \in Enders \cup {"none"}
         /\ via' \in [Tasks -> 0..last]
  <1>1. PICK stage \in Still \cup {"asked", "unpublishing", "closing", "event"} :
          /\ Goto(t, stage)
          /\ stage \in {"asked", "unpublishing"} =>
               gate = "ok" /\ io # 0 /\ sock[io] = "up" /\ io' = io
          /\ (io' = io /\ refresh' = refresh /\ stage \notin {"closing", "event"}) \/ GivesUp(t)
          /\ GateSettles
    <2>1. CASE Rests(t)
      BY <2>1 DEF Rests, Still
    <2>2. CASE Asks(t)
      BY <2>2 DEF Asks, GateSettles
    <2>3. CASE GivesUp(t)
      BY <2>3 DEF GivesUp
    <2>4. QED
      BY <2>1, <2>2, <2>3 DEF Ordinary, Moves
  <1>2. stage \in Remote <=> stage \in {"asked", "unpublishing", "closing"}
    BY <1>1 DEF Remote, Still
  <1>3. /\ at'[t] = stage /\ via' = [via EXCEPT ![t] = IF stage \in Remote THEN io ELSE 0]
        /\ via'[t] = IF stage \in Remote THEN io ELSE 0
        /\ \A x \in Tasks \ {t} : at'[x] = at[x] /\ via'[x] = via[x]
        /\ teller' \in Enders \cup {"none"}
    BY <1>1, GotoIs DEF Ordinary, SInv, SocketTypes
  <1>4. via' \in [Tasks -> 0..last]
    BY <1>3 DEF SInv, SocketTypes
  <1>5. QED
    BY <1>1, <1>2, <1>3, <1>4

\* Such a step keeps the types and the line of the lock.
LEMMA OrdinaryTypes ==
  ASSUME PInv, SInv, NEW t \in Tasks, Ordinary(t)
  PROVE  SocketTypes' /\ Line'
  <1>1. /\ via' \in [Tasks -> 0..last] /\ teller' \in Enders \cup {"none"}
        /\ (io' = io /\ refresh' = refresh) \/ GivesUp(t)
        /\ \A x \in Tasks \ {t} : at'[x] = at[x]
    BY OrdinaryIs
  <1>2. io' \in {0, last} /\ refresh'.stage \in {"none", "sleep", "asked", "hung", "refused"}
        /\ refresh'.via \in 0..last
    BY <1>1 DEF SInv, SocketTypes, GivesUp, NoRefresh
  <1>3. SocketTypes'
    BY <1>1, <1>2 DEF Ordinary, Awakes, SInv, SocketTypes
  <1>4. Line'
    BY <1>1, LineFollows DEF Ordinary, SInv
  <1>5. QED
    BY <1>3, <1>4

\* It asks on a link that is up, and leaves the refresh on the socket in use.
LEMMA OrdinaryLinks ==
  ASSUME PInv, SInv, NEW t \in Tasks, Ordinary(t)
  PROVE  Links' /\ Tickets'
  <1>1. /\ \A x \in Tasks \ {t} : at'[x] = at[x] /\ via'[x] = via[x]
        /\ at'[t] \in Still \cup {"asked", "unpublishing", "closing", "event"}
        /\ via'[t] = IF at'[t] \in {"asked", "unpublishing", "closing"} THEN io ELSE 0
        /\ at'[t] \in {"asked", "unpublishing"} =>
             gate = "ok" /\ io # 0 /\ sock[io] = "up" /\ io' = io
        /\ (io' = io /\ refresh' = refresh /\ at'[t] \notin {"closing", "event"}) \/ GivesUp(t)
    BY OrdinaryIs
  <1>2. /\ at'[t] \notin {"login", "relogin", "mark", "unmark", "connecting"} /\ last' = last
        /\ authed' = authed /\ at["lost"] = at'["lost"] /\ via["lost"] = via'["lost"]
        /\ "lost" \in Tasks /\ "join" \in Tasks /\ "relogin" \in Tasks
    BY <1>1, Sorts DEF Ordinary, Still, Enders
  <1>3. \A k \in 1..MaxJoins :
          \/ sock'[k] = sock[k]
          \/ /\ sock[k] \in {"none", "down"} /\ sock'[k] = "up"
             /\ k <= last /\ (k = last => at'["join"] # "connecting")
    BY DEF Ordinary, Awakes
  <1>4. /\ io \in {0, last} /\ last \in 0..MaxJoins /\ \A x \in Tasks : via[x] \in 0..last
        /\ \A k \in 0..last : k # 0 => k \in 1..MaxJoins
    BY JoinsAssumption DEF SInv, SocketTypes
  <1>5. GivesUp(t) => at'[t] = (IF GivenUp THEN "closing" ELSE "event")
    <2>1. ASSUME GivesUp(t) PROVE at'[t] = (IF GivenUp THEN "closing" ELSE "event")
      BY <2>1, GotoIs DEF GivesUp
    <2>2. QED
      BY <2>1
  <1>6. ASSUME NEW x \in Tasks, via'[x] # 0, at'[x] \notin {"closing", "unmark"}
        PROVE  sock'[via'[x]] = "up"
    <2>1. via'[x] \in 1..MaxJoins /\ sock[via'[x]] = "up"
      BY <1>1, <1>4, <1>6 DEF SInv, Links
    <2>2. QED
      BY <1>3, <2>1
  <1>7. \A x \in Tasks : at'[x] \in {"login", "relogin"} => via'[x] # 0
    BY <1>1, <1>2 DEF SInv, Links
  <1>8. \A k \in 1..MaxJoins : sock'[k] \in {"none", "down", "closed"} => k \notin authed'
    BY <1>2, <1>3 DEF SInv, Links
  <1>9. at'["lost"] = "unmark" => via'["lost"] # 0 /\ sock'[via'["lost"]] \in {"dropping", "closed"}
    BY <1>2, <1>3, <1>4 DEF SInv, Links
  <1>10. ASSUME NEW x \in Tasks, at'[x] = "closing"
         PROVE  via'[x] # io' /\ sock'[via'[x]] # "none"
    <2>1. CASE x = t
      <3>1. GivesUp(t) /\ GivenUp
        BY <1>1, <1>5, <1>10, <2>1
      <3>2. via'[x] = io /\ io # 0 /\ io' = 0
        BY <1>1, <1>10, <2>1, <3>1 DEF GivesUp
      <3>3. QED
        BY <1>3, <1>4, <3>1, <3>2 DEF GivenUp
    <2>2. CASE x # t
      <3>1. via'[x] = via[x] /\ at[x] = "closing" /\ via[x] # io /\ sock[via[x]] # "none"
              /\ via[x] # 0
        BY <1>1, <1>10, <2>2 DEF SInv, Links, PInv, Rest, Awaited
      <3>2. io' \in {0, io}
        BY <1>1 DEF GivesUp
      <3>3. QED
        BY <1>3, <1>4, <3>1, <3>2
    <2>3. QED
      BY <2>1, <2>2
  <1>11. \A k \in 1..MaxJoins : k > last' \/ (k = last' /\ at'["join"] = "connecting") =>
           sock'[k] = "none"
    <2>1. at'["join"] = "connecting" => at["join"] = "connecting"
      BY <1>1, <1>2
    <2>2. QED
      BY <1>2, <1>3, <1>4, <2>1 DEF SInv, Links
  <1>12. \A x \in Tasks : at'[x] = "unmark" => x = "lost"
    BY <1>1, <1>2 DEF SInv, Links
  <1>13. Links'
    BY <1>6, <1>7, <1>8, <1>9, <1>10, <1>11, <1>12 DEF Links
  <1>14. CASE GivesUp(t)
    <2>1. io' = 0 /\ (refresh'.stage # "asked" \/ (~GivenUp /\ refresh' = refresh))
      BY <1>14 DEF GivesUp, NoRefresh
    <2>2. refresh'.stage # "asked"
      BY <2>1 DEF SInv, Tickets, GivenUp
    <2>3. QED
      BY <1>13, <2>1, <2>2 DEF Tickets, TicketFresh
  <1>15. CASE io' = io /\ refresh' = refresh
    <2>1. refresh'.stage = "asked" => refresh'.via = io' /\ io' # 0 /\ sock'[io'] = "up"
      BY <1>3, <1>4, <1>15 DEF SInv, Tickets
    <2>2. ASSUME joined', io # 0, io \in authed, sock'[io] = "up", at'["relogin"] # "mark"
          PROVE  refresh.stage \in {"sleep", "asked", "refused"}
      <3>1. joined /\ at["relogin"] # "mark"
        BY <1>1, <1>2, <2>2 DEF Ordinary, Loyal
      <3>2. sock[io] = "up"
        BY <1>3, <1>4, <2>2 DEF SInv, Links
      <3>3. QED
        BY <2>2, <3>1, <3>2 DEF SInv, Tickets, TicketFresh
    <2>3. QED
      BY <1>2, <1>13, <1>15, <2>1, <2>2 DEF Tickets, TicketFresh
  <1>16. QED
    BY <1>1, <1>13, <1>14, <1>15

\* A socket given up under a join has somebody who will tell.
LEMMA OrdinaryJoins ==
  ASSUME PInv, SInv, NEW t \in Tasks, Ordinary(t)
  PROVE  Joins'
  <1>1. /\ \A x \in Tasks \ {t} : at'[x] = at[x] /\ via'[x] = via[x]
        /\ at'[t] \in Still \cup {"asked", "unpublishing", "closing", "event"}
        /\ via'[t] = IF at'[t] \in {"asked", "unpublishing", "closing"} THEN io ELSE 0
        /\ (io' = io /\ refresh' = refresh /\ at'[t] \notin {"closing", "event"}) \/ GivesUp(t)
    BY OrdinaryIs
  <1>2. /\ at'[t] \notin {"login", "mark"} /\ last' = last /\ at[t] # "closing"
        /\ joined' => joined
        /\ joined' /\ at[t] \in {"event", "door"} => t = "join" \/ at'[t] = "door"
        /\ "join" \in Tasks /\ Enders \subseteq Tasks
    BY <1>1, Sorts DEF Ordinary, Loyal, Still, Enders
  <1>3. \A k \in 1..MaxJoins : sock'[k] = sock[k] \/ sock'[k] = "up"
    BY DEF Ordinary, Awakes
  <1>4. io \in {0, last} /\ last \in 0..MaxJoins /\ (last # 0 => last \in 1..MaxJoins)
    BY JoinsAssumption DEF SInv, SocketTypes
  <1>5. GivesUp(t) => /\ t \in Enders /\ io # 0 /\ io = last /\ io' = 0
                      /\ at'[t] = IF GivenUp THEN "closing" ELSE "event"
    <2>1. ASSUME GivesUp(t) PROVE at'[t] = (IF GivenUp THEN "closing" ELSE "event")
      BY <2>1, GotoIs DEF GivesUp
    <2>2. QED
      BY <1>4, <2>1 DEF GivesUp
  <1>6. ASSUME at'["join"] = "login"
        PROVE  /\ via'["join"] = last'
               /\ io' = last' \/ \E x \in Enders : at'[x] = "closing" /\ via'[x] = last'
    <2>1. at["join"] = "login" /\ t # "join" /\ via'["join"] = via["join"] /\ via["join"] = last
      BY <1>1, <1>2, <1>6 DEF SInv, Joins
    <2>2. CASE GivesUp(t)
      <3>1. sock[last] = "up"
        BY <1>5, <2>1, <2>2, <1>2 DEF SInv, Links
      <3>2. at'[t] = "closing" /\ via'[t] = last
        BY <1>1, <1>5, <2>2, <3>1 DEF GivenUp
      <3>3. QED
        BY <1>2, <1>5, <2>1, <2>2, <3>2
    <2>3. CASE io' = io
      BY <1>1, <1>2, <2>1, <2>3 DEF SInv, Joins
    <2>4. QED
      BY <1>1, <2>2, <2>3
  <1>7. ASSUME at'["join"] = "mark"
        PROVE  /\ last' # 0
               /\ (io' = last' /\ sock'[last'] \in {"up", "dropping"}) \/ (io' = 0 /\ Closing')
    <2>1. at["join"] = "mark" /\ t # "join"
      BY <1>1, <1>2, <1>7
    <2>2. last # 0 /\ ((io = last /\ sock[last] \in {"up", "dropping"}) \/ (io = 0 /\ Closing))
      BY <2>1 DEF SInv, Joins
    <2>3. CASE GivesUp(t)
      <3>1. at'[t] = "closing"
        BY <1>5, <2>2, <2>3 DEF GivenUp
      <3>2. QED
        BY <1>2, <1>5, <2>2, <2>3, <3>1 DEF Closing
    <2>4. CASE io' = io
      BY <1>1, <1>2, <1>3, <1>4, <2>2, <2>4 DEF Closing
    <2>5. QED
      BY <1>1, <2>3, <2>4
  <1>8. ASSUME joined', io' = 0
        PROVE  \E x \in Enders : at'[x] \in {"closing", "event"} \/ (at'[x] = "door" /\ x # "join")
    <2>1. CASE GivesUp(t)
      BY <1>5, <2>1
    <2>2. CASE io' = io
      <3>1. PICK x \in Enders : at[x] \in {"closing", "event"} \/ (at[x] = "door" /\ x # "join")
        BY <1>2, <1>8, <2>2 DEF SInv, Joins
      <3>2. CASE x # t
        BY <1>1, <1>2, <3>1, <3>2
      <3>3. CASE x = t
        <4>1. ~(t = "join" /\ at[t] = "event")
          BY <1>2, <1>8, Sorts DEF PInv, Door, Enders
        <4>2. QED
          BY <1>2, <1>8, <3>1, <3>3, <4>1
      <3>4. QED
        BY <3>2, <3>3
    <2>3. QED
      BY <1>1, <2>1, <2>2
  <1>9. QED
    BY <1>6, <1>7, <1>8 DEF Joins

\* It never opens the gate, and asks only through an open one.
LEMMA OrdinaryLogins ==
  ASSUME PInv, SInv, NEW t \in Tasks, Ordinary(t)
  PROVE  Logins'
  <1>1. /\ \A x \in Tasks \ {t} : at'[x] = at[x] /\ via'[x] = via[x]
        /\ at'[t] \in Still \cup {"asked", "unpublishing", "closing", "event"}
        /\ via'[t] = IF at'[t] \in {"asked", "unpublishing", "closing"} THEN io ELSE 0
        /\ at'[t] \in {"asked", "unpublishing"} =>
             gate = "ok" /\ io # 0 /\ sock[io] = "up" /\ io' = io
        /\ (io' = io /\ refresh' = refresh /\ at'[t] \notin {"closing", "event"}) \/ GivesUp(t)
        /\ GateSettles
    BY OrdinaryIs
  <1>2. /\ at'[t] \notin {"mark", "unmark"} /\ last' = last /\ authed' = authed /\ t # "lost"
        /\ "lost" \in Tasks /\ Markers \subseteq Tasks /\ Requests \subseteq Tasks
    BY <1>1, Sorts DEF Ordinary, Still, Enders, Markers
  <1>3. /\ io \in {0, last} /\ last \in 0..MaxJoins /\ (last # 0 => 1 \in 1..MaxJoins)
        /\ io' \in {io, 0} /\ (io' # io => io # 0)
    BY <1>1, JoinsAssumption DEF SInv, SocketTypes, GivesUp
  <1>4. \A x \in Tasks : at'[x] = "mark" => at[x] = "mark" /\ x # t
    BY <1>1, <1>2
  <1>5. gate' = "ok" => gate = "ok"
    BY <1>1 DEF GateSettles
  <1>6. io' = 0 /\ last' # 0 => gate' # "pending"
    BY <1>1, <1>2, <1>3 DEF GivesUp, GateSettles, SInv, Logins
  <1>7. \A x \in Tasks : at'[x] = "mark" => x \in Markers
    BY <1>4 DEF SInv, Logins
  <1>8. ASSUME NEW x \in Markers, at'[x] = "mark", x = "join" \/ last' = 1,
               at'["lost"] = "unmark", via'["lost"] = last'
        PROVE  Before(line', x, "lost")
    <2>1. at[x] = "mark" /\ x # t /\ at["lost"] = "unmark" /\ via["lost"] = last
      BY <1>1, <1>2, <1>4, <1>8
    <2>2. Before(line, x, "lost")
      BY <1>2, <1>8, <2>1 DEF SInv, Logins
    <2>3. QED
      BY <1>1, <1>2, <2>1, <2>2, LineFollows DEF Ordinary, SInv
  <1>9. ASSUME last' <= 1, io' = last', gate' = "ok" \/ \E x \in Markers : at'[x] = "mark"
        PROVE  last' = 1 /\ (1 \in authed' \/ sock'[1] = "dropping")
    <2>1. gate = "ok" \/ \E x \in Markers : at[x] = "mark"
      BY <1>2, <1>4, <1>5, <1>9
    <2>2. io = last
      BY <1>2, <1>3, <1>9
    <2>3. last = 1 /\ (1 \in authed \/ sock[1] = "dropping")
      BY <1>2, <1>9, <2>1, <2>2 DEF SInv, Logins
    <2>4. sock[1] = "dropping" => sock'[1] = "dropping"
      BY <1>3, <2>3 DEF Ordinary, Awakes
    <2>5. QED
      BY <1>2, <2>3, <2>4
  <1>10. ASSUME NEW r \in Requests, at'[r] = "asked", via'[r] = 1
         PROVE  1 \in authed'
    <2>1. CASE r # t
      BY <1>1, <1>2, <1>10, <2>1 DEF SInv, Logins, RequestsFollowLogin
    <2>2. CASE r = t
      <3>1. gate = "ok" /\ io = 1 /\ sock[1] = "up" /\ last = 1
        BY <1>1, <1>3, <1>10, <2>2
      <3>2. QED
        BY <1>2, <3>1 DEF SInv, Logins
    <2>3. QED
      BY <2>1, <2>2
  <1>11. RequestsFollowLogin'
    BY <1>10 DEF RequestsFollowLogin
  <1>12. QED
    BY <1>6, <1>7, <1>8, <1>9, <1>11 DEF Logins

\* Steps of this kind keep the invariant.
LEMMA OrdinaryInv ==
  ASSUME PInv, SInv, NEW t \in Tasks, Ordinary(t)
  PROVE  SInv'
  BY OrdinaryTypes, OrdinaryLinks, OrdinaryJoins, OrdinaryLogins DEF SInv

-----------------------------------------------------------------------------
(* Which steps are of this kind                                            *)

\* ready() and send(): whoever passes the gate asks over the link, or is done.
LEMMA PassMoves ==
  ASSUME PInv, NEW t \in Requests \cup Enders, NEW d, NEW rest, Pass(t, d, rest),
         UNCHANGED << gate, io, refresh >>
  PROVE  /\ Moves(t)
         /\ at'[t] \in InLine <=> Passing = "wait"
         /\ line' = IF Passing = "wait" THEN << t >> \o rest ELSE rest
  <1>1. /\ Passing \in {"wait", "sent", "hung", "refused", "cancelled"}
        /\ Passing = "sent" => gate = "ok" /\ io # 0 /\ sock[io] = "up"
    BY DEF Passing, SendOutcome, PInv, Rest, Types
  <1>2. PICK stage : stage = AfterPassing(t) /\ Goto(t, stage)
    BY DEF Pass
  <1>3. /\ stage \in Still \cup {"asked", "unpublishing"}
        /\ stage \in {"asked", "unpublishing"} <=> Passing = "sent"
        /\ stage \in InLine <=> Passing = "wait"
    BY <1>1, <1>2 DEF AfterPassing, Still, InLine
  <1>4. at'[t] = stage
    BY <1>2, GotoIs, Sorts
  <1>5. Moves(t)
    BY <1>1, <1>2, <1>3 DEF Moves, Rests, Asks, GateSettles
  <1>6. QED
    BY <1>3, <1>4, <1>5 DEF Pass

\* The same at once, or when the lock is free.
LEMMA AskGateMoves ==
  ASSUME PInv, NEW t \in Requests \cup Enders, NEW d, AskGate(t, d), at[t] \notin InLine,
         UNCHANGED << gate, io, refresh >>
  PROVE  Moves(t) /\ Lined(t)
  <1>1. CASE line = << >> /\ Pass(t, d, << >>)
    <2>1. /\ Moves(t) /\ (at'[t] \in InLine <=> Passing = "wait")
          /\ line' = IF Passing = "wait" THEN << t >> \o << >> ELSE << >>
      BY <1>1, PassMoves
    <2>2. << t >> \o << >> = Append(line, t)
      BY <1>1
    <2>3. QED
      BY <1>1, <2>1, <2>2 DEF Lined
  <1>2. CASE line' = Append(line, t) /\ Goto(t, IF t \in Requests THEN "gate" ELSE "unpublish")
    <2>1. at'[t] \in {"gate", "unpublish"} /\ Rests(t)
      BY <1>2, GotoIs, Sorts DEF Rests, Still, GateSettles
    <2>2. QED
      BY <1>2, <2>1 DEF Moves, Lined, InLine
  <1>3. QED
    BY <1>1, <1>2 DEF AskGate

\* cancelReady and what follows it.
LEMMA CutMoves ==
  ASSUME PInv, NEW t \in Enders, NEW d, Cut(t, d)
  PROVE  Moves(t) /\ at'[t] \notin InLine
  <1>1. GateSettles /\ gate' # "pending" /\ io' = 0
    BY DEF Cut, GateSettles
  <1>2. CASE io = 0
    <2>1. Goto(t, "idle") /\ refresh' = refresh
      BY <1>2 DEF Cut, Finish
    <2>2. QED
      BY <1>1, <1>2, <2>1, GotoIs, Sorts DEF Moves, Rests, Still, InLine
  <1>3. CASE io # 0
    <2>1. Goto(t, IF GivenUp THEN "closing" ELSE "event")
      BY <1>3 DEF Cut, GivenUp
    <2>2. GivesUp(t)
      BY <1>1, <1>3, <2>1 DEF Cut, GivesUp, GivenUp
    <2>3. QED
      BY <2>1, <2>2, GotoIs, Sorts DEF Moves, InLine
  <1>4. QED
    BY <1>2, <1>3

\* disconnect(): done, giving up the socket, or in line for the lock.
LEMMA DisconnectMoves ==
  ASSUME PInv, NEW t \in Enders, NEW d, Disconnect(t, d), at[t] \notin InLine
  PROVE  Moves(t) /\ Lined(t)
  <1>1. CASE io = 0 /\ Finish(t, d) /\ UNCHANGED << line, gate, io, refresh >>
    <2>1. Goto(t, "idle")
      BY <1>1 DEF Finish
    <2>2. QED
      BY <1>1, <2>1, GotoIs, Sorts DEF Moves, Rests, Still, GateSettles, Lined, InLine
  <1>2. CASE Cut(t, d) /\ UNCHANGED line
    BY <1>2, CutMoves DEF Lined
  <1>3. CASE line' = Append(line, t) /\ Goto(t, "cancel")
               /\ UNCHANGED << gate, io, refresh, phase >>
    BY <1>3, GotoIs, Sorts DEF Moves, Rests, Still, GateSettles, Lined, InLine
  <1>4. QED
    BY <1>1, <1>2, <1>3 DEF Disconnect

\* _try_leave, and leave() from the door on.
LEMMA TryLeaveMoves ==
  ASSUME PInv, NEW t \in Enders, NEW d, TryLeave(t, d), at[t] \notin InLine
  PROVE  Moves(t) /\ Lined(t) /\ Loyal(t)
  <1>1. Loyal(t)
    BY DEF TryLeave, Loyal
  <1>2. CASE AskGate(t, d) /\ UNCHANGED << gate, io, refresh >>
    BY <1>1, <1>2, AskGateMoves
  <1>3. CASE Disconnect(t, d)
    BY <1>1, <1>3, DisconnectMoves
  <1>4. QED
    BY <1>2, <1>3 DEF TryLeave

\* leave(): in line at the door, or through it at once.
LEMMA LeaveNowMoves ==
  ASSUME PInv, NEW t \in Enders, LeaveNow(t), at[t] \notin InLine
  PROVE  Moves(t) /\ Lined(t) /\ Loyal(t)
  <1>1. CASE TryLeave(t, << t >>)
    BY <1>1, TryLeaveMoves
  <1>2. CASE Goto(t, "door") /\ UNCHANGED << line, gate, io, refresh, phase, joined >>
    BY <1>2, GotoIs, Sorts DEF Moves, Rests, Still, GateSettles, Lined, InLine, Loyal
  <1>3. QED
    BY <1>1, <1>2 DEF LeaveNow

\* Most actions take such steps.
LEMMA OrdinaryStep ==
  ASSUME PInv, SInv, NEW t \in Tasks, Moves(t), Lined(t), Loyal(t), t # "lost",
         at[t] \notin {"closing", "mark", "unmark"}, t \in Enders \/ at[t] # "event",
         open' \in BOOLEAN, UNCHANGED socketVars
  PROVE  SInv'
  <1>1. Awakes
    BY DEF SInv, SocketTypes, socketVars, Awakes
  <1>2. Ordinary(t)
    BY <1>1 DEF Ordinary, socketVars
  <1>3. QED
    BY <1>2, OrdinaryInv

\* The steps of a request.
LEMMA SRequests ==
  ASSUME PInv, SInv, NEW r \in Requests, Request(r) \/ Response(r) \/ CancelRequest(r)
  PROVE  SInv'
  <1>1. r \in Tasks /\ r # "lost" /\ r \notin Enders
    BY Sorts, RequestsAssumption
  <1>2. open' \in BOOLEAN /\ Loyal(r) /\ UNCHANGED socketVars
    <2>1. (open \/ r \notin Texts) \in BOOLEAN
      OBVIOUS
    <2>2. open' \in BOOLEAN
      BY <2>1 DEF Request, Response, CancelRequest, SInv, SocketTypes
    <2>3. QED
      BY <2>2 DEF Request, Response, CancelRequest, Loyal
  <1>3. CASE Request(r)
    <2>1. at[r] = "idle" /\ at[r] \notin InLine
      BY <1>3 DEF Request, InLine
    <2>2. Moves(r) /\ Lined(r)
      BY <1>3, <2>1, AskGateMoves DEF Request
    <2>3. QED
      BY <1>1, <1>2, <2>1, <2>2, OrdinaryStep
  <1>4. CASE Response(r)
    <2>1. Moves(r) /\ Lined(r) /\ at[r] = "asked"
      BY <1>1, <1>4, GotoIs DEF Response, Moves, Rests, Still, GateSettles, Lined, InLine
    <2>2. QED
      BY <1>1, <1>2, <2>1, OrdinaryStep
  <1>5. CASE CancelRequest(r)
    <2>1. Moves(r) /\ Lined(r) /\ at[r] \in {"gate", "asked", "hung"}
      BY <1>1, <1>5, GotoIs DEF CancelRequest, Moves, Rests, Still, GateSettles, Lined, InLine
    <2>2. QED
      BY <1>1, <1>2, <2>1, OrdinaryStep
  <1>6. QED
    BY <1>3, <1>4, <1>5

\* The lock is handed to somebody who waits at ready().
LEMMA SAdmitted ==
  ASSUME PInv, SInv, NEW t \in Requests \cup Enders, Admitted(t)
  PROVE  SInv'
  <1>1. t \in Tasks /\ t # "lost" /\ at[t] \in {"gate", "unpublish"}
    BY Sorts, RequestsAssumption DEF Admitted
  <1>2. open' \in BOOLEAN /\ Loyal(t) /\ UNCHANGED socketVars
    BY <1>1 DEF Admitted, SInv, SocketTypes, Loyal
  <1>3. Moves(t) /\ at'[t] \notin InLine /\ line' = Tail(line)
    BY PassMoves DEF Admitted
  <1>4. Lined(t)
    BY <1>3 DEF Admitted, Holds, Lined
  <1>5. QED
    BY <1>1, <1>2, <1>3, <1>4, OrdinaryStep

\* The later steps of those that end a session.
LEMMA SEnders ==
  ASSUME PInv, SInv, NEW t \in Enders,
         CancelReady(t) \/ Told(t) \/ AtDoor(t) \/ Unpublished(t) \/ ChannelsClosed(t)
  PROVE  SInv'
  <1>1. t \in Tasks /\ t # "lost"
    BY Sorts
  <1>2. open' \in BOOLEAN /\ UNCHANGED socketVars
    BY DEF CancelReady, Told, AtDoor, Unpublished, ChannelsClosed, SInv, SocketTypes
  <1>3. CASE CancelReady(t)
    <2>1. at[t] = "cancel" /\ Moves(t) /\ Lined(t) /\ Loyal(t)
      BY <1>3, CutMoves DEF CancelReady, Holds, Lined, Loyal
    <2>2. QED
      BY <1>1, <1>2, <2>1, OrdinaryStep
  <1>4. CASE Told(t)
    <2>1. at[t] = "event" /\ at[t] \notin InLine
      BY <1>4 DEF Told, InLine
    <2>2. CASE LeaveNow(t)
      BY <1>1, <1>2, <2>1, <2>2, LeaveNowMoves, OrdinaryStep
    <2>3. CASE ~joined /\ Finish(t, door) /\ UNCHANGED << line, gate, io, refresh, joined >>
      <3>1. Goto(t, "idle")
        BY <2>3 DEF Finish
      <3>2. Moves(t) /\ Lined(t) /\ Loyal(t)
        BY <1>1, <2>1, <2>3, <3>1, GotoIs
        DEF Moves, Rests, Still, GateSettles, Lined, InLine, Loyal
      <3>3. QED
        BY <1>1, <1>2, <2>1, <3>2, OrdinaryStep
    <2>4. QED
      BY <1>4, <2>2, <2>3 DEF Told
  <1>5. CASE AtDoor(t)
    <2>1. at[t] = "door" /\ at[t] \notin InLine
      BY <1>5 DEF AtDoor, InLine
    <2>2. CASE TryLeave(t, door)
      BY <1>1, <1>2, <2>1, <2>2, TryLeaveMoves, OrdinaryStep
    <2>3. CASE ~joined /\ Goto(t, "idle") /\ UNCHANGED << line, gate, io, refresh, phase, joined >>
      <3>1. Moves(t) /\ Lined(t) /\ Loyal(t)
        BY <1>1, <2>1, <2>3, GotoIs DEF Moves, Rests, Still, GateSettles, Lined, InLine, Loyal
      <3>2. QED
        BY <1>1, <1>2, <2>1, <3>1, OrdinaryStep
    <2>4. QED
      BY <1>5, <2>2, <2>3 DEF AtDoor
  <1>6. CASE Unpublished(t)
    <2>1. at[t] = "unpublishing" /\ Moves(t) /\ Lined(t) /\ Loyal(t)
      BY <1>1, <1>6, GotoIs DEF Unpublished, Moves, Rests, Still, GateSettles, Lined, InLine, Loyal
    <2>2. QED
      BY <1>1, <1>2, <2>1, OrdinaryStep
  <1>7. CASE ChannelsClosed(t)
    <2>1. at[t] = "closed" /\ at[t] \notin InLine /\ Loyal(t)
      BY <1>7 DEF ChannelsClosed, InLine, Loyal
    <2>2. Moves(t) /\ Lined(t)
      BY <1>7, <2>1, DisconnectMoves DEF ChannelsClosed
    <2>3. QED
      BY <1>1, <1>2, <2>1, <2>2, OrdinaryStep
  <1>8. QED
    BY <1>3, <1>4, <1>5, <1>6, <1>7

\* leave(), the portal's drop, a handler that fails.
LEMMA SEnds ==
  ASSUME PInv, SInv, Leave \/ \E t \in {"drop", "handler"} : Fatal(t)
  PROVE  SInv'
  <1>1. {"leave", "drop", "handler"} \subseteq Enders
    BY DEF Enders
  <1>2. open' \in BOOLEAN /\ UNCHANGED socketVars
    BY DEF Leave, Fatal, SInv, SocketTypes
  <1>3. CASE Leave
    <2>1. at["leave"] = "idle" /\ at["leave"] \notin InLine
      BY <1>3 DEF Leave, InLine
    <2>2. Moves("leave") /\ Lined("leave") /\ Loyal("leave")
      BY <1>1, <1>3, <2>1, LeaveNowMoves DEF Leave
    <2>3. QED
      BY <1>1, <1>2, <2>1, <2>2, OrdinaryStep, Sorts
  <1>4. ASSUME NEW t \in {"drop", "handler"}, Fatal(t)
        PROVE  SInv'
    <2>1. at[t] = "idle" /\ at[t] \notin InLine /\ Loyal(t)
      BY <1>4 DEF Fatal, InLine, Loyal
    <2>2. Moves(t) /\ Lined(t)
      BY <1>1, <1>4, <2>1, DisconnectMoves DEF Fatal
    <2>3. QED
      BY <1>1, <1>2, <2>1, <2>2, OrdinaryStep, Sorts
  <1>5. QED
    BY <1>3, <1>4

-----------------------------------------------------------------------------
(* Joins and logins                                                        *)

\* What the types say of sockets and tasks.
LEMMA Bounds ==
  ASSUME SInv
  PROVE  /\ last \in Nat /\ MaxJoins \in Nat /\ last <= MaxJoins /\ io \in {0, last}
         /\ \A x \in Tasks : via[x] \in 0..last
         /\ \A k \in 0..last : k # 0 => k \in 1..MaxJoins
         /\ {"join", "relogin", "lost"} \subseteq Tasks /\ {"join", "relogin"} \subseteq Enders
         /\ Enders \subseteq Tasks /\ Requests \subseteq Tasks
  BY JoinsAssumption, Sorts DEF SInv, SocketTypes, Enders

\* A join that may proceed makes a socket.
LEMMA NewSocketInv ==
  ASSUME PInv, SInv, at["join"] \in {"idle", "door"}, last < MaxJoins, ~joined, phase = "READY",
         last' = last + 1, io' = last + 1, Goto("join", "connecting"),
         UNCHANGED << line, gate, sock, hooked, authed, joined, open, refresh >>
  PROVE  SInv'
  <1>1. /\ at'["join"] = "connecting" /\ via'["join"] = 0
        /\ via' = [via EXCEPT !["join"] = 0]
        /\ \A x \in Tasks \ {"join"} : at'[x] = at[x] /\ via'[x] = via[x]
        /\ teller' \in Enders \cup {"none"}
    BY Bounds, GotoIs DEF Remote, SInv, SocketTypes
  <1>2. io = 0
    BY DEF PInv, Rest, PortalFree
  <1>3. SocketTypes'
    BY <1>1, Bounds DEF SInv, SocketTypes
  <1>4. Line'
    <2>1. Lined("join")
      BY <1>1 DEF Lined, InLine
    <2>2. QED
      BY <1>1, <2>1, Bounds, LineFollows DEF SInv
  <1>5. Links'
    <2>1. \A x \in Tasks : at'[x] = "closing" => via'[x] # io' /\ sock'[via'[x]] # "none"
      BY <1>1, Bounds DEF SInv, Links
    <2>2. \A k \in 1..MaxJoins :
            k > last' \/ (k = last' /\ at'["join"] = "connecting") => sock'[k] = "none"
      BY Bounds DEF SInv, Links
    <2>3. QED
      BY <1>1, <2>1, <2>2, Bounds DEF SInv, Links
  <1>6. Tickets'
    BY <1>2 DEF SInv, Tickets, TicketFresh
  <1>7. Joins'
    BY <1>1, <1>2 DEF Joins
  <1>8. Logins'
    <2>1. \A x \in Tasks : at'[x] = "mark" => at[x] = "mark"
      BY <1>1
    <2>2. via'["lost"] # last'
      BY <1>1, Bounds
    <2>3. ~(last' <= 1 /\ io' = last' /\ (gate' = "ok" \/ \E x \in Markers : at'[x] = "mark"))
      BY <1>2, <2>1, Bounds DEF SInv, Logins, Markers
    <2>4. RequestsFollowLogin'
      BY <1>1, Bounds, RequestsAssumption DEF SInv, Logins, RequestsFollowLogin
    <2>5. QED
      BY <2>1, <2>2, <2>3, <2>4, Bounds DEF SInv, Logins
  <1>9. QED
    BY <1>3, <1>4, <1>5, <1>6, <1>7, <1>8 DEF SInv

\* join() is called, or has got the door.
LEMMA SJoin ==
  ASSUME PInv, SInv, Join
  PROVE  SInv'
  <1>1. /\ at["join"] \in {"idle", "door"} /\ at["join"] \notin InLine /\ open' \in BOOLEAN
        /\ UNCHANGED << line, gate, sock, hooked, authed, joined, open, refresh >>
    BY DEF Join, InLine, SInv, SocketTypes
  <1>2. CASE \E stage \in {"idle", "door"} : Goto("join", stage) /\ UNCHANGED << io, last >>
    <2>1. Moves("join") /\ Lined("join") /\ Loyal("join") /\ UNCHANGED socketVars
      BY <1>1, <1>2, Bounds, GotoIs
      DEF Moves, Rests, Still, GateSettles, Lined, InLine, Loyal, socketVars
    <2>2. QED
      BY <1>1, <2>1, Bounds, OrdinaryStep
  <1>3. CASE /\ ~joined /\ phase = "READY" /\ last' = last + 1 /\ io' = last + 1
             /\ Goto("join", "connecting")
    BY <1>1, <1>3, NewSocketInv DEF Join
  <1>4. QED
    BY <1>2, <1>3 DEF Join, Connect

\* While a join goes on nobody has joined, and its socket is not up before it says so.
LEMMA Joined ==
  ASSUME PInv, SInv, at["join"] \in Joining
  PROVE  /\ ~joined
         /\ at["join"] = "connecting" /\ io # 0 => sock[last] = "none" /\ io = last /\ last # 0
         /\ at["join"] = "login" => via["join"] = last /\ last # 0 /\ sock[last] = "up"
  <1>1. ~joined
    BY Bounds DEF PInv, Door, Joining
  <1>2. at["join"] = "connecting" /\ io # 0 => sock[last] = "none" /\ io = last /\ last # 0
    BY Bounds DEF SInv, Links
  <1>3. at["join"] = "login" => via["join"] = last /\ last # 0 /\ sock[last] = "up"
    BY Bounds DEF SInv, Links, Joins
  <1>4. QED
    BY <1>1, <1>2, <1>3

\* The socket is connected and the login goes out.
LEMMA LoginSentInv ==
  ASSUME PInv, SInv, at["join"] = "connecting", io # 0, sock' = [sock EXCEPT ![last] = "up"],
         Goto("join", "login"),
         UNCHANGED << line, gate, io, refresh, phase, joined, door, last, hooked, authed, open >>
  PROVE  SInv'
  <1>1. /\ at'["join"] = "login" /\ via'["join"] = io
        /\ via' = [via EXCEPT !["join"] = io]
        /\ \A x \in Tasks \ {"join"} : at'[x] = at[x] /\ via'[x] = via[x]
        /\ teller' \in Enders \cup {"none"}
    BY Bounds, GotoIs DEF Remote, SInv, SocketTypes
  <1>2. ~joined /\ sock[last] = "none" /\ io = last /\ last # 0 /\ last \in 1..MaxJoins
    BY Joined, Bounds DEF Joining
  <1>3. /\ sock'[last] = "up" /\ sock' \in [1..MaxJoins -> SocketStates]
        /\ \A k \in 1..MaxJoins : k # last => sock'[k] = sock[k]
    BY <1>2 DEF SInv, SocketTypes, SocketStates
  <1>4. SocketTypes'
    BY <1>1, <1>2, <1>3, Bounds DEF SInv, SocketTypes
  <1>5. Line'
    <2>1. Lined("join")
      BY <1>1 DEF Lined, InLine
    <2>2. QED
      BY <1>1, <2>1, Bounds, LineFollows DEF SInv
  <1>6. Links'
    <2>1. ASSUME NEW x \in Tasks, via'[x] # 0, at'[x] \notin {"closing", "unmark"}
          PROVE  sock'[via'[x]] = "up"
      BY <1>1, <1>2, <1>3, <2>1, Bounds DEF SInv, Links
    <2>2. \A x \in Tasks : at'[x] \in {"login", "relogin"} => via'[x] # 0
      BY <1>1, <1>2 DEF SInv, Links
    <2>3. \A k \in 1..MaxJoins : sock'[k] \in {"none", "down", "closed"} => k \notin authed'
      BY <1>3 DEF SInv, Links
    <2>4. at'["lost"] = "unmark" =>
            via'["lost"] # 0 /\ sock'[via'["lost"]] \in {"dropping", "closed"}
      BY <1>1, <1>2, <1>3, Bounds DEF SInv, Links
    <2>5. ASSUME NEW x \in Tasks, at'[x] = "closing"
          PROVE  via'[x] # io' /\ sock'[via'[x]] # "none"
      <3>1. at[x] = "closing" /\ via'[x] = via[x] /\ via[x] # 0
        BY <1>1, <2>5 DEF PInv, Rest, Awaited
      <3>2. via[x] # io /\ sock[via[x]] # "none" /\ via[x] \in 1..MaxJoins
        BY <3>1, Bounds DEF SInv, Links
      <3>3. QED
        BY <1>2, <1>3, <3>1, <3>2
    <2>6. \A k \in 1..MaxJoins : k > last => sock'[k] = "none"
      BY <1>3, Bounds DEF SInv, Links
    <2>7. \A x \in Tasks : at'[x] = "unmark" => x = "lost"
      BY <1>1 DEF SInv, Links
    <2>8. QED
      BY <1>1, <2>1, <2>2, <2>3, <2>4, <2>5, <2>6, <2>7 DEF Links
  <1>7. Tickets'
    BY <1>2, <1>3 DEF SInv, Tickets, TicketFresh
  <1>8. Joins'
    BY <1>1, <1>2 DEF Joins
  <1>9. Logins'
    <2>1. \A x \in Tasks : at'[x] = "mark" => at[x] = "mark"
      BY <1>1
    <2>2. at'["lost"] = at["lost"] /\ via'["lost"] = via["lost"]
      BY <1>1, Bounds
    <2>3. sock[1] = "dropping" => sock'[1] = "dropping"
      BY <1>2, <1>3, Bounds
    <2>4. RequestsFollowLogin'
      BY <1>1, Bounds, RequestsAssumption DEF SInv, Logins, RequestsFollowLogin
    <2>5. QED
      BY <2>1, <2>2, <2>3, <2>4, Bounds DEF SInv, Logins, Markers
  <1>10. QED
    BY <1>4, <1>5, <1>6, <1>7, <1>8, <1>9 DEF SInv

\* The socket connects and the login goes out, or join fails.
LEMMA SConnected ==
  ASSUME PInv, SInv, Connected
  PROVE  SInv'
  <1>1. /\ at["join"] = "connecting" /\ at["join"] \notin InLine
        /\ open' \in BOOLEAN /\ UNCHANGED << last, hooked, authed, open >>
    BY DEF Connected, InLine, SInv, SocketTypes
  <1>2. CASE TryLeave("join", door) /\ sock' = [sock EXCEPT ![last] = "up"]
    <2>1. Moves("join") /\ Lined("join") /\ Loyal("join")
      BY <1>1, <1>2, Bounds, TryLeaveMoves
    <2>2. at'["join"] # "connecting"
      BY <2>1, Bounds, GotoIs DEF Moves, Rests, Asks, GivesUp, Still
    <2>3. Awakes
      <3>1. last \in 1..MaxJoins => sock[last] = "none"
        BY <1>1 DEF SInv, Links
      <3>2. sock \in [1..MaxJoins -> SocketStates] /\ "up" \in SocketStates
        BY DEF SInv, SocketTypes, SocketStates
      <3>3. /\ sock' \in [1..MaxJoins -> SocketStates]
            /\ \A k \in 1..MaxJoins : sock'[k] = IF k = last THEN "up" ELSE sock[k]
        BY <1>2, <3>2
      <3>4. QED
        BY <2>2, <3>1, <3>3, Bounds DEF Awakes
    <2>4. QED
      BY <1>1, <2>1, <2>3, Bounds, OrdinaryInv DEF Ordinary
  <1>3. CASE TryLeave("join", door) /\ UNCHANGED sock
    <2>1. Moves("join") /\ Lined("join") /\ Loyal("join") /\ UNCHANGED socketVars
      BY <1>1, <1>3, Bounds, TryLeaveMoves DEF socketVars
    <2>2. QED
      BY <1>1, <2>1, Bounds, OrdinaryStep
  <1>4. CASE /\ io # 0 /\ Goto("join", "login") /\ sock' = [sock EXCEPT ![last] = "up"]
             /\ UNCHANGED << line, gate, io, refresh, phase, joined, door >>
    BY <1>1, <1>4, LoginSentInv
  <1>5. QED
    BY <1>2, <1>3, <1>4 DEF Connected

\* The portal has accepted a login over a link that is up.
LEMMA Accepted ==
  ASSUME PInv, SInv, NEW t \in Markers, at[t] \in {"login", "relogin"}
  PROVE  /\ via[t] \in 1..last /\ sock[via[t]] = "up" /\ t \in Tasks /\ t # "lost"
         /\ at["lost"] = "unmark" => via["lost"] # via[t]
         /\ authed \cup {via[t]} \subseteq 1..last
         /\ t = "join" => ~joined /\ via[t] = last
  <1>1. t \in Tasks /\ t # "lost"
    BY Bounds DEF Markers
  <1>2. via[t] \in 1..last /\ sock[via[t]] = "up"
    BY <1>1, Bounds DEF SInv, Links
  <1>3. at["lost"] = "unmark" => via["lost"] # via[t]
    BY <1>2 DEF SInv, Links
  <1>4. t = "join" => ~joined /\ via[t] = last
    BY Joined DEF Joining, PInv, Rest, Awaited
  <1>5. QED
    BY <1>1, <1>2, <1>3, <1>4 DEF SInv, SocketTypes

\* markReady waits for the lock.
LEMMA ToMarkInv ==
  ASSUME PInv, SInv, NEW t \in Markers, at[t] \in {"login", "relogin"}, io # 0,
         authed' = authed \cup {via[t]}, line' = Append(line, t), Goto(t, "mark"),
         UNCHANGED << gate, hooked, joined, refresh, io, sock, last, open >>
  PROVE  SInv'
  <1>1. /\ at'[t] = "mark" /\ via'[t] = 0 /\ via' = [via EXCEPT ![t] = 0]
        /\ \A x \in Tasks \ {t} : at'[x] = at[x] /\ via'[x] = via[x]
        /\ teller' \in Enders \cup {"none"}
    BY Accepted, GotoIs DEF Remote, SInv, SocketTypes
  <1>2. /\ via[t] \in 1..last /\ sock[via[t]] = "up" /\ t \in Tasks /\ t # "lost"
        /\ at["lost"] = "unmark" => via["lost"] # via[t]
        /\ authed' \subseteq 1..last
        /\ t = "join" => ~joined /\ via[t] = last
    BY Accepted
  <1>3. io = last /\ last # 0 /\ at'["lost"] = at["lost"] /\ via'["lost"] = via["lost"]
    BY <1>1, <1>2, Bounds
  <1>4. SocketTypes'
    BY <1>1, <1>2, Bounds DEF SInv, SocketTypes
  <1>5. Line' /\ \A x, y \in Tasks \ {t} : Before(line, x, y) => Before(line', x, y)
    <2>1. Lined(t)
      BY <1>1 DEF Lined, InLine
    <2>2. QED
      BY <1>1, <1>2, <2>1, LineFollows DEF SInv
  <1>6. Links'
    <2>1. \A x \in Tasks : at'[x] = "closing" => via'[x] # io' /\ sock'[via'[x]] # "none"
      BY <1>1 DEF SInv, Links
    <2>2. \A x \in Tasks : via'[x] # 0 /\ at'[x] \notin {"closing", "unmark"} =>
            sock'[via'[x]] = "up"
      BY <1>1 DEF SInv, Links
    <2>3. at'["join"] = "connecting" => at["join"] = "connecting"
      BY <1>1, Bounds
    <2>4. \A k \in 1..MaxJoins : sock'[k] \in {"none", "down", "closed"} => k \notin authed'
      BY <1>2 DEF SInv, Links
    <2>5. \A k \in 1..MaxJoins :
            k > last' \/ (k = last' /\ at'["join"] = "connecting") => sock'[k] = "none"
      BY <2>3 DEF SInv, Links
    <2>6. \A x \in Tasks : /\ at'[x] = "unmark" => x = "lost"
                           /\ at'[x] \in {"login", "relogin"} => via'[x] # 0
      BY <1>1 DEF SInv, Links
    <2>7. at'["lost"] = "unmark" =>
            via'["lost"] # 0 /\ sock'[via'["lost"]] \in {"dropping", "closed"}
      BY <1>3 DEF SInv, Links
    <2>8. QED
      BY <2>1, <2>2, <2>4, <2>5, <2>6, <2>7 DEF Links
  <1>7. Tickets'
    <2>1. ASSUME joined', io' \in authed', sock'[io'] = "up", at'["relogin"] # "mark"
          PROVE  refresh.stage \in {"sleep", "asked", "refused"}
      BY <1>1, <1>2, <2>1 DEF Markers
    <2>2. QED
      BY <2>1 DEF SInv, Tickets, TicketFresh
  <1>8. Joins'
    <2>1. at'["join"] = "login" => via'["join"] = last' /\ io' = last'
      BY <1>1, <1>3, Bounds DEF SInv, Joins
    <2>2. at'["join"] = "mark" => io' = last' /\ last' # 0 /\ sock'[last'] \in {"up", "dropping"}
      BY <1>1, <1>2, <1>3, Bounds DEF SInv, Joins
    <2>3. QED
      BY <1>3, <2>1, <2>2 DEF Joins
  <1>9. Logins'
    <2>1. \A x \in Tasks : at'[x] = "mark" => x \in Markers
      BY <1>1, <1>2 DEF SInv, Logins
    <2>2. ASSUME NEW x \in Markers, at'[x] = "mark", x = "join" \/ last' = 1,
                 at'["lost"] = "unmark", via'["lost"] = last'
          PROVE  Before(line', x, "lost")
      <3>1. x # t
        BY <1>2, <1>3, <2>2
      <3>2. at[x] = "mark" /\ x \in Tasks /\ "lost" \in Tasks
        BY <1>1, <2>2, <3>1, Bounds DEF Markers
      <3>3. Before(line, x, "lost")
        BY <1>3, <2>2, <3>2 DEF SInv, Logins
      <3>4. QED
        BY <1>2, <1>5, <3>1, <3>2, <3>3
    <2>3. last' <= 1 => last' = 1 /\ 1 \in authed'
      BY <1>2, <1>3, Bounds
    <2>4. RequestsFollowLogin'
      BY <1>1, <1>2, Bounds DEF SInv, Logins, RequestsFollowLogin
    <2>5. QED
      BY <1>3, <2>1, <2>2, <2>3, <2>4 DEF Logins
  <1>10. QED
    BY <1>4, <1>5, <1>6, <1>7, <1>8, <1>9 DEF SInv

\* markReady opens the gate, and the portal hands out a ticket.
LEMMA OpensInv ==
  ASSUME PInv, SInv, NEW t \in Markers, at[t] \in {"login", "relogin", "mark"}, Goto(t, "idle"),
         Lined(t), NewTicket, gate' \in {gate, "ok"},
         authed \subseteq authed', authed' \subseteq 1..last,
         \A k \in authed' : k \in authed \/ sock[k] = "up",
         last <= 1 /\ io = last => last = 1 /\ (1 \in authed' \/ sock[1] = "dropping"),
         joined' /\ io = 0 =>
           \E x \in Enders : at[x] \in {"closing", "event"} \/ (at[x] = "door" /\ x # "join"),
         hooked' \subseteq 1..last, UNCHANGED << io, sock, last, open >>
  PROVE  SInv'
  <1>1. /\ at'[t] = "idle" /\ via'[t] = 0 /\ via' = [via EXCEPT ![t] = 0]
        /\ \A x \in Tasks \ {t} : at'[x] = at[x] /\ via'[x] = via[x]
        /\ teller' \in Enders \cup {"none"} /\ t \in Tasks /\ t # "lost"
    BY Bounds, GotoIs DEF Remote, SInv, SocketTypes, Markers
  <1>2. at'["lost"] = at["lost"] /\ via'["lost"] = via["lost"]
    BY <1>1, Bounds
  <1>3. SocketTypes'
    BY <1>1, Bounds DEF SInv, SocketTypes, NewTicket
  <1>4. Line' /\ \A x, y \in Tasks \ {t} : Before(line, x, y) => Before(line', x, y)
    BY <1>1, LineFollows DEF SInv
  <1>5. Links'
    <2>1. \A x \in Tasks : at'[x] = "closing" => via'[x] # io' /\ sock'[via'[x]] # "none"
      BY <1>1 DEF SInv, Links
    <2>2. \A x \in Tasks : via'[x] # 0 /\ at'[x] \notin {"closing", "unmark"} =>
            sock'[via'[x]] = "up"
      BY <1>1 DEF SInv, Links
    <2>3. at'["join"] = "connecting" => at["join"] = "connecting"
      BY <1>1, Bounds
    <2>4. \A k \in 1..MaxJoins : sock'[k] \in {"none", "down", "closed"} => k \notin authed'
      BY DEF SInv, Links
    <2>5. \A k \in 1..MaxJoins :
            k > last' \/ (k = last' /\ at'["join"] = "connecting") => sock'[k] = "none"
      BY <2>3 DEF SInv, Links
    <2>6. \A x \in Tasks : /\ at'[x] = "unmark" => x = "lost"
                           /\ at'[x] \in {"login", "relogin"} => via'[x] # 0
      BY <1>1 DEF SInv, Links
    <2>7. at'["lost"] = "unmark" =>
            via'["lost"] # 0 /\ sock'[via'["lost"]] \in {"dropping", "closed"}
      BY <1>2 DEF SInv, Links
    <2>8. QED
      BY <2>1, <2>2, <2>4, <2>5, <2>6, <2>7 DEF Links
  <1>6. Tickets'
    BY DEF NewTicket, Tickets, TicketFresh
  <1>7. Joins'
    <2>1. \A x \in Enders : at[x] \in {"closing", "event", "door"} =>
            at'[x] = at[x] /\ via'[x] = via[x]
      BY <1>1, Bounds
    <2>2. \A x \in Tasks : at'[x] \in {"login", "mark"} => at'[x] = at[x] /\ via'[x] = via[x]
      BY <1>1
    <2>3. at'["join"] = "login" =>
            /\ via'["join"] = last'
            /\ io' = last' \/ \E x \in Enders : at'[x] = "closing" /\ via'[x] = last'
      BY <2>1, <2>2, Bounds DEF SInv, Joins
    <2>4. at'["join"] = "mark" =>
            /\ last' # 0
            /\ (io' = last' /\ sock'[last'] \in {"up", "dropping"}) \/ (io' = 0 /\ Closing')
      BY <2>1, <2>2, Bounds DEF SInv, Joins, Closing
    <2>5. joined' /\ io' = 0 =>
            \E x \in Enders : at'[x] \in {"closing", "event"} \/ (at'[x] = "door" /\ x # "join")
      BY <2>1
    <2>6. QED
      BY <2>3, <2>4, <2>5 DEF Joins
  <1>8. Logins'
    <2>1. \A x \in Tasks : at'[x] = "mark" => at[x] = "mark" /\ x # t
      BY <1>1
    <2>2. ASSUME NEW x \in Markers, at'[x] = "mark", x = "join" \/ last' = 1,
                 at'["lost"] = "unmark", via'["lost"] = last'
          PROVE  Before(line', x, "lost")
      <3>1. at[x] = "mark" /\ x \in Tasks \ {t} /\ "lost" \in Tasks \ {t}
        BY <1>1, <2>1, <2>2, Bounds DEF Markers
      <3>2. Before(line, x, "lost")
        BY <1>2, <2>2, <3>1 DEF SInv, Logins
      <3>3. QED
        BY <1>4, <3>1, <3>2
    <2>3. io' = 0 /\ last' # 0 => gate' # "pending"
      BY DEF SInv, Logins
    <2>4. RequestsFollowLogin'
      BY <1>1, Bounds DEF SInv, Logins, RequestsFollowLogin
    <2>5. \A x \in Tasks : at'[x] = "mark" => x \in Markers
      BY <2>1 DEF SInv, Logins
    <2>6. QED
      BY <2>2, <2>3, <2>4, <2>5 DEF Logins
  <1>9. QED
    BY <1>3, <1>4, <1>5, <1>6, <1>7, <1>8 DEF SInv

\* What the socket of a join, or of a relogin, says when the gate is opened.
LEMMA SMark ==
  ASSUME PInv, SInv, NEW t \in Markers, MarkReady(t)
  PROVE  SInv'
  <1>1. Lined(t) /\ Goto(t, "idle") /\ NewTicket /\ gate' \in {gate, "ok"}
    <2>1. Goto(t, "idle")
      BY DEF MarkReady, Welcome
    <2>2. at'[t] \notin InLine
      BY <2>1, Bounds, GotoIs DEF Markers, InLine
    <2>3. QED
      BY <2>1, <2>2 DEF MarkReady, Holds, Lined, GateMarked
  <1>2. last <= 1 /\ io = last => last = 1 /\ (1 \in authed \/ sock[1] = "dropping")
    BY DEF MarkReady, SInv, Logins
  <1>3. t = "join" => last # 0 /\ (io = 0 => Closing)
    BY DEF MarkReady, SInv, Joins
  <1>4. hooked' \subseteq 1..last
    <2>1. hooked' = hooked \/ (hooked' = hooked \cup {last} /\ t = "join")
      BY DEF MarkReady, Welcome
    <2>2. last # 0 => last \in 1..last
      BY Bounds
    <2>3. QED
      BY <1>3, <2>1, <2>2 DEF SInv, SocketTypes
  <1>5. joined' /\ io = 0 =>
          \E x \in Enders : at[x] \in {"closing", "event"} \/ (at[x] = "door" /\ x # "join")
    BY <1>3 DEF MarkReady, SInv, Joins, Closing
  <1>6. UNCHANGED << io, sock, last, open, authed >> /\ authed \subseteq 1..last /\ at[t] = "mark"
    BY DEF MarkReady, SInv, SocketTypes
  <1>7. QED
    BY <1>1, <1>2, <1>4, <1>5, <1>6, OpensInv

\* The answer to the login.
LEMMA SLoggedIn ==
  ASSUME PInv, SInv, LoggedIn
  PROVE  SInv'
  <1>1. "join" \in Markers /\ at["join"] = "login" /\ at["join"] \notin InLine
    BY DEF LoggedIn, Markers, InLine
  <1>2. CASE TryLeave("join", door) /\ UNCHANGED << authed, hooked >>
    <2>1. Moves("join") /\ Lined("join") /\ Loyal("join")
      BY <1>1, <1>2, Bounds, TryLeaveMoves
    <2>2. open' \in BOOLEAN /\ UNCHANGED socketVars
      BY <1>2 DEF LoggedIn, socketVars, SInv, SocketTypes
    <2>3. QED
      BY <1>1, <2>1, <2>2, Bounds, OrdinaryStep
  <1>3. CASE /\ authed' = authed \cup {via["join"]} /\ io # 0
             /\ line' = Append(line, "join") /\ Goto("join", "mark")
             /\ UNCHANGED << gate, hooked, joined, phase, door, refresh, io >>
    BY <1>1, <1>3, ToMarkInv DEF LoggedIn
  <1>4. CASE /\ authed' = authed \cup {via["join"]} /\ gate' = (IF io = 0 THEN gate ELSE GateMarked)
             /\ Welcome /\ NewTicket /\ UNCHANGED << line, io >>
    <2>1. Goto("join", "idle") /\ gate' \in {gate, "ok"}
      BY <1>4 DEF Welcome, GateMarked
    <2>2. Lined("join")
      BY <1>1, <1>4, <2>1, Bounds, GotoIs DEF Lined, InLine
    <2>3. /\ via["join"] = last /\ last \in 1..last /\ sock[last] = "up"
          /\ authed' \subseteq 1..last /\ \A k \in authed' : k \in authed \/ sock[k] = "up"
      BY <1>1, <1>4, Accepted
    <2>4. last <= 1 /\ io = last => last = 1 /\ 1 \in authed'
      BY <1>4, <2>3, Bounds
    <2>5. io = 0 => \E x \in Enders : at[x] = "closing"
      BY <1>1, <2>3 DEF SInv, Joins
    <2>6. hooked' \subseteq 1..last /\ UNCHANGED << sock, last, open >>
      BY <1>4, <2>3 DEF LoggedIn, Welcome, SInv, SocketTypes
    <2>7. QED
      BY <1>1, <1>4, <2>1, <2>2, <2>3, <2>4, <2>5, <2>6, OpensInv
  <1>5. QED
    BY <1>2, <1>3, <1>4 DEF LoggedIn

\* The answer to the relogin.
LEMMA SRelogged ==
  ASSUME PInv, SInv, Relogged
  PROVE  SInv'
  <1>1. "relogin" \in Markers /\ at["relogin"] = "relogin" /\ at["relogin"] \notin InLine
    BY DEF Relogged, Markers, InLine
  <1>2. UNCHANGED << sock, last, hooked, joined, open >>
    BY DEF Relogged
  <1>3. CASE Disconnect("relogin", door) /\ UNCHANGED authed
    <2>1. Moves("relogin") /\ Lined("relogin")
      BY <1>1, <1>3, Bounds, DisconnectMoves
    <2>2. open' \in BOOLEAN /\ UNCHANGED socketVars /\ Loyal("relogin")
      BY <1>1, <1>2, <1>3 DEF socketVars, SInv, SocketTypes, Loyal
    <2>3. QED
      BY <1>1, <2>1, <2>2, Bounds, OrdinaryStep
  <1>4. CASE /\ authed' = authed \cup {via["relogin"]} /\ io # 0
             /\ line' = Append(line, "relogin") /\ Goto("relogin", "mark")
             /\ UNCHANGED << gate, refresh, io, door, phase >>
    BY <1>1, <1>2, <1>4, ToMarkInv
  <1>5. CASE /\ authed' = authed \cup {via["relogin"]}
             /\ gate' = (IF io = 0 THEN gate ELSE GateMarked)
             /\ Goto("relogin", "idle") /\ NewTicket /\ UNCHANGED << line, io, door, phase >>
    <2>1. gate' \in {gate, "ok"}
      BY <1>5 DEF GateMarked
    <2>2. Lined("relogin")
      BY <1>1, <1>5, Bounds, GotoIs DEF Lined, InLine
    <2>3. /\ via["relogin"] \in 1..last
          /\ authed' \subseteq 1..last /\ \A k \in authed' : k \in authed \/ sock[k] = "up"
      BY <1>1, <1>5, Accepted
    <2>4. last <= 1 /\ io = last => last = 1 /\ 1 \in authed'
      BY <1>5, <2>3, Bounds
    <2>5. joined' /\ io = 0 =>
            \E x \in Enders : at[x] \in {"closing", "event"} \/ (at[x] = "door" /\ x # "join")
      BY <1>2 DEF SInv, Joins
    <2>6. hooked' \subseteq 1..last
      BY <1>2 DEF SInv, SocketTypes
    <2>7. QED
      BY <1>1, <1>2, <1>5, <2>1, <2>2, <2>3, <2>4, <2>5, <2>6, OpensInv
  <1>6. QED
    BY <1>3, <1>4, <1>5 DEF Relogged

-----------------------------------------------------------------------------
(* Links that come and go                                                  *)

\* A socket that was down is up again.
LEMMA UpIs ==
  ASSUME SInv, NEW k \in 1..MaxJoins, sock[k] = "down", sock' = [sock EXCEPT ![k] = "up"]
  PROVE  /\ sock' \in [1..MaxJoins -> SocketStates] /\ sock'[k] = "up"
         /\ \A j \in 1..MaxJoins : j # k => sock'[j] = sock[j]
         /\ k <= last /\ (k = last => at["join"] # "connecting") /\ k \notin authed
  <1>1. sock \in [1..MaxJoins -> SocketStates] /\ "up" \in SocketStates
    BY DEF SInv, SocketTypes, SocketStates
  <1>2. k <= last /\ (k = last => at["join"] # "connecting") /\ k \notin authed
    BY Bounds DEF SInv, Links
  <1>3. QED
    BY <1>1, <1>2

\* The relogin goes out, or nothing does.
LEMMA LinkUpInv ==
  ASSUME PInv, SInv, NEW k \in 1..MaxJoins, sock[k] = "down", sock' = [sock EXCEPT ![k] = "up"],
         at["relogin"] = "idle",
         \/ UNCHANGED << at, via, teller >>
         \/ Goto("relogin", "relogin") /\ io # 0 /\ (k = io \/ sock[io] = "up"),
         UNCHANGED << line, gate, io, last, hooked, authed, joined, open, refresh >>
  PROVE  SInv'
  <1>1. /\ sock' \in [1..MaxJoins -> SocketStates] /\ sock'[k] = "up"
        /\ \A j \in 1..MaxJoins : j # k => sock'[j] = sock[j]
        /\ k <= last /\ (k = last => at["join"] # "connecting") /\ k \notin authed
    BY UpIs
  <1>2. /\ \A x \in Tasks \ {"relogin"} : at'[x] = at[x] /\ via'[x] = via[x]
        /\ at'["relogin"] \in {"idle", "relogin"}
        /\ at'["relogin"] = "relogin" => via'["relogin"] = io /\ io # 0 /\ sock'[io] = "up"
        /\ at'["relogin"] = "idle" => via'["relogin"] = via["relogin"]
        /\ teller' \in Enders \cup {"none"}
        /\ via' \in [Tasks -> 0..last]
    <2>1. CASE UNCHANGED << at, via, teller >>
      BY <2>1, Bounds DEF SInv, SocketTypes
    <2>2. CASE Goto("relogin", "relogin") /\ io # 0 /\ (k = io \/ sock[io] = "up")
      <3>1. /\ \A x \in Tasks \ {"relogin"} : at'[x] = at[x] /\ via'[x] = via[x]
            /\ at'["relogin"] = "relogin" /\ via'["relogin"] = io
            /\ via' = [via EXCEPT !["relogin"] = io]
            /\ teller' \in Enders \cup {"none"}
        BY <2>2, Bounds, GotoIs DEF Remote, SInv, SocketTypes
      <3>2. sock'[io] = "up"
        BY <1>1, <2>2, Bounds
      <3>3. QED
        BY <2>2, <3>1, <3>2, Bounds DEF SInv, SocketTypes
    <2>3. QED
      BY <2>1, <2>2
  <1>3. SocketTypes'
    BY <1>1, <1>2 DEF SInv, SocketTypes
  <1>4. Line'
    <2>1. Lined("relogin")
      BY <1>2 DEF Lined, InLine
    <2>2. QED
      BY <1>2, <2>1, Bounds, LineFollows DEF SInv
  <1>5. at'["lost"] = at["lost"] /\ via'["lost"] = via["lost"] /\ at'["join"] = at["join"]
        /\ via'["join"] = via["join"]
    BY <1>2, Bounds
  <1>6. Links'
    <2>1. ASSUME NEW x \in Tasks, via'[x] # 0, at'[x] \notin {"closing", "unmark"}
          PROVE  sock'[via'[x]] = "up"
      <3>1. CASE x = "relogin" /\ at'["relogin"] = "relogin"
        BY <1>2, <3>1
      <3>2. CASE at'[x] = at[x] /\ via'[x] = via[x]
        <4>1. via[x] \in 1..MaxJoins /\ sock[via[x]] = "up"
          BY <2>1, <3>2, Bounds DEF SInv, Links
        <4>2. QED
          BY <1>1, <3>2, <4>1
      <3>3. QED
        BY <1>2, <2>1, <3>1, <3>2
    <2>2. \A x \in Tasks : /\ at'[x] \in {"login", "relogin"} => via'[x] # 0
                           /\ at'[x] = "unmark" => x = "lost"
      BY <1>2 DEF SInv, Links
    <2>3. \A j \in 1..MaxJoins : sock'[j] \in {"none", "down", "closed"} => j \notin authed'
      BY <1>1 DEF SInv, Links
    <2>4. at'["lost"] = "unmark" =>
            via'["lost"] # 0 /\ sock'[via'["lost"]] \in {"dropping", "closed"}
      BY <1>1, <1>5, Bounds DEF SInv, Links
    <2>5. ASSUME NEW x \in Tasks, at'[x] = "closing"
          PROVE  via'[x] # io' /\ sock'[via'[x]] # "none"
      <3>1. at[x] = "closing" /\ via'[x] = via[x] /\ via[x] # 0
        BY <1>2, <2>5 DEF PInv, Rest, Awaited
      <3>2. via[x] # io /\ sock[via[x]] # "none" /\ via[x] \in 1..MaxJoins
        BY <3>1, Bounds DEF SInv, Links
      <3>3. QED
        BY <1>1, <3>1, <3>2
    <2>6. \A j \in 1..MaxJoins :
            j > last' \/ (j = last' /\ at'["join"] = "connecting") => sock'[j] = "none"
      BY <1>1, <1>5, Bounds DEF SInv, Links
    <2>7. QED
      BY <2>1, <2>2, <2>3, <2>4, <2>5, <2>6 DEF Links
  <1>7. Tickets'
    <2>1. refresh'.stage = "asked" => refresh'.via = io' /\ io' # 0 /\ sock'[io'] = "up"
      BY <1>1, Bounds DEF SInv, Tickets
    <2>2. ASSUME joined', io # 0, io \in authed, sock'[io] = "up"
          PROVE  refresh.stage \in {"sleep", "asked", "refused"}
      <3>1. sock[io] = "up"
        BY <1>1, <2>2, Bounds
      <3>2. QED
        BY <2>2, <3>1 DEF SInv, Tickets, TicketFresh
    <2>3. QED
      BY <2>1, <2>2 DEF Tickets, TicketFresh
  <1>8. Joins'
    <2>1. \A x \in Enders : at[x] \in {"closing", "event", "door"} =>
            at'[x] = at[x] /\ via'[x] = via[x]
      BY <1>2, Bounds
    <2>2. last # 0 /\ sock[last] \in {"up", "dropping"} => sock'[last] \in {"up", "dropping"}
      BY <1>1, Bounds
    <2>3. at'["join"] = "login" =>
            /\ via'["join"] = last'
            /\ io' = last' \/ \E x \in Enders : at'[x] = "closing" /\ via'[x] = last'
      BY <1>5, <2>1 DEF SInv, Joins
    <2>4. at'["join"] = "mark" =>
            /\ last' # 0
            /\ (io' = last' /\ sock'[last'] \in {"up", "dropping"}) \/ (io' = 0 /\ Closing')
      BY <1>5, <2>1, <2>2 DEF SInv, Joins, Closing
    <2>5. joined' /\ io' = 0 =>
            \E x \in Enders : at'[x] \in {"closing", "event"} \/ (at'[x] = "door" /\ x # "join")
      BY <2>1 DEF SInv, Joins
    <2>6. QED
      BY <2>3, <2>4, <2>5 DEF Joins
  <1>9. Logins'
    <2>1. \A x \in Tasks : at'[x] = "mark" => at[x] = "mark"
      BY <1>2
    <2>2. \A x \in Markers : at'[x] = "mark" => at[x] = "mark"
      BY <2>1, Bounds DEF Markers
    <2>3. sock[1] = "dropping" /\ last = 1 => sock'[1] = "dropping"
      BY <1>1, Bounds
    <2>4. last' <= 1 /\ io' = last' /\ (gate' = "ok" \/ \E x \in Markers : at'[x] = "mark") =>
            last' = 1 /\ (1 \in authed' \/ sock'[1] = "dropping")
      BY <2>2, <2>3 DEF SInv, Logins
    <2>5. RequestsFollowLogin'
      BY <1>2, Bounds, RequestsAssumption DEF SInv, Logins, RequestsFollowLogin
    <2>6. QED
      BY <1>5, <2>1, <2>2, <2>4, <2>5 DEF SInv, Logins
  <1>10. QED
    BY <1>3, <1>4, <1>6, <1>7, <1>8, <1>9 DEF SInv

\* A socket is connected again.
LEMMA SLinkBack ==
  ASSUME PInv, SInv, NEW k \in 1..MaxJoins, Reconnect(k)
  PROVE  SInv'
  <1>1. /\ sock[k] = "down" /\ at["relogin"] = "idle" /\ sock' = [sock EXCEPT ![k] = "up"]
        /\ at["relogin"] \notin InLine /\ open' \in BOOLEAN
        /\ UNCHANGED << last, hooked, authed, joined, open >>
    BY DEF Reconnect, InLine, SInv, SocketTypes
  <1>2. CASE UNCHANGED << at, via, line, gate, io, door, teller, phase, refresh >>
    BY <1>1, <1>2, LinkUpInv
  <1>3. CASE /\ k = io \/ SendOutcome = "sent"
             /\ Goto("relogin", "relogin") /\ UNCHANGED << line, gate, io, door, phase, refresh >>
    <2>1. io # 0 /\ (k = io \/ sock[io] = "up")
      BY <1>3 DEF SendOutcome
    <2>2. QED
      BY <1>1, <1>3, <2>1, LinkUpInv
  <1>4. CASE Disconnect("relogin", door)
    <2>1. Moves("relogin") /\ Lined("relogin")
      BY <1>1, <1>4, Bounds, DisconnectMoves
    <2>2. at["join"] # "connecting" => at'["join"] # "connecting"
      <3>1. \E stage : Goto("relogin", stage)
        BY <2>1 DEF Moves, Rests, Asks, GivesUp
      <3>2. QED
        BY <3>1, Bounds, GotoIs
    <2>3. Awakes
      BY <1>1, <2>2, UpIs DEF Awakes
    <2>4. Loyal("relogin")
      BY <1>1 DEF Loyal
    <2>5. QED
      BY <1>1, <2>1, <2>3, <2>4, Bounds, OrdinaryInv DEF Ordinary
  <1>5. QED
    BY <1>2, <1>3, <1>4 DEF Reconnect

\* The refresh of the ticket.
LEMMA SRefresh ==
  ASSUME PInv, SInv, RefreshWakes \/ Refreshed \/ UNCHANGED vars
  PROVE  SInv'
  <1>1. /\ UNCHANGED << at, via, line, gate, io, sock, last, hooked, authed, joined, teller, open >>
        /\ SendOutcome \in {"refused", "sent", "hung"}
    BY DEF RefreshWakes, Refreshed, vars, socketVars, SendOutcome
  <1>2. Line' /\ Links' /\ Joins' /\ Logins'
    BY <1>1 DEF SInv, Line, Contains, IsInjective, Links, Joins, Closing, Logins, Before,
                RequestsFollowLogin
  <1>3. CASE UNCHANGED refresh
    BY <1>1, <1>2, <1>3 DEF SInv, SocketTypes, Tickets, TicketFresh
  <1>4. CASE RefreshWakes
    <2>1. CASE refresh' = NoRefresh /\ SendOutcome = "refused"
      BY <1>1, <1>2, <2>1, Bounds
      DEF NoRefresh, SendOutcome, SInv, SocketTypes, Tickets, TicketFresh
    <2>2. CASE refresh' = [stage |-> "asked", via |-> io] /\ SendOutcome = "sent"
      BY <1>1, <1>2, <2>2, Bounds DEF SendOutcome, SInv, SocketTypes, Tickets, TicketFresh
    <2>3. CASE refresh' = [stage |-> "hung", via |-> 0] /\ SendOutcome = "hung"
      BY <1>1, <1>2, <2>3, Bounds DEF SendOutcome, SInv, SocketTypes, Tickets, TicketFresh
    <2>4. QED
      BY <1>1, <1>4, <2>1, <2>2, <2>3 DEF RefreshWakes
  <1>5. CASE Refreshed
    BY <1>1, <1>2, <1>5 DEF Refreshed, NewTicket, SInv, SocketTypes, Tickets, TicketFresh
  <1>6. QED
    BY <1>3, <1>4, <1>5 DEF vars

-----------------------------------------------------------------------------
(* The link goes down                                                      *)

\* Who hangs on a link that is gone, and who does not.
LEMMA LoseLinkIs ==
  ASSUME PInv, SInv, NEW k \in 1..last, NEW t \in Tasks, NEW stage \in {"idle", "event", "unmark"},
         LoseLink(k, t, stage)
  PROVE  /\ at'[t] = stage /\ via'[t] = IF stage = "unmark" THEN k ELSE 0
         /\ via' \in [Tasks -> 0..last] /\ teller' = teller
         /\ \A x \in Tasks \ {t} :
              \/ /\ at'[x] = at[x] /\ via'[x] = via[x]
                 /\ via[x] = k => at[x] \in {"closing", "unmark"}
              \/ via[x] = k /\ at[x] \in Remote /\ via'[x] = 0 /\ at'[x] \in {"idle", "hung"}
         /\ \A x \in Tasks \ {t} : at'[x] \in InLine <=> at[x] \in InLine
         /\ refresh' = refresh \/ refresh' = [stage |-> "hung", via |-> 0]
         /\ refresh.stage = "asked" /\ refresh.via = k => refresh'.stage = "hung"
         /\ refresh.stage # "asked" \/ refresh.via # k => refresh' = refresh
  <1> DEFINE hangs(x) == via[x] = k /\ at[x] \notin {"closing", "unmark"}
  <1>1. /\ at' = [x \in Tasks |-> IF x = t THEN stage
                                ELSE IF ~hangs(x) THEN at[x]
                                ELSE IF at[x] = "relogin" THEN "idle" ELSE "hung"]
        /\ via' = [x \in Tasks |-> IF x = t THEN IF stage = "unmark" THEN k ELSE 0
                                 ELSE IF hangs(x) THEN 0 ELSE via[x]]
        /\ teller' = teller
        /\ refresh' = IF refresh.stage = "asked" /\ refresh.via = k
                      THEN [stage |-> "hung", via |-> 0] ELSE refresh
    BY DEF LoseLink
  <1>2. \A x \in Tasks : hangs(x) => at[x] \in Remote
    BY DEF PInv, Rest, Awaited
  <1>3. via' \in [Tasks -> 0..last]
    BY <1>1, Bounds DEF SInv, SocketTypes
  <1>4. \A x \in Tasks \ {t} :
          \/ /\ at'[x] = at[x] /\ via'[x] = via[x]
             /\ via[x] = k => at[x] \in {"closing", "unmark"}
          \/ via[x] = k /\ at[x] \in Remote /\ via'[x] = 0 /\ at'[x] \in {"idle", "hung"}
    <2>1. SUFFICES ASSUME NEW x \in Tasks \ {t}
                   PROVE  \/ /\ at'[x] = at[x] /\ via'[x] = via[x]
                             /\ via[x] = k => at[x] \in {"closing", "unmark"}
                          \/ /\ via[x] = k /\ at[x] \in Remote /\ via'[x] = 0
                             /\ at'[x] \in {"idle", "hung"}
      OBVIOUS
    <2>2. CASE hangs(x)
      BY <1>1, <1>2, <2>1, <2>2
    <2>3. CASE ~hangs(x)
      BY <1>1, <2>1, <2>3
    <2>4. QED
      BY <2>2, <2>3
  <1>5. \A x \in Tasks \ {t} : at'[x] \in InLine <=> at[x] \in InLine
    BY <1>4 DEF InLine, Remote
  <1>6. at'[t] = stage /\ via'[t] = IF stage = "unmark" THEN k ELSE 0
    BY <1>1
  <1>7. QED
    BY <1>1, <1>3, <1>4, <1>5, <1>6

\* A socket that was given up is closed.
LEMMA SClosed ==
  ASSUME PInv, SInv, NEW t \in Enders, Closed(t)
  PROVE  SInv'
  <1> DEFINE k == via[t]
  <1>1. /\ t \in Tasks /\ at[t] = "closing" /\ k \in 1..last /\ k \in 1..MaxJoins /\ k # io
        /\ sock[k] # "none" /\ LoseLink(k, t, "event")
    <2>1. t \in Tasks /\ at[t] = "closing" /\ LoseLink(k, t, "event")
      BY Bounds DEF Closed
    <2>2. k # 0 /\ k # io /\ sock[k] # "none"
      BY <2>1 DEF PInv, Rest, Awaited, SInv, Links
    <2>3. QED
      BY <2>1, <2>2, Bounds
  <1> HIDE DEF k
  <1>2. /\ at'[t] = "event" /\ via'[t] = 0 /\ via' \in [Tasks -> 0..last] /\ teller' = teller
        /\ \A x \in Tasks \ {t} :
             \/ /\ at'[x] = at[x] /\ via'[x] = via[x]
                /\ via[x] = k => at[x] \in {"closing", "unmark"}
             \/ via[x] = k /\ at[x] \in Remote /\ via'[x] = 0 /\ at'[x] \in {"idle", "hung"}
        /\ \A x \in Tasks \ {t} : at'[x] \in InLine <=> at[x] \in InLine
        /\ refresh' = refresh \/ refresh' = [stage |-> "hung", via |-> 0]
        /\ refresh.stage # "asked" \/ refresh.via # k => refresh' = refresh
    BY <1>1, LoseLinkIs
  <1>3. /\ UNCHANGED << line, gate, io, last, hooked, phase, joined, door, open >> /\ LockRests
        /\ authed' = authed \ {k}
        /\ sock' = [sock EXCEPT ![k] = "closed"]
    BY DEF Closed, k
  <1>4. /\ sock' \in [1..MaxJoins -> SocketStates] /\ sock'[k] = "closed"
        /\ \A j \in 1..MaxJoins : j # k => sock'[j] = sock[j]
    BY <1>1, <1>3 DEF SInv, SocketTypes, SocketStates
  <1>5. refresh' = refresh
    BY <1>1, <1>2 DEF SInv, Tickets
  <1>6. SocketTypes'
    BY <1>2, <1>3, <1>4, <1>5 DEF SInv, SocketTypes
  <1>7. Line'
    <2>1. Lined(t)
      BY <1>1, <1>2, <1>3 DEF Lined, InLine
    <2>2. QED
      BY <1>1, <1>2, <2>1, LineFollows DEF SInv
  <1>8. Links'
    <2>1. ASSUME NEW x \in Tasks
          PROVE  /\ via'[x] # 0 /\ at'[x] \notin {"closing", "unmark"} => sock'[via'[x]] = "up"
                 /\ at'[x] \in {"login", "relogin"} => via'[x] # 0
                 /\ at'[x] = "closing" => via'[x] # io' /\ sock'[via'[x]] # "none"
                 /\ at'[x] = "unmark" => x = "lost"
      <3>1. CASE /\ x # t /\ at'[x] = at[x] /\ via'[x] = via[x]
                 /\ via[x] = k => at[x] \in {"closing", "unmark"}
        <4>1. via[x] \in 0..last /\ (via[x] # 0 => via[x] \in 1..MaxJoins)
          BY Bounds
        <4>2. QED
          BY <1>3, <1>4, <3>1, <4>1 DEF SInv, Links, PInv, Rest, Awaited
      <3>2. QED
        BY <1>2, <3>1
    <2>2. \A j \in 1..MaxJoins : sock'[j] \in {"none", "down", "closed"} => j \notin authed'
      BY <1>3, <1>4 DEF SInv, Links
    <2>3. at'["lost"] = "unmark" =>
            via'["lost"] # 0 /\ sock'[via'["lost"]] \in {"dropping", "closed"}
      <3>1. at'["lost"] = "unmark" => at["lost"] = "unmark" /\ via'["lost"] = via["lost"]
        BY <1>2, Bounds
      <3>2. QED
        BY <1>4, <3>1, Bounds DEF SInv, Links
    <2>4. \A j \in 1..MaxJoins : j > last' \/ (j = last' /\ at'["join"] = "connecting") =>
            sock'[j] = "none"
      <3>1. at'["join"] = "connecting" => at["join"] = "connecting"
        BY <1>2, Bounds
      <3>2. ~(k > last) /\ (k = last => at["join"] # "connecting")
        BY <1>1, Bounds DEF SInv, Links
      <3>3. QED
        BY <1>3, <1>4, <3>1, <3>2 DEF SInv, Links
    <2>5. QED
      BY <2>1, <2>2, <2>3, <2>4 DEF Links
  <1>9. Tickets'
    <2>1. io # 0 => io \in 1..MaxJoins /\ sock'[io] = sock[io]
      BY <1>1, <1>4, Bounds
    <2>2. at'["relogin"] = "mark" <=> at["relogin"] = "mark"
      BY <1>1, <1>2, Bounds DEF Remote
    <2>3. QED
      BY <1>3, <1>5, <2>1, <2>2 DEF SInv, Tickets, TicketFresh
  <1>10. Joins'
    <2>1. ASSUME at'["join"] = "login"
          PROVE  /\ via'["join"] = last'
                 /\ io' = last' \/ \E x \in Enders : at'[x] = "closing" /\ via'[x] = last'
      <3>1. at["join"] = "login" /\ via'["join"] = via["join"] /\ via["join"] = last /\ k # last
        BY <1>2, <2>1, Bounds DEF SInv, Joins
      <3>2. \A x \in Enders : at[x] = "closing" /\ via[x] = last =>
              at'[x] = "closing" /\ via'[x] = last
        BY <1>2, <3>1, Bounds DEF k
      <3>3. QED
        BY <1>3, <3>1, <3>2 DEF SInv, Joins
    <2>2. ASSUME at'["join"] = "mark"
          PROVE  /\ last' # 0
                 /\ (io' = last' /\ sock'[last'] \in {"up", "dropping"}) \/ (io' = 0 /\ Closing')
      <3>1. at["join"] = "mark"
        BY <1>2, <2>2, Bounds
      <3>2. line # << >>
        BY <3>1, Bounds DEF SInv, Line, InLine, Contains
      <3>3. gate = "pending"
        BY <1>3, <3>2 DEF LockRests, Passing, SendOutcome, PInv, Rest, Types
      <3>4. last # 0 /\ io = last /\ sock[last] \in {"up", "dropping"}
        BY <3>1, <3>3 DEF SInv, Joins, Logins
      <3>5. QED
        BY <1>1, <1>3, <1>4, <3>4, Bounds
    <2>3. ASSUME joined', io' = 0
          PROVE  \E x \in Enders :
                   at'[x] \in {"closing", "event"} \/ (at'[x] = "door" /\ x # "join")
      BY <1>2
    <2>4. QED
      BY <2>1, <2>2, <2>3 DEF Joins
  <1>11. Logins'
    <2>1. \A x \in Tasks : at'[x] = "mark" => at[x] = "mark"
      BY <1>2
    <2>2. at'["lost"] = "unmark" => at["lost"] = "unmark" /\ via'["lost"] = via["lost"]
      BY <1>2, Bounds
    <2>3. \A x \in Markers :
            at'[x] = "mark" /\ (x = "join" \/ last' = 1) /\ at'["lost"] = "unmark"
              /\ via'["lost"] = last' => Before(line', x, "lost")
      BY <1>3, <2>1, <2>2, Bounds DEF SInv, Logins, Markers
    <2>4. ASSUME last' <= 1, io' = last', gate' = "ok" \/ \E x \in Markers : at'[x] = "mark"
          PROVE  last' = 1 /\ (1 \in authed' \/ sock'[1] = "dropping")
      <3>1. gate = "ok" \/ \E x \in Markers : at[x] = "mark"
        BY <1>3, <2>1, <2>4, Bounds DEF Markers
      <3>2. last = 1 /\ (1 \in authed \/ sock[1] = "dropping") /\ io = 1
        BY <1>3, <2>4, <3>1 DEF SInv, Logins
      <3>3. QED
        BY <1>1, <1>3, <1>4, <3>2, Bounds
    <2>5. RequestsFollowLogin'
      BY <1>1, <1>2, <1>3, Bounds, RequestsAssumption DEF SInv, Logins, RequestsFollowLogin
    <2>6. QED
      BY <1>3, <2>1, <2>3, <2>4, <2>5 DEF SInv, Logins
  <1>12. QED
    BY <1>6, <1>7, <1>8, <1>9, <1>10, <1>11 DEF SInv

\* The link of self.io is lost: it is down at once, or when the lock is free.
LEMMA SLinkLost ==
  ASSUME PInv, SInv, LinkLost
  PROVE  SInv'
  <1>1. /\ io = last /\ io # 0 /\ io \in 1..last /\ io \in 1..MaxJoins /\ sock[io] = "up"
        /\ at["lost"] = "idle" /\ UNCHANGED << io, last, hooked, joined, open >>
    BY Bounds DEF LinkLost
  <1>2. PICK stage \in {"idle", "unmark"} :
          LoseLink(io, "lost", stage) /\ (stage = "idle" <=> line = << >>)
    BY DEF LinkLost
  <1>3. /\ at'["lost"] = stage /\ via'["lost"] = (IF stage = "unmark" THEN io ELSE 0)
        /\ via' \in [Tasks -> 0..last] /\ teller' = teller
        /\ \A x \in Tasks \ {"lost"} :
             \/ /\ at'[x] = at[x] /\ via'[x] = via[x]
                /\ via[x] = io => at[x] \in {"closing", "unmark"}
             \/ via[x] = io /\ at[x] \in Remote /\ via'[x] = 0 /\ at'[x] \in {"idle", "hung"}
        /\ \A x \in Tasks \ {"lost"} : at'[x] \in InLine <=> at[x] \in InLine
        /\ refresh' = refresh \/ refresh' = [stage |-> "hung", via |-> 0]
        /\ refresh.stage = "asked" /\ refresh.via = io => refresh'.stage = "hung"
        /\ refresh.stage # "asked" \/ refresh.via # io => refresh' = refresh
    BY <1>1, <1>2, Bounds, LoseLinkIs
  <1>4. /\ stage = "idle" => /\ line' = line /\ authed' = authed \ {io} /\ gate' # "ok"
                             /\ sock' = [sock EXCEPT ![io] = "down"]
        /\ stage = "unmark" => /\ line' = Append(line, "lost") /\ authed' = authed /\ gate' = gate
                               /\ sock' = [sock EXCEPT ![io] = "dropping"]
    BY <1>1, <1>2 DEF LinkLost, Down, NotReady, SInv, SocketTypes
  <1>5. /\ sock' \in [1..MaxJoins -> SocketStates]
        /\ sock'[io] = (IF stage = "idle" THEN "down" ELSE "dropping")
        /\ \A j \in 1..MaxJoins : j # io => sock'[j] = sock[j]
    BY <1>1, <1>4 DEF SInv, SocketTypes, SocketStates
  <1>6. SocketTypes'
    <2>1. authed' \subseteq 1..last
      BY <1>2, <1>4 DEF SInv, SocketTypes
    <2>2. /\ refresh'.stage \in {"none", "sleep", "asked", "hung", "refused"}
          /\ refresh'.via \in 0..last
      BY <1>3, Bounds DEF SInv, SocketTypes
    <2>3. QED
      BY <1>1, <1>3, <1>5, <2>1, <2>2 DEF SInv, SocketTypes
  <1>7. Line'
    <2>1. Lined("lost")
      BY <1>1, <1>2, <1>3, <1>4 DEF Lined, InLine
    <2>2. QED
      BY <1>3, <2>1, Bounds, LineFollows DEF SInv
  <1>8. Links'
    <2>1. ASSUME NEW x \in Tasks
          PROVE  /\ via'[x] # 0 /\ at'[x] \notin {"closing", "unmark"} => sock'[via'[x]] = "up"
                 /\ at'[x] \in {"login", "relogin"} => via'[x] # 0
                 /\ at'[x] = "closing" => via'[x] # io' /\ sock'[via'[x]] # "none"
                 /\ at'[x] = "unmark" => x = "lost"
      <3>1. CASE /\ x # "lost" /\ at'[x] = at[x] /\ via'[x] = via[x]
                 /\ via[x] = io => at[x] \in {"closing", "unmark"}
        <4>1. via[x] \in 0..last /\ (via[x] # 0 => via[x] \in 1..MaxJoins)
          BY Bounds
        <4>2. at[x] = "closing" => via[x] # io /\ sock[via[x]] # "none" /\ via[x] # 0
          BY DEF SInv, Links, PInv, Rest, Awaited
        <4>3. QED
          BY <1>1, <1>5, <3>1, <4>1, <4>2 DEF SInv, Links
      <3>2. QED
        BY <1>3, <3>1
    <2>2. \A j \in 1..MaxJoins : sock'[j] \in {"none", "down", "closed"} => j \notin authed'
      BY <1>4, <1>5 DEF SInv, Links
    <2>3. at'["lost"] = "unmark" =>
            via'["lost"] # 0 /\ sock'[via'["lost"]] \in {"dropping", "closed"}
      BY <1>1, <1>3, <1>5
    <2>4. \A j \in 1..MaxJoins : j > last' \/ (j = last' /\ at'["join"] = "connecting") =>
            sock'[j] = "none"
      <3>1. at'["join"] = "connecting" => at["join"] = "connecting"
        BY <1>3, Bounds
      <3>2. at["join"] # "connecting"
        BY <1>1, Bounds DEF SInv, Links
      <3>3. QED
        BY <1>1, <1>5, <3>1, <3>2, Bounds DEF SInv, Links
    <2>5. QED
      BY <2>1, <2>2, <2>3, <2>4 DEF Links
  <1>9. Tickets'
    <2>1. refresh'.stage # "asked"
      BY <1>3 DEF SInv, Tickets
    <2>2. sock'[io'] # "up"
      BY <1>1, <1>5
    <2>3. QED
      BY <2>1, <2>2 DEF Tickets, TicketFresh
  <1>10. Joins'
    <2>1. at'["join"] # "login"
      BY <1>1, <1>3, Bounds DEF SInv, Joins
    <2>2. at'["join"] = "mark" => stage = "unmark"
      <3>1. at'["join"] = "mark" => at["join"] = "mark"
        BY <1>3, Bounds
      <3>2. at["join"] = "mark" => line # << >>
        BY Bounds DEF SInv, Line, InLine, Contains
      <3>3. QED
        BY <1>2, <3>1, <3>2
    <2>3. QED
      BY <1>1, <1>5, <2>1, <2>2 DEF Joins
  <1>11. Logins'
    <2>1. \A x \in Tasks : at'[x] = "mark" => at[x] = "mark"
      BY <1>3
    <2>2. \A x \in Tasks : at[x] = "mark" => Contains(line, x)
      BY DEF SInv, Line, InLine
    <2>3. ASSUME NEW x \in Markers, at'[x] = "mark", at'["lost"] = "unmark"
          PROVE  Before(line', x, "lost")
      <3>1. line' = Append(line, "lost") /\ line \in Seq(Tasks)
        BY <1>3, <1>4, <2>3 DEF SInv, Line
      <3>2. Contains(line, x)
        BY <2>1, <2>2, <2>3, Bounds DEF Markers
      <3>3. QED
        BY <3>1, <3>2, AppendBefore
    <2>4. stage = "idle" => gate' # "ok" /\ ~\E x \in Markers : at'[x] = "mark"
      BY <1>2, <1>4, <2>1, <2>2, Bounds DEF Markers, Contains
    <2>5. ASSUME last' <= 1, io' = last', gate' = "ok" \/ \E x \in Markers : at'[x] = "mark"
          PROVE  last' = 1 /\ (1 \in authed' \/ sock'[1] = "dropping")
      BY <1>1, <1>2, <1>5, <2>4, <2>5, Bounds
    <2>6. RequestsFollowLogin'
      BY <1>1, <1>3, <1>4, Bounds, RequestsAssumption DEF SInv, Logins, RequestsFollowLogin
    <2>7. QED
      BY <1>1, <2>1, <2>3, <2>5, <2>6 DEF SInv, Logins
  <1>12. QED
    BY <1>6, <1>7, <1>8, <1>9, <1>10, <1>11 DEF SInv

\* The lock is handed to the loss of a link.
LEMMA SLinkDown ==
  ASSUME PInv, SInv, LinkDown
  PROVE  SInv'
  <1> DEFINE k == via["lost"]
  <1>1. /\ at["lost"] = "unmark" /\ k \in 1..last /\ k \in 1..MaxJoins
        /\ sock[k] \in {"dropping", "closed"} /\ line # << >> /\ Head(line) = "lost"
    BY Bounds DEF LinkDown, Holds, SInv, Links
  <1>2. /\ line' = Tail(line) /\ Goto("lost", "idle")
        /\ UNCHANGED << io, last, hooked, phase, joined, door, open, refresh >>
        /\ sock' = [sock EXCEPT ![k] = IF @ = "closed" THEN @ ELSE "down"]
        /\ authed' = authed \ {k} /\ gate' = NotReady
    BY DEF LinkDown, Down
  <1> HIDE DEF k
  <1>3. /\ at'["lost"] = "idle" /\ via'["lost"] = 0 /\ via' = [via EXCEPT !["lost"] = 0]
        /\ \A x \in Tasks \ {"lost"} : at'[x] = at[x] /\ via'[x] = via[x]
        /\ teller' \in Enders \cup {"none"}
    <2>1. "lost" \in Tasks /\ Goto("lost", "idle") /\ at["lost"] # "event"
      BY <1>1, <1>2, Bounds
    <2>2. "idle" \notin Remote /\ teller \in Enders \cup {"none"}
      BY DEF Remote, SInv, SocketTypes
    <2>3. QED
      BY <2>1, <2>2, GotoIs
  <1>4. /\ sock' \in [1..MaxJoins -> SocketStates] /\ sock'[k] \in {"down", "closed"}
        /\ \A j \in 1..MaxJoins : j # k => sock'[j] = sock[j]
    BY <1>1, <1>2 DEF SInv, SocketTypes, SocketStates
  <1>5. \A x \in Markers : ~(at[x] = "mark" /\ (x = "join" \/ last = 1) /\ k = last)
    <2>1. \A x : ~Before(line, x, "lost")
      <3>1. line \in Seq(Tasks) /\ IsInjective(line) /\ line # << >>
        BY <1>1 DEF SInv, Line
      <3>2. \A x : ~Before(line, x, Head(line))
        BY <3>1, TailBefore
      <3>3. QED
        BY <1>1, <3>2
    <2>2. QED
      BY <1>1, <2>1 DEF SInv, Logins, k
  <1>6. SocketTypes'
    <2>1. via \in [Tasks -> 0..last] /\ authed \subseteq 1..last /\ 0 \in 0..last
      BY Bounds DEF SInv, SocketTypes
    <2>2. via' \in [Tasks -> 0..last]
      BY <1>3, <2>1
    <2>3. authed' \subseteq 1..last
      BY <1>2, <2>1
    <2>4. QED
      BY <1>2, <1>3, <1>4, <2>2, <2>3 DEF SInv, SocketTypes
  <1>7. Line'
    <2>1. Lined("lost")
      BY <1>1, <1>2, <1>3 DEF Lined, InLine
    <2>2. QED
      BY <1>3, <2>1, Bounds, LineFollows DEF SInv
  <1>8. Links'
    <2>1. ASSUME NEW x \in Tasks
          PROVE  /\ via'[x] # 0 /\ at'[x] \notin {"closing", "unmark"} => sock'[via'[x]] = "up"
                 /\ at'[x] \in {"login", "relogin"} => via'[x] # 0
                 /\ at'[x] = "closing" => via'[x] # io' /\ sock'[via'[x]] # "none"
                 /\ at'[x] = "unmark" => x = "lost"
      <3>1. CASE x # "lost"
        <4>1. via[x] \in 0..last /\ (via[x] # 0 => via[x] \in 1..MaxJoins)
          BY Bounds
        <4>2. at[x] = "closing" => via[x] # io /\ sock[via[x]] # "none" /\ via[x] # 0
          BY DEF SInv, Links, PInv, Rest, Awaited
        <4>3. QED
          BY <1>1, <1>2, <1>3, <1>4, <3>1, <4>1, <4>2 DEF SInv, Links
      <3>2. QED
        BY <1>3, <3>1
    <2>2. \A j \in 1..MaxJoins : sock'[j] \in {"none", "down", "closed"} => j \notin authed'
      BY <1>2, <1>4 DEF SInv, Links
    <2>3. \A j \in 1..MaxJoins : j > last' \/ (j = last' /\ at'["join"] = "connecting") =>
            sock'[j] = "none"
      BY <1>1, <1>2, <1>3, <1>4, Bounds DEF SInv, Links
    <2>4. QED
      BY <1>3, <2>1, <2>2, <2>3 DEF Links
  <1>9. Tickets'
    <2>1. io # 0 /\ io # k => sock'[io] = sock[io] /\ io \in 1..MaxJoins
      BY <1>4, Bounds
    <2>2. QED
      BY <1>1, <1>2, <1>3, <1>4, <2>1, Bounds DEF SInv, Tickets, TicketFresh
  <1>10. Joins'
    <2>1. at'["join"] = "mark" => io # k
      <3>1. SUFFICES ASSUME at'["join"] = "mark", io = k
                     PROVE  FALSE
        OBVIOUS
      <3>2. at["join"] = "mark" /\ k = last
        BY <1>1, <1>3, <3>1, Bounds
      <3>3. QED
        BY <1>5, <3>2 DEF Markers
    <2>2. ASSUME at'["join"] = "mark"
          PROVE  /\ last' # 0
                 /\ (io' = last' /\ sock'[last'] \in {"up", "dropping"}) \/ (io' = 0 /\ Closing')
      <3>1. last # 0 /\ ((io = last /\ sock[last] \in {"up", "dropping"}) \/ (io = 0 /\ Closing))
        BY <1>3, <2>2, Bounds DEF SInv, Joins
      <3>2. Closing => Closing'
        BY <1>3, Sorts DEF Closing
      <3>3. QED
        BY <1>2, <1>4, <2>1, <2>2, <3>1, <3>2, Bounds
    <2>3. \A x \in Enders : at'[x] = at[x] /\ via'[x] = via[x]
      BY <1>3, Sorts
    <2>4. QED
      BY <1>2, <2>2, <2>3, Bounds DEF SInv, Joins
  <1>11. Logins'
    <2>1. \A x \in Tasks : at'[x] = "mark" => at[x] = "mark"
      BY <1>3
    <2>2. io' = 0 /\ last' # 0 => gate' # "pending"
      BY <1>2 DEF NotReady, SInv, Logins
    <2>3. ~(last' <= 1 /\ io' = last' /\ (gate' = "ok" \/ \E x \in Markers : at'[x] = "mark"))
      <3>1. SUFFICES ASSUME last <= 1, io = last
                     PROVE  gate' # "ok" /\ ~\E x \in Markers : at'[x] = "mark"
        BY <1>2
      <3>2. last = 1 /\ k = 1 /\ io # 0
        BY <1>1, <3>1, Bounds
      <3>3. gate' # "ok"
        BY <1>2, <3>2 DEF NotReady
      <3>4. QED
        BY <1>5, <2>1, <3>2, <3>3, Bounds DEF Markers
    <2>4. RequestsFollowLogin'
      BY <1>1, <1>2, <1>3, Bounds, Sorts, RequestsAssumption
      DEF SInv, Links, Logins, RequestsFollowLogin
    <2>5. QED
      BY <1>3, <2>1, <2>2, <2>3, <2>4 DEF SInv, Logins
  <1>12. QED
    BY <1>6, <1>7, <1>8, <1>9, <1>10, <1>11 DEF SInv

-----------------------------------------------------------------------------
(* The whole invariant                                                     *)

\* Nobody is in line and no socket is made at first.
LEMMA SInit == Init => SInv
  <1> SUFFICES ASSUME Init PROVE SInv
    OBVIOUS
  <1>1. /\ \A t \in Tasks : at[t] = "idle" /\ via[t] = 0
        /\ {"join", "relogin", "lost"} \subseteq Tasks /\ Requests \subseteq Tasks
    BY Sorts DEF Init, Enders
  <1>2. SocketTypes
    <2>1. via \in [Tasks -> 0..last] /\ sock \in [1..MaxJoins -> SocketStates]
            /\ last \in 0..MaxJoins
      BY JoinsAssumption DEF Init, SocketStates
    <2>2. refresh.stage = "none" /\ refresh.via \in 0..last
      BY DEF Init, NoRefresh
    <2>3. QED
      BY <2>1, <2>2 DEF Init, SocketTypes
  <1>3. Line
    <2>1. line \in Seq(Tasks) /\ IsInjective(line) /\ \A t : ~Contains(line, t)
      BY DEF Init, IsInjective, Contains
    <2>2. QED
      BY <1>1, <2>1 DEF Line, InLine
  <1>4. Links /\ Joins /\ Logins
    BY <1>1, JoinsAssumption DEF Init, Links, Joins, Logins, Markers, RequestsFollowLogin
  <1>5. Tickets
    BY DEF Init, Tickets, TicketFresh, NoRefresh
  <1>6. QED
    BY <1>2, <1>3, <1>4, <1>5 DEF SInv

\* Every step keeps it.
LEMMA SStep == PInv /\ SInv /\ [Next]_vars => SInv'
  <1> SUFFICES ASSUME PInv, SInv, [Next]_vars PROVE SInv'
    OBVIOUS
  <1>1. ASSUME NEW t \in Tasks, TaskStep(t)
        PROVE  SInv'
    <2>1. CASE t \in Requests \cup Enders /\ Admitted(t)
      BY <2>1, SAdmitted
    <2>2. CASE t \in Requests /\ Response(t)
      BY <2>2, SRequests
    <2>3. CASE t \in Enders /\ (CancelReady(t) \/ Told(t) \/ AtDoor(t) \/ Unpublished(t)
                                \/ ChannelsClosed(t))
      BY <2>3, SEnders
    <2>4. CASE t \in Enders /\ Closed(t)
      BY <2>4, SClosed
    <2>5. CASE t \in Markers /\ MarkReady(t)
      BY <2>5, SMark
    <2>6. CASE Join \/ Connected \/ LoggedIn
      BY <2>6, SJoin, SConnected, SLoggedIn
    <2>7. CASE Relogged
      BY <2>7, SRelogged
    <2>8. CASE LinkDown
      BY <2>8, SLinkDown
    <2>9. QED
      BY <1>1, <2>1, <2>2, <2>3, <2>4, <2>5, <2>6, <2>7, <2>8 DEF TaskStep, Markers
  <1>2. CASE \E r \in Requests : Request(r) \/ CancelRequest(r)
    BY <1>2, SRequests
  <1>3. CASE Leave \/ \E t \in {"drop", "handler"} : Fatal(t)
    BY <1>3, SEnds
  <1>4. CASE Join
    BY <1>4, SJoin
  <1>5. CASE LinkLost
    BY <1>5, SLinkLost
  <1>6. CASE LinkBack
    BY <1>6, SLinkBack DEF LinkBack
  <1>7. CASE RefreshWakes \/ Refreshed \/ UNCHANGED vars
    BY <1>7, SRefresh
  <1>8. QED
    BY <1>1, <1>2, <1>3, <1>4, <1>5, <1>6, <1>7 DEF Next

\* Both invariants hold of every state.
LEMMA SessionInvariant == Spec => [](PInv /\ SInv)
  <1>1. QED
    BY PInit, SInit, PStep, SStep, PTL DEF Spec

\* The session's state keeps its types: no task is left on a socket that was not
\* made, and _lock's line holds tasks of the program.
THEOREM SessionTypes == Spec => []TypeOK
  BY SessionInvariant, SessionCovered, PTL

\* ConferenceClient.leave: while the client counts as joined it has a portal, or
\* the one who took the portal away has yet to tell, or to leave.
THEOREM PortalWhileJoined == Spec => []JoinedHasPortal
  BY SessionInvariant, SessionCovered, PTL

\* ready(): in the first session no request is on its way over a link that is
\* not logged in, whatever drops, fails and logs in again meanwhile.
THEOREM LoginsFirst == Spec => []RequestsFollowLogin
  BY SessionInvariant, SessionCovered, PTL

\* _onReconnectionTicket: on a link that is logged in and in use the ticket is
\* being refreshed, unless the portal refused one.
THEOREM TicketsRefreshed == Spec => []TicketFresh
  BY SessionInvariant, SessionCovered, PTL
=============================================================================
