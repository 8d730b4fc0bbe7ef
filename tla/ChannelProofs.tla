----------------------------- MODULE ChannelProofs -----------------------------
(***************************************************************************)
(* Proofs about Channel, for any number of calls of publish and subscribe. *)
(*                                                                         *)
(* Three inductive invariants, each on top of the one before: TInv, the    *)
(* types; RInv, what the dictionaries, the runs of _unpublish and          *)
(* _unsubscribe, and the promise of one call say of each other; SInv, the  *)
(* order of the calls and, until a turn is lost, whose turn it is and      *)
(* where its answer is under way.                                          *)
(***************************************************************************)
EXTENDS Channel, FiniteSetTheorems, TLAPS

Stages == {"idle", "chain", "offer", "request", "announce", "soac", "await", "undo", "done", "failed"}
States == {"none", "waiting", "armed", "ok", "failed"}

\* TypeOK by parts, and what keeps it: a call that was made has a future.
Chains ==
  /\ order \in Seq(Ops) /\ chain \in [Ops -> States]
  /\ \A i \in 1..Len(order) : chain[order[i]] # "none"
CallTypes == stage \in [Ops -> Stages] /\ Chains
RegTypes ==
  /\ transceivers \subseteq Ops /\ known \subseteq Ops /\ reverse \subseteq Ops
  /\ promise \in [Ops -> {"none", "pending", "ok", "error"}]
  /\ promised \subseteq Ops /\ sessions \subseteq Ops
  /\ tracks \in [Ops -> 0..MediaTracks]
UndoTypes ==
  /\ un \in [Ops -> [Who -> {"none", "ack", "event", "closing"}]] /\ fired \in [Ops -> Nat]
  /\ refused \subseteq Ops /\ broken \subseteq Ops
PathTypes == sig \in {"stable", "offer", "closed"} /\ transport \in BOOLEAN /\ routed \in BOOLEAN
HandlerTypes ==
  /\ handler \in {Idle, Applying, Failing, Draining} \cup ({"errorEvent", "undoing"} \X Ops)
  /\ postponed \in BOOLEAN
  /\ errors \in [ErrorTasks -> {"none", "pubs", "subs"} \X Nat]
CloseTypes ==
  /\ closing \in {"open", "pubs", "subs", "announce", "peer", "done", "aborted"}
  /\ queue \subseteq Ops
Messages == {Answer, TransportError} \cup ({"ready", "error"} \X Ops)
ServerTypes ==
  /\ server \in [Ops -> {"none", "asked", "live", "answered", "ready", "gone"}]
  /\ unanswered \subseteq Ops
  /\ inbox \in Seq(Messages)

TInv == TypeOK /\ Chains

\* TInv by its parts, in a state and in the next.
LEMMA Parts ==
  /\ TInv <=> /\ CallTypes /\ RegTypes /\ UndoTypes /\ PathTypes /\ HandlerTypes
              /\ CloseTypes /\ ServerTypes
  /\ TInv' <=> /\ CallTypes' /\ RegTypes' /\ UndoTypes' /\ PathTypes' /\ HandlerTypes'
               /\ CloseTypes' /\ ServerTypes'
  BY DEF TInv, TypeOK, CallTypes, Chains, RegTypes, UndoTypes, PathTypes, HandlerTypes, CloseTypes,
         ServerTypes, Messages, Stages, States, histVars

LEMMA Kinds ==
  /\ Answer \in Messages /\ TransportError \in Messages
  /\ \A o \in Ops : << "ready", o >> \in Messages /\ << "error", o >> \in Messages
  BY DEF Messages

\* Resolving turns keeps the states of the futures.
LEMMA Resolving ==
  ASSUME NEW c \in [Ops -> States], NEW S
  PROVE  /\ ResolveSet(c, S) \in [Ops -> States]
         /\ \A x \in Ops : c[x] # "none" => ResolveSet(c, S)[x] # "none"
  BY DEF ResolveSet, States

LEMMA ChainsStep ==
  ASSUME Chains, order' = order, chain' \in [Ops -> States],
         \A x \in Ops : chain[x] # "none" => chain'[x] # "none"
  PROVE  Chains'
  BY DEF Chains

LEMMA ChainsResolved ==
  ASSUME Chains, order' = order, NEW S, chain' = ResolveSet(chain, S)
  PROVE  Chains'
  BY Resolving, ChainsStep DEF Chains

LEMMA Sizes ==
  ASSUME NEW S, sessions \subseteq Ops
  PROVE  Cardinality(sessions \cap S) \in Nat
  <1>1. IsFiniteSet(sessions \cap S)
    BY OpsAssumption, FS_Subset
  <1>2. QED
    BY <1>1, FS_CardinalityType

LEMMA Dropping ==
  ASSUME CallTypes, RegTypes, NEW o \in Ops, DropRegistration(o)
  PROVE  RegTypes' /\ Chains'
  <1>1. RegTypes'
    BY DEF DropRegistration, RegTypes, ReverseWithout, PromiseFailed
  <1>2. QED
    BY <1>1, ChainsResolved DEF DropRegistration, CallTypes, Resolve

LEMMA Failure ==
  ASSUME CallTypes, RegTypes, UndoTypes, NEW o \in Ops, FailCall(o), UNCHANGED histVars
  PROVE  CallTypes' /\ RegTypes' /\ UndoTypes'
  <1>1. stage' \in [Ops -> Stages]
    BY DEF FailCall, CallTypes, Stages
  <1>2. UndoTypes'
    BY DEF FailCall, UndoTypes, Who, histVars
  <1>3. RegTypes' /\ Chains'
    <2>1. CASE DropRegistration(o)
      BY <2>1, Dropping
    <2>2. CASE UNCHANGED << regVars, order, chain >>
      BY <2>2 DEF regVars, CallTypes, Chains, RegTypes
    <2>3. QED
      BY <2>1, <2>2 DEF FailCall
  <1>4. QED
    BY <1>1, <1>2, <1>3 DEF CallTypes

LEMMA Resumption ==
  ASSUME CallTypes, UndoTypes, HandlerTypes, NEW o \in Ops, NEW w \in Who, Resume(o, w),
         postponed' \in BOOLEAN, errors' = errors, fired' = fired, refused' \subseteq Ops,
         broken' \subseteq Ops
  PROVE  stage' \in [Ops -> Stages] /\ UndoTypes' /\ HandlerTypes'
  BY DEF Resume, CallTypes, UndoTypes, HandlerTypes, Stages, histVars

LEMMA Closes ==
  ASSUME RegTypes, CloseTypes, NEW at, ClosePhase(at)
  PROVE  CloseTypes'
  BY DEF ClosePhase, RegTypes, CloseTypes

LEMMA CloseRequests ==
  ASSUME RegTypes, CloseTypes, postponed \in BOOLEAN, NEW b \in BOOLEAN, RequestClose(b)
  PROVE  CloseTypes' /\ postponed' \in BOOLEAN
  BY Closes DEF RequestClose, CloseTypes

LEMMA Telling ==
  ASSUME RegTypes, HandlerTypes, CloseTypes, NEW w \in ErrorTasks, NEW at, TellFrom(w, at)
  PROVE  HandlerTypes' /\ CloseTypes'
  <1> DEFINE pubs == IF at = "pubs" THEN Cardinality(sessions \cap Pubs) ELSE 0
             subs == IF at # "end" THEN Cardinality(sessions \cap Subs) ELSE 0
  <1>1. pubs \in Nat /\ subs \in Nat
    BY Sizes DEF RegTypes
  <1>2. CASE /\ errors' = [errors EXCEPT ![w] = IF pubs > 0 THEN << "pubs", pubs >>
                                                ELSE << "subs", subs >>]
             /\ handler' = IF w = "handler" THEN Failing ELSE handler
             /\ UNCHANGED << closing, queue, postponed >>
    <2> HIDE DEF pubs, subs
    <2>1. QED
      BY <1>1, <1>2 DEF HandlerTypes, CloseTypes
  <1>3. CASE /\ errors' = [errors EXCEPT ![w] = << "none", 0 >>]
             /\ handler' = IF w = "handler" THEN Draining ELSE handler
             /\ RequestClose(w = "handler" \/ handler # Idle)
    <2>1. CloseTypes' /\ postponed' \in BOOLEAN
      BY <1>3, CloseRequests DEF HandlerTypes
    <2>2. QED
      BY <1>3, <2>1 DEF HandlerTypes
  <1>4. QED
    BY <1>2, <1>3 DEF TellFrom

\* What an action leaves alone keeps its types.
LEMMA Kept ==
  ASSUME TInv
  PROVE  /\ UNCHANGED callVars => CallTypes'
         /\ UNCHANGED regVars => RegTypes'
         /\ UNCHANGED undoVars => UndoTypes'
         /\ UNCHANGED pathVars => PathTypes'
         /\ UNCHANGED handlerVars => HandlerTypes'
         /\ UNCHANGED closeVars => CloseTypes'
         /\ UNCHANGED serverVars => ServerTypes'
  <1> USE Parts
  <1>1. /\ UNCHANGED callVars => CallTypes'
        /\ UNCHANGED undoVars => UndoTypes'
        /\ UNCHANGED pathVars => PathTypes'
    BY DEF callVars, undoVars, histVars, pathVars, CallTypes, Chains, UndoTypes, PathTypes
  <1>2. /\ UNCHANGED regVars => RegTypes'
        /\ UNCHANGED handlerVars => HandlerTypes'
    BY DEF regVars, handlerVars, RegTypes, HandlerTypes
  <1>3. /\ UNCHANGED closeVars => CloseTypes'
        /\ UNCHANGED serverVars => ServerTypes'
    BY DEF closeVars, serverVars, CloseTypes, ServerTypes
  <1>4. QED
    BY <1>1, <1>2, <1>3

LEMMA CallTyped ==
  ASSUME TInv, NEW o \in Ops,
         CallStep(o) \/ Start(o) \/ Stop(o) \/ Cancel(o) \/ Timeout(o)
  PROVE  TInv'
  <1> USE Parts
  <1>1. CASE Start(o)
    <2> DEFINE prior == IF order = << >> THEN "ok" ELSE chain[order[Len(order)]]
    <2>1. order # << >> => Len(order) \in 1..Len(order)
      BY DEF CallTypes, Chains
    <2>2. prior \in {"waiting", "armed", "ok", "failed"}
      BY <2>1 DEF CallTypes, Chains, States
    <2>3. Chained[prior] \in States \ {"none"} /\ chain' = [chain EXCEPT ![o] = Chained[prior]]
      BY <1>1, <2>2 DEF Start, Chained, States
    <2> HIDE DEF prior
    <2>4. Chains'
      BY <1>1, <2>3 DEF Start, CallTypes, Chains
    <2>5. stage' \in [Ops -> Stages]
      BY <1>1 DEF Start, CallTypes, Stages
    <2>6. QED
      BY <1>1, <2>4, <2>5, Kept DEF Start, CallTypes
  <1>2. CASE Timeout(o)
    <2>1. Chains'
      BY <1>2, ChainsStep DEF Timeout, TimedOut, CallTypes, Chains, States
    <2>2. QED
      BY <1>2, <2>1, Kept DEF Timeout, CallTypes
  <1>3. CASE Proceed(o)
    <2>1. CallTypes'
      BY <1>3, ChainsStep DEF Proceed, CallTypes, Chains, Stages
    <2>2. RegTypes'
      BY <1>3 DEF Proceed, RegTypes
    <2>3. QED
      BY <1>3, <2>1, <2>2, Kept DEF Proceed
  <1>4. CASE Stop(o)
    BY <1>4, Kept DEF Stop, UndoTypes, Who, histVars
  <1>5. CASE Response(o)
    <2>1. CallTypes' /\ RegTypes'
      BY <1>5 DEF Response, CallTypes, Chains, RegTypes, Stages
    <2>2. un' \in [Ops -> [Who -> {"none", "ack", "event", "closing"}]]
      BY <1>5 DEF Response, UndoTypes, Who, histVars
    <2>3. UndoTypes' /\ PathTypes'
      BY <1>5, <2>2 DEF Response, UndoTypes, PathTypes, histVars
    <2>4. QED
      BY <1>5, <2>1, <2>3, Kept DEF Response
  <1>6. CASE Announce(o)
    BY <1>6, Kept DEF Announce, CallTypes, Chains, PathTypes, ServerTypes, Stages
  <1>7. CASE Offer(o) \/ Refused(o) \/ SoacAck(o) \/ Return(o)
    <2>1. CASE FailCall(o) /\ UNCHANGED histVars
      <3>1. CallTypes' /\ RegTypes' /\ UndoTypes'
        BY <2>1, Failure
      <3>2. PathTypes' /\ ServerTypes'
        BY <1>7, Kept
        DEF Offer, Refused, SoacAck, Return, pathVars, serverVars, PathTypes, ServerTypes
      <3>3. QED
        BY <1>7, <3>1, <3>2, Kept DEF Offer, Refused, SoacAck, Return
    <2>2. CASE ~FailCall(o)
      BY <1>7, <2>2, Kept
      DEF Offer, Refused, SoacAck, Return, regVars, undoVars, histVars, CallTypes, Chains, PathTypes,
          ServerTypes, Stages
    <2>3. QED
      BY <1>7, <2>1, <2>2 DEF Offer, Refused, SoacAck, Return
  <1>8. CASE Cancel(o)
    <2>1. CASE FailCall(o) /\ UNCHANGED histVars
      BY <1>8, <2>1, Failure, Kept DEF Cancel
    <2>2. CASE ~FailCall(o)
      <3>1. CallTypes' /\ RegTypes'
        <4>1. stage' \in [Ops -> Stages]
          BY <1>8, <2>2 DEF Cancel, CallTypes, Stages
        <4>2. Chains'
          BY <1>8, <2>2, ChainsStep DEF Cancel, CallTypes, Chains
        <4>3. RegTypes'
          BY <1>8, <2>2, Kept DEF Cancel, RegTypes
        <4>4. QED
          BY <4>1, <4>2, <4>3 DEF CallTypes
      <3>2. UndoTypes'
        BY <1>8, <2>2 DEF Cancel, UndoTypes, Who, histVars
      <3>3. QED
        BY <1>8, <3>1, <3>2, Kept DEF Cancel
    <2>3. QED
      BY <1>8, <2>1, <2>2 DEF Cancel
  <1>9. QED
    BY <1>1, <1>2, <1>3, <1>4, <1>5, <1>6, <1>7, <1>8 DEF CallStep
LEMMA Forgetting ==
  ASSUME TInv, NEW o \in Ops, NEW w \in Who, Forget(o, w), UNCHANGED histVars,
         postponed' \in BOOLEAN, errors' = errors
  PROVE  CallTypes' /\ RegTypes' /\ UndoTypes' /\ HandlerTypes'
  <1> USE Parts
  <1>1. Chains'
    BY ChainsResolved DEF Forget, CallTypes, Resolve
  <1>2. stage' \in [Ops -> Stages] /\ UndoTypes' /\ HandlerTypes'
    BY Resumption DEF Forget, histVars, UndoTypes
  <1>3. RegTypes'
    BY DEF Forget, RegTypes
  <1>4. QED
    BY <1>1, <1>2, <1>3 DEF CallTypes

LEMMA UndoTyped ==
  ASSUME TInv, UndoStep \/ UndoFails
  PROVE  TInv'
  <1> USE Parts
  <1>1. ASSUME NEW o \in Ops, NEW w \in Who, UnpublishAck(o, w)
        PROVE  TInv'
    <2>1. PathTypes' /\ ServerTypes'
      BY <1>1 DEF UnpublishAck, pathVars, PathTypes, ServerTypes
    <2>2. CloseTypes' /\ postponed' = postponed /\ errors' = errors
      BY <1>1 DEF UnpublishAck, CloseTypes
    <2>7. refused' \subseteq Ops /\ broken' = broken /\ broken \subseteq Ops
      BY <1>1 DEF UnpublishAck, UndoTypes, histVars
    <2>3. CASE RegistrationGone(o)
      <3>1. Resume(o, w) /\ fired' = fired /\ UNCHANGED << regVars, order, chain >>
        BY <1>1, <2>3 DEF UnpublishAck
      <3>2. stage' \in [Ops -> Stages] /\ UndoTypes' /\ HandlerTypes'
        BY <2>2, <2>7, <3>1, Resumption DEF HandlerTypes
      <3>3. Chains'
        BY <3>1 DEF CallTypes, Chains
      <3>4. QED
        BY <2>1, <2>2, <3>1, <3>2, <3>3, Kept DEF CallTypes
    <2>4. CASE ~RegistrationGone(o) /\ o \in sessions
      <3>1. UndoTypes'
        <4>1. /\ un' = [un EXCEPT ![o][w] = "event"]
              /\ fired' = [fired EXCEPT ![o] = fired[o] + 1]
          BY <1>1, <2>4 DEF UnpublishAck
        <4>2. QED
          BY <2>7, <4>1 DEF UndoTypes
      <3>2. CallTypes' /\ HandlerTypes'
        BY <1>1, <2>4, Kept DEF UnpublishAck, HandlerTypes
      <3>3. RegTypes'
        BY <1>1, <2>4 DEF UnpublishAck, RegTypes, ReverseWithout
      <3>4. QED
        BY <2>1, <2>2, <3>1, <3>2, <3>3
    <2>5. CASE ~RegistrationGone(o) /\ o \notin sessions
      <3>1. Resume(o, w) /\ DropRegistration(o) /\ fired' = fired
        BY <1>1, <2>5 DEF UnpublishAck
      <3>2. stage' \in [Ops -> Stages] /\ UndoTypes' /\ HandlerTypes'
        BY <2>2, <2>7, <3>1, Resumption DEF HandlerTypes
      <3>3. RegTypes' /\ Chains'
        BY <3>1, Dropping
      <3>4. QED
        BY <2>1, <2>2, <3>2, <3>3 DEF CallTypes
    <2>6. QED
      BY <2>3, <2>4, <2>5
  <1>4. ASSUME NEW o \in Ops, NEW w \in Who, UndoBroken(o, w)
        PROVE  TInv'
    <2>1. Resume(o, w) /\ fired' = fired /\ refused' = refused /\ broken' \subseteq Ops
      BY <1>4 DEF UndoBroken, UndoTypes, histVars
    <2>2. CloseTypes' /\ postponed' = postponed /\ errors' = errors
      BY <1>4 DEF UndoBroken, CloseTypes
    <2>3. stage' \in [Ops -> Stages] /\ UndoTypes' /\ HandlerTypes'
      BY <2>1, <2>2, Resumption DEF UndoTypes, HandlerTypes, histVars
    <2>4. Chains' /\ RegTypes' /\ PathTypes' /\ ServerTypes'
      BY <1>4, Kept DEF UndoBroken, CallTypes, Chains
    <2>5. QED
      BY <2>2, <2>3, <2>4 DEF CallTypes
  <1>2. ASSUME NEW o \in Ops, NEW w \in Who, EndedEvent(o, w)
        PROVE  TInv'
    <2>1. PathTypes' /\ ServerTypes' /\ errors' = errors /\ UNCHANGED histVars
      BY <1>2, Kept DEF EndedEvent
    <2>2. CloseTypes' /\ postponed' \in BOOLEAN
      <3>1. CASE UNCHANGED << closing, queue, postponed >>
        BY <3>1 DEF CloseTypes, HandlerTypes
      <3>2. CASE RequestClose(handler # Idle)
        BY <3>2, CloseRequests DEF HandlerTypes
      <3>3. QED
        BY <1>2, <3>1, <3>2 DEF EndedEvent
    <2>3. CASE Forget(o, w)
      BY <2>1, <2>2, <2>3, Forgetting
    <2>4. CASE un' = [un EXCEPT ![o][w] = "closing"] /\ UNCHANGED << callVars, regVars, handler >>
      <3>1. UndoTypes'
        BY <2>1, <2>4 DEF UndoTypes, histVars
      <3>2. HandlerTypes'
        BY <2>1, <2>2, <2>4 DEF HandlerTypes
      <3>3. QED
        BY <2>1, <2>2, <2>4, <3>1, <3>2, Kept
    <2>5. QED
      BY <1>2, <2>3, <2>4 DEF EndedEvent
  <1>3. QED
    BY <1>1, <1>2, <1>4 DEF UndoStep, UndoFails
LEMMA AnswerTyped ==
  ASSUME TInv, ApplyAnswer \/ RejectAnswer
  PROVE  TInv'
  <1> USE Parts
  <1>1. CASE ApplyAnswer
    <2>1. PICK got \in [FirstSub -> IF "short" \in Faults THEN 0..MediaTracks ELSE {MediaTracks}] :
            LET complete == {s \in FirstSub \cap sessions \cap promised :
                               got[s] = MediaTracks /\ promise[s] = "pending"}
            IN  /\ tracks' = Recorded(got)
                /\ promise' = [o \in Ops |-> IF o \in complete THEN "ok" ELSE promise[o]]
                /\ promised' = promised \ complete
      BY <1>1 DEF ApplyAnswer
    <2>2. got \in [FirstSub -> 0..MediaTracks]
      BY BoundAssumption
    <2>3. tracks' \in [Ops -> 0..MediaTracks]
      BY <2>1, <2>2 DEF Recorded, RegTypes
    <2>4. RegTypes'
      BY <1>1, <2>1, <2>3 DEF ApplyAnswer, RegTypes
    <2>5. Chains'
      BY <1>1, ChainsResolved DEF ApplyAnswer, NextSdpPromise, CallTypes
    <2>6. PathTypes' /\ HandlerTypes'
      BY <1>1 DEF ApplyAnswer, PathTypes, HandlerTypes
    <2>7. QED
      BY <1>1, <2>4, <2>5, <2>6, Kept DEF ApplyAnswer, CallTypes
  <1>2. CASE RejectAnswer
    <2> DEFINE all == RequestClose(TRUE) /\ chain' = NextSdpPromise(chain)
    <2>1. all \/ UNCHANGED << closing, queue, postponed, chain >>
      BY <1>2 DEF RejectAnswer
    <2>2. RegTypes'
      BY <1>2 DEF RejectAnswer, RegTypes
    <2>3. CloseTypes' /\ postponed' \in BOOLEAN
      BY <2>1, CloseRequests DEF CloseTypes, HandlerTypes
    <2>4. Chains'
      BY <1>2, <2>1, ChainsResolved DEF RejectAnswer, NextSdpPromise, CallTypes, Chains
    <2>5. HandlerTypes'
      BY <1>2, <2>3 DEF RejectAnswer, HandlerTypes
    <2>6. QED
      BY <1>2, <2>2, <2>3, <2>4, <2>5, Kept DEF RejectAnswer, CallTypes
  <1>3. QED
    BY <1>1, <1>2

LEMMA ReceiveTyped ==
  ASSUME TInv, Receive
  PROVE  TInv'
  <1> USE Parts
  <1>1. ServerTypes'
    BY DEF Receive, ServerTypes
  <1>2. PathTypes' /\ UNCHANGED histVars /\ stage' = stage /\ order' = order
    BY Kept DEF Receive
  <1>3. CASE UNCHANGED << handler, regVars, chain, un, errors, closing, queue, postponed >>
    BY <1>1, <1>2, <1>3, Kept DEF callVars, undoVars, histVars, handlerVars, closeVars
  <1>4. CASE ReceiveAnswer
    <2>1. chain' = chain \/ chain' = NextSdpPromise(chain)
      BY <1>4 DEF ReceiveAnswer
    <2>2. Chains'
      BY <1>2, <2>1, ChainsResolved DEF NextSdpPromise, CallTypes, Chains
    <2>3. HandlerTypes'
      BY <1>4 DEF ReceiveAnswer, HandlerTypes
    <2>4. QED
      BY <1>1, <1>2, <1>4, <2>2, <2>3, Kept DEF ReceiveAnswer, CallTypes, undoVars, histVars, closeVars
  <1>5. ASSUME NEW o \in Ops, ReceiveReady(o)
        PROVE  TInv'
    <2>1. RegTypes'
      BY <1>5 DEF ReceiveReady, ReadyHandler, RegTypes, regVars
    <2>2. QED
      BY <1>1, <1>2, <1>5, <2>1, Kept DEF ReceiveReady, callVars, undoVars, histVars, handlerVars, closeVars
  <1>6. ASSUME NEW o \in Ops, ReceiveError(o)
        PROVE  TInv'
    <2>1. UndoTypes' /\ HandlerTypes'
      BY <1>2, <1>6 DEF ReceiveError, UndoByHandler, UndoTypes, HandlerTypes, Who, histVars
    <2>2. QED
      BY <1>1, <1>2, <1>6, <2>1, Kept DEF ReceiveError, callVars, closeVars
  <1>7. CASE ReceiveTransportError
    <2>1. HandlerTypes' /\ CloseTypes'
      <3>1. CASE UNCHANGED << handler, errors, closing, queue, postponed >>
        BY <3>1 DEF HandlerTypes, CloseTypes
      <3>2. CASE TellFrom("handler", "pubs")
        BY <3>2, Telling DEF ErrorTasks
      <3>3. QED
        BY <1>7, <3>1, <3>2 DEF ReceiveTransportError
    <2>2. QED
      BY <1>1, <1>2, <1>7, <2>1, Kept DEF ReceiveTransportError, callVars, undoVars
  <1>8. QED
    BY <1>3, <1>4, <1>5, <1>6, <1>7 DEF Receive

LEMMA HandlerTyped ==
  ASSUME TInv, HandlerStep \/ \E w \in PeerTasks : PeerFails(w)
  PROVE  TInv'
  <1> USE Parts
  <1>1. CASE Receive
    BY <1>1, ReceiveTyped
  <1>2. CASE ApplyAnswer \/ RejectAnswer
    BY <1>2, AnswerTyped
  <1>3. CASE Drain
    BY <1>3, Kept DEF Drain, HandlerTypes
  <1>4. ASSUME NEW o \in Ops, ErrorEventDone(o)
        PROVE  TInv'
    <2>1. UndoTypes'
      BY <1>4 DEF ErrorEventDone, UndoByHandler, UndoTypes, Who, histVars
    <2>3. HandlerTypes'
      BY <1>4 DEF ErrorEventDone, UndoByHandler, HandlerTypes
    <2>2. QED
      BY <1>4, <2>1, <2>3, Kept DEF ErrorEventDone
  <1>5. ASSUME NEW w \in ErrorTasks, ErrorsTold(w)
        PROVE  TInv'
    <2>1. HandlerTypes' /\ CloseTypes'
      <3>1. CASE \E at \in {"subs", "end"} : TellFrom(w, at)
        BY <3>1, Telling
      <3>2. CASE ~\E at \in {"subs", "end"} : TellFrom(w, at)
        BY <1>5, <3>2 DEF ErrorsTold, HandlerTypes, CloseTypes
      <3>3. QED
        BY <3>1, <3>2
    <2>2. QED
      BY <1>5, <2>1, Kept DEF ErrorsTold
  <1>6. ASSUME NEW w \in PeerTasks, PeerFails(w)
        PROVE  TInv'
    BY <1>6, Telling, Kept DEF PeerFails, ErrorTasks
  <1>7. QED
    BY <1>1, <1>2, <1>3, <1>4, <1>5, <1>6 DEF HandlerStep

LEMMA CloseTyped ==
  ASSUME TInv, CloseStep \/ CloseCalled
  PROVE  TInv'
  <1> USE Parts
  <1>1. CASE CloseNext
    <2>1. UndoTypes'
      BY <1>1 DEF CloseNext, UndoTypes, Who, histVars
    <2>2. CloseTypes'
      BY <1>1, Closes DEF CloseNext, CloseTypes
    <2>3. QED
      BY <1>1, <2>1, <2>2, Kept DEF CloseNext
  <1>2. CASE CloseEnd
    BY <1>2, Kept DEF CloseEnd, PathTypes, CloseTypes
  <1>3. CASE CloseCalled
    <2>1. CloseTypes' /\ HandlerTypes'
      BY <1>3, CloseRequests DEF CloseCalled, HandlerTypes
    <2>2. QED
      BY <1>3, <2>1, Kept DEF CloseCalled
  <1>4. QED
    BY <1>1, <1>2, <1>3 DEF CloseStep

LEMMA ServerTyped ==
  ASSUME TInv, NEW o \in Ops, ServerStep(o) \/ ServerFails(o)
  PROVE  TInv'
  <1> USE Parts
  <1>1. inbox' \in Seq(Messages)
    <2>1. \A m \in Messages : Append(inbox, m) \in Seq(Messages) /\ << m >> \in Seq(Messages)
      BY DEF ServerTypes
    <2>2. QED
      BY <2>1, Kinds DEF ServerStep, ServerFails, ServerTypes
  <1>2. server' \in [Ops -> {"none", "asked", "live", "answered", "ready", "gone"}]
        /\ unanswered' \subseteq Ops
    BY DEF ServerStep, ServerFails, ServerTypes
  <1>3. ServerTypes'
    BY <1>1, <1>2 DEF ServerTypes
  <1>4. QED
    BY <1>3, Kept DEF ServerStep, ServerFails

LEMMA TInit == Init => TInv
  <1> SUFFICES ASSUME Init PROVE TInv
    OBVIOUS
  <1>1. CallTypes /\ UndoTypes
    BY DEF Init, CallTypes, Chains, UndoTypes, Stages, States, histVars
  <1>2. RegTypes
    BY BoundAssumption DEF Init, RegTypes
  <1>3. HandlerTypes
    BY DEF Init, HandlerTypes
  <1>4. PathTypes /\ CloseTypes /\ ServerTypes
    <2>1. << >> \in Seq(Messages)
      OBVIOUS
    <2>2. QED
      BY <2>1 DEF Init, PathTypes, CloseTypes, ServerTypes
  <1>5. QED
    BY <1>1, <1>2, <1>3, <1>4, Parts

LEMMA TStep == TInv /\ [Next]_vars => TInv'
  <1> SUFFICES ASSUME TInv, [Next]_vars PROVE TInv'
    OBVIOUS
  <1>1. CASE UNCHANGED vars
    BY <1>1, Kept, Parts DEF vars
  <1>2. CASE Next
    <2>1. CASE \E o \in Ops : CallStep(o) \/ Start(o) \/ Stop(o) \/ Cancel(o) \/ Timeout(o)
      BY <2>1, CallTyped
    <2>2. CASE \E o \in Ops : ServerStep(o) \/ ServerFails(o)
      BY <2>2, ServerTyped
    <2>3. CASE HandlerStep \/ \E w \in PeerTasks : PeerFails(w)
      BY <2>3, HandlerTyped
    <2>4. CASE UndoStep \/ UndoFails \/ CloseStep \/ CloseCalled
      BY <2>4, UndoTyped, CloseTyped
    <2>5. QED
      BY <1>2, <2>1, <2>2, <2>3, <2>4 DEF Next, Environment
  <1>3. QED
    BY <1>1, <1>2

\* The variables keep their types; for _sdpPromise this needs that a call that
\* was made has a future: the next call chains to it.
THEOREM TypeCorrect == Spec => []TypeOK
  <1>1. TInv => TypeOK
    BY DEF TInv
  <1>2. QED
    BY <1>1, TInit, TStep, PTL DEF Spec
-----------------------------------------------------------------------------
(* The registrations of a call, the runs that undo them, and its promise.  *)

\* A call and the keys of the dictionaries.
Registered(x) ==
  /\ x \in known => stage[x] \notin {"idle", "chain", "offer", "request"}
  /\ stage[x] \in {"announce", "soac", "await", "undo", "done"} => x \in known
  /\ stage[x] \in {"offer", "request"} => x \in transceivers
  /\ x \in transceivers \cup promised => stage[x] \notin {"idle", "chain"}
  /\ stage[x] \in {"idle", "chain"} => promise[x] = "none"
  /\ x \in sessions \cup queue => x \in known
  /\ x \in reverse <=> x \in transceivers /\ x \in known

\* The runs that undo it, and the server's session.
Undone(x) ==
  /\ \A w \in Who : un[x][w] # "none" => x \in known
  /\ \A w \in Who : un[x][w] \in {"event", "closing"} => x \notin transceivers
  /\ x \in known \ transceivers => server[x] = "gone" \/ x \in refused
  /\ fired[x] > 0 => x \in known \ transceivers
  /\ fired[x] <= 1
  /\ stage[x] = "failed" /\ x \in transceivers => x \in broken

\* The promise its caller waits for.
Awaited(x) ==
  /\ promise[x] = "pending" => x \in promised
  /\ promise[x] = "pending" /\ (x \in sessions \/ x \notin transceivers) =>
       x \in Subs /\ tracks[x] \notin {0, MediaTracks}
  /\ promise[x] = "pending" /\ x \notin transceivers => fired[x] = 1
  /\ x \in transceivers /\ promise[x] = "ok" => x \in sessions
  /\ x \in transceivers => promise[x] # "none"

RInv == TInv /\ \A x \in Ops : Registered(x) /\ Undone(x) /\ Awaited(x)

\* The variables RInv speaks of, the types aside.
RVars == << stage, regVars, undoVars, queue, server >>

LEMMA RKept ==
  ASSUME RInv, UNCHANGED RVars
  PROVE  \A x \in Ops : (Registered(x) /\ Undone(x) /\ Awaited(x))'
  BY DEF RInv, RVars, regVars, undoVars, histVars, Registered, Undone, Awaited

\* What failing a call does to a call.
LEMMA RFailure ==
  ASSUME RInv, NEW o \in Ops, FailCall(o), UNCHANGED histVars, queue' = queue,
         server' = server \/ (stage[o] = "request" /\ server' = [server EXCEPT ![o] = "none"])
  PROVE  \A x \in Ops : (Registered(x) /\ Undone(x) /\ Awaited(x))'
  <1> SUFFICES ASSUME NEW x \in Ops PROVE (Registered(x) /\ Undone(x) /\ Awaited(x))'
    OBVIOUS
  <1>1. CallTypes /\ RegTypes /\ UndoTypes /\ ServerTypes
    BY Parts DEF RInv
  <1>2. Registered(x)'
    BY <1>1 DEF RInv, FailCall, DropRegistration, ReverseWithout, PromiseFailed, regVars,
       CallTypes, RegTypes, Registered
  <1>3. Undone(x)'
    <2>1. x \in known \ transceivers => server'[x] = server[x]
      BY <1>1 DEF RInv, Registered, ServerTypes
    <2>2. known' = known /\ UNCHANGED histVars
      BY DEF FailCall, DropRegistration, regVars
    <2>3. CASE o \in transceivers /\ o \in known
      BY <1>1, <2>1, <2>2, <2>3 DEF RInv, FailCall, regVars, Who, CallTypes, UndoTypes, Undone, histVars
    <2>4. CASE ~(o \in transceivers /\ o \in known)
      <3>1. un' = un /\ stage' = [stage EXCEPT ![o] = "failed"] /\ o \notin transceivers'
            /\ transceivers' \in {transceivers, transceivers \ {o}}
        BY <2>4 DEF FailCall, DropRegistration, regVars
      <3>2. QED
        BY <1>1, <2>1, <2>2, <2>4, <3>1 DEF RInv, CallTypes, Undone, histVars
    <2>5. QED
      BY <2>3, <2>4
  <1>4. Awaited(x)'
    BY <1>1 DEF RInv, FailCall, DropRegistration, PromiseFailed, regVars, RegTypes, Registered,
       Awaited, histVars
  <1>5. QED
    BY <1>2, <1>3, <1>4
LEMMA RCalls ==
  ASSUME RInv, NEW o \in Ops,
         CallStep(o) \/ Start(o) \/ Stop(o) \/ Cancel(o) \/ Timeout(o)
  PROVE  \A x \in Ops : (Registered(x) /\ Undone(x) /\ Awaited(x))'
  <1>1. CallTypes /\ RegTypes /\ UndoTypes /\ ServerTypes
    BY Parts DEF RInv
  <1>2. CASE FailCall(o)
    <2>1. stage'[o] \in {"failed", "undo"}
      BY <1>1, <1>2 DEF FailCall, CallTypes
    <2>2. UNCHANGED histVars /\ queue' = queue
      BY DEF CallStep, Proceed, Offer, Response, Refused, Announce, SoacAck, Return, Start, Stop,
             Cancel, Timeout, undoVars, histVars, closeVars
    <2>3. server' = server \/ (stage[o] = "request" /\ server' = [server EXCEPT ![o] = "none"])
      BY <1>1, <2>1 DEF CallStep, Proceed, Offer, Response, Refused, Announce, SoacAck, Return, Start,
                        Stop, Cancel, Timeout, serverVars, CallTypes
    <2>4. QED
      BY <1>2, <2>2, <2>3, RFailure
  <1>3. SUFFICES ASSUME ~FailCall(o), NEW x \in Ops
                 PROVE  (Registered(x) /\ Undone(x) /\ Awaited(x))'
    BY <1>2
  <1>4. CASE Timeout(o)
    BY <1>4, RKept DEF Timeout, RVars, closeVars, serverVars
  <1>5. CASE Start(o) \/ Proceed(o)
    <2>1. x \in reverse' <=> x \in reverse
      BY <1>5 DEF Start, Proceed, regVars
    <2>2. Registered(x)'
      BY <1>1, <1>5, <2>1
      DEF RInv, Start, Proceed, regVars, closeVars, CallTypes, RegTypes, Registered, Awaited, histVars
    <2>3. Undone(x)' /\ Awaited(x)'
      BY <1>1, <1>5 DEF RInv, Start, Proceed, regVars, undoVars, histVars, serverVars, CallTypes, RegTypes,
                        Registered, Undone, Awaited
    <2>4. QED
      BY <2>2, <2>3
  <1>6. CASE Stop(o)
    <2>1. Registered(x)' /\ Awaited(x)'
      BY <1>6 DEF RInv, Stop, regVars, callVars, closeVars, Registered, Awaited, histVars
    <2>2. Undone(x)'
      BY <1>1, <1>6 DEF RInv, Stop, regVars, callVars, serverVars, UndoTypes, Registered, Undone, histVars
    <2>3. QED
      BY <2>1, <2>2
  <1>7. CASE Response(o)
    <2>1. Registered(x)' /\ Awaited(x)'
      BY <1>1, <1>7 DEF RInv, Response, closeVars, CallTypes, RegTypes, Registered, Awaited, histVars
    <2>2. Undone(x)'
      BY <1>1, <1>7 DEF RInv, Response, serverVars, CallTypes, UndoTypes, Registered, Undone, Who, histVars
    <2>3. QED
      BY <2>1, <2>2
  <1>8. CASE Announce(o) \/ Offer(o) \/ Refused(o) \/ SoacAck(o) \/ Return(o)
    <2>1. Registered(x)'
      BY <1>1, <1>3, <1>8 DEF RInv, Announce, Offer, Refused, SoacAck, Return, regVars, closeVars,
                        CallTypes, RegTypes, Registered
    <2>2. Undone(x)'
      BY <1>1, <1>3, <1>8 DEF RInv, Announce, Offer, Refused, SoacAck, Return, regVars, undoVars,
                        serverVars, CallTypes, UndoTypes, ServerTypes, Registered, Undone, histVars
    <2>3. Awaited(x)'
      BY <1>1, <1>3, <1>8 DEF RInv, Announce, Offer, Refused, SoacAck, Return, regVars, undoVars,
                        histVars, Awaited
    <2>4. QED
      BY <2>1, <2>2, <2>3
  <1>9. CASE Cancel(o)
    <2>1. Registered(x)'
      BY <1>1, <1>3, <1>9 DEF RInv, Cancel, regVars, closeVars, CallTypes, RegTypes, Registered
    <2>2. Undone(x)'
      BY <1>1, <1>3, <1>9 DEF RInv, Cancel, regVars, serverVars, CallTypes, UndoTypes, Registered,
                              Undone, Who, histVars
    <2>3. Awaited(x)'
      BY <1>1, <1>3, <1>9 DEF RInv, Cancel, regVars, RegTypes, Registered, Awaited, histVars
    <2>4. QED
      BY <2>1, <2>2, <2>3
  <1>10. QED
    BY <1>4, <1>5, <1>6, <1>7, <1>8, <1>9 DEF CallStep

LEMMA RUndo ==
  ASSUME RInv, UndoStep \/ UndoFails
  PROVE  \A x \in Ops : (Registered(x) /\ Undone(x) /\ Awaited(x))'
  <1>1. CallTypes /\ RegTypes /\ UndoTypes /\ ServerTypes
    BY Parts DEF RInv
  <1>2. ASSUME NEW o \in Ops, NEW w \in Who, UnpublishAck(o, w), NEW x \in Ops
        PROVE  (Registered(x) /\ Undone(x) /\ Awaited(x))'
    <2>1. Registered(x)'
      BY <1>1, <1>2 DEF RInv, UnpublishAck, RegistrationGone, Resume, DropRegistration,
         ReverseWithout, PromiseFailed, regVars, callVars, CallTypes, RegTypes, UndoTypes,
         Registered, Undone, histVars
    <2>2. Undone(x)'
      BY <1>1, <1>2 DEF RInv, UnpublishAck, RegistrationGone, Resume, DropRegistration,
         regVars, callVars, CallTypes, RegTypes, UndoTypes, ServerTypes, Registered, Undone, histVars
    <2>3. Awaited(x)'
      <3>1. CASE RegistrationGone(o)
        BY <1>2, <3>1 DEF RInv, UnpublishAck, RegistrationGone, regVars, Awaited
      <3>2. CASE ~RegistrationGone(o) /\ o \in sessions
        <4>1. fired' = [fired EXCEPT ![o] = @ + 1] /\ fired[o] = 0
          BY <1>1, <1>2, <3>2 DEF RInv, UnpublishAck, RegistrationGone, Undone, UndoTypes
        <4>2. /\ transceivers' = transceivers \ {o}
              /\ UNCHANGED << promise, promised, sessions, tracks >>
          BY <1>2, <3>2 DEF UnpublishAck
        <4>3. QED
          BY <1>1, <3>2, <4>1, <4>2 DEF RInv, UndoTypes, Awaited
      <3>3. CASE ~RegistrationGone(o) /\ o \notin sessions
        BY <1>1, <1>2, <3>3 DEF RInv, UnpublishAck, RegistrationGone, DropRegistration, PromiseFailed,
           RegTypes, Awaited
      <3>4. QED
        BY <3>1, <3>2, <3>3
    <2>4. QED
      BY <2>1, <2>2, <2>3
  <1>3. ASSUME NEW o \in Ops, NEW w \in Who, EndedEvent(o, w), NEW x \in Ops
        PROVE  (Registered(x) /\ Undone(x) /\ Awaited(x))'
    <2>1. queue' \subseteq queue \cup sessions
      BY <1>3 DEF EndedEvent, RequestClose, ClosePhase
    <2>2. Registered(x)'
      BY <1>1, <1>3, <2>1 DEF RInv, EndedEvent, Forget, Resume, regVars, callVars, CallTypes,
         UndoTypes, Registered, Undone, histVars
    <2>3. Undone(x)'
      BY <1>1, <1>3 DEF RInv, EndedEvent, Forget, Resume, regVars, callVars, serverVars, CallTypes,
         UndoTypes, Registered, Undone, histVars
    <2>4. Awaited(x)'
      BY <1>1, <1>3 DEF RInv, EndedEvent, Forget, regVars, Undone, Awaited, histVars
    <2>5. QED
      BY <2>2, <2>3, <2>4
  <1>4. ASSUME NEW o \in Ops, NEW w \in Who, UndoBroken(o, w), NEW x \in Ops
        PROVE  (Registered(x) /\ Undone(x) /\ Awaited(x))'
    <2>1. Registered(x)'
      BY <1>1, <1>4 DEF RInv, UndoBroken, Resume, regVars, CallTypes, Registered, Undone, histVars
    <2>2. Undone(x)'
      BY <1>1, <1>4 DEF RInv, UndoBroken, Resume, regVars, serverVars, CallTypes, UndoTypes, Undone, histVars
    <2>3. Awaited(x)'
      BY <1>4 DEF RInv, UndoBroken, regVars, Awaited, histVars
    <2>4. QED
      BY <2>1, <2>2, <2>3
  <1>5. QED
    BY <1>2, <1>3, <1>4 DEF UndoStep, UndoFails
LEMMA RAnswer ==
  ASSUME RInv, ApplyAnswer \/ RejectAnswer
  PROVE  \A x \in Ops : (Registered(x) /\ Undone(x) /\ Awaited(x))'
  <1>1. CallTypes /\ RegTypes
    BY Parts DEF RInv
  <1>2. SUFFICES ASSUME NEW x \in Ops PROVE (Registered(x) /\ Undone(x) /\ Awaited(x))'
    OBVIOUS
  <1>3. queue' \subseteq queue \cup sessions /\ promised' \subseteq promised
    BY DEF ApplyAnswer, RejectAnswer, RequestClose, ClosePhase, closeVars
  <1>4. promise'[x] = promise[x] \/ promise[x] = "pending"
    BY <1>1 DEF ApplyAnswer, RejectAnswer, Rejected, RegTypes
  <1>5. Undone(x)'
    BY DEF RInv, ApplyAnswer, RejectAnswer, undoVars, histVars, serverVars, Undone
  <1>6. Registered(x)'
    BY <1>1, <1>3, <1>4
    DEF RInv, ApplyAnswer, RejectAnswer, RegTypes, CallTypes, Registered
  <1>7. CASE ApplyAnswer
    <2>1. PICK got \in [FirstSub -> IF "short" \in Faults THEN 0..MediaTracks ELSE {MediaTracks}] :
            LET complete == {s \in FirstSub \cap sessions \cap promised :
                               got[s] = MediaTracks /\ promise[s] = "pending"}
            IN  /\ \A s \in FirstSub : got[s] >= tracks[s]
                /\ tracks' = Recorded(got)
                /\ promise' = [o \in Ops |-> IF o \in complete THEN "ok" ELSE promise[o]]
                /\ promised' = promised \ complete
      BY <1>7 DEF ApplyAnswer
    <2>2. x \in FirstSub => got[x] \in 0..MediaTracks
      BY BoundAssumption
    <2>3. tracks'[x] = IF x \in FirstSub THEN got[x] ELSE tracks[x]
      BY <2>1 DEF Recorded
    <2>4. x \in FirstSub => x \in Subs \cap transceivers
      BY DEF FirstSub, Subs
    <2>5. transceivers' = transceivers /\ sessions' = sessions /\ fired' = fired
      BY <1>7 DEF ApplyAnswer, undoVars, histVars
    <2>6. QED
      BY <1>1, <1>5, <1>6, <2>1, <2>2, <2>3, <2>4, <2>5, BoundAssumption DEF RInv, RegTypes, Awaited, histVars
  <1>8. CASE RejectAnswer
    <2>1. Awaited(x)'
      BY <1>1, <1>8 DEF RInv, RejectAnswer, Rejected, Subs, RegTypes, Awaited, undoVars, histVars
    <2>2. QED
      BY <1>5, <1>6, <2>1
  <1>9. QED
    BY <1>7, <1>8

LEMMA RHandler ==
  ASSUME RInv, HandlerStep \/ \E w \in PeerTasks : PeerFails(w)
  PROVE  \A x \in Ops : (Registered(x) /\ Undone(x) /\ Awaited(x))'
  <1>1. CallTypes /\ RegTypes /\ UndoTypes
    BY Parts DEF RInv
  <1>2. CASE ApplyAnswer \/ RejectAnswer
    BY <1>2, RAnswer
  <1>3. CASE Drain
    BY <1>3, RKept DEF Drain, RVars, closeVars, serverVars, callVars
  <1>4. SUFFICES ASSUME ~(ApplyAnswer \/ RejectAnswer \/ Drain), NEW x \in Ops
                 PROVE  (Registered(x) /\ Undone(x) /\ Awaited(x))'
    BY <1>2, <1>3
  <1>5. CASE Receive /\ \E o \in Ops : ReceiveReady(o)
    <2>1. PICK o \in Ops : ReceiveReady(o)
      BY <1>5
    <2>2. UNCHANGED << stage, undoVars, queue, server >>
      BY <1>5, <2>1 DEF Receive, ReceiveReady, undoVars
    <2>3. Registered(x)'
      BY <1>1, <2>1, <2>2 DEF RInv, ReceiveReady, ReadyHandler, regVars, RegTypes, Registered
    <2>4. Undone(x)'
      BY <1>1, <2>1, <2>2 DEF RInv, ReceiveReady, ReadyHandler, regVars, undoVars, histVars, Undone
    <2>5. Awaited(x)'
      BY <1>1, <2>1, <2>2, BoundAssumption
      DEF RInv, ReceiveReady, ReadyHandler, Settles, Subs, regVars, RegTypes, Registered, Awaited, undoVars,
          histVars
    <2>6. QED
      BY <2>3, <2>4, <2>5
  <1>6. CASE \E o \in Ops : (Receive /\ ReceiveError(o)) \/ ErrorEventDone(o)
    <2>1. PICK o \in Ops : (Receive /\ ReceiveError(o)) \/ ErrorEventDone(o)
      BY <1>6
    <2>2. UNCHANGED << stage, regVars, histVars, queue, server >>
      BY <2>1 DEF Receive, ReceiveError, ErrorEventDone, callVars, closeVars, serverVars
    <2>3. Registered(x)' /\ Awaited(x)'
      BY <2>2 DEF RInv, regVars, Registered, Awaited, histVars
    <2>4. Undone(x)'
      BY <1>1, <2>1, <2>2 DEF RInv, regVars, ReceiveError, ErrorEventDone, UndoByHandler, UndoTypes,
                              Registered, Undone, histVars
    <2>5. QED
      BY <2>3, <2>4
  <1>7. CASE \/ Receive /\ \A o \in Ops : ~ReceiveReady(o) /\ ~ReceiveError(o)
             \/ \E w \in ErrorTasks : ErrorsTold(w)
             \/ \E w \in PeerTasks : PeerFails(w)
    <2>1. UNCHANGED << stage, regVars, undoVars, server >>
      BY <1>7 DEF Receive, ReceiveAnswer, ReceiveTransportError, ErrorsTold, PeerFails, callVars,
                  undoVars, histVars, serverVars
    <2>2. queue' \subseteq queue \cup sessions
      BY <1>7 DEF Receive, ReceiveAnswer, ReceiveTransportError, ErrorsTold, PeerFails, TellFrom,
                  RequestClose, ClosePhase
    <2>3. Registered(x)'
      BY <2>1, <2>2 DEF RInv, regVars, Registered
    <2>4. Undone(x)' /\ Awaited(x)'
      BY <2>1 DEF RInv, regVars, undoVars, histVars, Undone, Awaited
    <2>5. QED
      BY <2>3, <2>4
  <1>8. QED
    BY <1>4, <1>5, <1>6, <1>7 DEF HandlerStep

LEMMA RClose ==
  ASSUME RInv, CloseStep \/ CloseCalled
  PROVE  \A x \in Ops : (Registered(x) /\ Undone(x) /\ Awaited(x))'
  <1>1. UndoTypes /\ CloseTypes
    BY Parts DEF RInv
  <1>2. SUFFICES ASSUME NEW x \in Ops PROVE (Registered(x) /\ Undone(x) /\ Awaited(x))'
    OBVIOUS
  <1>3. UNCHANGED << stage, regVars, histVars, server >>
    BY DEF CloseStep, CloseNext, CloseEnd, CloseCalled, callVars, undoVars, histVars, serverVars
  <1>4. queue' \subseteq queue \cup sessions
    BY DEF CloseStep, CloseNext, CloseEnd, CloseCalled, RequestClose, ClosePhase
  <1>5. Registered(x)' /\ Awaited(x)'
    BY <1>3, <1>4 DEF RInv, regVars, Registered, Awaited, histVars
  <1>6. Undone(x)'
    BY <1>1, <1>3 DEF RInv, CloseStep, CloseNext, CloseEnd, CloseCalled, undoVars, histVars, regVars, UndoTypes,
                      CloseTypes, Registered, Undone
  <1>7. QED
    BY <1>5, <1>6

LEMMA RServer ==
  ASSUME RInv, NEW o \in Ops, ServerStep(o) \/ ServerFails(o)
  PROVE  \A x \in Ops : (Registered(x) /\ Undone(x) /\ Awaited(x))'
  <1>1. ServerTypes
    BY Parts DEF RInv
  <1>2. SUFFICES ASSUME NEW x \in Ops PROVE (Registered(x) /\ Undone(x) /\ Awaited(x))'
    OBVIOUS
  <1>3. UNCHANGED << callVars, regVars, undoVars, queue >>
    BY DEF ServerStep, ServerFails, closeVars
  <1>4. server[x] = "gone" => server'[x] = "gone"
    BY <1>1 DEF ServerStep, ServerFails, ServerTypes
  <1>5. QED
    BY <1>3, <1>4 DEF RInv, callVars, regVars, undoVars, histVars, Registered, Undone, Awaited

LEMMA RInit == Init => RInv
  <1> SUFFICES ASSUME Init PROVE RInv
    OBVIOUS
  <1>1. \A x \in Ops : Registered(x) /\ Undone(x) /\ Awaited(x)
    BY DEF Init, Registered, Undone, Awaited, histVars
  <1>2. QED
    BY <1>1, TInit DEF RInv

LEMMA RStep == RInv /\ [Next]_vars => RInv'
  <1> SUFFICES ASSUME RInv, [Next]_vars PROVE RInv'
    OBVIOUS
  <1>1. TInv'
    BY TStep DEF RInv
  <1>2. \A x \in Ops : (Registered(x) /\ Undone(x) /\ Awaited(x))'
    <2>1. CASE \E o \in Ops : CallStep(o) \/ Start(o) \/ Stop(o) \/ Cancel(o) \/ Timeout(o)
      BY <2>1, RCalls
    <2>2. CASE \E o \in Ops : ServerStep(o) \/ ServerFails(o)
      BY <2>2, RServer
    <2>3. CASE HandlerStep \/ \E w \in PeerTasks : PeerFails(w)
      BY <2>3, RHandler
    <2>4. CASE UndoStep \/ UndoFails \/ CloseStep \/ CloseCalled
      BY <2>4, RUndo, RClose
    <2>5. CASE UNCHANGED vars
      BY <2>5, RKept DEF vars, RVars, callVars, closeVars, serverVars
    <2>6. QED
      BY <2>1, <2>2, <2>3, <2>4, <2>5 DEF Next, Environment
  <1>3. QED
    BY <1>1, <1>2 DEF RInv

\* _unpublish and _unsubscribe dispatch 'ended' once on a session, whoever of
\* stop(), close(), an error message and the failing call run them together.
THEOREM EndsOnce == Spec => []EndedOnce
  <1>1. RInv => EndedOnce
    BY DEF RInv, Undone, EndedOnce, histVars
  <1>2. QED
    BY <1>1, RInit, RStep, PTL DEF Spec

\* _reverseIdMap names exactly the registrations that are there and know their
\* session id, between any two suspensions of anything that runs.
THEOREM MapsTogether == Spec => []MapsAgree
  <1>1. RInv => MapsAgree
    <2>1. TypeOK => reverse \subseteq Ops /\ transceivers \subseteq Ops
      BY DEF TypeOK
    <2>2. QED
      BY <2>1 DEF RInv, TInv, Registered, MapsAgree
  <1>2. QED
    BY <1>1, RInit, RStep, PTL DEF Spec

\* The except clause of publish and subscribe: a call that failed is registered
\* no more and has had the server end its session, but for an undoing that was
\* broken off and for a request to end that failed.
THEOREM NothingLeft == Spec => []FailedCallsLeaveNothing
  <1>1. RInv => FailedCallsLeaveNothing
    BY DEF RInv, TInv, TypeOK, Undone, FailedCallsLeaveNothing, histVars
  <1>2. QED
    BY <1>1, RInit, RStep, PTL DEF Spec

\* The promise a caller waits for is in _publishPromises or _subscribePromises,
\* and its registration is there to be ended, but for a subscription whose
\* session has ended before it had all its tracks.
THEOREM CallersReached == Spec => []PendingCallReachable
  <1>1. RInv => PendingCallReachable
    BY DEF RInv, Awaited, PendingCallReachable, ShortOfTracks, histVars
  <1>2. QED
    BY <1>1, RInit, RStep, PTL DEF Spec
-----------------------------------------------------------------------------
(* The turns of the negotiation queue.                                     *)

Early == {"idle", "chain", "offer", "request", "announce"}

\* The calls are made once each, and have a future from then on.
Places ==
  /\ \A i, j \in 1..Len(order) : order[i] = order[j] => i = j
  /\ \A x \in Ops : stage[x] # "idle" => \E i \in 1..Len(order) : order[i] = x
  /\ \A i \in 1..Len(order) : stage[order[i]] # "idle"
  /\ \A x \in Ops : stage[x] = "idle" <=> chain[x] = "none"

\* What every action but Start leaves of them.
GoesOn ==
  /\ order' = order
  /\ \A x \in Ops : /\ stage'[x] = "idle" <=> stage[x] = "idle"
                    /\ stage[x] \notin Early => stage'[x] \notin Early
                    /\ chain'[x] = "none" <=> chain[x] = "none"

LEMMA Onward ==
  ASSUME RInv, Next, \A o \in Ops : ~Start(o)
  PROVE  GoesOn
  <1>1. CallTypes
    BY Parts DEF RInv
  <1>2. ASSUME NEW S, chain' = ResolveSet(chain, S)
        PROVE  \A x \in Ops : chain'[x] = "none" <=> chain[x] = "none"
    BY <1>1, <1>2, Resolving DEF CallTypes, Chains, ResolveSet
  <1>3. ASSUME NEW o \in Ops, FailCall(o), stage[o] # "idle"
        PROVE  GoesOn
    BY <1>1, <1>2, <1>3 DEF FailCall, DropRegistration, Resolve, CallTypes, Early, GoesOn
  <1>4. CASE \E o \in Ops : CallStep(o) \/ Stop(o) \/ Cancel(o) \/ Timeout(o)
    <2>1. PICK o \in Ops : CallStep(o) \/ Stop(o) \/ Cancel(o) \/ Timeout(o)
      BY <1>4
    <2>2. CASE FailCall(o)
      <3>1. stage[o] # "idle"
        BY <1>1, <2>1, <2>2
        DEF CallStep, Proceed, Offer, Response, Refused, Announce, SoacAck, Return, Stop, Cancel,
            Timeout, callVars, FailCall, CallTypes
      <3>2. QED
        BY <1>3, <2>2, <3>1
    <2>3. CASE ~FailCall(o)
      BY <1>1, <2>1, <2>3
      DEF CallStep, Proceed, Offer, Response, Refused, Announce, SoacAck, Return, Stop, Cancel,
          Timeout, TimedOut, callVars, CallTypes, Chains, Early, GoesOn
    <2>4. QED
      BY <2>2, <2>3
  <1>5. CASE UndoStep \/ UndoFails
    <2>1. PICK o \in Ops, w \in Who : UnpublishAck(o, w) \/ EndedEvent(o, w) \/ UndoBroken(o, w)
      BY <1>5 DEF UndoStep, UndoFails
    <2>2. o \in known /\ stage[o] # "idle"
      BY <2>1 DEF UnpublishAck, EndedEvent, UndoBroken, RInv, Undone, Registered, histVars
    <2>3. stage' = stage \/ stage' = [stage EXCEPT ![o] = "failed"]
      BY <2>1 DEF UnpublishAck, EndedEvent, UndoBroken, Forget, Resume, callVars
    <2>4. order' = order
      BY <2>1 DEF UnpublishAck, EndedEvent, UndoBroken, Forget, DropRegistration, callVars
    <2>5. chain' = chain \/ chain' = ResolveSet(chain, {o})
      BY <2>1 DEF UnpublishAck, EndedEvent, UndoBroken, Forget, DropRegistration, Resolve, callVars
    <2>6. QED
      BY <1>1, <1>2, <2>2, <2>3, <2>4, <2>5 DEF CallTypes, Early, GoesOn
  <1>6. CASE HandlerStep
    <2>1. stage' = stage /\ order' = order
      BY <1>6 DEF HandlerStep, Receive, ApplyAnswer, RejectAnswer, Drain, ErrorEventDone, ErrorsTold,
                  callVars
    <2>2. chain' = chain \/ chain' = ResolveSet(chain, Ops)
      BY <1>6 DEF HandlerStep, Receive, ReceiveAnswer, ReceiveReady, ReceiveError,
         ReceiveTransportError, ApplyAnswer, RejectAnswer, Drain, ErrorEventDone, ErrorsTold, callVars,
         NextSdpPromise
    <2>3. QED
      BY <1>2, <2>1, <2>2 DEF GoesOn
  <1>7. CASE \/ CloseStep \/ CloseCalled \/ \E w \in PeerTasks : PeerFails(w)
             \/ \E o \in Ops : ServerStep(o) \/ ServerFails(o)
    BY <1>7 DEF CloseStep, CloseNext, CloseEnd, CloseCalled, PeerFails, ServerStep, ServerFails, callVars,
                GoesOn
  <1>8. QED
    BY <1>4, <1>5, <1>6, <1>7 DEF Next, Environment

LEMMA PlacesStep ==
  ASSUME RInv, Places, Next
  PROVE  Places'
  <1>1. CallTypes
    BY Parts DEF RInv
  <1>2. ASSUME NEW o \in Ops, Start(o)
        PROVE  Places'
    <2>1. /\ order' = Append(order, o) /\ stage[o] = "idle"
          /\ stage' = [stage EXCEPT ![o] = "chain"]
      BY <1>2 DEF Start
    <2>2. /\ Len(order') = Len(order) + 1 /\ order'[Len(order) + 1] = o
          /\ \A i \in 1..Len(order) : order'[i] = order[i] /\ order[i] \in Ops /\ order[i] # o
      BY <1>1, <2>1 DEF CallTypes, Chains, Places
    <2>3. chain'[o] # "none" /\ \A x \in Ops \ {o} : chain'[x] = chain[x]
      <3>1. CallTypes'
        BY TStep, Parts DEF RInv, Next, Environment
      <3>2. Len(order) + 1 \in 1..Len(order')
        BY <1>1, <2>2 DEF CallTypes, Chains
      <3>3. chain'[o] # "none"
        BY <2>2, <3>1, <3>2 DEF CallTypes, Chains
      <3>4. \E c : chain' = [chain EXCEPT ![o] = c]
        BY <1>2 DEF Start
      <3>5. QED
        BY <1>1, <3>3, <3>4 DEF CallTypes, Chains
    <2>4. \A i \in 1..Len(order') : i \in 1..Len(order) \/ i = Len(order) + 1
      BY <1>1, <2>2 DEF CallTypes, Chains
    <2>5. \A i \in 1..Len(order) : i \in 1..Len(order')
      BY <1>1, <2>2 DEF CallTypes, Chains
    <2>6. Len(order) + 1 \in 1..Len(order')
      BY <1>1, <2>2 DEF CallTypes, Chains
    <2>7. \A i, j \in 1..Len(order') : order'[i] = order'[j] => i = j
      BY <2>2, <2>4 DEF Places
    <2>8. \A x \in Ops : stage'[x] # "idle" => \E i \in 1..Len(order') : order'[i] = x
      BY <1>1, <2>1, <2>2, <2>5, <2>6 DEF Places, CallTypes
    <2>9. \A i \in 1..Len(order') : stage'[order'[i]] # "idle"
      BY <1>1, <2>1, <2>2, <2>4 DEF Places, CallTypes
    <2>10. \A x \in Ops : stage'[x] = "idle" <=> chain'[x] = "none"
      BY <1>1, <2>1, <2>3 DEF Places, CallTypes
    <2>11. QED
      BY <2>7, <2>8, <2>9, <2>10 DEF Places
  <1>3. CASE \A o \in Ops : ~Start(o)
    <2>1. GoesOn
      BY <1>3, Onward
    <2>2. \A i \in 1..Len(order) : order[i] \in Ops
      BY <1>1 DEF CallTypes, Chains
    <2>3. QED
      BY <2>1, <2>2 DEF Places, GoesOn
  <1>4. QED
    BY <1>2, <1>3
Lost(x) == chain[x] = "failed" \/ stage[x] \in {"undo", "failed"} \/ promise[x] = "error"

\* A turn that is lost stays lost.
LEMMA LostStays ==
  ASSUME RInv, Places, Next, ~TurnsLost'
  PROVE  ~TurnsLost
  <1> USE DEF Lost
  <1>1. CallTypes /\ RegTypes
    BY Parts DEF RInv
  <1> SUFFICES ASSUME NEW x \in Ops, Lost(x)
               PROVE  Lost(x)'
    BY DEF TurnsLost
  <1>3. ASSUME NEW S, chain' = ResolveSet(chain, S)
        PROVE  chain[x] = "failed" => chain'[x] = "failed"
    BY <1>1, <1>3 DEF CallTypes, Chains, ResolveSet
  <1>4. ASSUME NEW o \in Ops, FailCall(o)
        PROVE  Lost(x)'
    BY <1>1, <1>3, <1>4 DEF FailCall, DropRegistration, PromiseFailed, Resolve, regVars, CallTypes,
                            RegTypes
  <1>5. CASE \E o \in Ops : CallStep(o) \/ Start(o) \/ Stop(o) \/ Cancel(o) \/ Timeout(o)
    <2>1. PICK o \in Ops : CallStep(o) \/ Start(o) \/ Stop(o) \/ Cancel(o) \/ Timeout(o)
      BY <1>5
    <2>2. CASE FailCall(o)
      BY <1>4, <2>2
    <2>3. CASE ~FailCall(o) /\ ~Start(o)
      BY <1>1, <2>1, <2>3
      DEF CallStep, Proceed, Offer, Response, Refused, Announce, SoacAck, Return, Stop, Cancel,
          Timeout, TimedOut, callVars, regVars, CallTypes, Chains, RegTypes, RInv, Registered
    <2>4. CASE Start(o)
      <3>1. stage[o] = "idle" /\ stage' = [stage EXCEPT ![o] = "chain"] /\ promise' = promise
            /\ \E c : chain' = [chain EXCEPT ![o] = c]
        BY <2>4 DEF Start, regVars
      <3>2. chain[o] = "none"
        BY <3>1 DEF Places
      <3>3. QED
        BY <1>1, <3>1, <3>2 DEF CallTypes, Chains
    <2>5. QED
      BY <2>2, <2>3, <2>4
  <1>6. CASE UndoStep \/ UndoFails
    <2>1. PICK o \in Ops, w \in Who : UnpublishAck(o, w) \/ EndedEvent(o, w) \/ UndoBroken(o, w)
      BY <1>6 DEF UndoStep, UndoFails
    <2>2. stage' = stage \/ stage' = [stage EXCEPT ![o] = "failed"]
      BY <2>1 DEF UnpublishAck, EndedEvent, UndoBroken, Forget, Resume, callVars
    <2>3. promise' = promise \/ promise' = PromiseFailed(o)
      BY <2>1 DEF UnpublishAck, EndedEvent, UndoBroken, Forget, DropRegistration, regVars
    <2>4. chain' = chain \/ chain' = ResolveSet(chain, {o})
      BY <2>1 DEF UnpublishAck, EndedEvent, UndoBroken, Forget, DropRegistration, Resolve, callVars
    <2>5. QED
      BY <1>1, <1>3, <2>2, <2>3, <2>4 DEF PromiseFailed, CallTypes, RegTypes
  <1>7. CASE HandlerStep
    <2>1. stage' = stage
      BY <1>7 DEF HandlerStep, Receive, ApplyAnswer, RejectAnswer, Drain, ErrorEventDone, ErrorsTold,
                  callVars
    <2>2. chain' = chain \/ chain' = ResolveSet(chain, Ops)
      BY <1>7 DEF HandlerStep, Receive, ReceiveAnswer, ReceiveReady, ReceiveError,
         ReceiveTransportError, ApplyAnswer, RejectAnswer, Drain, ErrorEventDone, ErrorsTold, callVars,
         NextSdpPromise
    <2>3. promise[x] = "error" => promise'[x] = "error"
      BY <1>1, <1>7 DEF HandlerStep, Receive, ReceiveAnswer, ReceiveReady, ReceiveError,
         ReceiveTransportError, ApplyAnswer, RejectAnswer, Drain, ErrorEventDone, ErrorsTold, regVars,
         ReadyHandler, Settles, RegTypes
    <2>4. QED
      BY <1>3, <2>1, <2>2, <2>3
  <1>8. CASE \/ CloseStep \/ CloseCalled \/ \E w \in PeerTasks : PeerFails(w)
             \/ \E o \in Ops : ServerStep(o) \/ ServerFails(o)
    BY <1>8 DEF CloseStep, CloseNext, CloseEnd, CloseCalled, PeerFails, ServerStep, ServerFails, callVars,
                regVars
  <1>9. QED
    BY <1>5, <1>6, <1>7, <1>8 DEF Next, Environment

\* What the server does for a call it does after its offer; a session is ready
\* after its answer.
Served ==
  /\ \A x \in Ops : x \in unanswered \/ server[x] \in {"answered", "ready"} \/ x \in sessions =>
       stage[x] \notin Early
  /\ \A i \in 1..Len(inbox) : \A x \in Ops :
       inbox[i] = << "ready", x >> => stage[x] \notin Early /\ x \notin unanswered
  /\ \A x \in unanswered : server[x] \notin {"answered", "ready"}
\* Where the messages are after one has come or gone.
LEMMA Arrival ==
  ASSUME NEW M, NEW q \in Seq(M), NEW m \in M
  PROVE  /\ \A i \in 1..Len(q) : i \in 1..Len(Append(q, m)) /\ Append(q, m)[i] = q[i]
         /\ \A i \in 1..Len(Append(q, m)) :
              (i \in 1..Len(q) /\ Append(q, m)[i] = q[i]) \/ (i = Len(q) + 1 /\ Append(q, m)[i] = m)
  OBVIOUS

LEMMA Departure ==
  ASSUME NEW M, NEW q \in Seq(M), q # << >>
  PROVE  /\ 1 \in 1..Len(q) /\ Head(q) = q[1]
         /\ \A i \in 1..Len(Tail(q)) : i + 1 \in 1..Len(q) /\ Tail(q)[i] = q[i + 1]
  OBVIOUS

LEMMA ServedStep ==
  ASSUME RInv, Served, Next
  PROVE  Served'
  <1>1. CallTypes /\ RegTypes /\ ServerTypes
    BY Parts DEF RInv
  <1>2. ASSUME NEW o \in Ops, Start(o)
        PROVE  Served'
    <2>1. \A x \in Ops : stage[x] \notin Early => stage'[x] \notin Early
      BY <1>1, <1>2 DEF Start, CallTypes, Early
    <2>2. QED
      BY <1>2, <2>1 DEF Start, serverVars, regVars, Served
  <1>3. SUFFICES ASSUME \A o \in Ops : ~Start(o)
                 PROVE  Served'
    BY <1>2
  <1>4. \A x \in Ops : stage[x] \notin Early => stage'[x] \notin Early
    BY <1>3, Onward DEF GoesOn
  <1>5. ASSUME unanswered' \subseteq unanswered, sessions' \subseteq sessions, inbox' = inbox,
               \A x \in Ops : server'[x] = server[x] \/ server'[x] \notin {"answered", "ready"}
        PROVE  Served'
    BY <1>1, <1>4, <1>5 DEF Served, ServerTypes
  <1>6. CASE \E o \in Ops : CallStep(o) \/ Stop(o) \/ Cancel(o) \/ Timeout(o)
    <2>1. PICK o \in Ops : CallStep(o) \/ Stop(o) \/ Cancel(o) \/ Timeout(o)
      BY <1>6
    <2>2. CASE Announce(o)
      <3>1. stage[o] = "announce" /\ stage'[o] \notin Early
        BY <1>1, <2>2 DEF Announce, CallTypes, Early
      <3>2. QED
        BY <1>1, <1>4, <2>2, <3>1 DEF Announce, regVars, Served, ServerTypes, Early
    <2>3. CASE ~Announce(o)
      <3>1. unanswered' = unanswered /\ inbox' = inbox
        BY <2>1, <2>3 DEF CallStep, Proceed, Offer, Response, Refused, SoacAck, Return, Stop, Cancel,
           Timeout, serverVars
      <3>2. sessions' = sessions
        BY <2>1, <2>3 DEF CallStep, Proceed, Offer, Response, Refused, SoacAck, Return, Stop, Cancel,
           Timeout, FailCall, DropRegistration, regVars
      <3>3. \A x \in Ops : server'[x] = server[x] \/ server'[x] \notin {"answered", "ready"}
        BY <1>1, <2>1, <2>3 DEF CallStep, Proceed, Offer, Response, Refused, SoacAck, Return, Stop,
           Cancel, Timeout, serverVars, ServerTypes
      <3>4. QED
        BY <1>5, <3>1, <3>2, <3>3
    <2>4. QED
      BY <2>2, <2>3
  <1>7. CASE UndoStep \/ UndoFails
    <2>1. PICK o \in Ops, w \in Who : UnpublishAck(o, w) \/ EndedEvent(o, w) \/ UndoBroken(o, w)
      BY <1>7 DEF UndoStep, UndoFails
    <2>2. unanswered' = unanswered /\ inbox' = inbox /\ sessions' \subseteq sessions
      BY <2>1 DEF UnpublishAck, EndedEvent, UndoBroken, Forget, DropRegistration, regVars, serverVars
    <2>3. \A x \in Ops : server'[x] = server[x] \/ server'[x] \notin {"answered", "ready"}
      BY <1>1, <2>1 DEF UnpublishAck, EndedEvent, UndoBroken, serverVars, ServerTypes
    <2>4. QED
      BY <1>5, <2>2, <2>3
  <1>8. CASE Receive
    <2>1. /\ inbox # << >> /\ inbox' = Tail(inbox) /\ stage' = stage /\ unanswered' = unanswered
          /\ server' = server
      BY <1>8 DEF Receive
    <2>2. \A i \in 1..Len(inbox') : i + 1 \in 1..Len(inbox) /\ inbox'[i] = inbox[i + 1]
      BY <1>1, <2>1, Departure DEF ServerTypes
    <2>3. \A x \in sessions' : x \in sessions \/ Head(inbox) = << "ready", x >>
      BY <1>8 DEF Receive, ReceiveAnswer, ReceiveReady, ReceiveError, ReceiveTransportError,
                  ReadyHandler, regVars
    <2>4. 1 \in 1..Len(inbox) /\ Head(inbox) = inbox[1]
      BY <1>1, <2>1, Departure DEF ServerTypes
    <2>5. QED
      BY <2>1, <2>2, <2>3, <2>4 DEF Served
  <1>9. CASE HandlerStep /\ ~Receive
    BY <1>5, <1>9 DEF HandlerStep, ApplyAnswer, RejectAnswer, Drain, ErrorEventDone, ErrorsTold,
                      serverVars, regVars
  <1>10. CASE CloseStep \/ CloseCalled \/ \E w \in PeerTasks : PeerFails(w)
    BY <1>5, <1>10 DEF CloseStep, CloseNext, CloseEnd, CloseCalled, PeerFails, serverVars, regVars
  <1>11. ASSUME NEW o \in Ops, ServerStep(o)
         PROVE  Served'
    <2>1. UNCHANGED << stage, sessions >>
      BY <1>11 DEF ServerStep, callVars, regVars
    <2>2. CASE server[o] = "asked"
      BY <1>1, <1>5, <1>11, <2>1, <2>2 DEF ServerStep, ServerTypes
    <2>3. CASE server[o] = "live"
      <3>1. \A i \in 1..Len(inbox') : (i \in 1..Len(inbox) /\ inbox'[i] = inbox[i]) \/ inbox'[i] = Answer
        BY <1>1, <1>11, <2>3, Arrival, Kinds DEF ServerStep, ServerTypes
      <3>2. QED
        BY <1>1, <1>11, <2>1, <2>3, <3>1 DEF ServerStep, ServerTypes, Served, Answer
    <2>4. CASE server[o] = "answered"
      <3>1. \A i \in 1..Len(inbox') :
              (i \in 1..Len(inbox) /\ inbox'[i] = inbox[i]) \/ inbox'[i] = << "ready", o >>
        BY <1>1, <1>11, <2>4, Arrival, Kinds DEF ServerStep, ServerTypes
      <3>2. QED
        <4>1. server' = [server EXCEPT ![o] = "ready"] /\ unanswered' = unanswered
          BY <1>11, <2>4 DEF ServerStep
        <4>2. stage[o] \notin Early /\ o \notin unanswered
          BY <2>4 DEF Served
        <4>3. QED
          BY <1>1, <2>1, <3>1, <4>1, <4>2 DEF ServerTypes, Served
    <2>5. QED
      BY <1>11, <2>2, <2>3, <2>4 DEF ServerStep
  <1>12. ASSUME NEW o \in Ops, ServerFails(o)
         PROVE  Served'
    <2>1. UNCHANGED << stage, sessions, unanswered >>
      BY <1>12 DEF ServerFails, callVars, regVars
    <2>2. \A x \in Ops : server'[x] = server[x] \/ server'[x] = "gone"
      BY <1>1, <1>12 DEF ServerFails, ServerTypes
    <2>3. \A i \in 1..Len(inbox') : \/ i \in 1..Len(inbox) /\ inbox'[i] = inbox[i]
                                   \/ inbox'[i] \in {<< "error", o >>, TransportError}
      <3>1. CASE inbox' = << TransportError >>
        BY <3>1
      <3>2. CASE inbox' = Append(inbox, << "error", o >>)
        BY <1>1, <3>2, Arrival, Kinds DEF ServerTypes
      <3>3. QED
        BY <1>12, <3>1, <3>2 DEF ServerFails
    <2>4. QED
      <3>1. \A x \in Ops, i \in 1..Len(inbox') :
              inbox'[i] = << "ready", x >> => i \in 1..Len(inbox) /\ inbox'[i] = inbox[i]
        BY <2>3 DEF TransportError
      <3>2. QED
        BY <1>1, <2>1, <2>2, <3>1 DEF Served, ServerTypes
  <1>13. QED
    BY <1>3, <1>6, <1>7, <1>8, <1>9, <1>10, <1>11, <1>12 DEF Next, Environment
\* The turn goes from call to call, and the call that has it prepares alone.
Turns ==
  /\ \A i, j \in 1..Len(order) :
       i < j /\ chain[order[j]] \in {"ok", "armed"} => chain[order[i]] = "ok"
  /\ \A x \in Ops : stage[x] \in Early \ {"idle"} => chain[x] \in {"armed", "waiting"}
  /\ \A x \in Ops : Preparing(x) => chain[x] = "armed" /\ x \in transceivers

\* The call whose turn it is has sent its offer.
Awaits(x) == chain[x] = "armed" /\ stage[x] \notin Early /\ x \in transceivers /\ x \notin sessions

\* At most one answer is under way: asked for, sent, or being applied.
UnderWay ==
  /\ \A x \in unanswered : /\ unanswered = {x} /\ Awaits(x) /\ handler # Applying
                          /\ \A i \in 1..Len(inbox) : inbox[i] # Answer
  /\ \A i \in 1..Len(inbox) : inbox[i] = Answer =>
       /\ unanswered = {} /\ handler # Applying
       /\ \E x \in Ops : Awaits(x) /\ \A j \in 1..Len(inbox) : inbox[j] = << "ready", x >> => i < j
       /\ \A j \in 1..Len(inbox) : inbox[j] = Answer => i = j
  /\ handler = Applying => /\ unanswered = {} /\ \E x \in Ops : Awaits(x)
                           /\ \A i \in 1..Len(inbox) : inbox[i] # Answer

SInv == RInv /\ Places /\ Served /\ (~TurnsLost => Turns /\ UnderWay)

\* One call has the turn.
LEMMA OneTurn ==
  ASSUME CallTypes, Places, Turns, NEW x \in Ops, NEW y \in Ops, chain[x] = "armed", chain[y] = "armed"
  PROVE  x = y
  <1>1. stage[x] # "idle" /\ stage[y] # "idle"
    BY DEF Places
  <1>2. PICK i, j \in 1..Len(order) : order[i] = x /\ order[j] = y
    BY <1>1 DEF Places
  <1>3. i \in Nat /\ j \in Nat
    BY DEF CallTypes, Chains
  <1>4. ~(i < j) /\ ~(j < i)
    BY <1>2 DEF Turns
  <1>5. QED
    BY <1>2, <1>3, <1>4

LEMMA TurnsKept ==
  ASSUME Turns, order' = order, chain' = chain,
         \A x \in Ops : stage'[x] \in Early =>
           stage'[x] = stage[x] /\ (Preparing(x) => x \in transceivers')
  PROVE  Turns'
  BY DEF Turns, Preparing, Early

\* The turn of a call that has sent its offer goes to the next one.
LEMMA TurnsResolved ==
  ASSUME CallTypes, Places, Turns, order' = order,
         NEW S \in SUBSET Ops, chain' = ResolveSet(chain, S),
         \A x \in S : chain[x] = "armed" => stage[x] \notin Early,
         \A x \in Ops : stage'[x] \in Early =>
           stage'[x] = stage[x] /\ (Preparing(x) => x \in transceivers')
  PROVE  Turns'
  <1>1. \A x \in Ops : chain'[x] = "armed" \/ chain'[x] = chain[x]
                      \/ (chain'[x] = "ok" /\ x \in S /\ chain[x] = "armed")
    BY DEF ResolveSet
  <1>2. \A x \in Ops : chain[x] = "ok" => chain'[x] = "ok"
    BY DEF ResolveSet
  <1>3. \A x \in Ops \ S : chain[x] = "armed" => chain'[x] = "armed"
    BY DEF ResolveSet
  <1>4. \A x \in Ops : chain'[x] = "armed" /\ chain[x] # "armed" =>
          \E y \in S : chain[y] = "armed" /\ Follows(x, y)
    BY DEF ResolveSet
  <1>5. \A x \in S : chain[x] = "armed" => chain'[x] = "ok"
    BY DEF ResolveSet
  <1>6. \A i \in 1..Len(order) : order[i] \in Ops
    BY DEF CallTypes, Chains
  <1>7. ASSUME NEW i \in 1..Len(order), NEW j \in 1..Len(order), i < j,
               chain'[order[j]] \in {"ok", "armed"}
        PROVE  chain'[order[i]] = "ok"
    <2>1. CASE chain[order[j]] \in {"ok", "armed"}
      BY <1>2, <1>6, <1>7, <2>1 DEF Turns
    <2>2. CASE chain[order[j]] \notin {"ok", "armed"}
      <3>1. PICK y \in S : chain[y] = "armed" /\ Follows(order[j], y)
        BY <1>1, <1>4, <1>6, <1>7, <2>2
      <3>2. PICK m \in 1..(Len(order) - 1) : order[m] = y /\ order[m + 1] = order[j]
        BY <3>1 DEF Follows
      <3>3. m \in 1..Len(order) /\ m + 1 \in 1..Len(order) /\ m + 1 = j
        BY <3>2 DEF Places, CallTypes, Chains
      <3>4. i = m \/ i < m
        BY <1>7, <3>3 DEF CallTypes, Chains
      <3>5. CASE i = m
        BY <1>5, <3>1, <3>2, <3>5
      <3>6. CASE i < m
        BY <1>2, <1>6, <3>1, <3>2, <3>3, <3>6 DEF Turns
      <3>7. QED
        BY <3>4, <3>5, <3>6
    <2>3. QED
      BY <2>1, <2>2
  <1>8. \A x \in Ops : stage'[x] \in Early \ {"idle"} => chain'[x] \in {"armed", "waiting"}
    BY <1>1 DEF Turns
  <1>9. \A x \in Ops : Preparing(x)' => chain'[x] = "armed" /\ x \in transceivers'
    BY <1>3 DEF Turns, Preparing, Early
  <1>10. QED
    BY <1>7, <1>8, <1>9 DEF Turns

LEMMA UnderWayKept ==
  ASSUME UnderWay, unanswered' = unanswered, inbox' = inbox, handler' = handler \/ handler' # Applying,
         unanswered \subseteq Ops, \A x \in Ops : Awaits(x) => Awaits(x)'
  PROVE  UnderWay'
  BY DEF UnderWay
\* A step that loses no turn is none that fails a call.
LEMMA NotLost ==
  ASSUME RInv, ~TurnsLost', NEW o \in Ops
  PROVE  ~FailCall(o) /\ ~Timeout(o) /\ ~Cancel(o) /\ ~Refused(o)
  <1>1. CallTypes
    BY Parts DEF RInv
  <1>2. ~FailCall(o)
    BY <1>1 DEF FailCall, TurnsLost, CallTypes
  <1>3. ~Timeout(o)
    BY <1>1 DEF Timeout, TimedOut, TurnsLost, CallTypes, Chains
  <1>4. QED
    BY <1>1, <1>2, <1>3 DEF Cancel, Refused, TurnsLost, CallTypes

LEMMA TurnCalls ==
  ASSUME SInv, Turns, UnderWay, ~TurnsLost', NEW o \in Ops,
         CallStep(o) \/ Start(o) \/ Stop(o) \/ Cancel(o) \/ Timeout(o)
  PROVE  Turns' /\ UnderWay'
  <1>1. CallTypes /\ RegTypes /\ ServerTypes
    BY Parts DEF RInv, SInv
  <1>2. ~FailCall(o) /\ ~Timeout(o) /\ ~Cancel(o) /\ ~Refused(o)
    BY NotLost DEF SInv
  <1>3. CASE Start(o)
    <2>1. /\ order' = Append(order, o) /\ stage[o] = "idle" /\ stage' = [stage EXCEPT ![o] = "chain"]
      BY <1>3 DEF Start
    <2>2. /\ Len(order') = Len(order) + 1 /\ order'[Len(order) + 1] = o
          /\ \A i \in 1..Len(order) : order'[i] = order[i] /\ order[i] \in Ops /\ order[i] # o
      BY <1>1, <2>1 DEF CallTypes, Chains, Places, SInv
    <2> DEFINE last == IF order = << >> THEN "ok" ELSE chain[order[Len(order)]]
    <2>3. chain' = [chain EXCEPT ![o] = Chained[last]]
      BY <1>3 DEF Start
    <2>4. order # << >> => Len(order) \in 1..Len(order)
      BY <1>1 DEF CallTypes, Chains
    <2>5. last \in {"ok", "armed", "waiting", "failed"}
      BY <1>1, <2>2, <2>4 DEF CallTypes, Chains, States
    <2>6. chain'[o] = Chained[last] /\ \A x \in Ops \ {o} : chain'[x] = chain[x]
      BY <1>1, <2>3 DEF CallTypes, Chains
    <2>7. chain'[o] # "failed"
      BY DEF TurnsLost
    <2>8. chain'[o] \in {"armed", "waiting"} /\ (chain'[o] = "armed" => last = "ok")
      BY <2>5, <2>6, <2>7 DEF Chained
    <2>9. chain'[o] = "armed" => \A i \in 1..Len(order) : chain[order[i]] = "ok"
      <3>1. \A i \in 1..Len(order) : i < Len(order) \/ i = Len(order)
        BY <1>1 DEF CallTypes, Chains
      <3>2. QED
        BY <2>4, <2>8, <3>1 DEF Turns
    <2> HIDE DEF last
    <2>10. \A i, j \in 1..Len(order') :
             i < j /\ chain'[order'[j]] \in {"ok", "armed"} => chain'[order'[i]] = "ok"
      <3>1. SUFFICES ASSUME NEW i \in 1..Len(order'), NEW j \in 1..Len(order'), i < j,
                            chain'[order'[j]] \in {"ok", "armed"}
                     PROVE  chain'[order'[i]] = "ok"
        OBVIOUS
      <3>2. i \in 1..Len(order) /\ (j \in 1..Len(order) \/ j = Len(order) + 1)
        BY <1>1, <2>2, <3>1 DEF CallTypes, Chains
      <3>3. chain'[order'[i]] = chain[order[i]]
        BY <2>2, <2>6, <3>2
      <3>4. CASE j = Len(order) + 1
        BY <2>2, <2>8, <2>9, <3>1, <3>2, <3>3, <3>4
      <3>5. CASE j \in 1..Len(order)
        BY <2>2, <2>6, <3>1, <3>2, <3>3, <3>5 DEF Turns
      <3>6. QED
        BY <3>2, <3>4, <3>5
    <2>11. \A x \in Ops : stage'[x] \in Early \ {"idle"} => chain'[x] \in {"armed", "waiting"}
      BY <1>1, <2>1, <2>6, <2>8 DEF Turns, CallTypes
    <2>12. \A x \in Ops : Preparing(x)' => chain'[x] = "armed" /\ x \in transceivers'
      BY <1>1, <1>3, <2>1, <2>6 DEF Turns, Preparing, CallTypes, Start, regVars
    <2>13. \A x \in Ops : Awaits(x) => Awaits(x)'
      BY <1>1, <1>3, <2>1, <2>6 DEF Awaits, CallTypes, Start, regVars, Early
    <2>14. UnderWay'
      BY <1>1, <1>3, <2>13, UnderWayKept DEF Start, serverVars, handlerVars, ServerTypes
    <2>15. QED
      BY <2>10, <2>11, <2>12, <2>14 DEF Turns
  <1>4. CASE Proceed(o) \/ Offer(o) \/ Response(o)
    <2>1. order' = order /\ chain' = chain /\ sessions' = sessions /\ unanswered' = unanswered
          /\ inbox' = inbox /\ handler' = handler
      BY <1>2, <1>4 DEF Proceed, Offer, Response, regVars, handlerVars, serverVars
    <2>2. transceivers' = transceivers \/ (transceivers' = transceivers \cup {o} /\ Proceed(o))
      BY <1>2, <1>4 DEF Proceed, Offer, Response, regVars
    <2>3. /\ stage[o] \in Early \ {"idle"} /\ chain[o] = "armed" /\ o \in transceivers'
          /\ \E s \in Early \ {"idle"} : stage' = [stage EXCEPT ![o] = s]
      <3>1. CASE Proceed(o)
        BY <1>1, <3>1 DEF Proceed, TurnsLost, Turns, CallTypes, Early
      <3>2. CASE Offer(o)
        BY <1>1, <1>2, <3>2 DEF Offer, Turns, Preparing, Early, regVars
      <3>3. CASE Response(o)
        <4>1. stage' = [stage EXCEPT ![o] = "announce"] /\ transceivers' = transceivers
          BY <1>1, <3>3 DEF Response, TurnsLost, CallTypes
        <4>2. QED
          BY <3>3, <4>1 DEF Response, Turns, Preparing, Early
      <3>4. QED
        BY <1>4, <3>1, <3>2, <3>3
    <2>4. Turns'
      <3>1. \A x \in Ops : stage'[x] \in Early \ {"idle"} => chain[x] \in {"armed", "waiting"}
        BY <1>1, <2>3 DEF Turns, CallTypes
      <3>2. \A x \in Ops : Preparing(x)' => chain[x] = "armed" /\ x \in transceivers'
        BY <1>1, <2>2, <2>3 DEF Turns, Preparing, CallTypes
      <3>3. QED
        BY <2>1, <3>1, <3>2 DEF Turns
    <2>5. \A x \in Ops : Awaits(x) => Awaits(x)'
      BY <1>1, <2>1, <2>2, <2>3 DEF Awaits, CallTypes
    <2>6. QED
      BY <1>1, <2>1, <2>4, <2>5, UnderWayKept DEF ServerTypes
  <1>5. CASE Announce(o)
    <2>1. /\ stage[o] = "announce" /\ stage' = [stage EXCEPT ![o] = "soac"]
          /\ unanswered' = unanswered \cup {o}
          /\ UNCHANGED << order, chain, transceivers, sessions, inbox, handler >>
      BY <1>5 DEF Announce, regVars, handlerVars
    <2>2. Turns'
      <3>1. \A x \in Ops : stage'[x] \in Early => stage'[x] = stage[x]
        BY <1>1, <2>1 DEF CallTypes, Early
      <3>2. \A x \in Ops : Preparing(x) => x \in transceivers'
        BY <2>1 DEF Turns
      <3>3. QED
        BY <2>1, <3>1, <3>2, TurnsKept
    <2>3. chain[o] = "armed" /\ o \in transceivers /\ o \notin sessions
      BY <2>1 DEF SInv, Served, Turns, Preparing, Early
    <2>4. \A x \in Ops : ~Awaits(x)
      BY <1>1, <2>1, <2>3, OneTurn DEF Awaits, Early, SInv
    <2>5. unanswered = {} /\ handler # Applying /\ \A i \in 1..Len(inbox) : inbox[i] # Answer
      BY <1>1, <2>4 DEF UnderWay, ServerTypes
    <2>6. Awaits(o)'
      BY <1>1, <2>1, <2>3 DEF Awaits, CallTypes, Early
    <2>7. UnderWay'
      BY <2>1, <2>5, <2>6 DEF UnderWay
    <2>8. QED
      BY <2>2, <2>7
  <1>6. CASE SoacAck(o) \/ Return(o) \/ Stop(o)
    <2>1. UNCHANGED << order, chain, transceivers, sessions, unanswered, inbox, handler >>
      BY <1>2, <1>6 DEF SoacAck, Return, Stop, callVars, regVars, handlerVars, serverVars
    <2>2. \A x \in Ops : stage'[x] = stage[x] \/ (stage[x] \notin Early /\ stage'[x] \notin Early)
      BY <1>1, <1>2, <1>6 DEF SoacAck, Return, Stop, callVars, CallTypes, Early
    <2>3. Turns'
      BY <2>1, <2>2, TurnsKept DEF Turns
    <2>4. \A x \in Ops : Awaits(x) => Awaits(x)'
      BY <2>1, <2>2 DEF Awaits
    <2>5. QED
      BY <1>1, <2>1, <2>3, <2>4, UnderWayKept DEF ServerTypes
  <1>7. QED
    BY <1>2, <1>3, <1>4, <1>5, <1>6 DEF CallStep

LEMMA TurnUndo ==
  ASSUME SInv, Turns, UnderWay, ~TurnsLost', UndoStep \/ UndoFails
  PROVE  Turns' /\ UnderWay'
  <1>1. CallTypes /\ RegTypes /\ ServerTypes
    BY Parts DEF RInv, SInv
  <1>2. PICK o \in Ops, w \in Who : UnpublishAck(o, w) \/ EndedEvent(o, w) \/ UndoBroken(o, w)
    BY DEF UndoStep, UndoFails
  <1>3. /\ o \in known /\ stage[o] \notin {"idle", "chain", "offer", "request"}
        /\ (~Preparing(o) \/ o \in transceivers)
    BY <1>2 DEF SInv, RInv, UnpublishAck, EndedEvent, UndoBroken, Undone, Registered, Turns, histVars
  <1>4. unanswered' = unanswered /\ inbox' = inbox /\ order' = order
    BY <1>2 DEF UnpublishAck, EndedEvent, UndoBroken, Forget, DropRegistration, callVars, serverVars
  <1>5. stage' = stage
    <2>1. stage' = stage \/ stage' = [stage EXCEPT ![o] = "failed"]
      BY <1>2 DEF UnpublishAck, EndedEvent, UndoBroken, Forget, Resume, callVars
    <2>2. QED
      BY <1>1, <2>1 DEF TurnsLost, CallTypes
  <1>6. handler' = handler \/ handler' # Applying
    BY <1>2 DEF UnpublishAck, EndedEvent, UndoBroken, Forget, Resume, Draining, Applying
  <1>7. ~DropRegistration(o) \/ o \notin transceivers \/ o \in sessions
    <2>1. SUFFICES ASSUME DropRegistration(o), o \in transceivers, o \notin sessions
                   PROVE  FALSE
      OBVIOUS
    <2>2. promise[o] \notin {"ok", "none", "error"}
      <3>1. promise[o] # "error"
        BY <1>1, <2>1 DEF DropRegistration, PromiseFailed, RegTypes, TurnsLost
      <3>2. QED
        BY <2>1, <3>1 DEF SInv, RInv, Awaited, histVars
    <2>3. promise[o] = "pending" /\ o \in promised
      BY <1>1, <2>2 DEF RegTypes, SInv, RInv, Awaited, histVars
    <2>4. promise'[o] = "error"
      BY <1>1, <2>1, <2>3 DEF DropRegistration, PromiseFailed, RegTypes
    <2>5. QED
      BY <2>4 DEF TurnsLost
  <1>8. CASE chain' = chain /\ sessions' = sessions
    <2>1. transceivers' = transceivers \/ (o \in sessions /\ transceivers' = transceivers \ {o})
      BY <1>2, <1>7 DEF UnpublishAck, EndedEvent, UndoBroken, Forget, RegistrationGone, DropRegistration, regVars
    <2>2. o \in sessions => ~Preparing(o)
      BY DEF SInv, Served, Preparing, Early
    <2>3. Turns'
      BY <1>4, <1>5, <1>8, <2>1, <2>2, TurnsKept DEF Turns
    <2>4. \A x \in Ops : Awaits(x) => Awaits(x)'
      BY <1>5, <1>8, <2>1 DEF Awaits
    <2>5. QED
      BY <1>1, <1>4, <1>6, <2>3, <2>4, UnderWayKept DEF ServerTypes
  <1>9. CASE EndedEvent(o, w) /\ Forget(o, w)
    <2>1. o \notin transceivers
      BY <1>9 DEF EndedEvent, SInv, RInv, Undone, histVars
    <2>2. chain' = ResolveSet(chain, {o}) /\ transceivers' = transceivers /\ sessions' = sessions \ {o}
      BY <1>9 DEF Forget, Resolve
    <2>3. stage[o] \notin Early
      BY <1>3, <2>1 DEF Preparing, Early
    <2>4. Turns'
      <3>1. {o} \subseteq Ops
        OBVIOUS
      <3>2. \A x \in Ops : Preparing(x) => x \in transceivers'
        BY <2>2 DEF Turns
      <3>3. QED
        BY <1>1, <1>4, <1>5, <2>2, <2>3, <3>1, <3>2, TurnsResolved DEF SInv
    <2>5. \A x \in Ops : Awaits(x) => Awaits(x)'
      BY <1>5, <2>1, <2>2 DEF Awaits, ResolveSet
    <2>6. QED
      BY <1>1, <1>4, <1>6, <2>4, <2>5, UnderWayKept DEF ServerTypes
  <1>10. QED
    <2>1. CASE UnpublishAck(o, w)
      <3>1. chain' = chain /\ sessions' = sessions
        BY <1>7, <2>1 DEF UnpublishAck, RegistrationGone, DropRegistration, callVars, regVars
      <3>2. QED
        BY <1>8, <3>1
    <2>2. CASE EndedEvent(o, w)
      <3>1. Forget(o, w) \/ (chain' = chain /\ sessions' = sessions)
        BY <2>2 DEF EndedEvent, callVars, regVars
      <3>2. QED
        BY <1>8, <1>9, <2>2, <3>1
    <2>3. CASE UndoBroken(o, w)
      BY <1>8, <2>3 DEF UndoBroken, regVars
    <2>4. QED
      BY <1>2, <2>1, <2>2, <2>3
LEMMA TurnReceive ==
  ASSUME SInv, Turns, UnderWay, ~TurnsLost', Receive
  PROVE  Turns' /\ UnderWay'
  <1>1. CallTypes /\ RegTypes /\ ServerTypes
    BY Parts DEF RInv, SInv
  <1>2. /\ handler = Idle /\ inbox # << >> /\ inbox' = Tail(inbox)
        /\ UNCHANGED << stage, order, server, unanswered >>
    BY DEF Receive
  <1>3. /\ 1 \in 1..Len(inbox) /\ Head(inbox) = inbox[1]
        /\ \A i \in 1..Len(inbox') : i + 1 \in 1..Len(inbox) /\ inbox'[i] = inbox[i + 1] /\ i \in Nat
    BY <1>1, <1>2, Departure DEF ServerTypes
  <1>4. unanswered \subseteq Ops
    BY <1>1 DEF ServerTypes
  <1>5. transceivers' = transceivers
    BY DEF Receive, ReceiveAnswer, ReceiveReady, ReceiveError, ReceiveTransportError, ReadyHandler,
           regVars
  <1>6. CASE chain' = chain /\ handler' # Applying
    <2>1. Turns'
      BY <1>2, <1>5, <1>6, TurnsKept DEF Turns
    <2>2. \A x \in sessions' : x \in sessions \/ inbox[1] = << "ready", x >>
      BY <1>3 DEF Receive, ReceiveAnswer, ReceiveReady, ReceiveError, ReceiveTransportError,
                  ReadyHandler, regVars
    <2>3. \A x \in Ops : Awaits(x) /\ inbox[1] # << "ready", x >> => Awaits(x)'
      BY <1>2, <1>5, <1>6, <2>2 DEF Awaits
    <2>4. \A x \in unanswered : inbox[1] # << "ready", x >>
      BY <1>3, <1>4 DEF SInv, Served
    <2>5. \A x \in unanswered' : /\ unanswered' = {x} /\ Awaits(x)' /\ handler' # Applying
                               /\ \A i \in 1..Len(inbox') : inbox'[i] # Answer
      BY <1>2, <1>3, <1>4, <1>6, <2>3, <2>4 DEF UnderWay
    <2>6. ASSUME NEW i \in 1..Len(inbox'), inbox'[i] = Answer
          PROVE  /\ unanswered' = {} /\ handler' # Applying
                 /\ \E x \in Ops : /\ Awaits(x)'
                                  /\ \A j \in 1..Len(inbox') : inbox'[j] = << "ready", x >> => i < j
                 /\ \A j \in 1..Len(inbox') : inbox'[j] = Answer => i = j
      <3>1. i + 1 \in 1..Len(inbox) /\ inbox[i + 1] = Answer /\ i \in Nat /\ i >= 1
        BY <1>1, <1>3, <2>6
      <3>2. PICK x \in Ops : /\ Awaits(x)
                            /\ \A j \in 1..Len(inbox) : inbox[j] = << "ready", x >> => i + 1 < j
        BY <3>1 DEF UnderWay
      <3>3. inbox[1] # << "ready", x >>
        BY <1>3, <3>1, <3>2
      <3>4. \A j \in 1..Len(inbox') : inbox'[j] = << "ready", x >> => i < j
        <4>1. \A j \in 1..Len(inbox') : inbox'[j] = << "ready", x >> => i + 1 < j + 1
          BY <1>3, <3>2
        <4>2. QED
          BY <1>3, <3>1, <4>1
      <3>5. \A j \in 1..Len(inbox') : inbox'[j] = Answer => i = j
        <4>1. \A j \in 1..Len(inbox') : inbox'[j] = Answer => i + 1 = j + 1
          BY <1>3, <3>1 DEF UnderWay
        <4>2. QED
          BY <1>3, <3>1, <4>1
      <3>6. unanswered = {}
        BY <3>1 DEF UnderWay
      <3>7. QED
        BY <1>2, <1>6, <2>3, <3>2, <3>3, <3>4, <3>5, <3>6
    <2>7. QED
      BY <1>6, <2>1, <2>5, <2>6 DEF UnderWay
  <1>7. CASE ~(chain' = chain /\ handler' # Applying)
    <2>1. inbox[1] = Answer /\ sessions' = sessions
      BY <1>2, <1>3, <1>7 DEF Receive, ReceiveAnswer, ReceiveReady, ReceiveError,
         ReceiveTransportError, UndoByHandler, TellFrom, regVars, Idle, Failing, Draining, Applying
    <2>2. /\ unanswered = {} /\ (\E x \in Ops : Awaits(x))
          /\ \A j \in 1..Len(inbox) : inbox[j] = Answer => 1 = j
      BY <1>3, <2>1 DEF UnderWay
    <2>3. \A i \in 1..Len(inbox') : inbox'[i] # Answer
      <3>1. \A i \in 1..Len(inbox') : i \in 1..Len(inbox') => i >= 1
        BY <1>1
      <3>2. QED
        BY <1>3, <2>2, <3>1
    <2>4. CASE chain' = chain
      <3>1. Turns'
        BY <1>2, <1>5, <2>4, TurnsKept DEF Turns
      <3>2. \E x \in Ops : Awaits(x)'
        BY <1>2, <1>5, <2>1, <2>2, <2>4 DEF Awaits
      <3>3. QED
        BY <1>2, <2>2, <2>3, <3>1, <3>2 DEF UnderWay
    <2>5. CASE chain' # chain
      <3>1. chain' = ResolveSet(chain, Ops) /\ handler' = handler
        BY <2>5 DEF Receive, ReceiveAnswer, ReceiveReady, ReceiveError, ReceiveTransportError,
                    NextSdpPromise
      <3>2. \A x \in Ops : chain[x] = "armed" => stage[x] \notin Early
        BY <1>1, <2>2, OneTurn DEF Awaits, SInv
      <3>3. \A x \in Ops : Preparing(x) => x \in transceivers'
        BY <1>5 DEF Turns
      <3>4. Turns'
        BY <1>1, <1>2, <3>1, <3>2, <3>3, TurnsResolved DEF SInv
      <3>5. handler' # Applying
        BY <1>2, <3>1 DEF Idle, Applying
      <3>6. QED
        BY <1>2, <2>2, <2>3, <3>4, <3>5 DEF UnderWay
    <2>6. QED
      BY <2>4, <2>5
  <1>8. QED
    BY <1>6, <1>7

LEMMA TurnHandler ==
  ASSUME SInv, Turns, UnderWay, ~TurnsLost', HandlerStep \/ \E w \in PeerTasks : PeerFails(w)
  PROVE  Turns' /\ UnderWay'
  <1>1. CallTypes /\ RegTypes /\ ServerTypes
    BY Parts DEF RInv, SInv
  <1>2. CASE Receive
    BY <1>2, TurnReceive
  <1>3. CASE ApplyAnswer \/ RejectAnswer
    <2>1. /\ handler = Applying /\ handler' = Draining
          /\ UNCHANGED << stage, order, transceivers, sessions, unanswered, inbox >>
      BY <1>3 DEF ApplyAnswer, RejectAnswer, serverVars
    <2>2. chain' = chain \/ chain' = ResolveSet(chain, Ops)
      BY <1>3 DEF ApplyAnswer, RejectAnswer, NextSdpPromise
    <2>3. unanswered = {} /\ (\E x \in Ops : Awaits(x)) /\ \A i \in 1..Len(inbox) : inbox[i] # Answer
      BY <2>1 DEF UnderWay
    <2>4. \A x \in Ops : chain[x] = "armed" => stage[x] \notin Early
      BY <1>1, <2>3, OneTurn DEF Awaits, SInv
    <2>5. \A x \in Ops : Preparing(x) => x \in transceivers'
      BY <2>1 DEF Turns
    <2>6. Turns'
      BY <1>1, <2>1, <2>2, <2>4, <2>5, TurnsKept, TurnsResolved DEF SInv
    <2>7. UnderWay'
      BY <2>1, <2>3 DEF UnderWay, Draining, Applying
    <2>8. QED
      BY <2>6, <2>7
  <1>4. CASE \/ Drain \/ \E x \in Ops : ErrorEventDone(x)
             \/ \E w \in ErrorTasks : ErrorsTold(w)
             \/ \E w \in PeerTasks : PeerFails(w)
    <2>1. UNCHANGED << stage, order, chain, transceivers, sessions, unanswered, inbox >>
      BY <1>4 DEF Drain, ErrorEventDone, ErrorsTold, PeerFails, callVars, regVars, serverVars
    <2>2. handler' = handler \/ handler' # Applying
      <3>1. ASSUME NEW w, NEW at, TellFrom(w, at)
            PROVE  handler' \in {handler, Failing, Draining}
        BY <3>1 DEF TellFrom
      <3>2. ASSUME NEW w \in ErrorTasks, ErrorsTold(w)
            PROVE  handler' \in {handler, Failing, Draining}
        BY <3>1, <3>2 DEF ErrorsTold
      <3>3. ASSUME NEW w \in PeerTasks, PeerFails(w)
            PROVE  handler' \in {handler, Failing, Draining}
        BY <3>1, <3>3 DEF PeerFails
      <3>4. ASSUME NEW x \in Ops, ErrorEventDone(x)
            PROVE  handler' \in {Draining, << "undoing", x >>}
        BY <3>4 DEF ErrorEventDone, UndoByHandler
      <3>5. Drain => handler' = Idle
        BY DEF Drain
      <3>6. QED
        BY <1>4, <3>2, <3>3, <3>4, <3>5 DEF Idle, Failing, Draining, Applying
    <2>3. \A x \in Ops : Awaits(x) => Awaits(x)'
      BY <2>1 DEF Awaits
    <2>4. Turns'
      BY <2>1, TurnsKept DEF Turns
    <2>5. QED
      BY <1>1, <2>1, <2>2, <2>3, <2>4, UnderWayKept DEF ServerTypes
  <1>5. QED
    BY <1>2, <1>3, <1>4 DEF HandlerStep

LEMMA TurnClose ==
  ASSUME SInv, Turns, UnderWay, CloseStep \/ CloseCalled
  PROVE  Turns' /\ UnderWay'
  <1>1. ServerTypes
    BY Parts DEF RInv, SInv
  <1>2. UNCHANGED << stage, order, chain, transceivers, sessions, unanswered, inbox, handler >>
    BY DEF CloseStep, CloseNext, CloseEnd, CloseCalled, callVars, regVars, handlerVars, serverVars
  <1>3. \A x \in Ops : Awaits(x) => Awaits(x)'
    BY <1>2 DEF Awaits
  <1>4. Turns'
    BY <1>2, TurnsKept DEF Turns
  <1>5. QED
    BY <1>1, <1>2, <1>3, <1>4, UnderWayKept DEF ServerTypes

LEMMA TurnServer ==
  ASSUME SInv, Turns, UnderWay, NEW o \in Ops, ServerStep(o) \/ ServerFails(o)
  PROVE  Turns' /\ UnderWay'
  <1>1. ServerTypes
    BY Parts DEF RInv, SInv
  <1>2. UNCHANGED << stage, order, chain, transceivers, sessions, handler >>
    BY DEF ServerStep, ServerFails, callVars, regVars, handlerVars
  <1>3. \A x \in Ops : Awaits(x)' <=> Awaits(x)
    BY <1>2 DEF Awaits
  <1>4. Turns'
    BY <1>2, TurnsKept DEF Turns
  <1>5. Len(inbox) \in Nat /\ unanswered \subseteq Ops
    BY <1>1 DEF ServerTypes
  <1>6. CASE inbox' = inbox /\ unanswered' = unanswered
    BY <1>2, <1>3, <1>4, <1>5, <1>6, UnderWayKept
  <1>7. CASE o \in unanswered /\ unanswered' = unanswered \ {o} /\ inbox' = Append(inbox, Answer)
    <2>1. /\ unanswered = {o} /\ Awaits(o) /\ handler # Applying
          /\ \A i \in 1..Len(inbox) : inbox[i] # Answer
      BY <1>7 DEF UnderWay
    <2>2. \A i \in 1..Len(inbox) : inbox[i] # << "ready", o >>
      BY <1>7 DEF SInv, Served
    <2>3. \A i \in 1..Len(inbox') : (i \in 1..Len(inbox) /\ inbox'[i] = inbox[i]) \/ i = Len(inbox) + 1
      BY <1>1, <1>7, Arrival, Kinds DEF ServerTypes
    <2>4. \A i \in 1..Len(inbox') : inbox'[i] = << "ready", o >> \/ inbox'[i] = Answer
                                  => i = Len(inbox) + 1
      BY <2>1, <2>2, <2>3
    <2>5. inbox'[Len(inbox) + 1] = Answer
      BY <1>1, <1>7 DEF ServerTypes
    <2>6. \A i \in 1..Len(inbox') : inbox'[i] # << "ready", o >>
      BY <2>4, <2>5 DEF Answer
    <2>7. QED
      BY <1>2, <1>3, <1>4, <1>7, <2>1, <2>4, <2>6 DEF UnderWay
  <1>8. CASE /\ unanswered' = unanswered
             /\ \E m \in {<< "ready", o >>, << "error", o >>} : inbox' = Append(inbox, m)
    <2>1. /\ \A i \in 1..Len(inbox) : i \in 1..Len(inbox') /\ inbox'[i] = inbox[i]
          /\ \A i \in 1..Len(inbox') : \/ (i \in 1..Len(inbox) /\ inbox'[i] = inbox[i])
                                      \/ (i = Len(inbox) + 1 /\ inbox'[i] # Answer)
      <3>1. PICK m \in {<< "ready", o >>, << "error", o >>} : inbox' = Append(inbox, m)
        BY <1>8
      <3>2. m \in Messages
        BY <3>1, Kinds
      <3>3. m # Answer
        BY <3>1 DEF Answer
      <3>4. inbox \in Seq(Messages)
        BY <1>1 DEF ServerTypes
      <3>5. /\ \A i \in 1..Len(inbox) : i \in 1..Len(inbox') /\ inbox'[i] = inbox[i]
            /\ \A i \in 1..Len(inbox') :
                 (i \in 1..Len(inbox) /\ inbox'[i] = inbox[i]) \/ (i = Len(inbox) + 1 /\ inbox'[i] = m)
        BY <3>1, <3>2, <3>4, Arrival
      <3>6. QED
        BY <3>3, <3>5, <1>5
    <2>2. ASSUME NEW i \in 1..Len(inbox'), inbox'[i] = Answer
          PROVE  /\ unanswered = {} /\ handler # Applying
                 /\ \E x \in Ops : /\ Awaits(x)
                                  /\ \A j \in 1..Len(inbox') : inbox'[j] = << "ready", x >> => i < j
                 /\ \A j \in 1..Len(inbox') : inbox'[j] = Answer => i = j
      <3>1. i \in 1..Len(inbox) /\ inbox[i] = Answer /\ i < Len(inbox) + 1
        BY <1>5, <2>1, <2>2
      <3>2. PICK x \in Ops : Awaits(x) /\ \A j \in 1..Len(inbox) : inbox[j] = << "ready", x >> => i < j
        BY <3>1 DEF UnderWay
      <3>3. \A j \in 1..Len(inbox') : inbox'[j] = << "ready", x >> => i < j
        BY <2>1, <3>1, <3>2
      <3>4. \A j \in 1..Len(inbox') : inbox'[j] = Answer => i = j
        BY <2>1, <3>1 DEF UnderWay
      <3>5. QED
        BY <3>1, <3>2, <3>3, <3>4 DEF UnderWay
    <2>3. \A x \in unanswered' : /\ unanswered' = {x} /\ Awaits(x)' /\ handler' # Applying
                               /\ \A i \in 1..Len(inbox') : inbox'[i] # Answer
      BY <1>2, <1>3, <1>5, <1>8, <2>1 DEF UnderWay
    <2>4. handler' = Applying => /\ unanswered' = {} /\ \E x \in Ops : Awaits(x)'
                                 /\ \A i \in 1..Len(inbox') : inbox'[i] # Answer
      BY <1>2, <1>3, <1>8, <2>1 DEF UnderWay
    <2>5. QED
      BY <1>2, <1>3, <1>4, <1>8, <2>2, <2>3, <2>4 DEF UnderWay
  <1>9. CASE unanswered' = unanswered /\ inbox = << >> /\ inbox' = << TransportError >>
    <2>1. \A i \in 1..Len(inbox') : inbox'[i] # Answer
      BY <1>9 DEF TransportError, Answer
    <2>2. QED
      BY <1>2, <1>3, <1>4, <1>5, <1>9, <2>1 DEF UnderWay
  <1>10. QED
    BY <1>6, <1>7, <1>8, <1>9 DEF ServerStep, ServerFails

LEMMA SInit == Init => SInv
  <1> SUFFICES ASSUME Init PROVE SInv
    OBVIOUS
  <1>1. order = << >> /\ inbox = << >> /\ unanswered = {} /\ handler # Applying
    BY DEF Init, Idle, Applying
  <1>2. Places /\ Served
    BY <1>1 DEF Init, Places, Served, Early
  <1>3. Turns /\ UnderWay
    BY <1>1 DEF Init, Turns, UnderWay, Preparing, Early
  <1>4. QED
    BY <1>2, <1>3, RInit DEF SInv

LEMMA SStep == SInv /\ [Next]_vars => SInv'
  <1> SUFFICES ASSUME SInv, [Next]_vars PROVE SInv'
    OBVIOUS
  <1>1. RInv'
    BY RStep DEF SInv
  <1>2. CASE Next
    <2>1. Places' /\ Served'
      BY <1>2, PlacesStep, ServedStep DEF SInv
    <2>2. ASSUME ~TurnsLost'
          PROVE  Turns' /\ UnderWay'
      <3>1. Turns /\ UnderWay
        BY <1>2, <2>2, LostStays DEF SInv
      <3>2. CASE \E o \in Ops : CallStep(o) \/ Start(o) \/ Stop(o) \/ Cancel(o) \/ Timeout(o)
        BY <2>2, <3>1, <3>2, TurnCalls
      <3>3. CASE \E o \in Ops : ServerStep(o) \/ ServerFails(o)
        BY <3>1, <3>3, TurnServer
      <3>4. CASE HandlerStep \/ \E w \in PeerTasks : PeerFails(w)
        BY <2>2, <3>1, <3>4, TurnHandler
      <3>5. CASE UndoStep \/ UndoFails \/ CloseStep \/ CloseCalled
        BY <2>2, <3>1, <3>5, TurnUndo, TurnClose
      <3>6. QED
        BY <1>2, <3>2, <3>3, <3>4, <3>5 DEF Next, Environment
    <2>3. QED
      BY <1>1, <2>1, <2>2 DEF SInv
  <1>3. CASE UNCHANGED vars
    <2>1. UNCHANGED << stage, order, chain, transceivers, promise, sessions, server, unanswered,
                       inbox, handler >>
      BY <1>3 DEF vars, callVars, regVars, handlerVars, serverVars
    <2>2. Places' /\ Served'
      BY <2>1 DEF SInv, Places, Served
    <2>3. Turns' <=> Turns
      BY <2>1 DEF Turns, Preparing
    <2>4. UnderWay' <=> UnderWay
      BY <2>1 DEF UnderWay, Awaits
    <2>5. TurnsLost' <=> TurnsLost
      BY <2>1 DEF TurnsLost
    <2>6. QED
      BY <1>1, <2>2, <2>3, <2>4, <2>5 DEF SInv
  <1>4. QED
    BY <1>2, <1>3

\* _chainSdpPromise: until a turn is lost, two calls never prepare an offer on
\* the peer connection together.
THEOREM OneNegotiation == Spec => []NegotiationSerialized
  <1>1. SInv => NegotiationSerialized
    <2>1. SUFFICES ASSUME SInv, NEW x \in Ops, NEW y \in Ops, Preparing(x), Preparing(y), ~TurnsLost
                   PROVE  x = y
      BY DEF NegotiationSerialized
    <2>2. chain[x] = "armed" /\ chain[y] = "armed"
      BY <2>1 DEF SInv, Turns
    <2>3. QED
      BY <2>1, <2>2, OneTurn, Parts DEF SInv, RInv
  <1>2. QED
    BY <1>1, SInit, SStep, PTL DEF Spec
=============================================================================
