------------------------- MODULE ViciCommand_proofs -------------------------
(*****************************************************************************)
(* The VICI command path is type correct and the command slot is a lock, for *)
(* any number of threads and calls; and what the shared VICI stream holds    *)
(* always fits the stage of the command that uses it, so a stream kept       *)
(* between commands is clean and a command reads only answers of its own.    *)
(* The daemon then runs a call at most once, however often the stream breaks.*)
(*****************************************************************************)
EXTENDS ViciCommand, TLAPS

\* A call belongs to one thread, and has no result while it is in progress.
CallInv ==
    \A t \in Thread : call[t] # NoCall =>
        /\ result[call[t]] = NoResult
        /\ \A u \in Thread : call[u] = call[t] => u = t

-----------------------------------------------------------------------------
(* Types                                                                   *)

\* A stream with a frame on it has a first frame.
LEMMA FirstFrame ==
    ASSUME NEW S, NEW s \in Seq(S), s # <<>>
    PROVE  Len(s) \in Nat \ {0} /\ Head(s) = s[1] /\ Head(s) \in S
OBVIOUS

\* The stream after DisconnectViciTransport has its type.
LEMMA DisconnectType ==
    ASSUME TypeOK, DisconnectViciTransport
    PROVE  /\ iSocket' \in {"closed", "open"} /\ peerUp' \in BOOLEAN
           /\ toDaemon' \in Seq(Request) /\ toClient' \in Seq(Reply)
           /\ listening' \in BOOLEAN /\ serving' \in Call \cup {NoCall}
           /\ orphans' \subseteq Call
<1>1. \A i \in DOMAIN toDaemon : toDaemon[i] \in Request
  BY DEF TypeOK, DaemonTyped
<1>2. Unread \subseteq Call
  BY <1>1 DEF Unread, Request
<1>3. <<>> \in Seq(Request) /\ <<>> \in Seq(Reply)
  OBVIOUS
<1> QED
  BY <1>2, <1>3, Zenon DEF TypeOK, DaemonTyped, DisconnectViciTransport

\* A command that fails leaves a well-typed state (the eFail paths of
\* ExecuteViciCommandUntil).
LEMMA FailType ==
    ASSUME TypeOK, NEW t \in Thread, pc[t] # "IDLE",
           NEW e \in Error, NEW frame \in Local, Fail(t, e, frame)
    PROVE  TypeOK'
<1>1. [frame EXCEPT !.eError = e] \in Local
  BY DEF Local
<1>2. local' \in [Thread -> Local]
  BY <1>1 DEF Fail, TypeOK, ThreadsTyped
<1>3. /\ pc' \in [Thread -> Stage]
      /\ \A u \in Thread : pc'[u] = "IDLE" <=> pc[u] = "IDLE"
  BY DEF Fail, TypeOK, ThreadsTyped, Stage, Owning
<1> QED
  BY <1>2, <1>3, DisconnectType, Zenon DEF Fail, TypeOK, ThreadsTyped, DaemonTyped, slot, daemon

\* Writing and taking a frame keep the stream well typed.
LEMMA FrameType ==
    ASSUME TypeOK, NEW t \in Thread, pc[t] # "IDLE"
    PROVE  /\ \A type \in {"REGISTER", "UNREGISTER", "REQUEST"} :
                 SendFrame(t, type) => toDaemon' \in Seq(Request)
           /\ TakeFrame(t) => toClient' \in Seq(Reply)
           /\ toClient # <<>> => Head(toClient) \in Reply
<1>1. call[t] \in Call
  BY DEF TypeOK, ThreadsTyped
<1>2. \A type \in {"REGISTER", "UNREGISTER", "REQUEST"} : [type |-> type, call |-> call[t]] \in Request
  BY <1>1 DEF Request
<1>3. toDaemon \in Seq(Request) /\ toClient \in Seq(Reply)
  BY DEF TypeOK, DaemonTyped
<1>4. ASSUME NEW S, NEW s \in Seq(S), NEW x \in S
      PROVE  Append(s, x) \in Seq(S)
  OBVIOUS
<1>5. ASSUME NEW S, NEW s \in Seq(S), s # <<>>
      PROVE  Tail(s) \in Seq(S) /\ Head(s) \in S
  BY <1>5
<1>6. \A type \in {"REGISTER", "UNREGISTER", "REQUEST"} :
        SendFrame(t, type) => toDaemon' \in Seq(Request)
  BY <1>2, <1>3 DEF SendFrame
<1>7. TakeFrame(t) => toClient' \in Seq(Reply)
  BY <1>3 DEF TakeFrame
<1> QED
  BY <1>3, <1>6, <1>7

\* The daemon's frames are well typed, and appending one keeps the stream so.
LEMMA AnswerType ==
    ASSUME TypeOK, NEW c \in Call, NEW success \in Success,
           NEW type \in {"CONFIRM", "EVENT_UNKNOWN", "EVENT", "RESPONSE", "COMMAND_UNKNOWN"}
    PROVE  Answer(type, c, success) \in Seq(Reply)
<1>1. [type |-> type, call |-> c, success |-> success] \in Reply
  BY DEF Reply
<1>2. toClient \in Seq(Reply)
  BY DEF TypeOK, DaemonTyped
<1> QED
  BY <1>1, <1>2 DEF Answer

\* Reading the daemon's end keeps what is left well typed.
LEMMA ReadType ==
    ASSUME TypeOK, toDaemon # <<>>
    PROVE  Tail(toDaemon) \in Seq(Request) /\ Head(toDaemon) \in Request
<1>1. toDaemon \in Seq(Request)
  BY DEF TypeOK, DaemonTyped
<1> QED
  BY <1>1

\* Setting one field of a command's frame keeps its type.
LEMMA UpdateType ==
    ASSUME NEW frame \in Local
    PROVE  /\ [frame EXCEPT !.bSendAttempted = TRUE] \in Local
           /\ [frame EXCEPT !.bResponseValid = TRUE] \in Local
           /\ [frame EXCEPT !.bRegistered = TRUE] \in Local
           /\ \A e \in Error : [frame EXCEPT !.eError = e] \in Local
<1>1. [frame EXCEPT !.bSendAttempted = TRUE] \in Local
  BY Zenon DEF Local
<1>2. [frame EXCEPT !.bResponseValid = TRUE] \in Local
  BY Zenon DEF Local
<1>3. [frame EXCEPT !.bRegistered = TRUE] \in Local
  BY Zenon DEF Local
<1>4. \A e \in Error : [frame EXCEPT !.eError = e] \in Local
  BY Zenon DEF Local
<1> QED
  BY <1>1, <1>2, <1>3, <1>4

\* Init establishes the types.
LEMMA TypeInit == Init => TypeOK
<1>1. <<>> \in Seq(Request) /\ <<>> \in Seq(Reply)
  OBVIOUS
<1>2. EmptyFrame \in Local
  BY DEF EmptyFrame, Local, Error, Success
<1> SUFFICES ASSUME Init PROVE TypeOK
  OBVIOUS
<1>3. /\ pc \in [Thread -> Stage] /\ call \in [Thread -> Call \cup {NoCall}]
      /\ local \in [Thread -> Local]
      /\ \A t \in Thread : pc[t] = "IDLE" <=> call[t] = NoCall
  BY <1>2 DEF Init, Stage
<1>4. /\ result \in [Call -> Diagnostic \cup {NoResult}] /\ executed \in [Call -> Nat]
  BY DEF Init
<1> QED
  BY <1>1, <1>3, Zenon DEF Init, TypeOK, ThreadsTyped, DaemonTyped

\* Every step of a thread keeps the types.
LEMMA TypeThread ==
    ASSUME TypeOK, NEW t \in Thread, ThreadStep(t)
    PROVE  TypeOK'
<1> USE CallAssumption
<1>a. local[t] \in Local
  BY DEF TypeOK, ThreadsTyped
<1>0. /\ local[t] \in Local
      /\ [local[t] EXCEPT !.bSendAttempted = TRUE] \in Local
      /\ [local[t] EXCEPT !.bResponseValid = TRUE] \in Local
      /\ [local[t] EXCEPT !.bRegistered = TRUE] \in Local
      /\ \A e \in Error : [local[t] EXCEPT !.eError = e] \in Local
  BY <1>a, UpdateType
<1>1. CASE AcquireViciCommand(t)
  BY <1>1, Zenon DEF AcquireViciCommand, Goto, TypeOK, ThreadsTyped, DaemonTyped, Stage, Owning,
     stream, daemon
<1>2. CASE AcquireFails(t)
  <2>0. PICK e \in Error : local' = [local EXCEPT ![t] = [local[t] EXCEPT !.eError = e]]
    BY <1>2, Zenon DEF AcquireFails, Error
  <2>1. local' \in [Thread -> Local]
    BY <1>0, <2>0 DEF TypeOK, ThreadsTyped
  <2> QED
    BY <2>1, <1>2 DEF AcquireFails, Goto, TypeOK, ThreadsTyped, DaemonTyped, Stage, slot, stream,
       daemon
<1>3. CASE ConnectViciTransport(t)
  BY <1>3, Zenon DEF ConnectViciTransport, AfterConnect, Goto, TypeOK, ThreadsTyped, DaemonTyped,
     Stage, Owning, slot, stream, daemon
<1>4. CASE ConnectFails(t)
  BY <1>0, <1>4, FailType DEF ConnectFails, Error
<1>5. CASE Register(t)
  <2>1. CASE \E e \in Error : Fail(t, e, local[t])
    BY <1>0, <1>5, <2>1, FailType DEF Register
  <2>2. CASE SendFrame(t, "REGISTER") /\ Goto(t, "CONFIRM")
             /\ UNCHANGED <<slot, call, local, result, daemon>>
    <3>1. toDaemon' \in Seq(Request)
      BY <1>5, <2>2, FrameType DEF Register
    <3> QED
      BY <1>5, <2>2, <3>1, Zenon DEF Register, SendFrame, Goto, TypeOK, ThreadsTyped,
         DaemonTyped, Stage, Owning, slot, daemon
  <2> QED
    BY <1>5, <2>1, <2>2 DEF Register, Error
<1>6. CASE Confirm(t)
  <2>1. CASE \E e \in Error : Fail(t, e, local[t])
    BY <1>0, <1>6, <2>1, FailType, Zenon DEF Confirm
  <2>2. CASE TakeFrame(t) /\ local' = [local EXCEPT ![t].bRegistered = TRUE]
             /\ Goto(t, "SEND") /\ UNCHANGED <<slot, call, result, daemon>>
    <3>1. toClient' \in Seq(Reply)
      BY <1>6, <2>2, FrameType DEF Confirm
    <3>2. local' \in [Thread -> Local]
      BY <1>0, <2>2 DEF TypeOK, ThreadsTyped
    <3> QED
      BY <1>6, <2>2, <3>2 DEF Confirm, TakeFrame, Goto, TypeOK, ThreadsTyped, DaemonTyped, Stage,
         Owning, slot, daemon
  <2> QED
    BY <1>6, <2>1, <2>2, Zenon DEF Confirm, RegistrationError, Error
<1>7. CASE SendRequest(t)
  <2>1. CASE \E e \in Error : \/ Fail(t, e, local[t])
                              \/ Fail(t, e, [local[t] EXCEPT !.bSendAttempted = TRUE])
    BY <1>0, <1>7, <2>1, FailType, Zenon DEF SendRequest
  <2>2. CASE /\ SendFrame(t, "REQUEST")
             /\ local' = [local EXCEPT ![t] = [local[t] EXCEPT !.bSendAttempted = TRUE]]
             /\ Goto(t, "RECEIVE") /\ UNCHANGED <<slot, call, result, daemon>>
    <3>1. toDaemon' \in Seq(Request)
      BY <1>7, <2>2, FrameType DEF SendRequest
    <3>2. local' \in [Thread -> Local]
      BY <1>0, <2>2 DEF TypeOK, ThreadsTyped
    <3> QED
      BY <1>7, <2>2, <3>1, <3>2, Zenon DEF SendRequest, SendFrame, Goto, TypeOK, ThreadsTyped,
         DaemonTyped, Stage, Owning, slot, daemon
  <2> QED
    BY <1>7, <2>1, <2>2 DEF SendRequest, Error
<1>8. CASE ReceiveEvent(t)
  <2>1. CASE Fail(t, "LOCAL", local[t])
    BY <1>0, <1>8, <2>1, FailType, Zenon DEF ReceiveEvent, Error
  <2>2. CASE TakeFrame(t) /\ UNCHANGED <<slot, frames, result, daemon>>
    <3>1. toClient' \in Seq(Reply)
      BY <1>8, <2>2, FrameType DEF ReceiveEvent
    <3> QED
      BY <2>2 DEF TakeFrame, TypeOK, ThreadsTyped, DaemonTyped, slot, frames, daemon
  <2> QED
    BY <1>8, <2>1, <2>2 DEF ReceiveEvent
<1>9. CASE ReceiveResponse(t)
  <2>1. CASE \E e \in Error : Fail(t, e, local[t])
    BY <1>0, <1>9, <2>1, FailType, Zenon DEF ReceiveResponse
  <2>2. CASE /\ TakeFrame(t)
             /\ local' = [local EXCEPT ![t].bResponseValid = TRUE,
                                       ![t].success = Head(toClient).success]
             /\ Goto(t, IF local[t].bRegistered THEN "UNREGISTER" ELSE "RELEASE")
             /\ UNCHANGED <<slot, call, result, daemon>>
    <3>1. toClient' \in Seq(Reply) /\ Head(toClient) \in Reply
      BY <1>9, <2>2, FrameType, Zenon DEF ReceiveResponse
    <3>2. Head(toClient).success \in Success
      BY <3>1 DEF Reply
    <3>3. local' \in [Thread -> Local]
      BY <1>0, <2>2, <3>2, ZenonT(60) DEF TypeOK, ThreadsTyped, DaemonTyped, Local
    <3> QED
      BY <1>9, <2>2, <3>3 DEF ReceiveResponse, TakeFrame, Goto, TypeOK, ThreadsTyped,
         DaemonTyped, Stage, Owning, slot, daemon
  <2> QED
    BY <1>9, <2>1, <2>2, Zenon DEF ReceiveResponse, Error
<1>10. CASE ReceiveOther(t)
  BY <1>0, <1>10, FailType, Zenon DEF ReceiveOther, Error
<1>11. CASE ReceiveFails(t)
  BY <1>0, <1>11, FailType DEF ReceiveFails
<1>12. CASE Unregister(t)
  <2>1. CASE \E e \in Error : Fail(t, e, local[t])
    BY <1>0, <1>12, <2>1, FailType DEF Unregister
  <2>2. CASE SendFrame(t, "UNREGISTER") /\ Goto(t, "UNCONFIRM")
             /\ UNCHANGED <<slot, call, local, result, daemon>>
    <3>1. toDaemon' \in Seq(Request)
      BY <1>12, <2>2, FrameType DEF Unregister
    <3> QED
      BY <1>12, <2>2, <3>1, Zenon DEF Unregister, SendFrame, Goto, TypeOK, ThreadsTyped,
         DaemonTyped, Stage, Owning, slot, daemon
  <2> QED
    BY <1>12, <2>1, <2>2 DEF Unregister, Error
<1>13. CASE Unconfirm(t)
  <2>1. CASE \E e \in Error : Fail(t, e, local[t])
    BY <1>0, <1>13, <2>1, FailType, Zenon DEF Unconfirm
  <2>2. CASE TakeFrame(t) /\ Goto(t, "RELEASE") /\ UNCHANGED <<slot, call, local, result, daemon>>
    <3>1. toClient' \in Seq(Reply)
      BY <1>13, <2>2, FrameType DEF Unconfirm
    <3> QED
      BY <1>13, <2>2 DEF Unconfirm, TakeFrame, Goto, TypeOK, ThreadsTyped, DaemonTyped, Stage,
         Owning, slot, daemon
  <2> QED
    BY <1>13, <2>1, <2>2 DEF Unconfirm, RegistrationError, Error
<1>14. CASE Release(t)
  <2>1. call[t] \in Call
    BY <1>14 DEF Release, TypeOK, ThreadsTyped
  <2>2. OutcomeOf(t) \in Diagnostic
    BY <1>0, Zenon DEF OutcomeOf, FinalError, Diagnostic, Local, Error
  <2>3. result' \in [Call -> Diagnostic \cup {NoResult}]
    BY <1>14, <2>2, Zenon DEF Release, TypeOK, ThreadsTyped
  <2>4. EmptyFrame \in Local
    BY DEF EmptyFrame, Local, Error, Success
  <2>5. local' \in [Thread -> Local]
    BY <1>14, <2>4, Zenon DEF Release, TypeOK, ThreadsTyped
  <2> QED
    BY <1>14, <2>3, <2>5, Zenon DEF Release, Goto, TypeOK, ThreadsTyped, DaemonTyped, Stage,
       stream, daemon
<1> QED
  BY <1>1, <1>2, <1>3, <1>4, <1>5, <1>6, <1>7, <1>8, <1>9, <1>10, <1>11, <1>12, <1>13, <1>14,
     Zenon DEF ThreadStep

\* Every step of the daemon keeps the types.
LEMMA TypeDaemon ==
    ASSUME TypeOK, DaemonStep
    PROVE  TypeOK'
<1> USE CallAssumption
<1>0. ASSUME NEW c \in Call, DaemonRuns(c)
      PROVE  executed' \in [Call -> Nat] /\ applied' \subseteq Call
  BY <1>0 DEF DaemonRuns, TypeOK, DaemonTyped
<1>1. CASE DaemonRegistration
  <2>1. Head(toDaemon).call \in Call /\ toDaemon' \in Seq(Request)
    BY <1>1, ReadType DEF DaemonRegistration, Request
  <2>2. toClient' \in Seq(Reply)
    BY <1>1, <2>1, AnswerType, Zenon DEF DaemonRegistration, Success
  <2> QED
    BY <1>1, <2>1, <2>2, Zenon DEF DaemonRegistration, TypeOK, ThreadsTyped, DaemonTyped, slot,
       frames, daemon
<1>2. CASE DaemonAccept
  <2>1. Head(toDaemon).call \in Call /\ toDaemon' \in Seq(Request)
    BY <1>2, ReadType DEF DaemonAccept, Request
  <2>2. toClient' \in Seq(Reply)
    <3>1. CASE UNCHANGED toClient
      BY <3>1 DEF TypeOK, DaemonTyped
    <3>2. CASE \E type \in {"COMMAND_UNKNOWN", "CONFIRM"} :
                  toClient' = Answer(type, Head(toDaemon).call, "absent")
      BY <2>1, <3>2, AnswerType, SMTT(30) DEF Success
    <3> QED
      BY <1>2, <3>1, <3>2 DEF DaemonAccept
  <2>3. /\ executed' \in [Call -> Nat] /\ applied' \subseteq Call
        /\ serving' \in Call \cup {NoCall}
    BY <1>0, <1>2, <2>1, Zenon DEF DaemonAccept, TypeOK, DaemonTyped, daemon
  <2> QED
    BY <1>2, <2>2, <2>3 DEF DaemonAccept, TypeOK, ThreadsTyped, DaemonTyped, slot, frames
<1>3. CASE DaemonEvent
  <2>1. toClient' \in Seq(Reply)
    BY <1>3, AnswerType DEF DaemonEvent, Success
  <2> QED
    BY <1>3, <2>1, Zenon DEF DaemonEvent, TypeOK, ThreadsTyped, DaemonTyped, slot, frames, daemon
<1>4. CASE DaemonRespond
  <2>0. serving \in Call
    BY <1>4 DEF DaemonRespond, TypeOK, DaemonTyped
  <2>1. toClient' \in Seq(Reply)
    BY <1>4, <2>0, AnswerType, Zenon DEF DaemonRespond, Success
  <2> QED
    BY <1>4, <2>1, Zenon DEF DaemonRespond, TypeOK, ThreadsTyped, DaemonTyped, slot, frames,
       daemon
<1>5. CASE DaemonRestart
  <2>1. <<>> \in Seq(Request)
    OBVIOUS
  <2> QED
    BY <1>5, <2>1, Zenon DEF DaemonRestart, TypeOK, ThreadsTyped, DaemonTyped, slot, frames, daemon
<1>6. CASE \E c \in Call : DaemonServesOrphan(c)
  BY <1>0, <1>6 DEF DaemonServesOrphan, TypeOK, ThreadsTyped, DaemonTyped, slot, frames
<1> QED
  BY <1>1, <1>2, <1>3, <1>4, <1>5, <1>6 DEF DaemonStep

\* Every step keeps the types.
LEMMA TypeStep == TypeOK /\ [Next]_vars => TypeOK'
<1> SUFFICES ASSUME TypeOK, [Next]_vars PROVE TypeOK'
  OBVIOUS
<1> USE CallAssumption
<1>1. ASSUME NEW t \in Thread, ThreadStep(t) PROVE TypeOK'
  BY <1>1, TypeThread
<1>2. ASSUME NEW t \in Thread, Expire(t) PROVE TypeOK'
  BY <1>2 DEF Expire, TypeOK, ThreadsTyped, DaemonTyped, frames, stream, daemon
<1>3. ASSUME NEW t \in Thread, NEW c \in Call, Submit(t, c) PROVE TypeOK'
  BY <1>3, Zenon DEF Submit, Goto, TypeOK, ThreadsTyped, DaemonTyped, Stage, slot, stream, daemon
<1>4. CASE CancelIpsecWaits
  BY <1>4, Zenon DEF CancelIpsecWaits, InWait, TypeOK, ThreadsTyped, DaemonTyped, frames, stream,
     daemon
<1>5. CASE CloseViciWaits
  BY <1>5, Zenon DEF CloseViciWaits, InWait, TypeOK, ThreadsTyped, DaemonTyped, frames, stream,
     daemon
<1>6. CASE DaemonStep
  BY <1>6, TypeDaemon
<1>7. CASE UNCHANGED vars
  BY <1>7, Zenon DEF TypeOK, ThreadsTyped, DaemonTyped, vars, slot, frames, stream, daemon
<1> QED
  BY <1>1, <1>2, <1>3, <1>4, <1>5, <1>6, <1>7, Zenon DEF Next

\* Every variable of the command path keeps its type, and a thread is in a call
\* exactly while it is inside ExecuteViciCommandUntil.
THEOREM TypeCorrect == Spec => []TypeOK
<1>1. Init => TypeOK
  BY TypeInit
<1>2. TypeOK /\ [Next]_vars => TypeOK'
  BY TypeStep
<1> QED
  BY <1>1, <1>2, PTL DEF Spec

-----------------------------------------------------------------------------
(* The command slot is a lock                                              *)

\* The steps a thread takes between acquiring and releasing the slot.
OwnerStep(t) ==
    \/ ConnectViciTransport(t) \/ ConnectFails(t)
    \/ Register(t) \/ Confirm(t) \/ SendRequest(t)
    \/ ReceiveEvent(t) \/ ReceiveResponse(t) \/ ReceiveOther(t) \/ ReceiveFails(t)
    \/ Unregister(t) \/ Unconfirm(t)

\* Such a step moves its thread from one owning stage to another and touches
\* neither the slot nor the calls.
LEMMA OwnerMoves ==
    ASSUME TypeOK, NEW t \in Thread, OwnerStep(t)
    PROVE  /\ pc[t] \in Owning
           /\ \E s \in Owning : pc' = [pc EXCEPT ![t] = s]
           /\ bActive' = bActive /\ call' = call /\ result' = result
           /\ executed' = executed /\ applied' = applied
<1> ThreadsTyped /\ DaemonTyped
  BY DEF TypeOK
<1> DEFINE Moves == /\ \E s \in Owning : pc' = [pc EXCEPT ![t] = s]
                    /\ bActive' = bActive /\ call' = call /\ result' = result
                    /\ executed' = executed /\ applied' = applied
<1>1. ASSUME NEW e, NEW frame, Fail(t, e, frame) PROVE Moves
  BY <1>1 DEF Fail, Owning, slot, daemon
<1>2. ASSUME NEW s \in Owning, Goto(t, s), UNCHANGED <<slot, call, result, daemon>> PROVE Moves
  BY <1>2, Zenon DEF Goto, slot, daemon
<1>3. CASE ConnectViciTransport(t)
  BY <1>2, <1>3, Zenon DEF ConnectViciTransport, AfterConnect, Owning
<1>4. CASE ConnectFails(t)
  BY <1>1, <1>4 DEF ConnectFails, Owning
<1>5. CASE Register(t)
  BY <1>1, <1>2, <1>5, Zenon DEF Register, Owning
<1>6. CASE Confirm(t)
  BY <1>1, <1>2, <1>6, Zenon DEF Confirm, Owning
<1>7. CASE SendRequest(t)
  BY <1>1, <1>2, <1>7, Zenon DEF SendRequest, Owning
<1>8. CASE ReceiveEvent(t)
  <2>1. CASE UNCHANGED <<slot, frames, result, daemon>>
    <3>1. pc' = [pc EXCEPT ![t] = pc[t]]
      BY <2>1 DEF ThreadsTyped, frames
    <3> QED
      BY <1>8, <2>1, <3>1, Zenon DEF ReceiveEvent, Owning, slot, frames, daemon
  <2> QED
    BY <1>1, <1>8, <2>1, Zenon DEF ReceiveEvent, Owning
<1>9. CASE ReceiveResponse(t)
  BY <1>1, <1>2, <1>9, Zenon DEF ReceiveResponse, Owning
<1>10. CASE ReceiveOther(t)
  BY <1>1, <1>10 DEF ReceiveOther, Owning
<1>11. CASE ReceiveFails(t)
  BY <1>1, <1>11 DEF ReceiveFails, Owning
<1>12. CASE Unregister(t)
  BY <1>1, <1>2, <1>12, Zenon DEF Unregister, Owning
<1>13. CASE Unconfirm(t)
  BY <1>1, <1>2, <1>13, Zenon DEF Unconfirm, Owning
<1> QED
  BY <1>3, <1>4, <1>5, <1>6, <1>7, <1>8, <1>9, <1>10, <1>11, <1>12, <1>13, Zenon DEF OwnerStep

\* Steps outside ExecuteViciCommandUntil leave the threads where they are.
LEMMA OthersStay ==
    ASSUME TypeOK,
           \/ \E t \in Thread : Expire(t)
           \/ CancelIpsecWaits \/ CloseViciWaits \/ DaemonStep \/ UNCHANGED vars
    PROVE  pc' = pc /\ call' = call /\ local' = local /\ result' = result /\ bActive' = bActive
BY Zenon DEF Expire, CancelIpsecWaits, CloseViciWaits, DaemonStep, DaemonRegistration,
   DaemonAccept, DaemonEvent, DaemonRespond, DaemonRestart, DaemonServesOrphan, vars, slot,
   frames

\* Every step keeps the slot exclusive and the calls apart.
LEMMA SlotStep ==
    ASSUME TypeOK, SlotExclusive, CallInv, [Next]_vars
    PROVE  SlotExclusive' /\ CallInv'
<1> ThreadsTyped /\ DaemonTyped
  BY DEF TypeOK
<1> USE CallAssumption
<1>1. ASSUME NEW t \in Thread, OwnerStep(t) PROVE SlotExclusive' /\ CallInv'
  <2>1. PICK s \in Owning : pc' = [pc EXCEPT ![t] = s]
    BY <1>1, OwnerMoves
  <2>2. pc[t] \in Owning /\ bActive' = bActive /\ call' = call /\ result' = result
    BY <1>1, OwnerMoves
  <2>3. SlotExclusive'
    BY <2>1, <2>2 DEF SlotExclusive
  <2> QED
    BY <2>2, <2>3 DEF CallInv
<1>2. ASSUME NEW t \in Thread, AcquireViciCommand(t) PROVE SlotExclusive' /\ CallInv'
  <2>1. /\ ~bActive /\ bActive' = TRUE /\ pc' = [pc EXCEPT ![t] = "CONNECT"]
        /\ call' = call /\ result' = result
    BY <1>2 DEF AcquireViciCommand, Goto
  <2>2. SlotExclusive'
    BY <2>1 DEF SlotExclusive, ThreadsTyped, Owning
  <2> QED
    BY <2>1, <2>2 DEF CallInv
<1>3. ASSUME NEW t \in Thread, AcquireFails(t) PROVE SlotExclusive' /\ CallInv'
  <2>1. /\ pc[t] = "QUEUE" /\ pc' = [pc EXCEPT ![t] = "GIVEUP"]
        /\ bActive' = bActive /\ call' = call /\ result' = result
    BY <1>3 DEF AcquireFails, Goto, slot
  <2>2. SlotExclusive'
    BY <2>1 DEF SlotExclusive, Owning
  <2> QED
    BY <2>1, <2>2 DEF CallInv
<1>4. ASSUME NEW t \in Thread, Release(t) PROVE SlotExclusive' /\ CallInv'
  <2>1. /\ pc[t] \in {"RELEASE", "GIVEUP"} /\ pc' = [pc EXCEPT ![t] = "IDLE"]
        /\ bActive' = (IF pc[t] = "RELEASE" THEN FALSE ELSE bActive)
        /\ call' = [call EXCEPT ![t] = NoCall]
        /\ result' = [result EXCEPT ![call[t]] = OutcomeOf(t)]
    BY <1>4 DEF Release, Goto
  <2>2. SlotExclusive'
    BY <2>1 DEF SlotExclusive, ThreadsTyped, Owning
  <2>3. CallInv'
    BY <2>1 DEF CallInv, ThreadsTyped
  <2> QED
    BY <2>2, <2>3
<1>5. ASSUME NEW t \in Thread, NEW c \in Call, Submit(t, c) PROVE SlotExclusive' /\ CallInv'
  <2>1. /\ pc[t] = "IDLE" /\ pc' = [pc EXCEPT ![t] = "QUEUE"]
        /\ call' = [call EXCEPT ![t] = c] /\ result' = result /\ bActive' = bActive
        /\ result[c] = NoResult /\ \A u \in Thread : call[u] # c
    BY <1>5 DEF Submit, Goto, slot
  <2>2. SlotExclusive'
    BY <2>1 DEF SlotExclusive, Owning
  <2>3. CallInv'
    BY <2>1 DEF CallInv
  <2> QED
    BY <2>2, <2>3
<1>6. CASE \/ \E t \in Thread : Expire(t)
           \/ CancelIpsecWaits \/ CloseViciWaits \/ DaemonStep \/ UNCHANGED vars
  <2>1. pc' = pc /\ call' = call /\ result' = result /\ bActive' = bActive
    BY <1>6, OthersStay
  <2> QED
    BY <2>1 DEF SlotExclusive, CallInv
<1> QED
  BY <1>1, <1>2, <1>3, <1>4, <1>5, <1>6, Zenon DEF Next, ThreadStep, OwnerStep

\* bActive is a lock: at most one thread is between AcquireViciCommand and the
\* release at the end of ExecuteViciCommandUntil, and bActive says whether one is.
THEOREM SlotIsExclusive == Spec => []SlotExclusive
<1>1. Init => SlotExclusive /\ CallInv
  BY DEF Init, SlotExclusive, CallInv, Owning
<1>2. TypeOK /\ SlotExclusive /\ CallInv /\ [Next]_vars => SlotExclusive' /\ CallInv'
  BY SlotStep
<1> QED
  BY <1>1, <1>2, TypeCorrect, PTL DEF Spec

-----------------------------------------------------------------------------
(* The stream                                                              *)


\* Nothing is in flight and the daemon is doing nothing for this stream.
Quiet == toDaemon = <<>> /\ toClient = <<>> /\ serving = NoCall

\* A registration exchange of type for call c: at most one frame is in flight.
Exchanging(type, c) ==
    /\ serving = NoCall
    /\ \/ toClient = <<>> /\ toDaemon = <<>>
       \/ toClient = <<>> /\ toDaemon = <<[type |-> type, call |-> c]>>
       \/ /\ toDaemon = <<>> /\ Len(toClient) = 1 /\ toClient[1].call = c
          /\ toClient[1].type = "CONFIRM" /\ type = "UNREGISTER" => ~listening

\* The request of call c is on its way, or being answered: events first, then
\* one frame that ends the answer.
Answering(c) ==
    \/ toClient = <<>> /\ serving = NoCall /\ toDaemon = <<[type |-> "REQUEST", call |-> c]>>
    \/ /\ toDaemon = <<>>
       /\ serving \in {c, NoCall}
       /\ \A i \in 1..Len(toClient) :
             /\ toClient[i].call = c
             /\ toClient[i].type # "EVENT" => i = Len(toClient) /\ serving = NoCall

\* What the stream may hold, by the stage of a thread that owns the slot.
StageInv(t) ==
    /\ pc[t] \in {"CONNECT", "REGISTER", "RELEASE"} => Quiet /\ ~listening
    /\ pc[t] = "CONFIRM" => Exchanging("REGISTER", call[t])
    /\ pc[t] \in {"SEND", "UNREGISTER"} => Quiet
    /\ pc[t] = "RECEIVE" => Answering(call[t])
    /\ pc[t] = "UNCONFIRM" => Exchanging("UNREGISTER", call[t])
    /\ pc[t] \in {"SEND", "RECEIVE"} /\ listening => local[t].bRegistered

\* The stream is in step with the owner of the slot, and at rest without one.
StreamInv ==
    /\ iSocket = "closed" => Quiet /\ ~listening
    /\ ~bActive => Quiet /\ ~listening
    /\ \A t \in Thread : StageInv(t)

\* A stream with a live daemon end is open.
OpenInv == peerUp => iSocket = "open"

-----------------------------------------------------------------------------
\* Only the owner of the slot has a say in what the stream may hold.
LEMMA OwnerDecides ==
    ASSUME TypeOK', SlotExclusive', NEW t \in Thread, pc'[t] \in Owning,
           iSocket' = "closed" => (Quiet /\ ~listening)', StageInv(t)'
    PROVE  StreamInv'
<1>1. bActive'
  BY DEF SlotExclusive
<1>2. ASSUME NEW u \in Thread, u # t PROVE StageInv(u)'
  <2>1. pc'[u] \notin Owning
    BY <1>2 DEF SlotExclusive
  <2> QED
    BY <2>1 DEF StageInv, Owning
<1> QED
  BY <1>1, <1>2 DEF StreamInv

\* A failed command closes the stream, so it is at rest.
LEMMA FailQuiet ==
    ASSUME TypeOK, TypeOK', SlotExclusive', NEW t \in Thread,
           NEW e, NEW frame, Fail(t, e, frame)
    PROVE  StreamInv'
<1> ThreadsTyped /\ DaemonTyped /\ (ThreadsTyped /\ DaemonTyped)'
  BY DEF TypeOK
<1>1. pc'[t] = "RELEASE" /\ (Quiet /\ ~listening)'
  BY DEF Fail, DisconnectViciTransport, ThreadsTyped, Quiet
<1>2. StageInv(t)'
  BY <1>1 DEF StageInv
<1> QED
  BY <1>1, <1>2, OwnerDecides DEF Owning

\* Writing to an empty stream leaves one frame on it.
LEMMA SendOne ==
    ASSUME TypeOK, NEW t \in Thread, NEW type, SendFrame(t, type), Quiet
    PROVE  /\ toDaemon' = <<[type |-> type, call |-> call[t]]>>
           /\ toClient' = <<>> /\ serving' = NoCall
           /\ iSocket' = iSocket /\ listening' = listening
BY DEF SendFrame, Quiet

\* A sequence of length zero is empty, and a sequence of one element is that
\* element and nothing else.
LEMMA Emptied == ASSUME NEW S, NEW s \in Seq(S), Len(s) = 0 PROVE s = <<>>
  OBVIOUS

LEMMA Single == ASSUME NEW x PROVE Head(<<x>>) = x /\ Tail(<<x>>) = <<>>
  OBVIOUS

\* Taking the only frame leaves none.
LEMMA TakeOne ==
    ASSUME TypeOK, Len(toClient) = 1
    PROVE  Tail(toClient) = <<>> /\ Head(toClient) = toClient[1]
<1> ThreadsTyped /\ DaemonTyped
  BY DEF TypeOK
<1>1. toClient \in Seq(Reply)
  BY DEF DaemonTyped
<1>2. toClient # <<>>
  OBVIOUS
<1>3. Tail(toClient) \in Seq(Reply) /\ Len(Tail(toClient)) = 0
  BY <1>1, <1>2
<1>4. Tail(toClient) = <<>>
  BY <1>3, Emptied, Zenon
<1> QED
  BY <1>4

\* Every step between acquire and release keeps the stream in step.
LEMMA StreamOwner ==
    ASSUME TypeOK, TypeOK', SlotExclusive, SlotExclusive', OpenInv, StreamInv,
           NEW t \in Thread, OwnerStep(t)
    PROVE  StreamInv'
<1> ThreadsTyped /\ DaemonTyped /\ (ThreadsTyped /\ DaemonTyped)'
  BY DEF TypeOK
<1> USE CallAssumption
<1>0. StageInv(t) /\ call' = call /\ pc[t] \in Owning /\ pc'[t] \in Owning
  <2>1. StageInv(t) /\ call' = call /\ pc[t] \in Owning
    BY OwnerMoves DEF StreamInv
  <2>2. PICK s \in Owning : pc' = [pc EXCEPT ![t] = s]
    BY OwnerMoves
  <2> QED
    BY <2>1, <2>2
<1>1. CASE ConnectViciTransport(t)
  <2>1. (Quiet /\ ~listening)'
    BY <1>0, <1>1 DEF ConnectViciTransport, StageInv, Quiet, stream
  <2>2. StageInv(t)'
    BY <1>1, <2>1 DEF ConnectViciTransport, AfterConnect, Goto, StageInv
  <2> QED
    BY <1>0, <2>1, <2>2, OwnerDecides, Zenon
<1>2. CASE ConnectFails(t)
  BY <1>2, FailQuiet DEF ConnectFails
<1>3. CASE Register(t)
  <2>1. CASE SendFrame(t, "REGISTER") /\ Goto(t, "CONFIRM")
    <3>1. Quiet /\ pc'[t] = "CONFIRM"
      BY <1>0, <1>3, <2>1, Zenon DEF Register, StageInv, Goto, ThreadsTyped
    <3>2. Exchanging("REGISTER", call[t])' /\ iSocket' = iSocket /\ peerUp
      BY <1>0, <2>1, <3>1, SendOne, Zenon DEF Exchanging, SendFrame
    <3>3. StageInv(t)'
      BY <3>1, <3>2 DEF StageInv
    <3> QED
      BY <1>0, <3>2, <3>3, OwnerDecides, Zenon DEF OpenInv
  <2> QED
    BY <1>3, <2>1, FailQuiet, Zenon DEF Register
<1>4. CASE Confirm(t)
  <2>1. CASE /\ TakeFrame(t)
             /\ local' = [local EXCEPT ![t].bRegistered = TRUE]
             /\ Goto(t, "SEND")
    <3>1. pc'[t] = "SEND" /\ local'[t].bRegistered
      BY <2>1 DEF Goto, ThreadsTyped
    <3>2. Len(toClient) = 1 /\ toDaemon = <<>> /\ serving = NoCall
      BY <1>0, <1>4, <2>1, Zenon DEF Confirm, StageInv, Exchanging, TakeFrame
    <3>3. Quiet' /\ iSocket' = iSocket /\ toClient # <<>>
      BY <2>1, <3>2, TakeOne, Zenon DEF TakeFrame, Quiet
    <3>4. StageInv(t)'
      BY <3>1, <3>3 DEF StageInv
    <3> QED
      BY <1>0, <3>3, <3>4, OwnerDecides, Zenon DEF StreamInv, Quiet
  <2> QED
    BY <1>4, <2>1, FailQuiet, Zenon DEF Confirm
<1>5. CASE SendRequest(t)
  <2>1. CASE /\ SendFrame(t, "REQUEST")
             /\ local' = [local EXCEPT ![t] = [local[t] EXCEPT !.bSendAttempted = TRUE]]
             /\ Goto(t, "RECEIVE")
    <3>1. Quiet /\ pc'[t] = "RECEIVE" /\ local'[t].bRegistered = local[t].bRegistered
      BY <1>0, <1>5, <2>1 DEF SendRequest, StageInv, Goto, ThreadsTyped
    <3>2. Answering(call[t])' /\ iSocket' = iSocket /\ peerUp /\ listening' = listening
      BY <1>0, <2>1, <3>1, SendOne, Zenon DEF Answering, SendFrame
    <3>3. StageInv(t)'
      BY <1>0, <1>5, <3>1, <3>2, Zenon DEF StageInv, SendRequest
    <3> QED
      BY <1>0, <3>2, <3>3, OwnerDecides, Zenon DEF OpenInv
  <2> QED
    BY <1>5, <2>1, FailQuiet, Zenon DEF SendRequest
<1>6. CASE ReceiveEvent(t)
  <2>1. CASE TakeFrame(t) /\ UNCHANGED <<slot, frames, result, daemon>>
    <3>1. Answering(call[t]) /\ toClient \in Seq(Reply) /\ toClient # <<>>
      BY <1>0, <1>6, Zenon DEF ReceiveEvent, StageInv, DaemonTyped
    <3>2. /\ Len(toClient') = Len(toClient) - 1
          /\ \A i \in 1..Len(toClient') : toClient'[i] = toClient[i + 1] /\ i + 1 \in 1..Len(toClient)
      BY <2>1 DEF TakeFrame
    <3>3. toDaemon' = toDaemon /\ serving' = serving /\ iSocket' = iSocket /\ listening' = listening
      BY <2>1 DEF TakeFrame
    <3>4. Answering(call[t])'
      BY <1>0, <3>1, <3>2, <3>3 DEF Answering
    <3>5. StageInv(t)'
      BY <1>0, <1>6, <2>1, <3>3, <3>4, Zenon DEF StageInv, ReceiveEvent, frames
    <3>6. iSocket' # "closed"
      BY <3>1, <3>3 DEF StreamInv, Quiet
    <3> QED
      BY <1>0, <3>5, <3>6, OwnerDecides, Zenon
  <2> QED
    BY <1>6, <2>1, FailQuiet, Zenon DEF ReceiveEvent
<1>7. CASE ReceiveResponse(t)
  <2>1. CASE /\ TakeFrame(t)
             /\ Goto(t, IF local[t].bRegistered THEN "UNREGISTER" ELSE "RELEASE")
    <3>1. Answering(call[t]) /\ toClient \in Seq(Reply) /\ toClient # <<>>
      BY <1>0, <1>7, Zenon DEF ReceiveResponse, StageInv, DaemonTyped
    <3>2. Len(toClient) \in Nat /\ Len(toClient) > 0 /\ toClient[1].type = "RESPONSE"
      BY <1>7 DEF ReceiveResponse
    <3>3. Len(toClient) = 1 /\ toDaemon = <<>> /\ serving = NoCall
      <4>1. 1 \in 1..Len(toClient) /\ toClient[1].type # "EVENT"
        BY <3>2
      <4>2. /\ toDaemon = <<>>
            /\ \A i \in 1..Len(toClient) :
                  toClient[i].type # "EVENT" => i = Len(toClient) /\ serving = NoCall
        BY <3>1 DEF Answering
      <4> QED
        BY <4>1, <4>2, Zenon
    <3>4. Quiet' /\ iSocket' = iSocket /\ listening' = listening
      BY <2>1, <3>3, TakeOne, Zenon DEF TakeFrame, Quiet
    <3>5. StageInv(t)'
      BY <1>0, <1>7, <2>1, <3>4, Zenon DEF StageInv, ReceiveResponse, Goto, ThreadsTyped
    <3> QED
      BY <1>0, <3>4, <3>5, OwnerDecides, Zenon DEF StreamInv
  <2> QED
    BY <1>7, <2>1, FailQuiet, Zenon DEF ReceiveResponse
<1>8. CASE ReceiveOther(t)
  BY <1>8, FailQuiet DEF ReceiveOther
<1>9. CASE ReceiveFails(t)
  BY <1>9, FailQuiet DEF ReceiveFails
<1>10. CASE Unregister(t)
  <2>1. CASE SendFrame(t, "UNREGISTER") /\ Goto(t, "UNCONFIRM")
    <3>1. Quiet /\ pc'[t] = "UNCONFIRM"
      BY <1>0, <1>10, <2>1, Zenon DEF Unregister, StageInv, Goto, ThreadsTyped
    <3>2. Exchanging("UNREGISTER", call[t])' /\ iSocket' = iSocket /\ peerUp
      BY <1>0, <2>1, <3>1, SendOne, Zenon DEF Exchanging, SendFrame
    <3>3. StageInv(t)'
      BY <3>1, <3>2 DEF StageInv
    <3> QED
      BY <1>0, <3>2, <3>3, OwnerDecides, Zenon DEF OpenInv
  <2> QED
    BY <1>10, <2>1, FailQuiet, Zenon DEF Unregister
<1>11. CASE Unconfirm(t)
  <2>1. CASE TakeFrame(t) /\ RegistrationError = "OK" /\ Goto(t, "RELEASE")
    <3>1. pc'[t] = "RELEASE"
      BY <2>1, Zenon DEF Goto, ThreadsTyped
    <3>2. Len(toClient) = 1 /\ toDaemon = <<>> /\ serving = NoCall
          /\ (toClient[1].type = "CONFIRM" => ~listening)
      BY <1>0, <1>11, <2>1, Zenon DEF Unconfirm, StageInv, Exchanging, TakeFrame
    <3>3. (Quiet /\ ~listening)' /\ iSocket' = iSocket
      BY <2>1, <3>2, TakeOne, Zenon DEF TakeFrame, Quiet, RegistrationError
    <3>4. StageInv(t)'
      BY <3>1, <3>3 DEF StageInv
    <3> QED
      BY <1>0, <3>3, <3>4, OwnerDecides, Zenon
  <2> QED
    BY <1>11, <2>1, FailQuiet, Zenon DEF Unconfirm
<1> QED
  BY <1>1, <1>2, <1>3, <1>4, <1>5, <1>6, <1>7, <1>8, <1>9, <1>10, <1>11, Zenon DEF OwnerStep

\* While the stream is not at rest some thread owns the slot, and a request or an
\* answer on it belongs to that thread's call.
LEMMA BusyOwner ==
    ASSUME TypeOK, SlotExclusive, StreamInv, ~Quiet
    PROVE  \E t \in Thread :
              /\ pc[t] \in {"CONFIRM", "RECEIVE", "UNCONFIRM"}
              /\ StageInv(t) /\ iSocket = "open"
<1> ThreadsTyped /\ DaemonTyped
  BY DEF TypeOK
<1>1. bActive /\ iSocket = "open"
  BY DEF StreamInv, DaemonTyped
<1>2. PICK t \in Thread : pc[t] \in Owning
  BY <1>1 DEF SlotExclusive
<1>3. StageInv(t)
  BY DEF StreamInv
<1> QED
  BY <1>1, <1>2, <1>3, Zenon DEF StageInv, Owning

\* Every step of the daemon keeps the stream in step.
LEMMA StreamDaemon ==
    ASSUME TypeOK, SlotExclusive, StreamInv, DaemonStep
    PROVE  StreamInv'
<1> ThreadsTyped /\ DaemonTyped
  BY DEF TypeOK
<1> USE CallAssumption
<1>0. /\ pc' = pc /\ call' = call /\ local' = local /\ bActive' = bActive
      /\ TypeOK' /\ SlotExclusive'
  <2>1. pc' = pc /\ call' = call /\ local' = local /\ bActive' = bActive
    BY OthersStay
  <2> QED
    BY <2>1, TypeDaemon DEF SlotExclusive
<1>1. CASE DaemonRegistration
  <2>1. PICK t \in Thread : /\ pc[t] \in {"CONFIRM", "RECEIVE", "UNCONFIRM"}
                            /\ StageInv(t) /\ iSocket = "open"
    BY <1>1, BusyOwner, Zenon DEF DaemonRegistration, Quiet
  <2>2. pc[t] # "RECEIVE"
    BY <1>1, <2>1 DEF DaemonRegistration, StageInv, Answering
  <2>3. /\ toClient = <<>> /\ serving = NoCall
        /\ \/ pc[t] = "CONFIRM" /\ toDaemon = <<[type |-> "REGISTER", call |-> call[t]]>>
           \/ pc[t] = "UNCONFIRM" /\ toDaemon = <<[type |-> "UNREGISTER", call |-> call[t]]>>
    BY <1>1, <2>1, <2>2, Zenon DEF DaemonRegistration, StageInv, Exchanging
  <2>4. Head(toDaemon).call = call[t] /\ toDaemon' = <<>> /\ serving' = NoCall /\ iSocket' = "open"
    <3>1. Head(toDaemon).call = call[t]
      BY <2>3, Single
    <3>2. Tail(toDaemon) = <<>>
      BY <2>3, Single, Zenon
    <3> QED
      BY <1>1, <2>3, <3>1, <3>2, Zenon DEF DaemonRegistration
  <2>5. PICK type : /\ toClient' = <<[type |-> type, call |-> call[t], success |-> "absent"]>>
                    /\ type = "CONFIRM" => listening' = (Head(toDaemon).type = "REGISTER")
    BY <1>1, <2>3 DEF DaemonRegistration, Answer
  <2>6. Len(toClient') = 1 /\ toClient'[1].call = call[t] /\ toClient'[1].type = type
    BY <2>5
  <2>7. StageInv(t)'
    <3>1. CASE pc[t] = "CONFIRM"
      <4>1. Exchanging("REGISTER", call[t])'
        BY <1>0, <2>4, <2>6, Zenon DEF Exchanging
      <4> QED
        BY <1>0, <3>1, <4>1, Zenon DEF StageInv
    <3>2. CASE pc[t] = "UNCONFIRM"
      <4>1. Head(toDaemon).type = "UNREGISTER"
        BY <2>3, <3>2
      <4>2. toClient'[1].type = "CONFIRM" => ~listening'
        BY <2>5, <4>1, Zenon
      <4>3. Exchanging("UNREGISTER", call[t])'
        BY <1>0, <2>4, <2>6, <4>2, Zenon DEF Exchanging
      <4> QED
        BY <1>0, <3>2, <4>3, Zenon DEF StageInv
    <3> QED
      BY <2>3, <3>1, <3>2, Zenon
  <2> QED
    BY <1>0, <2>1, <2>4, <2>7, OwnerDecides, Zenon DEF Owning
<1>2. CASE DaemonAccept
  <2>1. PICK t \in Thread : /\ pc[t] \in {"CONFIRM", "RECEIVE", "UNCONFIRM"}
                            /\ StageInv(t) /\ iSocket = "open"
    BY <1>2, BusyOwner, Zenon DEF DaemonAccept, Quiet
  <2>2. pc[t] = "RECEIVE"
    BY <1>2, <2>1 DEF DaemonAccept, StageInv, Exchanging
  <2>3. /\ toClient = <<>> /\ serving = NoCall
        /\ toDaemon = <<[type |-> "REQUEST", call |-> call[t]]>>
    BY <1>2, <2>1, <2>2, Zenon DEF DaemonAccept, StageInv, Answering
  <2>4. /\ Head(toDaemon).call = call[t] /\ toDaemon' = <<>> /\ iSocket' = "open"
        /\ listening' = listening
    BY <1>2, <2>3 DEF DaemonAccept
  <2>5. Answering(call[t])'
    <3>1. CASE serving' = call[t] /\ toClient' = toClient
      BY <1>0, <2>3, <2>4, <3>1 DEF Answering
    <3>2. CASE /\ serving' = serving
               /\ \E type \in {"COMMAND_UNKNOWN", "CONFIRM"} :
                     toClient' = Answer(type, call[t], "absent")
      <4>1. PICK type \in {"COMMAND_UNKNOWN", "CONFIRM"} :
               toClient' = Append(<<>>, [type |-> type, call |-> call[t], success |-> "absent"])
        BY <2>3, <3>2 DEF Answer
      <4>2. Len(toClient') = 1 /\ toClient'[1].call = call[t]
        BY <4>1
      <4>3. \A i \in 1..Len(toClient') : i = 1
        BY <4>2
      <4>4. serving' = NoCall
        BY <2>3, <3>2
      <4> QED
        BY <1>0, <2>4, <4>2, <4>4 DEF Answering
    <3> QED
      BY <1>2, <2>4, <3>1, <3>2, Zenon DEF DaemonAccept
  <2>6. StageInv(t)'
    BY <1>0, <2>1, <2>2, <2>4, <2>5, Zenon DEF StageInv
  <2> QED
    BY <1>0, <2>2, <2>4, <2>6, OwnerDecides, Zenon DEF Owning
<1>3. CASE DaemonEvent \/ DaemonRespond
  <2>1. serving # NoCall
    BY <1>3 DEF DaemonEvent, DaemonRespond
  <2>2. PICK t \in Thread : /\ pc[t] \in {"CONFIRM", "RECEIVE", "UNCONFIRM"}
                            /\ StageInv(t) /\ iSocket = "open"
    BY <2>1, BusyOwner DEF Quiet
  <2>3. pc[t] = "RECEIVE"
    BY <2>1, <2>2, Zenon DEF StageInv, Exchanging
  <2>4. /\ toDaemon = <<>> /\ serving = call[t]
        /\ \A i \in 1..Len(toClient) : toClient[i].call = call[t] /\ toClient[i].type = "EVENT"
    BY <2>1, <2>2, <2>3, Zenon DEF StageInv, Answering
  <2>5. PICK type, success :
          /\ toClient' = Append(toClient, [type |-> type, call |-> call[t], success |-> success])
          /\ type # "EVENT" => serving' = NoCall
          /\ serving' \in {serving, NoCall}
    <3>1. CASE DaemonEvent
      BY <2>4, <3>1, Zenon DEF DaemonEvent, Answer
    <3>2. CASE DaemonRespond
      BY <2>4, <3>2, Zenon DEF DaemonRespond, Answer
    <3> QED
      BY <1>3, <3>1, <3>2, Zenon
  <2>6. toDaemon' = toDaemon /\ iSocket' = iSocket /\ listening' = listening
    BY <1>3 DEF DaemonEvent, DaemonRespond
  <2>7. toClient \in Seq(Reply)
    BY DEF DaemonTyped
  <2>8. /\ Len(toClient') = Len(toClient) + 1
        /\ toClient'[Len(toClient) + 1].call = call[t]
        /\ toClient'[Len(toClient) + 1].type = type
        /\ \A i \in 1..Len(toClient) : toClient'[i] = toClient[i]
    BY <2>5
  <2>9. Len(toClient) \in Nat
    OBVIOUS
  <2>10. \A i \in 1..Len(toClient') :
            /\ toClient'[i].call = call[t]
            /\ toClient'[i].type # "EVENT" => i = Len(toClient') /\ serving' = NoCall
    BY <2>4, <2>5
  <2>11. Answering(call[t])'
    BY <1>0, <2>4, <2>5, <2>6 DEF Answering
  <2>12. StageInv(t)'
    BY <1>0, <2>2, <2>3, <2>6, <2>11, Zenon DEF StageInv
  <2> QED
    BY <1>0, <2>2, <2>6, <2>12, OwnerDecides, Zenon DEF Owning
<1>4. CASE DaemonRestart
  <2>1. /\ serving' = NoCall /\ toDaemon' = <<>> /\ ~listening'
        /\ toClient' = toClient /\ iSocket' = iSocket
    BY <1>4 DEF DaemonRestart
  <2>2. ASSUME NEW t \in Thread PROVE StageInv(t)'
    <3>1. StageInv(t)
      BY DEF StreamInv
    <3>2. Quiet => Quiet'
      BY <2>1 DEF Quiet
    <3>3. \A type : Exchanging(type, call[t]) => Exchanging(type, call[t])'
      BY <1>0, <2>1, Zenon DEF Exchanging
    <3>4. Answering(call[t]) => Answering(call[t])'
      BY <1>0, <2>1 DEF Answering
    <3> QED
      BY <1>0, <2>1, <3>1, <3>2, <3>3, <3>4, Zenon DEF StageInv
  <2> QED
    BY <1>0, <2>1, <2>2 DEF StreamInv, Quiet
<1>5. CASE \E c \in Call : DaemonServesOrphan(c)
  BY <1>0, <1>5, SMTT(30) DEF DaemonServesOrphan, StreamInv, StageInv, Quiet, Exchanging, Answering
<1> QED
  BY <1>1, <1>2, <1>3, <1>4, <1>5 DEF DaemonStep

\* The daemon's end is only up on a stream the library holds open.
LEMMA OpenStep ==
    ASSUME TypeOK, OpenInv, [Next]_vars
    PROVE  OpenInv'
<1> DEFINE Keeps == \/ iSocket' = iSocket /\ peerUp' = peerUp
                    \/ peerUp' = FALSE
                    \/ iSocket' = "open"
<1>0. Keeps => OpenInv'
  BY Zenon DEF OpenInv
<1>1. ASSUME NEW t, NEW e, NEW frame, Fail(t, e, frame) PROVE Keeps
  BY <1>1 DEF Fail, DisconnectViciTransport
<1>2. ASSUME NEW t, NEW type, SendFrame(t, type) \/ TakeFrame(t) PROVE Keeps
  BY <1>2 DEF SendFrame, TakeFrame
<1>3. ASSUME UNCHANGED stream PROVE Keeps
  BY <1>3 DEF stream
<1>4. ASSUME NEW t \in Thread, OwnerStep(t) PROVE Keeps
  <2>1. CASE ConnectViciTransport(t)
    BY <1>3, <2>1, Zenon DEF ConnectViciTransport
  <2>2. CASE ConnectFails(t) \/ ReceiveOther(t) \/ ReceiveFails(t)
    BY <1>1, <2>2, Zenon DEF ConnectFails, ReceiveOther, ReceiveFails
  <2>3. CASE Register(t) \/ SendRequest(t) \/ Unregister(t)
    BY <1>1, <1>2, <2>3, Zenon DEF Register, SendRequest, Unregister
  <2>4. CASE Confirm(t) \/ ReceiveEvent(t) \/ ReceiveResponse(t) \/ Unconfirm(t)
    BY <1>1, <1>2, <2>4, Zenon DEF Confirm, ReceiveEvent, ReceiveResponse, Unconfirm
  <2> QED
    BY <1>4, <2>1, <2>2, <2>3, <2>4, Zenon DEF OwnerStep
<1>5. ASSUME NEW t \in Thread, AcquireViciCommand(t) \/ AcquireFails(t) \/ Release(t) \/ Expire(t)
      PROVE  Keeps
  BY <1>3, <1>5, Zenon DEF AcquireViciCommand, AcquireFails, Release, Expire
<1>6. ASSUME NEW t \in Thread, NEW c \in Call, Submit(t, c) PROVE Keeps
  BY <1>3, <1>6, Zenon DEF Submit
<1>7. CASE CancelIpsecWaits \/ CloseViciWaits \/ UNCHANGED vars
  BY <1>0, <1>3, <1>7, ZenonT(60) DEF CancelIpsecWaits, CloseViciWaits, vars
<1>8. ASSUME DaemonStep PROVE Keeps
  BY <1>8, Zenon DEF DaemonStep, DaemonRegistration, DaemonAccept, DaemonEvent, DaemonRespond,
     DaemonRestart, DaemonServesOrphan
<1> HIDE DEF Keeps
<1> QED
  BY <1>0, <1>4, <1>5, <1>6, <1>7, <1>8, Zenon DEF Next, ThreadStep, OwnerStep

\* A step that leaves the stream alone and takes no thread into an owning stage
\* keeps the stream in step, provided a released slot leaves it at rest.
LEMMA StreamUntouched ==
    ASSUME TypeOK, StreamInv, UNCHANGED stream,
           bActive' \/ ~bActive \/ (Quiet /\ ~listening),
           \A u \in Thread : \/ pc'[u] = pc[u] /\ call'[u] = call[u] /\ local'[u] = local[u]
                             \/ pc'[u] \notin Owning
                             \/ pc'[u] = "CONNECT" /\ Quiet /\ ~listening
    PROVE  StreamInv'
<1>1. /\ Quiet' <=> Quiet
      /\ listening' = listening /\ iSocket' = iSocket
      /\ serving' = serving /\ toClient' = toClient /\ toDaemon' = toDaemon
  BY DEF Quiet, stream
<1>2. ASSUME NEW u \in Thread PROVE StageInv(u)'
  <2>1. StageInv(u)
    BY DEF StreamInv
  <2>2. CASE pc'[u] = pc[u] /\ call'[u] = call[u] /\ local'[u] = local[u]
    BY <1>1, <2>1, <2>2, Zenon DEF StageInv, Exchanging, Answering
  <2>3. CASE pc'[u] \notin Owning
    BY <2>3 DEF StageInv, Owning
  <2>4. CASE pc'[u] = "CONNECT" /\ Quiet /\ ~listening
    BY <1>1, <2>4 DEF StageInv
  <2> QED
    BY <2>2, <2>3, <2>4
<1> QED
  BY <1>1, <1>2 DEF StreamInv

\* Every step keeps the stream in step with the owner of the slot.
LEMMA StreamStep ==
    ASSUME TypeOK, TypeOK', SlotExclusive, SlotExclusive', OpenInv, StreamInv, [Next]_vars
    PROVE  StreamInv'
<1> ThreadsTyped /\ DaemonTyped /\ (ThreadsTyped /\ DaemonTyped)'
  BY DEF TypeOK
<1>1. ASSUME NEW t \in Thread, OwnerStep(t) PROVE StreamInv'
  BY <1>1, StreamOwner
<1>2. ASSUME NEW t \in Thread, AcquireViciCommand(t) PROVE StreamInv'
  <2>1. Quiet /\ ~listening
    BY <1>2 DEF AcquireViciCommand, StreamInv
  <2>2. \A u \in Thread : u = t \/ (pc'[u] = pc[u] /\ call'[u] = call[u] /\ local'[u] = local[u])
    BY <1>2 DEF AcquireViciCommand, Goto
  <2>3. pc'[t] = "CONNECT"
    BY <1>2, Zenon DEF AcquireViciCommand, Goto, ThreadsTyped
  <2>4. UNCHANGED stream /\ bActive'
    BY <1>2 DEF AcquireViciCommand
  <2> QED
    BY <2>1, <2>2, <2>3, <2>4, StreamUntouched, Zenon
<1>3. ASSUME NEW t \in Thread, AcquireFails(t) PROVE StreamInv'
  <2>1. \A u \in Thread : u = t \/ (pc'[u] = pc[u] /\ call'[u] = call[u] /\ local'[u] = local[u])
    BY <1>3 DEF AcquireFails, Goto
  <2>2. pc'[t] \notin Owning /\ UNCHANGED stream /\ bActive' = bActive
    BY <1>3 DEF AcquireFails, Goto, Owning, slot
  <2>3. bActive' \/ ~bActive
    BY <2>2
  <2> QED
    BY <2>1, <2>2, StreamUntouched, Zenon
<1>4. ASSUME NEW t \in Thread, Release(t) PROVE StreamInv'
  <2>1. \A u \in Thread : u = t \/ (pc'[u] = pc[u] /\ call'[u] = call[u] /\ local'[u] = local[u])
    BY <1>4 DEF Release, Goto
  <2>2. pc'[t] \notin Owning /\ UNCHANGED stream
    BY <1>4, Zenon DEF Release, ThreadsTyped, Owning
  <2>3. bActive' \/ ~bActive \/ (Quiet /\ ~listening)
    BY <1>4, Zenon DEF Release, StreamInv, StageInv
  <2> QED
    BY <2>1, <2>2, <2>3, StreamUntouched, Zenon
<1>5. ASSUME NEW t \in Thread, NEW c \in Call, Submit(t, c) PROVE StreamInv'
  <2>1. \A u \in Thread : u = t \/ (pc'[u] = pc[u] /\ call'[u] = call[u] /\ local'[u] = local[u])
    BY <1>5 DEF Submit, Goto
  <2>2. pc'[t] \notin Owning /\ UNCHANGED stream /\ bActive' = bActive
    BY <1>5 DEF Submit, Goto, Owning, slot
  <2>3. bActive' \/ ~bActive
    BY <2>2
  <2> QED
    BY <2>1, <2>2, StreamUntouched, Zenon
<1>6. CASE (\E t \in Thread : Expire(t)) \/ CancelIpsecWaits \/ CloseViciWaits \/ UNCHANGED vars
  <2>1. pc' = pc /\ call' = call /\ local' = local /\ bActive' = bActive
    BY <1>6, OthersStay
  <2>2. UNCHANGED stream
    BY <1>6 DEF Expire, CancelIpsecWaits, CloseViciWaits, vars
  <2>3. bActive' \/ ~bActive
    BY <2>1
  <2> QED
    BY <2>1, <2>2, StreamUntouched
<1>7. CASE DaemonStep
  BY <1>7, StreamDaemon
<1> QED
  BY <1>1, <1>2, <1>3, <1>4, <1>5, <1>6, <1>7, Zenon DEF Next, ThreadStep, OwnerStep

\* What the stream holds always fits the stage of the command that uses it,
\* whatever frames the daemon sends and however commands fail.
THEOREM StreamInStep == Spec => [](StreamInv /\ OpenInv)
<1>1. Init => StreamInv /\ OpenInv
  <2> SUFFICES ASSUME Init PROVE StreamInv /\ OpenInv
    OBVIOUS
  <2>1. Quiet /\ ~listening /\ OpenInv
    BY DEF Init, Quiet, OpenInv
  <2>2. \A t \in Thread : pc[t] = "IDLE"
    BY DEF Init
  <2> QED
    BY <2>1, <2>2 DEF StreamInv, StageInv
<1>2. TypeOK /\ TypeOK' /\ SlotExclusive /\ SlotExclusive' /\ StreamInv /\ OpenInv /\ [Next]_vars
        => StreamInv' /\ OpenInv'
  BY StreamStep, OpenStep
<1> QED
  BY <1>1, <1>2, TypeCorrect, SlotIsExclusive, PTL DEF Spec

\* "Never send unregister or a new command on a stream of unknown position"
\* (vici_client.c:357): a stream kept open between commands is at a frame boundary.
THEOREM StreamCleanWhenIdle == Spec => []IdleStreamClean
<1>1. StreamInv => IdleStreamClean
  BY DEF StreamInv, IdleStreamClean, Quiet
<1> QED
  BY <1>1, StreamInStep, PTL

\* ReceiveViciCommandStream never reads a frame that answers another call.
THEOREM AnswersAreOwn == Spec => []OwnAnswer
<1>1. TypeOK /\ StreamInv => OwnAnswer
  <2> SUFFICES ASSUME TypeOK, StreamInv, NEW t \in Thread, pc[t] \in Owning
               PROVE  \A i \in DOMAIN toClient : toClient[i].call = call[t]
    BY DEF OwnAnswer
  <2>1. toClient \in Seq(Reply) /\ StageInv(t)
    BY DEF TypeOK, DaemonTyped, StreamInv
  <2>2. DOMAIN toClient = 1..Len(toClient)
    OBVIOUS
  <2>3. CASE Quiet
    BY <2>3 DEF Quiet
  <2>4. CASE \E type : Exchanging(type, call[t])
    <3>1. Len(toClient) = 0 \/ (Len(toClient) = 1 /\ toClient[1].call = call[t])
      BY <2>4 DEF Exchanging
    <3> QED
      BY <3>1
  <2>5. CASE Answering(call[t])
    <3>1. Len(toClient) = 0 \/ \A i \in 1..Len(toClient) : toClient[i].call = call[t]
      BY <2>5 DEF Answering
    <3> QED
      BY <3>1
  <2> QED
    BY <2>1, <2>3, <2>4, <2>5, Zenon DEF StageInv, Owning
<1> QED
  BY <1>1, TypeCorrect, StreamInStep, PTL
-----------------------------------------------------------------------------
(* A call is run at most once                                              *)

\* The stages before the request is written.
Before == {"QUEUE", "CONNECT", "REGISTER", "CONFIRM", "SEND"}

\* A call that is not sent yet is neither run nor abandoned on a closed stream,
\* and of a call that is sent the daemon holds one copy or has run it.
OnceInv ==
    \A c \in Call :
        /\ executed[c] \in {0, 1}
        /\ c \in orphans => executed[c] = 0
        /\ c \in Unread => executed[c] = 0 /\ c \notin orphans
        /\ (result[c] = NoResult /\ \A t \in Thread : call[t] # c) =>
              executed[c] = 0 /\ c \notin orphans
        /\ \A t \in Thread : call[t] = c /\ pc[t] \in Before =>
              executed[c] = 0 /\ c \notin orphans

-----------------------------------------------------------------------------
\* The unread requests of a stream in step: none, or the owner's own.
LEMMA UnreadIsOwn ==
    ASSUME TypeOK, SlotExclusive, StreamInv, NEW c \in Unread
    PROVE  \E t \in Thread : pc[t] = "RECEIVE" /\ call[t] = c
<1>1. PICK i \in DOMAIN toDaemon : toDaemon[i].type = "REQUEST" /\ toDaemon[i].call = c
  BY DEF Unread
<1>2. toDaemon # <<>> /\ ~Quiet
  BY DEF Quiet
<1>3. PICK t \in Thread : pc[t] \in {"CONFIRM", "RECEIVE", "UNCONFIRM"} /\ StageInv(t)
  BY <1>2, BusyOwner
<1>4. CASE pc[t] \in {"CONFIRM", "UNCONFIRM"}
  <2>1. PICK type \in {"REGISTER", "UNREGISTER"} : toDaemon = <<[type |-> type, call |-> call[t]]>>
    BY <1>3, <1>4 DEF StageInv, Exchanging
  <2>2. toDaemon[i].type # "REQUEST"
    BY <2>1
  <2> QED
    BY <1>1, <2>2
<1>5. CASE pc[t] = "RECEIVE"
  <2>1. toDaemon = <<[type |-> "REQUEST", call |-> call[t]]>>
    BY <1>3, <1>5 DEF StageInv, Answering
  <2>2. toDaemon[i].call = call[t]
    BY <2>1
  <2> QED
    BY <1>1, <1>5, <2>2
<1> QED
  BY <1>3, <1>4, <1>5

\* The request the daemon reads is the owner's.
LEMMA AcceptOwn ==
    ASSUME TypeOK, SlotExclusive, StreamInv, DaemonAccept, NEW c, c = Head(toDaemon).call
    PROVE  /\ c \in Call /\ c \in Unread
           /\ \E t \in Thread : pc[t] = "RECEIVE" /\ call[t] = c
<1> ThreadsTyped /\ DaemonTyped
  BY DEF TypeOK
<1>1. toDaemon \in Seq(Request) /\ toDaemon # <<>> /\ Head(toDaemon).type = "REQUEST"
  BY DEF DaemonAccept, DaemonTyped
<1>2. Head(toDaemon) = toDaemon[1] /\ Len(toDaemon) \in Nat \ {0} /\ Head(toDaemon) \in Request
  BY <1>1
<1>3. c \in Call /\ c \in Unread
  BY <1>1, <1>2 DEF Request, Unread
<1> QED
  BY <1>3, UnreadIsOwn

\* A failed command abandons its own request at most.
LEMMA OnceFail ==
    ASSUME TypeOK, TypeOK', SlotExclusive, CallInv, StreamInv, OnceInv, NEW t \in Thread, pc[t] \in Owning,
           NEW e, NEW frame, Fail(t, e, frame)
    PROVE  OnceInv'
<1> ThreadsTyped /\ DaemonTyped /\ (ThreadsTyped /\ DaemonTyped)'
  BY DEF TypeOK
<1>1. /\ executed' = executed /\ call' = call /\ result' = result
      /\ toDaemon' = <<>> /\ orphans' = orphans \cup Unread
      /\ pc' = [pc EXCEPT ![t] = "RELEASE"]
  BY DEF Fail, DisconnectViciTransport, daemon
<1>2. Unread' = {}
  BY <1>1 DEF Unread
<1>3. ASSUME NEW c \in Unread
      PROVE  call[t] = c /\ executed[c] = 0
  <2>1. PICK u \in Thread : pc[u] = "RECEIVE" /\ call[u] = c
    BY UnreadIsOwn
  <2>2. u = t
    BY <2>1 DEF SlotExclusive, Owning
  <2>3. c \in Call
    BY <2>1, Zenon DEF ThreadsTyped
  <2> QED
    BY <2>1, <2>2, <2>3, Zenon DEF OnceInv
<1>4. ASSUME NEW c \in Call, c \in Unread, NEW u \in Thread, call[u] = c PROVE u = t
  <2>1. call[t] = c /\ call[t] # NoCall
    BY <1>3, <1>4, CallAssumption
  <2> QED
    BY <1>4, <2>1 DEF CallInv
<1>5. pc'[t] \notin Before /\ \A u \in Thread : u # t => pc'[u] = pc[u]
  BY <1>1, Zenon DEF Before, ThreadsTyped
<1> SUFFICES ASSUME NEW c \in Call
             PROVE  /\ executed'[c] \in {0, 1}
                    /\ c \in orphans' => executed'[c] = 0
                    /\ (result'[c] = NoResult /\ \A u \in Thread : call'[u] # c) =>
                          executed'[c] = 0 /\ c \notin orphans'
                    /\ \A u \in Thread : call'[u] = c /\ pc'[u] \in Before =>
                          executed'[c] = 0 /\ c \notin orphans'
  BY <1>2, Zenon DEF OnceInv
<1>6. CASE c \in Unread
  BY <1>1, <1>3, <1>4, <1>5 DEF OnceInv
<1>7. CASE c \notin Unread
  BY <1>1, <1>5, <1>7 DEF OnceInv
<1> QED
  BY <1>6, <1>7, Zenon

\* Steps that run nothing, abandon nothing and send no request.
LEMMA OnceFrame ==
    ASSUME OnceInv, executed' = executed, orphans' \subseteq orphans, Unread' \subseteq Unread,
           result' = result, call' = call,
           \A u \in Thread : pc'[u] \in Before => pc[u] \in Before
    PROVE  OnceInv'
BY DEF OnceInv

\* Sending the request puts the only copy of a call that is new to the daemon
\* on the stream.
LEMMA OnceSend ==
    ASSUME TypeOK, StreamInv, CallInv, OnceInv, NEW t \in Thread,
           pc[t] = "SEND", SendFrame(t, "REQUEST"), Goto(t, "RECEIVE"),
           UNCHANGED <<slot, call, result, daemon>>
    PROVE  OnceInv'
<1> ThreadsTyped /\ DaemonTyped
  BY DEF TypeOK
<1>1. Quiet
  BY DEF StreamInv, StageInv
<1>2. toDaemon' = <<[type |-> "REQUEST", call |-> call[t]]>>
  BY <1>1, SendOne
<1>3. Unread' \subseteq {call[t]}
  BY <1>2 DEF Unread
<1>4. executed' = executed /\ orphans' = orphans /\ call' = call /\ result' = result
  BY DEF SendFrame, daemon
<1>5. \A u \in Thread : pc'[u] \in Before => pc[u] \in Before
  BY DEF Goto, Before
<1>6. call[t] \in Call => executed[call[t]] = 0 /\ call[t] \notin orphans
  BY DEF OnceInv, Before
<1> QED
  BY <1>3, <1>4, <1>5, <1>6 DEF OnceInv

\* Every step between acquire and release.
LEMMA OnceOwner ==
    ASSUME TypeOK, TypeOK', SlotExclusive, CallInv, StreamInv, OnceInv,
           NEW t \in Thread, OwnerStep(t)
    PROVE  OnceInv'
<1> ThreadsTyped /\ DaemonTyped /\ (ThreadsTyped /\ DaemonTyped)'
  BY DEF TypeOK
<1>0. pc[t] \in Owning /\ executed' = executed /\ call' = call /\ result' = result /\ StageInv(t)
  BY OwnerMoves DEF StreamInv
<1>1. ASSUME NEW e, NEW frame, Fail(t, e, frame) PROVE OnceInv'
  BY <1>0, <1>1, OnceFail
<1>2. ASSUME NEW s \in Owning, Goto(t, s), s \in Before => pc[t] \in Before,
             orphans' = orphans, Unread' \subseteq Unread
      PROVE  OnceInv'
  <2>1. \A u \in Thread : pc'[u] \in Before => pc[u] \in Before
    BY <1>2 DEF Goto
  <2> QED
    BY <1>0, <1>2, <2>1, OnceFrame, Zenon
<1>3. toDaemon' = toDaemon => Unread' \subseteq Unread
  BY DEF Unread
<1>4. ASSUME NEW type \in {"REGISTER", "UNREGISTER"}, SendFrame(t, type), Quiet
      PROVE  orphans' = orphans /\ Unread' \subseteq Unread
  <2>1. toDaemon' = <<[type |-> type, call |-> call[t]]>> /\ orphans' = orphans
    BY <1>4, SendOne, Zenon DEF SendFrame
  <2> QED
    BY <2>1 DEF Unread
<1>5. ASSUME TakeFrame(t) PROVE orphans' = orphans /\ Unread' \subseteq Unread
  BY <1>3, <1>5 DEF TakeFrame
<1>6. CASE ConnectViciTransport(t)
  BY <1>2, <1>3, <1>6, Zenon DEF ConnectViciTransport, AfterConnect, Owning, Before, stream
<1>7. CASE ConnectFails(t)
  BY <1>1, <1>7 DEF ConnectFails
<1>8. CASE Register(t)
  BY <1>0, <1>1, <1>2, <1>4, <1>8, Zenon DEF Register, StageInv, Owning, Before
<1>9. CASE Confirm(t)
  BY <1>1, <1>2, <1>5, <1>9, Zenon DEF Confirm, Owning, Before
<1>10. CASE SendRequest(t)
  BY <1>1, <1>10, OnceSend, Zenon DEF SendRequest
<1>11. CASE ReceiveEvent(t)
  <2>1. CASE TakeFrame(t) /\ UNCHANGED <<slot, frames, result, daemon>>
    BY <1>0, <1>5, <2>1, OnceFrame, Zenon DEF frames
  <2> QED
    BY <1>1, <1>11, <2>1, Zenon DEF ReceiveEvent
<1>12. CASE ReceiveResponse(t)
  BY <1>1, <1>2, <1>5, <1>12, Zenon DEF ReceiveResponse, Owning, Before
<1>13. CASE ReceiveOther(t)
  BY <1>1, <1>13 DEF ReceiveOther
<1>14. CASE ReceiveFails(t)
  BY <1>1, <1>14 DEF ReceiveFails
<1>15. CASE Unregister(t)
  BY <1>0, <1>1, <1>2, <1>4, <1>15, Zenon DEF Unregister, StageInv, Owning, Before
<1>16. CASE Unconfirm(t)
  BY <1>1, <1>2, <1>5, <1>16, Zenon DEF Unconfirm, Owning, Before
<1> QED
  BY <1>6, <1>7, <1>8, <1>9, <1>10, <1>11, <1>12, <1>13, <1>14, <1>15, <1>16, Zenon DEF OwnerStep

\* A request the daemon reads is run for the first time.
LEMMA OnceAccept ==
    ASSUME TypeOK, SlotExclusive, CallInv, StreamInv, OnceInv, DaemonAccept
    PROVE  OnceInv'
<1> ThreadsTyped /\ DaemonTyped
  BY DEF TypeOK
<1> DEFINE c == Head(toDaemon).call
<1>1. c \in Call /\ toDaemon # <<>>
  BY AcceptOwn, Zenon DEF DaemonAccept
<1>2. c \in Unread
  BY AcceptOwn
<1>3. PICK t \in Thread : pc[t] = "RECEIVE" /\ call[t] = c
  BY AcceptOwn
<1>4. toDaemon = <<[type |-> "REQUEST", call |-> c]>>
  BY <1>1, <1>3, Zenon DEF StreamInv, StageInv, Answering
<1>5. toDaemon' = <<>> /\ Unread' = {}
  <2>1. toDaemon' = <<>>
    BY <1>4 DEF DaemonAccept
  <2> QED
    BY <2>1 DEF Unread
<1>6. pc' = pc /\ call' = call /\ result' = result /\ orphans' = orphans
  BY OthersStay, Zenon DEF DaemonAccept, DaemonStep
<1>7. executed[c] = 0 /\ c \notin orphans
  BY <1>1, <1>2, Zenon DEF OnceInv
<1>8. \A u \in Thread : call[u] = c => u = t
  BY <1>1, <1>3, CallAssumption DEF CallInv
<1>9. executed' = executed \/ executed' = [executed EXCEPT ![c] = executed[c] + 1]
  BY Zenon DEF DaemonAccept, DaemonRuns, daemon
<1> HIDE DEF c
<1>10. CASE executed' = executed
  BY <1>5, <1>6, <1>10, OnceFrame
<1>11. CASE executed' = [executed EXCEPT ![c] = executed[c] + 1]
  <2>1. executed'[c] = 1 /\ \A d \in Call : d # c => executed'[d] = executed[d]
    BY <1>1, <1>7, <1>11 DEF DaemonTyped
  <2>2. \A u \in Thread : call[u] = c => pc[u] \notin Before
    BY <1>3, <1>8 DEF Before
  <2> QED
    BY <1>3, <1>5, <1>6, <1>7, <2>1, <2>2 DEF OnceInv
<1> QED
  BY <1>9, <1>10, <1>11

\* A request left behind on a closed stream is run for the first time too.
LEMMA OnceOrphan ==
    ASSUME TypeOK, OnceInv, NEW c \in Call, DaemonServesOrphan(c)
    PROVE  OnceInv'
<1> ThreadsTyped /\ DaemonTyped
  BY DEF TypeOK
<1>1. pc' = pc /\ call' = call /\ result' = result
  BY OthersStay DEF DaemonStep
<1>2. c \in orphans /\ orphans' = orphans \ {c} /\ toDaemon' = toDaemon
  BY DEF DaemonServesOrphan
<1>3. executed[c] = 0
  BY <1>2 DEF OnceInv
<1>4. executed'[c] = 1 /\ \A d \in Call : d # c => executed'[d] = executed[d]
  BY <1>3 DEF DaemonServesOrphan, DaemonRuns, DaemonTyped
<1>5. Unread' = Unread
  BY <1>2 DEF Unread
<1> QED
  BY <1>1, <1>2, <1>4, <1>5 DEF OnceInv

\* Every step keeps the count of a call's runs honest.
LEMMA OnceStep ==
    ASSUME TypeOK, TypeOK', SlotExclusive, CallInv, StreamInv, OnceInv, [Next]_vars
    PROVE  OnceInv'
<1> ThreadsTyped /\ DaemonTyped /\ (ThreadsTyped /\ DaemonTyped)'
  BY DEF TypeOK
<1> USE CallAssumption
<1>0. toDaemon' = toDaemon => Unread' = Unread
  BY DEF Unread
<1>1. ASSUME NEW t \in Thread, OwnerStep(t) PROVE OnceInv'
  BY <1>1, OnceOwner
<1>2. ASSUME NEW t \in Thread, AcquireViciCommand(t) \/ AcquireFails(t) PROVE OnceInv'
  <2>1. /\ pc[t] = "QUEUE" /\ call' = call /\ result' = result
        /\ \A u \in Thread : u # t => pc'[u] = pc[u]
    BY <1>2, Zenon DEF AcquireViciCommand, AcquireFails, Goto, ThreadsTyped
  <2>2. executed' = executed /\ orphans' = orphans /\ toDaemon' = toDaemon
    BY <1>2, Zenon DEF AcquireViciCommand, AcquireFails, stream, daemon
  <2> QED
    BY <1>0, <2>1, <2>2, OnceFrame, Zenon DEF Before
<1>3. ASSUME NEW t \in Thread, NEW c \in Call, Submit(t, c) PROVE OnceInv'
  <2>1. /\ call' = [call EXCEPT ![t] = c] /\ result' = result
        /\ result[c] = NoResult /\ \A u \in Thread : call[u] # c
        /\ \A u \in Thread : u # t => pc'[u] = pc[u]
        /\ call[t] = NoCall
    BY <1>3, Zenon DEF Submit, Goto, ThreadsTyped
  <2>2. executed' = executed /\ orphans' = orphans /\ toDaemon' = toDaemon
    BY <1>3 DEF Submit, stream, daemon
  <2>3. call'[t] = c /\ \A u \in Thread : u # t => call'[u] = call[u]
    BY <2>1 DEF ThreadsTyped
  <2> QED
    BY <1>0, <2>1, <2>2 DEF OnceInv
<1>4. ASSUME NEW t \in Thread, Release(t) PROVE OnceInv'
  <2>1. /\ call' = [call EXCEPT ![t] = NoCall]
        /\ result' = [result EXCEPT ![call[t]] = OutcomeOf(t)]
        /\ pc'[t] = "IDLE" /\ \A u \in Thread : u # t => pc'[u] = pc[u]
        /\ call[t] \in Call
    BY <1>4, SMTT(30) DEF Release, Goto, ThreadsTyped
  <2>2. executed' = executed /\ orphans' = orphans /\ toDaemon' = toDaemon
    BY <1>4 DEF Release, stream, daemon
  <2>3. call'[t] = NoCall /\ \A u \in Thread : u # t => call'[u] = call[u]
    BY <2>1 DEF ThreadsTyped
  <2>4. OutcomeOf(t) # NoResult
    <3>1. FinalError(t) \in Error
      BY Zenon DEF FinalError, ThreadsTyped, Local, Error
    <3>2. OutcomeOf(t).eError # "none" /\ NoResult.eError = "none"
      BY <3>1 DEF OutcomeOf, NoResult, Error
    <3> QED
      BY <3>2
  <2>5. result'[call[t]] # NoResult /\ \A d \in Call : d # call[t] => result'[d] = result[d]
    BY <2>1, <2>4 DEF ThreadsTyped
  <2> QED
    BY <1>0, <2>1, <2>2, <2>5, SMTT(30) DEF OnceInv, Before
<1>5. CASE \/ \E t \in Thread : Expire(t)
           \/ CancelIpsecWaits \/ CloseViciWaits \/ UNCHANGED vars
           \/ DaemonEvent \/ DaemonRespond
  <2>1. pc' = pc /\ call' = call /\ result' = result
    BY <1>5, OthersStay, Zenon DEF DaemonStep
  <2>2. executed' = executed /\ orphans' = orphans /\ toDaemon' = toDaemon
    BY <1>5, Zenon DEF Expire, CancelIpsecWaits, CloseViciWaits, DaemonEvent, DaemonRespond,
       vars, stream, daemon
  <2> QED
    BY <1>0, <2>1, <2>2, OnceFrame, Zenon
<1>6. CASE DaemonRestart
  <2>1. pc' = pc /\ call' = call /\ result' = result
    BY <1>6, OthersStay DEF DaemonStep
  <2>2. executed' = executed /\ orphans' = {} /\ toDaemon' = <<>>
    BY <1>6 DEF DaemonRestart, daemon
  <2>3. Unread' = {}
    BY <2>2 DEF Unread
  <2> QED
    BY <2>1, <2>2, <2>3, OnceFrame, Zenon
<1>7. CASE DaemonRegistration
  <2>1. pc' = pc /\ call' = call /\ result' = result
    BY <1>7, OthersStay DEF DaemonStep
  <2>2. executed' = executed /\ orphans' = orphans
    BY <1>7 DEF DaemonRegistration, daemon
  <2>3. PICK t \in Thread : pc[t] \in {"CONFIRM", "RECEIVE", "UNCONFIRM"} /\ StageInv(t)
    BY <1>7, BusyOwner, Zenon DEF DaemonRegistration, Quiet
  <2>4. PICK frame : toDaemon = <<frame>>
    BY <1>7, <2>3, Zenon DEF DaemonRegistration, StageInv, Exchanging, Answering
  <2>5. toDaemon' = <<>>
    BY <1>7, <2>4 DEF DaemonRegistration
  <2>6. Unread' = {}
    BY <2>5 DEF Unread
  <2> QED
    BY <2>1, <2>2, <2>6, OnceFrame, Zenon
<1>8. CASE DaemonAccept
  BY <1>8, OnceAccept
<1>9. ASSUME NEW c \in Call, DaemonServesOrphan(c) PROVE OnceInv'
  BY <1>9, OnceOrphan
<1> QED
  BY <1>1, <1>2, <1>3, <1>4, <1>5, <1>6, <1>7, <1>8, <1>9, Zenon DEF Next, ThreadStep, OwnerStep,
     DaemonStep

\* "Never replay a possibly executed mutation" (vici_client.c:358): the daemon
\* runs no call twice, however many threads share the stream and however often
\* it breaks.
THEOREM RunAtMostOnce == Spec => []AtMostOnce
<1>1. Init => CallInv /\ OnceInv
  BY DEF Init, CallInv, OnceInv
<1>2. TypeOK /\ TypeOK' /\ SlotExclusive /\ StreamInv /\ CallInv /\ OnceInv /\ [Next]_vars
        => CallInv' /\ OnceInv'
  BY SlotStep, OnceStep
<1>3. OnceInv => AtMostOnce
  BY DEF OnceInv, AtMostOnce
<1> QED
  BY <1>1, <1>2, <1>3, TypeCorrect, SlotIsExclusive, StreamInStep, PTL DEF Spec
=============================================================================
