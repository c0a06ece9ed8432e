------------------------- MODULE ViciOutcome_proofs -------------------------
(*****************************************************************************)
(* What a caller of the VICI command path is told is what happened to its    *)
(* call, and the command path implements the service of CommandService, for  *)
(* any number of threads and calls.                                          *)
(*****************************************************************************)
EXTENDS ViciCommand_proofs

\* What the frame of ExecuteViciCommandUntil says at each stage: the request is
\* attempted from SEND on, and the answer valid once the response was read.
FrameInv(t) ==
    /\ pc[t] \in {"IDLE"} \cup Before =>
          /\ ~local[t].bSendAttempted /\ ~local[t].bResponseValid
          /\ local[t].success = "absent" /\ local[t].eError = "OK"
    /\ pc[t] = "GIVEUP" =>
          /\ ~local[t].bSendAttempted /\ ~local[t].bResponseValid
          /\ local[t].success = "absent" /\ local[t].eError \in {"CANCELLED", "TIMEOUT"}
    /\ pc[t] = "RECEIVE" =>
          /\ local[t].bSendAttempted /\ ~local[t].bResponseValid
          /\ local[t].success = "absent" /\ local[t].eError = "OK"
    /\ pc[t] \in {"UNREGISTER", "UNCONFIRM"} =>
          local[t].bSendAttempted /\ local[t].bResponseValid
    /\ pc[t] = "RELEASE" /\ ~local[t].bSendAttempted =>
          /\ ~local[t].bResponseValid
          /\ local[t].success = "absent" /\ local[t].eError \notin {"OK", "COMMAND"}
    /\ local[t].bRegistered \/ pc[t] \in {"REGISTER", "CONFIRM", "UNREGISTER", "UNCONFIRM"}
          => call[t] \in Streamed

\* The frames on their way to the reader of call c tell what became of it.
RepliesHonest(c) ==
    \A i \in 1..Len(toClient) :
        /\ toClient[i].type = "RESPONSE" =>
              /\ executed[c] = 1
              /\ toClient[i].success = "yes" => c \in applied
              /\ toClient[i].success = "no" => c \notin applied
        /\ toClient[i].type = "COMMAND_UNKNOWN" => executed[c] = 0

\* Error e and success field s, read from a valid answer, fit what became of c.
Settled(e, s, c) ==
    \/ e = "OK" /\ s = "yes" /\ c \in applied
    \/ e = "OK" /\ s = "no" /\ c \notin applied /\ executed[c] = 1
    \/ e = "NOT_SUPPORTED" /\ s = "absent" /\ executed[c] = 0

\* Thread t can tell what became of its call, or knows that it cannot.
CallOutcome(t) ==
    /\ ~local[t].bSendAttempted => executed[call[t]] = 0
    /\ call[t] \in orphans =>
          pc[t] = "RELEASE" /\ local[t].bSendAttempted /\ ~local[t].bResponseValid
    /\ pc[t] = "RECEIVE" => RepliesHonest(call[t])
    /\ call[t] \in Mutation /\ local[t].bResponseValid =>
          Settled(local[t].eError, local[t].success, call[t])

\* The diagnostic of call c is true, and stays true.
Told(c) ==
    /\ c \in orphans => result[c].bOutcomeUnknown
    /\ c \in Mutation /\ ~result[c].bOutcomeUnknown =>
          IF result[c].eError = "OK" THEN c \in applied ELSE c \notin applied

OutcomeInv ==
    /\ \A t \in Thread : FrameInv(t) /\ (pc[t] # "IDLE" => CallOutcome(t))
    /\ \A c \in Call : /\ result[c] # NoResult => Told(c)
                       /\ c \in applied => executed[c] = 1
                       /\ serving = c => executed[c] = 1

-----------------------------------------------------------------------------
\* What setting the error of a frame leaves alone.
LEMMA ErrorField ==
    ASSUME NEW f \in Local, NEW e
    PROVE  /\ [f EXCEPT !.eError = e].eError = e
           /\ [f EXCEPT !.eError = e].bSendAttempted = f.bSendAttempted
           /\ [f EXCEPT !.eError = e].bResponseValid = f.bResponseValid
           /\ [f EXCEPT !.eError = e].bRegistered = f.bRegistered
           /\ [f EXCEPT !.eError = e].success = f.success
BY Zenon DEF Local

\* What marking the request as attempted leaves alone.
LEMMA AttemptField ==
    ASSUME NEW f \in Local
    PROVE  /\ [f EXCEPT !.bSendAttempted = TRUE].eError = f.eError
           /\ [f EXCEPT !.bSendAttempted = TRUE].bSendAttempted = TRUE
           /\ [f EXCEPT !.bSendAttempted = TRUE].bResponseValid = f.bResponseValid
           /\ [f EXCEPT !.bSendAttempted = TRUE].bRegistered = f.bRegistered
           /\ [f EXCEPT !.bSendAttempted = TRUE].success = f.success
BY Zenon DEF Local

\* What marking the answer as valid leaves alone.
LEMMA ValidField ==
    ASSUME NEW f \in Local
    PROVE  /\ [f EXCEPT !.bResponseValid = TRUE].bSendAttempted = f.bSendAttempted
           /\ [f EXCEPT !.bResponseValid = TRUE].bResponseValid = TRUE
           /\ [f EXCEPT !.bResponseValid = TRUE].bRegistered = f.bRegistered
           /\ [f EXCEPT !.bResponseValid = TRUE].success = f.success
BY Zenon DEF Local

\* An unread request is the one the owner of the slot waits for.
LEMMA UnreadOwner ==
    ASSUME TypeOK, SlotExclusive, StreamInv, NEW t \in Thread, pc[t] \in Owning, NEW c \in Unread
    PROVE  c = call[t] /\ pc[t] = "RECEIVE" /\ toClient = <<>>
<1>1. PICK u \in Thread : pc[u] = "RECEIVE" /\ call[u] = c
  BY UnreadIsOwn
<1>2. u = t
  BY <1>1 DEF SlotExclusive, Owning
<1>3. toDaemon # <<>>
  BY DEF Unread
<1>4. Answering(call[t])
  BY <1>1, <1>2 DEF StreamInv, StageInv
<1> QED
  BY <1>1, <1>2, <1>3, <1>4, Zenon DEF Answering

\* A step of t that runs no call and abandons at most t's own request keeps the
\* outcomes of all other calls.
LEMMA OutcomeOne ==
    ASSUME TypeOK, TypeOK', CallInv, OutcomeInv, NEW t \in Thread,
           \A u \in Thread : u # t =>
               /\ pc'[u] = pc[u] /\ local'[u] = local[u] /\ call'[u] = call[u]
               /\ pc[u] = "RECEIVE" => toClient' = toClient,
           executed' = executed, applied' = applied, result' = result,
           orphans' \subseteq orphans \cup {call[t]}, serving' \in {serving, NoCall},
           FrameInv(t)', pc'[t] # "IDLE" => CallOutcome(t)'
    PROVE  OutcomeInv'
<1> ThreadsTyped /\ DaemonTyped /\ (ThreadsTyped /\ DaemonTyped)'
  BY DEF TypeOK
<1>1. ASSUME NEW u \in Thread PROVE FrameInv(u)' /\ (pc'[u] # "IDLE" => CallOutcome(u)')
  <2>1. CASE u = t
    BY <2>1
  <2>2. CASE u # t
    <3>1. FrameInv(u)'
      BY DEF OutcomeInv, FrameInv
    <3>2. ASSUME pc'[u] # "IDLE" PROVE CallOutcome(u)'
      <4>1. CallOutcome(u) /\ call[u] # NoCall
        BY <2>2, <3>2, Zenon DEF OutcomeInv, ThreadsTyped, DaemonTyped
      <4>2. call[u] # call[t]
        BY <2>2, <4>1, Zenon DEF CallInv
      <4>3. PICK c : c = call[u] /\ c = call'[u]
        BY <2>2
      <4>4. pc[u] = "RECEIVE" /\ RepliesHonest(c) => RepliesHonest(c)'
        BY <2>2 DEF RepliesHonest
      <4> QED
        BY <4>1, <4>2, <4>3, <4>4, Zenon DEF CallOutcome, Settled
    <3> QED
      BY <3>1, <3>2
  <2> QED
    BY <2>1, <2>2
<1>2. ASSUME NEW c \in Call
      PROVE  /\ result'[c] # NoResult => Told(c)'
             /\ c \in applied' => executed'[c] = 1
             /\ serving' = c => executed'[c] = 1
  <2>1. c = call[t] => result[c] = NoResult
    BY CallAssumption DEF CallInv
  <2> QED
    BY <2>1, CallAssumption DEF OutcomeInv, Told
<1> QED
  BY <1>1, <1>2, Zenon DEF OutcomeInv

\* A command of t that fails, with the frame it fails with.
LEMMA OutcomeFails ==
    ASSUME TypeOK, TypeOK', SlotExclusive, CallInv, StreamInv, OutcomeInv,
           NEW t \in Thread, pc[t] \in Owning,
           NEW e, NEW frame \in Local, Fail(t, e, frame),
           ~frame.bSendAttempted =>
               /\ ~frame.bResponseValid /\ frame.success = "absent"
               /\ e \notin {"OK", "COMMAND"} /\ executed[call[t]] = 0,
           call[t] \in orphans \cup Unread => frame.bSendAttempted /\ ~frame.bResponseValid,
           frame.bRegistered => call[t] \in Streamed,
           frame.bResponseValid /\ call[t] \in Mutation => Settled(e, frame.success, call[t])
    PROVE  OutcomeInv'
<1> ThreadsTyped /\ DaemonTyped /\ (ThreadsTyped /\ DaemonTyped)'
  BY DEF TypeOK
<1> DEFINE g == [frame EXCEPT !.eError = e]
<1>1. /\ g.eError = e /\ g.bSendAttempted = frame.bSendAttempted
      /\ g.bResponseValid = frame.bResponseValid /\ g.bRegistered = frame.bRegistered
      /\ g.success = frame.success
  BY ErrorField, Zenon
<1>2. local' = [local EXCEPT ![t] = g] /\ pc' = [pc EXCEPT ![t] = "RELEASE"]
  BY Zenon DEF Fail
<1> HIDE DEF g
<1>3. /\ local'[t] = g /\ pc'[t] = "RELEASE"
      /\ \A u \in Thread : u # t => pc'[u] = pc[u] /\ local'[u] = local[u]
  BY <1>2 DEF ThreadsTyped
<1>4. /\ call' = call /\ result' = result /\ executed' = executed /\ applied' = applied
      /\ orphans' = orphans \cup Unread /\ serving' = NoCall
  BY DEF Fail, DisconnectViciTransport, daemon
<1>5. orphans' \subseteq orphans \cup {call[t]}
  BY <1>4, UnreadOwner, Zenon
<1>6. \A u \in Thread : u # t => pc[u] # "RECEIVE"
  BY DEF SlotExclusive, Owning
<1>7. FrameInv(t)'
  BY <1>1, <1>3, <1>4, Zenon DEF FrameInv, Before
<1>8. CallOutcome(t)'
  BY <1>1, <1>3, <1>4, Zenon DEF CallOutcome, Settled
<1> QED
  BY <1>3, <1>4, <1>5, <1>6, <1>7, <1>8, OutcomeOne, Zenon

\* The failures that leave the frame as it is.
LEMMA OutcomeFailsPlain ==
    ASSUME TypeOK, TypeOK', SlotExclusive, CallInv, StreamInv, OutcomeInv,
           NEW t \in Thread, pc[t] \in Owning, pc[t] # "RELEASE",
           NEW e, Fail(t, e, local[t]), e \notin {"OK", "COMMAND"}
    PROVE  OutcomeInv'
<1> ThreadsTyped /\ DaemonTyped /\ (ThreadsTyped /\ DaemonTyped)'
  BY DEF TypeOK
<1>1. local[t] \in Local /\ FrameInv(t) /\ CallOutcome(t) /\ call[t] \in Call
  BY Zenon DEF OutcomeInv, ThreadsTyped, DaemonTyped, Owning
<1>2. call[t] \in Unread => pc[t] = "RECEIVE"
  BY UnreadOwner
<1>3. pc[t] \in Before \cup {"RECEIVE", "UNREGISTER", "UNCONFIRM"}
  BY DEF Owning, Before
<1>4. ~local[t].bSendAttempted =>
          ~local[t].bResponseValid /\ local[t].success = "absent" /\ executed[call[t]] = 0
  BY <1>1, <1>3, Zenon DEF FrameInv, CallOutcome
<1>5. call[t] \in orphans \cup Unread => local[t].bSendAttempted /\ ~local[t].bResponseValid
  BY <1>1, <1>2, Zenon DEF FrameInv, CallOutcome
<1>6. ~(local[t].bResponseValid /\ call[t] \in Mutation)
  BY <1>1, <1>3, CallAssumption, Zenon DEF FrameInv
<1>7. local[t].bRegistered => call[t] \in Streamed
  BY <1>1, Zenon DEF FrameInv
<1> QED
  BY <1>1, <1>4, <1>5, <1>6, <1>7, OutcomeFails, Zenon

\* A step of t from stage to stage that leaves the socket open.
LEMMA OutcomeMoves ==
    ASSUME TypeOK, TypeOK', SlotExclusive, CallInv, OutcomeInv,
           NEW t \in Thread, pc[t] \in Owning, NEW s \in Owning, Goto(t, s),
           \A u \in Thread : u # t => local'[u] = local[u],
           call' = call, result' = result, executed' = executed, applied' = applied,
           orphans' = orphans, serving' = serving,
           FrameInv(t)', CallOutcome(t)'
    PROVE  OutcomeInv'
<1> ThreadsTyped /\ DaemonTyped /\ (ThreadsTyped /\ DaemonTyped)'
  BY DEF TypeOK
<1>1. \A u \in Thread : u # t => pc'[u] = pc[u] /\ local'[u] = local[u] /\ pc[u] # "RECEIVE"
  BY Zenon DEF Goto, ThreadsTyped, DaemonTyped, SlotExclusive, Owning
<1> QED
  BY <1>1, OutcomeOne, Zenon

\* The response of call t answers what the daemon made of it.
LEMMA OutcomeResponse ==
    ASSUME TypeOK, TypeOK', SlotExclusive, CallInv, StreamInv, OutcomeInv,
           NEW t \in Thread, pc[t] = "RECEIVE", TakeFrame(t),
           Head(toClient).type = "RESPONSE",
           call[t] \in Mutation => Head(toClient).success # "absent",
           local'[t].bResponseValid, local'[t].success = Head(toClient).success,
           local'[t].bSendAttempted <=> local[t].bSendAttempted,
           local'[t].bRegistered <=> local[t].bRegistered,
           local'[t].eError = local[t].eError,
           \A u \in Thread : u # t => local'[u] = local[u],
           NEW s \in {"UNREGISTER", "RELEASE"}, Goto(t, s), s = "UNREGISTER" => local[t].bRegistered,
           UNCHANGED <<slot, call, result, daemon>>
    PROVE  OutcomeInv'
<1> ThreadsTyped /\ DaemonTyped /\ (ThreadsTyped /\ DaemonTyped)'
  BY DEF TypeOK
<1>1. /\ local[t] \in Local /\ FrameInv(t) /\ CallOutcome(t) /\ call[t] \in Call
      /\ pc[t] \in Owning
  BY Zenon DEF OutcomeInv, ThreadsTyped, DaemonTyped, Owning
<1>2. toClient # <<>> /\ Head(toClient) = toClient[1] /\ 1 \in 1..Len(toClient) /\ Head(toClient) \in Reply
  <2>1. toClient \in Seq(Reply) /\ toClient # <<>>
    BY Zenon DEF TakeFrame, ThreadsTyped, DaemonTyped
  <2> QED
    BY <2>1
<1>3. /\ call' = call /\ result' = result /\ executed' = executed /\ applied' = applied
      /\ orphans' = orphans /\ serving' = serving
  BY DEF TakeFrame, daemon
<1>6. pc'[t] = s
  BY Zenon DEF Goto, ThreadsTyped, DaemonTyped
<1>4. local'[t].bSendAttempted
  BY <1>1, Zenon DEF FrameInv
<1>5. local'[t].bRegistered \/ pc'[t] = "UNREGISTER" => call'[t] \in Streamed
  BY <1>1, <1>6, Zenon DEF FrameInv
<1>7. FrameInv(t)'
  BY <1>4, <1>5, <1>6, Zenon DEF FrameInv, Before
<1>8. CallOutcome(t)'
  <2>1. /\ executed[call[t]] = 1
        /\ Head(toClient).success = "yes" => call[t] \in applied
        /\ Head(toClient).success = "no" => call[t] \notin applied
    BY <1>1, <1>2 DEF CallOutcome, RepliesHonest
  <2>2. Head(toClient).success \in {"yes", "no", "absent"} /\ local[t].eError = "OK" /\ local[t].bSendAttempted
    BY <1>1, <1>2, Zenon DEF Reply, Success, FrameInv
  <2>3. call[t] \notin orphans
    BY <1>1, Zenon DEF CallOutcome
  <2>4. call[t] \in Mutation => Settled(local'[t].eError, local'[t].success, call[t])
    BY <2>1, <2>2, Zenon DEF Settled
  <2>5. call[t] \in Mutation => Settled(local[t].eError, local[t].success, call[t])'
    BY <1>3, <2>4, Zenon DEF Settled
  <2> QED
    BY <1>3, <1>4, <1>6, <2>3, <2>5, Zenon DEF CallOutcome
<1> QED
  BY <1>3, <1>7, <1>8, OutcomeMoves, Zenon DEF Owning

\* COMMAND_UNKNOWN says that the call was not run.
LEMMA OutcomeUnknownCommand ==
    ASSUME TypeOK, TypeOK', SlotExclusive, CallInv, StreamInv, OutcomeInv,
           NEW t \in Thread, pc[t] = "RECEIVE", toClient # <<>>,
           Head(toClient).type = "COMMAND_UNKNOWN",
           Fail(t, "NOT_SUPPORTED", [local[t] EXCEPT !.bResponseValid = TRUE])
    PROVE  OutcomeInv'
<1> ThreadsTyped /\ DaemonTyped /\ (ThreadsTyped /\ DaemonTyped)'
  BY DEF TypeOK
<1>1. /\ local[t] \in Local /\ FrameInv(t) /\ CallOutcome(t) /\ call[t] \in Call
      /\ pc[t] \in Owning
  BY Zenon DEF OutcomeInv, ThreadsTyped, Owning
<1>2. Head(toClient) = toClient[1] /\ 1 \in 1..Len(toClient)
  OBVIOUS
<1>3. executed[call[t]] = 0 /\ call[t] \notin orphans
  BY <1>1, <1>2, Zenon DEF CallOutcome, RepliesHonest
<1>4. call[t] \notin Unread
  BY <1>1, UnreadOwner
<1> DEFINE g == [local[t] EXCEPT !.bResponseValid = TRUE]
<1>5. /\ g \in Local /\ g.bSendAttempted = local[t].bSendAttempted
      /\ g.bRegistered = local[t].bRegistered /\ g.success = local[t].success
  BY <1>1, UpdateType, ValidField, Zenon
<1>6. Fail(t, "NOT_SUPPORTED", g)
  OBVIOUS
<1> HIDE DEF g
<1>7. /\ g.bSendAttempted /\ g.success = "absent"
      /\ g.bRegistered => call[t] \in Streamed
  BY <1>1, <1>5, Zenon DEF FrameInv
<1>8. Settled("NOT_SUPPORTED", g.success, call[t])
  BY <1>3, <1>7 DEF Settled
<1> QED
  BY <1>1, <1>3, <1>4, <1>5, <1>6, <1>7, <1>8, OutcomeFails, Zenon

\* The request goes out: nothing is known of the call but that it is new.
LEMMA OutcomeSends ==
    ASSUME TypeOK, TypeOK', SlotExclusive, CallInv, StreamInv, OutcomeInv,
           NEW t \in Thread, SendRequest(t)
    PROVE  OutcomeInv'
<1> ThreadsTyped /\ DaemonTyped /\ (ThreadsTyped /\ DaemonTyped)'
  BY DEF TypeOK
<1>1. /\ local[t] \in Local /\ FrameInv(t) /\ CallOutcome(t) /\ call[t] \in Call
      /\ pc[t] \in Owning /\ pc[t] = "SEND"
  BY Zenon DEF OutcomeInv, ThreadsTyped, DaemonTyped, Owning, SendRequest
<1> DEFINE g == [local[t] EXCEPT !.bSendAttempted = TRUE]
<1>2. /\ g \in Local /\ g.bSendAttempted /\ g.bResponseValid = local[t].bResponseValid
      /\ g.bRegistered = local[t].bRegistered /\ g.success = local[t].success
      /\ g.eError = local[t].eError
  BY <1>1, UpdateType, AttemptField, Zenon
<1>3. \/ Fail(t, "LOCAL", local[t])
      \/ /\ SendFrame(t, "REQUEST") /\ local' = [local EXCEPT ![t] = g] /\ Goto(t, "RECEIVE")
         /\ UNCHANGED <<slot, call, result, daemon>>
      \/ \E e \in Error : Fail(t, e, g)
  BY Zenon DEF SendRequest
<1> HIDE DEF g
<1>4. /\ g.success = "absent" /\ g.eError = "OK" /\ ~g.bResponseValid
      /\ g.bRegistered => call[t] \in Streamed
  BY <1>1, <1>2, Zenon DEF FrameInv, Before
<1>5. CASE Fail(t, "LOCAL", local[t])
  BY <1>1, <1>5, OutcomeFailsPlain
<1>6. CASE \E e \in Error : Fail(t, e, g)
  BY <1>1, <1>2, <1>4, <1>6, OutcomeFails, Zenon
<1>7. CASE /\ SendFrame(t, "REQUEST") /\ local' = [local EXCEPT ![t] = g] /\ Goto(t, "RECEIVE")
           /\ UNCHANGED <<slot, call, result, daemon>>
  <2>1. /\ call' = call /\ result' = result /\ executed' = executed /\ applied' = applied
        /\ orphans' = orphans /\ serving' = serving /\ toClient' = toClient
    BY <1>7 DEF SendFrame, daemon
  <2>2. /\ local'[t] = g /\ pc'[t] = "RECEIVE"
        /\ \A u \in Thread : u # t => local'[u] = local[u]
    BY <1>7, Zenon DEF Goto, ThreadsTyped, DaemonTyped
  <2>3. FrameInv(t)'
    BY <1>2, <1>4, <2>1, <2>2, Zenon DEF FrameInv, Before
  <2>4. toClient' = <<>>
    BY <1>1, <2>1, Zenon DEF StreamInv, StageInv, Quiet
  <2>5. CallOutcome(t)'
    BY <1>1, <1>2, <1>4, <2>1, <2>2, <2>4 DEF CallOutcome, RepliesHonest
  <2> QED
    BY <1>1, <1>7, <2>1, <2>2, <2>3, <2>5, OutcomeMoves, Zenon DEF Owning
<1> QED
  BY <1>3, <1>5, <1>6, <1>7, Zenon

\* Every step between acquire and release.
LEMMA OutcomeOwner ==
    ASSUME TypeOK, TypeOK', SlotExclusive, CallInv, StreamInv, OutcomeInv,
           NEW t \in Thread, OwnerStep(t)
    PROVE  OutcomeInv'
<1> ThreadsTyped /\ DaemonTyped /\ (ThreadsTyped /\ DaemonTyped)'
  BY DEF TypeOK
<1>0. /\ pc[t] \in Owning /\ call' = call /\ result' = result
      /\ executed' = executed /\ applied' = applied
  BY OwnerMoves
<1>1. local[t] \in Local /\ FrameInv(t) /\ CallOutcome(t) /\ call[t] \in Call
  BY <1>0, Zenon DEF OutcomeInv, ThreadsTyped, DaemonTyped, Owning
<1>2. ASSUME NEW e, Fail(t, e, local[t]), e \notin {"OK", "COMMAND"}, pc[t] # "RELEASE"
      PROVE  OutcomeInv'
  BY <1>0, <1>2, OutcomeFailsPlain, Zenon
<1>3. /\ \A e : SendError(t, e) => e \notin {"OK", "COMMAND"}
      /\ \A e : ReceiveError(t, e) => e \notin {"OK", "COMMAND"}
      /\ \A e : WaitError(t, e, FALSE) => e \notin {"OK", "COMMAND"}
  BY DEF SendError, ReceiveError, WaitError
<1>4. RegistrationError \in {"OK", "NOT_SUPPORTED", "PROTOCOL"}
  BY Zenon DEF RegistrationError
<1>5. ASSUME NEW s \in Owning, s # "RECEIVE", Goto(t, s), local' = local,
             orphans' = orphans, serving' = serving,
             pc[t] \in Before => s \in Before,
             pc[t] \notin Before => pc[t] \in {"UNREGISTER", "UNCONFIRM"} /\ s \notin Before,
             s \in {"REGISTER", "CONFIRM", "UNREGISTER", "UNCONFIRM"} => call[t] \in Streamed
      PROVE  OutcomeInv'
  <2>1. pc'[t] = s
    BY <1>5, Zenon DEF Goto, ThreadsTyped, DaemonTyped
  <2>2. FrameInv(t)'
    BY <1>0, <1>1, <1>5, <2>1, Zenon DEF FrameInv, Before, Owning
  <2>3. CallOutcome(t)'
    BY <1>0, <1>1, <1>5, <2>1, Zenon DEF CallOutcome, Settled, Before
  <2> QED
    BY <1>0, <1>5, <2>2, <2>3, OutcomeMoves, Zenon
<1>6. CASE ConnectViciTransport(t)
  <2>1. orphans' = orphans /\ serving' = serving /\ local' = local /\ pc[t] = "CONNECT"
    BY <1>6 DEF ConnectViciTransport, stream
  <2>2. PICK s \in {"REGISTER", "SEND"} : Goto(t, s) /\ (s = "REGISTER" => call[t] \in Streamed)
    BY <1>6 DEF ConnectViciTransport, AfterConnect
  <2> QED
    BY <1>5, <2>1, <2>2, Zenon DEF Owning, Before
<1>7. CASE ConnectFails(t)
  BY <1>2, <1>7, Zenon DEF ConnectFails
<1>8. CASE Register(t)
  <2>1. CASE SendFrame(t, "REGISTER") /\ Goto(t, "CONFIRM") /\ local' = local
    BY <1>1, <1>5, <1>8, <2>1, Zenon DEF Register, SendFrame, FrameInv, Owning, Before
  <2> QED
    BY <1>2, <1>3, <1>8, <2>1 DEF Register
<1>9. CASE Confirm(t)
  <2>1. CASE TakeFrame(t) /\ local' = [local EXCEPT ![t].bRegistered = TRUE] /\ Goto(t, "SEND")
    <3>1. /\ local'[t].bRegistered = TRUE
          /\ local'[t].bSendAttempted = local[t].bSendAttempted
          /\ local'[t].bResponseValid = local[t].bResponseValid
          /\ local'[t].success = local[t].success /\ local'[t].eError = local[t].eError
      BY <1>1, <2>1, Zenon DEF ThreadsTyped, DaemonTyped, Local
    <3>2. \A u \in Thread : u # t => local'[u] = local[u]
      BY <2>1, Zenon DEF ThreadsTyped, DaemonTyped
    <3>3. pc[t] = "CONFIRM" /\ pc'[t] = "SEND" /\ orphans' = orphans /\ serving' = serving
      BY <1>9, <2>1, Zenon DEF Confirm, TakeFrame, Goto, ThreadsTyped, DaemonTyped
    <3>4. FrameInv(t)'
      BY <1>0, <1>1, <3>1, <3>3, Zenon DEF FrameInv, Before
    <3>5. CallOutcome(t)'
      BY <1>0, <1>1, <3>1, <3>3, Zenon DEF CallOutcome, FrameInv, Before
    <3>6. Goto(t, "SEND") /\ "SEND" \in Owning
      BY <2>1 DEF Owning
    <3> QED
      BY <1>0, <3>2, <3>3, <3>4, <3>5, <3>6, OutcomeMoves, Zenon
  <2> QED
    BY <1>2, <1>3, <1>4, <1>9, <2>1, Zenon DEF Confirm
<1>10. CASE SendRequest(t)
  BY <1>10, OutcomeSends
<1>11. CASE ReceiveEvent(t)
  <2>1. CASE TakeFrame(t) /\ UNCHANGED <<slot, frames, result, daemon>>
    <3>1. pc' = pc /\ local' = local /\ orphans' = orphans /\ serving' = serving /\ toClient' = Tail(toClient)
      BY <2>1 DEF TakeFrame, frames
    <3>2. toClient \in Seq(Reply) /\ toClient # <<>> /\ pc[t] = "RECEIVE"
      BY <1>11, Zenon DEF ReceiveEvent, ThreadsTyped, DaemonTyped
    <3>3. /\ Len(toClient) \in Nat /\ Len(Tail(toClient)) = Len(toClient) - 1
          /\ \A i \in 1..Len(Tail(toClient)) : Tail(toClient)[i] = toClient[i + 1]
      BY <3>2
    <3>4. PICK c : c = call[t] /\ c = call'[t]
      BY <1>0
    <3>5. RepliesHonest(c) => RepliesHonest(c)'
      BY <1>0, <3>1 DEF RepliesHonest
    <3>6. FrameInv(t)'
      BY <1>0, <1>1, <3>1, Zenon DEF FrameInv
    <3>7. CallOutcome(t)'
      BY <1>0, <1>1, <3>1, <3>4, <3>5, Zenon DEF CallOutcome, Settled
    <3>8. \A u \in Thread : u # t => pc[u] # "RECEIVE"
      BY <1>0 DEF SlotExclusive, Owning
    <3> QED
      BY <1>0, <3>1, <3>6, <3>7, <3>8, OutcomeOne, Zenon
  <2> QED
    BY <1>2, <1>11, <2>1 DEF ReceiveEvent
<1>12. CASE ReceiveResponse(t)
  <2>1. CASE /\ TakeFrame(t)
             /\ call[t] \in Mutation => Head(toClient).success # "absent"
             /\ local' = [local EXCEPT ![t].bResponseValid = TRUE, ![t].success = Head(toClient).success]
             /\ Goto(t, IF local[t].bRegistered THEN "UNREGISTER" ELSE "RELEASE")
             /\ UNCHANGED <<slot, call, result, daemon>>
    <3>1. /\ local'[t].bResponseValid = TRUE /\ local'[t].success = Head(toClient).success
          /\ local'[t].bSendAttempted = local[t].bSendAttempted
          /\ local'[t].bRegistered = local[t].bRegistered
          /\ local'[t].eError = local[t].eError
      BY <1>1, <2>1, Zenon DEF ThreadsTyped, Local
    <3>2. \A u \in Thread : u # t => local'[u] = local[u]
      BY <2>1, Zenon DEF ThreadsTyped, DaemonTyped
    <3>3. PICK s \in {"UNREGISTER", "RELEASE"} : Goto(t, s) /\ (s = "UNREGISTER" => local[t].bRegistered)
      BY <2>1
    <3>4. pc[t] = "RECEIVE" /\ Head(toClient).type = "RESPONSE"
      BY <1>12 DEF ReceiveResponse
    <3>5. /\ TakeFrame(t) /\ UNCHANGED <<slot, call, result, daemon>>
          /\ call[t] \in Mutation => Head(toClient).success # "absent"
      BY <2>1
    <3> QED
      BY <3>1, <3>2, <3>3, <3>4, <3>5, OutcomeResponse, Zenon
  <2>2. CASE Fail(t, "PROTOCOL", local[t]) \/ Fail(t, "LOCAL", local[t])
    BY <1>2, <1>12, <2>2 DEF ReceiveResponse
  <2> QED
    BY <1>12, <2>1, <2>2, Zenon DEF ReceiveResponse
<1>13. CASE ReceiveOther(t)
  <2>1. CASE Head(toClient).type = "COMMAND_UNKNOWN"
    BY <1>13, <2>1, OutcomeUnknownCommand DEF ReceiveOther
  <2> QED
    BY <1>2, <1>13, <2>1 DEF ReceiveOther
<1>14. CASE ReceiveFails(t)
  BY <1>2, <1>3, <1>14 DEF ReceiveFails
<1>15. CASE Unregister(t)
  <2>1. CASE SendFrame(t, "UNREGISTER") /\ Goto(t, "UNCONFIRM") /\ local' = local
    BY <1>1, <1>5, <1>15, <2>1, Zenon DEF Unregister, SendFrame, FrameInv, Owning, Before
  <2> QED
    BY <1>2, <1>3, <1>15, <2>1 DEF Unregister
<1>16. CASE Unconfirm(t)
  <2>1. CASE TakeFrame(t) /\ Goto(t, "RELEASE") /\ local' = local
    BY <1>5, <1>16, <2>1, Zenon DEF Unconfirm, TakeFrame, Owning, Before
  <2> QED
    BY <1>2, <1>3, <1>4, <1>16, <2>1, Zenon DEF Unconfirm
<1> QED
  BY <1>6, <1>7, <1>8, <1>9, <1>10, <1>11, <1>12, <1>13, <1>14, <1>15, <1>16 DEF OwnerStep

\* What Release publishes for the call of t.
LEMMA ReleaseVerdict ==
    ASSUME TypeOK, OutcomeInv, NEW t \in Thread, pc[t] \in {"RELEASE", "GIVEUP"},
           NEW c, c = call[t], NEW r, r = OutcomeOf(t)
    PROVE  /\ pc[t] = "GIVEUP" => ~r.bOutcomeUnknown /\ r.eError \notin {"OK", "COMMAND"}
           /\ c \in orphans => r.bOutcomeUnknown
           /\ c \in Mutation /\ ~r.bOutcomeUnknown =>
                 \/ r.eError = "OK" /\ c \in applied
                 \/ r.eError = "COMMAND" /\ c \notin applied /\ executed[c] = 1
                 \/ r.eError \notin {"OK", "COMMAND"} /\ executed[c] = 0
<1>1. FrameInv(t) /\ CallOutcome(t)
  BY DEF OutcomeInv
<1>2. /\ r.eError = FinalError(t)
      /\ r.bOutcomeUnknown <=> local[t].bSendAttempted /\ ~local[t].bResponseValid
  BY Zenon DEF OutcomeOf
<1>3. ~local[t].bSendAttempted =>
         FinalError(t) \notin {"OK", "COMMAND"} /\ executed[c] = 0 /\ c \notin orphans
  BY <1>1, Zenon DEF FinalError, FrameInv, CallOutcome
<1>4. CASE pc[t] = "GIVEUP"
  BY <1>1, <1>2, <1>3, <1>4, Zenon DEF FrameInv
<1>5. CASE pc[t] = "RELEASE"
  <2>1. c \in orphans => r.bOutcomeUnknown
    BY <1>1, <1>2, Zenon DEF CallOutcome
  <2>2. ASSUME c \in Mutation, local[t].bResponseValid
        PROVE  \/ FinalError(t) = "OK" /\ c \in applied
               \/ FinalError(t) = "COMMAND" /\ c \notin applied /\ executed[c] = 1
               \/ FinalError(t) \notin {"OK", "COMMAND"} /\ executed[c] = 0
    BY <1>1, <2>2, Zenon DEF CallOutcome, Settled, FinalError
  <2> QED
    BY <1>2, <1>3, <1>5, <2>1, <2>2, Zenon
<1> QED
  BY <1>4, <1>5, Zenon

\* The end of ExecuteViciCommandUntil publishes a diagnostic that is true.
LEMMA OutcomeRelease ==
    ASSUME TypeOK, TypeOK', CallInv, OutcomeInv, NEW t \in Thread, Release(t)
    PROVE  OutcomeInv'
<1> ThreadsTyped /\ DaemonTyped /\ (ThreadsTyped /\ DaemonTyped)'
  BY DEF TypeOK
<1>1. PICK c \in Call : c = call[t]
  BY DEF Release, ThreadsTyped
<1>2. /\ pc[t] \in {"RELEASE", "GIVEUP"} /\ pc'[t] = "IDLE" /\ call'[t] = NoCall
      /\ local'[t] = EmptyFrame
      /\ \A u \in Thread : u # t =>
            pc'[u] = pc[u] /\ local'[u] = local[u] /\ call'[u] = call[u]
  BY DEF Release, Goto, ThreadsTyped
<1>3. /\ executed' = executed /\ applied' = applied /\ orphans' = orphans
      /\ serving' = serving /\ toClient' = toClient
  BY DEF Release, stream, daemon
<1>4. PICK r : r = OutcomeOf(t) /\ result'[c] = r
  BY <1>1, Zenon DEF Release, ThreadsTyped, DaemonTyped
<1>5. \A d \in Call : d # c => result'[d] = result[d]
  BY <1>1, Zenon DEF Release, ThreadsTyped, DaemonTyped
<1>6. ASSUME NEW u \in Thread PROVE FrameInv(u)' /\ (pc'[u] # "IDLE" => CallOutcome(u)')
  <2>1. CASE u = t
    <3>1. FrameInv(t)'
      BY <1>2 DEF FrameInv, EmptyFrame
    <3> QED
      BY <1>2, <2>1, <3>1
  <2>2. CASE u # t
    <3>1. FrameInv(u)'
      BY <1>2, <2>2 DEF OutcomeInv, FrameInv
    <3>2. \A d : RepliesHonest(d) => RepliesHonest(d)'
      BY <1>3 DEF RepliesHonest
    <3>3. PICK d : d = call[u] /\ d = call'[u]
      BY <1>2, <2>2
    <3>4. CallOutcome(u) => CallOutcome(u)'
      BY <1>2, <1>3, <2>2, <3>2, Zenon DEF CallOutcome, Settled
    <3> QED
      BY <1>2, <3>1, <3>4, Zenon DEF OutcomeInv
  <2> QED
    BY <2>1, <2>2
<1>7. Told(c)'
  <2>1. /\ c \in orphans => r.bOutcomeUnknown
        /\ c \in Mutation /\ ~r.bOutcomeUnknown =>
              \/ r.eError = "OK" /\ c \in applied
              \/ r.eError # "OK" /\ (c \notin applied \/ executed[c] = 0)
    BY <1>1, <1>2, <1>4, ReleaseVerdict
  <2>2. executed[c] = 0 => c \notin applied
    BY DEF OutcomeInv
  <2> QED
    BY <1>3, <1>4, <2>1, <2>2, Zenon DEF Told
<1>8. ASSUME NEW d \in Call, d # c PROVE result'[d] # NoResult => Told(d)'
  BY <1>3, <1>5, <1>8, Zenon DEF OutcomeInv, Told
<1> QED
  BY <1>3, <1>6, <1>7, <1>8, Zenon DEF OutcomeInv

\* The daemon runs call c, of which no thread has read an answer and which no
\* caller was told a known outcome of.
LEMMA OutcomeRuns ==
    ASSUME TypeOK, TypeOK', CallInv, OnceInv, OutcomeInv, NEW c \in Call, DaemonRuns(c),
           executed[c] = 0,
           pc' = pc, call' = call, local' = local, result' = result,
           orphans' \subseteq orphans, serving' \in {serving, c, NoCall},
           \A t \in Thread : call[t] = c => local[t].bSendAttempted /\ ~local[t].bResponseValid,
           \A t \in Thread : call[t] = c /\ pc[t] = "RECEIVE" => toClient = <<>>,
           toClient' = toClient,
           result[c] # NoResult => result[c].bOutcomeUnknown
    PROVE  OutcomeInv'
<1> ThreadsTyped /\ DaemonTyped /\ (ThreadsTyped /\ DaemonTyped)'
  BY DEF TypeOK
<1>1. /\ executed'[c] = 1 /\ \A d \in Call : d # c => executed'[d] = executed[d]
      /\ \A d \in Call : d # c => (d \in applied' <=> d \in applied)
  BY DEF DaemonRuns, DaemonTyped
<1>2. ASSUME NEW t \in Thread PROVE FrameInv(t)' /\ (pc'[t] # "IDLE" => CallOutcome(t)')
  <2>1. FrameInv(t)'
    BY Zenon DEF OutcomeInv, FrameInv
  <2>2. ASSUME pc[t] # "IDLE" PROVE CallOutcome(t)'
    <3>1. CallOutcome(t) /\ call[t] \in Call
      BY <2>2, Zenon DEF OutcomeInv, ThreadsTyped
    <3>2. PICK d \in Call : d = call[t] /\ d = call'[t]
      BY <3>1, Zenon
    <3>3. pc[t] = "RECEIVE" /\ RepliesHonest(d) => RepliesHonest(d)'
      <4>1. CASE d = c
        <5>1. pc[t] = "RECEIVE" => toClient' = <<>>
          BY <3>2, <4>1, Zenon
        <5> QED
          BY <5>1 DEF RepliesHonest
      <4>2. CASE d # c
        BY <1>1, <4>2 DEF RepliesHonest
      <4> QED
        BY <4>1, <4>2, Zenon
    <3>4. CASE d = c
      BY <3>1, <3>2, <3>3, <3>4, Zenon DEF CallOutcome
    <3>5. CASE d # c
      BY <1>1, <3>1, <3>2, <3>3, Zenon DEF CallOutcome, Settled
    <3> QED
      BY <3>4, <3>5, Zenon
  <2> QED
    BY <2>1, <2>2, Zenon
<1>3. ASSUME NEW d \in Call
      PROVE  /\ result'[d] # NoResult => Told(d)'
             /\ d \in applied' => executed'[d] = 1
             /\ serving' = d => executed'[d] = 1
  <2>1. CASE d = c
    BY <1>1, <2>1, Zenon DEF Told
  <2>2. CASE d # c
    BY <1>1, CallAssumption DEF OutcomeInv, Told
  <2> QED
    BY <2>1, <2>2, Zenon
<1> QED
  BY <1>2, <1>3, Zenon DEF OutcomeInv

\* A step that runs nothing and adds at most honest frames for the reader.
LEMMA OutcomeFrames ==
    ASSUME TypeOK, TypeOK', OutcomeInv,
           pc' = pc, call' = call, local' = local, result' = result,
           executed' = executed, applied' = applied,
           orphans' \subseteq orphans, serving' \in {serving, NoCall},
           \A t \in Thread, c \in Call :
               pc[t] = "RECEIVE" /\ c = call[t] /\ RepliesHonest(c) => RepliesHonest(c)'
    PROVE  OutcomeInv'
<1> ThreadsTyped /\ DaemonTyped /\ (ThreadsTyped /\ DaemonTyped)'
  BY DEF TypeOK
<1>1. ASSUME NEW t \in Thread PROVE FrameInv(t)' /\ (pc'[t] # "IDLE" => CallOutcome(t)')
  <2>1. FrameInv(t)'
    BY Zenon DEF OutcomeInv, FrameInv
  <2>2. ASSUME pc[t] # "IDLE" PROVE CallOutcome(t)'
    <3>1. CallOutcome(t) /\ call[t] \in Call
      BY <2>2, Zenon DEF OutcomeInv, ThreadsTyped
    <3>2. PICK c \in Call : c = call[t] /\ c = call'[t]
      BY <3>1
    <3> QED
      BY <3>1, Zenon DEF CallOutcome, Settled
  <2> QED
    BY <2>1, <2>2
<1>2. ASSUME NEW d \in Call
      PROVE  /\ result'[d] # NoResult => Told(d)'
             /\ d \in applied' => executed'[d] = 1
             /\ serving' = d => executed'[d] = 1
  BY CallAssumption, Zenon DEF OutcomeInv, Told
<1> QED
  BY <1>1, <1>2, Zenon DEF OutcomeInv

\* A frame put behind those on the stream.
LEMMA AnswerAppends ==
    ASSUME TypeOK, NEW type, NEW c, NEW success
    PROVE  /\ Len(Answer(type, c, success)) = Len(toClient) + 1
           /\ \A i \in 1..Len(toClient) : Answer(type, c, success)[i] = toClient[i]
           /\ Answer(type, c, success)[Len(toClient) + 1].type = type
           /\ Answer(type, c, success)[Len(toClient) + 1].success = success
           /\ Len(toClient) \in Nat
<1> ThreadsTyped /\ DaemonTyped
  BY DEF TypeOK
<1>1. toClient \in Seq(Reply)
  BY DEF ThreadsTyped, DaemonTyped
<1> DEFINE f == [type |-> type, call |-> c, success |-> success]
<1>2. f.type = type /\ f.success = success
  OBVIOUS
<1>3. Answer(type, c, success) = Append(toClient, f)
  BY DEF Answer
<1> HIDE DEF f
<1> QED
  BY <1>2, <1>3

\* An answer keeps the frames honest when it is honest itself.
LEMMA AnswerHonest ==
    ASSUME TypeOK, NEW type, NEW b, NEW success, toClient' = Answer(type, b, success),
           executed' = executed, applied' = applied, NEW c, RepliesHonest(c),
           type = "RESPONSE" => /\ executed[c] = 1
                                /\ success = "yes" => c \in applied
                                /\ success = "no" => c \notin applied,
           type = "COMMAND_UNKNOWN" => executed[c] = 0
    PROVE  RepliesHonest(c)'
BY AnswerAppends DEF RepliesHonest

\* Every step of the daemon keeps the diagnostics true.
LEMMA OutcomeDaemon ==
    ASSUME TypeOK, TypeOK', SlotExclusive, CallInv, StreamInv, OnceInv, OutcomeInv, DaemonStep
    PROVE  OutcomeInv'
<1> ThreadsTyped /\ DaemonTyped /\ (ThreadsTyped /\ DaemonTyped)'
  BY DEF TypeOK
<1>0. pc' = pc /\ call' = call /\ local' = local /\ result' = result
  BY OthersStay
<1>1. CASE DaemonRegistration
  <2>1. /\ executed' = executed /\ applied' = applied /\ orphans' = orphans /\ serving' = serving
        /\ toDaemon # <<>> /\ Head(toDaemon).type # "REQUEST"
    BY <1>1 DEF DaemonRegistration, daemon
  <2>2. \A t \in Thread : pc[t] # "RECEIVE"
    <3>1. SUFFICES ASSUME NEW t \in Thread, pc[t] = "RECEIVE" PROVE FALSE
      OBVIOUS
    <3>2. toDaemon = <<[type |-> "REQUEST", call |-> call[t]]>>
      BY <2>1, <3>1, Zenon DEF StreamInv, StageInv, Answering
    <3> QED
      BY <2>1, <3>2
  <2> QED
    BY <1>0, <2>1, <2>2, OutcomeFrames, Zenon
<1>2. CASE DaemonAccept
  <2> DEFINE c == Head(toDaemon).call
  <2>1. c \in Call /\ c \in Unread
    BY <1>2, AcceptOwn
  <2>2. PICK t \in Thread : pc[t] = "RECEIVE" /\ call[t] = c
    BY <1>2, AcceptOwn
  <2>3. pc[t] \in Owning /\ FrameInv(t) /\ toClient = <<>>
    BY <2>1, <2>2, UnreadOwner, Zenon DEF Owning, OutcomeInv
  <2>4. \A u \in Thread : call[u] = c => u = t
    BY <2>1, <2>2, CallAssumption DEF CallInv
  <2>5. executed[c] = 0 /\ result[c] = NoResult
    BY <2>1, <2>2, CallAssumption DEF OnceInv, CallInv
  <2>6. /\ orphans' = orphans
        /\ \/ DaemonRuns(c) /\ serving' = c /\ toClient' = toClient
           \/ /\ \E type \in {"COMMAND_UNKNOWN", "CONFIRM"} : toClient' = Answer(type, c, "absent")
              /\ serving' = serving /\ executed' = executed /\ applied' = applied
    BY <1>2, Zenon DEF DaemonAccept, daemon
  <2> HIDE DEF c
  <2>7. CASE DaemonRuns(c) /\ serving' = c /\ toClient' = toClient
    <3>1. local[t].bSendAttempted /\ ~local[t].bResponseValid
      BY <2>2, <2>3, Zenon DEF FrameInv
    <3>2. \A u \in Thread : call[u] = c => local[u].bSendAttempted /\ ~local[u].bResponseValid
      BY <2>4, <3>1
    <3> QED
      BY <1>0, <2>1, <2>3, <2>5, <2>6, <2>7, <3>2, OutcomeRuns, Zenon
  <2>8. CASE /\ \E type \in {"COMMAND_UNKNOWN", "CONFIRM"} : toClient' = Answer(type, c, "absent")
             /\ serving' = serving /\ executed' = executed /\ applied' = applied
    <3>1. PICK type \in {"COMMAND_UNKNOWN", "CONFIRM"} : toClient' = Answer(type, c, "absent")
      BY <2>8
    <3>2. ASSUME NEW u \in Thread, NEW d \in Call, pc[u] = "RECEIVE", d = call[u], RepliesHonest(d)
          PROVE  RepliesHonest(d)'
      <4>1. d = c
        BY <2>2, <3>2 DEF SlotExclusive, Owning
      <4> QED
        BY <2>5, <2>8, <3>2, <4>1, AnswerHonest
    <3> QED
      BY <1>0, <2>6, <2>8, <3>2, OutcomeFrames, Zenon
  <2> QED
    BY <2>6, <2>7, <2>8
<1>3. CASE DaemonEvent
  <2>1. /\ executed' = executed /\ applied' = applied /\ orphans' = orphans /\ serving' = serving
        /\ toClient' = Answer("EVENT", serving, "absent")
    BY <1>3 DEF DaemonEvent, daemon
  <2>2. \A c : RepliesHonest(c) => RepliesHonest(c)'
    BY <2>1, AnswerHonest
  <2> QED
    BY <1>0, <2>1, <2>2, OutcomeFrames, Zenon
<1>4. CASE DaemonRespond
  <2>1. /\ executed' = executed /\ applied' = applied /\ orphans' = orphans /\ serving' = NoCall
        /\ serving \in Call
    BY <1>4, Zenon DEF DaemonRespond, daemon, ThreadsTyped, DaemonTyped
  <2>2. PICK success \in {"absent", IF serving \in applied THEN "yes" ELSE "no"} :
            toClient' = Answer("RESPONSE", serving, success)
    BY <1>4 DEF DaemonRespond
  <2>3. executed[serving] = 1
    BY <2>1 DEF OutcomeInv
  <2>4. ASSUME NEW u \in Thread, NEW d \in Call, pc[u] = "RECEIVE", d = call[u], RepliesHonest(d)
        PROVE  RepliesHonest(d)'
    <3>1. d = serving
      BY <2>1, <2>4, CallAssumption, Zenon DEF StreamInv, StageInv, Answering
    <3> QED
      BY <2>1, <2>2, <2>3, <2>4, <3>1, AnswerHonest
  <2> QED
    BY <1>0, <2>1, <2>4, OutcomeFrames, Zenon
<1>5. CASE DaemonRestart
  <2>1. /\ executed' = executed /\ applied' = applied /\ orphans' = {} /\ serving' = NoCall
        /\ toClient' = toClient
    BY <1>5 DEF DaemonRestart, daemon
  <2>2. \A c : RepliesHonest(c) => RepliesHonest(c)'
    BY <2>1 DEF RepliesHonest
  <2> QED
    BY <1>0, <2>1, <2>2, OutcomeFrames
<1>6. ASSUME NEW c \in Call, DaemonServesOrphan(c) PROVE OutcomeInv'
  <2>1. /\ c \in orphans /\ orphans' = orphans \ {c} /\ DaemonRuns(c)
        /\ serving' = serving /\ toClient' = toClient
    BY <1>6 DEF DaemonServesOrphan
  <2>2. executed[c] = 0
    BY <2>1 DEF OnceInv
  <2>3. \A t \in Thread : call[t] = c =>
            pc[t] = "RELEASE" /\ local[t].bSendAttempted /\ ~local[t].bResponseValid
    BY <2>1, CallAssumption DEF OutcomeInv, CallOutcome, ThreadsTyped
  <2>4. result[c] # NoResult => result[c].bOutcomeUnknown
    BY <2>1 DEF OutcomeInv, Told
  <2> QED
    BY <1>0, <2>1, <2>2, <2>3, <2>4, OutcomeRuns, Zenon
<1> QED
  BY <1>1, <1>2, <1>3, <1>4, <1>5, <1>6 DEF DaemonStep

\* Every step keeps the diagnostics true.
LEMMA OutcomeStep ==
    ASSUME TypeOK, TypeOK', SlotExclusive, CallInv, StreamInv, OnceInv, OutcomeInv, [Next]_vars
    PROVE  OutcomeInv'
<1> ThreadsTyped /\ DaemonTyped /\ (ThreadsTyped /\ DaemonTyped)'
  BY DEF TypeOK
<1>1. ASSUME NEW t \in Thread, OwnerStep(t) PROVE OutcomeInv'
  BY <1>1, OutcomeOwner
<1>2. ASSUME NEW t \in Thread, Release(t) PROVE OutcomeInv'
  BY <1>2, OutcomeRelease
<1>3. ASSUME NEW t \in Thread, AcquireViciCommand(t) PROVE OutcomeInv'
  <2>1. /\ pc[t] = "QUEUE" /\ pc'[t] = "CONNECT" /\ \A u \in Thread : u # t => pc'[u] = pc[u]
        /\ call' = call /\ local' = local /\ result' = result
    BY <1>3, Zenon DEF AcquireViciCommand, Goto, ThreadsTyped, DaemonTyped
  <2>2. /\ executed' = executed /\ applied' = applied /\ orphans' = orphans
        /\ serving' = serving /\ toClient' = toClient
    BY <1>3 DEF AcquireViciCommand, stream, daemon
  <2>3. FrameInv(t)' /\ CallOutcome(t)'
    BY <2>1, <2>2, Zenon DEF OutcomeInv, FrameInv, CallOutcome, Before
  <2> QED
    BY <2>1, <2>2, <2>3, OutcomeOne, Zenon
<1>4. ASSUME NEW t \in Thread, AcquireFails(t) PROVE OutcomeInv'
  <2>1. /\ pc[t] = "QUEUE" /\ pc'[t] = "GIVEUP" /\ \A u \in Thread : u # t => pc'[u] = pc[u]
        /\ call' = call /\ result' = result
    BY <1>4, Zenon DEF AcquireFails, Goto, ThreadsTyped
  <2>2. /\ executed' = executed /\ applied' = applied /\ orphans' = orphans
        /\ serving' = serving /\ toClient' = toClient
    BY <1>4 DEF AcquireFails, stream, daemon
  <2>3. PICK e \in {"CANCELLED", "TIMEOUT"} :
            local' = [local EXCEPT ![t] = [local[t] EXCEPT !.eError = e]]
    BY <1>4, Zenon DEF AcquireFails
  <2> DEFINE g == [local[t] EXCEPT !.eError = e]
  <2>4. /\ local' = [local EXCEPT ![t] = g]
        /\ g.eError = e /\ g.success = local[t].success
        /\ g.bSendAttempted = local[t].bSendAttempted
        /\ g.bResponseValid = local[t].bResponseValid
        /\ g.bRegistered = local[t].bRegistered
    <3>1. local[t] \in Local
      BY Zenon DEF ThreadsTyped, DaemonTyped
    <3> QED
      BY <2>3, <3>1, ErrorField, Zenon
  <2> HIDE DEF g
  <2>5. local'[t] = g /\ \A u \in Thread : u # t => local'[u] = local[u]
    BY <2>4, Zenon DEF ThreadsTyped, DaemonTyped
  <2>6. FrameInv(t) /\ CallOutcome(t)
    BY <2>1 DEF OutcomeInv
  <2>7. /\ ~g.bSendAttempted /\ ~g.bResponseValid /\ g.success = "absent"
        /\ g.bRegistered => call[t] \in Streamed
    BY <2>1, <2>4, <2>6, Zenon DEF FrameInv, Before
  <2>8. FrameInv(t)'
    BY <2>1, <2>4, <2>5, <2>7, Zenon DEF FrameInv, Before
  <2>9. CallOutcome(t)'
    BY <2>1, <2>2, <2>5, <2>6, <2>7, Zenon DEF CallOutcome, FrameInv, Before
  <2> QED
    BY <2>1, <2>2, <2>5, <2>8, <2>9, OutcomeOne, Zenon
<1>5. ASSUME NEW t \in Thread, NEW c \in Call, Submit(t, c) PROVE OutcomeInv'
  <2>1. /\ pc[t] = "IDLE" /\ pc'[t] = "QUEUE" /\ \A u \in Thread : u # t => pc'[u] = pc[u]
        /\ call'[t] = c /\ \A u \in Thread : u # t => call'[u] = call[u]
        /\ local' = local /\ result' = result
        /\ result[c] = NoResult /\ \A u \in Thread : call[u] # c
    BY <1>5, Zenon DEF Submit, Goto, ThreadsTyped
  <2>2. /\ executed' = executed /\ applied' = applied /\ orphans' = orphans
        /\ serving' = serving /\ toClient' = toClient
    BY <1>5 DEF Submit, stream, daemon
  <2>3. executed[c] = 0 /\ c \notin orphans
    BY <2>1, Zenon DEF OnceInv
  <2>4. FrameInv(t)
    BY DEF OutcomeInv
  <2>5. /\ ~local[t].bSendAttempted /\ ~local[t].bResponseValid /\ ~local[t].bRegistered
        /\ local[t].success = "absent" /\ local[t].eError = "OK"
    <3>1. call[t] = NoCall
      BY <2>1, Zenon DEF ThreadsTyped, DaemonTyped
    <3> QED
      BY <2>1, <2>4, <3>1, CallAssumption, Zenon DEF FrameInv
  <2>6. FrameInv(t)' /\ CallOutcome(t)'
    BY <2>1, <2>2, <2>3, <2>5, Zenon DEF FrameInv, CallOutcome
  <2> QED
    BY <2>1, <2>2, <2>6, OutcomeOne, Zenon
<1>6. CASE DaemonStep
  BY <1>6, OutcomeDaemon
<1>7. CASE \/ \E t \in Thread : Expire(t)
           \/ CancelIpsecWaits \/ CloseViciWaits \/ UNCHANGED vars
  <2>1. pc' = pc /\ call' = call /\ local' = local /\ result' = result
    BY <1>7, OthersStay
  <2>2. /\ executed' = executed /\ applied' = applied /\ orphans' = orphans
        /\ serving' = serving /\ toClient' = toClient
    BY <1>7, Zenon DEF Expire, CancelIpsecWaits, CloseViciWaits, vars, stream, daemon
  <2>3. \A c : RepliesHonest(c) => RepliesHonest(c)'
    BY <2>2 DEF RepliesHonest
  <2> QED
    BY <2>1, <2>2, <2>3, OutcomeFrames, Zenon
<1> QED
  BY <1>1, <1>2, <1>3, <1>4, <1>5, <1>6, <1>7, Zenon DEF Next, ThreadStep, OwnerStep

\* The invariants behind the diagnostics.
THEOREM OutcomeInvariance == Spec => [](CallInv /\ OnceInv /\ OutcomeInv)
<1>1. Init => CallInv /\ OnceInv
  BY DEF Init, CallInv, OnceInv, Unread, Before
<1>2. Init => OutcomeInv
  BY CallAssumption DEF Init, OutcomeInv, FrameInv, EmptyFrame, Before
<1>3. TypeOK /\ TypeOK' /\ SlotExclusive /\ StreamInv /\ CallInv /\ OnceInv /\ OutcomeInv /\ [Next]_vars
        => CallInv' /\ OnceInv' /\ OutcomeInv'
  BY SlotStep, OnceStep, OutcomeStep
<1> QED
  BY <1>1, <1>2, <1>3, TypeCorrect, SlotIsExclusive, StreamInStep, PTL DEF Spec

\* bOutcomeUnknown is honest (vici_client.c, the end of ExecuteViciCommandUntil):
\* a mutation reported done is in effect, one reported failed is not and never
\* will be, and whatever is left open is reported as unknown.
THEOREM DiagnosticsHonest == Spec => []OutcomeHonest
<1>1. TypeOK /\ SlotExclusive /\ StreamInv /\ CallInv /\ OutcomeInv => OutcomeHonest
  <2> SUFFICES ASSUME TypeOK, SlotExclusive, StreamInv, CallInv, OutcomeInv, NEW c \in Mutation,
                      result[c] # NoResult, ~result[c].bOutcomeUnknown
               PROVE  IF result[c].eError = "OK" THEN c \in applied
                                                 ELSE c \notin applied /\ ~Pending(c)
    BY DEF OutcomeHonest
  <2>1. c \in Call /\ Told(c)
    BY CallAssumption DEF OutcomeInv
  <2>2. c \notin Unread
    <3>1. ASSUME c \in Unread PROVE FALSE
      <4>1. PICK t \in Thread : call[t] = c
        BY <3>1, UnreadIsOwn
      <4> QED
        BY <4>1, CallAssumption DEF CallInv
    <3> QED
      BY <3>1
  <2> QED
    BY <2>1, <2>2 DEF Told, Pending
<1> QED
  BY <1>1, TypeCorrect, SlotIsExclusive, StreamInStep, OutcomeInvariance, PTL

-----------------------------------------------------------------------------
(* The command path implements the command service                         *)

\* The status of a call that a thread is executing.
LEMMA StatusOfCall ==
    ASSUME TypeOK, CallInv, NEW t \in Thread, NEW c \in Call, c = call[t]
    PROVE  Status(c) = IF pc[t] \in Owning THEN "running" ELSE "pending"
<1>1. result[c] = NoResult /\ \A u \in Thread : call[u] = c => u = t
  BY CallAssumption DEF CallInv
<1> QED
  BY <1>1 DEF Status

\* Steps the service does not see.
LEMMA ServiceStutters ==
    ASSUME call' = call, result' = result, executed' = executed, applied' = applied,
           \A u \in Thread : pc'[u] \in Owning <=> pc[u] \in Owning
    PROVE  UNCHANGED Service!vars
<1>1. \A c \in Call : Status(c)' = Status(c)
  BY DEF Status
<1>2. \A c \in Call : Outcome(c)' = Outcome(c)
  BY DEF Outcome
<1> QED
  BY <1>1, <1>2 DEF Service!vars

\* A step of thread t that changes the status of its call c only.
LEMMA ServiceMoves ==
    ASSUME TypeOK, TypeOK', CallInv, CallInv', NEW t \in Thread, NEW c \in Call,
           call[t] \in {c, NoCall}, call'[t] \in {c, NoCall},
           \A u \in Thread : u # t => pc'[u] = pc[u] /\ call'[u] = call[u],
           \A d \in Call : d # c => result'[d] = result[d]
    PROVE  \A d \in Call : d # c => Status(d)' = Status(d) /\ Outcome(d)' = Outcome(d)
<1> TAKE d \in Call
<1> HAVE d # c
<1>1. call[t] # d /\ call'[t] # d
  BY CallAssumption
<1>2. /\ (\E u \in Thread : call'[u] = d) <=> (\E u \in Thread : call[u] = d)
      /\ (\E u \in Thread : call'[u] = d /\ pc'[u] \in Owning)
            <=> (\E u \in Thread : call[u] = d /\ pc[u] \in Owning)
  BY <1>1
<1>3. Status(d)' = Status(d)
  BY <1>2, Zenon DEF Status
<1>4. Outcome(d)' = Outcome(d)
  BY DEF Outcome
<1> QED
  BY <1>3, <1>4

\* The daemon runs a call in the service when it runs it here.
LEMMA ServiceRuns ==
    ASSUME TypeOK, NEW c \in Call, DaemonRuns(c), executed[c] = 0,
           pc' = pc, call' = call, result' = result,
           \/ Status(c) = "running"
           \/ Status(c) = "returned" /\ Outcome(c) = "unknown"
    PROVE  Service!Next
<1> ThreadsTyped /\ DaemonTyped
  BY DEF TypeOK
<1>1. \A d \in Call : Status(d)' = Status(d) /\ Outcome(d)' = Outcome(d)
  BY DEF Status, Outcome
<1>2. executed' = [executed EXCEPT ![c] = 1] /\ applied' \in {applied, applied \cup {c}}
  BY DEF DaemonRuns, ThreadsTyped, DaemonTyped
<1>3. Service!Run(c)
  BY <1>1, <1>2 DEF Service!Run
<1> QED
  BY <1>3 DEF Service!Next

\* Submit is Invoke and AcquireViciCommand is Start.
LEMMA ServiceStarts ==
    ASSUME TypeOK, TypeOK', SlotExclusive, CallInv, CallInv', NEW t \in Thread,
           AcquireViciCommand(t) \/ \E c \in Call : Submit(t, c)
    PROVE  Service!Next
<1> ThreadsTyped /\ DaemonTyped /\ (ThreadsTyped /\ DaemonTyped)'
  BY DEF TypeOK
<1>1. CASE AcquireViciCommand(t)
  <2>1. PICK c \in Call : c = call[t]
    BY <1>1, Zenon DEF AcquireViciCommand, ThreadsTyped
  <2>2. /\ pc[t] = "QUEUE" /\ pc'[t] = "CONNECT" /\ ~bActive
        /\ call' = call /\ result' = result /\ executed' = executed /\ applied' = applied
        /\ \A u \in Thread : u # t => pc'[u] = pc[u]
    BY <1>1, Zenon DEF AcquireViciCommand, Goto, ThreadsTyped, daemon
  <2>3. \A d \in Call : d # c => Status(d)' = Status(d) /\ Outcome(d)' = Outcome(d)
    BY <2>1, <2>2, ServiceMoves, Zenon
  <2>4. Status(c) = "pending"
    BY <2>1, <2>2, StatusOfCall DEF Owning
  <2>5. Status(c)' = "running"
    <3>1. result'[c] = NoResult
      BY <2>1, <2>2, CallAssumption DEF CallInv
    <3> QED
      BY <2>1, <2>2, <3>1, Zenon DEF Status, Owning
  <2>6. Outcome(c)' = Outcome(c)
    BY <2>2 DEF Outcome
  <2>7. \A d \in Call : Status(d) # "running"
    BY <2>2 DEF Status, SlotExclusive
  <2>8. Service!Start(c)
    BY <2>2, <2>3, <2>4, <2>5, <2>6, <2>7, Zenon DEF Service!Start
  <2> QED
    BY <2>8 DEF Service!Next
<1>2. ASSUME NEW c \in Call, Submit(t, c) PROVE Service!Next
  <2>1. /\ pc[t] = "IDLE" /\ pc'[t] = "QUEUE" /\ call'[t] = c /\ call[t] = NoCall
        /\ result' = result /\ executed' = executed /\ applied' = applied
        /\ result[c] = NoResult /\ \A u \in Thread : call[u] # c
        /\ \A u \in Thread : u # t => pc'[u] = pc[u] /\ call'[u] = call[u]
    BY <1>2 DEF Submit, Goto, ThreadsTyped, daemon
  <2>2. \A d \in Call : d # c => Status(d)' = Status(d) /\ Outcome(d)' = Outcome(d)
    BY <2>1, ServiceMoves, Zenon
  <2>3. Status(c) = "new" /\ Status(c)' = "pending"
    BY <2>1 DEF Status, Owning
  <2>4. Outcome(c)' = Outcome(c)
    BY <2>1, Zenon DEF Outcome
  <2>5. Service!Invoke(c)
    BY <2>1, <2>2, <2>3, <2>4, Zenon DEF Service!Invoke
  <2> QED
    BY <2>5 DEF Service!Next
<1> QED
  BY <1>1, <1>2

\* Release is Return: what the caller is told is truthful.
LEMMA ServiceReturns ==
    ASSUME TypeOK, TypeOK', CallInv, CallInv', OutcomeInv, NEW t \in Thread, Release(t)
    PROVE  Service!Next
<1> ThreadsTyped /\ DaemonTyped /\ (ThreadsTyped /\ DaemonTyped)'
  BY DEF TypeOK
<1>1. PICK c \in Call : c = call[t]
  BY DEF Release, ThreadsTyped
<1>2. /\ pc[t] \in {"RELEASE", "GIVEUP"} /\ call'[t] = NoCall
      /\ executed' = executed /\ applied' = applied
      /\ \A u \in Thread : u # t => pc'[u] = pc[u] /\ call'[u] = call[u]
  BY Zenon DEF Release, Goto, ThreadsTyped, daemon
<1>3. PICK r : r = OutcomeOf(t) /\ result'[c] = r
  BY <1>1, Zenon DEF Release, ThreadsTyped, DaemonTyped
<1>4. \A d \in Call : d # c => result'[d] = result[d]
  BY <1>1, Zenon DEF Release, ThreadsTyped
<1>5. \A d \in Call : d # c => Status(d)' = Status(d) /\ Outcome(d)' = Outcome(d)
  BY <1>1, <1>2, <1>4, ServiceMoves
<1>6. r # NoResult
  <2>1. FinalError(t) \in Error
    BY Zenon DEF FinalError, ThreadsTyped, DaemonTyped, Local, Error
  <2>2. r.eError # "none" /\ NoResult.eError = "none"
    BY <1>3, <2>1 DEF OutcomeOf, NoResult, Error
  <2> QED
    BY <2>2, SMTT(30)
<1>7. Status(c)' = "returned"
  BY <1>3, <1>6 DEF Status
<1>8. Status(c) = IF pc[t] = "RELEASE" THEN "running" ELSE "pending"
  BY <1>1, <1>2, StatusOfCall DEF Owning
<1>9. PICK o \in {"ok", "refused", "failed", "unknown"} :
         /\ Outcome(c)' = o
         /\ o = "unknown" <=> r.bOutcomeUnknown
         /\ o = "ok" => r.eError = "OK"
         /\ o = "refused" => r.eError = "COMMAND"
         /\ o = "failed" => r.eError \notin {"OK", "COMMAND"}
         /\ ~r.bOutcomeUnknown /\ r.eError \notin {"OK", "COMMAND"} => o = "failed"
  BY <1>3, <1>6 DEF Outcome
<1>10. /\ pc[t] = "GIVEUP" => o = "failed"
       /\ c \in Mutation /\ o # "unknown" =>
             \/ r.eError = "OK" /\ c \in applied
             \/ r.eError = "COMMAND" /\ c \notin applied /\ executed[c] = 1
             \/ r.eError \notin {"OK", "COMMAND"} /\ executed[c] = 0
  BY <1>1, <1>2, <1>3, <1>9, ReleaseVerdict
<1>11. Service!Truthful(c, o)
  BY <1>9, <1>10 DEF Service!Truthful
<1>12. Service!Return(c)
  BY <1>2, <1>5, <1>7, <1>8, <1>9, <1>10, <1>11, Zenon DEF Service!Return
<1> QED
  BY <1>12 DEF Service!Next

\* Every step of the command path is a step of the service or none.
LEMMA ServiceStep ==
    ASSUME TypeOK, TypeOK', SlotExclusive, CallInv, CallInv', StreamInv, OnceInv, OutcomeInv,
           [Next]_vars
    PROVE  [Service!Next]_(Service!vars)
<1> ThreadsTyped /\ DaemonTyped /\ (ThreadsTyped /\ DaemonTyped)'
  BY DEF TypeOK
<1>1. ASSUME NEW t \in Thread, OwnerStep(t) PROVE UNCHANGED Service!vars
  <2>1. PICK s \in Owning : pc' = [pc EXCEPT ![t] = s]
    BY <1>1, OwnerMoves
  <2>2. pc[t] \in Owning /\ call' = call /\ result' = result /\ executed' = executed /\ applied' = applied
    BY <1>1, OwnerMoves, Zenon
  <2>3. \A u \in Thread : pc'[u] \in Owning <=> pc[u] \in Owning
    BY <2>1, <2>2, Zenon DEF ThreadsTyped
  <2> QED
    BY <2>2, <2>3, ServiceStutters
<1>2. ASSUME NEW t \in Thread, AcquireFails(t) PROVE UNCHANGED Service!vars
  <2>1. /\ pc[t] = "QUEUE" /\ pc'[t] = "GIVEUP" /\ \A u \in Thread : u # t => pc'[u] = pc[u]
        /\ call' = call /\ result' = result /\ executed' = executed /\ applied' = applied
    BY <1>2, Zenon DEF AcquireFails, Goto, ThreadsTyped, daemon
  <2>2. \A u \in Thread : pc'[u] \in Owning <=> pc[u] \in Owning
    BY <2>1 DEF Owning
  <2> QED
    BY <2>1, <2>2, ServiceStutters, Zenon
<1>3. ASSUME NEW t \in Thread, AcquireViciCommand(t) \/ \E c \in Call : Submit(t, c)
      PROVE  Service!Next
  BY <1>3, ServiceStarts
<1>4. ASSUME NEW t \in Thread, Release(t) PROVE Service!Next
  BY <1>4, ServiceReturns
<1>5. CASE \/ \E t \in Thread : Expire(t)
           \/ CancelIpsecWaits \/ CloseViciWaits \/ DaemonStep \/ UNCHANGED vars
  <2>1. pc' = pc /\ call' = call /\ result' = result
    BY <1>5, OthersStay
  <2>2. CASE executed' = executed /\ applied' = applied
    BY <2>1, <2>2, ServiceStutters
  <2>3. CASE DaemonAccept /\ ~(executed' = executed /\ applied' = applied)
    <3> DEFINE c == Head(toDaemon).call
    <3>1. c \in Call /\ c \in Unread
      BY <2>3, AcceptOwn
    <3>2. PICK t \in Thread : pc[t] = "RECEIVE" /\ call[t] = c
      BY <2>3, AcceptOwn
    <3>3. DaemonRuns(c)
      BY <2>3, Zenon DEF DaemonAccept, daemon
    <3> HIDE DEF c
    <3>4. Status(c) = "running" /\ executed[c] = 0
      BY <3>1, <3>2, StatusOfCall, Zenon DEF Owning, OnceInv
    <3> QED
      BY <2>1, <3>1, <3>3, <3>4, ServiceRuns
  <2>4. ASSUME NEW c \in Call, DaemonServesOrphan(c) PROVE Service!Next
    <3>1. c \in orphans /\ DaemonRuns(c) /\ executed[c] = 0
      BY <2>4, Zenon DEF DaemonServesOrphan, OnceInv
    <3>2. CASE result[c] # NoResult
      <4>1. Status(c) = "returned" /\ Outcome(c) = "unknown"
        BY <3>1, <3>2, Zenon DEF OutcomeInv, Told, Status, Outcome
      <4> QED
        BY <2>1, <3>1, <4>1, ServiceRuns
    <3>3. CASE result[c] = NoResult
      <4>1. PICK t \in Thread : call[t] = c
        BY <3>1, <3>3 DEF OnceInv
      <4>2. pc[t] = "RELEASE"
        BY <3>1, <4>1, CallAssumption DEF OutcomeInv, CallOutcome, ThreadsTyped
      <4>3. Status(c) = "running"
        BY <4>1, <4>2, StatusOfCall DEF Owning
      <4> QED
        BY <2>1, <3>1, <4>3, ServiceRuns
    <3> QED
      BY <3>2, <3>3
  <2>5. CASE \/ \E t \in Thread : Expire(t)
             \/ CancelIpsecWaits \/ CloseViciWaits \/ UNCHANGED vars
             \/ DaemonRegistration \/ DaemonEvent \/ DaemonRespond \/ DaemonRestart
    <3>1. executed' = executed /\ applied' = applied
      BY <2>5, Zenon DEF Expire, CancelIpsecWaits, CloseViciWaits, vars, daemon,
         DaemonRegistration, DaemonEvent, DaemonRespond, DaemonRestart
    <3> QED
      BY <2>2, <3>1
  <2> QED
    BY <1>5, <2>2, <2>3, <2>4, <2>5, Zenon DEF DaemonStep
<1> QED
  BY <1>1, <1>2, <1>3, <1>4, <1>5, Zenon DEF Next, ThreadStep, OwnerStep

\* The command path of vici_client.c implements the abstract command service:
\* for any number of threads and calls, calls are served one at a time and run
\* at most once, and no call is run after its caller was told a known outcome.
THEOREM CommandPathImplementsService == Spec => ImplementsService
<1>1. Init => Service!Init
  BY CallAssumption DEF Init, Service!Init, Status, Outcome
<1>2. TypeOK /\ TypeOK' /\ SlotExclusive /\ CallInv /\ CallInv' /\ StreamInv
        /\ OnceInv /\ OutcomeInv /\ [Next]_vars
        => [Service!Next]_(Service!vars)
  BY ServiceStep
<1> QED
  BY <1>1, <1>2, TypeCorrect, SlotIsExclusive, StreamInStep, OutcomeInvariance, PTL
  DEF Spec, ImplementsService, Service!Spec
=============================================================================
