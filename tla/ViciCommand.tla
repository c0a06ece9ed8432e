------------------------------ MODULE ViciCommand ------------------------------
(***************************************************************************)
(* The VICI command path of one IpsecContext (src/ike/vici/vici_client.c   *)
(* and vici_transport.c).  API threads share one stream to charon.  A      *)
(* thread takes the command slot (bActive), connects if needed, registers  *)
(* for the event stream of a list command, sends its request, reads frames *)
(* up to the response, unregisters, and gives the slot back.  The daemon   *)
(* may answer late, answer nonsense, refuse, restart, or run a request     *)
(* that the library has already given up on.                               *)
(*                                                                         *)
(* Time is one flag per thread: the command's absolute deadline has passed *)
(* (expired) or has not.  A frame is sent or received as a whole; one that *)
(* is cut short is the failure of that step.                               *)
(***************************************************************************)
EXTENDS Integers, Sequences, FiniteSets

CONSTANTS
    Thread,        \* API threads that share the context
    Cancellable,   \* threads that issue their commands inside an SA wait
    Call,          \* identities of API calls, each made at most once
    Mutation,      \* calls for which RequireViciSuccessField holds
    Streamed,      \* calls that pass an event name (list-conns, list-sas)
    NoCall,        \* not a call
    StreamWindow   \* frames of one answer the socket buffer holds

ASSUME CallAssumption ==
    /\ Cancellable \subseteq Thread
    /\ Mutation \subseteq Call
    /\ Streamed \subseteq Call
    /\ Mutation \cap Streamed = {}
    /\ NoCall \notin Call
    /\ StreamWindow \in Nat \ {0}

VARIABLES
    bActive, bClosing,    \* IpsecCommandState
    cancelled, expired,   \* threads with a readable cancel fd / past the deadline
    pc, call, local,      \* the frame of ExecuteViciCommandUntil, per thread
    result,               \* Diagnostic of each finished call
    iSocket, peerUp,      \* the library's end of the stream; the daemon's end
    toDaemon, toClient,   \* frames in flight
    listening, serving,   \* the daemon's view of the stream
    orphans,              \* requests left unread on streams the library closed
    executed, applied     \* how often the daemon ran a call; calls in effect

slot == <<bActive, bClosing, cancelled, expired>>
frames == <<pc, call, local>>
stream == <<iSocket, peerUp, toDaemon, toClient, listening, serving, orphans>>
daemon == <<executed, applied>>
vars == <<slot, frames, result, stream, daemon>>

Error == {"OK", "CANCELLED", "TIMEOUT", "CONNECT", "TRANSPORT", "PROTOCOL",
          "NOT_SUPPORTED", "LOCAL", "COMMAND"}

\* Where a thread is: the stages a thread that owns the slot goes through.
Owning == {"CONNECT", "REGISTER", "CONFIRM", "SEND", "RECEIVE",
           "UNREGISTER", "UNCONFIRM", "RELEASE"}
Stage == Owning \cup {"IDLE", "QUEUE", "GIVEUP"}

Success == {"yes", "no", "absent"}
Request == [type : {"REGISTER", "UNREGISTER", "REQUEST"}, call : Call]
Reply == [type : {"CONFIRM", "EVENT_UNKNOWN", "EVENT", "RESPONSE", "COMMAND_UNKNOWN"},
          call : Call, success : Success]
Local == [bRegistered : BOOLEAN, bSendAttempted : BOOLEAN, bResponseValid : BOOLEAN,
          success : Success, eError : Error]
Diagnostic == [eError : Error, bOutcomeUnknown : BOOLEAN]
NoResult == [eError |-> "none", bOutcomeUnknown |-> FALSE]

EmptyFrame == [bRegistered |-> FALSE, bSendAttempted |-> FALSE,
               bResponseValid |-> FALSE, success |-> "absent", eError |-> "OK"]

Init ==
    /\ bActive = FALSE /\ bClosing = FALSE
    /\ cancelled = {} /\ expired = {}
    /\ pc = [t \in Thread |-> "IDLE"]
    /\ call = [t \in Thread |-> NoCall]
    /\ local = [t \in Thread |-> EmptyFrame]
    /\ result = [c \in Call |-> NoResult]
    /\ iSocket = "closed" /\ peerUp = FALSE
    /\ toDaemon = <<>> /\ toClient = <<>>
    /\ listening = FALSE /\ serving = NoCall
    /\ orphans = {}
    /\ executed = [c \in Call |-> 0]
    /\ applied = {}

-----------------------------------------------------------------------------
(* The transport.                                                          *)

\* Requests that are written to the stream and that the daemon has not read.
Unread == {toDaemon[i].call : i \in {j \in DOMAIN toDaemon : toDaemon[j].type = "REQUEST"}}

\* Seeded fault: the failed command leaves the socket open.
DisconnectForgotten ==
    UNCHANGED stream

\* close(): what the library sent stays readable for the daemon, what the
\* daemon sent is lost.
DisconnectViciTransport ==
    /\ iSocket' = "closed"
    /\ peerUp' = FALSE
    /\ toDaemon' = <<>>
    /\ toClient' = <<>>
    /\ listening' = FALSE
    /\ serving' = NoCall
    /\ orphans' = orphans \cup Unread

\* WaitViciSocket: what ends a blocking transport step of t with an error;
\* broken says that the stream itself fails.
WaitError(t, e, broken) ==
    \/ e = "TIMEOUT" /\ t \in expired
    \/ e = "CANCELLED" /\ t \in cancelled
    \/ e = "TRANSPORT" /\ broken

\* WaitViciSocket lets the step of t proceed.
MayTransfer(t) == t \notin expired /\ t \notin cancelled

\* The command of t, which owns the slot, failed with e.
Fail(t, e, frame) ==
    /\ DisconnectViciTransport
    /\ local' = [local EXCEPT ![t] = [frame EXCEPT !.eError = e]]
    /\ pc' = [pc EXCEPT ![t] = "RELEASE"]
    /\ UNCHANGED <<slot, call, result, daemon>>

Goto(t, stage) == pc' = [pc EXCEPT ![t] = stage]

\* SendViciTransportPacket: write one frame of type.
SendFrame(t, type) ==
    /\ MayTransfer(t) /\ peerUp
    /\ toDaemon' = Append(toDaemon, [type |-> type, call |-> call[t]])
    /\ UNCHANGED <<iSocket, peerUp, toClient, listening, serving, orphans>>

\* ReceiveViciTransportPacket: take the next frame off the stream.
TakeFrame(t) ==
    /\ MayTransfer(t) /\ toClient # <<>>
    /\ toClient' = Tail(toClient)
    /\ UNCHANGED <<iSocket, peerUp, toDaemon, listening, serving, orphans>>

SendError(t, e) == WaitError(t, e, ~peerUp)
ReceiveError(t, e) == WaitError(t, e, ~peerUp /\ toClient = <<>>)

-----------------------------------------------------------------------------
(* ExecuteViciCommandUntil, stage by stage.                                *)

\* An API call enters.  The caller stops new entries before it deinitialises.
Submit(t, c) ==
    /\ pc[t] = "IDLE" /\ ~bClosing
    /\ result[c] = NoResult /\ \A u \in Thread : call[u] # c
    /\ call' = [call EXCEPT ![t] = c]
    /\ Goto(t, "QUEUE")
    /\ UNCHANGED <<slot, local, result, stream, daemon>>

\* Seeded fault: the slot is taken without looking at bActive.
AcquireWhileActive(t) ==
    /\ pc[t] = "QUEUE"
    /\ ~bClosing /\ MayTransfer(t)
    /\ bActive' = TRUE
    /\ Goto(t, "CONNECT")
    /\ UNCHANGED <<bClosing, cancelled, expired, call, local, result, stream, daemon>>

AcquireViciCommand(t) ==
    /\ pc[t] = "QUEUE"
    /\ ~bActive /\ ~bClosing /\ MayTransfer(t)
    /\ bActive' = TRUE
    /\ Goto(t, "CONNECT")
    /\ UNCHANGED <<bClosing, cancelled, expired, call, local, result, stream, daemon>>

\* Seeded fault: a call that never got the slot returns without a diagnostic.
AcquireAbandons(t) ==
    /\ pc[t] = "QUEUE"
    /\ bClosing \/ t \in cancelled \cup expired
    /\ Goto(t, "IDLE")
    /\ UNCHANGED <<slot, call, local, result, stream, daemon>>

\* The wait for the slot ends without it; nothing was acquired.
AcquireFails(t) ==
    /\ pc[t] = "QUEUE"
    /\ \E e \in {"CANCELLED", "TIMEOUT"} :
        /\ IF bClosing \/ t \in cancelled THEN e = "CANCELLED"
                                          ELSE e = "TIMEOUT" /\ t \in expired
        /\ local' = [local EXCEPT ![t].eError = e]
    /\ Goto(t, "GIVEUP")
    /\ UNCHANGED <<slot, call, result, stream, daemon>>

AfterConnect(t) == IF call[t] \in Streamed THEN "REGISTER" ELSE "SEND"

ConnectViciTransport(t) ==
    /\ pc[t] = "CONNECT"
    /\ \/ iSocket = "open" /\ UNCHANGED stream
       \/ /\ iSocket = "closed"
          /\ iSocket' = "open" /\ peerUp' = TRUE
          /\ UNCHANGED <<toDaemon, toClient, listening, serving, orphans>>
    /\ Goto(t, AfterConnect(t))
    /\ UNCHANGED <<slot, call, local, result, daemon>>

ConnectFails(t) ==
    /\ pc[t] = "CONNECT" /\ iSocket = "closed"
    /\ \E e \in {"CONNECT", "TIMEOUT", "CANCELLED"} :
        /\ e # "CONNECT" => WaitError(t, e, FALSE)
        /\ Fail(t, e, local[t])

\* ExchangeViciRegistration(true), the request half; the packet may fail to build.
Register(t) ==
    /\ pc[t] = "REGISTER"
    /\ \/ Fail(t, "LOCAL", local[t])
       \/ /\ SendFrame(t, "REGISTER")
          /\ Goto(t, "CONFIRM")
          /\ UNCHANGED <<slot, call, local, result, daemon>>
       \/ \E e \in Error : SendError(t, e) /\ Fail(t, e, local[t])

\* What a registration exchange makes of the frame it receives.
RegistrationError ==
    CASE Head(toClient).type = "CONFIRM" -> "OK"
      [] Head(toClient).type = "EVENT_UNKNOWN" -> "NOT_SUPPORTED"
      [] OTHER -> "PROTOCOL"

\* ExchangeViciRegistration(true), the reply half.
Confirm(t) ==
    /\ pc[t] = "CONFIRM"
    /\ \/ /\ TakeFrame(t) /\ RegistrationError = "OK"
          /\ local' = [local EXCEPT ![t].bRegistered = TRUE]
          /\ Goto(t, "SEND")
          /\ UNCHANGED <<slot, call, result, daemon>>
       \/ /\ MayTransfer(t) /\ toClient # <<>> /\ RegistrationError # "OK"
          /\ Fail(t, RegistrationError, local[t])
       \/ \E e \in Error : ReceiveError(t, e) /\ Fail(t, e, local[t])

\* BuildViciNamedPacket fails before anything is sent (ENCODE), or the request
\* is sent; bSendAttempted is set before the first byte is written.
SendRequest(t) ==
    LET attempted == [local[t] EXCEPT !.bSendAttempted = TRUE]
    IN  /\ pc[t] = "SEND"
        /\ \/ Fail(t, "LOCAL", local[t])
           \/ /\ SendFrame(t, "REQUEST")
              /\ local' = [local EXCEPT ![t] = attempted]
              /\ Goto(t, "RECEIVE")
              /\ UNCHANGED <<slot, call, result, daemon>>
           \/ \E e \in Error : SendError(t, e) /\ Fail(t, e, attempted)

\* ReceiveViciCommandStream, one frame: an event of the list is handed to the
\* callback, which may fail; any other event is ignored.
ReceiveEvent(t) ==
    /\ pc[t] = "RECEIVE"
    /\ toClient # <<>> /\ Head(toClient).type = "EVENT"
    /\ \/ TakeFrame(t) /\ UNCHANGED <<slot, frames, result, daemon>>
       \/ MayTransfer(t) /\ call[t] \in Streamed /\ Fail(t, "LOCAL", local[t])

\* The response arrived and was parsed: the outcome is known, unless a mutation
\* was answered without its success field.
ReceiveResponse(t) ==
    LET success == Head(toClient).success
    IN  /\ pc[t] = "RECEIVE"
        /\ toClient # <<>> /\ Head(toClient).type = "RESPONSE"
        /\ \/ /\ TakeFrame(t)
              /\ call[t] \in Mutation => success # "absent"
              /\ local' = [local EXCEPT ![t].bResponseValid = TRUE, ![t].success = success]
              /\ Goto(t, IF local[t].bRegistered THEN "UNREGISTER" ELSE "RELEASE")
              /\ UNCHANGED <<slot, call, result, daemon>>
           \/ /\ MayTransfer(t)
              /\ call[t] \in Mutation /\ success = "absent"
              /\ Fail(t, "PROTOCOL", local[t])
           \/ MayTransfer(t) /\ Fail(t, "LOCAL", local[t])

\* COMMAND_UNKNOWN is a known outcome; a frame of another type is not.
ReceiveOther(t) ==
    /\ pc[t] = "RECEIVE" /\ MayTransfer(t)
    /\ toClient # <<>> /\ Head(toClient).type \notin {"EVENT", "RESPONSE"}
    /\ IF Head(toClient).type = "COMMAND_UNKNOWN"
       THEN Fail(t, "NOT_SUPPORTED", [local[t] EXCEPT !.bResponseValid = TRUE])
       ELSE Fail(t, "PROTOCOL", local[t])

\* Seeded fault: a request whose stream broke is sent again on a new one.
ReceiveReplays(t) ==
    /\ pc[t] = "RECEIVE"
    /\ \E e \in Error :
        /\ ReceiveError(t, e)
        /\ IF e = "TRANSPORT"
           THEN /\ DisconnectViciTransport
                /\ Goto(t, "CONNECT")
                /\ UNCHANGED <<slot, call, local, result, daemon>>
           ELSE Fail(t, e, local[t])

\* Seeded fault: the receive waits without a deadline.
ReceiveWaitsForever(t) ==
    /\ pc[t] = "RECEIVE"
    /\ \E e \in Error \ {"TIMEOUT"} : ReceiveError(t, e) /\ Fail(t, e, local[t])

\* Never replayed: the command ends and the NEXT call reconnects.
ReceiveFails(t) ==
    /\ pc[t] = "RECEIVE"
    /\ \E e \in Error : ReceiveError(t, e) /\ Fail(t, e, local[t])

\* ExchangeViciRegistration(false).
Unregister(t) ==
    /\ pc[t] = "UNREGISTER"
    /\ \/ Fail(t, "LOCAL", local[t])
       \/ /\ SendFrame(t, "UNREGISTER")
          /\ Goto(t, "UNCONFIRM")
          /\ UNCHANGED <<slot, call, local, result, daemon>>
       \/ \E e \in Error : SendError(t, e) /\ Fail(t, e, local[t])

Unconfirm(t) ==
    /\ pc[t] = "UNCONFIRM"
    /\ \/ /\ TakeFrame(t) /\ RegistrationError = "OK"
          /\ Goto(t, "RELEASE")
          /\ UNCHANGED <<slot, call, local, result, daemon>>
       \/ /\ MayTransfer(t) /\ toClient # <<>> /\ RegistrationError # "OK"
          /\ Fail(t, RegistrationError, local[t])
       \/ \E e \in Error : ReceiveError(t, e) /\ Fail(t, e, local[t])

FinalError(t) == IF local[t].eError = "OK" /\ local[t].success = "no"
                 THEN "COMMAND" ELSE local[t].eError

\* Seeded fault: a response that never came counts as a refusal.
OutcomeGuessed(t) == [eError |-> FinalError(t), bOutcomeUnknown |-> FALSE]

OutcomeOf(t) ==
    [eError |-> FinalError(t),
     bOutcomeUnknown |-> local[t].bSendAttempted /\ ~local[t].bResponseValid]

\* The end of ExecuteViciCommandUntil: publish the diagnostic and, when the slot
\* was acquired, free it and wake the queue.
Release(t) ==
    /\ pc[t] \in {"RELEASE", "GIVEUP"}
    /\ result' = [result EXCEPT ![call[t]] = OutcomeOf(t)]
    /\ bActive' = IF pc[t] = "RELEASE" THEN FALSE ELSE bActive
    /\ Goto(t, "IDLE")
    /\ call' = [call EXCEPT ![t] = NoCall]
    /\ local' = [local EXCEPT ![t] = EmptyFrame]
    /\ expired' = expired \ {t} /\ cancelled' = cancelled \ {t}
    /\ UNCHANGED <<bClosing, stream, daemon>>

-----------------------------------------------------------------------------
(* Cancellation, time and the daemon.                                      *)

\* The deadline of t's command passes.
Expire(t) ==
    /\ pc[t] # "IDLE" /\ t \notin expired
    /\ expired' = expired \cup {t}
    /\ UNCHANGED <<bActive, bClosing, cancelled, frames, result, stream, daemon>>

InWait == {t \in Cancellable : pc[t] # "IDLE"}

CancelIpsecWaits ==
    /\ cancelled' = cancelled \cup InWait
    /\ UNCHANGED <<bActive, bClosing, expired, frames, result, stream, daemon>>

\* The first half of CloseViciWaits; the drain is in module ViciWait.
CloseViciWaits ==
    /\ ~bClosing
    /\ bClosing' = TRUE
    /\ cancelled' = cancelled \cup InWait
    /\ UNCHANGED <<bActive, expired, frames, result, stream, daemon>>

Answer(type, c, success) == Append(toClient, [type |-> type, call |-> c, success |-> success])

\* The daemon handles a registration request; a RESPONSE here is nonsense.
DaemonRegistration ==
    /\ iSocket = "open" /\ peerUp /\ serving = NoCall /\ toDaemon # <<>>
    /\ LET r == Head(toDaemon)
       IN  /\ r.type # "REQUEST"
           /\ \/ /\ toClient' = Answer("CONFIRM", r.call, "absent")
                 /\ listening' = (r.type = "REGISTER")
              \/ /\ \E type \in {"EVENT_UNKNOWN", "RESPONSE"} :
                        toClient' = Answer(type, r.call, "absent")
                 /\ UNCHANGED listening
    /\ toDaemon' = Tail(toDaemon)
    /\ UNCHANGED <<iSocket, peerUp, serving, orphans, slot, frames, result, daemon>>

\* The daemon runs call c; it may refuse it.
DaemonRuns(c) ==
    /\ executed' = [executed EXCEPT ![c] = @ + 1]
    /\ applied' \in {applied, applied \cup {c}}

\* The daemon takes the request off the stream and runs it, or does not know it
\* and says so (a CONFIRM here is nonsense).
DaemonAccept ==
    /\ iSocket = "open" /\ peerUp /\ serving = NoCall /\ toDaemon # <<>>
    /\ LET c == Head(toDaemon).call
       IN  /\ Head(toDaemon).type = "REQUEST"
           /\ \/ DaemonRuns(c) /\ serving' = c /\ UNCHANGED toClient
              \/ /\ \E type \in {"COMMAND_UNKNOWN", "CONFIRM"} :
                        toClient' = Answer(type, c, "absent")
                 /\ UNCHANGED <<serving, daemon>>
    /\ toDaemon' = Tail(toDaemon)
    /\ UNCHANGED <<iSocket, peerUp, listening, orphans, slot, frames, result>>

\* The daemon streams one event of the list it was asked for.
DaemonEvent ==
    /\ serving \in Streamed /\ listening /\ Len(toClient) < StreamWindow
    /\ toClient' = Answer("EVENT", serving, "absent")
    /\ UNCHANGED <<iSocket, peerUp, toDaemon, listening, serving, orphans,
                   slot, frames, result, daemon>>

\* The daemon ends its answer; the success field may be missing.
DaemonRespond ==
    /\ serving # NoCall
    /\ \E success \in {"absent", IF serving \in applied THEN "yes" ELSE "no"} :
        toClient' = Answer("RESPONSE", serving, success)
    /\ serving' = NoCall
    /\ UNCHANGED <<iSocket, peerUp, toDaemon, listening, orphans,
                   slot, frames, result, daemon>>

\* The daemon gets to a request whose stream the library has closed.
DaemonServesOrphan(c) ==
    /\ c \in orphans
    /\ orphans' = orphans \ {c}
    /\ DaemonRuns(c)
    /\ UNCHANGED <<iSocket, peerUp, toDaemon, toClient, listening, serving,
                   slot, frames, result>>

\* The daemon restarts: what it has not read is gone, what it wrote is readable.
DaemonRestart ==
    /\ peerUp
    /\ peerUp' = FALSE /\ listening' = FALSE /\ serving' = NoCall
    /\ toDaemon' = <<>> /\ orphans' = {}
    /\ UNCHANGED <<iSocket, toClient, slot, frames, result, daemon>>

-----------------------------------------------------------------------------
ThreadStep(t) ==
    \/ AcquireViciCommand(t) \/ AcquireFails(t)
    \/ ConnectViciTransport(t) \/ ConnectFails(t)
    \/ Register(t) \/ Confirm(t) \/ SendRequest(t)
    \/ ReceiveEvent(t) \/ ReceiveResponse(t) \/ ReceiveOther(t) \/ ReceiveFails(t)
    \/ Unregister(t) \/ Unconfirm(t)
    \/ Release(t)

DaemonStep ==
    \/ DaemonRegistration \/ DaemonAccept \/ DaemonEvent \/ DaemonRespond
    \/ DaemonRestart
    \/ \E c \in Call : DaemonServesOrphan(c)

Next ==
    \/ \E t \in Thread : ThreadStep(t) \/ Expire(t) \/ \E c \in Call : Submit(t, c)
    \/ CancelIpsecWaits \/ CloseViciWaits
    \/ DaemonStep

\* The clock runs and a runnable thread is scheduled; the daemon owes nothing.
Fairness == \A t \in Thread : WF_vars(ThreadStep(t)) /\ WF_vars(Expire(t))

Spec == Init /\ [][Next]_vars

FairSpec == Spec /\ Fairness
-----------------------------------------------------------------------------
(* Properties.                                                             *)

\* The types of the threads' variables; a thread is in a call exactly while it
\* is inside ExecuteViciCommandUntil.
ThreadsTyped ==
    /\ bActive \in BOOLEAN /\ bClosing \in BOOLEAN
    /\ cancelled \subseteq Thread /\ expired \subseteq Thread
    /\ pc \in [Thread -> Stage]
    /\ call \in [Thread -> Call \cup {NoCall}]
    /\ local \in [Thread -> Local]
    /\ result \in [Call -> Diagnostic \cup {NoResult}]
    /\ \A t \in Thread : pc[t] = "IDLE" <=> call[t] = NoCall

\* The types of the stream and of the daemon behind it.
DaemonTyped ==
    /\ iSocket \in {"closed", "open"} /\ peerUp \in BOOLEAN
    /\ toDaemon \in Seq(Request) /\ toClient \in Seq(Reply)
    /\ listening \in BOOLEAN /\ serving \in Call \cup {NoCall}
    /\ orphans \subseteq Call
    /\ executed \in [Call -> Nat] /\ applied \subseteq Call

\* Every variable of the command path stays within its type.
TypeOK == ThreadsTyped /\ DaemonTyped

\* bActive is a lock: it is set exactly while one thread is between
\* AcquireViciCommand and the release at the end of ExecuteViciCommandUntil.
SlotExclusive ==
    /\ \A t, u \in Thread : pc[t] \in Owning /\ pc[u] \in Owning => t = u
    /\ bActive <=> \E t \in Thread : pc[t] \in Owning

\* "Never send unregister or a new command on a stream of unknown position":
\* whenever no command is active, a stream that is still open is at a frame
\* boundary with no unread frame, no unanswered request and no registration.
IdleStreamClean ==
    ~bActive /\ iSocket = "open" =>
        toDaemon = <<>> /\ toClient = <<>> /\ ~listening /\ serving = NoCall

\* A thread that reads the stream only ever finds frames that answer its own
\* call, whatever happened to the calls before it.
OwnAnswer ==
    \A t \in Thread : pc[t] \in Owning =>
        \A i \in DOMAIN toClient : toClient[i].call = call[t]

\* "Never replay a possibly executed mutation": the daemon runs a call at most
\* once, however streams break and whoever reconnects.
AtMostOnce ==
    \A c \in Call : executed[c] <= 1

\* A call still on its way to the daemon.
Pending(c) == c \in orphans \cup Unread

\* bOutcomeUnknown is honest for a mutation: reported known, success means that
\* the daemon holds the effect, and failure means that it does not and that no
\* copy of the request is left that could still bring it about.
OutcomeHonest ==
    \A c \in Mutation :
        result[c] # NoResult /\ ~result[c].bOutcomeUnknown =>
            IF result[c].eError = "OK" THEN c \in applied
                                       ELSE c \notin applied /\ ~Pending(c)

\* Every call returns: the deadline bounds the queue, the connect, each send and
\* each receive, even when the daemon never answers or streams without end.
EveryCallReturns ==
    \A t \in Thread : pc[t] # "IDLE" ~> pc[t] = "IDLE"

\* The command path implements the service of module CommandService.
Status(c) ==
    IF result[c] # NoResult THEN "returned"
    ELSE IF \E t \in Thread : call[t] = c /\ pc[t] \in Owning THEN "running"
    ELSE IF \E t \in Thread : call[t] = c THEN "pending"
    ELSE "new"

Outcome(c) ==
    IF result[c] = NoResult THEN "none"
    ELSE IF result[c].bOutcomeUnknown THEN "unknown"
    ELSE IF result[c].eError = "OK" THEN "ok"
    ELSE IF result[c].eError = "COMMAND" THEN "refused"
    ELSE "failed"

Service == INSTANCE CommandService
           WITH status <- [c \in Call |-> Status(c)],
                ran <- executed,
                applied <- applied,
                outcome <- [c \in Call |-> Outcome(c)]

\* Every behaviour of the command path is one of the abstract command service:
\* one call served at a time, run at most once, and never run after its caller
\* was told a known outcome.
ImplementsService == Service!Spec
=============================================================================
