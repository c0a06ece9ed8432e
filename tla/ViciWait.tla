------------------------------- MODULE ViciWait -------------------------------
(***************************************************************************)
(* SA waits and the closing of a context (src/ike/vici/vici_wait.c and     *)
(* WaitIpsecSa in vici_sa.c).  Each wait owns an event channel to the      *)
(* daemon and a cancellation socket pair.  It subscribes, takes a snapshot *)
(* of the SAs through the shared command slot, and sleeps on its channel   *)
(* until an event makes it look again.  DeinitializeIpsec cancels the      *)
(* registered waits and drains them before the context is freed.           *)
(*                                                                         *)
(* A command on the shared stream is reduced to what module CommandService *)
(* promises: it holds the slot, it answers or fails, it gives the slot     *)
(* back.  The condition variable is explicit: a sleeper runs again only    *)
(* after a broadcast (or its own timeout, where the code has one).         *)
(***************************************************************************)
EXTENDS Integers, Sequences, FiniteSets

CONSTANTS
    Waiter,        \* threads that call WaitIpsecIkeEstablished / ChildInstalled
    Caller,        \* threads that run ordinary commands
    Closer,        \* the thread that calls DeinitializeIpsec
    Nobody,
    Hurried,       \* waiters whose deadline may pass within the behaviour
    MaxChanges,    \* bound: changes of the awaited SA
    MaxWaits       \* bound: waits one thread makes

ASSUME WaitAssumption ==
    /\ Waiter \cap Caller = {} /\ Hurried \subseteq Waiter
    /\ Closer \notin Waiter \cup Caller
    /\ Nobody \notin Waiter \cup Caller \cup {Closer}
    /\ MaxChanges \in Nat /\ MaxWaits \in Nat \ {0}

VARIABLES
    owner,         \* thread with the command slot: bActive <=> owner # Nobody
    bClosing, pWaiters,
    asleep,        \* threads blocked on Command.Condition
    signalled,     \* waiters whose cancel socket is readable
    expired,       \* waiters past their wait deadline
    pc, eError,    \* WaitIpsecSa, per waiter; stage of a caller; the closer's
    bPolling,
    inLoop,        \* the first subscription is made, WaitIpsecSa is in its loop
    snapshot,      \* what the last QueryIpsecSas of a waiter saw
    channel,       \* frames from the daemon on a waiter's event socket
    linked,        \* waiters whose event socket is connected on both ends
    subscribed,    \* registrations the daemon holds for a waiter: 0, 1, 2
    saUp, changes, \* the daemon's SA, and how often it changed
    waits,         \* waits begun by each waiter
    sawUp,         \* history: the SA was up at some point of the current wait
    cancelSent     \* history: a cancellation was sent during the current wait

sync == <<owner, bClosing, pWaiters, asleep>>
progress == <<pc, eError>>
mode == <<bPolling, inLoop, snapshot>>
link == <<channel, linked, subscribed>>
sa == <<saUp, changes>>
history == <<waits, sawUp, cancelSent>>
vars == <<sync, signalled, expired, progress, mode, link, sa, history>>

Thread == Waiter \cup Caller \cup {Closer}
WaitStage == {"OUT", "SUBSCRIBE", "CONFIRM1", "CONFIRM2", "CHECK", "QUEUE", "QUERY",
              "RELEASE", "WAIT", "RECOVER", "END", "DONE"}
CallStage == {"OUT", "QUEUE", "ACTIVE"}
CloseStage == {"OPEN", "DRAIN", "FREED"}
\* TRANSPORT stands for the two errors WaitIpsecSa retries: VICI_TRANSPORT and
\* VICI_CONNECT; FAILED for VICI_TIMEOUT and every other error.
Error == {"OK", "CANCELLED", "TRANSPORT", "FAILED"}

Init ==
    /\ owner = Nobody /\ bClosing = FALSE /\ pWaiters = {} /\ asleep = {}
    /\ signalled = {} /\ expired = {}
    /\ pc = [t \in Thread |-> IF t = Closer THEN "OPEN" ELSE "OUT"]
    /\ eError = [w \in Waiter |-> "OK"]
    /\ bPolling = [w \in Waiter |-> FALSE]
    /\ inLoop = [w \in Waiter |-> FALSE]
    /\ snapshot = [w \in Waiter |-> FALSE]
    /\ channel = [w \in Waiter |-> <<>>]
    /\ linked = {}
    /\ subscribed = [w \in Waiter |-> 0]
    /\ saUp \in BOOLEAN /\ changes = 0
    /\ waits = [w \in Waiter |-> 0]
    /\ sawUp = [w \in Waiter |-> FALSE]
    /\ cancelSent = {}

-----------------------------------------------------------------------------
Goto(t, stage) == pc' = [pc EXCEPT ![t] = stage]

\* The wait of w is over with error e; EndViciWait follows.
Finish(w, e) == Goto(w, "END") /\ eError' = [eError EXCEPT ![w] = e]

\* pthread_cond_broadcast
Broadcast == asleep' = {}

\* DisconnectViciTransport(&pWaiter->EventContext)
DropChannel(w) ==
    /\ channel' = [channel EXCEPT ![w] = <<>>]
    /\ linked' = linked \ {w}
    /\ subscribed' = [subscribed EXCEPT ![w] = 0]

\* The ViciWaiter_t of w is gone.
ResetMode(w) ==
    /\ bPolling' = [bPolling EXCEPT ![w] = FALSE]
    /\ inLoop' = [inLoop EXCEPT ![w] = FALSE]
    /\ snapshot' = [snapshot EXCEPT ![w] = FALSE]

\* A blocking step on w's own sockets may proceed (WaitViciSocket).
MayBlock(w) == w \notin signalled /\ w \notin expired

\* BeginViciWait; refused once the context is closing.
BeginViciWait(w) ==
    /\ pc[w] \in {"OUT", "DONE"} /\ waits[w] < MaxWaits
    /\ pc[Closer] # "FREED"
    /\ waits' = [waits EXCEPT ![w] = @ + 1]
    /\ sawUp' = [sawUp EXCEPT ![w] = saUp]
    /\ \/ /\ ~bClosing
          /\ pWaiters' = pWaiters \cup {w}
          /\ Goto(w, "SUBSCRIBE")
          /\ eError' = [eError EXCEPT ![w] = "OK"]
          /\ cancelSent' = cancelSent \ {w}
       \/ /\ bClosing
          /\ Goto(w, "DONE")
          /\ eError' = [eError EXCEPT ![w] = "CANCELLED"]
          /\ cancelSent' = cancelSent \cup {w}
          /\ UNCHANGED pWaiters
    /\ UNCHANGED <<owner, bClosing, asleep, signalled, expired, mode, link, sa>>

-----------------------------------------------------------------------------
(* SubscribeViciSaEvents                                                   *)

\* A subscription attempt of w fails with e.  The first one ends the wait;
\* RecoverViciWait tries again when the transport was at fault.
SubscribeFails(w, e) ==
    /\ DropChannel(w)
    /\ IF inLoop[w] /\ e = "TRANSPORT"
       THEN Goto(w, "RECOVER") /\ UNCHANGED eError
       ELSE Finish(w, e)
    /\ UNCHANGED <<sync, signalled, expired, mode, sa, history>>

\* Connect the event socket and send the first registration.
Subscribe(w) ==
    /\ pc[w] = "SUBSCRIBE"
    /\ linked' = linked \cup {w}
    /\ Goto(w, "CONFIRM1")
    /\ UNCHANGED <<sync, signalled, expired, eError, mode, channel, subscribed, sa, history>>

\* The daemon answers the registration w is waiting for.
DaemonConfirms(w) ==
    /\ \/ pc[w] = "CONFIRM1" /\ subscribed[w] = 0
       \/ pc[w] = "CONFIRM2" /\ subscribed[w] = 1
    /\ w \in linked
    /\ \A i \in DOMAIN channel[w] : channel[w][i] = "EVENT"
    /\ \/ /\ channel' = [channel EXCEPT ![w] = Append(@, "CONFIRM")]
          /\ subscribed' = [subscribed EXCEPT ![w] = @ + 1]
       \/ /\ channel' = [channel EXCEPT ![w] = Append(@, "UNKNOWN")]
          /\ UNCHANGED subscribed
    /\ UNCHANGED <<sync, signalled, expired, progress, mode, linked, sa, history>>

\* Seeded fault: a wait that has to subscribe again goes back to its channel
\* without a new snapshot.
ResumesWithoutSnapshot(w) ==
    CASE pc[w] = "CONFIRM1" -> "CONFIRM2"
      [] inLoop[w] -> "WAIT"
      [] OTHER -> "CHECK"

\* The snapshot comes after both registrations.
AfterConfirm(w) ==
    IF pc[w] = "CONFIRM1" THEN "CONFIRM2" ELSE "CHECK"

\* RegisterViciSaEvent takes one frame: an event that came in ahead of the
\* confirmation is dropped, EVENT_UNKNOWN selects compatibility polling.
ReadConfirm(w) ==
    /\ pc[w] \in {"CONFIRM1", "CONFIRM2"}
    /\ MayBlock(w) /\ channel[w] # <<>>
    /\ LET frame == Head(channel[w])
       IN  \/ /\ frame = "EVENT"
              /\ channel' = [channel EXCEPT ![w] = Tail(@)]
              /\ UNCHANGED <<pc, bPolling, inLoop, linked, subscribed>>
           \/ /\ frame = "CONFIRM"
              /\ channel' = [channel EXCEPT ![w] = Tail(@)]
              /\ Goto(w, AfterConfirm(w))
              /\ inLoop' = [inLoop EXCEPT ![w] = @ \/ pc[w] = "CONFIRM2"]
              /\ UNCHANGED <<bPolling, linked, subscribed>>
           \/ /\ frame = "UNKNOWN"
              /\ DropChannel(w)
              /\ bPolling' = [bPolling EXCEPT ![w] = TRUE]
              /\ inLoop' = [inLoop EXCEPT ![w] = TRUE]
              /\ Goto(w, "CHECK")
    /\ UNCHANGED <<sync, signalled, expired, eError, snapshot, sa, history>>

\* Connecting, sending or receiving a registration fails.  A registration frame
\* also has a command timeout of its own, so it can time out before the wait does.
SubscribeError(w) ==
    /\ pc[w] \in {"SUBSCRIBE", "CONFIRM1", "CONFIRM2"}
    /\ \E e \in Error \ {"OK"} :
        /\ e = "CANCELLED" => w \in signalled
        /\ SubscribeFails(w, e)
-----------------------------------------------------------------------------
(* The loop of WaitIpsecSa.                                                *)

\* Seeded fault: the deadline ends the loop without setting an error.
CheckExpiresQuietly(w) ==
    /\ pc[w] = "CHECK"
    /\ \/ w \in signalled /\ Finish(w, "CANCELLED")
       \/ w \notin signalled /\ w \in expired /\ Finish(w, "OK")
       \/ MayBlock(w) /\ Goto(w, "QUEUE") /\ UNCHANGED eError
    /\ UNCHANGED <<sync, signalled, expired, mode, link, sa, history>>

\* The checks at the head of the loop; then AcquireViciCommand is entered.
CheckWait(w) ==
    /\ pc[w] = "CHECK"
    /\ \/ w \in signalled /\ Finish(w, "CANCELLED")
       \/ w \notin signalled /\ w \in expired /\ Finish(w, "FAILED")
       \/ MayBlock(w) /\ Goto(w, "QUEUE") /\ UNCHANGED eError
    /\ UNCHANGED <<sync, signalled, expired, mode, link, sa, history>>

\* AcquireViciCommand on behalf of a wait or of an ordinary command.
QueueOpen(t) == pc[t] = "QUEUE" /\ t \notin asleep

Refused(t) == bClosing \/ t \in signalled

Acquire(t) ==
    /\ QueueOpen(t) /\ owner = Nobody /\ ~Refused(t)
    /\ owner' = t
    /\ Goto(t, IF t \in Waiter THEN "QUERY" ELSE "ACTIVE")
    /\ UNCHANGED <<bClosing, pWaiters, asleep, signalled, expired, eError, mode, link, sa, history>>

\* pthread_cond_timedwait: the thread sleeps while the slot is taken.
Sleep(t) ==
    /\ QueueOpen(t) /\ owner # Nobody /\ ~Refused(t)
    /\ asleep' = asleep \cup {t}
    /\ UNCHANGED <<owner, bClosing, pWaiters, signalled, expired, progress, mode, link, sa, history>>

\* The queued command is cancelled, or its deadline passes; the timeout wakes a
\* sleeper without a broadcast.
AcquireFails(t) ==
    /\ pc[t] = "QUEUE"
    /\ asleep' = asleep \ {t}
    /\ IF t \in Waiter
       THEN Finish(t, IF Refused(t) THEN "CANCELLED" ELSE "FAILED")
       ELSE Goto(t, "OUT") /\ UNCHANGED eError
    /\ UNCHANGED <<owner, bClosing, pWaiters, signalled, expired, mode, link, sa, history>>

\* QueryIpsecSas: the daemon takes the snapshot, or the command fails.  The
\* command path polls the cancel fd of the wait.
Query(w) ==
    /\ pc[w] = "QUERY"
    /\ \/ /\ MayBlock(w)
          /\ snapshot' = [snapshot EXCEPT ![w] = saUp]
          /\ eError' = [eError EXCEPT ![w] = "OK"]
       \/ \E e \in Error \ {"OK"} :
          /\ e = "CANCELLED" => w \in signalled
          /\ snapshot' = [snapshot EXCEPT ![w] = FALSE]
          /\ eError' = [eError EXCEPT ![w] = e]
    /\ Goto(w, "RELEASE")
    /\ UNCHANGED <<sync, signalled, expired, bPolling, inLoop, link, sa, history>>

\* The command gives the slot back, and the wait looks at what it got.
ReleaseQuery(w) ==
    /\ pc[w] = "RELEASE"
    /\ owner' = Nobody /\ Broadcast
    /\ CASE eError[w] = "TRANSPORT" -> Goto(w, "RECOVER")
         [] eError[w] = "OK" /\ ~snapshot[w] -> Goto(w, "WAIT")
         [] OTHER -> Goto(w, "END")
    /\ IF eError[w] = "TRANSPORT" THEN DropChannel(w) ELSE UNCHANGED link
    /\ UNCHANGED <<bClosing, pWaiters, signalled, expired, eError, mode, sa, history>>

\* Seeded fault: an expired wait on an event channel keeps waiting.
ReceiveWithoutDeadline(w) ==
    /\ pc[w] = "WAIT" /\ ~bPolling[w]
    /\ \/ /\ w \notin signalled /\ channel[w] # <<>>
          /\ channel' = [channel EXCEPT ![w] = Tail(@)]
          /\ Goto(w, "CHECK")
          /\ UNCHANGED <<eError, linked, subscribed>>
       \/ w \in signalled /\ DropChannel(w) /\ Finish(w, "CANCELLED")
    /\ UNCHANGED <<sync, signalled, expired, mode, sa, history>>

\* ReceiveViciSaChange: any valid event is a hint to look again.
ReceiveViciSaChange(w) ==
    /\ pc[w] = "WAIT" /\ ~bPolling[w]
    /\ \/ /\ MayBlock(w) /\ channel[w] # <<>>
          /\ channel' = [channel EXCEPT ![w] = Tail(@)]
          /\ Goto(w, "CHECK")
          /\ UNCHANGED <<eError, linked, subscribed>>
       \/ \E e \in {"CANCELLED", "FAILED"} :
          /\ e = "CANCELLED" => w \in signalled
          /\ e = "FAILED" => w \in expired \/ channel[w] # <<>>
          /\ DropChannel(w) /\ Finish(w, e)
       \/ /\ MayBlock(w) /\ channel[w] = <<>> /\ w \notin linked
          /\ DropChannel(w) /\ Goto(w, "RECOVER") /\ UNCHANGED eError
    /\ UNCHANGED <<sync, signalled, expired, mode, sa, history>>

\* PauseViciWait between two snapshots of a polling wait.
PausePolling(w) ==
    /\ pc[w] = "WAIT" /\ bPolling[w]
    /\ \/ w \in signalled /\ Finish(w, "CANCELLED")
       \/ Goto(w, "CHECK") /\ UNCHANGED eError
    /\ UNCHANGED <<sync, signalled, expired, mode, link, sa, history>>

\* RecoverViciWait: pause, look at the deadline, subscribe again.
RecoverViciWait(w) ==
    /\ pc[w] = "RECOVER"
    /\ \/ w \in signalled /\ Finish(w, "CANCELLED")
       \/ w \in expired /\ Finish(w, "FAILED")
       \/ MayBlock(w) /\ Goto(w, "SUBSCRIBE") /\ UNCHANGED eError
    /\ UNCHANGED <<sync, signalled, expired, mode, link, sa, history>>

\* Seeded fault: the end of a wait does not wake the closer.
EndWithoutBroadcast(w) ==
    /\ pc[w] = "END"
    /\ DropChannel(w) /\ ResetMode(w)
    /\ pWaiters' = pWaiters \ {w}
    /\ signalled' = signalled \ {w} /\ expired' = expired \ {w}
    /\ Goto(w, "DONE")
    /\ UNCHANGED <<owner, bClosing, asleep, eError, sa, history>>

\* Seeded fault: the cancel socket outlives the wait it belongs to.
EndKeepsSignal(w) ==
    /\ pc[w] = "END"
    /\ DropChannel(w) /\ ResetMode(w)
    /\ pWaiters' = pWaiters \ {w}
    /\ expired' = expired \ {w}
    /\ Broadcast
    /\ Goto(w, "DONE")
    /\ UNCHANGED <<owner, bClosing, signalled, eError, sa, history>>

\* EndViciWait: the last time the thread touches the context.
EndViciWait(w) ==
    /\ pc[w] = "END"
    /\ DropChannel(w) /\ ResetMode(w)
    /\ pWaiters' = pWaiters \ {w}
    /\ signalled' = signalled \ {w} /\ expired' = expired \ {w}
    /\ Broadcast
    /\ Goto(w, "DONE")
    /\ UNCHANGED <<owner, bClosing, eError, sa, history>>

-----------------------------------------------------------------------------
(* Ordinary commands, cancellation, closing, time and the daemon.          *)

\* The caller stops new API entries before DeinitializeIpsec.
EnterCommand(c) ==
    /\ pc[c] = "OUT" /\ pc[Closer] = "OPEN"
    /\ Goto(c, "QUEUE")
    /\ UNCHANGED <<sync, signalled, expired, eError, mode, link, sa, history>>

FinishCommand(c) ==
    /\ pc[c] = "ACTIVE"
    /\ owner' = Nobody /\ Broadcast
    /\ Goto(c, "OUT")
    /\ UNCHANGED <<bClosing, pWaiters, signalled, expired, eError, mode, link, sa, history>>

\* SignalViciWaits: every registered wait, and everyone on the condition.
SignalViciWaits ==
    /\ signalled' = signalled \cup pWaiters
    /\ cancelSent' = cancelSent \cup pWaiters
    /\ Broadcast

CancelIpsecWaits ==
    /\ pc[Closer] = "OPEN"
    /\ SignalViciWaits
    /\ UNCHANGED <<owner, bClosing, pWaiters, expired, progress, mode, link, sa, waits, sawUp>>

\* CloseViciWaits, up to its loop.  The caller has joined its own workers;
\* only waits may still be in progress.
CloseViciWaits ==
    /\ pc[Closer] = "OPEN" /\ \A c \in Caller : pc[c] = "OUT"
    /\ bClosing' = TRUE
    /\ SignalViciWaits
    /\ Goto(Closer, "DRAIN")
    /\ UNCHANGED <<owner, pWaiters, expired, eError, mode, link, sa, waits, sawUp>>

\* Seeded fault: only the command slot is waited for.
SlotFree == owner = Nobody

Drained == pWaiters = {} /\ owner = Nobody

\* The loop of CloseViciWaits: sleep until drained.  The rest of
\* DeinitializeIpsec then frees the context.
Drain ==
    /\ pc[Closer] = "DRAIN" /\ Closer \notin asleep
    /\ IF Drained THEN Goto(Closer, "FREED") /\ UNCHANGED asleep
                  ELSE asleep' = asleep \cup {Closer} /\ UNCHANGED pc
    /\ UNCHANGED <<owner, bClosing, pWaiters, signalled, expired, eError, mode, link, sa, history>>

Expire(w) ==
    /\ w \in (pWaiters \cap Hurried) \ expired
    /\ expired' = expired \cup {w}
    /\ UNCHANGED <<sync, signalled, progress, mode, link, sa, history>>

\* The SA comes up or goes down; every subscriber is sent the updown event.
DaemonChangesSa ==
    /\ changes < MaxChanges
    /\ saUp' = ~saUp /\ changes' = changes + 1
    /\ channel' = [w \in Waiter |-> IF w \in linked /\ subscribed[w] > 0
                                    THEN Append(channel[w], "EVENT") ELSE channel[w]]
    /\ sawUp' = [w \in Waiter |-> sawUp[w] \/ (w \in pWaiters /\ saUp')]
    /\ UNCHANGED <<sync, signalled, expired, progress, mode, linked, subscribed, waits, cancelSent>>

\* The daemon drops the event connection of w; frames sent stay readable.
DaemonDrops(w) ==
    /\ w \in linked
    /\ linked' = linked \ {w}
    /\ subscribed' = [subscribed EXCEPT ![w] = 0]
    /\ UNCHANGED <<sync, signalled, expired, progress, mode, channel, sa, history>>

-----------------------------------------------------------------------------
WaiterStep(w) ==
    \/ Subscribe(w) \/ ReadConfirm(w) \/ SubscribeError(w)
    \/ CheckWait(w) \/ Query(w) \/ ReleaseQuery(w)
    \/ ReceiveViciSaChange(w) \/ PausePolling(w) \/ RecoverViciWait(w)
    \/ EndViciWait(w)

QueueStep(t) == Acquire(t) \/ Sleep(t) \/ AcquireFails(t)

Next ==
    \/ \E w \in Waiter : \/ BeginViciWait(w) \/ WaiterStep(w) \/ QueueStep(w)
                         \/ Expire(w) \/ DaemonConfirms(w) \/ DaemonDrops(w)
    \/ \E c \in Caller : EnterCommand(c) \/ QueueStep(c) \/ FinishCommand(c)
    \/ CancelIpsecWaits \/ CloseViciWaits \/ Drain
    \/ DaemonChangesSa

\* Runnable threads are scheduled, and the command timeout of a queued command
\* passes.  Nothing is assumed of the daemon or of the deadlines of the waits.
Fairness ==
    /\ \A w \in Waiter : WF_vars(WaiterStep(w)) /\ WF_vars(AcquireFails(w))
    /\ \A c \in Caller : WF_vars(AcquireFails(c)) /\ WF_vars(FinishCommand(c))
    /\ WF_vars(Drain)

Spec == Init /\ [][Next]_vars

FairSpec == Spec /\ Fairness
-----------------------------------------------------------------------------
(* Properties.                                                             *)

\* Every variable of the wait machinery stays within its type; only a registered
\* wait has a cancel socket that can be readable and a deadline that can pass.
TypeOK ==
    /\ owner \in Waiter \cup Caller \cup {Nobody} /\ bClosing \in BOOLEAN
    /\ pWaiters \subseteq Waiter /\ asleep \subseteq Thread
    /\ signalled \subseteq pWaiters /\ expired \subseteq pWaiters
    /\ \A w \in Waiter : pc[w] \in WaitStage
    /\ \A c \in Caller : pc[c] \in CallStage
    /\ pc[Closer] \in CloseStage /\ DOMAIN pc = Thread
    /\ eError \in [Waiter -> Error]
    /\ bPolling \in [Waiter -> BOOLEAN] /\ inLoop \in [Waiter -> BOOLEAN]
    /\ snapshot \in [Waiter -> BOOLEAN]
    /\ channel \in [Waiter -> Seq({"EVENT", "CONFIRM", "UNKNOWN"})]
    /\ linked \subseteq Waiter /\ subscribed \in [Waiter -> 0..2]
    /\ saUp \in BOOLEAN /\ changes \in 0..MaxChanges
    /\ waits \in [Waiter -> 0..MaxWaits]
    /\ sawUp \in [Waiter -> BOOLEAN] /\ cancelSent \subseteq Waiter

InContext(t) == pc[t] \notin {"OUT", "DONE"}

\* "Registered waits are cancelled and drained": once DeinitializeIpsec has freed
\* the context no wait and no command is left that would touch it.
NoUseAfterFree ==
    pc[Closer] = "FREED" => \A t \in Waiter \cup Caller : ~InContext(t)

\* "Subscribe BEFORE the snapshot": a wait that goes to sleep on an intact event
\* channel while the SA is up has an event queued that will wake it.
NoLostWakeup ==
    \A w \in Waiter :
        pc[w] = "WAIT" /\ ~bPolling[w] /\ w \in linked /\ saUp => channel[w] # <<>>

\* A wait reports success only if the SA really was established or installed at
\* some moment of that wait, whatever deadlines, retries and recoveries it had.
ReadyHonest ==
    \A w \in Waiter :
        pc[w] = "DONE" /\ eError[w] = "OK" => sawUp[w]

\* "Cancel currently registered SA waits; future waits are unaffected": a wait
\* that returns CANCELLED was itself signalled, or found the context closing.
CancelHonest ==
    \A w \in Waiter :
        pc[w] = "DONE" /\ eError[w] = "CANCELLED" => w \in cancelSent

\* DeinitializeIpsec returns: cancellation alone ends every registered wait, with
\* no help from deadlines or from the daemon, and the drain hears of the last one.
CloseCompletes == pc[Closer] = "DRAIN" ~> pc[Closer] = "FREED"

\* A wait whose deadline has passed returns, whatever stage it is in.
DeadlineEndsWait == \A w \in Waiter : w \in expired ~> w \notin pWaiters
=============================================================================
