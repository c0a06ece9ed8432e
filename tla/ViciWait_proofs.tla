--------------------------- MODULE ViciWait_proofs ---------------------------
(***************************************************************************)
(* SA waits and the closing of a context, for any number of waits and      *)
(* callers and any number of SA changes: proofs of TypeOK, NoUseAfterFree, *)
(* CancelHonest, ReadyHonest and NoLostWakeup.                             *)
(***************************************************************************)
EXTENDS ViciWait, TLAPS

Frame == {"EVENT", "CONFIRM", "UNKNOWN"}

\* A wait is registered exactly while it runs, and one that ran into a context
\* being closed knows it was cancelled.  The callers are out once the closer
\* has started, and it frees the context only after the last wait.
CloseInv ==
    /\ \A w \in Waiter : w \in pWaiters <=> InContext(w)
    /\ bClosing <=> pc[Closer] # "OPEN"
    /\ pc[Closer] # "OPEN" => \A c \in Caller : pc[c] = "OUT"
    /\ pc[Closer] = "FREED" => pWaiters = {}

\* A readable cancel socket, a closing context and a CANCELLED error all come
\* from a cancellation sent during the wait.
CancelInv ==
    /\ signalled \subseteq cancelSent
    /\ bClosing => pWaiters \subseteq cancelSent
    /\ \A w \in Waiter : eError[w] = "CANCELLED" => w \in cancelSent

\* The history variable follows the SA, and a success in the making rests on a
\* snapshot that saw it.
ReadyOf(w) ==
    /\ w \in pWaiters /\ saUp => sawUp[w]
    /\ pc[w] = "RELEASE" /\ eError[w] = "OK" /\ snapshot[w] => sawUp[w]
    /\ pc[w] \in {"END", "DONE"} /\ eError[w] = "OK" => sawUp[w]

ReadyInv == \A w \in Waiter : ReadyOf(w)

Unlinked(w) == channel[w] = <<>> /\ w \notin linked /\ subscribed[w] = 0

\* The daemon holds a registration for every live channel from the first
\* confirmation on, and from the snapshot on that registration covers the SA.
LinkOf(w) ==
    /\ pc[w] \in {"OUT", "DONE", "SUBSCRIBE", "RECOVER"} => Unlinked(w)
    /\ pc[w] = "CONFIRM1" /\ w \in linked /\ subscribed[w] = 0 =>
          \A i \in 1..Len(channel[w]) : channel[w][i] # "CONFIRM"
    /\ pc[w] \in {"CONFIRM2", "CHECK", "QUEUE", "QUERY", "RELEASE", "WAIT"} /\ w \in linked =>
          subscribed[w] > 0
    /\ pc[w] = "RELEASE" /\ eError[w] = "OK" /\ ~snapshot[w] /\ w \in linked /\ saUp =>
          channel[w] # <<>>
    /\ pc[w] = "WAIT" /\ w \in linked /\ saUp => channel[w] # <<>>

LinkInv == \A w \in Waiter : LinkOf(w)

IInv == TypeOK /\ CloseInv /\ CancelInv /\ ReadyInv /\ LinkInv
-----------------------------------------------------------------------------
(* Types                                                                   *)

\* A channel may be empty.
LEMMA NoFrame == <<>> \in Seq(Frame)
OBVIOUS

\* Taking a frame leaves the others, one place on.
LEMMA TakeFrame ==
    ASSUME NEW s \in Seq(Frame), s # <<>>
    PROVE  /\ Len(s) \in Nat /\ 1 \in 1..Len(s) /\ Head(s) = s[1] /\ Head(s) \in Frame
           /\ Tail(s) \in Seq(Frame) /\ Len(Tail(s)) = Len(s) - 1
           /\ \A i \in 1..Len(Tail(s)) : i + 1 \in 1..Len(s) /\ Tail(s)[i] = s[i + 1]
<1>1. Len(s) \in Nat /\ Len(s) # 0
  OBVIOUS
<1>2. Head(s) = s[1] /\ Head(s) \in Frame /\ Tail(s) \in Seq(Frame) /\ Len(Tail(s)) = Len(s) - 1
  OBVIOUS
<1>3. \A i \in 1..Len(Tail(s)) : Tail(s)[i] = s[i + 1]
  OBVIOUS
<1> QED
  BY <1>1, <1>2, <1>3

\* Sending a frame puts it last.
LEMMA SendFrame ==
    ASSUME NEW s \in Seq(Frame), NEW f \in Frame
    PROVE  /\ Append(s, f) \in Seq(Frame) /\ Append(s, f) # <<>>
           /\ Len(s) \in Nat /\ Len(Append(s, f)) = Len(s) + 1
           /\ Append(s, f)[Len(s) + 1] = f
           /\ \A i \in 1..Len(s) : Append(s, f)[i] = s[i]
OBVIOUS

\* What the channel operations do to a well-typed channel.
LEMMA ChannelType ==
    ASSUME NEW s \in Seq(Frame)
    PROVE  /\ <<>> \in Seq(Frame) /\ Len(s) \in Nat
           /\ s # <<>> => Tail(s) \in Seq(Frame) /\ Head(s) \in Frame /\ Head(s) = s[1]
           /\ \A f \in Frame : Append(s, f) \in Seq(Frame) /\ Append(s, f) # <<>>
BY NoFrame, TakeFrame, SendFrame

\* TypeOK, one group of variables at a time.
SyncOK ==
    /\ owner \in Waiter \cup Caller \cup {Nobody} /\ bClosing \in BOOLEAN
    /\ pWaiters \subseteq Waiter /\ asleep \subseteq Thread
    /\ signalled \subseteq pWaiters /\ expired \subseteq pWaiters
PcOK ==
    /\ \A w \in Waiter : pc[w] \in WaitStage
    /\ \A c \in Caller : pc[c] \in CallStage
    /\ pc[Closer] \in CloseStage /\ DOMAIN pc = Thread
ErrorOK == eError \in [Waiter -> Error]
ModeOK ==
    /\ bPolling \in [Waiter -> BOOLEAN] /\ inLoop \in [Waiter -> BOOLEAN]
    /\ snapshot \in [Waiter -> BOOLEAN]
LinkOK ==
    /\ channel \in [Waiter -> Seq(Frame)]
    /\ linked \subseteq Waiter /\ subscribed \in [Waiter -> 0..2]
SaOK == saUp \in BOOLEAN /\ changes \in 0..MaxChanges
HistoryOK ==
    /\ waits \in [Waiter -> 0..MaxWaits]
    /\ sawUp \in [Waiter -> BOOLEAN] /\ cancelSent \subseteq Waiter

LEMMA TypeGroups ==
    /\ TypeOK <=> SyncOK /\ PcOK /\ ErrorOK /\ ModeOK /\ LinkOK /\ SaOK /\ HistoryOK
    /\ TypeOK' <=> SyncOK' /\ PcOK' /\ ErrorOK' /\ ModeOK' /\ LinkOK' /\ SaOK' /\ HistoryOK'
BY Zenon DEF TypeOK, SyncOK, PcOK, ErrorOK, ModeOK, LinkOK, SaOK, HistoryOK, Frame

\* A group none of whose variables changes keeps its type.
LEMMA TypeKept ==
    /\ UNCHANGED <<sync, signalled, expired>> /\ SyncOK => SyncOK'
    /\ UNCHANGED pc /\ PcOK => PcOK'
    /\ UNCHANGED progress /\ PcOK /\ ErrorOK => PcOK' /\ ErrorOK'
    /\ UNCHANGED eError /\ ErrorOK => ErrorOK'
    /\ UNCHANGED mode /\ ModeOK => ModeOK'
    /\ UNCHANGED link /\ LinkOK => LinkOK'
    /\ UNCHANGED sa /\ SaOK => SaOK'
    /\ UNCHANGED history /\ HistoryOK => HistoryOK'
BY DEF SyncOK, PcOK, ErrorOK, ModeOK, LinkOK, SaOK, HistoryOK, sync, progress, mode, link, sa, history

\* A thread that goes to a stage of its own kind.
LEMMA TypeGoto ==
    ASSUME PcOK, NEW t \in Thread, NEW s, Goto(t, s),
           \/ t \in Waiter /\ s \in WaitStage
           \/ t \in Caller /\ s \in CallStage
           \/ t = Closer /\ s \in CloseStage
    PROVE  /\ PcOK' /\ pc'[t] = s
           /\ \A u \in Thread : u # t => pc'[u] = pc[u]
BY WaitAssumption DEF PcOK, Goto, Thread

LEMMA TypeFinish ==
    ASSUME PcOK, ErrorOK, NEW w \in Waiter, NEW e \in Error, Finish(w, e)
    PROVE  PcOK' /\ ErrorOK'
BY TypeGoto DEF ErrorOK, Finish, Thread, WaitStage

\* Closing a channel and taking a frame off it.
LEMMA TypeDrop ==
    ASSUME LinkOK, NEW w \in Waiter
    PROVE  /\ DropChannel(w) => LinkOK'
           /\ channel[w] # <<>> /\ channel' = [channel EXCEPT ![w] = Tail(@)]
                 /\ UNCHANGED <<linked, subscribed>> => LinkOK'
<1>1. channel[w] \in Seq(Frame) /\ <<>> \in Seq(Frame)
  BY NoFrame DEF LinkOK
<1>2. channel[w] # <<>> => Tail(channel[w]) \in Seq(Frame)
  BY <1>1, ChannelType
<1>3. DropChannel(w) => LinkOK'
  BY <1>1 DEF LinkOK, DropChannel
<1>4. channel[w] # <<>> /\ channel' = [channel EXCEPT ![w] = Tail(@)]
        /\ UNCHANGED <<linked, subscribed>> => LinkOK'
  BY <1>2 DEF LinkOK
<1> QED
  BY <1>3, <1>4

\* Init establishes the types.
LEMMA TypeInit == Init => TypeOK
<1> SUFFICES ASSUME Init PROVE TypeOK
  OBVIOUS
<1> USE WaitAssumption
<1>1. <<>> \in Seq(Frame)
  BY NoFrame
<1>2. SyncOK
  BY Zenon DEF Init, SyncOK
<1>3. PcOK /\ ErrorOK
  BY DEF Init, PcOK, ErrorOK, Thread, WaitStage, CallStage, CloseStage, Error
<1>4. LinkOK
  BY <1>1 DEF Init, LinkOK
<1>5. HistoryOK
  BY DEF Init, HistoryOK
<1>6. SaOK
  BY DEF Init, SaOK
<1>7. ModeOK
  BY DEF Init, ModeOK
<1> QED
  BY <1>2, <1>3, <1>4, <1>5, <1>6, <1>7, TypeGroups, Zenon

\* Every step of a wait keeps the types.
LEMMA TypeWaiter ==
    ASSUME TypeOK, NEW w \in Waiter, WaiterStep(w)
    PROVE  TypeOK'
<1>0. SyncOK /\ PcOK /\ ErrorOK /\ ModeOK /\ LinkOK /\ SaOK /\ HistoryOK /\ w \in Thread
  BY TypeGroups DEF Thread
<1> SUFFICES SyncOK' /\ PcOK' /\ ErrorOK' /\ ModeOK' /\ LinkOK' /\ SaOK' /\ HistoryOK'
  BY TypeGroups
<1>1. ASSUME NEW s \in WaitStage, Goto(w, s) PROVE PcOK'
  BY <1>0, <1>1, TypeGoto
<1>2. ASSUME NEW e \in Error, Finish(w, e) PROVE PcOK' /\ ErrorOK'
  BY <1>0, <1>2, TypeFinish
<1>3. CASE Subscribe(w)
  <2>1. LinkOK'
    BY <1>0, <1>3 DEF Subscribe, LinkOK
  <2> QED
    BY <1>0, <1>1, <1>3, <2>1, TypeKept, Zenon DEF Subscribe, WaitStage
<1>4. CASE ReadConfirm(w)
  <2>1. LinkOK'
    BY <1>0, <1>4, TypeDrop, Zenon DEF ReadConfirm
  <2>2. PcOK'
    BY <1>0, <1>1, <1>4, TypeKept, Zenon DEF ReadConfirm, AfterConfirm, WaitStage
  <2>3. ModeOK'
    BY <1>0, <1>4, Zenon DEF ReadConfirm, ModeOK
  <2> QED
    BY <1>0, <1>4, <2>1, <2>2, <2>3, TypeKept, Zenon DEF ReadConfirm
<1>5. CASE SubscribeError(w)
  BY <1>0, <1>1, <1>2, <1>5, TypeDrop, TypeKept, Zenon DEF SubscribeError, SubscribeFails,
     WaitStage
<1>6. CASE CheckWait(w)
  BY <1>0, <1>1, <1>2, <1>6, TypeKept, Zenon DEF CheckWait, WaitStage, Error
<1>7. CASE Query(w)
  <2>1. saUp \in BOOLEAN /\ "OK" \in Error
    BY <1>0 DEF SaOK, Error
  <2>2. PICK b \in BOOLEAN, e \in Error :
           snapshot' = [snapshot EXCEPT ![w] = b] /\ eError' = [eError EXCEPT ![w] = e]
    BY <1>7, <2>1, Zenon DEF Query
  <2>3. UNCHANGED <<bPolling, inLoop>>
    BY <1>7, Zenon DEF Query
  <2>4. ErrorOK'
    BY <1>0, <2>2 DEF ErrorOK
  <2>5. ModeOK'
    BY <1>0, <2>2, <2>3 DEF ModeOK
  <2> QED
    BY <1>0, <1>1, <1>7, <2>4, <2>5, TypeKept, Zenon DEF Query, WaitStage
<1>8. CASE ReleaseQuery(w)
  <2>1. SyncOK'
    BY <1>0, <1>8 DEF ReleaseQuery, Broadcast, SyncOK
  <2>2. PcOK'
    BY <1>1, <1>8 DEF ReleaseQuery, WaitStage
  <2> QED
    BY <1>0, <1>8, <2>1, <2>2, TypeDrop, TypeKept, Zenon DEF ReleaseQuery
<1>9. CASE ReceiveViciSaChange(w)
  <2>1. LinkOK'
    BY <1>0, <1>9, TypeDrop, Zenon DEF ReceiveViciSaChange
  <2>2. PcOK' /\ ErrorOK'
    BY <1>0, <1>1, <1>2, <1>9, TypeKept, Zenon DEF ReceiveViciSaChange, WaitStage, Error
  <2> QED
    BY <1>0, <1>9, <2>1, <2>2, TypeKept, Zenon DEF ReceiveViciSaChange
<1>10. CASE PausePolling(w)
  BY <1>0, <1>1, <1>2, <1>10, TypeKept, Zenon DEF PausePolling, WaitStage, Error
<1>11. CASE RecoverViciWait(w)
  BY <1>0, <1>1, <1>2, <1>11, TypeKept, Zenon DEF RecoverViciWait, WaitStage, Error
<1>12. CASE EndViciWait(w)
  <2>1. SyncOK'
    BY <1>0, <1>12 DEF EndViciWait, Broadcast, SyncOK
  <2>2. ModeOK'
    BY <1>0, <1>12 DEF EndViciWait, ResetMode, ModeOK
  <2> QED
    BY <1>0, <1>1, <1>12, <2>1, <2>2, TypeDrop, TypeKept, Zenon DEF EndViciWait, WaitStage
<1> QED
  BY <1>3, <1>4, <1>5, <1>6, <1>7, <1>8, <1>9, <1>10, <1>11, <1>12, Zenon DEF WaiterStep

\* So does every step of the command queue, of a wait or of a caller.
LEMMA TypeQueue ==
    ASSUME TypeOK, NEW t \in Waiter \cup Caller, QueueStep(t)
    PROVE  TypeOK'
<1>0. SyncOK /\ PcOK /\ ErrorOK /\ ModeOK /\ LinkOK /\ SaOK /\ HistoryOK /\ t \in Thread
  BY TypeGroups DEF Thread
<1> SUFFICES SyncOK' /\ PcOK' /\ ErrorOK' /\ ModeOK' /\ LinkOK' /\ SaOK' /\ HistoryOK'
  BY TypeGroups
<1>1. CASE Acquire(t)
  <2>1. SyncOK'
    BY <1>0, <1>1 DEF Acquire, SyncOK
  <2>2. PcOK'
    BY <1>0, <1>1, TypeGoto, WaitAssumption, Zenon DEF Acquire, WaitStage, CallStage
  <2> QED
    BY <1>0, <1>1, <2>1, <2>2, TypeKept, Zenon DEF Acquire
<1>2. CASE Sleep(t)
  <2>1. SyncOK'
    BY <1>0, <1>2 DEF Sleep, SyncOK
  <2> QED
    BY <1>0, <1>2, <2>1, TypeKept, Zenon DEF Sleep
<1>3. CASE AcquireFails(t)
  <2>1. SyncOK'
    BY <1>0, <1>3 DEF AcquireFails, SyncOK
  <2>2. CASE t \in Waiter
    BY <1>0, <1>3, <2>1, <2>2, TypeFinish, TypeKept, Zenon DEF AcquireFails, Error
  <2>3. CASE t \notin Waiter
    BY <1>0, <1>3, <2>1, <2>3, TypeGoto, TypeKept, Zenon DEF AcquireFails, CallStage
  <2> QED
    BY <2>2, <2>3
<1> QED
  BY <1>1, <1>2, <1>3 DEF QueueStep

\* Every step keeps the types.
LEMMA TypeNext ==
    ASSUME TypeOK, [Next]_vars
    PROVE  TypeOK'
<1>0. SyncOK /\ PcOK /\ ErrorOK /\ ModeOK /\ LinkOK /\ SaOK /\ HistoryOK
  BY TypeGroups
<1>a. SUFFICES ASSUME SyncOK' /\ PcOK' /\ ErrorOK' /\ ModeOK' /\ LinkOK' /\ SaOK' /\ HistoryOK' => TypeOK'
               PROVE  TypeOK'
  BY TypeGroups
<1>1. ASSUME NEW w \in Waiter, BeginViciWait(w) PROVE TypeOK'
  <2>1. SyncOK' /\ SaOK' /\ ModeOK' /\ LinkOK'
    BY <1>0, <1>1, TypeKept, Zenon DEF BeginViciWait, SyncOK
  <2>2. PcOK'
    BY <1>0, <1>1, TypeGoto, Zenon DEF BeginViciWait, WaitStage, Thread
  <2>3. ErrorOK'
    BY <1>0, <1>1 DEF BeginViciWait, ErrorOK, Error
  <2>4. HistoryOK'
    BY <1>0, <1>1, WaitAssumption DEF BeginViciWait, HistoryOK, SaOK
  <2> QED
    BY <1>a, <2>1, <2>2, <2>3, <2>4
<1>2. ASSUME NEW w \in Waiter, Expire(w) PROVE TypeOK'
  BY <1>0, <1>2, <1>a, TypeKept, Zenon DEF Expire, SyncOK, sync
<1>3. ASSUME NEW w \in Waiter, DaemonConfirms(w) PROVE TypeOK'
  <2>1. channel[w] \in Seq(Frame) /\ "CONFIRM" \in Frame /\ "UNKNOWN" \in Frame
    BY <1>0 DEF LinkOK, Frame
  <2>2. Append(channel[w], "CONFIRM") \in Seq(Frame) /\ Append(channel[w], "UNKNOWN") \in Seq(Frame)
    BY <2>1, ChannelType
  <2>3. channel' \in [Waiter -> Seq(Frame)]
    BY <1>0, <1>3, <2>2, Zenon DEF DaemonConfirms, LinkOK
  <2>a. /\ subscribed[w] \in {0, 1} /\ UNCHANGED linked
        /\ \/ subscribed' = [subscribed EXCEPT ![w] = subscribed[w] + 1]
           \/ UNCHANGED subscribed
    BY <1>3, Zenon DEF DaemonConfirms
  <2>b. subscribed \in [Waiter -> 0..2] /\ linked \subseteq Waiter
    BY <1>0 DEF LinkOK
  <2>4. subscribed' \in [Waiter -> 0..2] /\ linked' \subseteq Waiter
    BY <2>a, <2>b
  <2> QED
    BY <1>0, <1>3, <1>a, <2>3, <2>4, TypeKept, Zenon DEF DaemonConfirms, LinkOK
<1>4. ASSUME NEW w \in Waiter, DaemonDrops(w) PROVE TypeOK'
  <2>1. LinkOK'
    BY <1>0, <1>4 DEF DaemonDrops, LinkOK
  <2> QED
    BY <1>0, <1>4, <1>a, <2>1, TypeKept, Zenon DEF DaemonDrops
<1>5. ASSUME NEW c \in Caller, EnterCommand(c) PROVE TypeOK'
  BY <1>0, <1>5, <1>a, TypeGoto, TypeKept, Zenon DEF EnterCommand, CallStage, Thread
<1>6. ASSUME NEW c \in Caller, FinishCommand(c) PROVE TypeOK'
  <2>1. SyncOK'
    BY <1>0, <1>6 DEF FinishCommand, Broadcast, SyncOK
  <2>2. PcOK'
    BY <1>0, <1>6, TypeGoto DEF FinishCommand, CallStage, Thread
  <2> QED
    BY <1>0, <1>6, <1>a, <2>1, <2>2, TypeKept, Zenon DEF FinishCommand
<1>7. CASE CancelIpsecWaits
  <2>1. SyncOK' /\ HistoryOK'
    BY <1>0, <1>7 DEF CancelIpsecWaits, SignalViciWaits, Broadcast, SyncOK, HistoryOK
  <2> QED
    BY <1>0, <1>7, <1>a, <2>1, TypeKept, Zenon DEF CancelIpsecWaits
<1>8. CASE CloseViciWaits
  <2>1. SyncOK' /\ HistoryOK'
    BY <1>0, <1>8 DEF CloseViciWaits, SignalViciWaits, Broadcast, SyncOK, HistoryOK
  <2>2. PcOK'
    BY <1>0, <1>8, TypeGoto DEF CloseViciWaits, CloseStage, Thread
  <2> QED
    BY <1>0, <1>8, <1>a, <2>1, <2>2, TypeKept, Zenon DEF CloseViciWaits
<1>9. CASE Drain
  <2>1. SyncOK'
    BY <1>0, <1>9 DEF Drain, SyncOK, Thread
  <2>2. PcOK'
    BY <1>0, <1>9, TypeGoto, TypeKept, Zenon DEF Drain, CloseStage, Thread
  <2> QED
    BY <1>0, <1>9, <1>a, <2>1, <2>2, TypeKept, Zenon DEF Drain
<1>10. CASE DaemonChangesSa
  <2>1. \A w \in Waiter : channel[w] \in Seq(Frame) /\ Append(channel[w], "EVENT") \in Seq(Frame)
    BY <1>0, ChannelType DEF LinkOK, Frame
  <2>2. LinkOK'
    BY <1>0, <1>10, <2>1, Zenon DEF DaemonChangesSa, LinkOK
  <2>3. SaOK'
    BY <1>0, <1>10, WaitAssumption DEF DaemonChangesSa, SaOK
  <2>4. HistoryOK'
    BY <1>0, <1>10 DEF DaemonChangesSa, HistoryOK
  <2> QED
    BY <1>0, <1>10, <1>a, <2>2, <2>3, <2>4, TypeKept, Zenon DEF DaemonChangesSa
<1>11. CASE UNCHANGED vars
  BY <1>0, <1>11, <1>a, TypeKept, Zenon DEF vars, sync, progress, mode, link, sa, history
<1> QED
  BY <1>1, <1>2, <1>3, <1>4, <1>5, <1>6, <1>7, <1>8, <1>9, <1>10, <1>11, TypeWaiter, TypeQueue,
     Zenon DEF Next

-----------------------------------------------------------------------------
(* Closing                                                                 *)

\* Goto moves one thread.
LEMMA GotoMoves ==
    ASSUME PcOK, NEW t \in Thread, NEW s, Goto(t, s)
    PROVE  \A u \in Thread : pc'[u] = IF u = t THEN s ELSE pc[u]
BY DEF PcOK, Goto

\* A step of a wait, the last one aside, moves that wait alone and leaves it
\* registered.
LEMMA WaiterMoves ==
    ASSUME TypeOK, NEW w \in Waiter, WaiterStep(w), ~EndViciWait(w)
    PROVE  /\ InContext(w) /\ InContext(w)'
           /\ \A u \in Thread : u # w => pc'[u] = pc[u]
           /\ UNCHANGED <<bClosing, pWaiters, signalled, cancelSent>>
<1>0. PcOK /\ w \in Thread
  BY TypeGroups DEF Thread
<1>1. ASSUME NEW s, Goto(w, s)
      PROVE  pc'[w] = s /\ \A u \in Thread : u # w => pc'[u] = pc[u]
  BY <1>0, <1>1, GotoMoves
<1>2. ASSUME NEW e, Finish(w, e)
      PROVE  pc'[w] = "END" /\ \A u \in Thread : u # w => pc'[u] = pc[u]
  BY <1>1, <1>2 DEF Finish
<1>3. CASE Subscribe(w)
  BY <1>1, <1>3 DEF Subscribe, InContext, sync, history
<1>4. CASE ReadConfirm(w)
  BY <1>1, <1>4 DEF ReadConfirm, AfterConfirm, InContext, sync, history
<1>5. CASE SubscribeError(w)
  BY <1>1, <1>2, <1>5 DEF SubscribeError, SubscribeFails, InContext, sync, history
<1>6. CASE CheckWait(w)
  BY <1>1, <1>2, <1>6 DEF CheckWait, InContext, sync, history
<1>7. CASE Query(w)
  BY <1>1, <1>7 DEF Query, InContext, sync, history
<1>8. CASE ReleaseQuery(w)
  BY <1>1, <1>8 DEF ReleaseQuery, InContext, sync, history
<1>9. CASE ReceiveViciSaChange(w)
  BY <1>1, <1>2, <1>9 DEF ReceiveViciSaChange, InContext, sync, history
<1>10. CASE PausePolling(w)
  BY <1>1, <1>2, <1>10 DEF PausePolling, InContext, sync, history
<1>11. CASE RecoverViciWait(w)
  BY <1>1, <1>2, <1>11 DEF RecoverViciWait, InContext, sync, history
<1> QED
  BY <1>3, <1>4, <1>5, <1>6, <1>7, <1>8, <1>9, <1>10, <1>11, Zenon DEF WaiterStep

\* A step of the queue leaves a wait registered and a caller known to be
\* outside where it is.
LEMMA QueueMoves ==
    ASSUME TypeOK, NEW t \in Waiter \cup Caller, QueueStep(t)
    PROVE  /\ pc[t] = "QUEUE" /\ (t \in Waiter => InContext(t)')
           /\ \A u \in Thread : u # t => pc'[u] = pc[u]
           /\ UNCHANGED <<bClosing, pWaiters, signalled, cancelSent>>
<1>0. PcOK /\ t \in Thread
  BY TypeGroups DEF Thread
<1>1. ASSUME NEW s, Goto(t, s)
      PROVE  pc'[t] = s /\ \A u \in Thread : u # t => pc'[u] = pc[u]
  BY <1>0, <1>1, GotoMoves
<1>2. CASE Acquire(t)
  BY <1>1, <1>2 DEF Acquire, QueueOpen, InContext, history
<1>3. CASE Sleep(t)
  BY <1>3 DEF Sleep, QueueOpen, InContext, history, progress
<1>4. CASE AcquireFails(t)
  BY <1>1, <1>4 DEF AcquireFails, Finish, InContext, history
<1> QED
  BY <1>2, <1>3, <1>4 DEF QueueStep

LEMMA CloseStep ==
    ASSUME TypeOK, CloseInv, [Next]_vars
    PROVE  CloseInv'
<1>0. PcOK /\ (\A t \in Waiter \cup Caller : t \in Thread /\ t # Closer) /\ Closer \in Thread
  BY TypeGroups, WaitAssumption DEF Thread
<1>1. ASSUME NEW w \in Waiter, BeginViciWait(w) PROVE CloseInv'
  <2>1. \A u \in Thread : u # w => pc'[u] = pc[u]
    BY <1>0, <1>1, GotoMoves DEF BeginViciWait
  <2>2. pc'[w] = IF bClosing THEN "DONE" ELSE "SUBSCRIBE"
    BY <1>0, <1>1, GotoMoves DEF BeginViciWait
  <2> QED
    BY <1>0, <1>1, <2>1, <2>2, WaitAssumption DEF BeginViciWait, CloseInv, InContext
<1>2. ASSUME NEW w \in Waiter, WaiterStep(w), ~EndViciWait(w) PROVE CloseInv'
  BY <1>0, <1>2, WaiterMoves DEF CloseInv, InContext
<1>3. ASSUME NEW w \in Waiter, EndViciWait(w) PROVE CloseInv'
  <2>1. pc'[w] = "DONE" /\ \A u \in Thread : u # w => pc'[u] = pc[u]
    BY <1>0, <1>3, GotoMoves DEF EndViciWait
  <2> QED
    BY <1>0, <1>3, <2>1 DEF EndViciWait, CloseInv, InContext
<1>4. ASSUME NEW t \in Waiter \cup Caller, QueueStep(t) PROVE CloseInv'
  BY <1>0, <1>4, QueueMoves DEF CloseInv, InContext
<1>5. ASSUME NEW w \in Waiter, Expire(w) \/ DaemonConfirms(w) \/ DaemonDrops(w) PROVE CloseInv'
  BY <1>5 DEF Expire, DaemonConfirms, DaemonDrops, CloseInv, InContext, sync, progress
<1>6. ASSUME NEW c \in Caller, EnterCommand(c) \/ FinishCommand(c) PROVE CloseInv'
  <2>1. \A u \in Thread : u # c => pc'[u] = pc[u]
    BY <1>0, <1>6, GotoMoves DEF EnterCommand, FinishCommand
  <2>2. (EnterCommand(c) => pc[Closer] = "OPEN") /\ (FinishCommand(c) => pc'[c] = "OUT")
    BY <1>0, <1>6, GotoMoves, Zenon DEF EnterCommand, FinishCommand
  <2> QED
    BY <1>0, <1>6, <2>1, WaitAssumption DEF EnterCommand, FinishCommand, CloseInv, InContext,
       sync
<1>7. CASE CancelIpsecWaits
  BY <1>7 DEF CancelIpsecWaits, CloseInv, InContext, progress
<1>8. CASE CloseViciWaits
  <2>1. pc'[Closer] = "DRAIN" /\ \A u \in Thread : u # Closer => pc'[u] = pc[u]
    BY <1>0, <1>8, GotoMoves DEF CloseViciWaits
  <2> QED
    BY <1>0, <1>8, <2>1 DEF CloseViciWaits, CloseInv, InContext
<1>9. CASE Drain
  <2>1. CASE Drained
    <3>1. pc'[Closer] = "FREED" /\ \A u \in Thread : u # Closer => pc'[u] = pc[u]
      BY <1>0, <1>9, <2>1, GotoMoves, Zenon DEF Drain
    <3> QED
      BY <1>0, <1>9, <3>1, Zenon DEF Drain, Drained, CloseInv, InContext
  <2>2. CASE ~Drained
    BY <1>9, <2>2 DEF Drain, CloseInv, InContext
  <2> QED
    BY <2>1, <2>2
<1>10. CASE DaemonChangesSa
  BY <1>10 DEF DaemonChangesSa, CloseInv, InContext, sync, progress
<1>11. CASE UNCHANGED vars
  BY <1>11 DEF vars, CloseInv, InContext, sync, progress
<1> QED
  BY <1>1, <1>2, <1>3, <1>4, <1>5, <1>6, <1>7, <1>8, <1>9, <1>10, <1>11, Zenon DEF Next

-----------------------------------------------------------------------------
(* Cancellation                                                            *)

\* A step of a wait turns its error into CANCELLED only when its cancel socket
\* is readable.
LEMMA WaiterErrors ==
    ASSUME TypeOK, NEW w \in Waiter, WaiterStep(w)
    PROVE  /\ \A u \in Waiter : u # w => eError'[u] = eError[u]
           /\ eError'[w] = "CANCELLED" => eError[w] = "CANCELLED" \/ w \in signalled
           /\ UNCHANGED <<bClosing, cancelSent>>
<1>0. ErrorOK
  BY TypeGroups
<1>1. ASSUME NEW e, Finish(w, e), e = "CANCELLED" => w \in signalled
      PROVE  /\ \A u \in Waiter : u # w => eError'[u] = eError[u]
             /\ eError'[w] = "CANCELLED" => w \in signalled
  BY <1>0, <1>1 DEF Finish, ErrorOK
<1>2. CASE SubscribeError(w)
  BY <1>1, <1>2 DEF SubscribeError, SubscribeFails, sync, history
<1>3. CASE Query(w)
  BY <1>0, <1>3 DEF Query, ErrorOK, sync, history
<1>4. CASE ReceiveViciSaChange(w)
  BY <1>1, <1>4, Zenon DEF ReceiveViciSaChange, sync, history
<1>5. CASE CheckWait(w)
  BY <1>1, <1>5 DEF CheckWait, sync, history
<1>6. CASE PausePolling(w)
  BY <1>1, <1>6 DEF PausePolling, sync, history
<1>7. CASE RecoverViciWait(w)
  BY <1>1, <1>7 DEF RecoverViciWait, sync, history
<1>8. CASE Subscribe(w) \/ ReadConfirm(w) \/ ReleaseQuery(w) \/ EndViciWait(w)
  BY <1>8, Zenon DEF Subscribe, ReadConfirm, ReleaseQuery, EndViciWait, sync, history
<1> QED
  BY <1>2, <1>3, <1>4, <1>5, <1>6, <1>7, <1>8, Zenon DEF WaiterStep

LEMMA CancelStep ==
    ASSUME TypeOK, CloseInv, CancelInv, [Next]_vars
    PROVE  CancelInv'
<1>0. ErrorOK /\ SyncOK /\ PcOK
  BY TypeGroups
<1>1. ASSUME NEW w \in Waiter, BeginViciWait(w) PROVE CancelInv'
  <2>1. w \notin pWaiters /\ w \notin signalled
    BY <1>0, <1>1, Zenon DEF BeginViciWait, CloseInv, InContext, SyncOK
  <2> QED
    BY <1>0, <1>1, <2>1, Zenon DEF BeginViciWait, CancelInv, ErrorOK
<1>2. ASSUME NEW w \in Waiter, WaiterStep(w), ~EndViciWait(w) PROVE CancelInv'
  BY <1>2, WaiterMoves, WaiterErrors DEF CancelInv
<1>3. ASSUME NEW w \in Waiter, EndViciWait(w) PROVE CancelInv'
  BY <1>3 DEF EndViciWait, CancelInv, history
<1>4. ASSUME NEW t \in Waiter \cup Caller, QueueStep(t) PROVE CancelInv'
  <2>1. CASE Acquire(t) \/ Sleep(t)
    BY <2>1 DEF Acquire, Sleep, CancelInv, history, progress
  <2>2. CASE AcquireFails(t)
    <3>1. t \in Waiter => t \in pWaiters
      BY <2>2 DEF AcquireFails, CloseInv, InContext
    <3> QED
      BY <1>0, <2>2, <3>1 DEF AcquireFails, Finish, Refused, CancelInv, ErrorOK, history
  <2> QED
    BY <1>4, <2>1, <2>2 DEF QueueStep
<1>5. ASSUME NEW w \in Waiter, Expire(w) \/ DaemonConfirms(w) \/ DaemonDrops(w) PROVE CancelInv'
  BY <1>5 DEF Expire, DaemonConfirms, DaemonDrops, CancelInv, sync, progress, history
<1>6. ASSUME NEW c \in Caller, EnterCommand(c) \/ FinishCommand(c) PROVE CancelInv'
  BY <1>6 DEF EnterCommand, FinishCommand, CancelInv, sync, history
<1>7. CASE CancelIpsecWaits
  BY <1>7 DEF CancelIpsecWaits, SignalViciWaits, CancelInv, progress
<1>8. CASE CloseViciWaits
  BY <1>8 DEF CloseViciWaits, SignalViciWaits, CancelInv
<1>9. CASE Drain
  BY <1>9 DEF Drain, CancelInv, history
<1>10. CASE DaemonChangesSa
  BY <1>10 DEF DaemonChangesSa, CancelInv, sync, progress
<1>11. CASE UNCHANGED vars
  BY <1>11 DEF vars, CancelInv, sync, progress, history
<1> QED
  BY <1>1, <1>2, <1>3, <1>4, <1>5, <1>6, <1>7, <1>8, <1>9, <1>10, <1>11, Zenon DEF Next

-----------------------------------------------------------------------------
(* Success                                                                 *)

\* A wait another thread's step leaves alone.
LEMMA ReadyKept ==
    ASSUME NEW w \in Waiter, ReadyOf(w), w \in pWaiters' => w \in pWaiters,
           pc'[w] = pc[w], eError'[w] = eError[w], snapshot'[w] = snapshot[w],
           UNCHANGED <<saUp, sawUp>>
    PROVE  ReadyOf(w)'
BY DEF ReadyOf

\* The step of a wait keeps what ReadyInv says of it.
LEMMA ReadyWaiter ==
    ASSUME TypeOK, CloseInv, NEW w \in Waiter, ReadyOf(w), WaiterStep(w)
    PROVE  ReadyOf(w)'
<1>0. PcOK /\ ErrorOK /\ ModeOK /\ w \in Thread
  BY TypeGroups DEF Thread
<1>1. pc'[w] \notin {"RELEASE", "END", "DONE"} /\ pWaiters' \subseteq pWaiters
        /\ UNCHANGED <<saUp, sawUp>> => ReadyOf(w)'
  BY DEF ReadyOf
<1>2. ASSUME NEW s, Goto(w, s) PROVE pc'[w] = s
  BY <1>0, <1>2, GotoMoves
<1>3. ASSUME NEW e, e # "OK", Finish(w, e), UNCHANGED <<pWaiters, saUp, sawUp>> PROVE ReadyOf(w)'
  BY <1>0, <1>2, <1>3 DEF Finish, ErrorOK, ReadyOf
<1>4. CASE Subscribe(w) \/ ReadConfirm(w)
  BY <1>0, <1>1, <1>2, <1>4, Zenon DEF Subscribe, ReadConfirm, AfterConfirm, sync, sa, history
<1>5. CASE SubscribeError(w)
  BY <1>1, <1>2, <1>3, <1>5, Zenon DEF SubscribeError, SubscribeFails, sync, sa, history
<1>6. CASE CheckWait(w)
  BY <1>1, <1>2, <1>3, <1>6, Zenon DEF CheckWait, sync, sa, history
<1>7. CASE Query(w)
  <2>1. pc'[w] = "RELEASE" /\ w \in pWaiters
    BY <1>2, <1>7 DEF Query, CloseInv, InContext
  <2>2. eError'[w] = "OK" /\ snapshot'[w] => saUp
    BY <1>0, <1>7 DEF Query, ErrorOK, ModeOK
  <2> QED
    BY <1>7, <2>1, <2>2, Zenon DEF Query, ReadyOf, sync, sa, history
<1>8. CASE ReleaseQuery(w)
  <2>1. \/ pc'[w] \in {"RECOVER", "WAIT"}
        \/ pc'[w] = "END" /\ (eError[w] = "OK" => snapshot[w])
    BY <1>2, <1>8 DEF ReleaseQuery
  <2> QED
    BY <1>8, <2>1 DEF ReleaseQuery, ReadyOf, sa, history
<1>9. CASE ReceiveViciSaChange(w)
  BY <1>1, <1>2, <1>3, <1>9, Zenon DEF ReceiveViciSaChange, sync, sa, history
<1>10. CASE PausePolling(w)
  BY <1>1, <1>2, <1>3, <1>10, Zenon DEF PausePolling, sync, sa, history
<1>11. CASE RecoverViciWait(w)
  BY <1>1, <1>2, <1>3, <1>11, Zenon DEF RecoverViciWait, sync, sa, history
<1>12. CASE EndViciWait(w)
  BY <1>2, <1>12, Zenon DEF EndViciWait, ReadyOf, sa, history
<1> QED
  BY <1>4, <1>5, <1>6, <1>7, <1>8, <1>9, <1>10, <1>11, <1>12, Zenon DEF WaiterStep

\* What ReadyInv and LinkInv look at in a wait.
Same(w) ==
    /\ w \in pWaiters' => w \in pWaiters
    /\ pc'[w] = pc[w] /\ eError'[w] = eError[w] /\ snapshot'[w] = snapshot[w]
    /\ channel'[w] = channel[w] /\ subscribed'[w] = subscribed[w]
    /\ w \in linked' <=> w \in linked

\* The step of a wait is of no concern to the other waits.
LEMMA WaiterLocal ==
    ASSUME TypeOK, NEW w \in Waiter, WaiterStep(w)
    PROVE  /\ \A u \in Waiter : u # w => Same(u)
           /\ UNCHANGED <<saUp, sawUp>>
<1>0. PcOK /\ ErrorOK /\ ModeOK /\ LinkOK /\ w \in Thread /\ Waiter \subseteq Thread
  BY TypeGroups DEF Thread
<1> DEFINE Others(f, g) == \A u \in Waiter : u # w => g[u] = f[u]
<1>1. UNCHANGED <<saUp, sawUp>> /\ pWaiters' \subseteq pWaiters
  BY Zenon DEF WaiterStep, Subscribe, ReadConfirm, SubscribeError, SubscribeFails, CheckWait,
     Query, ReleaseQuery, ReceiveViciSaChange, PausePolling, RecoverViciWait, EndViciWait, sync,
     sa, history
<1>2. Others(pc, pc')
  <2>1. CASE EndViciWait(w)
    BY <1>0, <2>1, GotoMoves DEF EndViciWait
  <2> QED
    BY <1>0, <2>1, WaiterMoves
<1>3. Others(eError, eError')
  BY WaiterErrors
<1>4. Others(snapshot, snapshot')
  BY <1>0, Zenon DEF WaiterStep, Subscribe, ReadConfirm, SubscribeError, SubscribeFails,
     CheckWait, Query, ReleaseQuery, ReceiveViciSaChange, PausePolling, RecoverViciWait,
     EndViciWait, ResetMode, ModeOK, mode
<1>5. ASSUME \/ DropChannel(w)
             \/ UNCHANGED link
             \/ channel' = [channel EXCEPT ![w] = Tail(@)] /\ UNCHANGED <<linked, subscribed>>
             \/ linked' = linked \cup {w} /\ UNCHANGED <<channel, subscribed>>
      PROVE  /\ Others(channel, channel') /\ Others(subscribed, subscribed')
             /\ \A u \in Waiter : u # w => (u \in linked' <=> u \in linked)
  BY <1>0, <1>5 DEF DropChannel, LinkOK, link
<1>6. /\ Others(channel, channel') /\ Others(subscribed, subscribed')
      /\ \A u \in Waiter : u # w => (u \in linked' <=> u \in linked)
  BY <1>5, Zenon DEF WaiterStep, Subscribe, ReadConfirm, SubscribeError, SubscribeFails,
     CheckWait, Query, ReleaseQuery, ReceiveViciSaChange, PausePolling, RecoverViciWait,
     EndViciWait
<1> QED
  BY <1>1, <1>2, <1>3, <1>4, <1>6 DEF Same

\* The steps that are not a wait's own, but for those of the daemon, touch at
\* most the wait they begin or the one in the queue.
LEMMA QueueLocal ==
    ASSUME TypeOK, NEW t \in Waiter \cup Caller, QueueStep(t)
    PROVE  /\ \A u \in Waiter : u # t => Same(u)
           /\ UNCHANGED <<saUp, sawUp>>
<1>0. PcOK /\ ErrorOK /\ t \in Thread /\ Waiter \subseteq Thread
  BY TypeGroups DEF Thread
<1>1. UNCHANGED <<snapshot, channel, subscribed, linked, saUp, sawUp>>
  BY DEF QueueStep, Acquire, Sleep, AcquireFails, mode, link, sa, history
<1>2. \A u \in Waiter : u # t => eError'[u] = eError[u]
  BY <1>0, Zenon DEF QueueStep, Acquire, Sleep, AcquireFails, Finish, progress, ErrorOK
<1> QED
  BY <1>0, <1>1, <1>2, QueueMoves DEF Same

LEMMA ReadyStep ==
    ASSUME TypeOK, CloseInv, ReadyInv, [Next]_vars
    PROVE  ReadyInv'
<1>0. PcOK /\ ErrorOK /\ HistoryOK /\ Waiter \subseteq Thread /\ Caller \subseteq Thread /\ Closer \in Thread
  BY TypeGroups DEF Thread
<1>a. ASSUME NEW w \in Waiter, Same(w), UNCHANGED <<saUp, sawUp>> PROVE ReadyOf(w)'
  BY <1>a, ReadyKept DEF ReadyInv, Same
<1>1. ASSUME NEW w \in Waiter, BeginViciWait(w) PROVE ReadyInv'
  <2>1. ASSUME NEW u \in Waiter, u # w PROVE ReadyOf(u)'
    <3>1. pc'[u] = pc[u]
      BY <1>0, <1>1, <2>1, GotoMoves DEF BeginViciWait
    <3>2. eError'[u] = eError[u] /\ sawUp'[u] = sawUp[u] /\ (u \in pWaiters' => u \in pWaiters)
      BY <1>0, <1>1, <2>1, Zenon DEF BeginViciWait, ErrorOK, HistoryOK
    <3>3. ReadyOf(u) /\ UNCHANGED <<snapshot, saUp>>
      BY <1>1 DEF BeginViciWait, mode, sa, ReadyInv
    <3> QED
      BY <3>1, <3>2, <3>3, Zenon DEF ReadyOf
  <2>2. ReadyOf(w)'
    <3>1. \/ pc'[w] = "SUBSCRIBE"
          \/ pc'[w] = "DONE" /\ eError'[w] = "CANCELLED"
      BY <1>0, <1>1, GotoMoves DEF BeginViciWait, ErrorOK
    <3>2. sawUp'[w] = saUp /\ UNCHANGED saUp
      BY <1>0, <1>1, Zenon DEF BeginViciWait, HistoryOK, sa
    <3> QED
      BY <3>1, <3>2 DEF ReadyOf
  <2> QED
    BY <2>1, <2>2 DEF ReadyInv
<1>2. ASSUME NEW w \in Waiter, WaiterStep(w) PROVE ReadyInv'
  BY <1>2, <1>a, WaiterLocal, ReadyWaiter DEF ReadyInv
<1>3. ASSUME NEW t \in Waiter \cup Caller, QueueStep(t) PROVE ReadyInv'
  <2>1. ASSUME t \in Waiter PROVE ReadyOf(t)'
    <3>1. ReadyOf(t) /\ UNCHANGED <<pWaiters, saUp, sawUp>>
      BY <1>3, <2>1, QueueMoves, QueueLocal DEF ReadyInv
    <3>2. \/ pc'[t] \in {"QUEUE", "QUERY"}
          \/ pc'[t] = "END" /\ eError'[t] # "OK"
      <4>1. CASE Acquire(t)
        BY <1>0, <2>1, <4>1, GotoMoves, Zenon DEF Acquire
      <4>2. CASE Sleep(t)
        BY <4>2 DEF Sleep, QueueOpen, progress
      <4>3. CASE AcquireFails(t)
        BY <1>0, <2>1, <4>3, GotoMoves DEF AcquireFails, Finish, ErrorOK
      <4> QED
        BY <1>3, <4>1, <4>2, <4>3 DEF QueueStep
    <3> QED
      BY <3>1, <3>2 DEF ReadyOf
  <2> QED
    BY <1>3, <1>a, <2>1, QueueLocal DEF ReadyInv
<1>4. ASSUME NEW w \in Waiter, Expire(w) \/ DaemonConfirms(w) \/ DaemonDrops(w) PROVE ReadyInv'
  BY <1>4, Zenon DEF Expire, DaemonConfirms, DaemonDrops, ReadyInv, ReadyOf, sync, progress,
     mode, sa, history
<1>5. ASSUME NEW t \in Thread \ Waiter, NEW s, Goto(t, s),
             UNCHANGED <<pWaiters, eError, snapshot, saUp, sawUp>>
      PROVE  ReadyInv'
  <2>1. \A u \in Waiter : pc'[u] = pc[u]
    BY <1>0, <1>5, GotoMoves
  <2> QED
    BY <1>5, <2>1 DEF ReadyInv, ReadyOf
<1>6. ASSUME NEW c \in Caller, EnterCommand(c) \/ FinishCommand(c) PROVE ReadyInv'
  BY <1>0, <1>5, <1>6, WaitAssumption, Zenon DEF EnterCommand, FinishCommand, sync, mode, sa,
     history
<1>7. CASE CancelIpsecWaits
  BY <1>7 DEF CancelIpsecWaits, ReadyInv, ReadyOf, progress, mode, sa
<1>8. CASE CloseViciWaits
  BY <1>0, <1>5, <1>8, WaitAssumption, Zenon DEF CloseViciWaits, mode, sa
<1>9. CASE Drain
  <2>1. CASE UNCHANGED pc
    BY <1>9, <2>1, Zenon DEF Drain, ReadyInv, ReadyOf, mode, sa, history
  <2> QED
    BY <1>0, <1>5, <1>9, <2>1, WaitAssumption, Zenon DEF Drain, mode, sa, history
<1>10. CASE DaemonChangesSa
  <2>1. \A w \in Waiter : sawUp'[w] = (sawUp[w] \/ (w \in pWaiters /\ saUp'))
    BY <1>10 DEF DaemonChangesSa
  <2> QED
    BY <1>10, Zenon DEF DaemonChangesSa, ReadyInv, ReadyOf, sync, progress, mode
<1>11. CASE UNCHANGED vars
  BY <1>11, Zenon DEF vars, ReadyInv, ReadyOf, sync, progress, mode, sa, history
<1> QED
  BY <1>1, <1>2, <1>3, <1>4, <1>6, <1>7, <1>8, <1>9, <1>10, <1>11, Zenon DEF Next

-----------------------------------------------------------------------------
(* The event channel                                                       *)

\* What closing a channel leaves behind satisfies LinkOf in every stage.
LEMMA LinkDropped ==
    ASSUME LinkOK, NEW w \in Waiter, DropChannel(w)
    PROVE  Unlinked(w)' /\ LinkOf(w)'
<1>1. Unlinked(w)'
  BY DEF LinkOK, DropChannel, Unlinked
<1> QED
  BY <1>1 DEF Unlinked, LinkOf

\* The step of a wait keeps what LinkInv says of it.
LEMMA LinkWaiter ==
    ASSUME TypeOK, NEW w \in Waiter, LinkOf(w), WaiterStep(w)
    PROVE  LinkOf(w)'
<1>0. PcOK /\ ErrorOK /\ ModeOK /\ LinkOK /\ w \in Thread
  BY TypeGroups DEF Thread
<1>1. ASSUME NEW s, Goto(w, s) PROVE pc'[w] = s
  BY <1>0, <1>1, GotoMoves
<1>2. DropChannel(w) => LinkOf(w)'
  BY <1>0, LinkDropped
<1>3. ASSUME NEW e, Finish(w, e) PROVE LinkOf(w)'
  BY <1>1, <1>3, Zenon DEF Finish, LinkOf
<1>4. CASE Subscribe(w)
  <2>1. channel[w] = <<>> /\ pc'[w] = "CONFIRM1" /\ UNCHANGED channel
    BY <1>1, <1>4 DEF Subscribe, LinkOf, Unlinked
  <2>2. Len(channel'[w]) = 0
    BY <2>1
  <2> QED
    BY <2>1 DEF LinkOf
<1>5. CASE ReadConfirm(w)
  <2>1. channel[w] \in Seq(Frame) /\ channel[w] # <<>> /\ subscribed[w] \in 0..2
    BY <1>0, <1>5, Zenon DEF ReadConfirm, LinkOK
  <2>2. Head(channel[w]) = channel[w][1] /\ 1 \in 1..Len(channel[w])
    BY <2>1, TakeFrame
  <2>a. /\ pc[w] \in {"CONFIRM1", "CONFIRM2"}
        /\ pc[w] = "CONFIRM1" /\ w \in linked /\ subscribed[w] = 0 =>
              \A i \in 1..Len(channel[w]) : channel[w][i] # "CONFIRM"
        /\ pc[w] = "CONFIRM2" /\ w \in linked => subscribed[w] > 0
    BY <1>5, Zenon DEF ReadConfirm, LinkOf
  <2>3. CASE Head(channel[w]) = "EVENT"
    <3>1. channel'[w] = Tail(channel[w]) /\ UNCHANGED <<pc, linked, subscribed>>
      BY <1>0, <1>5, <2>3, Zenon DEF ReadConfirm, LinkOK
    <3>2. \A i \in 1..Len(channel'[w]) : i + 1 \in 1..Len(channel[w]) /\ channel'[w][i] = channel[w][i + 1]
      BY <2>1, <3>1, TakeFrame
    <3>3. pc[w] = "CONFIRM1" /\ w \in linked /\ subscribed[w] = 0 =>
             \A i \in 1..Len(channel'[w]) : channel'[w][i] # "CONFIRM"
      BY <2>a, <3>2
    <3> QED
      BY <2>a, <3>1, <3>3, Zenon DEF LinkOf
  <2>4. CASE Head(channel[w]) = "CONFIRM"
    <3>1. pc'[w] \in {"CONFIRM2", "CHECK"} /\ UNCHANGED <<linked, subscribed>>
      BY <1>1, <1>5, <2>4, Zenon DEF ReadConfirm, AfterConfirm
    <3>2. w \in linked => subscribed[w] > 0
      BY <2>a, <2>1, <2>2, <2>4
    <3> QED
      BY <3>1, <3>2, Zenon DEF LinkOf
  <2>5. CASE Head(channel[w]) = "UNKNOWN"
    BY <1>2, <1>5, <2>5, Zenon DEF ReadConfirm
  <2> QED
    BY <1>5, <2>3, <2>4, <2>5, Zenon DEF ReadConfirm
<1>6. CASE SubscribeError(w)
  BY <1>2, <1>6 DEF SubscribeError, SubscribeFails
<1>7. CASE CheckWait(w)
  <2>1. ASSUME Goto(w, "QUEUE") PROVE LinkOf(w)'
    BY <1>1, <1>7, <2>1, Zenon DEF CheckWait, LinkOf, link
  <2> QED
    BY <1>3, <1>7, <2>1 DEF CheckWait
<1>8. CASE Query(w)
  <2>1. pc'[w] = "RELEASE" /\ UNCHANGED <<linked, subscribed, saUp>>
    BY <1>1, <1>8 DEF Query, link, sa
  <2>2. eError'[w] = "OK" /\ ~snapshot'[w] => ~saUp
    BY <1>0, <1>8 DEF Query, ErrorOK, ModeOK
  <2> QED
    BY <1>8, <2>1, <2>2, Zenon DEF Query, LinkOf
<1>9. CASE ReleaseQuery(w)
  <2>1. CASE eError[w] = "TRANSPORT"
    BY <1>2, <1>9, <2>1 DEF ReleaseQuery
  <2>2. CASE eError[w] # "TRANSPORT"
    <3>1. \/ pc'[w] = "END"
          \/ pc'[w] = "WAIT" /\ eError[w] = "OK" /\ ~snapshot[w]
      BY <1>1, <1>9, <2>2 DEF ReleaseQuery
    <3> QED
      BY <1>9, <3>1 DEF ReleaseQuery, LinkOf, link, sa
  <2> QED
    BY <2>1, <2>2
<1>10. CASE ReceiveViciSaChange(w)
  <2>1. ASSUME Goto(w, "CHECK"), UNCHANGED <<linked, subscribed>> PROVE LinkOf(w)'
    BY <1>1, <1>10, <2>1, Zenon DEF ReceiveViciSaChange, LinkOf
  <2> QED
    BY <1>2, <1>10, <2>1, Zenon DEF ReceiveViciSaChange
<1>11. CASE PausePolling(w)
  <2>1. ASSUME Goto(w, "CHECK") PROVE LinkOf(w)'
    BY <1>1, <1>11, <2>1, Zenon DEF PausePolling, LinkOf, link
  <2> QED
    BY <1>3, <1>11, <2>1 DEF PausePolling
<1>12. CASE RecoverViciWait(w)
  <2>1. ASSUME Goto(w, "SUBSCRIBE") PROVE LinkOf(w)'
    BY <1>1, <1>12, <2>1, Zenon DEF RecoverViciWait, LinkOf, Unlinked, link
  <2> QED
    BY <1>3, <1>12, <2>1 DEF RecoverViciWait
<1>13. CASE EndViciWait(w)
  BY <1>2, <1>13 DEF EndViciWait
<1> QED
  BY <1>4, <1>5, <1>6, <1>7, <1>8, <1>9, <1>10, <1>11, <1>12, <1>13, Zenon DEF WaiterStep

\* The daemon's steps, which reach the channel of any wait.
LEMMA LinkDaemon ==
    ASSUME TypeOK, NEW w \in Waiter, LinkOf(w)
    PROVE  /\ \A u \in Waiter : DaemonConfirms(u) \/ DaemonDrops(u) => LinkOf(w)'
           /\ DaemonChangesSa => LinkOf(w)'
<1>0. LinkOK
  BY TypeGroups
<1>1. channel[w] \in Seq(Frame) /\ subscribed[w] \in 0..2
  BY <1>0 DEF LinkOK
<1>2. ASSUME NEW u \in Waiter, DaemonConfirms(u) PROVE LinkOf(w)'
  <2>1. CASE u # w
    <3>1. channel'[w] = channel[w] /\ subscribed'[w] = subscribed[w]
      BY <1>0, <1>2, <2>1, Zenon DEF DaemonConfirms, LinkOK
    <3> QED
      BY <1>2, <3>1 DEF DaemonConfirms, LinkOf, Unlinked, progress, mode, sa
  <2>2. CASE u = w
    <3>1. \E f \in Frame : channel'[w] = Append(channel[w], f)
      BY <1>0, <1>2, <2>2, Zenon DEF DaemonConfirms, LinkOK, Frame
    <3>2. channel'[w] # <<>>
      BY <1>1, <3>1, ChannelType, Zenon
    <3>3. pc[w] \in {"CONFIRM1", "CONFIRM2"} /\ UNCHANGED pc
      BY <1>2, <2>2, Zenon DEF DaemonConfirms, progress
    <3>4. CASE subscribed'[w] = subscribed[w] + 1
      <4>1. subscribed'[w] # 0 /\ subscribed'[w] > 0
        BY <1>1, <3>4
      <4> QED
        BY <3>3, <4>1, Zenon DEF LinkOf
    <3>5. CASE UNCHANGED subscribed /\ channel' = [channel EXCEPT ![w] = Append(@, "UNKNOWN")]
      <4>1. channel'[w] = Append(channel[w], "UNKNOWN")
        BY <1>0, <3>5 DEF LinkOK
      <4>2. ASSUME NEW i \in 1..Len(channel'[w]) PROVE channel'[w][i] # "CONFIRM"
        <5>1. Len(channel'[w]) = Len(channel[w]) + 1 /\ Len(channel[w]) \in Nat
          BY <4>1
        <5>2. CASE i = Len(channel[w]) + 1
          BY <1>1, <4>1, <5>2, SendFrame, Zenon DEF Frame
        <5>3. CASE i \in 1..Len(channel[w])
          <6>0. \A j \in DOMAIN channel[w] : channel[w][j] = "EVENT"
            BY <1>2, <2>2, Zenon DEF DaemonConfirms
          <6>d. DOMAIN channel[w] = 1..Len(channel[w])
            BY <1>1
          <6>1. channel[w][i] = "EVENT"
            BY <5>3, <6>0, <6>d, Zenon
          <6>2. "UNKNOWN" \in Frame
            BY DEF Frame
          <6>3. \A j \in 1..Len(channel[w]) : Append(channel[w], "UNKNOWN")[j] = channel[w][j]
            BY <1>1, <6>2, SendFrame
          <6>4. channel'[w][i] = channel[w][i]
            BY <4>1, <5>3, <6>3, Zenon
          <6> QED
            BY <6>1, <6>4
        <5> QED
          BY <5>1, <5>2, <5>3
      <4> QED
        BY <1>2, <3>3, <3>5, <4>2, Zenon DEF DaemonConfirms, LinkOf
    <3> QED
      BY <1>0, <1>2, <2>2, <3>4, <3>5, Zenon DEF DaemonConfirms, LinkOK
  <2> QED
    BY <2>1, <2>2
<1>3. ASSUME NEW u \in Waiter, DaemonDrops(u) PROVE LinkOf(w)'
  <2>1. CASE u # w
    <3>1. subscribed'[w] = subscribed[w] /\ (w \in linked' <=> w \in linked)
      BY <1>0, <1>3, <2>1 DEF DaemonDrops, LinkOK
    <3> QED
      BY <1>3, <3>1, Zenon DEF DaemonDrops, LinkOf, Unlinked, progress, mode, sa
  <2>2. CASE u = w
    BY <1>3, <2>2, Zenon DEF DaemonDrops, LinkOf, Unlinked, progress
  <2> QED
    BY <2>1, <2>2
<1>4. ASSUME DaemonChangesSa PROVE LinkOf(w)'
  <2>1. CASE w \in linked /\ subscribed[w] > 0
    <3>1. channel'[w] = Append(channel[w], "EVENT")
      BY <1>4, <2>1, Zenon DEF DaemonChangesSa
    <3>2. channel'[w] # <<>>
      BY <1>1, <3>1, ChannelType, Zenon DEF Frame
    <3> QED
      BY <1>4, <3>2 DEF DaemonChangesSa, LinkOf, Unlinked, progress, mode
  <2>2. CASE ~(w \in linked /\ subscribed[w] > 0)
    <3>1. channel'[w] = channel[w]
      BY <1>4, <2>2 DEF DaemonChangesSa
    <3> QED
      BY <1>4, <2>2, Zenon DEF DaemonChangesSa, LinkOf, Unlinked, progress
  <2> QED
    BY <2>1, <2>2
<1> QED
  BY <1>2, <1>3, <1>4

LEMMA LinkStep ==
    ASSUME TypeOK, LinkInv, [Next]_vars
    PROVE  LinkInv'
<1>0. PcOK /\ ErrorOK /\ Waiter \subseteq Thread /\ Caller \subseteq Thread /\ Closer \in Thread
  BY TypeGroups DEF Thread
<1>a. ASSUME NEW w \in Waiter, Same(w), UNCHANGED saUp PROVE LinkOf(w)'
  BY <1>a, Zenon DEF LinkInv, Same, LinkOf, Unlinked
<1>1. ASSUME NEW w \in Waiter, BeginViciWait(w) PROVE LinkInv'
  <2>1. ASSUME NEW u \in Waiter, u # w PROVE LinkOf(u)'
    <3>1. pc'[u] = pc[u] /\ eError'[u] = eError[u]
      BY <1>0, <1>1, <2>1, GotoMoves DEF BeginViciWait, ErrorOK
    <3> QED
      BY <1>1, <3>1, Zenon DEF BeginViciWait, LinkInv, LinkOf, Unlinked, mode, link, sa
  <2>2. LinkOf(w)'
    <3>1. pc'[w] \in {"SUBSCRIBE", "DONE"}
      BY <1>0, <1>1, GotoMoves, Zenon DEF BeginViciWait
    <3>2. Unlinked(w)'
      BY <1>1, Zenon DEF BeginViciWait, LinkInv, LinkOf, Unlinked, link
    <3> QED
      BY <3>1, <3>2 DEF LinkOf
  <2> QED
    BY <2>1, <2>2 DEF LinkInv
<1>2. ASSUME NEW w \in Waiter, WaiterStep(w) PROVE LinkInv'
  BY <1>2, <1>a, WaiterLocal, LinkWaiter DEF LinkInv
<1>3. ASSUME NEW t \in Waiter \cup Caller, QueueStep(t) PROVE LinkInv'
  <2>1. ASSUME t \in Waiter PROVE LinkOf(t)'
    <3>1. LinkOf(t) /\ UNCHANGED link /\ pc[t] = "QUEUE"
      BY <1>3, <2>1, QueueMoves, Zenon DEF LinkInv, QueueStep, Acquire, Sleep, AcquireFails
    <3>2. pc'[t] \in {"QUEUE", "QUERY", "END"}
      <4>1. CASE Acquire(t)
        BY <1>0, <2>1, <4>1, GotoMoves, Zenon DEF Acquire
      <4>2. CASE Sleep(t)
        BY <3>1, <4>2 DEF Sleep, progress
      <4>3. CASE AcquireFails(t)
        BY <1>0, <2>1, <4>3, GotoMoves DEF AcquireFails, Finish
      <4> QED
        BY <1>3, <4>1, <4>2, <4>3 DEF QueueStep
    <3> QED
      BY <3>1, <3>2, Zenon DEF LinkOf, link
  <2> QED
    BY <1>3, <1>a, <2>1, QueueLocal DEF LinkInv
<1>4. ASSUME NEW w \in Waiter, Expire(w) PROVE LinkInv'
  BY <1>4 DEF Expire, LinkInv, LinkOf, Unlinked, progress, mode, link, sa
<1>5. ASSUME NEW w \in Waiter, DaemonConfirms(w) \/ DaemonDrops(w) PROVE LinkInv'
  BY <1>5, LinkDaemon DEF LinkInv
<1>6. ASSUME NEW t \in Thread \ Waiter, NEW s, Goto(t, s), UNCHANGED <<eError, mode, link, sa>>
      PROVE  LinkInv'
  <2>1. \A u \in Waiter : pc'[u] = pc[u]
    BY <1>0, <1>6, GotoMoves
  <2> QED
    BY <1>6, <2>1 DEF LinkInv, LinkOf, Unlinked, mode, link, sa
<1>7. ASSUME NEW c \in Caller, EnterCommand(c) \/ FinishCommand(c) PROVE LinkInv'
  BY <1>0, <1>6, <1>7, WaitAssumption, Zenon DEF EnterCommand, FinishCommand
<1>8. CASE CloseViciWaits
  BY <1>0, <1>6, <1>8, WaitAssumption, Zenon DEF CloseViciWaits
<1>9. CASE UNCHANGED <<progress, mode, link, sa>>
  BY <1>9 DEF LinkInv, LinkOf, Unlinked, progress, mode, link, sa
<1>10. CASE Drain
  BY <1>0, <1>6, <1>9, <1>10, WaitAssumption, Zenon DEF Drain, progress
<1>11. CASE CancelIpsecWaits \/ UNCHANGED vars
  BY <1>9, <1>11 DEF CancelIpsecWaits, vars
<1>12. CASE DaemonChangesSa
  BY <1>12, LinkDaemon DEF LinkInv
<1> QED
  BY <1>1, <1>2, <1>3, <1>4, <1>5, <1>7, <1>8, <1>10, <1>11, <1>12, Zenon DEF Next

-----------------------------------------------------------------------------
(* The theorems                                                            *)

LEMMA InitInv == Init => IInv
<1> SUFFICES ASSUME Init PROVE IInv
  OBVIOUS
<1>1. /\ \A w \in Waiter : pc[w] = "OUT" /\ eError[w] = "OK" /\ Unlinked(w)
      /\ \A c \in Caller : pc[c] = "OUT"
      /\ pc[Closer] = "OPEN" /\ bClosing = FALSE /\ pWaiters = {} /\ signalled = {}
  BY WaitAssumption DEF Init, Thread, Unlinked
<1>2. CloseInv
  BY <1>1 DEF CloseInv, InContext
<1>3. CancelInv
  BY <1>1 DEF CancelInv
<1>4. ReadyInv /\ LinkInv
  BY <1>1 DEF ReadyInv, ReadyOf, LinkInv, LinkOf
<1> QED
  BY <1>2, <1>3, <1>4, TypeInit DEF IInv

\* IInv is inductive.
THEOREM Invariance == Spec => []IInv
<1>1. Init => IInv
  BY InitInv
<1>2. IInv /\ [Next]_vars => IInv'
  BY TypeNext, CloseStep, CancelStep, ReadyStep, LinkStep DEF IInv
<1> QED
  BY <1>1, <1>2, PTL DEF Spec

\* The variables of the wait machinery keep their types.
THEOREM TypeCorrect == Spec => []TypeOK
<1>1. IInv => TypeOK
  BY DEF IInv
<1> QED
  BY <1>1, Invariance, PTL

\* DeinitializeIpsec frees the context only when no wait and no command is left
\* that would touch it, however many waits there are and whenever they began.
THEOREM FreedUnused == Spec => []NoUseAfterFree
<1>1. IInv => NoUseAfterFree
  BY DEF IInv, CloseInv, NoUseAfterFree, InContext
<1> QED
  BY <1>1, Invariance, PTL

\* A wait that returns CANCELLED was cancelled while it ran, or found the
\* context closing: a cancellation never reaches a later wait.
THEOREM CancelledHonestly == Spec => []CancelHonest
<1>1. IInv => CancelHonest
  BY DEF IInv, CancelInv, CancelHonest
<1> QED
  BY <1>1, Invariance, PTL

\* A wait reports success only when the SA was up at some moment of that wait,
\* through every retry, recovery and race with the deadline.
THEOREM ReadyHonestly == Spec => []ReadyHonest
<1>1. IInv => ReadyHonest
  BY DEF IInv, ReadyInv, ReadyOf, ReadyHonest
<1> QED
  BY <1>1, Invariance, PTL

\* Subscribing before the snapshot loses no wakeup: a wait that sleeps on a live
\* channel while the SA is up has an event to read.
THEOREM WakeupKept == Spec => []NoLostWakeup
<1>1. IInv => NoLostWakeup
  BY DEF IInv, LinkInv, LinkOf, NoLostWakeup
<1> QED
  BY <1>1, Invariance, PTL
=============================================================================
