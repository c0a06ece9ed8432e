------------------------- MODULE AppSession_proofs -------------------------
(***************************************************************************)
(* The safety properties of one application session, for every set of      *)
(* names, configurations and reqids and every bound.  The inductive        *)
(* invariant says what holds at each stage of a command: which command may *)
(* be there, what the ledger already records for its configuration, and in *)
(* a cleanup which part of the ledger is behind it.                        *)
(***************************************************************************)
EXTENDS AppSession, TLAPS

QuitOnly == {"item", "clean_remove", "clean_present", "clean_sa", "psk_sa", "clean_psk", "closed"}
Terminating == {"list", "status", "end_sa", "ask_again", "wait"}
LoopOnly == {"verify", "loop_end", "loop_wait", "loop_remove"}

\* Which command is at which stage, and where it has added its connection.
Control ==
    /\ at # "prompt" => exited = "no"
    /\ at \in QuitOnly => cmd = "quit"
    /\ cmd = "quit" => at \in QuitOnly \cup Terminating
    /\ cmd = "down" => at \in {"down_status", "down_remove"} \cup Terminating
    /\ at = "down_remove" => cmd = "down"
    /\ at \in LoopOnly => cmd = "loop"
    /\ at \in LoopOnly \cup {"start"} /\ cmd = "loop" => "added" \in facts
    /\ at = "up_undo" => cmd = "up" /\ "added" \in facts
    /\ at = "load_undo" => cmd = "load"
    /\ at = "up_status" => cmd = "up"
    /\ at = "unload_check" => cmd = "connection_unload"
    /\ "added" \in facts => cmd \in {"up", "loop"}

\* A command has a configuration of the session and, unless it names another
\* connection, works on the one of its configuration.
Targeted ==
    at \notin {"prompt", "item", "closed"} =>
        /\ cfg \in Config /\ name \in Name
        /\ cmd \notin {"connection_unload", "terminate", "initiate"} => name = NameOf[cfg]

\* What a command relies on when it sends a load or rolls one back.
Backed ==
    /\ "added" \in facts => NameOwned(NameOf[cfg])
    /\ at = "remove" /\ cmd # "connection_unload" => NameOwned(name)
    /\ at \in {"check_name", "send_load"} => Prepared(cfg)
    /\ at = "send_load" => conn[NameOf[cfg]] # "foreign"

\* The ledger owns what is in charon, and nothing foreign.
LedgerInv ==
    /\ LedgerCovers
    /\ \A c \in ownConn \cup ownCred : Prepared(c)
    /\ \A n \in Name : sa[n].of = "ours" => NameOwned(n) /\ ~Down(n)
    /\ \A n \in Name : NameOwned(n) => conn[n] # "foreign"

\* A cleanup: the items behind it own nothing unless one of them failed, and
\* each stage knows what the queries before it have shown.
QuitInv ==
    /\ cmd = "quit" =>
          /\ idx \in Nat \ {0}
          /\ "failed" \notin facts =>
                \A i \in 1..Len(items) : i < idx => items[i] \notin ownConn \cup ownCred
          /\ at \notin {"item", "closed"} => idx <= Len(items) /\ cfg = items[idx]
          /\ at \in Terminating \cup {"clean_remove"} => cfg \in ownConn
    /\ at = "closed" => idx > Len(items)
    /\ at \in {"psk_sa", "clean_psk"} => cfg \notin ownConn
    /\ at = "clean_sa" => conn[name] = "none"
    /\ at = "clean_psk" /\ conn[name] = "none" => Down(name)

\* Reqids recorded and not seen gone are in the kernel and in the ledger, and
\* the wait for removal still has them on its list.
ReleaseInv ==
    /\ \A c \in Config : unconfirmed[c] \subseteq xfrm \cap pending[c]
    /\ \A c \in Config : unconfirmed[c] # {} => Prepared(c)
    /\ at \in {"status", "end_sa", "ask_again", "wait"} => unconfirmed[cfg] \subseteq todo
    /\ at \in {"clean_remove", "clean_present", "clean_sa"} => unconfirmed[cfg] = {}

IInv == TypeOK /\ Control /\ Targeted /\ Backed /\ LedgerInv /\ QuitInv /\ ReleaseInv /\ CleanExit

USE DEF daemon, ledger, owned, session, request, bounds, target, tries, polls, Quiet

-----------------------------------------------------------------------------
(* Where the moves of a command lead                                       *)

\* Going on with other flags than that of an added connection.
LEMMA GoWithMoves ==
    ASSUME NEW s, NEW f, "added" \notin f, GoWith(s, f)
    PROVE  at' = s /\ UNCHANGED target /\ ("added" \in facts' <=> "added" \in facts)
  BY DEF GoWith

\* A command that cannot add its connection returns, rolls back or goes on.
LEMMA AddFailsMoves ==
    ASSUME AfterAdd(FALSE)
    PROVE  \/ at' = "prompt" /\ cmd' = "none" /\ "added" \notin facts'
           \/ /\ at' \in {"up_undo", "load_undo", "loop_next"} /\ UNCHANGED target
              /\ "added" \in facts' <=> "added" \in facts
<1>1. Return => at' = "prompt" /\ cmd' = "none" /\ "added" \notin facts'
  BY DEF Return, Enter
<1>2. "added" \notin {} /\ "added" \notin {"failed"}
  OBVIOUS
<1> QED
  BY <1>1, GoWithMoves, Zenon DEF AfterAdd, UpFailed, Go

\* A failed attempt starts the next one or gives the item up.
LEMMA AttemptFailsMoves ==
    ASSUME AttemptFails
    PROVE  /\ UNCHANGED target
           /\ "added" \in facts' => "added" \in facts
           /\ \/ at' = AttemptAt(cfg) /\ idx' = idx /\ ("failed" \in facts' <=> "failed" \in facts)
              \/ at' = "item" /\ idx' = idx + 1 /\ "failed" \in facts'
  BY DEF AttemptFails

\* quit enters the cleanup or leaves the command line as it is.
LEMMA CloseMoves ==
    ASSUME NEW how, NEW why \in SUBSET {"signal"}, Close(how, why)
    PROVE  /\ UNCHANGED <<daemon, faults, remote, tracked, items, owned, unconfirmed>>
           /\ \/ /\ cmd' = "quit" /\ at' = "item" /\ idx' = 1 /\ UNCHANGED exited
                 /\ "added" \notin facts'
              \/ UNCHANGED job /\ exited' = how
  BY DEF Close, Enter

\* A command starts at its first stage.
LEMMA CommandMoves ==
    ASSUME Command
    PROVE  /\ at' \in {"prepare", "unload_check", "load_psk", "psk_check", "clear_check",
                       "initiate", "terminate", "up_status", "down_status",
                       "load_check", "loop_check"}
           /\ cmd' # "quit"
           /\ cmd' = "down" => at' = "down_status"
           /\ at' = "up_status" => cmd' = "up"
           /\ at' = "unload_check" => cmd' = "connection_unload"
           /\ cfg' = sel /\ name' \in Name /\ "added" \notin facts'
           /\ cmd' \notin {"connection_unload", "terminate", "initiate"} => name' = NameOf[sel]
           /\ exited = "no" /\ UNCHANGED exited
<1>1. PICK n \in Name, opt \in SUBSET {"continue", "unload"} :
          /\ Begin(n, opt)
          /\ cmd' \in {"connection_unload", "terminate", "initiate"} \/ n = NameOf[sel]
  BY Zenon DEF Command
<1>2. cfg' = sel /\ name' = n /\ facts' = opt
  BY <1>1, Zenon DEF Begin, Enter
<1>3. exited = "no" /\ UNCHANGED exited
  BY Zenon DEF Command, Typed, AtPrompt
<1>4. /\ at' \in {"prepare", "unload_check", "load_psk", "psk_check", "clear_check", "initiate",
                  "terminate", "up_status", "down_status", "load_check", "loop_check"}
      /\ cmd' # "quit"
      /\ cmd' = "down" => at' = "down_status"
      /\ at' = "up_status" => cmd' = "up"
      /\ at' = "unload_check" => cmd' = "connection_unload"
  BY <1>1, Zenon DEF Begin, Enter
<1> QED
  BY <1>1, <1>2, <1>3, <1>4, Zenon

\* up goes on with the connection, the credential or the start.
LEMMA UpStatusMoves ==
    ASSUME UpStatus
    PROVE  \/ Return
           \/ /\ at' \in {"prepare", "load_psk", "start"} /\ UNCHANGED target
              /\ "added" \in facts' <=> "added" \in facts
<1>1. ASSUME NEW f, UpPsk(f)
      PROVE  \/ Return
             \/ at' \in {"load_psk", "start"} /\ UNCHANGED target /\ facts' = facts \cup f
  BY <1>1, Zenon DEF UpPsk, UpStart, GoWith
<1>2. ASSUME NEW f \in SUBSET {"child"}, facts' = facts \cup f
      PROVE  "added" \in facts' <=> "added" \in facts
  BY <1>2
<1>3. \/ Return
      \/ \E f \in SUBSET {"child"} : UpPsk(f) \/ GoWith("prepare", f)
  BY Zenon DEF UpStatus
<1> QED
  BY <1>1, <1>2, <1>3, Zenon DEF GoWith

\* Every step keeps the relation of command and stage.
LEMMA ControlStep == ASSUME Control, [Next]_vars PROVE Control'
<1> USE DEF Control, QuitOnly, Terminating, LoopOnly
<1>1. CASE Prepare
  BY <1>1, Zenon DEF Prepare, Go, AfterAdd, GoWith, Return, UpFailed, Enter
<1>2. CASE CheckName
  BY <1>2, Zenon DEF CheckName, Go, AfterAdd, GoWith, Return, UpFailed, Enter
<1>3. CASE SendLoad
  BY <1>3, Zenon DEF SendLoad, AfterAdd, Go, GoWith, Return, UpPsk, UpFailed, Enter, UpStart
<1>4. CASE LoadPsk
  BY <1>4, Zenon DEF LoadPsk, AfterPsk, Go, Return, UpStart, UpFailed, GoWith, Enter
<1>5. CASE Start
  BY <1>5, Zenon DEF Start, AfterStart, Go, GoWith, Return, UpFailed, Enter
<1>6. CASE Initiate
  BY <1>6, Zenon DEF Initiate, Return, Enter
<1>7. CASE Terminate
  BY <1>7, Zenon DEF Terminate, Return, Enter
<1>8. CASE ListChildren
  BY <1>8, AttemptFailsMoves, Zenon DEF ListChildren, AfterTerminate, Return, Enter, AttemptAt
<1>9. CASE TargetStatus
  BY <1>9, AttemptFailsMoves, Zenon DEF TargetStatus, Go, AfterTerminate, GoWith, Return, Enter,
     AttemptAt
<1>10. CASE EndTargetSa
  BY <1>10, Zenon DEF EndTargetSa, Go, GoWith
<1>11. CASE AskAgain
  BY <1>11, AttemptFailsMoves, Zenon DEF AskAgain, Go, AfterTerminate, GoWith, Return, Enter,
     AttemptAt
<1>12. CASE WaitRemoved
  BY <1>12, AttemptFailsMoves, Zenon DEF WaitRemoved, AfterTerminate, Return, Enter, AttemptAt
<1>13. CASE RemoveCheck
  BY <1>13, Zenon DEF RemoveCheck, Go, Return, GoWith, Enter
<1>14. CASE Remove
  BY <1>14, Zenon DEF Remove, AfterRemove, GoWith, Return, Enter
<1>15. CASE UpStatus
  BY <1>15, UpStatusMoves, Zenon DEF Return, Enter, UpStatus
<1>16. CASE DownStatus
  BY <1>16, Zenon DEF DownStatus, GoWith, Return, Enter
<1>17. CASE CleanCheck
  BY <1>17, Zenon DEF CleanCheck, Go, Return, GoWith, Enter
<1>18. CASE PskCheck
  BY <1>18, Zenon DEF PskCheck, Go, Return, GoWith, Enter
<1>19. CASE UnloadPsk
  BY <1>19, AttemptFailsMoves, Zenon DEF UnloadPsk, Return, ItemDone, Enter, AttemptAt
<1>20. CASE ClearCheck
  BY <1>20, Zenon DEF ClearCheck, Go, Return, GoWith, Enter
<1>21. CASE ClearAll
  BY <1>21, Zenon DEF ClearAll, Return, Enter
<1>22. CASE LoopTop
  BY <1>22, Zenon DEF LoopTop, Go, GoWith
<1>23. CASE Verify
  BY <1>23, Zenon DEF Verify, GoWith
<1>24. CASE LoopEnd
  BY <1>24, Zenon DEF LoopEnd, Go, GoWith
<1>25. CASE LoopWait
  BY <1>25, Zenon DEF LoopWait
<1>26. CASE LoopNext
  BY <1>26, Zenon DEF LoopNext, Go, GoWith
<1>27. CASE LoopClear
  BY <1>27, Zenon DEF LoopClear, Go, Return, GoWith, Enter
<1>28. CASE NextItem
  BY <1>28, Zenon DEF NextItem, Go, ItemDone, AttemptAt, GoWith
<1>29. CASE CleanPresent
  BY <1>29, AttemptFailsMoves, Zenon DEF CleanPresent, Go, GoWith, AttemptAt
<1>30. CASE CleanSa
  BY <1>30, AttemptFailsMoves, Zenon DEF CleanSa, Go, ItemDone, GoWith, AttemptAt
<1>31. CASE CleanPskCheck
  BY <1>31, AttemptFailsMoves, Zenon DEF CleanPskCheck, Go, GoWith, AttemptAt
<1>32. CASE Closed
  BY <1>32, Zenon DEF Closed, Return, Enter
<1>33. CASE Quit
  BY <1>33, CloseMoves, Zenon DEF Quit, AtPrompt, job
<1>34. CASE SignalQuit
  BY <1>34, CloseMoves, Zenon DEF SignalQuit, AtPrompt, job
<1>35. CASE Command
  BY <1>35, CommandMoves, Zenon
<1>36. CASE Select
  BY <1>36, Zenon DEF Select, job
<1>37. CASE Reconfigure
  BY <1>37, Zenon DEF Reconfigure, job
<1>38. CASE Signal
  BY <1>38, Zenon DEF Signal, job
<1>39. CASE KernelGone
  BY <1>39, Zenon DEF KernelGone, job
<1>40. CASE Remote
  BY <1>40, Zenon DEF Remote, job
<1>41. CASE Exited
  BY <1>41, Zenon DEF Exited, job, vars
<1>42. CASE UNCHANGED vars
  BY <1>42, Zenon DEF vars, job
<1> QED
  BY <1>1, <1>2, <1>3, <1>4, <1>5, <1>6, <1>7, <1>8, <1>9, <1>10, <1>11, <1>12, <1>13, <1>14,
     <1>15, <1>16, <1>17, <1>18, <1>19, <1>20, <1>21, <1>22, <1>23, <1>24, <1>25, <1>26, <1>27,
     <1>28, <1>29, <1>30, <1>31, <1>32, <1>33, <1>34, <1>35, <1>36, <1>37, <1>38, <1>39, <1>40,
     <1>41, <1>42 DEF Next, Work

\* A step that neither starts a command nor comes to a stage of a load or of
\* a rollback carries over what is known of the target.
Carries ==
    \/ at' = "prompt" /\ cmd' = "none" /\ "added" \notin facts'
    \/ /\ UNCHANGED target
       /\ at \in {"prompt", "item", "closed"} => at' \in {"prompt", "item", "closed"}
       /\ "added" \in facts' => "added" \in facts /\ UNCHANGED ownConn
       /\ at' \in {"remove", "check_name", "send_load"} => UNCHANGED <<at, conn, items, ownConn>>

LEMMA Carried == ASSUME Targeted, Backed, Carries PROVE Targeted' /\ Backed'
  BY Zenon DEF Targeted, Backed, Carries, NameOwned, Prepared

\* Every step carries the target over, starts a command, takes the next item of
\* a cleanup or comes to a load or a rollback.
LEMMA CarryStep ==
    ASSUME Control, [Next]_vars
    PROVE  \/ Carries \/ Command \/ NextItem \/ Prepare \/ CheckName \/ SendLoad \/ RemoveCheck
           \/ Quit \/ SignalQuit
<1> USE DEF Carries
<1>1. CASE LoadPsk
  BY <1>1, Zenon DEF LoadPsk, AfterPsk, Go, Return, UpStart, UpFailed, GoWith, Enter
<1>2. CASE Start
  BY <1>2, GoWithMoves DEF Start, AfterStart, Go, Return, UpFailed, Enter
<1>3. CASE Initiate
  BY <1>3, Zenon DEF Initiate, Return, Enter
<1>4. CASE Terminate
  BY <1>4, Zenon DEF Terminate, Return, Enter
<1>5. CASE ListChildren
  BY <1>5, AttemptFailsMoves, Zenon DEF ListChildren, AfterTerminate, Return, Enter, AttemptAt
<1>6. CASE TargetStatus
  BY <1>6, AttemptFailsMoves, Zenon DEF TargetStatus, Go, AfterTerminate, GoWith, Return, Enter,
     AttemptAt
<1>7. CASE EndTargetSa
  BY <1>7, Zenon DEF EndTargetSa, Go, GoWith
<1>8. CASE AskAgain
  BY <1>8, AttemptFailsMoves, Zenon DEF AskAgain, Go, AfterTerminate, GoWith, Return, Enter,
     AttemptAt
<1>9. CASE WaitRemoved
  BY <1>9, AttemptFailsMoves, Zenon DEF WaitRemoved, AfterTerminate, Return, Enter, AttemptAt
<1>10. CASE Remove
  BY <1>10, GoWithMoves DEF Remove, AfterRemove, Return, Enter
<1>11. CASE UpStatus
  BY <1>11, UpStatusMoves, Zenon DEF Return, Enter, UpStatus
<1>12. CASE DownStatus
  BY <1>12, GoWithMoves DEF DownStatus, Return, Enter
<1>13. CASE CleanCheck
  BY <1>13, Zenon DEF CleanCheck, Go, Return, GoWith, Enter
<1>14. CASE PskCheck
  BY <1>14, Zenon DEF PskCheck, Go, Return, GoWith, Enter
<1>15. CASE UnloadPsk
  BY <1>15, AttemptFailsMoves, Zenon DEF UnloadPsk, Return, ItemDone, Enter, AttemptAt
<1>16. CASE ClearCheck
  BY <1>16, Zenon DEF ClearCheck, Go, Return, GoWith, Enter
<1>17. CASE ClearAll
  BY <1>17, Zenon DEF ClearAll, Return, Enter
<1>18. CASE LoopTop
  BY <1>18, Zenon DEF LoopTop, Go, GoWith
<1>19. CASE Verify
  BY <1>19, GoWithMoves DEF Verify
<1>20. CASE LoopEnd
  BY <1>20, GoWithMoves DEF LoopEnd, Go
<1>21. CASE LoopWait
  BY <1>21 DEF LoopWait
<1>22. CASE LoopNext
  BY <1>22, Zenon DEF LoopNext, Go, GoWith
<1>23. CASE LoopClear
  BY <1>23, Zenon DEF LoopClear, Go, Return, GoWith, Enter
<1>24. CASE CleanPresent
  BY <1>24, AttemptFailsMoves, Zenon DEF CleanPresent, Go, GoWith, AttemptAt
<1>25. CASE CleanSa
  BY <1>25, AttemptFailsMoves, Zenon DEF CleanSa, Go, ItemDone, GoWith, AttemptAt, Control,
     QuitOnly
<1>26. CASE CleanPskCheck
  BY <1>26, AttemptFailsMoves, Zenon DEF CleanPskCheck, Go, GoWith, AttemptAt
<1>27. CASE Closed
  BY <1>27, Zenon DEF Closed, Return, Enter
<1>28. CASE Select
  BY <1>28, Zenon DEF Select, job
<1>29. CASE Reconfigure
  BY <1>29, Zenon DEF Reconfigure, job
<1>30. CASE Signal
  BY <1>30, Zenon DEF Signal, job
<1>31. CASE KernelGone
  BY <1>31, Zenon DEF KernelGone, job
<1>32. CASE Remote
  BY <1>32, Zenon DEF Remote, job, RemoteSa
<1>33. CASE Exited
  BY <1>33, Zenon DEF Exited, job, vars
<1>34. CASE UNCHANGED vars
  BY <1>34, Zenon DEF vars, job
<1> QED
  BY <1>1, <1>2, <1>3, <1>4, <1>5, <1>6, <1>7, <1>8, <1>9, <1>10, <1>11, <1>12, <1>13, <1>14,
     <1>15, <1>16, <1>17, <1>18, <1>19, <1>20, <1>21, <1>22, <1>23, <1>24, <1>25, <1>26, <1>27,
     <1>28, <1>29, <1>30, <1>31, <1>32, <1>33, <1>34 DEF Next, Work

\* The item a known configuration adds to the ledger.
LEMMA ItemsGrow ==
    ASSUME TypeOKLedger, NEW c \in Config, CanPrepare(c), items' = ItemsWith(c)
    PROVE  /\ items' \in Seq(Config) /\ Len(items') <= Capacity /\ IsInjective(items')
           /\ \A d : Prepared(d) \/ d = c => Prepared(d)'
<1> USE DEF TypeOKLedger
<1>1. CASE Prepared(c)
  BY <1>1, Zenon DEF ItemsWith, Prepared
<1>2. CASE ~Prepared(c)
  <2>1. items' = Append(items, c) /\ Len(items) < Capacity
    BY <1>2 DEF ItemsWith, CanPrepare
  <2>2. /\ items' \in Seq(Config) /\ Len(items') = Len(items) + 1
        /\ items'[Len(items) + 1] = c
        /\ \A i \in 1..Len(items) : items'[i] = items[i]
    BY <2>1
  <2>3. Len(items') <= Capacity
    BY <2>1, LedgerAssumption
  <2>4. \A d : Prepared(d) \/ d = c => Prepared(d)'
    BY <2>2 DEF Prepared
  <2>5. ASSUME NEW i \in 1..Len(items'), NEW j \in 1..Len(items'), items'[i] = items'[j]
        PROVE  i = j
    <3>1. \A k \in 1..Len(items) : items[k] # c
      BY <1>2 DEF Prepared
    <3>2. \A k, m \in 1..Len(items) : items[k] = items[m] => k = m
      BY DEF IsInjective
    <3> QED
      BY <2>2, <2>5, <3>1, <3>2
  <2>6. IsInjective(items')
    BY <2>2, <2>5 DEF IsInjective
  <2> QED
    BY <2>2, <2>3, <2>4, <2>6, Zenon
<1> QED
  BY <1>1, <1>2, Zenon

\* Every step keeps what is known of the target of the command.
LEMMA TargetStep ==
    ASSUME TypeOK, Control, Targeted, Backed, LedgerInv, QuitInv, [Next]_vars
    PROVE  Targeted' /\ Backed'
<1>1. CASE Carries
  BY <1>1, Carried
<1>2. CASE Command
  BY <1>2, CommandMoves, Zenon DEF TypeOK, Targeted, Backed
<1>3. CASE NextItem
  <2>1. at = "item" /\ cmd = "quit" /\ "added" \notin facts
    BY <1>3, Zenon DEF NextItem, Control, QuitOnly
  <2>2. idx \in Nat \ {0} /\ items \in Seq(Config)
    BY <2>1, Zenon DEF QuitInv, TypeOK, TypeOKLedger
  <2>3. "added" \notin facts' /\ at' \in {"closed", "item", "list", "psk_sa"}
    BY <1>3, <2>1, Zenon DEF NextItem, Go, GoWith, ItemDone, AttemptAt
  <2>4. at' \in {"list", "psk_sa"} =>
           idx <= Len(items) /\ cfg' = items[idx] /\ name' = NameOf[items[idx]]
    BY <1>3, <2>2 DEF NextItem, Go, GoWith, ItemDone
  <2> QED
    BY <2>2, <2>3, <2>4, CharonAssumption DEF Targeted, Backed
<1>4. CASE Prepare
  <2>1. at = "prepare" /\ cfg \in Config /\ name \in Name
    BY <1>4, Zenon DEF Prepare, Targeted
  <2>2. CASE ~CanPrepare(cfg)
    BY <1>4, <2>2, Carried, AddFailsMoves, Zenon DEF Prepare, Carries
  <2>3. CASE CanPrepare(cfg)
    <3>1. /\ items' = ItemsWith(cfg) /\ UNCHANGED <<conn, target, facts>>
          /\ \/ NameOwned(NameOf[cfg]) /\ at' = "send_load" /\ ownConn \subseteq ownConn'
             \/ ~NameOwned(NameOf[cfg]) /\ at' = "check_name"
      BY <1>4, <2>3, Zenon DEF Prepare, Go, GoWith, Target
    <3>2. Prepared(cfg)'
      BY <2>1, <2>3, <3>1, ItemsGrow, Zenon DEF TypeOK
    <3>3. NameOwned(NameOf[cfg]) => conn[NameOf[cfg]] # "foreign" /\ NameOwned(NameOf[cfg])'
      BY <2>1, <3>1, CharonAssumption, Zenon DEF LedgerInv, NameOwned
    <3> QED
      BY <2>1, <3>1, <3>2, <3>3, Zenon DEF Targeted, Backed
  <2> QED
    BY <2>2, <2>3
<1>5. CASE CheckName
  <2>1. \/ AfterAdd(FALSE)
        \/ at' = "send_load" /\ UNCHANGED <<target, facts>> /\ conn[NameOf[cfg]] = "none"
    BY <1>5, Zenon DEF CheckName, ConnectionPresent, Go, GoWith, Target
  <2>2. at = "check_name" /\ UNCHANGED <<conn, items, ownConn>>
    BY <1>5, Zenon DEF CheckName
  <2>3. CASE AfterAdd(FALSE)
    BY <2>2, <2>3, Carried, AddFailsMoves, Zenon DEF Carries
  <2>4. CASE at' = "send_load" /\ UNCHANGED <<target, facts>> /\ conn[NameOf[cfg]] = "none"
    BY <2>2, <2>4, Zenon DEF Targeted, Backed, Prepared, NameOwned
  <2> QED
    BY <2>1, <2>3, <2>4, Zenon
<1>6. CASE SendLoad
  <2>1. PICK ok \in BOOLEAN : AfterAdd(ok)
    BY <1>6, Zenon DEF SendLoad
  <2>2. at = "send_load" /\ cfg \in Config /\ name \in Name /\ ownConn' = ownConn \cup {cfg}
    BY <1>6, Zenon DEF SendLoad, SendConnection, Targeted
  <2>3. \/ at' = "prompt" /\ "added" \notin facts'
        \/ UNCHANGED target /\ at' \in {"start", "load_psk", "up_undo", "load_undo", "loop_next"}
    BY <2>1, Zenon DEF AfterAdd, UpPsk, UpStart, UpFailed, Go, GoWith, Return, Enter
  <2> QED
    BY <2>2, <2>3, Zenon DEF Targeted, Backed, NameOwned
<1>7. CASE RemoveCheck
  <2>1. at \in {"up_undo", "load_undo", "unload_check"} /\ UNCHANGED <<conn, items, ownConn>>
    BY <1>7, Zenon DEF RemoveCheck
  <2>2. CASE Return
    BY <2>2, Carried, Zenon DEF Carries, Return, Enter
  <2>3. CASE ~Return
    <3>1. Go("remove") /\ (at = "load_undo" => NameOwned(NameOf[cfg]))
      BY <1>7, <2>3, Zenon DEF RemoveCheck, HasOwnedSaTarget, Target
    <3>2. at # "unload_check" => NameOwned(name)
      BY <2>1, <3>1, Zenon DEF Control, Targeted, Backed
    <3> QED
      BY <2>1, <3>1, Zenon DEF Control, Targeted, Backed, Go, GoWith, NameOwned
  <2> QED
    BY <2>2, <2>3
<1>8. CASE Quit \/ SignalQuit
  <2>1. /\ UNCHANGED <<conn, items, ownConn>>
        /\ UNCHANGED job \/ (at' = "item" /\ "added" \notin facts')
    BY <1>8, CloseMoves, Zenon DEF Quit, SignalQuit
  <2> QED
    BY <2>1, Zenon DEF job, Targeted, Backed, NameOwned, Prepared
<1> QED
  BY <1>1, <1>2, <1>3, <1>4, <1>5, <1>6, <1>7, <1>8, CarryStep, Zenon

-----------------------------------------------------------------------------
(* What the steps do to charon and to the ledger                           *)

\* What a command or the remote peer does to the SA of name n.
SaMoves(n) ==
    \/ UNCHANGED <<sa, xfrm>>
    \/ sa' = [sa EXCEPT ![n] = NoSa] /\ UNCHANGED xfrm
    \/ /\ conn[n] # "none"
       /\ \E s \in {"ike", "up"}, r \in Reqid \cup {0} :
             /\ s = "up" => r # 0
             /\ sa' = [sa EXCEPT ![n] = [state |-> s, reqid |-> r, of |-> conn[n]]]
       /\ xfrm \subseteq xfrm' /\ xfrm' \subseteq Reqid

\* Establishing an SA and ending one are such moves, and so is what the calls
\* of the session and the remote peer make of them.
LEMMA SaKinds ==
    ASSUME TypeOKCharon, NEW n \in Name
    PROVE  /\ \A s : Establish(n, s) => SaMoves(n)
           /\ EndSa(n) => SaMoves(n)
           /\ \A ok : TerminateIke(n, ok) => SaMoves(n)
           /\ \A ok : StartSa(n, ok) => SaMoves(n)
           /\ RemoteSa(n) => SaMoves(n)
<1>1. ASSUME NEW s, Establish(n, s) PROVE SaMoves(n)
  <2>1. CASE s = "ike"
    BY <1>1, <2>1, Zenon DEF Establish, SaMoves, TypeOKCharon
  <2>2. CASE s = "up"
    <3>1. PICK r \in Reqid :
             /\ sa' = [sa EXCEPT ![n] = [state |-> "up", reqid |-> r, of |-> conn[n]]]
             /\ xfrm' = IF KernelXfrm THEN xfrm \cup {r} ELSE xfrm
      BY <1>1, <2>2, Zenon DEF Establish
    <3>2. conn[n] # "none" /\ xfrm \subseteq xfrm' /\ xfrm' \subseteq Reqid
      BY <1>1, Zenon DEF Establish, TypeOKCharon
    <3> QED
      BY <3>1, <3>2, CharonAssumption, Zenon DEF SaMoves
  <2> QED
    BY <1>1, <2>1, <2>2, Zenon DEF Establish
<1>2. EndSa(n) => SaMoves(n)
  BY DEF EndSa, SaMoves
<1>3. ASSUME NEW ok, TerminateIke(n, ok) PROVE SaMoves(n)
  BY <1>2, <1>3, Zenon DEF TerminateIke, SaMoves
<1>4. ASSUME NEW ok, StartSa(n, ok) PROVE SaMoves(n)
  BY <1>1, <1>4, Zenon DEF StartSa, SaMoves
<1>5. RemoteSa(n) => SaMoves(n)
  BY <1>1, <1>2 DEF RemoteSa
<1> QED
  BY <1>1, <1>2, <1>3, <1>4, <1>5, Zenon

\* Seven steps write the definitions, the credentials or their ownership; the
\* others leave them alone, and at most one of them touches an SA.
LEMMA Effects ==
    ASSUME TypeOKCharon, Targeted, [Next]_vars
    PROVE  \/ Prepare \/ SendLoad \/ LoadPsk \/ Remove \/ UnloadPsk \/ ClearAll \/ CleanSa
           \/ /\ UNCHANGED <<conn, psk, tracked, items, ownConn, ownCred>>
              /\ UNCHANGED sa \/ \E n \in Name : SaMoves(n)
<1>1. CASE CheckName
  BY <1>1, Zenon DEF CheckName
<1>2. CASE Start
  BY <1>2, SaKinds, CharonAssumption, Zenon DEF Start, Targeted, Target
<1>3. CASE Initiate
  BY <1>3, SaKinds, Zenon DEF Initiate, Targeted
<1>4. CASE Terminate
  BY <1>4, SaKinds, Zenon DEF Terminate, Targeted
<1>5. CASE ListChildren
  BY <1>5, Zenon DEF ListChildren
<1>6. CASE TargetStatus
  BY <1>6, Zenon DEF TargetStatus
<1>7. CASE EndTargetSa
  BY <1>7, SaKinds, CharonAssumption, Zenon DEF EndTargetSa, Targeted, Target
<1>8. CASE AskAgain
  BY <1>8, Zenon DEF AskAgain
<1>9. CASE WaitRemoved
  BY <1>9, Zenon DEF WaitRemoved
<1>10. CASE RemoveCheck
  BY <1>10, Zenon DEF RemoveCheck
<1>11. CASE UpStatus
  BY <1>11, Zenon DEF UpStatus
<1>12. CASE DownStatus
  BY <1>12, Zenon DEF DownStatus
<1>13. CASE CleanCheck
  BY <1>13, Zenon DEF CleanCheck
<1>14. CASE PskCheck
  BY <1>14, Zenon DEF PskCheck
<1>15. CASE ClearCheck
  BY <1>15, Zenon DEF ClearCheck
<1>16. CASE LoopTop
  BY <1>16, Zenon DEF LoopTop
<1>17. CASE Verify
  BY <1>17, Zenon DEF Verify
<1>18. CASE LoopEnd
  BY <1>18, SaKinds, CharonAssumption, Zenon DEF LoopEnd, Targeted, Target
<1>19. CASE LoopWait
  BY <1>19, Zenon DEF LoopWait
<1>20. CASE LoopNext
  BY <1>20, Zenon DEF LoopNext
<1>21. CASE LoopClear
  BY <1>21, Zenon DEF LoopClear
<1>22. CASE NextItem
  BY <1>22, Zenon DEF NextItem
<1>23. CASE CleanPresent
  BY <1>23, Zenon DEF CleanPresent
<1>24. CASE CleanPskCheck
  BY <1>24, Zenon DEF CleanPskCheck
<1>25. CASE Closed
  BY <1>25, Zenon DEF Closed
<1>26. CASE Quit
  BY <1>26, CloseMoves, Zenon DEF Quit
<1>27. CASE SignalQuit
  BY <1>27, CloseMoves, Zenon DEF SignalQuit
<1>28. CASE Command
  BY <1>28, Zenon DEF Command
<1>29. CASE Select
  BY <1>29, Zenon DEF Select
<1>30. CASE Reconfigure
  BY <1>30, Zenon DEF Reconfigure
<1>31. CASE Signal
  BY <1>31, Zenon DEF Signal
<1>32. CASE KernelGone
  BY <1>32, Zenon DEF KernelGone
<1>33. CASE Remote
  BY <1>33, SaKinds, Zenon DEF Remote, RemoteSa
<1>34. CASE Exited
  BY <1>34, Zenon DEF Exited, vars
<1>35. CASE UNCHANGED vars
  BY <1>35, Zenon DEF vars
<1> QED
  BY <1>1, <1>2, <1>3, <1>4, <1>5, <1>6, <1>7, <1>8, <1>9, <1>10, <1>11, <1>12, <1>13, <1>14,
     <1>15, <1>16, <1>17, <1>18, <1>19, <1>20, <1>21, <1>22, <1>23, <1>24, <1>25, <1>26, <1>27,
     <1>28, <1>29, <1>30, <1>31, <1>32, <1>33, <1>34, <1>35 DEF Next, Work

\* Every step keeps the ledger in front of charon.
LEMMA LedgerStep ==
    ASSUME TypeOK, Control, Targeted, Backed, LedgerInv, QuitInv, [Next]_vars
    PROVE  LedgerInv'
<1> TypeOKCharon /\ TypeOKLedger
  BY DEF TypeOK
<1>1. CASE UNCHANGED <<conn, psk, tracked, items, ownConn, ownCred, sa>>
  BY <1>1, Zenon DEF LedgerInv, LedgerCovers, NameOwned, Prepared, Down
<1>2. ASSUME NEW n \in Name, SaMoves(n), UNCHANGED <<conn, psk, tracked, items, ownConn, ownCred>>
      PROVE  LedgerInv'
  <2>1. \A m \in Name : m # n => sa'[m] = sa[m]
    BY <1>2, Zenon DEF SaMoves, TypeOKCharon
  <2>2. sa'[n] = sa[n] \/ sa'[n].of # "ours" \/ (conn[n] = "ours" /\ sa'[n].state # "none")
    BY <1>2 DEF SaMoves, TypeOKCharon, NoSa
  <2>3. \A m \in Name : sa'[m].of = "ours" => NameOwned(m) /\ sa'[m].state # "none"
    BY <2>1, <2>2, Zenon DEF LedgerInv, LedgerCovers, Down
  <2>4. \A m : NameOwned(m)' <=> NameOwned(m)
    BY <1>2 DEF NameOwned
  <2> QED
    BY <1>2, <2>3, <2>4, Zenon DEF LedgerInv, LedgerCovers, Prepared, Down
<1>3. CASE Prepare
  <2>1. at = "prepare" /\ cfg \in Config /\ UNCHANGED <<conn, sa, psk, tracked, ownCred>>
    BY <1>3, Zenon DEF Prepare, Targeted
  <2>2. CASE ~CanPrepare(cfg)
    BY <1>1, <1>3, <2>2, Zenon DEF Prepare
  <2>3. CASE CanPrepare(cfg)
    <3>1. \A c : Prepared(c) \/ c = cfg => Prepared(c)'
      BY <1>3, <2>1, <2>3, ItemsGrow, Zenon DEF Prepare
    <3>3. ownConn' = IF NameOwned(NameOf[cfg]) THEN ownConn \cup {cfg} ELSE ownConn \ {cfg}
      BY <1>3, <2>3, Zenon DEF Prepare, Target
    <3>4. \A m : NameOwned(m)' <=> NameOwned(m)
      BY <3>3 DEF NameOwned
    <3>5. \A c \in ownConn' \cup ownCred' : Prepared(c)'
      BY <2>1, <3>1, <3>3, Zenon DEF LedgerInv
    <3> QED
      BY <2>1, <3>4, <3>5, Zenon DEF LedgerInv, LedgerCovers, Down
  <2> QED
    BY <2>2, <2>3
<1>4. CASE SendLoad
  <2>1. at = "send_load" /\ cfg \in Config /\ ownConn' = ownConn \cup {cfg}
    BY <1>4, Zenon DEF SendLoad, SendConnection, Targeted
  <2>2. UNCHANGED <<sa, psk, tracked, items, ownCred>>
    BY <1>4, Zenon DEF SendLoad
  <2>3. conn' = conn \/ conn' = [conn EXCEPT ![NameOf[cfg]] = "ours"]
    BY <1>4, Zenon DEF SendLoad, SendConnection, LoadConnection
  <2>4. Prepared(cfg) /\ conn[NameOf[cfg]] # "foreign" /\ NameOf[cfg] \in Name
    BY <2>1, CharonAssumption, Zenon DEF Backed
  <2>5. \A m : NameOwned(m)' <=> NameOwned(m) \/ m = NameOf[cfg]
    BY <2>1 DEF NameOwned
  <2>6. \A m \in Name : conn'[m] = conn[m] \/ (m = NameOf[cfg] /\ conn'[m] = "ours")
    BY <2>3, <2>4, Zenon DEF TypeOKCharon
  <2>7. \A c \in ownConn' \cup ownCred' : Prepared(c)'
    BY <2>1, <2>2, <2>4, Zenon DEF LedgerInv, Prepared
  <2> QED
    BY <2>2, <2>4, <2>5, <2>6, <2>7, Zenon DEF LedgerInv, LedgerCovers, Down
<1>5. CASE LoadPsk
  <2>1. at = "load_psk" /\ cfg \in Config /\ UNCHANGED <<conn, sa, ownConn>>
    BY <1>5, Zenon DEF LoadPsk, Targeted
  <2>2. CASE UNCHANGED <<psk, tracked, items, ownCred>>
    BY <1>1, <2>1, <2>2, Zenon
  <2>3. CASE ~UNCHANGED <<psk, tracked, items, ownCred>>
    <3>1. PICK ok \in BOOLEAN : CanPrepare(cfg) /\ AddNativeAppPsk(cfg, ok)
      BY <1>5, <2>3, Zenon DEF LoadPsk
    <3>2. \A c : Prepared(c) \/ c = cfg => Prepared(c)'
      BY <2>1, <3>1, ItemsGrow, Zenon DEF AddNativeAppPsk
    <3>3. /\ ownCred' = ownCred \cup {cfg}
          /\ psk' \subseteq psk \cup {cfg} /\ tracked' \subseteq tracked \cup {cfg}
      BY <3>1, Zenon DEF AddNativeAppPsk, AddIpsecPsk, LoadShared
    <3>4. \A c \in ownConn' \cup ownCred' : Prepared(c)'
      BY <2>1, <3>2, <3>3, Zenon DEF LedgerInv
    <3> QED
      BY <2>1, <3>3, <3>4, Zenon DEF LedgerInv, LedgerCovers, NameOwned, Down
  <2> QED
    BY <2>2, <2>3
<1>6. CASE Remove
  <2>1. UNCHANGED <<sa, psk, tracked, items, ownConn, ownCred>>
    BY <1>6, Zenon DEF Remove
  <2>2. \A m \in Name : conn'[m] \in {conn[m], "none"}
    BY <1>6, Zenon DEF Remove, UnloadConnection, TypeOKCharon
  <2> QED
    BY <2>1, <2>2, Zenon DEF LedgerInv, LedgerCovers, NameOwned, Prepared, Down
<1>7. CASE UnloadPsk
  <2>1. UNCHANGED <<conn, sa, items, ownConn>>
    BY <1>7, Zenon DEF UnloadPsk
  <2>2. PICK ok \in BOOLEAN : RemoveNativeAppCredential(cfg, ok)
    BY <1>7, Zenon DEF UnloadPsk
  <2>3. ownCred' \subseteq ownCred /\ psk' \cup tracked' \subseteq ownCred'
    BY <2>2, Zenon DEF RemoveNativeAppCredential, RemoveIpsecPsk, UnloadShared, LedgerInv,
       LedgerCovers
  <2> QED
    BY <2>1, <2>3, Zenon DEF LedgerInv, LedgerCovers, NameOwned, Prepared, Down
<1>8. CASE ClearAll
  <2>1. UNCHANGED <<conn, sa, items, ownConn>>
    BY <1>8, Zenon DEF ClearAll
  <2>2. ownCred' \subseteq ownCred /\ psk' \cup tracked' \subseteq ownCred'
    BY <1>8, Zenon DEF ClearAll, ClearAllIpsecDaemonCredentials, ClearCreds, LedgerInv,
       LedgerCovers
  <2> QED
    BY <2>1, <2>2, Zenon DEF LedgerInv, LedgerCovers, NameOwned, Prepared, Down
<1>9. CASE CleanSa
  <2>1. UNCHANGED <<conn, sa, psk, tracked, items, ownCred>> /\ at = "clean_sa"
    BY <1>9, Zenon DEF CleanSa
  <2>2. cfg \in Config /\ name = NameOf[cfg] /\ conn[name] = "none"
    BY <2>1, Zenon DEF Control, Targeted, QuitInv, QuitOnly
  <2>3. CASE UNCHANGED ownConn
    BY <1>1, <2>1, <2>3, Zenon
  <2>4. CASE ~UNCHANGED ownConn
    <3>1. ownConn' = ownConn \ {cfg} /\ Down(name)
      BY <1>9, <2>4, Zenon DEF CleanSa, ConnectionSaActive
    <3>2. \A m : /\ NameOwned(m)' => NameOwned(m)
                 /\ NameOwned(m) /\ m # name => NameOwned(m)'
      BY <2>2, <3>1, Zenon DEF NameOwned
    <3>3. \A c \in ownConn' \cup ownCred' : Prepared(c)'
      BY <2>1, <3>1, Zenon DEF LedgerInv, Prepared
    <3>4. \A m \in Name : conn[m] = "ours" \/ sa[m].of = "ours" => NameOwned(m)'
      BY <2>2, <3>1, <3>2, Zenon DEF LedgerInv, LedgerCovers
    <3> QED
      BY <2>1, <3>2, <3>3, <3>4, Zenon DEF LedgerInv, LedgerCovers, Down
  <2> QED
    BY <2>3, <2>4
<1> QED
  BY <1>1, <1>2, <1>3, <1>4, <1>5, <1>6, <1>7, <1>8, <1>9, Effects, Zenon

-----------------------------------------------------------------------------
(* Type correctness                                                        *)

\* The SAs keep their type.
LEMMA SaTyped ==
    ASSUME TypeOKCharon, NEW n \in Name, SaMoves(n)
    PROVE  /\ sa' \in [Name -> [state : {"none", "ike", "up"}, reqid : Reqid \cup {0},
                                of : {"none", "ours", "foreign"}]]
           /\ \A m \in Name : sa'[m].state = "up" => sa'[m].reqid # 0
           /\ xfrm' \subseteq Reqid
  BY DEF TypeOKCharon, SaMoves, NoSa

\* The number of faults left stays in range.
LEMMA FaultTyped ==
    ASSUME TypeOKCharon, Fault \/ Answered
    PROVE  faults' \in 0..MaxFaults
  BY CharonAssumption DEF TypeOKCharon, Fault, Answered

\* Every step keeps the types.
LEMMA TypeStep ==
    ASSUME TypeOK, Targeted, [Next]_vars
    PROVE  TypeOK'
<1> TypeOKCharon /\ TypeOKLedger
  BY DEF TypeOK
<1> USE DEF TypeOK, TypeOKCharon, TypeOKLedger
<1>1. CASE Prepare
  BY <1>1, ItemsGrow, Zenon DEF Prepare, Targeted
<1>2. CASE CheckName
  BY <1>2, FaultTyped, Zenon DEF CheckName
<1>3. CASE SendLoad
  BY <1>3, FaultTyped, Zenon DEF SendLoad, Targeted, SendConnection, LoadConnection
<1>4. CASE LoadPsk
  BY <1>4, FaultTyped, ItemsGrow, Zenon DEF LoadPsk, Targeted, AddNativeAppPsk, AddIpsecPsk,
     LoadShared
<1>5. CASE Start
  BY <1>5, SaKinds, SaTyped, CharonAssumption, FaultTyped, Zenon DEF Start, Targeted, Target,
     StartSa
<1>6. CASE Initiate
  BY <1>6, SaKinds, SaTyped, FaultTyped, Zenon DEF Initiate, Targeted, Target, StartSa
<1>7. CASE Terminate
  BY <1>7, SaKinds, SaTyped, FaultTyped, Zenon DEF Terminate, Targeted, Target, TerminateIke
<1>8. CASE ListChildren
  <2>1. cfg \in Config
    BY <1>8, Zenon DEF ListChildren, Targeted
  <2>2. Listed(cfg) \subseteq Reqid
    BY <2>1, CharonAssumption, Zenon DEF Listed
  <2>3. /\ pending' = pending \/ pending' = [pending EXCEPT ![cfg] = Recorded(cfg)]
        /\ \/ unconfirmed' = unconfirmed
           \/ unconfirmed' = [unconfirmed EXCEPT ![cfg] = @ \cup (Listed(cfg) \cap xfrm)]
        /\ Fault \/ Answered
    BY <1>8, Zenon DEF ListChildren
  <2>4. Recorded(cfg) \subseteq Reqid
    BY <2>1, <2>2, Zenon DEF Recorded
  <2>5. pending' \in [Config -> SUBSET Reqid] /\ unconfirmed' \in [Config -> SUBSET Reqid]
    BY <2>3, <2>4
  <2> QED
    BY <1>8, <2>5, FaultTyped, Zenon DEF ListChildren
<1>9. CASE TargetStatus
  BY <1>9, FaultTyped, Zenon DEF TargetStatus
<1>10. CASE EndTargetSa
  BY <1>10, SaKinds, SaTyped, CharonAssumption, FaultTyped, Zenon DEF EndTargetSa, Targeted,
     Target, TerminateIke
<1>11. CASE AskAgain
  BY <1>11, FaultTyped, Zenon DEF AskAgain
<1>12. CASE WaitRemoved
  BY <1>12, FaultTyped, Zenon DEF WaitRemoved, PollSays
<1>13. CASE RemoveCheck
  BY <1>13, FaultTyped, Zenon DEF RemoveCheck
<1>14. CASE Remove
  BY <1>14, FaultTyped, Zenon DEF Remove, UnloadConnection
<1>15. CASE UpStatus
  BY <1>15, FaultTyped, Zenon DEF UpStatus
<1>16. CASE DownStatus
  BY <1>16, FaultTyped, Zenon DEF DownStatus
<1>17. CASE CleanCheck
  BY <1>17, FaultTyped, Zenon DEF CleanCheck
<1>18. CASE PskCheck
  BY <1>18, FaultTyped, Zenon DEF PskCheck
<1>19. CASE UnloadPsk
  BY <1>19, FaultTyped DEF UnloadPsk, Targeted, RemoveNativeAppCredential, RemoveIpsecPsk,
     UnloadShared
<1>20. CASE ClearCheck
  BY <1>20, FaultTyped, Zenon DEF ClearCheck
<1>21. CASE ClearAll
  BY <1>21, FaultTyped DEF ClearAll, ClearAllIpsecDaemonCredentials, ClearCreds
<1>22. CASE LoopTop
  BY <1>22, Zenon DEF LoopTop
<1>23. CASE Verify
  BY <1>23, FaultTyped, Zenon DEF Verify
<1>24. CASE LoopEnd
  BY <1>24, SaKinds, SaTyped, CharonAssumption, FaultTyped, Zenon DEF LoopEnd, Targeted, Target,
     TerminateIke
<1>25. CASE LoopWait
  BY <1>25, FaultTyped, Zenon DEF LoopWait, PollSays
<1>26. CASE LoopNext
  BY <1>26, Zenon DEF LoopNext
<1>27. CASE LoopClear
  BY <1>27, Zenon DEF LoopClear
<1>28. CASE NextItem
  BY <1>28, Zenon DEF NextItem
<1>29. CASE CleanPresent
  BY <1>29, FaultTyped, Zenon DEF CleanPresent
<1>30. CASE CleanSa
  BY <1>30, FaultTyped, Zenon DEF CleanSa
<1>31. CASE CleanPskCheck
  BY <1>31, FaultTyped, Zenon DEF CleanPskCheck
<1>32. CASE Closed
  <2>1. flag' \in [Config -> BOOLEAN]
    <3> HIDE DEF TypeOK, TypeOKCharon, TypeOKLedger
    <3>1. flag' = [c \in Config |-> c \in ownCred]
      BY <1>32, Zenon DEF Closed
    <3> QED
      BY <3>1
  <2>2. exited' \in {exited, "cleaned"} /\ stop' \in {stop, FALSE} /\ exitReq' \in {exitReq, FALSE}
    BY <1>32, Zenon DEF Closed
  <2> QED
    BY <1>32, <2>1, FaultTyped, Zenon DEF Closed
<1>33. CASE Quit
  BY <1>33, Zenon DEF Quit, Close
<1>34. CASE SignalQuit
  BY <1>34, Zenon DEF SignalQuit, Close
<1>35. CASE Command
  BY <1>35, Zenon DEF Command
<1>36. CASE Select
  BY <1>36, Zenon DEF Select, Typed
<1>37. CASE Reconfigure
  BY <1>37, Zenon DEF Reconfigure
<1>38. CASE Signal
  BY <1>38, Zenon DEF Signal
<1>39. CASE KernelGone
  BY <1>39 DEF KernelGone
<1>40. CASE Remote
  BY <1>40, SaKinds, SaTyped, CharonAssumption DEF Remote, RemoteSa
<1>41. CASE Exited
  BY <1>41, Zenon DEF Exited, vars
<1>42. CASE UNCHANGED vars
  BY <1>42, Zenon DEF vars
<1> QED
  BY <1>1, <1>2, <1>3, <1>4, <1>5, <1>6, <1>7, <1>8, <1>9, <1>10, <1>11, <1>12, <1>13, <1>14,
     <1>15, <1>16, <1>17, <1>18, <1>19, <1>20, <1>21, <1>22, <1>23, <1>24, <1>25, <1>26, <1>27,
     <1>28, <1>29, <1>30, <1>31, <1>32, <1>33, <1>34, <1>35, <1>36, <1>37, <1>38, <1>39, <1>40,
     <1>41, <1>42 DEF Next, Work

-----------------------------------------------------------------------------
(* The cleanup                                                             *)

\* The steps of a cleanup.
QuitWork ==
    \/ ListChildren \/ TargetStatus \/ EndTargetSa \/ AskAgain \/ WaitRemoved \/ Remove
    \/ UnloadPsk \/ NextItem \/ CleanPresent \/ CleanSa \/ CleanPskCheck \/ Closed

\* A step of a command is never taken at the prompt, and a stage of a cleanup
\* has only these.
LEMMA WorkStages ==
    ASSUME Work
    PROVE  at # "prompt" /\ (at \in QuitOnly \cup Terminating => QuitWork)
<1> USE DEF QuitOnly, Terminating
<1>1. CASE Prepare
  BY <1>1, Zenon DEF Prepare
<1>2. CASE CheckName
  BY <1>2, Zenon DEF CheckName
<1>3. CASE SendLoad
  BY <1>3 DEF SendLoad
<1>4. CASE LoadPsk
  BY <1>4, Zenon DEF LoadPsk
<1>5. CASE Start
  BY <1>5 DEF Start
<1>6. CASE Initiate
  BY <1>6, Zenon DEF Initiate
<1>7. CASE Terminate
  BY <1>7 DEF Terminate
<1>8. CASE ListChildren
  BY <1>8, Zenon DEF ListChildren, QuitWork
<1>9. CASE TargetStatus
  BY <1>9, Zenon DEF TargetStatus, QuitWork
<1>10. CASE EndTargetSa
  BY <1>10, Zenon DEF EndTargetSa, QuitWork
<1>11. CASE AskAgain
  BY <1>11, Zenon DEF AskAgain, QuitWork
<1>12. CASE WaitRemoved
  BY <1>12, Zenon DEF WaitRemoved, QuitWork
<1>13. CASE RemoveCheck
  BY <1>13, Zenon DEF RemoveCheck
<1>14. CASE Remove
  BY <1>14, Zenon DEF Remove, QuitWork
<1>15. CASE UpStatus
  BY <1>15, Zenon DEF UpStatus
<1>16. CASE DownStatus
  BY <1>16, Zenon DEF DownStatus
<1>17. CASE CleanCheck
  BY <1>17, Zenon DEF CleanCheck
<1>18. CASE PskCheck
  BY <1>18, Zenon DEF PskCheck
<1>19. CASE UnloadPsk
  BY <1>19, Zenon DEF UnloadPsk, QuitWork
<1>20. CASE ClearCheck
  BY <1>20, Zenon DEF ClearCheck
<1>21. CASE ClearAll
  BY <1>21, Zenon DEF ClearAll
<1>22. CASE LoopTop
  BY <1>22, Zenon DEF LoopTop
<1>23. CASE Verify
  BY <1>23, Zenon DEF Verify
<1>24. CASE LoopEnd
  BY <1>24, Zenon DEF LoopEnd
<1>25. CASE LoopWait
  BY <1>25, Zenon DEF LoopWait
<1>26. CASE LoopNext
  BY <1>26, Zenon DEF LoopNext
<1>27. CASE LoopClear
  BY <1>27, Zenon DEF LoopClear
<1>28. CASE NextItem
  BY <1>28, Zenon DEF NextItem, QuitWork
<1>29. CASE CleanPresent
  BY <1>29, Zenon DEF CleanPresent, QuitWork
<1>30. CASE CleanSa
  BY <1>30, Zenon DEF CleanSa, QuitWork
<1>31. CASE CleanPskCheck
  BY <1>31, Zenon DEF CleanPskCheck, QuitWork
<1>32. CASE Closed
  BY <1>32, Zenon DEF Closed, QuitWork
<1> QED
  BY <1>1, <1>2, <1>3, <1>4, <1>5, <1>6, <1>7, <1>8, <1>9, <1>10, <1>11, <1>12, <1>13, <1>14,
     <1>15, <1>16, <1>17, <1>18, <1>19, <1>20, <1>21, <1>22, <1>23, <1>24, <1>25, <1>26, <1>27,
     <1>28, <1>29, <1>30, <1>31, <1>32 DEF Work

\* Who takes a step that leaves a cleanup under way.
LEMMA QuitSource ==
    ASSUME Control, [Next]_vars, cmd' = "quit"
    PROVE  \/ Quit \/ SignalQuit
           \/ cmd = "quit" /\ (QuitWork \/ Signal \/ KernelGone \/ Remote \/ UNCHANGED vars)
<1>1. CASE Command
  BY <1>1, CommandMoves
<1>2. CASE cmd = "quit"
  <2>1. at # "prompt" /\ at \in QuitOnly \cup Terminating
    BY <1>2 DEF Control, QuitOnly, Terminating
  <2>2. ~(Select \/ Reconfigure)
    BY <2>1, Zenon DEF Select, Reconfigure, Typed, AtPrompt
  <2> QED
    BY <1>1, <1>2, <2>1, <2>2, WorkStages, Zenon DEF Next, Exited
<1>3. CASE cmd # "quit"
  <2>1. CASE Carries
    BY <1>3, <2>1 DEF Carries
  <2>2. CASE NextItem
    BY <1>3, <2>2, Zenon DEF NextItem, Control, QuitOnly
  <2>3. CASE Prepare
    BY <1>3, <2>3, AddFailsMoves, Zenon DEF Prepare, Go, GoWith
  <2>4. CASE CheckName
    BY <1>3, <2>4, AddFailsMoves, Zenon DEF CheckName, Go, GoWith
  <2>5. CASE SendLoad
    BY <2>5, Zenon DEF SendLoad, AfterAdd, UpPsk, UpStart, UpFailed, Go, GoWith, Return, Enter
  <2>6. CASE RemoveCheck
    BY <1>3, <2>6, Zenon DEF RemoveCheck, Go, GoWith, Return, Enter
  <2> QED
    BY <1>1, <2>1, <2>2, <2>3, <2>4, <2>5, <2>6, CarryStep, Zenon
<1> QED
  BY <1>2, <1>3

\* Going on within an attempt.
LEMMA QuitOnward ==
    ASSUME QuitInv, cmd = "quit", UNCHANGED <<target, idx, items, ownConn, ownCred>>,
           at \in Terminating \cup {"clean_remove"}, "failed" \in facts => "failed" \in facts',
           at' \in Terminating \cup {"clean_remove", "clean_present"}
    PROVE  QuitInv'
  BY Zenon DEF QuitInv, Terminating

\* A failed attempt leaves the item to the next one, or fails the cleanup.
LEMMA QuitFails ==
    ASSUME QuitInv, cmd = "quit", at \notin {"item", "closed"}, AttemptFails,
           UNCHANGED <<items, ownConn, ownCred>>
    PROVE  QuitInv'
<1>1. UNCHANGED target
  BY AttemptFailsMoves
<1>2. CASE at' = AttemptAt(cfg) /\ idx' = idx /\ ("failed" \in facts' <=> "failed" \in facts)
  BY <1>1, <1>2, Zenon DEF QuitInv, AttemptAt, Terminating
<1>3. CASE at' = "item" /\ idx' = idx + 1 /\ "failed" \in facts'
  BY <1>3 DEF QuitInv, Terminating
<1> QED
  BY <1>2, <1>3, AttemptFailsMoves, Zenon

\* An item that owns nothing any more is behind the cleanup.
LEMMA QuitDone ==
    ASSUME QuitInv, TypeOKLedger, cmd = "quit", ItemDone, idx <= Len(items), UNCHANGED items,
           ownConn' \subseteq ownConn, ownCred' \subseteq ownCred,
           items[idx] \notin ownConn' \cup ownCred'
    PROVE  QuitInv'
<1>1. cmd' = "quit" /\ at' = "item" /\ idx' = idx + 1 /\ UNCHANGED facts
  BY DEF ItemDone
<1>2. idx \in Nat \ {0} /\ Len(items) \in Nat
  BY DEF QuitInv
<1>3. ASSUME "failed" \notin facts', NEW i \in 1..Len(items), i < idx'
      PROVE  items[i] \notin ownConn' \cup ownCred'
  <2>1. i = idx \/ i < idx
    BY <1>1, <1>2, <1>3
  <2> QED
    BY <1>1, <1>3, <2>1, Zenon DEF QuitInv
<1> QED
  BY <1>1 DEF QuitInv, Terminating

\* Every step keeps what a cleanup knows.
LEMMA QuitStep ==
    ASSUME TypeOK, Control, Control', Targeted, LedgerInv, QuitInv, [Next]_vars
    PROVE  QuitInv'
<1> TypeOKCharon /\ TypeOKLedger
  BY DEF TypeOK
<1>1. CASE cmd' # "quit"
  BY <1>1, Zenon DEF Control, QuitInv, QuitOnly
<1>2. CASE cmd' = "quit" /\ (Quit \/ SignalQuit)
  <2>1. at = "prompt" /\ (UNCHANGED job \/ (at' = "item" /\ idx' = 1))
    BY <1>2, CloseMoves, Zenon DEF Quit, SignalQuit, AtPrompt
  <2>2. at' = "item" /\ idx' = 1
    BY <1>2, <2>1, Zenon DEF job, Control, QuitOnly, Terminating
  <2> QED
    BY <2>2 DEF QuitInv, Terminating
<1>3. ASSUME cmd = "quit", UNCHANGED job, UNCHANGED <<conn, items, ownConn, ownCred>>,
             at = "clean_psk" /\ Down(name) => Down(name)' \/ conn[name] # "none"
      PROVE  QuitInv'
  BY <1>3, Zenon DEF QuitInv, job, Down
<1>4. CASE cmd = "quit" /\ (Signal \/ KernelGone \/ UNCHANGED vars)
  BY <1>3, <1>4, Zenon DEF Signal, KernelGone, vars, job, Down
<1>5. CASE cmd = "quit" /\ Remote
  <2>1. UNCHANGED <<job, conn, items, ownConn, ownCred>>
    BY <1>5, Zenon DEF Remote, RemoteSa
  <2>2. PICK n \in Name : SaMoves(n)
    BY <1>5, SaKinds, Zenon DEF Remote
  <2>3. at = "clean_psk" => name \in Name
    BY DEF Targeted
  <2>4. name \in Name /\ Down(name) => Down(name)' \/ conn[name] # "none"
    <3>1. sa \in [Name -> [state : {"none", "ike", "up"}, reqid : Reqid \cup {0},
                            of : {"none", "ours", "foreign"}]]
      BY Zenon DEF TypeOKCharon
    <3>2. UNCHANGED name
      BY <2>1, Zenon DEF job
    <3>3. CASE sa' = [sa EXCEPT ![n] = NoSa]
      BY <3>1, <3>2, <3>3, Zenon DEF Down, NoSa
    <3>4. CASE conn[n] # "none" /\ \E v : sa' = [sa EXCEPT ![n] = v]
      BY <3>1, <3>2, <3>4, Zenon DEF Down
    <3> QED
      BY <2>2, <3>2, <3>3, <3>4, Zenon DEF SaMoves, Down
  <2> QED
    BY <1>3, <1>5, <2>1, <2>3, <2>4, Zenon
<1>6. CASE cmd = "quit" /\ cmd' = "quit" /\ QuitWork
  <2>1. ASSUME at \in Terminating, AfterTerminate(FALSE), UNCHANGED <<items, ownConn, ownCred>>
        PROVE  QuitInv'
    BY <1>6, <2>1, QuitFails, Zenon DEF AfterTerminate, Terminating
  <2>2. CASE ListChildren
    BY <1>6, <2>1, <2>2, QuitOnward, Zenon DEF ListChildren, Terminating
  <2>3. CASE TargetStatus
    BY <1>6, <2>1, <2>3, QuitOnward, Zenon DEF TargetStatus, Go, GoWith, Terminating
  <2>4. CASE EndTargetSa
    BY <1>6, <2>4, QuitOnward, Zenon DEF EndTargetSa, Go, GoWith, Terminating
  <2>5. CASE AskAgain
    BY <1>6, <2>1, <2>5, QuitOnward, Zenon DEF AskAgain, Go, GoWith, Terminating
  <2>6. CASE WaitRemoved
    BY <1>6, <2>1, <2>6, QuitOnward, Zenon DEF WaitRemoved, AfterTerminate, Terminating
  <2>7. CASE Remove
    <3>1. at = "clean_remove"
      BY <1>6, <2>7, Zenon DEF Remove, Control, QuitOnly, Terminating
    <3> QED
      BY <1>6, <2>7, <3>1, QuitOnward, Zenon DEF Remove, AfterRemove, GoWith
  <2>8. CASE NextItem
    <3>1. at = "item" /\ UNCHANGED <<items, ownConn, ownCred>>
      BY <2>8, Zenon DEF NextItem
    <3>2. idx \in Nat \ {0} /\ Len(items) \in Nat
      BY <1>6 DEF QuitInv
    <3>3. CASE idx > Len(items)
      BY <2>8, <3>3, Zenon DEF NextItem, Go, GoWith, QuitInv, Terminating
    <3>4. CASE idx <= Len(items) /\ items[idx] \in ownConn \cup ownCred
      BY <2>8, <3>2, <3>4 DEF NextItem, AttemptAt, QuitInv, Terminating
    <3>5. CASE idx <= Len(items) /\ items[idx] \notin ownConn \cup ownCred
      <4>1. ItemDone
        BY <2>8, <3>2, <3>5, SMTT(30) DEF NextItem
      <4> QED
        BY <1>6, <3>1, <3>5, <4>1, QuitDone, Zenon
    <3> QED
      BY <3>2, <3>3, <3>4, <3>5
  <2>9. CASE CleanPresent
    <3>1. at = "clean_present" /\ UNCHANGED <<conn, items, ownConn, ownCred>>
      BY <2>9, Zenon DEF CleanPresent
    <3>2. CASE AttemptFails
      BY <1>6, <3>1, <3>2, QuitFails
    <3>3. CASE ~AttemptFails
      BY <2>9, <3>3, Zenon DEF CleanPresent, ConnectionPresent, Go, GoWith, QuitInv, Terminating
    <3> QED
      BY <3>2, <3>3
  <2>10. CASE CleanSa
    <3>1. /\ at = "clean_sa" /\ UNCHANGED <<conn, items, ownCred>>
          /\ idx <= Len(items) /\ cfg = items[idx]
      BY <1>6, <2>10, Zenon DEF CleanSa, QuitInv
    <3>2. CASE AttemptFails /\ UNCHANGED ownConn
      BY <1>6, <3>1, <3>2, QuitFails, Zenon
    <3>3. CASE ~(AttemptFails /\ UNCHANGED ownConn)
      <4>1. ownConn' = ownConn \ {cfg} /\ IF cfg \in ownCred THEN Go("psk_sa") ELSE ItemDone
        BY <2>10, <3>3, Zenon DEF CleanSa
      <4>2. CASE cfg \in ownCred
        BY <3>1, <4>1, <4>2, Zenon DEF Go, GoWith, QuitInv, Terminating
      <4>3. CASE cfg \notin ownCred
        BY <1>6, <3>1, <4>1, <4>3, QuitDone, Zenon
      <4> QED
        BY <4>2, <4>3
    <3> QED
      BY <3>2, <3>3
  <2>11. CASE CleanPskCheck
    <3>1. at = "psk_sa" /\ UNCHANGED <<sa, conn, items, ownConn, ownCred>>
      BY <2>11, Zenon DEF CleanPskCheck
    <3>2. CASE AttemptFails
      BY <1>6, <3>1, <3>2, QuitFails, Zenon
    <3>3. CASE ~AttemptFails
      BY <2>11, <3>3, Zenon DEF CleanPskCheck, ConnectionSaActive, Down, Go, GoWith, QuitInv,
         Terminating
    <3> QED
      BY <3>2, <3>3
  <2>12. CASE UnloadPsk
    <3>1. at = "clean_psk" /\ UNCHANGED <<conn, items, ownConn>>
      BY <1>6, <2>12, Zenon DEF UnloadPsk, Control, QuitOnly, Terminating
    <3>2. idx <= Len(items) /\ cfg = items[idx] /\ cfg \notin ownConn
      BY <1>6, <3>1, Zenon DEF QuitInv
    <3>3. PICK ok \in BOOLEAN : /\ RemoveNativeAppCredential(cfg, ok)
                                /\ IF ok THEN ItemDone ELSE AttemptFails
      BY <2>12, <3>1, Zenon DEF UnloadPsk
    <3>4. ownCred' = IF ok THEN ownCred \ {cfg} ELSE ownCred
      BY <3>3 DEF RemoveNativeAppCredential
    <3>5. CASE ok
      BY <1>6, <3>1, <3>2, <3>3, <3>4, <3>5, QuitDone, Zenon
    <3>6. CASE ~ok
      BY <1>6, <3>1, <3>3, <3>4, <3>6, QuitFails, Zenon
    <3> QED
      BY <3>5, <3>6
  <2>13. CASE Closed
    BY <1>6, <2>13, Zenon DEF Closed, Return, Enter
  <2> QED
    BY <1>6, <2>2, <2>3, <2>4, <2>5, <2>6, <2>7, <2>8, <2>9, <2>10, <2>11, <2>12, <2>13, Zenon
       DEF QuitWork
<1> QED
  BY <1>1, <1>2, <1>4, <1>5, <1>6, QuitSource, Zenon

-----------------------------------------------------------------------------
(* The reqids of a terminated connection                                   *)

Waiting == {"status", "end_sa", "ask_again", "wait"}
Releasing == {"clean_remove", "clean_present", "clean_sa"}

\* Two steps record a reqid or take it off the list, and only the kernel drops
\* one.
LEMMA KeptReqids ==
    ASSUME TypeOKCharon, Targeted, [Next]_vars
    PROVE  \/ ListChildren \/ WaitRemoved \/ KernelGone
           \/ UNCHANGED <<unconfirmed, pending>> /\ xfrm \subseteq xfrm'
<1>1. CASE Prepare
  BY <1>1, Zenon DEF Prepare
<1>2. CASE CheckName
  BY <1>2, Zenon DEF CheckName
<1>3. CASE SendLoad
  BY <1>3, Zenon DEF SendLoad
<1>4. CASE LoadPsk
  BY <1>4, Zenon DEF LoadPsk
<1>5. CASE Start
  BY <1>5, SaKinds, CharonAssumption, Zenon DEF Start, SaMoves, Targeted, Target
<1>6. CASE Initiate
  BY <1>6, SaKinds, Zenon DEF Initiate, SaMoves, Targeted
<1>7. CASE Terminate
  BY <1>7, SaKinds, Zenon DEF Terminate, SaMoves, Targeted
<1>8. CASE TargetStatus
  BY <1>8, Zenon DEF TargetStatus
<1>9. CASE EndTargetSa
  BY <1>9, SaKinds, CharonAssumption, Zenon DEF EndTargetSa, SaMoves, Targeted, Target
<1>10. CASE AskAgain
  BY <1>10, Zenon DEF AskAgain
<1>11. CASE RemoveCheck
  BY <1>11, Zenon DEF RemoveCheck
<1>12. CASE Remove
  BY <1>12, Zenon DEF Remove
<1>13. CASE UpStatus
  BY <1>13, Zenon DEF UpStatus
<1>14. CASE DownStatus
  BY <1>14, Zenon DEF DownStatus
<1>15. CASE CleanCheck
  BY <1>15, Zenon DEF CleanCheck
<1>16. CASE PskCheck
  BY <1>16, Zenon DEF PskCheck
<1>17. CASE UnloadPsk
  BY <1>17, Zenon DEF UnloadPsk
<1>18. CASE ClearCheck
  BY <1>18, Zenon DEF ClearCheck
<1>19. CASE ClearAll
  BY <1>19, Zenon DEF ClearAll
<1>20. CASE LoopTop
  BY <1>20, Zenon DEF LoopTop
<1>21. CASE Verify
  BY <1>21, Zenon DEF Verify
<1>22. CASE LoopEnd
  BY <1>22, SaKinds, CharonAssumption, Zenon DEF LoopEnd, SaMoves, Targeted, Target
<1>23. CASE LoopWait
  BY <1>23, Zenon DEF LoopWait
<1>24. CASE LoopNext
  BY <1>24, Zenon DEF LoopNext
<1>25. CASE LoopClear
  BY <1>25, Zenon DEF LoopClear
<1>26. CASE NextItem
  BY <1>26, Zenon DEF NextItem
<1>27. CASE CleanPresent
  BY <1>27, Zenon DEF CleanPresent
<1>28. CASE CleanSa
  BY <1>28, Zenon DEF CleanSa
<1>29. CASE CleanPskCheck
  BY <1>29, Zenon DEF CleanPskCheck
<1>30. CASE Closed
  BY <1>30, Zenon DEF Closed
<1>31. CASE Quit
  BY <1>31, CloseMoves, Zenon DEF Quit
<1>32. CASE SignalQuit
  BY <1>32, CloseMoves, Zenon DEF SignalQuit
<1>33. CASE Command
  BY <1>33, Zenon DEF Command
<1>34. CASE Select
  BY <1>34, Zenon DEF Select
<1>35. CASE Reconfigure
  BY <1>35, Zenon DEF Reconfigure
<1>36. CASE Signal
  BY <1>36, Zenon DEF Signal
<1>37. CASE Remote
  BY <1>37, SaKinds, Zenon DEF Remote, SaMoves
<1>38. CASE Exited
  BY <1>38, Zenon DEF Exited, vars
<1>39. CASE UNCHANGED vars
  BY <1>39, Zenon DEF vars
<1> QED
  BY <1>1, <1>2, <1>3, <1>4, <1>5, <1>6, <1>7, <1>8, <1>9, <1>10, <1>11, <1>12, <1>13, <1>14,
     <1>15, <1>16, <1>17, <1>18, <1>19, <1>20, <1>21, <1>22, <1>23, <1>24, <1>25, <1>26, <1>27,
     <1>28, <1>29, <1>30, <1>31, <1>32, <1>33, <1>34, <1>35, <1>36, <1>37, <1>38, <1>39 DEF Next,
     Work

\* How a step comes to a stage after the list of reqids was taken.
LEMMA ReleaseMoves ==
    ASSUME Control, [Next]_vars
    PROVE  \/ ListChildren \/ WaitRemoved
           \/ at' \notin Waiting \cup Releasing
           \/ UNCHANGED <<at, cfg, todo>>
           \/ at \in Waiting /\ at' \in Waiting /\ UNCHANGED <<cfg, todo>>
           \/ at \in Releasing /\ at' \in Releasing /\ UNCHANGED cfg
<1> USE DEF Waiting, Releasing
<1>1. CASE Prepare
  BY <1>1, Zenon DEF Prepare, Go, AfterAdd, GoWith, Return, UpFailed, Enter
<1>2. CASE CheckName
  BY <1>2, Zenon DEF CheckName, Go, AfterAdd, GoWith, Return, UpFailed, Enter
<1>3. CASE SendLoad
  BY <1>3, Zenon DEF SendLoad, AfterAdd, Go, GoWith, Return, UpPsk, UpFailed, Enter, UpStart
<1>4. CASE LoadPsk
  BY <1>4, Zenon DEF LoadPsk, AfterPsk, Go, Return, UpStart, UpFailed, GoWith, Enter
<1>5. CASE Start
  BY <1>5, Zenon DEF Start, AfterStart, Go, GoWith, Return, UpFailed, Enter
<1>6. CASE Initiate
  BY <1>6, Zenon DEF Initiate, Return, Enter
<1>7. CASE Terminate
  BY <1>7, Zenon DEF Terminate, Return, Enter
<1>8. CASE TargetStatus
  BY <1>8, AttemptFailsMoves, Zenon DEF TargetStatus, Go, AfterTerminate, GoWith, Return, Enter,
     AttemptAt
<1>9. CASE EndTargetSa
  BY <1>9, Zenon DEF EndTargetSa, Go, GoWith
<1>10. CASE AskAgain
  BY <1>10, AttemptFailsMoves, Zenon DEF AskAgain, Go, AfterTerminate, GoWith, Return, Enter,
     AttemptAt
<1>11. CASE RemoveCheck
  BY <1>11, Zenon DEF RemoveCheck, Go, Return, GoWith, Enter
<1>12. CASE Remove
  BY <1>12, Zenon DEF Remove, AfterRemove, GoWith, Return, Enter
<1>13. CASE UpStatus
  BY <1>13, UpStatusMoves DEF Return, Enter
<1>14. CASE DownStatus
  BY <1>14, Zenon DEF DownStatus, GoWith, Return, Enter
<1>15. CASE CleanCheck
  BY <1>15, Zenon DEF CleanCheck, Go, Return, GoWith, Enter
<1>16. CASE PskCheck
  BY <1>16, Zenon DEF PskCheck, Go, Return, GoWith, Enter
<1>17. CASE UnloadPsk
  BY <1>17, AttemptFailsMoves, Zenon DEF UnloadPsk, Return, ItemDone, Enter, AttemptAt
<1>18. CASE ClearCheck
  BY <1>18, Zenon DEF ClearCheck, Go, Return, GoWith, Enter
<1>19. CASE ClearAll
  BY <1>19, Zenon DEF ClearAll, Return, Enter
<1>20. CASE LoopTop
  BY <1>20, Zenon DEF LoopTop, Go, GoWith
<1>21. CASE Verify
  BY <1>21, Zenon DEF Verify, GoWith
<1>22. CASE LoopEnd
  BY <1>22, Zenon DEF LoopEnd, Go, GoWith
<1>23. CASE LoopWait
  BY <1>23, Zenon DEF LoopWait
<1>24. CASE LoopNext
  BY <1>24, Zenon DEF LoopNext, Go, GoWith
<1>25. CASE LoopClear
  BY <1>25, Zenon DEF LoopClear, Go, Return, GoWith, Enter
<1>26. CASE NextItem
  BY <1>26, Zenon DEF NextItem, Go, ItemDone, AttemptAt, GoWith, AttemptAt
<1>27. CASE CleanPresent
  BY <1>27, AttemptFailsMoves, Zenon DEF CleanPresent, Go, GoWith, AttemptAt
<1>28. CASE CleanSa
  BY <1>28, AttemptFailsMoves, Zenon DEF CleanSa, Go, ItemDone, GoWith, AttemptAt
<1>29. CASE CleanPskCheck
  BY <1>29, AttemptFailsMoves, Zenon DEF CleanPskCheck, Go, GoWith, AttemptAt
<1>30. CASE Closed
  BY <1>30, Zenon DEF Closed, Return, Enter
<1>31. CASE Quit
  BY <1>31, CloseMoves, Zenon DEF Quit, job
<1>32. CASE SignalQuit
  BY <1>32, CloseMoves, Zenon DEF SignalQuit, job
<1>33. CASE Command
  BY <1>33, CommandMoves
<1>34. CASE Select
  BY <1>34, Zenon DEF Select, job
<1>35. CASE Reconfigure
  BY <1>35, Zenon DEF Reconfigure, job
<1>36. CASE Signal
  BY <1>36, Zenon DEF Signal, job
<1>37. CASE KernelGone
  BY <1>37, Zenon DEF KernelGone, job
<1>38. CASE Remote
  BY <1>38, Zenon DEF Remote, job
<1>39. CASE Exited
  BY <1>39, Zenon DEF Exited, job, vars
<1>40. CASE UNCHANGED vars
  BY <1>40, Zenon DEF vars, job
<1> QED
  BY <1>1, <1>2, <1>3, <1>4, <1>5, <1>6, <1>7, <1>8, <1>9, <1>10, <1>11, <1>12, <1>13, <1>14,
     <1>15, <1>16, <1>17, <1>18, <1>19, <1>20, <1>21, <1>22, <1>23, <1>24, <1>25, <1>26, <1>27,
     <1>28, <1>29, <1>30, <1>31, <1>32, <1>33, <1>34, <1>35, <1>36, <1>37, <1>38, <1>39, <1>40
     DEF Next, Work

\* An item stays in the ledger.
LEMMA ItemsKept ==
    ASSUME TypeOK, Targeted, [Next]_vars
    PROVE  \A c : Prepared(c) => Prepared(c)'
<1>1. CASE UNCHANGED items
  BY <1>1 DEF Prepared
<1>2. TypeOKCharon /\ TypeOKLedger
  BY DEF TypeOK
<1>3. CASE Prepare
  <2>1. cfg \in Config
    BY <1>3, Zenon DEF Prepare, Targeted
  <2>2. UNCHANGED items \/ (CanPrepare(cfg) /\ items' = ItemsWith(cfg))
    BY <1>3, Zenon DEF Prepare
  <2> QED
    BY <1>1, <1>2, <2>1, <2>2, ItemsGrow, Zenon
<1>4. CASE LoadPsk
  <2>1. cfg \in Config
    BY <1>4, Zenon DEF LoadPsk, Targeted
  <2>2. UNCHANGED items \/ (CanPrepare(cfg) /\ items' = ItemsWith(cfg))
    BY <1>4, Zenon DEF LoadPsk, AddNativeAppPsk
  <2> QED
    BY <1>1, <1>2, <2>1, <2>2, ItemsGrow, Zenon
<1>5. SendLoad \/ Remove \/ UnloadPsk \/ ClearAll \/ CleanSa => UNCHANGED items
  BY Zenon DEF SendLoad, Remove, UnloadPsk, ClearAll, CleanSa
<1> QED
  BY <1>1, <1>2, <1>3, <1>4, <1>5, Effects, Zenon

\* Every step keeps the reqids of the ledger until the kernel has let go of them.
LEMMA ReleaseStep ==
    ASSUME TypeOK, Control, Targeted, ReleaseInv, [Next]_vars
    PROVE  ReleaseInv'
<1> DEFINE Held == at \in Waiting => unconfirmed[cfg] \subseteq todo
           Free == at \in Releasing => unconfirmed[cfg] = {}
           Kept == /\ \A c \in Config : unconfirmed[c] \subseteq xfrm \cap pending[c]
                   /\ \A c \in Config : unconfirmed[c] # {} => Prepared(c)
<1> TypeOKCharon /\ TypeOKLedger
  BY DEF TypeOK
<1>0. (Kept /\ Held /\ Free) /\ (Kept' /\ Held' /\ Free' => ReleaseInv')
  BY Zenon DEF ReleaseInv, Waiting, Releasing
<1>i. \A c : Prepared(c) => Prepared(c)'
  BY ItemsKept
<1>t. /\ unconfirmed \in [Config -> SUBSET Reqid] /\ pending \in [Config -> SUBSET Reqid]
      /\ \A n \in Name : sa[n].state = "up" => sa[n].reqid # 0
      /\ xfrm \subseteq Reqid /\ 0 \notin Reqid
  BY CharonAssumption, Zenon DEF TypeOK, TypeOKCharon, TypeOKLedger
<1>1. ASSUME UNCHANGED <<unconfirmed, pending>>, xfrm \subseteq xfrm',
             \/ at' \notin Waiting \cup Releasing
             \/ UNCHANGED <<at, cfg, todo>>
             \/ at \in Waiting /\ at' \in Waiting /\ UNCHANGED <<cfg, todo>>
             \/ at \in Releasing /\ at' \in Releasing /\ UNCHANGED cfg
      PROVE  Kept' /\ Held' /\ Free'
  <2>1. Kept'
    BY <1>0, <1>1, <1>i, Zenon
  <2>2. CASE UNCHANGED <<at, cfg, todo>>
    BY <1>0, <1>1, <2>1, <2>2, Zenon
  <2>3. CASE at' \notin Waiting \cup Releasing
    BY <2>1, <2>3, Zenon
  <2>4. CASE at \in Waiting /\ at' \in Waiting /\ UNCHANGED <<cfg, todo>>
    BY <1>0, <1>1, <2>1, Zenon DEF Waiting, Releasing
  <2>5. CASE at \in Releasing /\ at' \in Releasing /\ UNCHANGED cfg
    BY <1>0, <1>1, <2>1, Zenon DEF Waiting, Releasing
  <2> QED
    BY <1>1, <2>3, <2>4, <2>5, Zenon
<1>f. AfterTerminate(FALSE) => at' \notin Waiting \cup Releasing
  BY AttemptFailsMoves, Zenon DEF AfterTerminate, AttemptAt, Return, Enter, Waiting, Releasing
<1>2. CASE ListChildren
  <2>1. cfg \in Config /\ UNCHANGED xfrm
    BY <1>2, Zenon DEF ListChildren, Targeted
  <2>2. CASE AfterTerminate(FALSE) /\ UNCHANGED <<pending, unconfirmed>>
    BY <1>0, <1>1, <1>f, <2>1, <2>2, Zenon
  <2>3. CASE at' = "status" /\ UNCHANGED <<cfg, pending, unconfirmed>> /\ ~Prepared(cfg)
    <3>1. unconfirmed[cfg] = {}
      BY <1>0, <2>1, <2>3, Zenon
    <3> QED
      BY <1>0, <1>i, <2>3, <3>1, Zenon
  <2>4. CASE /\ at' = "status" /\ UNCHANGED cfg /\ Prepared(cfg) /\ todo' = {0} \cup Recorded(cfg)
             /\ pending' = [pending EXCEPT ![cfg] = Recorded(cfg)]
             /\ unconfirmed' = [unconfirmed EXCEPT ![cfg] = @ \cup (Listed(cfg) \cap xfrm)]
    <3>1. unconfirmed'[cfg] \subseteq Recorded(cfg) \cap xfrm /\ pending'[cfg] = Recorded(cfg)
      BY <1>0, <1>t, <2>1, <2>4, Zenon
    <3>2. \A c \in Config : c # cfg => unconfirmed'[c] = unconfirmed[c] /\ pending'[c] = pending[c]
      BY <1>t, <2>4, Zenon
    <3>3. Kept'
      BY <1>0, <1>i, <2>1, <2>4, <3>1, <3>2, Zenon
    <3> QED
      BY <1>0, <2>4, <3>1, <3>3, Zenon DEF Releasing
  <2> QED
    BY <1>2, <2>2, <2>3, <2>4, Zenon DEF ListChildren
<1>3. CASE WaitRemoved
  <2> DEFINE r == Min(todo)
  <2>1. at = "wait" /\ cfg \in Config /\ UNCHANGED <<xfrm, unconfirmed>>
    BY <1>3, Zenon DEF WaitRemoved, Targeted
  <2>2. PollSays(Target, r, "absent") => unconfirmed[cfg] \subseteq todo \ {r}
    BY <1>0, <2>1, Zenon DEF PollSays, Gone, Waiting
  <2>3. CASE UNCHANGED <<at, cfg, todo, pending>>
    BY <1>0, <1>1, <2>1, <2>3, Zenon
  <2>4. CASE AfterTerminate(FALSE) /\ UNCHANGED pending
    BY <1>0, <1>1, <1>f, <2>1, <2>4, Zenon
  <2>5. CASE PollSays(Target, r, "absent") /\ todo' = todo \ {r} /\ UNCHANGED <<at, cfg, pending>>
    BY <1>0, <1>i, <2>1, <2>2, <2>5, Zenon
  <2>6. CASE /\ PollSays(Target, r, "absent") /\ todo \ {r} = {} /\ AfterTerminate(TRUE)
             /\ pending' = IF Prepared(cfg) THEN [pending EXCEPT ![cfg] = {}] ELSE pending
    <3>1. unconfirmed'[cfg] = {}
      BY <2>1, <2>2, <2>6, Zenon
    <3>2. \A c \in Config : c # cfg => pending'[c] = pending[c]
      BY <1>t, <2>6, Zenon
    <3>3. Kept'
      BY <1>0, <1>i, <2>1, <3>1, <3>2, Zenon
    <3>4. at' \notin Waiting /\ (at' \in Releasing => UNCHANGED cfg)
      BY <2>6, Zenon DEF AfterTerminate, Return, Enter, Waiting, Releasing
    <3> QED
      BY <1>0, <3>1, <3>3, <3>4, Zenon
  <2> QED
    BY <1>3, <2>3, <2>4, <2>5, <2>6, Zenon DEF WaitRemoved
<1>4. CASE KernelGone
  <2>1. PICK k \in xfrm : /\ xfrm' = xfrm \ {k}
                          /\ unconfirmed' = [c \in Config |-> unconfirmed[c] \ {k}]
    BY <1>4, Zenon DEF KernelGone
  <2>2. UNCHANGED <<at, cfg, todo, pending>>
    BY <1>4, Zenon DEF KernelGone, job
  <2>3. at \in Waiting \cup Releasing => cfg \in Config
    BY DEF Targeted, Waiting, Releasing
  <2>4. Kept'
    BY <1>0, <1>i, <2>1, <2>2, Zenon
  <2> QED
    BY <1>0, <2>1, <2>2, <2>3, <2>4, Zenon
<1> QED
  BY <1>0, <1>1, <1>2, <1>3, <1>4, KeptReqids, ReleaseMoves, Zenon

-----------------------------------------------------------------------------
(* The theorems                                                            *)

\* Who ends a session.
LEMMA ExitedBy ==
    ASSUME [Next]_vars, exited' = "cleaned", exited # "cleaned"
    PROVE  Closed
<1>1. CASE Prepare
  BY <1>1, Zenon DEF Prepare
<1>2. CASE CheckName
  BY <1>2, Zenon DEF CheckName
<1>3. CASE SendLoad
  BY <1>3 DEF SendLoad
<1>4. CASE LoadPsk
  BY <1>4, Zenon DEF LoadPsk
<1>5. CASE Start
  BY <1>5 DEF Start
<1>6. CASE Initiate
  BY <1>6, Zenon DEF Initiate
<1>7. CASE Terminate
  BY <1>7 DEF Terminate
<1>8. CASE ListChildren
  BY <1>8, Zenon DEF ListChildren
<1>9. CASE TargetStatus
  BY <1>9, Zenon DEF TargetStatus
<1>10. CASE EndTargetSa
  BY <1>10 DEF EndTargetSa
<1>11. CASE AskAgain
  BY <1>11, Zenon DEF AskAgain
<1>12. CASE WaitRemoved
  BY <1>12, Zenon DEF WaitRemoved
<1>13. CASE RemoveCheck
  BY <1>13, Zenon DEF RemoveCheck
<1>14. CASE Remove
  BY <1>14, Zenon DEF Remove
<1>15. CASE UpStatus
  BY <1>15, Zenon DEF UpStatus
<1>16. CASE DownStatus
  BY <1>16, Zenon DEF DownStatus
<1>17. CASE CleanCheck
  BY <1>17, Zenon DEF CleanCheck
<1>18. CASE PskCheck
  BY <1>18, Zenon DEF PskCheck
<1>19. CASE UnloadPsk
  BY <1>19, Zenon DEF UnloadPsk
<1>20. CASE ClearCheck
  BY <1>20, Zenon DEF ClearCheck
<1>21. CASE ClearAll
  BY <1>21, Zenon DEF ClearAll
<1>22. CASE LoopTop
  BY <1>22, Zenon DEF LoopTop
<1>23. CASE Verify
  BY <1>23, Zenon DEF Verify
<1>24. CASE LoopEnd
  BY <1>24, Zenon DEF LoopEnd
<1>25. CASE LoopWait
  BY <1>25, Zenon DEF LoopWait
<1>26. CASE LoopNext
  BY <1>26, Zenon DEF LoopNext
<1>27. CASE LoopClear
  BY <1>27, Zenon DEF LoopClear
<1>28. CASE NextItem
  BY <1>28, Zenon DEF NextItem
<1>29. CASE CleanPresent
  BY <1>29, Zenon DEF CleanPresent
<1>30. CASE CleanSa
  BY <1>30, Zenon DEF CleanSa
<1>31. CASE CleanPskCheck
  BY <1>31, Zenon DEF CleanPskCheck
<1>32. CASE Quit
  BY <1>32, CloseMoves, Zenon DEF Quit
<1>33. CASE SignalQuit
  BY <1>33, CloseMoves, Zenon DEF SignalQuit
<1>34. CASE Command
  BY <1>34, Zenon DEF Command
<1>35. CASE Select
  BY <1>35 DEF Select
<1>36. CASE Reconfigure
  BY <1>36, Zenon DEF Reconfigure
<1>37. CASE Signal
  BY <1>37, Zenon DEF Signal
<1>38. CASE KernelGone
  BY <1>38, Zenon DEF KernelGone
<1>39. CASE Remote
  BY <1>39 DEF Remote
<1>40. CASE Exited
  BY <1>40, Zenon DEF Exited, vars
<1>41. CASE UNCHANGED vars
  BY <1>41, Zenon DEF vars
<1> QED
  BY <1>1, <1>2, <1>3, <1>4, <1>5, <1>6, <1>7, <1>8, <1>9, <1>10, <1>11, <1>12, <1>13, <1>14,
     <1>15, <1>16, <1>17, <1>18, <1>19, <1>20, <1>21, <1>22, <1>23, <1>24, <1>25, <1>26, <1>27,
     <1>28, <1>29, <1>30, <1>31, <1>32, <1>33, <1>34, <1>35, <1>36, <1>37, <1>38, <1>39, <1>40,
     <1>41 DEF Next, Work

\* A session that ends as cleaned has been through its ledger without a failure.
LEMMA ExitStep ==
    ASSUME TypeOK, Control, LedgerInv, LedgerInv', QuitInv, CleanExit, [Next]_vars
    PROVE  CleanExit'
<1> USE DEF CleanExit
<1>1. CASE exited # "no"
  <2>1. at = "prompt"
    BY <1>1, Zenon DEF Control
  <2>2. KernelGone \/ Exited \/ UNCHANGED vars
    BY <1>1, <2>1, WorkStages, Zenon DEF Next, Quit, SignalQuit, Command, Select, Reconfigure,
       Typed, AtPrompt, Signal, Remote
  <2>3. UNCHANGED <<exited, conn, sa, psk, tracked, ownConn, ownCred>>
    BY <2>2, Zenon DEF KernelGone, Exited, vars
  <2> QED
    BY <2>3, Zenon
<1>2. CASE exited = "no" /\ exited' = "cleaned"
  <2>1. Closed
    BY <1>2, ExitedBy
  <2>2. /\ at = "closed" /\ "failed" \notin facts
        /\ UNCHANGED <<conn, sa, psk, tracked, ownConn, ownCred>>
    BY <1>2, <2>1, Zenon DEF Closed
  <2>3. \A i \in 1..Len(items) : items[i] \notin ownConn \cup ownCred
    BY <2>2 DEF Control, QuitOnly, QuitInv
  <2>4. ownConn \cup ownCred = {}
    BY <2>3 DEF LedgerInv, Prepared
  <2>5. \A n : ~NameOwned(n)
    BY <2>4 DEF NameOwned
  <2> QED
    BY <2>2, <2>4, <2>5, Zenon DEF LedgerInv, LedgerCovers
<1> QED
  BY <1>1, <1>2, Zenon

\* The invariant is inductive.
LEMMA InitHolds == Init => IInv
<1> SUFFICES ASSUME Init PROVE IInv
  OBVIOUS
<1>1. conn \in [Name -> {"none", "ours", "foreign"}]
  BY DEF Init, InitCharon
<1>2. /\ sa = [n \in Name |-> NoSa] /\ xfrm = {} /\ psk = {}
      /\ faults = MaxFaults /\ remote = MaxRemote
  BY DEF Init, InitCharon
<1>3. TypeOKCharon
  BY <1>1, <1>2, CharonAssumption DEF TypeOKCharon, NoSa
<1>4. /\ items = <<>> /\ closing = FALSE /\ ownConn = {} /\ ownCred = {}
      /\ pending = [c \in Config |-> {}] /\ tracked = {}
  BY DEF Init, InitLedger
<1>5. TypeOKLedger
  <2>1. items \in Seq(Config) /\ Len(items) = 0 /\ DOMAIN items = {}
    BY <1>4
  <2>2. IsInjective(items)
    BY <2>1 DEF IsInjective
  <2>3. pending \in [Config -> SUBSET Reqid]
    BY <1>4
  <2>4. Len(items) <= Capacity
    BY <2>1, LedgerAssumption
  <2> QED
    BY <1>4, <2>1, <2>2, <2>4, Zenon DEF TypeOKLedger
<1>6. flag \in [Config -> BOOLEAN]
  BY DEF Init
<1>7. TypeOK
  BY <1>3, <1>5, Zenon DEF Init, TypeOK
<1>8. Control /\ Targeted /\ Backed /\ CleanExit
  BY Zenon DEF Init, Control, Targeted, Backed, CleanExit, QuitOnly, Terminating, LoopOnly
<1>9. LedgerInv
  BY <1>4 DEF Init, InitCharon, LedgerInv, LedgerCovers, NameOwned, NoSa
<1>10. QuitInv /\ ReleaseInv
  BY Zenon DEF Init, QuitInv, ReleaseInv
<1> QED
  BY <1>7, <1>8, <1>9, <1>10 DEF IInv

LEMMA IInvStep == ASSUME IInv, [Next]_vars PROVE IInv'
<1> USE DEF IInv
<1>1. TypeOK' /\ Control' /\ Targeted' /\ Backed' /\ LedgerInv' /\ ReleaseInv'
  BY TypeStep, ControlStep, TargetStep, LedgerStep, ReleaseStep, Zenon
<1>2. QuitInv'
  BY <1>1, QuitStep, Zenon
<1>3. CleanExit'
  BY <1>1, ExitStep, Zenon
<1> QED
  BY <1>1, <1>2, <1>3

\* The inductive invariant holds in every state of a session.
THEOREM SessionInvariance == Spec => []IInv
  BY InitHolds, IInvStep, PTL DEF Spec

\* Every variable of the session keeps its type.
THEOREM SessionTyped == Spec => []TypeOK
  BY SessionInvariance, PTL DEF IInv

\* Whatever charon may hold because of the session, the ledger owns: no order of
\* failed loads, rollbacks, unloads and cleanups of AddNativeAppConnection and
\* AddNativeAppPsk forgets a definition or a credential.
THEOREM LedgerComplete == Spec => []LedgerCovers
  BY SessionInvariance, PTL DEF IInv, LedgerInv

\* A session that CleanupNativeAppOwnedResources reports as cleaned leaves nothing
\* of its own in charon.
THEOREM CleanExitHolds == Spec => []CleanExit
  BY SessionInvariance, PTL DEF IInv

\* No rollback and no cleanup unloads a connection the session did not load
\* (RemoveIpsecConnection as the commands of the application call it).
THEOREM ForeignSparedHolds == Spec => ForeignSpared
<1>1. ASSUME IInv, [Next]_vars, NEW n \in Name, conn[n] = "foreign", conn'[n] # "foreign"
      PROVE  cmd \in {"connection_unload", "down"}
  <2> USE DEF IInv
  <2>1. ~NameOwned(n) /\ TypeOKCharon
    BY <1>1, Zenon DEF LedgerInv, TypeOK
  <2>2. CASE SendLoad
    <3>1. conn[NameOf[cfg]] # "foreign"
      BY <1>1, <2>2, Zenon DEF SendLoad, Backed
    <3> QED
      BY <1>1, <2>1, <2>2, <3>1, Zenon DEF SendLoad, SendConnection, LoadConnection, TypeOKCharon
  <2>3. CASE Remove
    <3>1. n = name
      BY <1>1, <2>1, <2>3, Zenon DEF Remove, UnloadConnection, TypeOKCharon
    <3>2. at \in {"remove", "down_remove", "loop_remove", "clean_remove"}
      BY <2>3 DEF Remove
    <3>3. cmd \notin {"connection_unload", "terminate", "initiate"} => name = NameOf[cfg]
      BY <1>1, <3>2 DEF Targeted
    <3>4. CASE at = "remove"
      BY <1>1, <2>1, <3>1, <3>4, Zenon DEF Backed
    <3>5. CASE at = "down_remove"
      BY <1>1, <3>5, Zenon DEF Control
    <3>6. CASE at = "loop_remove"
      BY <1>1, <2>1, <3>1, <3>3, <3>6, Zenon DEF Control, LoopOnly, Backed
    <3>7. CASE at = "clean_remove"
      BY <1>1, <2>1, <3>1, <3>3, <3>7, Zenon DEF Control, QuitOnly, QuitInv, NameOwned
    <3> QED
      BY <3>2, <3>4, <3>5, <3>6, <3>7
  <2>4. Prepare \/ LoadPsk \/ UnloadPsk \/ ClearAll \/ CleanSa => UNCHANGED conn
    BY Zenon DEF Prepare, LoadPsk, UnloadPsk, ClearAll, CleanSa
  <2>5. Targeted
    BY <1>1
  <2> QED
    BY <1>1, <2>1, <2>2, <2>3, <2>4, Effects, Zenon
<1>2. IInv /\ [Next]_vars =>
        [\A n \in Name : conn[n] = "foreign" /\ conn'[n] # "foreign" =>
            cmd \in {"connection_unload", "down"}]_vars
  BY <1>1
<1> QED
  BY <1>2, SessionInvariance, PTL DEF Spec, ForeignSpared

\* The cleanup never takes a credential from under an SA of its connection.
THEOREM CredentialOutlivesSasHolds == Spec => CredentialOutlivesSas
<1>1. ASSUME IInv, [Next]_vars, NEW c \in Config, cmd = "quit", c \in psk, c \notin psk'
      PROVE  c \notin ownConn /\ (conn[NameOf[c]] = "none" => Down(NameOf[c]))
  <2> USE DEF IInv
  <2>1. TypeOKCharon /\ Targeted
    BY <1>1 DEF TypeOK
  <2>2. CASE UnloadPsk
    <3>1. at = "clean_psk"
      BY <1>1, <2>2, Zenon DEF UnloadPsk, Control, QuitOnly, Terminating
    <3>2. cfg \in Config /\ name = NameOf[cfg]
      BY <1>1, <3>1 DEF Targeted
    <3>3. c = cfg
      BY <1>1, <2>2, Zenon DEF UnloadPsk, RemoveNativeAppCredential, RemoveIpsecPsk, UnloadShared
    <3> QED
      BY <1>1, <3>1, <3>2, <3>3, Zenon DEF QuitInv
  <2>3. CASE ClearAll
    BY <1>1, <2>3, Zenon DEF ClearAll, Control, QuitOnly, Terminating
  <2>4. CASE LoadPsk
    BY <1>1, <2>4, Zenon DEF LoadPsk, Control, QuitOnly, Terminating
  <2>5. Prepare \/ SendLoad \/ Remove \/ CleanSa => UNCHANGED psk
    BY Zenon DEF Prepare, SendLoad, Remove, CleanSa
  <2> QED
    BY <1>1, <2>1, <2>2, <2>3, <2>4, <2>5, Effects, Zenon
<1>2. IInv /\ [Next]_vars =>
        [\A c \in Config : cmd = "quit" /\ c \in psk /\ c \notin psk' =>
            /\ c \notin ownConn
            /\ conn[NameOf[c]] = "none" => Down(NameOf[c])]_vars
  BY <1>1
<1> QED
  BY <1>2, SessionInvariance, PTL DEF Spec, CredentialOutlivesSas

\* The ledger gives a connection up only when every reqid recorded for it by
\* TerminateNativeAppTargetSas has left the kernel, in this attempt or before.
THEOREM ReleaseConfirmedHolds == Spec => ReleaseConfirmed
<1>1. ASSUME IInv, [Next]_vars, NEW c \in ownConn \ ownConn'
      PROVE  unconfirmed[c] = {}
  <2> USE DEF IInv
  <2>1. TypeOKCharon /\ Targeted
    BY <1>1 DEF TypeOK
  <2>2. CASE CleanSa
    BY <1>1, <2>2, Zenon DEF CleanSa, ReleaseInv
  <2>3. CASE Prepare
    BY <2>3, Zenon DEF Prepare, NameOwned, Target
  <2>4. SendLoad \/ LoadPsk \/ Remove \/ UnloadPsk \/ ClearAll => ownConn \subseteq ownConn'
    BY Zenon DEF SendLoad, SendConnection, LoadPsk, Remove, UnloadPsk, ClearAll
  <2> QED
    BY <1>1, <2>1, <2>2, <2>3, <2>4, Effects, Zenon
<1>2. IInv /\ [Next]_vars => [\A c \in ownConn \ ownConn' : unconfirmed[c] = {}]_vars
  BY <1>1
<1> QED
  BY <1>2, SessionInvariance, PTL DEF Spec, ReleaseConfirmed
=============================================================================
