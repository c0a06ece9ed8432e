----------------------- MODULE ConnectionThreads_proofs -----------------------
(***************************************************************************)
(* The packet path registries under interleaved Adds and Removes, for any  *)
(* connections, capacities and threads: proofs of TypeOK, FiltersOwned,    *)
(* OneSlotPerConnection and RulesMatchPeers, and, where no two threads     *)
(* work on one connection, of LoadedKeepsPaths and FreshLoadInstalls.      *)
(***************************************************************************)
EXTENDS ConnectionPaths_proofs

-----------------------------------------------------------------------------
(* The steps that leave the registries alone                               *)

\* A step of a thread that leaves the registries alone.
LEMMA QuietStep ==
    ASSUME BaseInv, NEW t \in Thread, NEW s \in Stage, NEW c \in CallRecord, Goto(t, s, c),
           s # "IDLE" => up /\ c.name \in Name, UNCHANGED <<paths, up, ghosts>>, CharonOK'
    PROVE  BaseInv' /\ Alone(t) /\ pc'[t] = s /\ call'[t] = c
<1>1. ThreadOK' /\ ActiveInv' /\ Alone(t) /\ pc'[t] = s /\ call'[t] = c
  BY ThreadMoves DEF BaseInv
<1> QED
  BY <1>1, BaseKept DEF BaseInv, paths, ghosts

LEMMA BeginEffect ==
    ASSUME BaseInv, NEW t \in Thread, NEW n \in Name, BeginAdd(t, n) \/ BeginRemove(t, n)
    PROVE  /\ BaseInv' /\ Alone(t) /\ up
           /\ pc[t] = "IDLE" /\ pc'[t] \in {"PROTECTED", "UNLOAD"} /\ call'[t] = Begun(n)
           /\ UNCHANGED <<paths, up, charon, ghosts>>
<1>1. PICK s \in {"PROTECTED", "UNLOAD"} :
         up /\ pc[t] = "IDLE" /\ Goto(t, s, Begun(n)) /\ UNCHANGED <<paths, up, charon, ghosts>>
  BY DEF BeginAdd, BeginRemove, Begun
<1>2. s \in Stage
  BY DEF Stage
<1>3. CharonOK'
  BY <1>1, BaseKept DEF BaseInv
<1>4. Begun(n) \in CallRecord /\ Begun(n).name = n
  BY IdleFields, Zenon
<1>5. s # "IDLE" => up /\ Begun(n).name \in Name
  BY <1>1, <1>4
<1>6. BaseInv' /\ Alone(t) /\ pc'[t] = s /\ call'[t] = Begun(n)
  BY <1>1, <1>2, <1>3, <1>4, <1>5, QuietStep
<1> QED
  BY <1>1, <1>6

LEMMA ReturnEffect ==
    ASSUME BaseInv, NEW t \in Thread, Return(t)
    PROVE  /\ BaseInv' /\ Alone(t) /\ pc'[t] = "IDLE" /\ call'[t] = Idle
           /\ UNCHANGED <<paths, up, charon, ghosts>>
<1>1. Goto(t, "IDLE", Idle) /\ UNCHANGED <<paths, up, charon, ghosts>>
  BY DEF Return
<1>2. "IDLE" \in Stage /\ Idle \in CallRecord
  BY DEF Stage, CallRecord, Idle
<1>3. CharonOK'
  BY <1>1, BaseKept DEF BaseInv
<1> QED
  BY <1>1, <1>2, <1>3, QuietStep

\* The load: charon holds the connection, or the call fails; without an answer
\* it may hold it or may come to hold it.
LoadDone(t, n) ==
    /\ pc'[t] = "ADDED" /\ call'[t] = call[t]
    /\ loaded' = loaded \cup {n} /\ UNCHANGED <<late, unsure>>

LoadFailed(t, n) ==
    /\ pc'[t] = Undo(call[t]) /\ call'[t].ok = FALSE
    /\ \/ UNCHANGED charon
       \/ /\ unsure' = unsure \cup {n}
          /\ loaded' \in {loaded, loaded \cup {n}}
          /\ late' \in {late, late \cup {<<"load", n>>}}

LEMMA LoadEffect ==
    ASSUME BaseInv, NEW t \in Thread, NEW n \in Name, n = call[t].name, Load(t)
    PROVE  /\ BaseInv' /\ Alone(t) /\ pc[t] = "LOAD" /\ UNCHANGED <<paths, up, ghosts>>
           /\ call'[t].name = n /\ call'[t].protected = call[t].protected /\ call'[t].plain = call[t].plain
           /\ LoadDone(t, n) \/ LoadFailed(t, n)
<1>1. /\ pc[t] = "LOAD" /\ UNCHANGED <<paths, up, ghosts>>
      /\ \/ /\ loaded' = loaded \cup {n}
            /\ Goto(t, "ADDED", call[t])
            /\ UNCHANGED <<late, unsure>>
         \/ /\ Goto(t, Undo(call[t]), CallOk(call[t], FALSE))
            /\ UNCHANGED charon
         \/ /\ Goto(t, Undo(call[t]), CallOk(call[t], FALSE))
            /\ unsure' = unsure \cup {n}
            /\ loaded' \in {loaded, loaded \cup {n}}
            /\ late' \in {late, late \cup {<<"load", n>>}}
  BY Zenon DEF Load, CallOk
<1>2. up /\ call[t] \in CallRecord
  BY <1>1 DEF BaseInv, ActiveInv, ThreadOK
<1> DEFINE c == CallOk(call[t], FALSE)
<1>3. /\ c \in CallRecord /\ c.name = n /\ c.ok = FALSE
      /\ c.protected = call[t].protected /\ c.plain = call[t].plain
  BY <1>2, CallTyped, OkFields, Zenon
<1>4. Undo(call[t]) \in Stage /\ "ADDED" \in Stage
  BY UndoStage DEF Stage
<1>5. CharonOK'
  <2>1. <<"load", n>> \in Request
    BY DEF Request
  <2> QED
    BY <1>1, <2>1, Zenon DEF BaseInv, CharonOK, charon
<1> HIDE DEF c
<1>6. CASE loaded' = loaded \cup {n} /\ Goto(t, "ADDED", call[t]) /\ UNCHANGED <<late, unsure>>
  <2>1. BaseInv' /\ Alone(t) /\ pc'[t] = "ADDED" /\ call'[t] = call[t]
    BY <1>1, <1>2, <1>4, <1>5, <1>6, QuietStep
  <2> QED
    BY <1>1, <1>6, <2>1 DEF LoadDone
<1>7. CASE /\ Goto(t, Undo(call[t]), c)
           /\ \/ UNCHANGED charon
              \/ /\ unsure' = unsure \cup {n}
                 /\ loaded' \in {loaded, loaded \cup {n}}
                 /\ late' \in {late, late \cup {<<"load", n>>}}
  <2>1. BaseInv' /\ Alone(t) /\ pc'[t] = Undo(call[t]) /\ call'[t] = c
    BY <1>1, <1>2, <1>3, <1>4, <1>5, <1>7, QuietStep
  <2>2. LoadFailed(t, n)
    BY <1>3, <1>7, <2>1 DEF LoadFailed
  <2> QED
    BY <1>1, <1>3, <2>1, <2>2
<1> QED
  BY <1>1, <1>6, <1>7, Zenon DEF c

\* The unload: charon is known not to hold the connection, or the call fails.
UnloadTried(n) ==
    /\ loaded' \in {loaded, loaded \ {n}}
    /\ late' \in {late, late \cup {<<"unload", n>>}}
    /\ \/ unsure' = unsure
       \/ unsure' = unsure \ {n} /\ <<"load", n>> \notin late /\ n \notin loaded'

LEMMA UnloadEffect ==
    ASSUME BaseInv, NEW t \in Thread, NEW n \in Name, n = call[t].name, Unload(t)
    PROVE  /\ BaseInv' /\ Alone(t) /\ pc[t] = "UNLOAD" /\ UNCHANGED <<paths, up, ghosts>>
           /\ call'[t].name = n /\ UnloadTried(n)
           /\ \/ pc'[t] = "DROP_PLAIN" /\ n \notin loaded'
              \/ pc'[t] = "REMOVED"
<1>1. /\ pc[t] = "UNLOAD" /\ UNCHANGED <<paths, up, ghosts>> /\ UnloadTried(n)
      /\ \/ Goto(t, "DROP_PLAIN", call[t]) /\ n \notin loaded'
         \/ Goto(t, "REMOVED", CallOk(call[t], FALSE))
  <2>1. CASE /\ loaded' = loaded \ {n} /\ n \in loaded /\ Unloaded(t)
             /\ unsure' = IF <<"load", n>> \in late THEN unsure ELSE unsure \ {n}
             /\ UNCHANGED late
    BY <2>1, Zenon DEF Unload, Unloaded, UnloadTried
  <2>2. CASE n \notin loaded /\ Unloaded(t) /\ UNCHANGED charon
    BY <2>2, Zenon DEF Unload, Unloaded, charon, UnloadTried
  <2>3. CASE /\ UnloadFailed(t)
             /\ \/ UNCHANGED charon
                \/ loaded' = loaded \ {n} /\ UNCHANGED <<late, unsure>>
                \/ late' = late \cup {<<"unload", n>>} /\ UNCHANGED <<loaded, unsure>>
    <3>1. Goto(t, "REMOVED", CallOk(call[t], FALSE))
      BY <2>3, Zenon DEF UnloadFailed, CallOk
    <3> QED
      BY <2>3, <3>1, Zenon DEF Unload, charon, UnloadTried
  <2> QED
    BY <2>1, <2>2, <2>3, Zenon DEF Unload
<1>2. up /\ call[t] \in CallRecord
  BY <1>1 DEF BaseInv, ActiveInv, ThreadOK
<1>3. CallOk(call[t], FALSE) \in CallRecord /\ CallOk(call[t], FALSE).name = n
  BY <1>2, CallTyped, OkFields, Zenon
<1>4. "DROP_PLAIN" \in Stage /\ "REMOVED" \in Stage
  BY DEF Stage
<1>5. CharonOK'
  <2>1. <<"unload", n>> \in Request
    BY DEF Request
  <2>2. loaded \in SUBSET Name /\ late \in SUBSET Request /\ unsure \in SUBSET Name
    BY DEF BaseInv, CharonOK
  <2>3. loaded' \in SUBSET Name
    BY <1>1, <2>2 DEF UnloadTried
  <2>4. late' \in SUBSET Request
    BY <1>1, <2>1, <2>2 DEF UnloadTried
  <2>5. unsure' \in SUBSET Name
    BY <1>1, <2>2 DEF UnloadTried
  <2> QED
    BY <2>3, <2>4, <2>5 DEF CharonOK
<1>6. CASE Goto(t, "DROP_PLAIN", call[t]) /\ n \notin loaded'
  BY <1>1, <1>2, <1>4, <1>5, <1>6, QuietStep
<1>7. CASE Goto(t, "REMOVED", CallOk(call[t], FALSE))
  <2> DEFINE c == CallOk(call[t], FALSE)
  <2>1. c \in CallRecord /\ c.name = n /\ Goto(t, "REMOVED", c)
    BY <1>3, <1>7, Zenon
  <2> HIDE DEF c
  <2>2. BaseInv' /\ Alone(t) /\ pc'[t] = "REMOVED" /\ call'[t] = c
    BY <1>1, <1>2, <1>4, <1>5, <2>1, QuietStep
  <2> QED
    BY <1>1, <2>1, <2>2
<1> QED
  BY <1>1, <1>6, <1>7, Zenon

-----------------------------------------------------------------------------
(* The context and charon                                                  *)

LEMMA InitializeBase ==
    ASSUME BaseInv, Initialize
    PROVE  BaseInv'
<1>1. ~up /\ drifted' = FALSE /\ UNCHANGED <<aPeers, pc, call, charon, leftover, halfway>>
  BY DEF Initialize
<1>2. PlainOK' /\ PlainInv' /\ up' \in BOOLEAN
  <2>1. CASE ManagePlain
    <3>1. InitPlainRules(up') /\ PlainOK
      BY <2>1 DEF Initialize, BaseInv
    <3>2. /\ PlainOK' /\ plainPeers' = {} /\ up' \in BOOLEAN
          /\ up' => nft' = Built({})
          /\ ~up' => ~bRuleTableOwned'
      BY <3>1, InitPlainStep
    <3> QED
      BY <2>1, <3>2, Zenon DEF PlainInv, RulesMatchPeers, Built
  <2>2. CASE ~ManagePlain
    <3>1. up' = TRUE /\ UNCHANGED plainVars
      BY <2>2 DEF Initialize
    <3> QED
      BY <2>2, <3>1 DEF BaseInv, PlainOK, PlainInv, RulesMatchPeers, plainVars
  <2> QED
    BY <2>1, <2>2
<1>3. \A t \in Thread : pc[t] = "IDLE"
  BY <1>1 DEF BaseInv, ActiveInv
<1>4. ActiveInv'
  BY <1>1, <1>3 DEF ActiveInv
<1> QED
  BY <1>1, <1>2, <1>4, BaseKept, Zenon DEF BaseInv, RestOK

LEMMA AbandonBase ==
    ASSUME BaseInv, Abandon, RegistryInv', PlainOK', plainPeers' = {}, ~bRuleTableOwned',
           ThreadOK', \A t \in Thread : pc'[t] = "IDLE"
    PROVE  BaseInv'
<1>1. /\ up' = FALSE /\ unsure' = Name /\ drifted' = FALSE /\ halfway' = {}
      /\ UNCHANGED <<loaded, late>>
  BY DEF Abandon
<1>2. PlainInv' /\ ActiveInv'
  BY <1>1 DEF PlainInv, RulesMatchPeers, ActiveInv
<1>3. CharonOK' /\ RestOK'
  BY <1>1, Zenon DEF BaseInv, CharonOK, RestOK
<1> QED
  BY <1>2, <1>3 DEF BaseInv

LEMMA IdleThreads ==
    ASSUME pc' = [t \in Thread |-> "IDLE"], call' = [t \in Thread |-> Idle]
    PROVE  ThreadOK' /\ \A t \in Thread : pc'[t] = "IDLE" /\ call'[t] = Idle
<1>1. "IDLE" \in Stage /\ Idle \in CallRecord
  BY DEF Stage, CallRecord, Idle
<1> QED
  BY <1>1 DEF ThreadOK

LEMMA GoneBase ==
    ASSUME BaseInv, Deinitialize \/ Crash
    PROVE  /\ BaseInv' /\ ~up' /\ unsure' = Name /\ UNCHANGED late
           /\ \A n \in Name : SlotsOf(n)' = {}
           /\ \A t \in Thread : pc'[t] = "IDLE"
<1>0. RegistryInv /\ PlainOK /\ ThreadOK
  BY DEF BaseInv
<1>1. Abandon /\ up' = FALSE /\ unsure' = Name /\ UNCHANGED late
  BY DEF Deinitialize, Crash, Abandon
<1>2. RegistryInv' /\ \A n \in Name : SlotsOf(n)' = {}
  <2>1. \/ DeinitProtectedPath
        \/ aPeers' = [i \in Slot |-> Forget(aPeers[i])]
    BY DEF Deinitialize, Crash
  <2> QED
    BY <1>0, <1>1, <2>1, AbandonRegistry
<1>3. PlainOK' /\ plainPeers' = {} /\ ~bRuleTableOwned'
  <2>1. CASE Deinitialize /\ ManagePlain
    BY <1>0, <2>1, DeinitPlainStep DEF Deinitialize
  <2>2. CASE Deinitialize /\ ~ManagePlain
    BY <2>2 DEF Deinitialize, BaseInv, PlainInv, PlainOK, plainVars
  <2>3. CASE Crash
    BY <1>0, <2>3, Zenon DEF Crash, PlainOK
  <2> QED
    BY <2>1, <2>2, <2>3
<1>4. ThreadOK' /\ \A t \in Thread : pc'[t] = "IDLE"
  <2>1. CASE Deinitialize
    BY <1>0, <2>1 DEF Deinitialize, ThreadOK
  <2>2. CASE Crash
    BY <2>2, IdleThreads DEF Crash
  <2> QED
    BY <2>1, <2>2
<1>5. BaseInv'
  BY <1>1, <1>2, <1>3, <1>4, AbandonBase
<1> QED
  BY <1>1, <1>2, <1>4, <1>5

LEMMA DaemonEffect ==
    ASSUME BaseInv, DaemonServesLate
    PROVE  /\ BaseInv' /\ UNCHANGED <<paths, up, pc, call, unsure, ghosts>>
           /\ late' \subseteq late
           /\ \A n \in loaded' \ loaded : <<"load", n>> \in late
<1>1. PICK r \in late :
         /\ late' = late \ {r}
         /\ loaded' = IF r[1] = "load" THEN loaded \cup {r[2]} ELSE loaded \ {r[2]}
         /\ UNCHANGED <<paths, up, pc, call, unsure, ghosts>>
  BY Zenon DEF DaemonServesLate
<1>2. loaded \in SUBSET Name /\ late \in SUBSET Request /\ unsure \in SUBSET Name
  BY DEF BaseInv, CharonOK
<1>3. r[2] \in Name /\ r = <<r[1], r[2]>>
  BY <1>1, <1>2 DEF Request
<1>4. CharonOK'
  BY <1>1, <1>2, <1>3 DEF CharonOK
<1>5. BaseInv'
  BY <1>1, <1>4, BaseKept DEF BaseInv, paths, ghosts
<1>6. \A n \in loaded' \ loaded : <<"load", n>> \in late
  BY <1>1, <1>3
<1> QED
  BY <1>1, <1>5, <1>6

LEMMA BaseInit == Init => BaseInv
<1> SUFFICES ASSUME Init PROVE BaseInv
  OBVIOUS
<1>1. RegistryInv
  BY DEF Init, InitProtectedPath, None, Filter, RegistryInv, SlotsOK, SlotInv, OwnedInv, Sound, Peer
<1>2. PlainOK /\ PlainInv
  BY Zenon DEF Init, NoTable, Kernel, PlainOK, PlainInv, RulesMatchPeers
<1>3. ThreadOK /\ ActiveInv
  BY DEF Init, ThreadOK, ActiveInv, Stage, CallRecord, Idle
<1>4. CharonOK /\ RestOK
  BY Zenon DEF Init, CharonOK, RestOK
<1> QED
  BY <1>1, <1>2, <1>3, <1>4 DEF BaseInv

LEMMA BaseNext == BaseInv /\ [Next]_vars => BaseInv'
<1> SUFFICES ASSUME BaseInv, [Next]_vars PROVE BaseInv'
  OBVIOUS
<1>1. CASE Initialize \/ Deinitialize \/ Crash \/ DaemonServesLate
  BY <1>1, InitializeBase, GoneBase, DaemonEffect
<1>2. ASSUME NEW t \in Thread, NEW n \in Name, BeginAdd(t, n) \/ BeginRemove(t, n)
      PROVE  BaseInv'
  BY <1>2, BeginEffect
<1>3. ASSUME NEW t \in Thread,
             \/ RegisterProtected(t) \/ RegisterPlain(t) \/ Load(t)
             \/ UndoPlain(t) \/ UndoProtected(t)
             \/ Unload(t) \/ DropPlain(t) \/ DropProtected(t)
      PROVE  BaseInv'
  <2>1. pc[t] # "IDLE"
    BY <1>3, Zenon DEF RegisterProtected, RegisterPlain, Load, UndoPlain, UndoProtected, Unload, DropPlain, DropProtected
  <2>2. PICK n \in Name : n = call[t].name
    BY <2>1 DEF BaseInv, ActiveInv
  <2> QED
    BY <1>3, <2>2, RegisterProtectedEffect, RegisterPlainEffect, LoadEffect, UndoPlainEffect,
       UndoProtectedEffect, UnloadEffect, DropPlainEffect, DropProtectedEffect, Zenon
<1>4. ASSUME NEW t \in Thread, Return(t)
      PROVE  BaseInv'
  BY <1>4, ReturnEffect
<1>5. CASE UNCHANGED vars
  BY <1>5, BaseKept DEF BaseInv, vars, paths, ghosts
<1> QED
  BY <1>1, <1>2, <1>3, <1>4, <1>5 DEF Next

\* BaseInv holds in every state, whatever the threads do.
THEOREM Invariance == Spec => []BaseInv
<1>1. Init => BaseInv
  BY BaseInit
<1>2. BaseInv /\ [Next]_vars => BaseInv'
  BY BaseNext
<1> QED
  BY <1>1, <1>2, PTL DEF Spec

\* The state keeps the shape the C structures give it, and a context that is
\* gone has no registered peer and owns nothing (TypeOK).
THEOREM TypeCorrect == Spec => []TypeOK
<1>1. BaseInv => TypeOK
  BY BaseType
<1> QED
  BY <1>1, Invariance, PTL

\* A TC filter in the kernel is recorded by its slot, whatever acknowledgement
\* was lost, unless a context that went away left it there (FiltersOwned).
THEOREM FiltersStayOwned == Spec => []FiltersOwned
<1>1. BaseInv => FiltersOwned
  <2> SUFFICES ASSUME BaseInv, NEW i \in Slot, NEW f \in {aPeers[i].udp, aPeers[i].raw}
               PROVE  /\ f.ker /\ ~f.own => i \in leftover
                      /\ f.own => aPeers[i].name # Free
    BY DEF FiltersOwned
  <2>1. Sound(aPeers[i], i \in leftover)
    BY DEF BaseInv, RegistryInv, OwnedInv
  <2> QED
    BY <2>1, Zenon DEF Sound
<1> QED
  BY <1>1, Invariance, PTL

\* However many threads add and remove a connection at once, it never occupies
\* two slots of the registry (OneSlotPerConnection).
THEOREM OneSlot == Spec => []OneSlotPerConnection
<1>1. BaseInv => OneSlotPerConnection
  <2> SUFFICES ASSUME BaseInv, NEW n \in Name
               PROVE  Cardinality(SlotsOf(n)) <= 1
    BY DEF OneSlotPerConnection
  <2>1. n # Free /\ SlotInv
    BY RegistryAssumption DEF BaseInv, RegistryInv
  <2>2. CASE SlotsOf(n) = {}
    BY <2>2, FS_EmptySet
  <2>3. ASSUME NEW i \in SlotsOf(n)
        PROVE  Cardinality(SlotsOf(n)) <= 1
    <3>1. SlotsOf(n) = {i}
      BY <2>1 DEF SlotInv, SlotsOf
    <3>2. Cardinality({i}) = 1
      BY FS_Singleton, Zenon
    <3> QED
      BY <3>1, <3>2
  <2> QED
    BY <2>2, <2>3
<1> QED
  BY <1>1, Invariance, PTL

\* Unless a rule operation failed since the table was last built, the kernel's
\* rules are those of the registered peers (RulesMatchPeers).
THEOREM RulesFollowPeers == Spec => []RulesMatchPeers
<1>1. BaseInv => RulesMatchPeers
  BY DEF BaseInv, PlainInv
<1> QED
  BY <1>1, Invariance, PTL

-----------------------------------------------------------------------------
(* What needs the callers' discipline                                      *)

\* No two threads work on one connection at a time.  connection_manager.c holds no
\* lock across the stages of a call: this is left to the application.
Exclusive == \A t, u \in Thread : call[t].name = call[u].name /\ call[t].name # Free => t = u

\* charon holds connection n, and this context was told so.
Sure(n) == n \in loaded \ unsure

\* Connection n has its entries in the registries that are managed.
PathsOf(n) == (ManageProtected => SlotsOf(n) # {}) /\ (ManagePlain => n \in plainPeers)

\* A connection: a load that is still to be carried out is not counted on, one
\* that charon holds has its paths, and a slot that no failed removal kept has
\* both filters.
NameInv(n) ==
    /\ <<"load", n>> \in late => n \in unsure
    /\ Sure(n) => up /\ PathsOf(n)
    /\ ManageProtected /\ n \notin halfway /\ SlotsOf(n) # {} => Installed(n)

\* A call on connection n: the paths precede the load, and paths are taken away
\* only from a connection charon is not known to hold.
StageOf(t, n) ==
    /\ pc[t] \in {"PROTECTED", "PLAIN"} => ~call[t].plain
    /\ pc[t] = "PROTECTED" => ~call[t].protected
    /\ pc[t] \in {"PLAIN", "LOAD"} \/ (pc[t] = "ADDED" /\ call[t].ok) => (ManageProtected => SlotsOf(n) # {})
    /\ pc[t] = "LOAD" /\ ManagePlain => n \in plainPeers
    /\ pc[t] \in {"PLAIN", "LOAD"} /\ (call[t].plain \/ call[t].protected) => ~Sure(n)
    /\ pc[t] \in {"UNDO_PLAIN", "UNDO_PROTECTED", "DROP_PLAIN", "DROP_PROTECTED"} => ~Sure(n)
    /\ pc[t] \in {"UNDO_PLAIN", "UNDO_PROTECTED"} => ~call[t].ok

Known ==
    /\ \A n \in Name : NameInv(n)
    /\ \A t \in Thread : \A n \in Name : n = call[t].name => StageOf(t, n)

\* A step that does not concern connection m.
NameSame(m) ==
    /\ Kept(m) /\ up' = up
    /\ m \in plainPeers' <=> m \in plainPeers
    /\ m \in loaded' <=> m \in loaded
    /\ m \in unsure' <=> m \in unsure
    /\ m \in halfway' <=> m \in halfway
    /\ <<"load", m>> \in late' => <<"load", m>> \in late

LEMMA FrameName ==
    ASSUME NEW m \in Name, NameSame(m), NameInv(m)
    PROVE  NameInv(m)'
<1>1. Installed(m) => Installed(m)'
  BY DEF NameSame, Kept, Installed
<1>2. SlotsOf(m)' = SlotsOf(m) /\ (Sure(m)' <=> Sure(m)) /\ (PathsOf(m)' <=> PathsOf(m))
  BY DEF NameSame, Kept, Sure, PathsOf
<1> QED
  BY <1>1, <1>2 DEF NameSame, NameInv

LEMMA FrameStage ==
    ASSUME NEW m \in Name, NameSame(m), NEW u \in Thread, pc'[u] = pc[u], call'[u] = call[u], StageOf(u, m)
    PROVE  StageOf(u, m)'
<1>1. SlotsOf(m)' = SlotsOf(m) /\ (Sure(m)' <=> Sure(m)) /\ (m \in plainPeers' <=> m \in plainPeers)
  BY DEF NameSame, Kept, Sure
<1> QED
  BY <1>1 DEF StageOf

\* A step of thread t on connection n keeps Known when it does for t and n.
LEMMA OwnStep ==
    ASSUME Known, Exclusive, NEW t \in Thread, NEW n \in Name, n = call[t].name, Alone(t),
           call'[t].name = n, \A m \in Name \ {n} : NameSame(m), NameInv(n)', StageOf(t, n)'
    PROVE  Known'
<1>1. ASSUME NEW m \in Name
      PROVE  NameInv(m)'
  BY FrameName DEF Known
<1>2. ASSUME NEW u \in Thread, NEW m \in Name, m = call'[u].name
      PROVE  StageOf(u, m)'
  <2>1. CASE u = t
    BY <1>2, <2>1
  <2>2. CASE u # t
    <3>1. pc'[u] = pc[u] /\ call'[u] = call[u] /\ m = call[u].name /\ StageOf(u, m)
      BY <1>2, <2>2 DEF Alone, Known
    <3>2. m # n
      BY <2>2, <3>1, RegistryAssumption DEF Exclusive
    <3> QED
      BY <3>1, <3>2, FrameStage
  <2> QED
    BY <2>1, <2>2
<1> QED
  BY <1>1, <1>2 DEF Known

LEMMA RegisterProtectedKnown ==
    ASSUME BaseInv, Known, Exclusive, NEW t \in Thread, NEW n \in Name, n = call[t].name, RegisterProtected(t)
    PROVE  Known'
<1>0. NameInv(n) /\ StageOf(t, n)
  BY DEF Known
<1>1. PICK ok, added \in BOOLEAN : ProtectedRegistered(t, n, ok, added)
  BY RegisterProtectedEffect
<1>2. UNCHANGED <<plainPeers, loaded, late, unsure, up>>
  BY <1>1 DEF ProtectedRegistered, plainVars, charon
<1>3. Alone(t) /\ call'[t].name = n /\ \A m \in Name \ {n} : Kept(m)
  BY <1>1 DEF ProtectedRegistered
<1>4. /\ pc[t] = "PROTECTED" /\ pc'[t] = (IF ok THEN "PLAIN" ELSE Undo(call'[t]))
      /\ call'[t].protected = added /\ call'[t].plain = call[t].plain /\ call'[t].ok = ok
  BY <1>1 DEF ProtectedRegistered
<1>5. /\ added => ManageProtected /\ SlotsOf(n) = {}
      /\ SlotsOf(n) # {} => UNCHANGED aPeers
      /\ ManageProtected /\ ok => SlotsOf(n)' # {}
  BY <1>1 DEF ProtectedRegistered
<1>6. halfway' = (IF added /\ ~ok THEN halfway \cup {n} ELSE halfway)
  BY <1>1 DEF ProtectedRegistered
<1>7. /\ added /\ ok => Installed(n)'
      /\ UNCHANGED aPeers \/ added \/ SlotsOf(n)' = {}
  BY <1>1 DEF ProtectedRegistered
<1>8. UNCHANGED aPeers => SlotsOf(n)' = SlotsOf(n) /\ (Installed(n)' <=> Installed(n))
  BY DEF SlotsOf, Installed
<1>9. Sure(n)' <=> Sure(n)
  BY <1>2 DEF Sure
<1>10. \A m \in Name \ {n} : NameSame(m)
  BY <1>2, <1>3, <1>6 DEF NameSame
<1>11. NameInv(n)'
  <2>1. Sure(n) => up /\ PathsOf(n) /\ (ManageProtected => SlotsOf(n)' # {})
    BY <1>0, <1>5, <1>8 DEF NameInv, PathsOf
  <2>2. Sure(n)' => up' /\ PathsOf(n)'
    BY <1>2, <1>9, <2>1 DEF PathsOf
  <2>3. ManageProtected /\ n \notin halfway' /\ SlotsOf(n)' # {} => Installed(n)'
    <3>1. CASE added
      BY <1>6, <1>7, <3>1
    <3>2. CASE ~added
      BY <1>0, <1>6, <1>7, <1>8, <3>2 DEF NameInv
    <3> QED
      BY <3>1, <3>2
  <2> QED
    BY <1>0, <1>2, <2>2, <2>3 DEF NameInv
<1>12. StageOf(t, n)'
  <2>1. ~call'[t].plain /\ (added => ~Sure(n)')
    BY <1>0, <1>4, <1>5, <1>9 DEF StageOf, NameInv, PathsOf
  <2>2. CASE ok
    BY <1>4, <1>5, <2>1, <2>2 DEF StageOf
  <2>3. CASE ~ok
    <3>1. /\ pc'[t] \in {"UNDO_PROTECTED", "ADDED"} /\ ~call'[t].ok
          /\ pc'[t] = "UNDO_PROTECTED" => added
      BY <1>4, <2>1, <2>3, UndoStage
    <3> QED
      BY <2>1, <3>1 DEF StageOf
  <2> QED
    BY <2>2, <2>3
<1> QED
  BY <1>3, <1>10, <1>11, <1>12, OwnStep

LEMMA SamePaths ==
    ASSUME UNCHANGED aPeers, NEW n \in Name
    PROVE  Kept(n) /\ SlotsOf(n)' = SlotsOf(n) /\ (Installed(n)' <=> Installed(n))
BY DEF Kept, SlotsOf, Installed

LEMMA RegisterPlainKnown ==
    ASSUME BaseInv, Known, Exclusive, NEW t \in Thread, NEW n \in Name, n = call[t].name, RegisterPlain(t)
    PROVE  Known'
<1>0. NameInv(n) /\ StageOf(t, n)
  BY DEF Known
<1>1. PICK ok, added \in BOOLEAN : PlainRegistered(t, n, ok, added)
  BY RegisterPlainEffect
<1>2. UNCHANGED <<aPeers, loaded, late, unsure, up, halfway>>
  BY <1>1 DEF PlainRegistered, charon
<1>3. /\ Alone(t) /\ call'[t].name = n
      /\ plainPeers' = (IF added THEN plainPeers \cup {n} ELSE plainPeers)
  BY <1>1 DEF PlainRegistered
<1>4. /\ pc[t] = "PLAIN" /\ pc'[t] = (IF ok THEN "LOAD" ELSE Undo(call'[t]))
      /\ call'[t].protected = call[t].protected /\ call'[t].plain = added /\ call'[t].ok = ok
  BY <1>1 DEF PlainRegistered
<1>5. /\ ManagePlain /\ ok => n \in plainPeers'
      /\ added => ManagePlain /\ n \notin plainPeers
  BY <1>1 DEF PlainRegistered
<1>6. Sure(n)' <=> Sure(n)
  BY <1>2 DEF Sure
<1>7. \A m \in Name : Kept(m) /\ SlotsOf(m)' = SlotsOf(m) /\ (Installed(m)' <=> Installed(m))
  BY <1>2, SamePaths
<1>8. \A m \in Name \ {n} : NameSame(m)
  BY <1>2, <1>3, <1>7 DEF NameSame
<1>9. NameInv(n)'
  <2>1. PathsOf(n) => PathsOf(n)'
    BY <1>3, <1>7 DEF PathsOf
  <2> QED
    BY <1>0, <1>2, <1>6, <1>7, <2>1 DEF NameInv
<1>10. StageOf(t, n)'
  <2>1. call'[t].plain \/ call'[t].protected => ~Sure(n)'
    BY <1>0, <1>4, <1>5, <1>6 DEF StageOf, NameInv, PathsOf
  <2>2. CASE ok
    <3>1. ManageProtected => SlotsOf(n)' # {}
      BY <1>0, <1>4, <1>7 DEF StageOf
    <3> QED
      BY <1>4, <1>5, <2>1, <2>2, <3>1 DEF StageOf
  <2>3. CASE ~ok
    <3>1. /\ pc'[t] \in {"UNDO_PLAIN", "UNDO_PROTECTED", "ADDED"} /\ ~call'[t].ok
          /\ pc'[t] # "ADDED" => call'[t].plain \/ call'[t].protected
      BY <1>4, <2>3, UndoStage
    <3> QED
      BY <2>1, <3>1 DEF StageOf
  <2> QED
    BY <2>2, <2>3
<1> QED
  BY <1>3, <1>8, <1>9, <1>10, OwnStep

LEMMA LoadKnown ==
    ASSUME BaseInv, Known, Exclusive, NEW t \in Thread, NEW n \in Name, n = call[t].name, Load(t)
    PROVE  Known'
<1>0. NameInv(n) /\ StageOf(t, n)
  BY DEF Known
<1>1. /\ Alone(t) /\ pc[t] = "LOAD" /\ call'[t].name = n
      /\ LoadDone(t, n) \/ LoadFailed(t, n)
  BY LoadEffect
<1>2. up /\ UNCHANGED <<aPeers, plainPeers, up, halfway>>
  BY LoadEffect, <1>1 DEF BaseInv, ActiveInv, paths, plainVars, ghosts
<1>3. \A m \in Name : Kept(m) /\ SlotsOf(m)' = SlotsOf(m) /\ (Installed(m)' <=> Installed(m))
  BY <1>2, SamePaths
<1>4. PathsOf(n) /\ PathsOf(n)'
  <2>1. (ManageProtected => SlotsOf(n) # {}) /\ (ManagePlain => n \in plainPeers)
    BY <1>0, <1>1 DEF StageOf
  <2> QED
    BY <1>2, <1>3, <2>1 DEF PathsOf
<1>5. CASE LoadDone(t, n)
  <2>1. loaded' = loaded \cup {n} /\ UNCHANGED <<late, unsure>> /\ pc'[t] = "ADDED"
    BY <1>5 DEF LoadDone
  <2>2. \A m \in Name \ {n} : NameSame(m)
    BY <1>2, <1>3, <2>1 DEF NameSame
  <2>3. NameInv(n)'
    BY <1>0, <1>2, <1>3, <1>4, <2>1 DEF NameInv
  <2>4. StageOf(t, n)'
    BY <1>4, <2>1 DEF StageOf, PathsOf
  <2> QED
    BY <1>1, <2>2, <2>3, <2>4, OwnStep
<1>6. CASE LoadFailed(t, n)
  <2>1. ASSUME NEW m \in Name \ {n} PROVE NameSame(m)
    <3>1. <<"load", m>> # <<"load", n>>
      OBVIOUS
    <3>2. /\ m \in loaded' <=> m \in loaded
          /\ m \in unsure' <=> m \in unsure
          /\ <<"load", m>> \in late' => <<"load", m>> \in late
      BY <1>6, <3>1 DEF LoadFailed, charon
    <3> QED
      BY <1>2, <1>3, <3>2 DEF NameSame
  <2>2. /\ Sure(n)' => Sure(n)
        /\ <<"load", n>> \in late' => n \in unsure'
    BY <1>0, <1>6 DEF LoadFailed, Sure, charon, NameInv
  <2>3. NameInv(n)'
    BY <1>0, <1>2, <1>3, <1>4, <2>2 DEF NameInv
  <2>4. /\ pc'[t] \in {"UNDO_PLAIN", "UNDO_PROTECTED", "ADDED"} /\ ~call'[t].ok
        /\ pc'[t] # "ADDED" => call[t].plain \/ call[t].protected
    BY <1>6, UndoStage DEF LoadFailed
  <2>5. pc'[t] # "ADDED" => ~Sure(n)'
    BY <1>0, <1>1, <2>2, <2>4 DEF StageOf
  <2>6. StageOf(t, n)'
    BY <2>4, <2>5 DEF StageOf
  <2> QED
    BY <1>1, <2>1, <2>3, <2>6, OwnStep
<1> QED
  BY <1>1, <1>5, <1>6

LEMMA UnloadKnown ==
    ASSUME BaseInv, Known, Exclusive, NEW t \in Thread, NEW n \in Name, n = call[t].name, Unload(t)
    PROVE  Known'
<1>0. NameInv(n)
  BY DEF Known
<1>1. /\ Alone(t) /\ call'[t].name = n /\ UnloadTried(n)
      /\ \/ pc'[t] = "DROP_PLAIN" /\ n \notin loaded'
         \/ pc'[t] = "REMOVED"
  BY UnloadEffect
<1>2. UNCHANGED <<aPeers, plainPeers, up, halfway>>
  BY UnloadEffect DEF paths, plainVars, ghosts
<1>3. \A m \in Name : Kept(m) /\ SlotsOf(m)' = SlotsOf(m) /\ (Installed(m)' <=> Installed(m))
  BY <1>2, SamePaths
<1>4. \A m \in Name : <<"load", m>> \in late' => <<"load", m>> \in late
  BY <1>1 DEF UnloadTried
<1>5. ASSUME NEW m \in Name \ {n} PROVE NameSame(m)
  <2>1. (m \in loaded' <=> m \in loaded) /\ (m \in unsure' <=> m \in unsure)
    BY <1>1 DEF UnloadTried
  <2> QED
    BY <1>2, <1>3, <1>4, <2>1 DEF NameSame
<1>6. (Sure(n)' => Sure(n)) /\ (<<"load", n>> \in late' => n \in unsure')
  BY <1>0, <1>1, <1>4 DEF UnloadTried, Sure, NameInv
<1>7. NameInv(n)'
  <2>1. PathsOf(n)' <=> PathsOf(n)
    BY <1>2, <1>3 DEF PathsOf
  <2> QED
    BY <1>0, <1>2, <1>3, <1>6, <2>1 DEF NameInv
<1>8. StageOf(t, n)'
  BY <1>1 DEF StageOf, Sure
<1> QED
  BY <1>1, <1>5, <1>7, <1>8, OwnStep

\* The stages that take paths away.
LEMMA PlainGoneKnown ==
    ASSUME BaseInv, Known, Exclusive, NEW t \in Thread, NEW n \in Name, n = call[t].name,
           UndoPlain(t) \/ DropPlain(t)
    PROVE  Known'
<1>0. NameInv(n) /\ StageOf(t, n)
  BY DEF Known
<1>1. /\ Alone(t) /\ call'[t].name = n /\ plainPeers' = plainPeers \ {n}
      /\ UNCHANGED <<aPeers, up, charon, halfway>>
      /\ \/ pc[t] = "DROP_PLAIN" /\ pc'[t] = "DROP_PROTECTED"
         \/ /\ pc[t] = "UNDO_PLAIN" /\ pc'[t] \in {"UNDO_PROTECTED", "ADDED"}
            /\ call'[t] = call[t]
  BY UndoPlainEffect, DropPlainEffect
<1>2. UNCHANGED <<aPeers, loaded, late, unsure, up, halfway>>
  BY <1>1 DEF charon
<1>3. ~Sure(n) /\ ~Sure(n)'
  BY <1>0, <1>1, <1>2 DEF StageOf, Sure
<1>4. \A m \in Name : Kept(m) /\ SlotsOf(m)' = SlotsOf(m) /\ (Installed(m)' <=> Installed(m))
  BY <1>2, SamePaths
<1>5. \A m \in Name \ {n} : NameSame(m)
  BY <1>1, <1>2, <1>4 DEF NameSame
<1>6. NameInv(n)'
  BY <1>0, <1>2, <1>3, <1>4 DEF NameInv
<1>7. StageOf(t, n)'
  BY <1>0, <1>1, <1>3 DEF StageOf
<1> QED
  BY <1>1, <1>5, <1>6, <1>7, OwnStep

LEMMA ProtectedGoneKnown ==
    ASSUME BaseInv, Known, Exclusive, NEW t \in Thread, NEW n \in Name, n = call[t].name,
           UndoProtected(t) \/ DropProtected(t)
    PROVE  Known'
<1>0. NameInv(n) /\ StageOf(t, n)
  BY DEF Known
<1>1. /\ Alone(t) /\ call'[t].name = n /\ \A m \in Name \ {n} : Kept(m)
      /\ UNCHANGED <<plainVars, up, charon>>
      /\ \E ok \in BOOLEAN : halfway' = Halved(n, ok) /\ (ManageProtected /\ ok => SlotsOf(n)' = {})
      /\ \/ pc[t] = "DROP_PROTECTED" /\ pc'[t] = "REMOVED"
         \/ pc[t] = "UNDO_PROTECTED" /\ pc'[t] = "ADDED" /\ call'[t] = call[t]
  <2>1. CASE UndoProtected(t)
    BY <2>1, UndoProtectedEffect
  <2>2. CASE DropProtected(t)
    BY <2>2, DropProtectedEffect
  <2> QED
    BY <2>1, <2>2
<1>2. UNCHANGED <<plainPeers, loaded, late, unsure, up>>
  BY <1>1 DEF plainVars, charon
<1>3. ~Sure(n) /\ ~Sure(n)'
  BY <1>0, <1>1, <1>2 DEF StageOf, Sure
<1>4. PICK ok \in BOOLEAN : halfway' = Halved(n, ok) /\ (ManageProtected /\ ok => SlotsOf(n)' = {})
  BY <1>1
<1>5. \A m \in Name \ {n} : m \in halfway' <=> m \in halfway
  BY <1>4 DEF Halved
<1>6. \A m \in Name \ {n} : NameSame(m)
  BY <1>1, <1>2, <1>5 DEF NameSame
<1>7. ManageProtected /\ n \notin halfway' => SlotsOf(n)' = {}
  BY <1>4 DEF Halved
<1>8. NameInv(n)'
  BY <1>0, <1>2, <1>3, <1>7 DEF NameInv
<1>9. StageOf(t, n)'
  BY <1>0, <1>1, <1>3 DEF StageOf
<1> QED
  BY <1>1, <1>6, <1>8, <1>9, OwnStep

\* The steps that leave the connections alone.
LEMMA CallerKnown ==
    ASSUME BaseInv, Known, NEW t \in Thread,
           (\E n \in Name : BeginAdd(t, n) \/ BeginRemove(t, n)) \/ Return(t)
    PROVE  Known'
<1>1. /\ Alone(t) /\ UNCHANGED <<paths, up, charon, ghosts>>
      /\ \/ pc'[t] = "IDLE"
         \/ \E n \in Name : pc'[t] \in {"PROTECTED", "UNLOAD"} /\ call'[t] = Begun(n)
  BY BeginEffect, ReturnEffect
<1>2. UNCHANGED <<aPeers, plainPeers, loaded, late, unsure, up, halfway>>
  BY <1>1 DEF paths, plainVars, charon, ghosts
<1>3. \A m \in Name : NameSame(m)
  BY <1>2, SamePaths DEF NameSame
<1>4. \A m \in Name : NameInv(m)'
  BY <1>3, FrameName DEF Known
<1>5. ASSUME NEW u \in Thread, NEW m \in Name, m = call'[u].name
      PROVE  StageOf(u, m)'
  <2>1. CASE u # t
    BY <1>1, <1>3, <1>5, <2>1, FrameStage DEF Alone, Known
  <2>2. CASE u = t /\ pc'[t] = "IDLE"
    BY <2>2 DEF StageOf
  <2>3. CASE u = t /\ \E n \in Name : pc'[t] \in {"PROTECTED", "UNLOAD"} /\ call'[t] = Begun(n)
    <3>1. pc'[t] \in {"PROTECTED", "UNLOAD"} /\ call'[t].plain = FALSE /\ call'[t].protected = FALSE
      BY <2>3, IdleFields, Zenon
    <3> QED
      BY <2>3, <3>1 DEF StageOf
  <2> QED
    BY <1>1, <2>1, <2>2, <2>3
<1> QED
  BY <1>4, <1>5 DEF Known

LEMMA ContextKnown ==
    ASSUME BaseInv, Known, Initialize \/ Deinitialize \/ Crash
    PROVE  Known'
<1>1. CASE Initialize
  <2>1. ~up /\ UNCHANGED <<aPeers, pc, call, loaded, late, unsure, halfway>>
    BY <1>1 DEF Initialize, charon
  <2>2. \A t \in Thread : pc'[t] = "IDLE"
    BY <2>1 DEF BaseInv, ActiveInv
  <2>3. ASSUME NEW m \in Name
        PROVE  NameInv(m)'
    <3>1. NameInv(m) /\ ~Sure(m) /\ ~Sure(m)'
      BY <2>1 DEF Known, NameInv, Sure
    <3>2. SlotsOf(m)' = SlotsOf(m) /\ (Installed(m)' <=> Installed(m))
      BY <2>1, SamePaths
    <3> QED
      BY <2>1, <3>1, <3>2 DEF NameInv
  <2> QED
    BY <2>2, <2>3 DEF Known, StageOf
<1>2. CASE Deinitialize \/ Crash
  <2>1. /\ unsure' = Name /\ \A n \in Name : SlotsOf(n)' = {}
        /\ \A t \in Thread : pc'[t] = "IDLE"
    BY <1>2, GoneBase
  <2>2. \A n \in Name : NameInv(n)'
    BY <2>1 DEF NameInv, Sure
  <2> QED
    BY <2>1, <2>2 DEF Known, StageOf
<1> QED
  BY <1>1, <1>2

\* charon carries out a load that nobody waits for: no connection becomes sure.
LEMMA DaemonKnown ==
    ASSUME BaseInv, Known, DaemonServesLate
    PROVE  Known'
<1>1. /\ UNCHANGED <<paths, up, pc, call, unsure, ghosts>> /\ late' \subseteq late
      /\ \A n \in loaded' \ loaded : <<"load", n>> \in late
  BY DaemonEffect
<1>2. UNCHANGED <<aPeers, plainPeers, up, pc, call, unsure, halfway>>
  BY <1>1 DEF paths, plainVars, ghosts
<1>3. ASSUME NEW m \in Name
      PROVE  /\ NameInv(m)' /\ (Sure(m)' => Sure(m)) /\ SlotsOf(m)' = SlotsOf(m)
  <2>1. NameInv(m) /\ SlotsOf(m)' = SlotsOf(m) /\ (Installed(m)' <=> Installed(m))
    BY <1>2, SamePaths DEF Known
  <2>2. Sure(m)' => Sure(m)
    BY <1>1, <1>2, <2>1 DEF Sure, NameInv
  <2>3. PathsOf(m)' <=> PathsOf(m)
    BY <1>2, <2>1 DEF PathsOf
  <2> QED
    BY <1>1, <1>2, <2>1, <2>2, <2>3 DEF NameInv
<1>4. ASSUME NEW u \in Thread, NEW m \in Name, m = call'[u].name
      PROVE  StageOf(u, m)'
  <2>1. StageOf(u, m)
    BY <1>2, <1>4 DEF Known
  <2> QED
    BY <1>2, <1>3, <2>1 DEF StageOf
<1> QED
  BY <1>3, <1>4 DEF Known

LEMMA KnownInit == Init => Known
<1> SUFFICES ASSUME Init PROVE Known
  OBVIOUS
<1>1. \A n \in Name : SlotsOf(n) = {}
  BY RegistryAssumption DEF Init, InitProtectedPath, SlotsOf
<1>2. \A n \in Name : NameInv(n)
  BY <1>1 DEF Init, NameInv, Sure
<1>3. \A t \in Thread : pc[t] = "IDLE"
  BY DEF Init
<1> QED
  BY <1>2, <1>3 DEF Known, StageOf

LEMMA KnownNext == BaseInv /\ Known /\ Exclusive /\ [Next]_vars => Known'
<1> SUFFICES ASSUME BaseInv, Known, Exclusive, [Next]_vars PROVE Known'
  OBVIOUS
<1>1. CASE Initialize \/ Deinitialize \/ Crash \/ DaemonServesLate
  BY <1>1, ContextKnown, DaemonKnown
<1>2. ASSUME NEW t \in Thread, (\E n \in Name : BeginAdd(t, n) \/ BeginRemove(t, n)) \/ Return(t)
      PROVE  Known'
  BY <1>2, CallerKnown
<1>3. ASSUME NEW t \in Thread,
             \/ RegisterProtected(t) \/ RegisterPlain(t) \/ Load(t)
             \/ UndoPlain(t) \/ UndoProtected(t)
             \/ Unload(t) \/ DropPlain(t) \/ DropProtected(t)
      PROVE  Known'
  <2>1. pc[t] # "IDLE"
    BY <1>3, Zenon DEF RegisterProtected, RegisterPlain, Load, UndoPlain, UndoProtected, Unload, DropPlain, DropProtected
  <2>2. PICK n \in Name : n = call[t].name
    BY <2>1 DEF BaseInv, ActiveInv
  <2> QED
    BY <1>3, <2>2, RegisterProtectedKnown, RegisterPlainKnown, LoadKnown, UnloadKnown,
       PlainGoneKnown, ProtectedGoneKnown, Zenon
<1>4. CASE UNCHANGED vars
  <2>1. UNCHANGED <<aPeers, plainPeers, loaded, late, unsure, up, pc, call, halfway>>
    BY <1>4 DEF vars, paths, plainVars, charon, ghosts
  <2>2. \A m \in Name : NameSame(m)
    BY <2>1, SamePaths DEF NameSame
  <2> QED
    BY <2>1, <2>2, FrameName, FrameStage DEF Known
<1> QED
  BY <1>1, <1>2, <1>3, <1>4 DEF Next

\* Known holds in every state as long as no two threads work on one connection.
THEOREM Discipline == Spec /\ []Exclusive => []Known
<1>1. Init => Known
  BY KnownInit
<1>2. BaseInv /\ Known /\ Exclusive /\ [Next]_vars => Known'
  BY KnownNext
<1> QED
  BY <1>1, <1>2, Invariance, PTL DEF Spec

LEMMA KnownKeepsPaths == BaseInv /\ Known => LoadedKeepsPaths
<1> SUFFICES ASSUME BaseInv, Known, NEW n \in loaded \ unsure
             PROVE  (ManageProtected => SlotsOf(n) # {}) /\ (ManagePlain => n \in plainPeers)
  BY DEF LoadedKeepsPaths
<1>0. n \in Name /\ Sure(n)
  BY DEF BaseInv, CharonOK, Sure
<1>1. NameInv(n)
  BY <1>0 DEF Known
<1> QED
  BY <1>0, <1>1 DEF NameInv, PathsOf

LEMMA KnownInstalls == BaseInv /\ Known => FreshLoadInstalls
<1> SUFFICES ASSUME BaseInv, Known, NEW t \in Thread,
                    pc[t] = "ADDED", call[t].ok, ManageProtected, call[t].name \notin halfway
             PROVE  Installed(call[t].name)
  BY DEF FreshLoadInstalls
<1>1. PICK n \in Name : n = call[t].name
  BY DEF BaseInv, ActiveInv
<1>2. StageOf(t, n) /\ NameInv(n)
  BY <1>1 DEF Known
<1>3. SlotsOf(n) # {}
  BY <1>2 DEF StageOf
<1> QED
  BY <1>1, <1>2, <1>3 DEF NameInv

\* While no two threads work on one connection, a connection charon is known to
\* hold keeps its registry entries, through failed calls, lost answers, late loads
\* and restarts of the library (LoadedKeepsPaths).
THEOREM PathsOutliveLoad == Spec /\ []Exclusive => []LoadedKeepsPaths
BY Discipline, Invariance, KnownKeepsPaths, PTL

\* While no two threads work on one connection, an Add that returns OK has both
\* filters in the kernel, unless the slot outlived a failed removal
\* (FreshLoadInstalls).
THEOREM AddInstallsFilters == Spec /\ []Exclusive => []FreshLoadInstalls
BY Discipline, Invariance, KnownInstalls, PTL

\* A program that calls the library from one thread keeps the discipline: both
\* properties hold of it without a hypothesis.
THEOREM OneCaller ==
    ASSUME \A t, u \in Thread : t = u
    PROVE  Spec => [](LoadedKeepsPaths /\ FreshLoadInstalls)
<1>1. Exclusive
  BY DEF Exclusive
<1>2. Init => Known
  BY KnownInit
<1>3. BaseInv /\ Known /\ [Next]_vars => Known'
  BY <1>1, KnownNext
<1>4. BaseInv /\ Known => LoadedKeepsPaths /\ FreshLoadInstalls
  BY KnownKeepsPaths, KnownInstalls
<1> QED
  BY <1>2, <1>3, <1>4, Invariance, PTL DEF Spec
=============================================================================
