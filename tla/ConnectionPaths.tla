--------------------------- MODULE ConnectionPaths ---------------------------
(***************************************************************************)
(* AddIpsecConnection and RemoveIpsecConnection                            *)
(* (src/core/connection_manager.c) over the two packet path registries and *)
(* charon, with the life of the context around them (src/core/ipsec.c).    *)
(* Threads interleave between the registry operations, each of which holds *)
(* its PeerMutex, and the serialized VICI commands.  A VICI command may    *)
(* end without an answer, and charon may still carry it out later.         *)
(***************************************************************************)
EXTENDS ProtectedPath, PlainRules

CONSTANTS Thread,           \* threads that use the context
          ManageProtected,  \* eProtectedPacketPath is APPLICATION
          ManagePlain       \* bManagePlainNetfilterRule

VARIABLES up,         \* there is a context
          pc, call,   \* what each thread is doing: [name, protected, plain, ok]
          loaded,     \* the connections charon holds
          late,       \* VICI requests charon received and has not carried out
          unsure,     \* connections charon may hold whatever this context was told
          leftover,   \* slots whose filters were abandoned with a context
          drifted,    \* a plain rule operation failed since the last full rebuild
          halfway     \* connections whose slot outlived a failed removal

paths == <<aPeers, plainVars>>
charon == <<loaded, late, unsure>>
ghosts == <<leftover, drifted, halfway>>
vars == <<paths, up, pc, call, charon, ghosts>>

Request == {"load", "unload"} \X Name
Idle == [name |-> Free, protected |-> FALSE, plain |-> FALSE, ok |-> TRUE]
Stage == {"IDLE", "PROTECTED", "PLAIN", "LOAD", "UNDO_PLAIN", "UNDO_PROTECTED",
          "UNLOAD", "DROP_PLAIN", "DROP_PROTECTED", "ADDED", "REMOVED"}

Init ==
    /\ InitProtectedPath
    /\ plainPeers = {} /\ bRuleTableOwned = FALSE /\ nft = NoTable
    /\ up = FALSE
    /\ pc = [t \in Thread |-> "IDLE"] /\ call = [t \in Thread |-> Idle]
    /\ loaded = {} /\ late = {} /\ unsure = {}
    /\ leftover = {} /\ drifted = FALSE /\ halfway = {}

Goto(t, stage, c) ==
    /\ pc' = [pc EXCEPT ![t] = stage]
    /\ call' = [call EXCEPT ![t] = c]

-----------------------------------------------------------------------------
(* The context                                                             *)

\* InitializeIpsecInternal: the protected endpoint, then the plain rules.
Initialize ==
    /\ ~up
    /\ IF ManagePlain
       THEN InitPlainRules(up')
       ELSE up' = TRUE /\ UNCHANGED plainVars
    /\ drifted' = FALSE
    /\ UNCHANGED <<aPeers, pc, call, charon, leftover, halfway>>

\* What a context that goes away leaves behind.
Abandon ==
    /\ up /\ up' = FALSE
    /\ leftover' = {i \in Slot : aPeers'[i].udp.ker \/ aPeers'[i].raw.ker}
    /\ unsure' = Name
    /\ drifted' = FALSE /\ halfway' = {}
    /\ UNCHANGED <<loaded, late>>

\* DeinitializeIpsec, once the caller's threads have stopped.
Deinitialize ==
    /\ \A t \in Thread : pc[t] = "IDLE"
    /\ IF ManagePlain THEN DeinitPlainRules ELSE UNCHANGED plainVars
    /\ DeinitProtectedPath
    /\ Abandon
    /\ UNCHANGED <<pc, call>>

\* The process dies: nothing is cleaned up.
Crash ==
    /\ aPeers' = [i \in Slot |-> Forget(aPeers[i])]
    /\ plainPeers' = {} /\ bRuleTableOwned' = FALSE /\ nft' = nft
    /\ pc' = [t \in Thread |-> "IDLE"] /\ call' = [t \in Thread |-> Idle]
    /\ Abandon

-----------------------------------------------------------------------------
(* AddIpsecConnection                                                      *)

BeginAdd(t, n) ==
    /\ up /\ pc[t] = "IDLE"
    /\ Goto(t, "PROTECTED", [Idle EXCEPT !.name = n])
    /\ UNCHANGED <<paths, up, charon, ghosts>>

\* Where a failed Add continues: RollbackIpsecConnectionPaths undoes what this
\* call added.
Undo(c) == CASE c.plain -> "UNDO_PLAIN"
             [] ~c.plain /\ c.protected -> "UNDO_PROTECTED"
             [] OTHER -> "ADDED"

RegisterProtected(t) ==
    /\ pc[t] = "PROTECTED"
    /\ \E ok, added \in BOOLEAN :
          LET c == [call[t] EXCEPT !.protected = added, !.ok = ok]
          IN  /\ IF ManageProtected
                 THEN RegisterProtectedPeer(c.name, ok, added)
                 ELSE ok /\ ~added /\ UNCHANGED aPeers
              /\ Goto(t, IF ok THEN "PLAIN" ELSE Undo(c), c)
              /\ halfway' = IF added /\ ~ok THEN halfway \cup {c.name} ELSE halfway
    /\ UNCHANGED <<plainVars, up, charon, leftover, drifted>>

RegisterPlain(t) ==
    /\ pc[t] = "PLAIN"
    /\ \E ok, added \in BOOLEAN :
          LET c == [call[t] EXCEPT !.plain = added, !.ok = ok]
          IN  /\ IF ManagePlain
                 THEN RegisterPlainPeer(c.name, ok, added)
                 ELSE ok /\ ~added /\ UNCHANGED plainVars
              /\ Goto(t, IF ok THEN "LOAD" ELSE Undo(c), c)
              /\ drifted' = (drifted \/ (~ok /\ nft' # nft))
    /\ UNCHANGED <<aPeers, up, charon, leftover, halfway>>

\* LoadViciConnectionInternal: done; refused; unanswered and done, still to be
\* done, or lost.
Load(t) ==
    LET n == call[t].name
    IN  /\ pc[t] = "LOAD"
        /\ \/ /\ loaded' = loaded \cup {n}
              /\ Goto(t, "ADDED", call[t])
              /\ UNCHANGED <<late, unsure>>
           \/ /\ Goto(t, Undo(call[t]), [call[t] EXCEPT !.ok = FALSE])
              /\ UNCHANGED charon
           \/ /\ Goto(t, Undo(call[t]), [call[t] EXCEPT !.ok = FALSE])
              /\ unsure' = unsure \cup {n}
              /\ \/ loaded' = loaded \cup {n} /\ UNCHANGED late
                 \/ late' = late \cup {<<"load", n>>} /\ UNCHANGED loaded
        /\ UNCHANGED <<paths, up, ghosts>>

\* Whether the kernel's rules are in doubt after a peer is unregistered.
Drifts(n, ok) == IF n \in plainPeers THEN ~ok ELSE drifted

UndoPlain(t) ==
    /\ pc[t] = "UNDO_PLAIN"
    /\ \E ok \in BOOLEAN :
          /\ UnregisterPlainPeer(call[t].name, ok)
          /\ drifted' = Drifts(call[t].name, ok)
    /\ Goto(t, IF call[t].protected THEN "UNDO_PROTECTED" ELSE "ADDED", call[t])
    /\ UNCHANGED <<aPeers, up, charon, leftover, halfway>>

\* The connections whose slot is kept after a failed removal.
Halved(n, ok) == IF ok THEN halfway \ {n} ELSE halfway \cup {n}

UndoProtected(t) ==
    /\ pc[t] = "UNDO_PROTECTED"
    /\ \E ok \in BOOLEAN :
          /\ UnregisterProtectedPeer(call[t].name, ok)
          /\ halfway' = Halved(call[t].name, ok)
    /\ Goto(t, "ADDED", call[t])
    /\ UNCHANGED <<plainVars, up, charon, leftover, drifted>>

-----------------------------------------------------------------------------
(* RemoveIpsecConnection                                                   *)

BeginRemove(t, n) ==
    /\ up /\ pc[t] = "IDLE"
    /\ Goto(t, "UNLOAD", [Idle EXCEPT !.name = n])
    /\ UNCHANGED <<paths, up, charon, ghosts>>

Unloaded(t) == Goto(t, "DROP_PLAIN", call[t])
UnloadFailed(t) == Goto(t, "REMOVED", [call[t] EXCEPT !.ok = FALSE])

\* Seeded fault: any failed unload is taken for one that is done.
UnloadTrusted(t) ==
    LET n == call[t].name
    IN  /\ pc[t] = "UNLOAD"
        /\ Unloaded(t)
        /\ loaded' \in {loaded, loaded \ {n}}
        /\ UNCHANGED <<paths, up, late, unsure, ghosts>>

\* UnloadViciConnectionInternal: done; refused, and then list-conns tells whether
\* the connection is absent, unless the query fails; unanswered.
Unload(t) ==
    LET n == call[t].name
    IN  /\ pc[t] = "UNLOAD"
        /\ \/ /\ loaded' = loaded \ {n}
              /\ n \in loaded /\ Unloaded(t)
              /\ unsure' = IF <<"load", n>> \in late THEN unsure ELSE unsure \ {n}
              /\ UNCHANGED late
           \/ /\ n \notin loaded /\ Unloaded(t)
              /\ UNCHANGED charon
           \/ /\ UnloadFailed(t)
              /\ \/ UNCHANGED charon
                 \/ loaded' = loaded \ {n} /\ UNCHANGED <<late, unsure>>
                 \/ late' = late \cup {<<"unload", n>>} /\ UNCHANGED <<loaded, unsure>>
        /\ UNCHANGED <<paths, up, ghosts>>

DropPlain(t) ==
    /\ pc[t] = "DROP_PLAIN"
    /\ \E ok \in BOOLEAN :
          /\ IF ManagePlain
             THEN UnregisterPlainPeer(call[t].name, ok)
             ELSE ok /\ UNCHANGED plainVars
          /\ drifted' = Drifts(call[t].name, ok)
          /\ Goto(t, "DROP_PROTECTED", [call[t] EXCEPT !.ok = ok])
    /\ UNCHANGED <<aPeers, up, charon, leftover, halfway>>

\* The plain error is the one reported, but both are attempted.
DropProtected(t) ==
    /\ pc[t] = "DROP_PROTECTED"
    /\ \E ok \in BOOLEAN :
          /\ IF ManageProtected
             THEN UnregisterProtectedPeer(call[t].name, ok)
             ELSE ok /\ UNCHANGED aPeers
          /\ halfway' = Halved(call[t].name, ok)
          /\ Goto(t, "REMOVED", [call[t] EXCEPT !.ok = @ /\ ok])
    /\ UNCHANGED <<plainVars, up, charon, leftover, drifted>>

Return(t) ==
    /\ pc[t] \in {"ADDED", "REMOVED"}
    /\ Goto(t, "IDLE", Idle)
    /\ UNCHANGED <<paths, up, charon, ghosts>>

-----------------------------------------------------------------------------
\* charon carries out a request whose sender no longer waits for it.
DaemonServesLate ==
    \E r \in late :
        /\ late' = late \ {r}
        /\ loaded' = IF r[1] = "load" THEN loaded \cup {r[2]} ELSE loaded \ {r[2]}
        /\ UNCHANGED <<paths, up, pc, call, unsure, ghosts>>

Next ==
    \/ Initialize \/ Deinitialize \/ Crash \/ DaemonServesLate
    \/ \E t \in Thread :
          \/ \E n \in Name : BeginAdd(t, n) \/ BeginRemove(t, n)
          \/ RegisterProtected(t) \/ RegisterPlain(t) \/ Load(t)
          \/ UndoPlain(t) \/ UndoProtected(t)
          \/ Unload(t) \/ DropPlain(t) \/ DropProtected(t) \/ Return(t)

Spec == Init /\ [][Next]_vars

-----------------------------------------------------------------------------
(* Properties                                                              *)

\* The state has the shape the C structures give it; a context that is gone has
\* no registered peers and owns nothing.
TypeOK ==
    /\ aPeers \in [Slot -> Peer]
    /\ plainPeers \subseteq Name /\ bRuleTableOwned \in BOOLEAN /\ nft \in Kernel
    /\ up \in BOOLEAN
    /\ pc \in [Thread -> Stage]
    /\ call \in [Thread -> [name : Name \cup {Free}, protected : BOOLEAN, plain : BOOLEAN, ok : BOOLEAN]]
    /\ loaded \subseteq Name /\ late \subseteq Request /\ unsure \subseteq Name
    /\ leftover \subseteq Slot /\ drifted \in BOOLEAN /\ halfway \subseteq Name
    /\ ~up => plainPeers = {} /\ ~bRuleTableOwned

\* A TC filter the kernel holds is one its slot records as owned, whatever was
\* lost between the request and its acknowledgement, so that a later unload or
\* deinit still removes it ("Unknown ACK outcome must be rolled back too",
\* application_protected_netlink.c:198).  Only a context that went away without
\* removing its filters leaves one behind.
FiltersOwned ==
    \A i \in Slot : \A f \in {aPeers[i].udp, aPeers[i].raw} :
        /\ f.ker /\ ~f.own => i \in leftover
        /\ f.own => aPeers[i].name # Free

\* No connection occupies two slots of the registry, so a removal by name
\* (UnregisterIpsecProtectedPeerInternal) reaches every filter of it.
OneSlotPerConnection ==
    \A n \in Name : Cardinality(SlotsOf(n)) <= 1

\* A connection charon holds keeps its registry entries: Add registers the packet
\* paths before it loads, Remove drops them only once charon is known not to hold
\* the connection ("Keep local filters while daemon unload completion is
\* uncertain", connection_manager.c:132).  Excepted are connections inherited from
\* an earlier context or loaded by a request that had no answer.
LoadedKeepsPaths ==
    up => \A n \in loaded \ unsure :
              /\ ManageProtected => SlotsOf(n) # {}
              /\ ManagePlain => n \in plainPeers

\* Unless a rule operation failed since the table was last built, the kernel's
\* rules are those of the registered peers: a rebuild and the sweep at
\* initialization leave none of an earlier peer or of an earlier context.
RulesMatchPeers ==
    up /\ ManagePlain /\ ~drifted =>
        nft = [table |-> TRUE, chain |-> TRUE, rules |-> plainPeers]

\* AddIpsecConnection that returns OK has both filters of the connection in the
\* kernel, unless its slot was kept after a failed removal.
FreshLoadInstalls ==
    \A t \in Thread :
        pc[t] = "ADDED" /\ call[t].ok /\ ManageProtected /\ call[t].name \notin halfway =>
            Installed(call[t].name)

\* README.md:142 "Connection load installs a peer filter pair": both filters are
\* in the kernel whenever AddIpsecConnection returns OK.
LoadInstallsFilterPair ==
    \A t \in Thread : pc[t] = "ADDED" /\ call[t].ok => Installed(call[t].name)

\* README.md:200 "is removed on connection unload/deinit": no rule of the
\* connection is in the kernel when RemoveIpsecConnection returns OK.
UnloadRemovesRule ==
    \A t \in Thread : pc[t] = "REMOVED" /\ call[t].ok => call[t].name \notin nft.rules
=============================================================================
