------------------------------ MODULE PlainRules ------------------------------
(***************************************************************************)
(* The managed nftables rules of the APPLICATION plain path                *)
(* (src/datapath/plain/plain_nftables.c): a table the library owns, a      *)
(* chain in it and one rule per registered connection.  Rules are added    *)
(* one by one and removed by rebuilding the table.  An operation fails     *)
(* with or without having been carried out.                                *)
(***************************************************************************)
EXTENDS Registry

CONSTANT PeerCapacity      \* IPSEC_PLAIN_APPLICATION_PEER_CAPACITY

VARIABLES plainPeers,      \* the names in IpsecPlainApplicationState_t.aPeers
          bRuleTableOwned,
          nft              \* what the kernel holds

plainVars == <<plainPeers, bRuleTableOwned, nft>>

NoTable == [table |-> FALSE, chain |-> FALSE, rules |-> {}]
Kernel == [table : BOOLEAN, chain : BOOLEAN, rules : SUBSET Name]

\* SendPlainNftOperation that takes the kernel from k to done: acknowledged,
\* carried out with the acknowledgement lost, or not carried out.
Operation(k, done) ==
    {[k |-> done, ok |-> TRUE], [k |-> done, ok |-> FALSE], [k |-> k, ok |-> FALSE]}

\* RemovePlainNftTable(bIgnoreMissing = true)
RemoveTable(s) ==
    {[owned |-> s.owned /\ ~o.ok, k |-> o.k, ok |-> o.ok] : o \in Operation(s.k, NoTable)}

\* CreatePlainNftTable: the table, owned once acknowledged, then the chain.
NewTable(s) ==
    {[owned |-> s.owned \/ o.ok, k |-> o.k, ok |-> o.ok] :
        o \in Operation(s.k, [s.k EXCEPT !.table = TRUE])}
NewChain(s) ==
    {[owned |-> s.owned, k |-> o.k, ok |-> o.ok] :
        o \in Operation(s.k, [s.k EXCEPT !.chain = TRUE])}
CreateTable(s) == UNION {IF t.ok THEN NewChain(t) ELSE {t} : t \in NewTable(s)}

\* The table of an earlier state is removed and created again.
Renew(s) == UNION {IF t.ok THEN CreateTable(t) ELSE {t} : t \in RemoveTable(s)}

\* AddPlainNftPeerRule, refused by the kernel where there is no chain.
AddRule(s, n) ==
    {[owned |-> s.owned, k |-> o.k, ok |-> o.ok] :
        o \in IF s.k.chain THEN Operation(s.k, [s.k EXCEPT !.rules = @ \cup {n}])
                           ELSE {[k |-> s.k, ok |-> FALSE]}}

\* The rules of the peers are added one by one up to the first failure.
AddRules(s, peers) ==
    {[owned |-> s.owned, k |-> [s.k EXCEPT !.rules = @ \cup peers], ok |-> TRUE]} \cup
    {[owned |-> s.owned, k |-> [s.k EXCEPT !.rules = @ \cup done], ok |-> FALSE] :
        done \in IF peers = {} THEN {} ELSE SUBSET peers}

\* RebuildPlainNftRules
Rebuild(s, peers) ==
    UNION {IF t.ok THEN AddRules(t, peers) ELSE {t} : t \in Renew(s)}

State == [owned |-> bRuleTableOwned, k |-> nft, ok |-> TRUE]

Becomes(s) == bRuleTableOwned' = s.owned /\ nft' = s.k

\* Seeded fault: the table is created over whatever an earlier context left.
StartWithoutSweep(s) == CreateTable([s EXCEPT !.owned = FALSE])

\* InitializeIpsecPlainRules: sweep a leftover table, then create.
StartRules(s) == Renew([s EXCEPT !.owned = FALSE])

\* DeinitializeIpsecPlainRules: only a table known to be owned is removed.
StopRules(s) == IF s.owned THEN RemoveTable(s) ELSE {s}

\* InitializeApplicationPlainPath; a failure is followed by its cleanup.
InitPlainRules(ok) ==
    /\ plainPeers' = {}
    /\ \E s \in StartRules(State) :
          /\ ok = s.ok
          /\ IF s.ok THEN Becomes(s)
                     ELSE \E d \in StopRules(s) : Becomes([d EXCEPT !.owned = FALSE])

\* Seeded fault: the ownership flag outlives the rules it stood for.
DeinitKeepsFlag ==
    /\ plainPeers' = {}
    /\ \E s \in StopRules(State) : Becomes(s)

\* DeinitializeApplicationPlainPath
DeinitPlainRules ==
    /\ plainPeers' = {}
    /\ \E s \in StopRules(State) : Becomes([s EXCEPT !.owned = FALSE])

\* RegisterIpsecPlainPeerInternal.  A registered name is accepted as it is when
\* the selectors agree.
RegisterPlainPeer(n, ok, added) ==
    IF ~bRuleTableOwned \/ n \in plainPeers \/ Cardinality(plainPeers) = PeerCapacity
    THEN /\ added = FALSE
         /\ ok = TRUE => bRuleTableOwned /\ n \in plainPeers
         /\ UNCHANGED plainVars
    ELSE \E s \in AddRule(State, n) :
            /\ Becomes(s) /\ ok = s.ok /\ added = s.ok
            /\ plainPeers' = IF s.ok THEN plainPeers \cup {n} ELSE plainPeers

\* UnregisterIpsecPlainPeerInternal: the slot is cleared, then the table rebuilt.
UnregisterPlainPeer(n, ok) ==
    IF n \notin plainPeers
    THEN ok = TRUE /\ UNCHANGED plainVars
    ELSE /\ plainPeers' = plainPeers \ {n}
         /\ \E s \in Rebuild(State, plainPeers \ {n}) : Becomes(s) /\ ok = s.ok
=============================================================================
