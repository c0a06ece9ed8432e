---------------------------- MODULE ProtectedPath ----------------------------
(***************************************************************************)
(* The peer registry of the APPLICATION protected path and the TC filters  *)
(* it owns (src/datapath/protected/application_protected_path.c and        *)
(* application_protected_netlink.c).  A slot holds one connection and a    *)
(* pair of filters at a handle derived from the slot: a UDP drop and a raw *)
(* ESP redirect.  A filter is what the library believes (own: bRawFilter,  *)
(* bUdpFilter) and what the kernel holds (ker).  A netlink request can be  *)
(* refused, fail before it is sent, or be carried out with its             *)
(* acknowledgement lost.  Registry operations run under PeerMutex.         *)
(***************************************************************************)
EXTENDS Registry

CONSTANT Capacity      \* IPSEC_PROTECTED_APPLICATION_PEER_CAPACITY

ASSUME ProtectedAssumption == Capacity \in Nat \ {0}

VARIABLE aPeers        \* IpsecProtectedApplicationState_t.aPeers

Slot == 1..Capacity
Filter == [own : BOOLEAN, ker : BOOLEAN]
Peer == [name : Name \cup {Free}, udp : Filter, raw : Filter]

None == [own |-> FALSE, ker |-> FALSE]
Cleared(f) == [f EXCEPT !.own = FALSE]

WithFilters(p, udp, raw) == [name |-> p.name, udp |-> udp, raw |-> raw]

\* Seeded fault: ownership is only recorded when the kernel acknowledges.
CreateOwnsOnAck(f) ==
    {[f |-> [own |-> TRUE, ker |-> TRUE], ok |-> TRUE],
     [f |-> [own |-> FALSE, ker |-> TRUE], ok |-> FALSE],
     [f |-> [f EXCEPT !.own = FALSE], ok |-> FALSE]}

\* ChangeProtectedApplicationFilter(create): acknowledged; refused; carried out
\* or lost without an acknowledgement, which counts as owned; not sent.
CreateFilter(f) ==
    {[f |-> [own |-> TRUE, ker |-> TRUE], ok |-> TRUE],
     [f |-> [f EXCEPT !.own = FALSE], ok |-> FALSE],
     [f |-> [own |-> TRUE, ker |-> TRUE], ok |-> FALSE],
     [f |-> [f EXCEPT !.own = TRUE], ok |-> FALSE],
     [f |-> f, ok |-> FALSE]}

\* ChangeProtectedApplicationFilter(remove), for a filter the library owns;
\* a filter that is already gone counts as removed.
RemoveFilter(f) ==
    IF ~f.own THEN {[f |-> f, ok |-> TRUE]}
    ELSE {[f |-> None, ok |-> TRUE],
          [f |-> [f EXCEPT !.ker = FALSE], ok |-> FALSE],
          [f |-> f, ok |-> FALSE]}

\* Seeded fault: only the UDP drop decides whether the pair is installed.
InstallTrustsDrop(p) ==
    {[p |-> WithFilters(p, u.f, r.f), ok |-> u.ok] :
        u \in CreateFilter(p.udp), r \in CreateFilter(p.raw)}

\* InstallIpsecProtectedApplicationFilters: the handle must be unused, then UDP
\* drop, then raw redirect, then both are read back.
InstallFilters(p) ==
    {[p |-> p, ok |-> FALSE]} \cup
    IF p.udp.ker \/ p.raw.ker THEN {}
    ELSE UNION {IF ~u.ok THEN {[p |-> WithFilters(p, u.f, p.raw), ok |-> FALSE]}
                ELSE {[p |-> WithFilters(p, u.f, r.f), ok |-> r.ok /\ verified] :
                        r \in CreateFilter(p.raw), verified \in BOOLEAN} :
                u \in CreateFilter(p.udp)}

\* RemoveProtectedApplicationPeer: no memory for the request, or both filters are
\* attempted.
RemoveFilters(p) ==
    {[p |-> p, ok |-> FALSE]} \cup
    {[p |-> WithFilters(p, u.f, r.f), ok |-> r.ok /\ u.ok] :
        r \in RemoveFilter(p.raw), u \in RemoveFilter(p.udp)}

\* memset of a slot: the library forgets, the kernel does not.
Forget(p) == [name |-> Free, udp |-> Cleared(p.udp), raw |-> Cleared(p.raw)]

First(slots) == CHOOSE i \in slots : \A j \in slots : i <= j
SlotsOf(n) == {i \in Slot : aPeers[i].name = n}

\* The new peer record of a fresh slot and what the caller is told.
FreshOutcomes(p, n) ==
    UNION {IF o.ok THEN {[p |-> o.p, ok |-> TRUE, added |-> TRUE]}
           ELSE {IF c.ok THEN [p |-> Forget(c.p), ok |-> FALSE, added |-> FALSE]
                         ELSE [p |-> c.p, ok |-> FALSE, added |-> TRUE] :
                    c \in RemoveFilters(o.p)} :
           o \in InstallFilters([p EXCEPT !.name = n])}

\* Seeded fault: the first free slot is taken without looking the name up.
RegisterUnseen(n, ok, added) ==
    /\ SlotsOf(Free) # {}
    /\ LET i == First(SlotsOf(Free))
       IN  \E o \in FreshOutcomes(aPeers[i], n) :
              /\ aPeers' = [aPeers EXCEPT ![i] = o.p]
              /\ ok = o.ok /\ added = o.added

\* RegisterIpsecProtectedPeerInternal.  A name that has a slot is accepted as it
\* is when the addresses agree; otherwise the first free slot is filled.
RegisterProtectedPeer(n, ok, added) ==
    IF SlotsOf(n) # {} \/ SlotsOf(Free) = {}
    THEN /\ added = FALSE
         /\ ok = TRUE => SlotsOf(n) # {}
         /\ UNCHANGED aPeers
    ELSE LET i == First(SlotsOf(Free))
         IN  \E o \in FreshOutcomes(aPeers[i], n) :
                /\ aPeers' = [aPeers EXCEPT ![i] = o.p]
                /\ ok = o.ok /\ added = o.added

\* UnregisterIpsecProtectedPeerInternal: the slot is kept until both are gone.
UnregisterProtectedPeer(n, ok) ==
    IF SlotsOf(n) = {}
    THEN ok = TRUE /\ UNCHANGED aPeers
    ELSE LET i == First(SlotsOf(n))
         IN  \E o \in RemoveFilters(aPeers[i]) :
                /\ aPeers' = [aPeers EXCEPT ![i] = IF o.ok THEN Forget(o.p) ELSE o.p]
                /\ ok = o.ok

\* DeinitializeApplicationProtectedPath: one attempt per slot, then all is
\* forgotten with the registry.
DeinitProtectedPath ==
    aPeers' \in {f \in [Slot -> {Forget(p) : p \in Peer}] :
                    \A i \in Slot : \E o \in RemoveFilters(aPeers[i]) : f[i] = Forget(o.p)}

InitProtectedPath ==
    aPeers = [i \in Slot |-> [name |-> Free, udp |-> None, raw |-> None]]

Installed(n) == \E i \in SlotsOf(n) : aPeers[i].udp.ker /\ aPeers[i].raw.ker
=============================================================================
