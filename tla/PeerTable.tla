----------------------------- MODULE PeerTable ------------------------------
(***************************************************************************)
(* The peer table of ipsec_app (src/app/peer.c): what each function does   *)
(* with the table while it holds its mutex.  A record keeps the ids it was *)
(* registered under, the configuration built from them and what the daemon *)
(* was last seen to hold of it.  `id` is the IKE identity the record is    *)
(* selected by, `name` its connection, CHILD and credential names; a       *)
(* registration spells them all from one pair of ids.                      *)
(***************************************************************************)
EXTENDS Integers, Sequences, FiniteSets

CONSTANTS ByteBits,      \* bits of an address byte (8)
          Capacity,      \* NATIVE_APP_PEER_CAPACITY (256)
          LogonLimit,    \* NATIVE_APP_PEER_LOGON_LIMIT (100)
          MaxCount       \* UINT32_MAX, where the registration count stops

ASSUME PeerTableAssumption ==
    /\ ByteBits \in Nat \ {0}
    /\ Capacity \in Nat
    /\ LogonLimit \in Nat \ {0}
    /\ MaxCount \in Nat \ {0}

-----------------------------------------------------------------------------
(* Traffic selectors: [family, bytes, prefix], host bits kept              *)

\* A text that does not parse as one, the empty text included
NoSelector == [family |-> 0, bytes |-> <<>>, prefix |-> 0]

Smaller(m, n) == IF m < n THEN m ELSE n

\* The shorter prefix decides: its whole bytes, then the masked rest.
AreNativeAppTrafficSelectorsOverlapping(l, r) ==
    LET prefix == Smaller(l.prefix, r.prefix)
        whole == prefix \div ByteBits
        rest == prefix % ByteBits
        Masked(b) == b \div 2^(ByteBits - rest)
    IN
    /\ l.family = r.family /\ Len(l.bytes) = Len(r.bytes)
    /\ \A i \in 1..whole : l.bytes[i] = r.bytes[i]
    /\ rest = 0 \/ Masked(l.bytes[whole + 1]) = Masked(r.bytes[whole + 1])

-----------------------------------------------------------------------------
(* The table                                                               *)

GetNativeAppPeerSequence(n) ==
    [group |-> (n \div LogonLimit) + 1, logon |-> (n % LogonLimit) + 1]

\* The first record of an address, 0 for none
FindByRemoteAddress(t, a) ==
    IF \E i \in 1..Len(t) : t[i].addr = a
    THEN CHOOSE i \in 1..Len(t) : t[i].addr = a /\ \A j \in 1..(i - 1) : t[j].addr # a
    ELSE 0

\* BuildNativeAppPeerConfig: the names come from the ids.
BuildNativeAppPeer(ids, a, s) ==
    [addr |-> a, ids |-> ids, id |-> ids, name |-> ids, ts |-> s, count |-> 1, active |-> FALSE]

\* Seeded fault: only an equal selector is a conflict.
SameSelectorOnly(t, p, ignored) ==
    \A i \in 1..Len(t) : i # ignored => t[i].ts # p.ts

\* A record whose selector does not parse refuses every other registration.
ValidateRemoteTrafficSelector(t, p, ignored) ==
    \A i \in 1..Len(t) :
        i # ignored => /\ t[i].ts # NoSelector
                       /\ ~AreNativeAppTrafficSelectorsOverlapping(p.ts, t[i].ts)

\* The ids for a registration from address a: its own, or the next ones.
\* Seeded fault: the next ones whether or not the address is known.
FreshIds(t, a) == GetNativeAppPeerSequence(Len(t))

AssignedIds(t, a) ==
    LET i == FindByRemoteAddress(t, a)
    IN  IF i # 0 THEN t[i].ids ELSE GetNativeAppPeerSequence(Len(t))

CanAssign(t, a) == FindByRemoteAddress(t, a) # 0 \/ Len(t) < Capacity

\* An existing record takes a registration unless that would change the names
\* or the selector of an active one; the same names keep what is loaded.
\* Seeded fault: the count is not looked at.
CanReplaceUncounted(old, p) ==
    old.active => old.name = p.name /\ old.ts = p.ts

CanReplace(old, p) ==
    /\ old.active => old.name = p.name /\ old.ts = p.ts
    /\ old.count # MaxCount

Replaced(old, p) ==
    [p EXCEPT !.count = old.count + 1, !.active = old.active /\ old.name = p.name]

\* A new record of an initiator must carry the ids of its place.
CanAppend(t, p) == Len(t) < Capacity /\ p.ids = GetNativeAppPeerSequence(Len(t))

\* The table after UpsertNativeAppPeer, the same one when it fails
UpsertNativeAppPeer(t, p) ==
    LET i == FindByRemoteAddress(t, p.addr) IN
    IF ~ValidateRemoteTrafficSelector(t, p, i) THEN t
    ELSE IF i # 0 THEN IF CanReplace(t[i], p) THEN [t EXCEPT ![i] = Replaced(@, p)] ELSE t
    ELSE IF CanAppend(t, p) THEN Append(t, p) ELSE t
=============================================================================
