----------------------- MODULE PeerRegistration_proofs -----------------------
(***************************************************************************)
(* Registration for any set of responders, any selectors, any capacity and *)
(* any edits of the operator.  The invariant has two layers.  Whatever is  *)
(* edited, the index stays in the table, the session has the address of    *)
(* the record it is written back to, and a registration moves no record    *)
(* and makes no two selectors overlap.  Until a profile is edited, the     *)
(* session is a copy of the selected record, what the listener looked up   *)
(* stays true until it stores, and the names the responders were sent      *)
(* agree with the table.                                                   *)
(***************************************************************************)
EXTENDS PeerRegistration, WellFoundedInduction, TLAPS

Rec == [addr : Outer, ids : Ids, id : Ids, name : Ids, ts : Selector,
        count : 1..MaxCount, active : BOOLEAN]
CallType == [addr : Address, ts : Selector, live : BOOLEAN]

OneRecord(t) == \A i, j \in 1..Len(t) : t[i].addr = t[j].addr => i = j

SameKey(r, s) == r.addr = s.addr /\ r.ids = s.ids /\ r.id = s.id /\ r.name = s.name

\* Records stay in their places under their addresses, ids and names.
Keeps(t, u) ==
    u \in Seq(Rec) /\ Len(u) = Len(t) /\ \A i \in 1..Len(t) : SameKey(u[i], t[i])

SameTs(t, u) == \A i \in 1..Len(t) : u[i].ts = t[i].ts

\* The numbering of TableKeyed, of any table
Keyed(t) ==
    /\ OneRecord(t)
    /\ \A i \in 1..Len(t) : /\ t[i].ids = GetNativeAppPeerSequence(i - 1)
                            /\ t[i].id = t[i].ids /\ t[i].name = t[i].ids

\* No record is gone and none has another address.
Grows(t, u) ==
    /\ u \in Seq(Rec) /\ Len(t) <= Len(u) /\ Len(u) <= Capacity
    /\ \A i \in 1..Len(t) : u[i].addr = t[i].addr

-----------------------------------------------------------------------------
(* Sequences, sequence numbers and lookups                                 *)

\* An entry of a table is a record.
LEMMA EntryOf ==
    ASSUME NEW S, NEW t \in Seq(S), NEW i \in 1..Len(t)
    PROVE  t[i] \in S
OBVIOUS

\* The length of a table is a number.
LEMMA LengthOf ==
    ASSUME NEW S, NEW t \in Seq(S)
    PROVE  Len(t) \in Nat
OBVIOUS

\* A table built index by index is a sequence of the same length.
LEMMA FunctionIsSeq ==
    ASSUME NEW S, NEW n \in Nat, NEW f \in [1..n -> S]
    PROVE  f \in Seq(S) /\ Len(f) = n
OBVIOUS

\* The first record of an address or an identity exists when there is one.
LEMMA LeastExists ==
    ASSUME NEW S, S \subseteq Nat, S # {}
    PROVE  \E i \in S : \A j \in S : i <= j
<1>1. PICK i \in S : \A j \in S : ~(<<j, i>> \in OpToRel(<, Nat))
      BY NatLessThanWellFounded, WFMin, Zenon
<1>2. \A j \in S : ~(j < i)
      BY <1>1 DEF OpToRel
<1> QED BY <1>2

\* The ids of place n (GetNativeAppPeerSequence) are ids.
LEMMA SequenceIds ==
    ASSUME NEW n \in Nat, n < Capacity
    PROVE  GetNativeAppPeerSequence(n) \in Ids
BY PeerTableAssumption DEF Ids

LEMMA NoIdsType == NoIds \in Ids
BY DEF Ids

LEMMA SelectorPrefix ==
    ASSUME NEW s \in Selector
    PROVE  s.prefix \in Nat
<1>1. CASE s = NoSelector
      BY <1>1 DEF NoSelector
<1>2. CASE s # NoSelector
      BY <1>2, RegistrationAssumption DEF Selector
<1> QED BY <1>1, <1>2

\* FindNativeAppPeerByRemoteAddress finds a record of the address if there is one.
LEMMA FindSpec ==
    ASSUME NEW t \in Seq(Rec), NEW a
    PROVE  LET f == FindByRemoteAddress(t, a) IN
           /\ f \in 0..Len(t)
           /\ f # 0 => t[f].addr = a
           /\ f = 0 => \A i \in 1..Len(t) : t[i].addr # a
<1>0. Len(t) \in Nat
      BY LengthOf
<1>1. CASE \E i \in 1..Len(t) : t[i].addr = a
  <2> DEFINE S == {i \in 1..Len(t) : t[i].addr = a}
  <2>1. S \subseteq Nat /\ S # {}
        BY <1>1
  <2>2. PICK i \in S : \A j \in S : i <= j
    <3> HIDE DEF S
    <3> QED BY <2>1, LeastExists
  <2>3. i \in 1..Len(t) /\ t[i].addr = a
        BY <2>2
  <2>4. \A j \in 1..(i - 1) : t[j].addr # a
    <3> TAKE j \in 1..(i - 1)
    <3>1. j \in 1..Len(t) /\ ~(i <= j)
          BY <1>0, <2>3
    <3> QED BY <2>2, <3>1
  <2> HIDE DEF S
  <2>5. LET f == FindByRemoteAddress(t, a)
        IN  f \in 1..Len(t) /\ t[f].addr = a
        BY <2>3, <2>4 DEF FindByRemoteAddress
  <2> QED BY <1>0, <2>5
<1>2. CASE ~\E i \in 1..Len(t) : t[i].addr = a
      BY <1>0, <1>2 DEF FindByRemoteAddress
<1> QED BY <1>1, <1>2

\* A table with one record per address whose records keep their places gives
\* the same answers.
LEMMA KeepsFind ==
    ASSUME NEW t \in Seq(Rec), OneRecord(t), NEW u, Keeps(t, u), NEW a
    PROVE  /\ OneRecord(u)
           /\ FindByRemoteAddress(u, a) = FindByRemoteAddress(t, a)
           /\ AssignedIds(u, a) = AssignedIds(t, a)
           /\ CanAssign(u, a) = CanAssign(t, a)
<1>1. OneRecord(u)
      BY DEF Keeps, OneRecord, SameKey
<1>2. FindByRemoteAddress(u, a) = FindByRemoteAddress(t, a)
  <2> DEFINE f == FindByRemoteAddress(t, a)
             g == FindByRemoteAddress(u, a)
  <2>1. /\ f \in 0..Len(t)
        /\ f # 0 => t[f].addr = a
        /\ f = 0 => \A i \in 1..Len(t) : t[i].addr # a
        BY FindSpec
  <2>2. /\ g \in 0..Len(t)
        /\ g # 0 => t[g].addr = a
        /\ g = 0 => \A i \in 1..Len(t) : t[i].addr # a
        BY FindSpec DEF Keeps, SameKey
  <2>3. g = f
    <3> HIDE DEF f, g
    <3> QED BY <2>1, <2>2 DEF OneRecord
  <2> QED BY <2>3
<1>3. AssignedIds(u, a) = AssignedIds(t, a)
      BY <1>2, FindSpec DEF AssignedIds, Keeps, SameKey
<1>4. CanAssign(u, a) = CanAssign(t, a)
      BY <1>2 DEF CanAssign, Keeps
<1> QED BY <1>1, <1>2, <1>3, <1>4

\* AreNativeAppTrafficSelectorsOverlapping does not mind the order.
LEMMA OverlapSymmetric ==
    ASSUME NEW l \in Selector, NEW r \in Selector,
           AreNativeAppTrafficSelectorsOverlapping(l, r)
    PROVE  AreNativeAppTrafficSelectorsOverlapping(r, l)
<1>1. Smaller(l.prefix, r.prefix) = Smaller(r.prefix, l.prefix)
      BY SelectorPrefix DEF Smaller
<1> QED BY <1>1 DEF AreNativeAppTrafficSelectorsOverlapping

\* One record of a table is replaced.
LEMMA ReplaceOne ==
    ASSUME NEW t \in Seq(Rec), NEW i \in 1..Len(t), NEW r \in Rec
    PROVE  LET u == [t EXCEPT ![i] = r] IN
           /\ u \in Seq(Rec) /\ Len(u) = Len(t)
           /\ \A j \in 1..Len(t) : u[j] = IF j = i THEN r ELSE t[j]
<1> DEFINE u == [t EXCEPT ![i] = r]
<1>1. Len(t) \in Nat /\ t \in [1..Len(t) -> Rec]
      OBVIOUS
<1>2. u \in [1..Len(t) -> Rec] /\ \A j \in 1..Len(t) : u[j] = IF j = i THEN r ELSE t[j]
      BY <1>1
<1> HIDE DEF u
<1>3. u \in Seq(Rec) /\ Len(u) = Len(t)
      BY <1>1, <1>2, FunctionIsSeq
<1> QED BY <1>2, <1>3 DEF u

-----------------------------------------------------------------------------
(* Registration                                                            *)

\* What the table gains: a new version of a record, or a record.
Renewed(t, p, u, i, r) ==
    /\ i \in 1..Len(t) /\ t[i].addr = p.addr
    /\ r \in Rec /\ u = [t EXCEPT ![i] = r] /\ SameKey(r, p) /\ r.ts = p.ts

Added(t, p, u) ==
    /\ \A i \in 1..Len(t) : t[i].addr # p.addr
    /\ Len(t) < Capacity /\ p.ids = GetNativeAppPeerSequence(Len(t)) /\ u = Append(t, p)

\* UpsertNativeAppPeer, whatever the record
LEMMA UpsertCases ==
    ASSUME NEW t \in Seq(Rec), NEW p \in Rec
    PROVE  LET i == FindByRemoteAddress(t, p.addr)
               u == UpsertNativeAppPeer(t, p)
               ok == ValidateRemoteTrafficSelector(t, p, i)
           IN  \/ u = t
               \/ ok /\ i = 0 /\ Added(t, p, u)
               \/ ok /\ i # 0 /\ \E r \in Rec : Renewed(t, p, u, i, r)
<1> DEFINE i == FindByRemoteAddress(t, p.addr)
           u == UpsertNativeAppPeer(t, p)
           ok == ValidateRemoteTrafficSelector(t, p, i)
<1>1. /\ i \in 0..Len(t)
      /\ i # 0 => t[i].addr = p.addr
      /\ i = 0 => \A j \in 1..Len(t) : t[j].addr # p.addr
      BY FindSpec
<1>2. Len(t) \in Nat
      BY LengthOf
<1>3. i # 0 => i \in 1..Len(t)
      BY <1>1, <1>2
<1>4. ~ok => u = t
      BY DEF UpsertNativeAppPeer
<1>5. ASSUME ok, i = 0, u # t PROVE Added(t, p, u)
  <2>1. CanAppend(t, p) /\ u = Append(t, p)
        BY <1>5 DEF UpsertNativeAppPeer
  <2> QED BY <1>1, <1>5, <2>1 DEF Added, CanAppend
<1>6. ASSUME ok, i # 0, u # t PROVE \E r \in Rec : Renewed(t, p, u, i, r)
  <2> DEFINE r == Replaced(t[i], p)
  <2>1. u = [t EXCEPT ![i] = r] /\ CanReplace(t[i], p)
        BY <1>6, <1>3 DEF UpsertNativeAppPeer
  <2>2. t[i] \in Rec /\ t[i].count \in 1..(MaxCount - 1)
    <3>1. t[i] \in Rec
          BY <1>3, <1>6, EntryOf
    <3> QED BY <2>1, <3>1, PeerTableAssumption DEF CanReplace, Rec
  <2>3. r \in Rec /\ SameKey(r, p) /\ r.ts = p.ts
    <3> DEFINE b == t[i].active /\ t[i].name = p.name
    <3>1. r = [p EXCEPT !.count = t[i].count + 1, !.active = b]
          BY DEF Replaced
    <3>2. t[i].count + 1 \in 1..MaxCount
          BY <2>2, PeerTableAssumption
    <3>3. b \in BOOLEAN
          OBVIOUS
    <3> HIDE DEF b, r
    <3> QED BY <3>1, <3>2, <3>3 DEF Rec, SameKey
  <2> HIDE DEF r, i, u
  <2>4. Renewed(t, p, u, i, r)
        BY <1>1, <1>3, <1>6, <2>1, <2>3 DEF Renewed
  <2> QED BY <2>3, <2>4
<1> QED BY <1>4, <1>5, <1>6

LEMMA AddedTable ==
    ASSUME NEW t \in Seq(Rec), NEW p \in Rec, NEW u, Added(t, p, u)
    PROVE  /\ u \in Seq(Rec) /\ Len(u) = Len(t) + 1
           /\ \A j \in 1..Len(u) : u[j] = IF j = Len(t) + 1 THEN p ELSE t[j]
           /\ Len(t) \in Nat
BY DEF Added

\* A renewed table, record by record
LEMMA RenewedTable ==
    ASSUME NEW t \in Seq(Rec), NEW p, NEW u, NEW i, NEW r, Renewed(t, p, u, i, r)
    PROVE  /\ u \in Seq(Rec) /\ Len(u) = Len(t)
           /\ \A j \in 1..Len(t) : u[j] = IF j = i THEN r ELSE t[j]
BY ReplaceOne DEF Renewed

\* No registration takes a record away, gives one another address or fills the
\* table beyond its capacity.
LEMMA UpsertGrows ==
    ASSUME NEW t \in Seq(Rec), Len(t) <= Capacity, NEW p \in Rec
    PROVE  Grows(t, UpsertNativeAppPeer(t, p))
<1> DEFINE i == FindByRemoteAddress(t, p.addr)
           u == UpsertNativeAppPeer(t, p)
<1>1. u = t \/ Added(t, p, u) \/ \E r \in Rec : Renewed(t, p, u, i, r)
      BY UpsertCases, Zenon
<1>2. Len(t) \in Nat
      BY LengthOf
<1> SUFFICES Grows(t, u)
    OBVIOUS
<1> HIDE DEF i, u
<1>3. CASE u = t
      BY <1>2, <1>3 DEF Grows
<1>4. CASE Added(t, p, u)
  <2>1. /\ u \in Seq(Rec) /\ Len(u) = Len(t) + 1
        /\ \A j \in 1..Len(u) : u[j] = IF j = Len(t) + 1 THEN p ELSE t[j]
        BY <1>4, AddedTable
  <2> QED BY <1>2, <1>4, <2>1, PeerTableAssumption DEF Added, Grows
<1>5. ASSUME NEW r \in Rec, Renewed(t, p, u, i, r)
      PROVE  Grows(t, u)
  <2>1. /\ u \in Seq(Rec) /\ Len(u) = Len(t)
        /\ \A j \in 1..Len(t) : u[j] = IF j = i THEN r ELSE t[j]
        BY <1>5, RenewedTable
  <2>2. r.addr = t[i].addr
        BY <1>5 DEF Renewed, SameKey
  <2> QED BY <1>2, <2>1, <2>2 DEF Grows
<1> QED BY <1>1, <1>3, <1>4, <1>5

\* Only selectors that overlapped before overlap after a registration.
LEMMA UpsertDisjoint ==
    ASSUME NEW t \in Seq(Rec), NEW p \in Rec
    PROVE  LET u == UpsertNativeAppPeer(t, p)
           IN  \A i, j \in 1..Len(u) : Overlap(u, i, j) =>
                  i = j \/ (i <= Len(t) /\ j <= Len(t) /\ Overlap(t, i, j))
<1> DEFINE f == FindByRemoteAddress(t, p.addr)
           u == UpsertNativeAppPeer(t, p)
           ok == ValidateRemoteTrafficSelector(t, p, f)
<1>1. Len(t) \in Nat /\ \A i \in 1..Len(t) : t[i] \in Rec
      BY EntryOf, LengthOf
<1>2. \/ u = t
      \/ ok /\ f = 0 /\ Added(t, p, u)
      \/ ok /\ f # 0 /\ \E r \in Rec : Renewed(t, p, u, f, r)
      BY UpsertCases, Zenon
<1>3. ASSUME ok, NEW i \in 1..Len(t), i # f
      PROVE  /\ ~AreNativeAppTrafficSelectorsOverlapping(p.ts, t[i].ts)
             /\ ~AreNativeAppTrafficSelectorsOverlapping(t[i].ts, p.ts)
  <2>1. p.ts \in Selector /\ t[i].ts \in Selector
        BY <1>1, <1>3 DEF Rec
  <2> QED BY <1>3, <2>1, OverlapSymmetric DEF ValidateRemoteTrafficSelector
<1> SUFFICES ASSUME NEW i \in 1..Len(u), NEW j \in 1..Len(u), Overlap(u, i, j), i # j
             PROVE  i <= Len(t) /\ j <= Len(t) /\ Overlap(t, i, j)
    OBVIOUS
<1> HIDE DEF f, u, ok
<1>4. CASE u = t
      BY <1>1, <1>4
<1>5. CASE ok /\ f = 0 /\ Added(t, p, u)
  <2>1. /\ Len(u) = Len(t) + 1
        /\ \A k \in 1..Len(u) : u[k] = IF k = Len(t) + 1 THEN p ELSE t[k]
        BY <1>5, AddedTable
  <2>2. i # Len(t) + 1 /\ j # Len(t) + 1
    <3>1. i = Len(t) + 1 => j \in 1..Len(t) /\ j # f
          BY <1>1, <1>5, <2>1
    <3>2. j = Len(t) + 1 => i \in 1..Len(t) /\ i # f
          BY <1>1, <1>5, <2>1
    <3> QED BY <1>3, <1>5, <2>1, <3>1, <3>2 DEF Overlap
  <2> QED BY <1>1, <2>1, <2>2 DEF Overlap
<1>6. ASSUME ok, f # 0, NEW r \in Rec, Renewed(t, p, u, f, r)
      PROVE  i <= Len(t) /\ j <= Len(t) /\ Overlap(t, i, j)
  <2>1. Len(u) = Len(t) /\ \A k \in 1..Len(t) : u[k] = IF k = f THEN r ELSE t[k]
        BY <1>6, RenewedTable
  <2>2. r.ts = p.ts
        BY <1>6 DEF Renewed
  <2>3. i # f /\ j # f
        BY <1>3, <1>6, <2>1, <2>2 DEF Overlap
  <2> QED BY <1>1, <2>1, <2>3 DEF Overlap
<1> QED BY <1>2, <1>4, <1>5, <1>6

\* The record a registration builds, while its ids are those the lookup gives.
Fits(t, p) ==
    /\ p \in Rec /\ p.id = p.ids /\ p.name = p.ids
    /\ p.ids = AssignedIds(t, p.addr) /\ CanAssign(t, p.addr)

\* Then the ids are still those of the place.
LEMMA FitsCases ==
    ASSUME NEW t \in Seq(Rec), NEW p, Fits(t, p)
    PROVE  LET i == FindByRemoteAddress(t, p.addr)
           IN  /\ i # 0 => i \in 1..Len(t) /\ t[i].addr = p.addr /\ t[i].ids = p.ids
               /\ i = 0 /\ ValidateRemoteTrafficSelector(t, p, i) =>
                      Added(t, p, UpsertNativeAppPeer(t, p))
<1> DEFINE i == FindByRemoteAddress(t, p.addr)
           ok == ValidateRemoteTrafficSelector(t, p, i)
<1>1. /\ i \in 0..Len(t)
      /\ i # 0 => t[i].addr = p.addr
      /\ i = 0 => \A j \in 1..Len(t) : t[j].addr # p.addr
      BY FindSpec
<1>2. Len(t) \in Nat
      BY LengthOf
<1>3. i # 0 => i \in 1..Len(t) /\ t[i].ids = p.ids
      BY <1>1, <1>2 DEF Fits, AssignedIds
<1>4. i = 0 => Len(t) < Capacity /\ p.ids = GetNativeAppPeerSequence(Len(t))
      BY DEF Fits, AssignedIds, CanAssign
<1>5. ASSUME ok, i = 0 PROVE Added(t, p, UpsertNativeAppPeer(t, p))
  <2>1. UpsertNativeAppPeer(t, p) = Append(t, p)
        BY <1>4, <1>5 DEF UpsertNativeAppPeer, CanAppend
  <2> QED BY <1>1, <1>4, <1>5, <2>1 DEF Added
<1> QED BY <1>1, <1>3, <1>5

\* Such a registration keeps the numbering and every record its ids.
LEMMA UpsertKeyed ==
    ASSUME NEW t \in Seq(Rec), Keyed(t), NEW p, Fits(t, p)
    PROVE  LET u == UpsertNativeAppPeer(t, p)
           IN  Keyed(u) /\ \A i \in 1..Len(t) : SameKey(u[i], t[i])
<1> DEFINE i == FindByRemoteAddress(t, p.addr)
           u == UpsertNativeAppPeer(t, p)
<1>1. OneRecord(t) /\ Len(t) \in Nat /\ p \in Rec
      BY LengthOf DEF Keyed, Fits
<1>2. /\ u = t \/ Added(t, p, u) \/ (i # 0 /\ \E r \in Rec : Renewed(t, p, u, i, r))
      /\ i # 0 => i \in 1..Len(t) /\ t[i].addr = p.addr /\ t[i].ids = p.ids
      BY <1>1, UpsertCases, FitsCases, Zenon
<1> SUFFICES Keyed(u) /\ \A j \in 1..Len(t) : SameKey(u[j], t[j])
    OBVIOUS
<1> HIDE DEF i, u
<1>3. CASE u = t
      BY <1>3 DEF SameKey
<1>4. CASE Added(t, p, u)
  <2>1. /\ u \in Seq(Rec) /\ Len(u) = Len(t) + 1
        /\ \A j \in 1..Len(u) : u[j] = IF j = Len(t) + 1 THEN p ELSE t[j]
        BY <1>1, <1>4, AddedTable
  <2>2. OneRecord(u)
        BY <1>1, <1>4, <2>1 DEF Added, OneRecord
  <2>3. ASSUME NEW j \in 1..Len(u)
        PROVE  /\ u[j].ids = GetNativeAppPeerSequence(j - 1)
               /\ u[j].id = u[j].ids /\ u[j].name = u[j].ids
    <3>1. CASE j = Len(t) + 1
      <4>1. j - 1 = Len(t)
            BY <1>1, <3>1
      <4> QED BY <1>4, <2>1, <3>1, <4>1 DEF Added, Fits
    <3>2. CASE j # Len(t) + 1
          BY <1>1, <2>1, <3>2 DEF Keyed
    <3> QED BY <3>1, <3>2
  <2>4. Keyed(u)
        BY <2>2, <2>3 DEF Keyed
  <2>5. \A j \in 1..Len(t) : u[j] = t[j]
        BY <1>1, <2>1
  <2> QED BY <2>4, <2>5 DEF SameKey
<1>5. ASSUME i # 0, NEW r \in Rec, Renewed(t, p, u, i, r)
      PROVE  Keyed(u) /\ \A j \in 1..Len(t) : SameKey(u[j], t[j])
  <2>1. /\ u \in Seq(Rec) /\ Len(u) = Len(t)
        /\ \A j \in 1..Len(t) : u[j] = IF j = i THEN r ELSE t[j]
        BY <1>5, RenewedTable
  <2>2. SameKey(r, t[i])
        BY <1>2, <1>5 DEF Renewed, Keyed, SameKey, Fits
  <2>3. \A j \in 1..Len(t) : SameKey(u[j], t[j])
        BY <2>1, <2>2 DEF SameKey
  <2>4. Keyed(u)
        BY <2>1, <2>3 DEF Keyed, OneRecord, SameKey
  <2> QED BY <2>3, <2>4
<1> QED BY <1>2, <1>3, <1>4, <1>5

\* After the store of an admitted registration its address has a record with
\* the ids that were sent.
LEMMA UpsertNames ==
    ASSUME NEW t \in Seq(Rec), Len(t) <= Capacity, Keyed(t), NEW p, Fits(t, p),
           ValidateRemoteTrafficSelector(t, p, FindByRemoteAddress(t, p.addr))
    PROVE  LET u == UpsertNativeAppPeer(t, p)
           IN  \E i \in 1..Len(u) : u[i].addr = p.addr /\ u[i].ids = p.ids
<1> DEFINE i == FindByRemoteAddress(t, p.addr)
           u == UpsertNativeAppPeer(t, p)
<1>1. Len(t) \in Nat /\ p \in Rec
      BY LengthOf DEF Fits
<1>2. /\ i = 0 => Added(t, p, u)
      /\ i # 0 => i \in 1..Len(t) /\ t[i].addr = p.addr /\ t[i].ids = p.ids
      BY FitsCases, Zenon
<1>3. u \in Seq(Rec) /\ Len(t) <= Len(u) /\ \A j \in 1..Len(t) : SameKey(u[j], t[j])
      BY <1>1, UpsertKeyed, UpsertGrows DEF Grows
<1> SUFFICES \E j \in 1..Len(u) : u[j].addr = p.addr /\ u[j].ids = p.ids
    OBVIOUS
<1> HIDE DEF i, u
<1>4. CASE i = 0
  <2>1. Len(u) = Len(t) + 1 /\ u[Len(t) + 1] = p
        BY <1>1, <1>2, <1>4, AddedTable
  <2> QED BY <1>1, <2>1
<1>5. CASE i # 0
  <2>1. i \in 1..Len(u) /\ u[i].addr = p.addr /\ u[i].ids = p.ids
        BY <1>1, <1>2, <1>3, <1>5, LengthOf DEF SameKey
  <2> QED BY <2>1
<1> QED BY <1>4, <1>5

-----------------------------------------------------------------------------
(* The inductive invariant                                                 *)

CliAt == {"prompt", "show save", "show refresh", "select save", "select record", "select undo",
          "load", "unload", "remove", "removed", "drop", "config", "set", "changed",
          "listen", "stop", "join", "done"}
LisAt == {"off", "poll", "receive", "lookup", "validate", "send", "store", "after", "close", "end"}
CliRecord == [at : CliAt, arg : Ids, prev : Nat]
LisRecord == [at : LisAt, call : CallType \cup {NoCall}, ids : Ids]

TypeInv ==
    /\ table \in Seq(Rec) /\ Len(table) <= Capacity
    /\ selected \in 0..Len(table) /\ cli.prev <= Len(table)
    /\ loaded \subseteq Ids /\ session \in SessionType /\ cli \in CliRecord
    /\ running \in BOOLEAN /\ stop \in BOOLEAN /\ edited \in BOOLEAN
    /\ lis \in LisRecord /\ backlog \in Seq(CallType)
    /\ inbox \in [Address -> Ids] /\ mine \in [Address -> Ids]

Unselected == selected = 0 \/ (cli.at = "select undo" /\ cli.prev = 0)

\* The session has the address of record s, and its identity and names.
SameAddress(s) == s # 0 => session.addr = table[s].addr
SameNames(s) ==
    s # 0 => session.addr = table[s].addr /\ session.id = table[s].id /\ session.name = table[s].name

OnSelected == {"load", "unload", "remove", "removed", "config", "set", "changed"}

CliInv ==
    /\ cli.at \notin {"select undo", "changed"} => SameAddress(selected)
    /\ cli.at = "select undo" => SameAddress(cli.prev)
    /\ cli.at \in {"select save", "select record"} => cli.prev = selected
    /\ cli.at \in OnSelected => selected # 0
    /\ edited => ~Unselected

Answering == lis.at \in {"validate", "send", "store"}

LisInv ==
    /\ ~running => lis.at = "off"
    /\ lis.at \in {"receive", "lookup"} \/ Answering => lis.call \in CallType

\* Until a profile is edited the table is numbered, the session is a copy of
\* its record, and nothing changes what the listener found before it stores.
Unedited ==
    /\ Keyed(table)
    /\ cli.at # "select undo" => SameNames(selected)
    /\ cli.at = "select undo" => SameNames(cli.prev)
    /\ Answering => /\ lis.ids = AssignedIds(table, lis.call.addr)
                    /\ CanAssign(table, lis.call.addr)

\* The names d of address a are stored, or about to be.
Named(a, d) ==
    \/ \E i \in 1..Len(table) : table[i].addr = a /\ table[i].ids = d
    \/ lis.at = "store" /\ lis.call.addr = a /\ lis.ids = d

Admitted ==
    ValidateRemoteTrafficSelector(table, Candidate, FindByRemoteAddress(table, lis.call.addr))

AssignInv ==
    Unselected =>
        /\ lis.at \in {"send", "store"} => Admitted
        /\ \A a \in Address : mine[a] # NoIds => Named(a, mine[a])
        /\ \A a \in Address : inbox[a] # NoIds => Named(a, inbox[a])

IInv == TypeInv /\ CliInv /\ LisInv /\ (~edited => Unedited) /\ AssignInv

-----------------------------------------------------------------------------
(* What the steps do to the table                                          *)

\* The selected record takes the profile of the session, the others stay.
Written(u) ==
    /\ u \in Seq(Rec) /\ Len(u) = Len(table)
    /\ \A i \in 1..Len(table) : i # selected => u[i] = table[i]
    /\ selected # 0 => /\ u[selected].ids = table[selected].ids
                       /\ u[selected].addr = session.addr
                       /\ u[selected].id = session.id /\ u[selected].name = session.name

\* A record that takes the profile of the session, whatever its state
LEMMA WrittenOne ==
    ASSUME TypeInv, selected # 0, NEW r \in Rec, r.ids = table[selected].ids,
           r.addr = session.addr, r.id = session.id, r.name = session.name
    PROVE  Written([table EXCEPT ![selected] = r])
<1> DEFINE u == [table EXCEPT ![selected] = r]
<1>1. table \in Seq(Rec) /\ selected \in 1..Len(table)
      BY LengthOf DEF TypeInv
<1>2. /\ u \in Seq(Rec) /\ Len(u) = Len(table)
      /\ \A j \in 1..Len(table) : u[j] = IF j = selected THEN r ELSE table[j]
      BY <1>1, ReplaceOne
<1> HIDE DEF u
<1>3. Written(u)
      BY <1>1, <1>2, Zenon DEF Written
<1> QED BY <1>3 DEF u

\* SaveNativeAppSelectedPeer writes the profile of the session.
LEMMA SavedRecord ==
    ASSUME TypeInv, selected # 0
    PROVE  \E r \in Rec : /\ Saved(table) = [table EXCEPT ![selected] = r]
                          /\ Saved(table)[selected] = r
                          /\ r.ids = table[selected].ids /\ r.addr = session.addr
                          /\ r.id = session.id /\ r.name = session.name
<1> DEFINE r == [table[selected] EXCEPT !.addr = session.addr, !.id = session.id,
                     !.name = session.name, !.ts = session.ts, !.active = session.active]
<1>1. table \in Seq(Rec) /\ selected \in 1..Len(table) /\ session \in SessionType
      BY LengthOf DEF TypeInv
<1>2. Saved(table) = [table EXCEPT ![selected] = r]
      BY <1>1 DEF Saved
<1>3. table[selected] \in Rec
      BY <1>1, EntryOf
<1>4. /\ r \in Rec /\ r.ids = table[selected].ids /\ r.addr = session.addr
      /\ r.id = session.id /\ r.name = session.name
      BY <1>1, <1>3 DEF Rec, SessionType
<1> HIDE DEF r
<1>5. [table EXCEPT ![selected] = r][selected] = r
      BY <1>1, <1>4, ReplaceOne
<1> QED BY <1>2, <1>4, <1>5

LEMMA SavedWritten ==
    ASSUME TypeInv
    PROVE  Written(Saved(table)) /\ (selected = 0 => Saved(table) = table)
<1>1. CASE selected # 0
      BY <1>1, SavedRecord, WrittenOne
<1>2. CASE selected = 0
  <2>1. Saved(table) = table
        BY <1>2 DEF Saved
  <2>2. Written(table)
        BY <1>2 DEF TypeInv, Written
  <2> QED BY <2>1, <2>2
<1> QED BY <1>1, <1>2

LEMMA KeepsItself ==
    ASSUME table \in Seq(Rec), table' = table
    PROVE  Keeps(table, table') /\ SameTs(table, table')
BY DEF Keeps, SameTs, SameKey

\* RefreshNativeAppPeerStates notes states and nothing else.
LEMMA RefreshKeeps ==
    ASSUME table \in Seq(Rec),
           table' = [i \in 1..Len(table) |-> [table[i] EXCEPT !.active = table[i].name \in loaded]]
    PROVE  Keeps(table, table') /\ SameTs(table, table')
<1>1. Len(table) \in Nat /\ \A i \in 1..Len(table) : table[i] \in Rec
      BY EntryOf, LengthOf
<1>2. ASSUME NEW i \in 1..Len(table)
      PROVE  table'[i] \in Rec /\ SameKey(table'[i], table[i]) /\ table'[i].ts = table[i].ts
  <2> DEFINE b == table[i].name \in loaded
  <2>1. b \in BOOLEAN
        OBVIOUS
  <2>2. table'[i] = [table[i] EXCEPT !.active = b]
        BY <1>2
  <2> HIDE DEF b
  <2> QED BY <1>1, <2>1, <2>2 DEF Rec, SameKey
<1>3. table' \in [1..Len(table) -> Rec]
      BY <1>2
<1>4. table' \in Seq(Rec) /\ Len(table') = Len(table)
      BY <1>1, <1>3, FunctionIsSeq
<1> QED BY <1>2, <1>4 DEF Keeps, SameTs

\* A step of the command loop writes back, or leaves every record its profile.
LEMMA CliTable ==
    ASSUME TypeInv, CliInv, Command \/ CliStep
    PROVE  \/ Keeps(table, table') /\ SameTs(table, table')
           \/ Written(table') /\ cli.at # "select undo" /\ selected # 0
<1>1. table \in Seq(Rec)
      BY DEF TypeInv
<1>2. CASE table' = table
      BY <1>1, <1>2, KeepsItself
<1>3. ASSUME table' = Saved(table), cli.at # "select undo"
      PROVE  \/ Keeps(table, table') /\ SameTs(table, table')
             \/ Written(table') /\ cli.at # "select undo" /\ selected # 0
      BY <1>2, <1>3, SavedWritten
<1>4. CASE ShowSave \/ SelectSave \/ Done
      BY <1>3, <1>4 DEF ShowSave, SelectSave, Done
<1>5. CASE RefreshNativeAppPeerStates
      BY <1>1, <1>2, <1>5, RefreshKeeps DEF RefreshNativeAppPeerStates
<1>6. CASE /\ RefreshSelected
           /\ session' = [session EXCEPT !.active = session.name \in loaded]
           /\ table' = [table EXCEPT ![selected] = [Saved(table)[selected]
                                          EXCEPT !.active = session'.active]]
  <2>1. selected # 0 /\ cli.at # "select undo"
        BY <1>6 DEF RefreshSelected, Refreshed, CliInv, OnSelected
  <2>2. PICK v \in Rec : /\ Saved(table)[selected] = v
                         /\ v.ids = table[selected].ids /\ v.addr = session.addr
                         /\ v.id = session.id /\ v.name = session.name
        BY <2>1, SavedRecord, Zenon
  <2> DEFINE b == session.name \in loaded
             r == [v EXCEPT !.active = b]
  <2>3. session'.active = b /\ b \in BOOLEAN
        BY <1>6 DEF TypeInv, SessionType
  <2>4. table' = [table EXCEPT ![selected] = r]
        BY <1>6, <2>2, <2>3
  <2> HIDE DEF b
  <2>5. /\ r \in Rec /\ r.ids = table[selected].ids /\ r.addr = session.addr
        /\ r.id = session.id /\ r.name = session.name
        BY <2>2, <2>3 DEF Rec
  <2> HIDE DEF r
  <2>6. Written(table')
        BY <2>1, <2>4, <2>5, WrittenOne
  <2> QED BY <2>1, <2>6
<1>7. CASE RefreshSelected
      BY <1>2, <1>6, <1>7, Zenon DEF RefreshSelected
<1>8. CASE Command \/ SelectRecord \/ SelectUndo \/ Load \/ Unload \/ UnloadNamed \/ SetConfig
           \/ Listen \/ StopListener \/ Join
      BY <1>2, <1>8, Zenon DEF Command, SelectRecord, SelectUndo, Load, Unload, UnloadNamed,
         SetConfig, Listen, StopListener, Join
<1> QED BY <1>4, <1>5, <1>7, <1>8 DEF CliStep

\* The command loop adds no record; before an edit is written back it moves no
\* address either.
LEMMA CliAddresses ==
    ASSUME TypeInv, CliInv, Command \/ CliStep
    PROVE  /\ table' \in Seq(Rec) /\ Len(table') = Len(table)
           /\ cli.at # "changed" => \A i \in 1..Len(table) : table'[i].addr = table[i].addr
<1>1. CASE Keeps(table, table')
      BY <1>1 DEF Keeps, SameKey
<1>2. CASE Written(table') /\ cli.at # "select undo" /\ selected # 0
  <2>1. cli.at # "changed" => session.addr = table[selected].addr
        BY <1>2 DEF CliInv, SameAddress
  <2> QED BY <1>2, <2>1 DEF Written
<1> QED BY <1>1, <1>2, CliTable

\* While the session is a copy of its record, no record gets another key, and
\* while no peer is selected none gets another selector.
LEMMA CliKeeps ==
    ASSUME TypeInv, CliInv, Unedited, Command \/ CliStep
    PROVE  Keeps(table, table') /\ (Unselected => SameTs(table, table'))
<1>1. CASE Keeps(table, table') /\ SameTs(table, table')
      BY <1>1
<1>2. CASE Written(table') /\ cli.at # "select undo" /\ selected # 0
  <2>1. /\ session.addr = table[selected].addr /\ session.id = table[selected].id
        /\ session.name = table[selected].name
        BY <1>2 DEF Unedited, SameNames
  <2>2. \A i \in 1..Len(table) : SameKey(table'[i], table[i])
        BY <1>2, <2>1 DEF Written, SameKey
  <2>3. ~Unselected
        BY <1>2 DEF Unselected
  <2> QED BY <1>2, <2>2, <2>3 DEF Keeps, Written
<1> QED BY <1>1, <1>2, CliTable

\* What the listener builds while it answers
LEMMA CandidateType ==
    ASSUME TypeInv, LisInv, Answering
    PROVE  /\ Candidate \in Rec /\ Candidate.addr = lis.call.addr /\ Candidate.ids = lis.ids
           /\ Candidate.ts = lis.call.ts /\ Candidate.id = lis.ids /\ Candidate.name = lis.ids
<1>1. lis.call \in CallType /\ lis.ids \in Ids
      BY DEF LisInv, TypeInv, LisRecord
<1> QED BY <1>1, PeerTableAssumption DEF Candidate, BuildNativeAppPeer, Rec, CallType, Outer

LEMMA CandidateFits ==
    ASSUME TypeInv, LisInv, Unedited, Answering
    PROVE  Fits(table, Candidate)
<1>1. lis.ids = AssignedIds(table, lis.call.addr) /\ CanAssign(table, lis.call.addr)
      BY DEF Unedited
<1> QED BY <1>1, CandidateType DEF Fits

LEMMA StoreAnswers ==
    ASSUME Store
    PROVE  Answering /\ table' = UpsertNativeAppPeer(table, Candidate)
BY DEF Store, Answering

LEMMA StoreGrows ==
    ASSUME TypeInv, LisInv, Store
    PROVE  Grows(table, table')
<1>1. Answering /\ table' = UpsertNativeAppPeer(table, Candidate)
      BY StoreAnswers
<1>2. table \in Seq(Rec) /\ Len(table) <= Capacity
      BY DEF TypeInv
<1>3. Candidate \in Rec
      BY <1>1, CandidateType
<1> QED BY <1>1, <1>2, <1>3, UpsertGrows

LEMMA StoreKeyed ==
    ASSUME TypeInv, LisInv, Unedited, Store
    PROVE  Keyed(table') /\ \A i \in 1..Len(table) : SameKey(table'[i], table[i])
<1>1. Answering /\ table' = UpsertNativeAppPeer(table, Candidate)
      BY StoreAnswers
<1>2. table \in Seq(Rec) /\ Keyed(table)
      BY DEF TypeInv, Unedited
<1>3. Fits(table, Candidate)
      BY <1>1, CandidateFits
<1> QED BY <1>1, <1>2, <1>3, UpsertKeyed

\* The steps that leave the table alone
LEMMA QuietTable ==
    ASSUME \/ Poll \/ Receive \/ Lookup \/ Validate \/ SendAssign \/ After \/ CloseServer
           \/ Connect \/ TakeAssign \/ Leave \/ UNCHANGED vars
    PROVE  table' = table
BY DEF Poll, Receive, Lookup, Validate, SendAssign, After, CloseServer, Connect, TakeAssign,
       Leave, vars

\* No step takes a record away or fills the table beyond its capacity, and
\* only the write-back of an edit gives a record another address.
LEMMA TableGrows ==
    ASSUME IInv, [Next]_vars
    PROVE  /\ table' \in Seq(Rec) /\ Len(table) <= Len(table') /\ Len(table') <= Capacity
           /\ cli.at # "changed" \/ ~CliStep => Grows(table, table')
<1>1. TypeInv /\ CliInv /\ LisInv /\ table \in Seq(Rec) /\ Len(table) <= Capacity
      BY DEF IInv, TypeInv
<1>2. Len(table) \in Nat
      BY <1>1, LengthOf
<1>3. CASE table' = table
      BY <1>1, <1>2, <1>3 DEF Grows
<1>4. CASE Command
      BY <1>3, <1>4 DEF Command
<1>5. CASE CliStep
  <2>1. /\ table' \in Seq(Rec) /\ Len(table') = Len(table)
        /\ cli.at # "changed" => \A i \in 1..Len(table) : table'[i].addr = table[i].addr
        BY <1>1, <1>5, CliAddresses
  <2>2. Len(table) <= Len(table') /\ Len(table') <= Capacity
        BY <1>1, <1>2, <2>1
  <2> QED BY <1>5, <2>1, <2>2 DEF Grows
<1>6. CASE Store
      BY <1>1, <1>6, StoreGrows DEF Grows
<1> QED BY <1>3, <1>4, <1>5, <1>6, QuietTable DEF Next, LisStep

\* A numbered table whose records keep their places is numbered.
LEMMA KeepsKeyed ==
    ASSUME NEW t \in Seq(Rec), Keyed(t), NEW u, Keeps(t, u)
    PROVE  Keyed(u)
<1>1. OneRecord(u)
      BY DEF Keyed, Keeps, OneRecord, SameKey
<1>2. \A i \in 1..Len(u) : /\ u[i].ids = GetNativeAppPeerSequence(i - 1)
                           /\ u[i].id = u[i].ids /\ u[i].name = u[i].ids
      BY DEF Keyed, Keeps, SameKey
<1> QED BY <1>1, <1>2 DEF Keyed

\* Until a profile is edited no step gives a record another key.
LEMMA TableKeeps ==
    ASSUME IInv, Unedited, [Next]_vars
    PROVE  Keyed(table') /\ \A i \in 1..Len(table) : SameKey(table'[i], table[i])
<1>1. TypeInv /\ CliInv /\ LisInv /\ table \in Seq(Rec) /\ Keyed(table)
      BY DEF IInv, TypeInv, Unedited
<1>2. CASE Command \/ CliStep
      BY <1>1, <1>2, CliKeeps, KeepsKeyed DEF Keeps
<1>3. CASE Store
      BY <1>1, <1>3, StoreKeyed
<1>4. CASE table' = table
      BY <1>1, <1>4 DEF SameKey
<1> QED BY <1>2, <1>3, <1>4, QuietTable DEF Next, LisStep

-----------------------------------------------------------------------------
(* Types: the command loop                                                 *)

\* The first step of a command
LEMMA FirstStep ==
    ASSUME NEW c \in DOMAIN First
    PROVE  /\ First[c] \in CliAt /\ First[c] \notin {"select undo", "changed", "select record"}
           /\ First[c] \in OnSelected => c \in {"load", "unload", "config"}
<1>1. DOMAIN First = {"show", "select", "load", "unload", "drop", "config", "listen", "stop", "quit"}
      BY DEF First
<1>2. /\ First["show"] = "show save" /\ First["select"] = "select save"
      /\ First["load"] = "load" /\ First["unload"] = "unload" /\ First["drop"] = "drop"
      /\ First["config"] = "config" /\ First["listen"] = "listen"
      /\ First["stop"] = "stop" /\ First["quit"] = "stop"
      BY DEF First
<1>3. \/ c \in {"load", "unload", "config"}
      \/ First[c] \in {"show save", "select save", "drop", "listen", "stop"}
      BY <1>1, <1>2, Zenon
<1>4. c \in {"load", "unload", "config"} => First[c] \in {"load", "unload", "config"}
      BY <1>2, Zenon
<1>5. \A x \in {"show save", "select save", "drop", "listen", "stop", "load", "unload", "config"} :
         x \in CliAt /\ x \notin {"select undo", "changed", "select record"}
      BY DEF CliAt
<1>6. \A x \in {"show save", "select save", "drop", "listen", "stop"} : x \notin OnSelected
      BY DEF OnSelected
<1> QED BY <1>3, <1>4, <1>5, <1>6, Zenon

\* The step of the command under way moves and does nothing else to it.
LEMMA CliMoves ==
    ASSUME TypeInv, NEW at \in CliAt, Cli(at)
    PROVE  /\ cli' \in CliRecord /\ cli'.at = at /\ cli'.arg = cli.arg
           /\ cli'.prev = cli.prev /\ cli'.prev <= Len(table)
BY DEF TypeInv, CliRecord, Cli

LEMMA CliFrame ==
    ASSUME TypeInv, table' \in Seq(Rec), Len(table') = Len(table),
           cli' \in CliRecord, cli'.prev <= Len(table), selected' \in 0..Len(table),
           loaded' \subseteq Ids, session' \in SessionType, edited' \in BOOLEAN,
           UNCHANGED <<running, stop, lis, backlog, inbox, mine>>
    PROVE  TypeInv'
<1>1. Len(table') <= Capacity /\ selected' \in 0..Len(table') /\ cli'.prev <= Len(table')
      BY DEF TypeInv
<1> QED BY <1>1, Zenon DEF TypeInv

LEMMA CommandTypes ==
    ASSUME TypeInv, Command
    PROVE  TypeInv'
<1>1. table \in Seq(Rec) /\ selected \in 0..Len(table) /\ Len(table) \in Nat
      BY LengthOf DEF TypeInv
<1>2. PICK c \in DOMAIN First, id \in {table[i].id : i \in 1..Len(table)} \cup {NoIds} :
         cli' = [at |-> First[c], arg |-> id, prev |-> selected]
      BY Zenon DEF Command
<1>3. id \in Ids
  <2>1. CASE id = NoIds
        BY <2>1, NoIdsType
  <2>2. CASE id # NoIds
    <3>1. PICK i \in 1..Len(table) : id = table[i].id
          BY <1>2, <2>2
    <3>2. table[i] \in Rec
          BY <1>1, EntryOf
    <3> QED BY <3>1, <3>2 DEF Rec
  <2> QED BY <2>1, <2>2
<1>4. First[c] \in CliAt
      BY FirstStep
<1>5. cli' \in CliRecord /\ cli'.prev <= Len(table)
      BY <1>1, <1>2, <1>3, <1>4 DEF CliRecord
<1>6. UNCHANGED <<table, selected, session, loaded, edited, running, stop, lis, backlog, inbox, mine>>
      BY Zenon DEF Command, threads, peerVars
<1>7. loaded' \subseteq Ids /\ session' \in SessionType /\ edited' \in BOOLEAN
      BY <1>6, Zenon DEF TypeInv
<1> QED BY <1>1, <1>5, <1>6, <1>7, CliFrame

\* peer select finds the first record of the identity.
FoundRecord(k) == k \in 1..Len(table) /\ table[k].id = cli.arg

LEMMA SelectFinds ==
    ASSUME table \in Seq(Rec), SelectRecord
    PROVE  \/ UNCHANGED <<selected, session>> /\ Cli("done")
           \/ FoundRecord(selected') /\ session' = Copy(table[selected']) /\ Cli("done")
           \/ FoundRecord(selected') /\ UNCHANGED session /\ Cli("select undo")
<1> DEFINE found == {i \in 1..Len(table) : table[i].id = cli.arg}
           k == CHOOSE i \in found : \A j \in found : i <= j
<1>1. found # {} => FoundRecord(k)
  <2>1. found \subseteq Nat
        OBVIOUS
  <2>2. found # {} => \E i \in found : \A j \in found : i <= j
        BY <2>1, LeastExists
  <2>3. found # {} => k \in found
        BY <2>2
  <2> QED BY <2>3 DEF FoundRecord
<1>2. \/ UNCHANGED <<selected, session>> /\ Cli("done")
      \/ found # {} /\ selected' = k /\ session' = Copy(table[k]) /\ Cli("done")
      \/ found # {} /\ selected' = k /\ Cli("select undo") /\ UNCHANGED session
      BY DEF SelectRecord
<1> HIDE DEF found, k
<1> QED BY <1>1, <1>2

LEMMA SessionActive ==
    ASSUME session \in SessionType, NEW b \in BOOLEAN
    PROVE  LET s == [session EXCEPT !.active = b]
           IN  /\ s \in SessionType /\ s.addr = session.addr /\ s.id = session.id
               /\ s.name = session.name
BY DEF SessionType

\* config set and config load: every profile they may give is a profile.
LEMMA SetTypes ==
    ASSUME session \in SessionType, NEW p \in OneSetting(Profile(session)) \cup Files
    PROVE  /\ [addr |-> p.addr, id |-> p.id, name |-> p.name, ts |-> p.ts, active |-> FALSE]
                 \in SessionType
<1> DEFINE P == [addr : Outer, id : Ids, name : Ids, ts : Selector]
           q == Profile(session)
<1>1. q \in P
      BY DEF Profile, SessionType
<1>2. p \in P
  <2>1. CASE p \in Files
        BY <2>1, RegistrationAssumption
  <2>2. CASE p = q
        BY <1>1, <2>2
  <2> HIDE DEF q
  <2>3. ASSUME NEW a \in Typed.addr, p = [q EXCEPT !.addr = a] PROVE p \in P
        BY <1>1, <2>3, RegistrationAssumption
  <2>4. ASSUME NEW d \in Typed.id, p = [q EXCEPT !.id = d] PROVE p \in P
        BY <1>1, <2>4, RegistrationAssumption
  <2>5. ASSUME NEW d \in Typed.name, p = [q EXCEPT !.name = d] PROVE p \in P
        BY <1>1, <2>5, RegistrationAssumption
  <2>6. ASSUME NEW s \in Typed.ts, p = [q EXCEPT !.ts = s] PROVE p \in P
        BY <1>1, <2>6, RegistrationAssumption
  <2>7. p \in OneSetting(q) \cup Files
        BY DEF q
  <2> HIDE DEF P
  <2> QED BY <2>1, <2>2, <2>3, <2>4, <2>5, <2>6, <2>7, Zenon DEF OneSetting
<1> QED BY <1>2 DEF SessionType

\* Where a step of the loop may take the command
Moved(at) ==
    /\ Cli(at) /\ cli.at # "changed" /\ at # "select save"
    /\ at = "select record" => cli.at = "select save"
    /\ at = "select undo" => SelectRecord
    /\ at = "changed" => SetConfig
    /\ at \in OnSelected => cli.at \in OnSelected

LEMMA CliAfter ==
    ASSUME TypeInv, CliStep
    PROVE  \/ cli.at \in {"done", "changed"} /\ cli' = Prompt
           \/ \E at \in CliAt : Moved(at)
<1>1. CASE Done
      BY <1>1 DEF Done
<1>2. ASSUME NEW at \in {"show refresh", "select record", "join", "done"}, Cli(at),
             cli.at # "changed", at = "select record" => cli.at = "select save"
      PROVE  \E x \in CliAt : Moved(x)
      BY <1>2 DEF Moved, CliAt, OnSelected
<1>3. CASE ShowSave \/ SelectSave
      BY <1>2, <1>3, Zenon DEF ShowSave, SelectSave
<1>4. CASE RefreshNativeAppPeerStates \/ SelectUndo
      BY <1>2, <1>4, Zenon DEF RefreshNativeAppPeerStates, SelectUndo
<1>5. CASE Load \/ UnloadNamed \/ Listen \/ Join
      BY <1>2, <1>5, Zenon DEF Load, UnloadNamed, Listen, Join
<1>6. CASE StopListener
      BY <1>2, <1>6, Zenon DEF StopListener
<1>7. CASE SelectRecord
  <2>1. cli.at = "select record" /\ (Cli("done") \/ Cli("select undo"))
        BY <1>7, SelectFinds DEF SelectRecord, TypeInv
  <2>2. CASE Cli("select undo")
        BY <1>7, <2>1, <2>2 DEF Moved, CliAt, OnSelected
  <2> QED BY <1>2, <2>1, <2>2
<1>8. CASE Unload
  <2>1. cli.at = "remove" /\ (Cli("done") \/ Cli("removed"))
        BY <1>8, Zenon DEF Unload
  <2>2. CASE Cli("removed")
        BY <2>1, <2>2 DEF Moved, CliAt, OnSelected
  <2> QED BY <1>2, <2>1, <2>2
<1>9. CASE SetConfig
  <2>1. cli.at = "set" /\ (Cli("done") \/ Cli("changed"))
        BY <1>9, Zenon DEF SetConfig
  <2>2. CASE Cli("changed")
        BY <1>9, <2>1, <2>2 DEF Moved, CliAt, OnSelected
  <2> QED BY <1>2, <2>1, <2>2
<1>10. CASE RefreshSelected
  <2>1. /\ cli.at \in {"config", "unload", "removed"}
        /\ Cli("done") \/ Cli("set") \/ Cli(Refreshed[cli.at])
        BY <1>10 DEF RefreshSelected, Refreshed
  <2>2. Refreshed[cli.at] \in {"done", "set", "remove"}
        BY <2>1 DEF Refreshed
  <2>3. ASSUME NEW at \in {"set", "remove"}, Cli(at) PROVE \E x \in CliAt : Moved(x)
        BY <2>1, <2>3 DEF Moved, CliAt, OnSelected
  <2>4. cli.at # "changed" /\ "done" # "select record"
        BY <2>1
  <2> QED BY <1>2, <2>1, <2>2, <2>3, <2>4, Zenon
<1> QED BY <1>1, <1>3, <1>4, <1>5, <1>6, <1>7, <1>8, <1>9, <1>10, Zenon DEF CliStep

LEMMA CliMovedType ==
    ASSUME TypeInv, CliStep
    PROVE  cli' \in CliRecord /\ cli'.prev <= Len(table)
<1>1. CASE cli' = Prompt
  <2>1. Prompt \in CliRecord /\ Prompt.prev = 0 /\ Len(table) \in Nat
        BY NoIdsType, LengthOf DEF Prompt, CliRecord, CliAt, TypeInv
  <2> QED BY <1>1, <2>1
<1> QED BY <1>1, CliAfter, CliMoves DEF Moved

SessionKept ==
    session'.addr = session.addr /\ session'.id = session.id /\ session'.name = session.name

\* Only a selection and a setting give the session another profile.
LEMMA CliSession ==
    ASSUME TypeInv, CliInv, CliStep, ~SelectRecord, ~SetConfig
    PROVE  session' \in SessionType /\ SessionKept /\ edited' = edited
<1>0. session \in SessionType
      BY DEF TypeInv
<1>1. ASSUME session' = session PROVE session' \in SessionType /\ SessionKept
      BY <1>0, <1>1 DEF SessionKept
<1>2. ASSUME NEW b \in BOOLEAN, session' = [session EXCEPT !.active = b]
      PROVE  session' \in SessionType /\ SessionKept
      BY <1>0, <1>2, SessionActive DEF SessionKept
<1>3. CASE ShowSave \/ SelectSave \/ SelectUndo
      BY <1>1, <1>3, Zenon DEF ShowSave, SelectSave, SelectUndo
<1>4. CASE UnloadNamed \/ Listen \/ StopListener \/ Join \/ Done
      BY <1>1, <1>4, Zenon DEF UnloadNamed, Listen, StopListener, Join, Done
<1>5. CASE Load \/ Unload
      BY <1>1, <1>2, <1>5, Zenon DEF Load, Unload
<1>6. CASE RefreshSelected
  <2>1. (session.name \in loaded) \in BOOLEAN
        OBVIOUS
  <2> QED BY <1>1, <1>2, <1>6, <2>1, Zenon DEF RefreshSelected
<1>7. CASE RefreshNativeAppPeerStates
  <2>1. CASE session' = session
        BY <1>1, <1>7, <2>1, Zenon DEF RefreshNativeAppPeerStates
  <2>2. CASE selected # 0 /\ session' = [session EXCEPT !.active = table'[selected].active]
    <3>1. table' \in Seq(Rec) /\ selected \in 1..Len(table')
          BY <2>2, CliAddresses, LengthOf DEF TypeInv
    <3>2. table'[selected] \in Rec
          BY <3>1, EntryOf
    <3>3. table'[selected].active \in BOOLEAN
          BY <3>2 DEF Rec
    <3>4. edited' = edited
          BY <1>7, Zenon DEF RefreshNativeAppPeerStates
    <3> QED BY <1>2, <2>2, <3>3, <3>4, Zenon
  <2> QED BY <1>7, <2>1, <2>2, Zenon DEF RefreshNativeAppPeerStates
<1> QED BY <1>3, <1>4, <1>5, <1>6, <1>7, Zenon DEF CliStep

\* Only selecting moves the index.
LEMMA CliSelected ==
    ASSUME CliStep, ~SelectRecord, ~SelectUndo
    PROVE  selected' = selected /\ cli.at # "select undo" /\ cli.at # "select record"
<1>1. CASE ShowSave \/ SelectSave \/ RefreshNativeAppPeerStates
      BY <1>1, Zenon DEF ShowSave, SelectSave, RefreshNativeAppPeerStates
<1>2. CASE Load \/ Unload \/ UnloadNamed \/ SetConfig
      BY <1>2, Zenon DEF Load, Unload, UnloadNamed, SetConfig
<1>3. CASE RefreshSelected
      BY <1>3 DEF RefreshSelected, Refreshed
<1>4. CASE Listen \/ StopListener \/ Join
      BY <1>4, Zenon DEF Listen, StopListener, Join
<1>5. CASE Done
      BY <1>5, Zenon DEF Done
<1> QED BY <1>1, <1>2, <1>3, <1>4, <1>5, Zenon DEF CliStep

\* Names the daemon holds are names.
LEMMA CliLoaded ==
    ASSUME TypeInv, CliStep
    PROVE  loaded' \subseteq Ids
<1>1. loaded \subseteq Ids /\ session.name \in Ids
      BY DEF TypeInv, SessionType
<1>2. CASE loaded' = loaded
      BY <1>1, <1>2
<1>3. CASE Load \/ Unload \/ UnloadNamed
      BY <1>1, <1>3, Zenon DEF Load, Unload, UnloadNamed
<1>4. CASE ShowSave \/ SelectSave \/ SelectRecord \/ SelectUndo \/ RefreshNativeAppPeerStates
      BY <1>2, <1>4, Zenon DEF ShowSave, SelectSave, SelectRecord, SelectUndo,
         RefreshNativeAppPeerStates
<1>5. CASE RefreshSelected \/ SetConfig \/ Listen \/ StopListener \/ Join \/ Done
      BY <1>2, <1>5, Zenon DEF RefreshSelected, SetConfig, Listen, StopListener, Join, Done
<1> QED BY <1>3, <1>4, <1>5, Zenon DEF CliStep

LEMMA OffType ==
    \A at \in LisAt : /\ [Off EXCEPT !.at = at] \in LisRecord
                       /\ [Off EXCEPT !.at = at].at = at
                       /\ Off \in LisRecord
BY NoIdsType DEF Off, LisRecord, LisAt

\* A selection copies a record.
LEMMA SelectTypes ==
    ASSUME TypeInv, SelectRecord
    PROVE  /\ session' \in SessionType /\ selected' \in 0..Len(table)
           /\ selected' = selected \/ FoundRecord(selected')
<1>1. table \in Seq(Rec) /\ session \in SessionType /\ selected \in 0..Len(table)
      /\ Len(table) \in Nat
      BY LengthOf DEF TypeInv
<1>2. ASSUME NEW k, FoundRecord(k)
      PROVE  k \in 0..Len(table) /\ Copy(table[k]) \in SessionType
  <2>1. table[k] \in Rec
        BY <1>1, <1>2, EntryOf DEF FoundRecord
  <2>2. k \in 0..Len(table)
        BY <1>1, <1>2 DEF FoundRecord
  <2> QED BY <2>1, <2>2 DEF Copy, Rec, SessionType
<1> QED BY <1>1, <1>2, SelectFinds

\* An edit is remembered.
LEMMA SetSession ==
    ASSUME TypeInv, SetConfig
    PROVE  /\ session' \in SessionType /\ edited' \in BOOLEAN
           /\ edited => edited'
           /\ ~edited' => SessionKept
           /\ Cli("done") => SessionKept /\ edited' = edited
<1>1. session \in SessionType /\ edited \in BOOLEAN
      BY DEF TypeInv
<1>2. CASE Cli("done") /\ UNCHANGED <<session, edited>>
      BY <1>1, <1>2, Zenon DEF SessionKept
<1>3. CASE /\ Cli("changed")
           /\ \E p \in OneSetting(Profile(session)) \cup Files :
                session' = [addr |-> p.addr, id |-> p.id, name |-> p.name, ts |-> p.ts,
                            active |-> FALSE]
           /\ edited' = (edited \/ Profile(session') # Profile(session))
  <2>1. session' \in SessionType
        BY <1>1, <1>3, SetTypes, Zenon
  <2>2. edited' \in BOOLEAN /\ (edited => edited')
        BY <1>3, Zenon
  <2>3. ~edited' => Profile(session') = Profile(session)
        BY <1>3, Zenon
  <2>4. Profile(session') = Profile(session) => SessionKept
        BY DEF Profile, SessionKept
  <2>5. ~Cli("done")
    <3>1. cli'.at = "changed"
          BY <1>3, CliMoves DEF CliAt
    <3>2. Cli("done") => cli'.at = "done"
          BY CliMoves DEF CliAt
    <3> QED BY <3>1, <3>2
  <2> QED BY <2>1, <2>2, <2>3, <2>4, <2>5, Zenon
<1> QED BY <1>2, <1>3, Zenon DEF SetConfig

LEMMA CliTypes ==
    ASSUME TypeInv, CliInv, CliStep
    PROVE  TypeInv'
<1>1. /\ table' \in Seq(Rec) /\ Len(table') = Len(table) /\ loaded' \subseteq Ids
      /\ cli' \in CliRecord /\ cli'.prev <= Len(table)
      BY CliAddresses, CliLoaded, CliMovedType
<1>2. /\ selected \in 0..Len(table) /\ cli.prev \in 0..Len(table)
      /\ session \in SessionType /\ edited \in BOOLEAN
      BY LengthOf DEF TypeInv, CliRecord
<1>3. session' \in SessionType /\ edited' \in BOOLEAN
  <2>1. CASE SelectRecord
        BY <1>2, <2>1, SelectTypes DEF SelectRecord
  <2>2. CASE SetConfig
        BY <2>2, SetSession
  <2>3. CASE ~SelectRecord /\ ~SetConfig
        BY <1>2, <2>3, CliSession
  <2> QED BY <2>1, <2>2, <2>3
<1>4. selected' \in 0..Len(table)
  <2>1. CASE SelectRecord
        BY <2>1, SelectTypes
  <2>2. CASE SelectUndo
        BY <1>2, <2>2 DEF SelectUndo
  <2>3. CASE ~SelectRecord /\ ~SelectUndo
        BY <1>2, <2>3, CliSelected
  <2> QED BY <2>1, <2>2, <2>3
<1>5. CASE UNCHANGED <<running, stop, lis, backlog, inbox, mine>>
      BY <1>1, <1>3, <1>4, <1>5, CliFrame
<1>6. CASE Listen \/ StopListener \/ Join
  <2>1. running' \in BOOLEAN /\ stop' \in BOOLEAN
        BY <1>6, Zenon DEF Listen, StopListener, Join, TypeInv
  <2>2. lis' \in LisRecord
        BY <1>6, OffType DEF LisAt, Listen, StopListener, Join, TypeInv
  <2>3. UNCHANGED <<backlog, inbox, mine>>
        BY <1>6, Zenon DEF Listen, StopListener, Join, peerVars
  <2>4. Len(table') <= Capacity /\ selected' \in 0..Len(table') /\ cli'.prev <= Len(table')
        BY <1>1, <1>4 DEF TypeInv
  <2> QED BY <1>1, <1>3, <2>1, <2>2, <2>3, <2>4, Zenon DEF TypeInv
<1>7. CASE ShowSave \/ SelectSave \/ SelectRecord \/ SelectUndo \/ RefreshNativeAppPeerStates
      BY <1>5, <1>7, Zenon DEF ShowSave, SelectSave, SelectRecord, SelectUndo,
         RefreshNativeAppPeerStates, threads, peerVars
<1>8. CASE Load \/ Unload \/ UnloadNamed \/ RefreshSelected \/ SetConfig \/ Done
      BY <1>5, <1>8, Zenon DEF Load, Unload, UnloadNamed, RefreshSelected, SetConfig, Done,
         threads, peerVars
<1> QED BY <1>6, <1>7, <1>8, Zenon DEF CliStep

-----------------------------------------------------------------------------
(* Types: the listener and the responders                                  *)

\* So does the listener's.
LEMMA LisMoves ==
    ASSUME TypeInv, NEW at \in LisAt, lis' = [lis EXCEPT !.at = at]
    PROVE  lis' \in LisRecord /\ lis'.at = at /\ lis'.call = lis.call /\ lis'.ids = lis.ids
BY DEF TypeInv, LisRecord

LEMMA LisFrame ==
    ASSUME TypeInv, table' \in Seq(Rec), Len(table) <= Len(table'), Len(table') <= Capacity,
           lis' \in LisRecord, backlog' \in Seq(CallType),
           inbox' \in [Address -> Ids], mine' \in [Address -> Ids], UNCHANGED cliVars
    PROVE  TypeInv'
<1>1. UNCHANGED <<cli, selected, loaded, session, running, stop, edited>>
      BY Zenon DEF cliVars
<1>2. selected' \in 0..Len(table') /\ cli'.prev <= Len(table')
      BY <1>1, LengthOf DEF TypeInv, CliRecord
<1> QED BY <1>1, <1>2, Zenon DEF TypeInv

\* Accepting takes the first connection of the backlog.
LEMMA PollTypes ==
    ASSUME TypeInv, Poll
    PROVE  /\ lis' \in LisRecord /\ lis'.at \in {"close", "receive", "after"}
           /\ lis'.at = "receive" => lis'.call \in CallType
           /\ backlog' \in Seq(CallType)
<1>1. backlog \in Seq(CallType)
      BY DEF TypeInv
<1>2. CASE Lis("close") /\ UNCHANGED backlog
  <2>1. lis' \in LisRecord /\ lis'.at = "close"
        BY <1>2, LisMoves DEF Lis, LisAt
  <2> QED BY <1>1, <1>2, <2>1
<1>3. CASE backlog # <<>> /\ backlog' = Tail(backlog)
  <2>1. Head(backlog) \in CallType /\ Tail(backlog) \in Seq(CallType)
        BY <1>1, <1>3
  <2>2. CASE lis' = [Off EXCEPT !.at = "receive", !.call = Head(backlog)]
        BY <1>3, <2>1, <2>2, NoIdsType DEF Off, LisRecord, LisAt
  <2>3. CASE lis' = [Off EXCEPT !.at = "after", !.call = Head(backlog)]
        BY <1>3, <2>1, <2>3, NoIdsType DEF Off, LisRecord, LisAt
  <2>4. CASE Lis("close") /\ UNCHANGED backlog
        BY <2>4, <1>2
  <2> QED BY <1>3, <2>2, <2>3, <2>4 DEF Poll
<1> QED BY <1>2, <1>3 DEF Poll

\* The lookup hands out ids of the table.
LEMMA LookupTypes ==
    ASSUME TypeInv, Lookup
    PROVE  /\ lis' \in LisRecord /\ lis'.call = lis.call
           /\ \/ lis'.at = "after"
              \/ /\ lis'.at = "validate" /\ CanAssign(table, lis.call.addr)
                 /\ lis'.ids = AssignedIds(table, lis.call.addr)
<1> DEFINE a == lis.call.addr
           d == AssignedIds(table, a)
<1>1. lis \in LisRecord /\ table \in Seq(Rec) /\ Len(table) \in Nat
      BY LengthOf DEF TypeInv
<1>2. CASE CanAssign(table, a)
  <2>1. d \in Ids
    <3> DEFINE f == FindByRemoteAddress(table, a)
    <3>1. f \in 0..Len(table)
          BY <1>1, FindSpec
    <3>2. CASE f # 0
      <4>1. table[f] \in Rec
            BY <1>1, <3>1, <3>2, EntryOf
      <4> QED BY <3>2, <4>1 DEF AssignedIds, Rec
    <3>3. CASE f = 0
          BY <1>1, <1>2, <3>3, SequenceIds DEF AssignedIds, CanAssign
    <3> QED BY <3>2, <3>3
  <2>2. lis' = [lis EXCEPT !.at = "validate", !.ids = d]
        BY <1>2 DEF Lookup
  <2>3. lis' \in LisRecord /\ lis'.call = lis.call /\ lis'.at = "validate" /\ lis'.ids = d
    <3> HIDE DEF d
    <3> QED BY <1>1, <2>1, <2>2 DEF LisRecord, LisAt
  <2> QED BY <1>2, <2>3
<1>3. CASE ~CanAssign(table, a)
      BY <1>1, <1>3, LisMoves DEF Lookup, LisAt
<1> QED BY <1>2, <1>3

LEMMA LisTypes ==
    ASSUME IInv, LisStep
    PROVE  TypeInv'
<1>0. table' \in Seq(Rec) /\ Len(table) <= Len(table') /\ Len(table') <= Capacity
      BY TableGrows DEF Next
<1>1. TypeInv /\ backlog \in Seq(CallType)
      /\ inbox \in [Address -> Ids] /\ mine \in [Address -> Ids] /\ lis \in LisRecord
      BY DEF IInv, TypeInv
<1>2. UNCHANGED cliVars /\ UNCHANGED mine
      BY DEF LisStep, Poll, Receive, Lookup, Validate, SendAssign, Store, After, CloseServer, peerVars
<1>3. CASE Poll
      BY <1>0, <1>1, <1>2, <1>3, PollTypes, LisFrame DEF Poll, peerVars
<1>4. CASE Receive \/ Validate \/ Store \/ After
  <2>1. UNCHANGED <<backlog, inbox>>
        BY <1>4 DEF Receive, Validate, Store, After, peerVars
  <2>2. lis' \in LisRecord
    <3>1. CASE Receive
          BY <1>1, <3>1, LisMoves DEF Receive, Lis, LisAt
    <3>2. CASE Validate
          BY <1>1, <3>2, LisMoves DEF Validate, Lis, LisAt
    <3>3. CASE Store
          BY <1>1, <3>3, LisMoves DEF Store, Lis, LisAt
    <3>4. CASE After
          BY <3>4, OffType DEF After, LisAt
    <3> QED BY <1>4, <3>1, <3>2, <3>3, <3>4
  <2> QED BY <1>0, <1>1, <1>2, <2>1, <2>2, LisFrame
<1>5. CASE Lookup
      BY <1>0, <1>1, <1>2, <1>5, LookupTypes, LisFrame DEF Lookup, peerVars
<1>6. CASE SendAssign
  <2>1. lis' \in LisRecord /\ UNCHANGED backlog
        BY <1>1, <1>6, LisMoves DEF SendAssign, Lis, LisAt
  <2>2. inbox' \in [Address -> Ids]
        BY <1>1, <1>6 DEF SendAssign, LisRecord
  <2> QED BY <1>0, <1>1, <1>2, <2>1, <2>2, LisFrame
<1>7. CASE CloseServer
  <2>1. lis' \in LisRecord
        BY <1>7, OffType DEF CloseServer, LisAt
  <2>2. backlog' \in Seq(CallType) /\ UNCHANGED inbox
        BY <1>7 DEF CloseServer, peerVars
  <2> QED BY <1>0, <1>1, <1>2, <2>1, <2>2, LisFrame
<1> QED BY <1>3, <1>4, <1>5, <1>6, <1>7 DEF LisStep

\* A client that leaves its connection
LEMMA LeftType ==
    ASSUME NEW c \in CallType \cup {NoCall}, NEW a
    PROVE  /\ Left(c, a) \in CallType \cup {NoCall}
           /\ c \in CallType => Left(c, a) \in CallType
           /\ Left(c, a).addr = c.addr /\ Left(c, a).ts = c.ts
<1> DEFINE b == c.live /\ c.addr # a
<1>1. b \in BOOLEAN /\ (b => c.live)
      OBVIOUS
<1>2. Left(c, a) = [c EXCEPT !.live = b]
      BY DEF Left
<1>3. CASE c \in CallType
  <2> HIDE DEF b
  <2> QED BY <1>1, <1>2, <1>3 DEF CallType
<1>4. CASE c = NoCall
  <2>1. b = FALSE
        BY <1>4 DEF NoCall
  <2> HIDE DEF b
  <2> QED BY <1>2, <1>4, <2>1 DEF NoCall
<1> QED BY <1>3, <1>4

LEMMA PeerTypes ==
    ASSUME IInv, Connect \/ TakeAssign \/ Leave
    PROVE  TypeInv'
<1>0. table' \in Seq(Rec) /\ Len(table) <= Len(table') /\ Len(table') <= Capacity
      BY TableGrows DEF Next
<1>1. TypeInv /\ backlog \in Seq(CallType)
      /\ inbox \in [Address -> Ids] /\ mine \in [Address -> Ids] /\ lis \in LisRecord
      BY DEF IInv, TypeInv
<1>2. UNCHANGED cliVars
      BY DEF Connect, TakeAssign, Leave
<1>3. CASE Connect
  <2>0. PICK a \in Address : \E s \in SelectorsOf[a] :
           backlog' = Append(backlog, [addr |-> a, ts |-> s, live |-> TRUE])
        BY <1>3 DEF Connect
  <2>1. PICK s \in SelectorsOf[a] :
           backlog' = Append(backlog, [addr |-> a, ts |-> s, live |-> TRUE])
        BY <2>0
  <2>2. [addr |-> a, ts |-> s, live |-> TRUE] \in CallType
        BY DEF CallType, Selector
  <2>3. backlog' \in Seq(CallType)
        BY <1>1, <2>1, <2>2
  <2>4. UNCHANGED <<lis, inbox, mine>>
        BY <1>3 DEF Connect
  <2> QED BY <1>0, <1>1, <1>2, <2>3, <2>4, LisFrame
<1>4. CASE TakeAssign
      BY <1>0, <1>1, <1>2, <1>4, NoIdsType, LisFrame DEF TakeAssign
<1>5. CASE Leave
  <2>1. PICK a \in Address :
           /\ lis' = [lis EXCEPT !.call = Left(@, a)]
           /\ backlog' = [i \in 1..Len(backlog) |-> Left(backlog[i], a)]
           /\ inbox' = [inbox EXCEPT ![a] = NoIds]
           /\ mine' \in {mine, [mine EXCEPT ![a] = NoIds]}
        BY <1>5 DEF Leave
  <2>2. inbox' \in [Address -> Ids] /\ mine' \in [Address -> Ids]
        BY <1>1, <2>1, NoIdsType
  <2>3. lis' \in LisRecord
        BY <1>1, <2>1, LeftType DEF LisRecord
  <2>4. \A i \in 1..Len(backlog) : Left(backlog[i], a) \in CallType
    <3>1. \A i \in 1..Len(backlog) : backlog[i] \in CallType
          BY <1>1, EntryOf
    <3> QED BY <3>1, LeftType
  <2>5. backlog' \in [1..Len(backlog) -> CallType] /\ Len(backlog) \in Nat
        BY <1>1, <2>1, <2>4
  <2>6. backlog' \in Seq(CallType)
        BY <2>5, FunctionIsSeq
  <2> QED BY <1>0, <1>1, <1>2, <2>2, <2>3, <2>6, LisFrame
<1> QED BY <1>3, <1>4, <1>5

LEMMA TypeStep ==
    ASSUME IInv, [Next]_vars
    PROVE  TypeInv'
<1>1. TypeInv /\ CliInv
      BY DEF IInv
<1>2. CASE UNCHANGED vars
      BY <1>1, <1>2 DEF TypeInv, vars, cliVars, peerVars
<1> QED BY <1>1, <1>2, CommandTypes, CliTypes, LisTypes, PeerTypes DEF Next

-----------------------------------------------------------------------------
(* The session and the selected record, whatever is edited                 *)

\* The listener and the responders never touch the session or the selection.
LEMMA OthersStay ==
    ASSUME LisStep \/ Connect \/ TakeAssign \/ Leave \/ UNCHANGED vars
    PROVE  UNCHANGED cliVars
BY Zenon DEF LisStep, Poll, Receive, Lookup, Validate, SendAssign, Store, After, CloseServer,
       Connect, TakeAssign, Leave, vars

\* A session that keeps its address keeps it in common with its record.
LEMMA AddressKept ==
    ASSUME TypeInv, Grows(table, table'), session'.addr = session.addr,
           NEW s \in 0..Len(table), SameAddress(s), s # 0
    PROVE  session'.addr = table'[s].addr
<1>1. s \in 1..Len(table)
      BY LengthOf DEF TypeInv
<1> QED BY <1>1 DEF Grows, SameAddress

\* Nothing but the undoing of a selection unselects.
LEMMA CliUnselected ==
    ASSUME TypeInv, CliInv, Command \/ CliStep, Unselected'
    PROVE  Unselected
<1>1. CASE Command
  <2>1. PICK c \in DOMAIN First, id \in {table[i].id : i \in 1..Len(table)} \cup {NoIds} :
           cli' = [at |-> First[c], arg |-> id, prev |-> selected]
        BY <1>1, Zenon DEF Command
  <2>2. cli'.at # "select undo" /\ selected' = selected
        BY <1>1, <2>1, FirstStep DEF Command
  <2> QED BY <2>2 DEF Unselected
<1>2. CASE SelectRecord
  <2>1. table \in Seq(Rec) /\ cli.at = "select record" /\ cli.prev = selected
        BY <1>2 DEF SelectRecord, CliInv, TypeInv
  <2>2. /\ Cli("done") => cli'.at = "done"
        /\ Cli("done") \/ Cli("select undo") => cli'.prev = selected
        BY <2>1, CliMoves DEF CliAt
  <2>3. ASSUME NEW k, FoundRecord(k) PROVE k # 0
        BY ONLY <2>3 DEF FoundRecord
  <2> QED BY <1>2, <2>1, <2>2, <2>3, SelectFinds DEF Unselected
<1>3. CASE SelectUndo
  <2>1. cli'.at = "done"
        BY <1>3, CliMoves DEF SelectUndo, CliAt
  <2> QED BY <1>3, <2>1 DEF SelectUndo, Unselected
<1>4. CASE CliStep /\ ~SelectRecord /\ ~SelectUndo
  <2>1. selected' = selected /\ cli.at # "select undo"
        BY <1>4, CliSelected
  <2>2. cli'.at # "select undo"
    <3>1. Prompt.at = "prompt"
          BY DEF Prompt
    <3>2. \A at \in CliAt : Moved(at) => cli'.at = at /\ at # "select undo"
          BY <1>4, CliMoves DEF Moved
    <3> QED BY <1>4, <3>1, <3>2, CliAfter
  <2> QED BY <2>1, <2>2 DEF Unselected
<1> QED BY <1>1, <1>2, <1>3, <1>4

LEMMA UnselectedBefore ==
    ASSUME IInv, [Next]_vars, Unselected'
    PROVE  Unselected
<1>1. CASE Command \/ CliStep
      BY <1>1, CliUnselected DEF IInv
<1>2. CASE UNCHANGED cliVars
      BY <1>2, Zenon DEF cliVars, Unselected
<1> QED BY <1>1, <1>2, OthersStay DEF Next

\* Only SetConfig edits, and it needs a selected peer.
LEMMA EditedSelected ==
    ASSUME IInv, [Next]_vars, edited'
    PROVE  ~Unselected'
<1>1. TypeInv /\ CliInv
      BY DEF IInv
<1>2. CASE edited
      BY <1>1, <1>2, UnselectedBefore DEF CliInv
<1>3. CASE SetConfig
  <2>1. selected # 0 /\ cli.at = "set"
        BY <1>1, <1>3 DEF SetConfig, CliInv, OnSelected
  <2>2. ~Unselected
        BY <2>1 DEF Unselected
  <2> QED BY <2>2, UnselectedBefore
<1>4. CASE SelectRecord \/ Command
      BY <1>2, <1>4, Zenon DEF SelectRecord, Command
<1>5. CASE CliStep /\ ~SelectRecord /\ ~SetConfig
      BY <1>1, <1>2, <1>5, CliSession
<1>6. CASE UNCHANGED cliVars
      BY <1>2, <1>6, Zenon DEF cliVars
<1> QED BY <1>3, <1>4, <1>5, <1>6, OthersStay, Zenon DEF Next

\* The command moves, the selection stays and the session keeps its address.
LEMMA SelectionStays ==
    ASSUME TypeInv, CliInv, Grows(table, table'), session'.addr = session.addr,
           selected' = selected, cli.at \notin {"select undo", "changed"},
           cli'.at # "select undo",
           cli'.at \in {"select save", "select record"} => cli'.prev = selected,
           cli'.at \in OnSelected => selected # 0,
           edited' => ~Unselected'
    PROVE  CliInv'
<1>1. SameAddress(selected) /\ selected \in 0..Len(table)
      BY DEF CliInv, TypeInv
<1>2. SameAddress(selected)'
      BY <1>1, AddressKept DEF SameAddress
<1> QED BY <1>2, Zenon DEF CliInv

LEMMA CommandCli ==
    ASSUME IInv, Command
    PROVE  CliInv' /\ cli'.at # "select undo"
<1>1. Grows(table, table')
  <2>1. cli.at = "prompt"
        BY DEF Command, Prompt
  <2> QED BY <2>1, TableGrows DEF Next
<1>2. PICK c \in DOMAIN First, id \in {table[i].id : i \in 1..Len(table)} \cup {NoIds} :
         /\ c \in {"load", "unload", "config"} => selected # 0
         /\ cli' = [at |-> First[c], arg |-> id, prev |-> selected]
      BY Zenon DEF Command
<1>3. /\ cli.at \notin {"select undo", "changed"} /\ selected' = selected
      /\ session'.addr = session.addr
      BY DEF Command, Prompt
<1>4. cli'.at = First[c] /\ cli'.prev = selected
      BY <1>2
<1>5. /\ cli'.at # "select undo"
      /\ cli'.at \in {"select save", "select record"} => cli'.prev = selected
      /\ cli'.at \in OnSelected => selected # 0
      BY <1>2, <1>4, FirstStep
<1>6. edited' => ~Unselected'
      BY EditedSelected DEF Next
<1> QED BY <1>1, <1>3, <1>5, <1>6, SelectionStays DEF IInv

LEMMA SelectCli ==
    ASSUME IInv, SelectRecord
    PROVE  CliInv'
<1>1. TypeInv /\ CliInv /\ table \in Seq(Rec)
      BY DEF IInv, TypeInv
<1>2. /\ cli.at = "select record" /\ cli.prev = selected /\ SameAddress(selected) /\ table' = table
      BY <1>1 DEF SelectRecord, CliInv
<1>3. edited' => ~Unselected'
      BY EditedSelected DEF Next, CliStep
<1>4. ASSUME NEW at \in CliAt, Cli(at)
      PROVE  cli'.at = at /\ cli'.prev = cli.prev
      BY <1>1, <1>4, CliMoves
<1>5. {"done", "select undo"} \subseteq CliAt
      BY DEF CliAt
<1>6. CASE UNCHANGED <<selected, session>> /\ Cli("done")
  <2>1. cli'.at = "done" /\ SameAddress(selected)'
        BY <1>2, <1>4, <1>5, <1>6 DEF SameAddress
  <2> QED BY <1>3, <2>1 DEF CliInv, OnSelected
<1>7. CASE FoundRecord(selected') /\ session' = Copy(table[selected']) /\ Cli("done")
  <2>1. cli'.at = "done" /\ SameAddress(selected)'
        BY <1>2, <1>4, <1>5, <1>7 DEF SameAddress, Copy
  <2> QED BY <1>3, <2>1 DEF CliInv, OnSelected
<1>8. CASE FoundRecord(selected') /\ UNCHANGED session /\ Cli("select undo")
  <2>1. cli'.at = "select undo" /\ SameAddress(cli.prev)'
        BY <1>2, <1>4, <1>5, <1>8 DEF SameAddress
  <2> QED BY <1>3, <2>1 DEF CliInv, OnSelected
<1> QED BY <1>1, <1>6, <1>7, <1>8, SelectFinds

LEMMA UndoCli ==
    ASSUME IInv, SelectUndo
    PROVE  CliInv'
<1>1. /\ cli.at = "select undo" /\ selected' = cli.prev /\ SameAddress(cli.prev)
      /\ UNCHANGED <<table, session>>
      BY DEF SelectUndo, IInv, CliInv
<1>2. edited' => ~Unselected'
      BY EditedSelected DEF Next, CliStep
<1>3. cli'.at = "done"
      BY CliMoves DEF SelectUndo, CliAt, IInv
<1>4. SameAddress(selected)'
      BY <1>1 DEF SameAddress
<1> QED BY <1>2, <1>3, <1>4 DEF CliInv, OnSelected

\* An edit is written back to the selected record, whose address it becomes.
LEMMA DoneCli ==
    ASSUME IInv, Done
    PROVE  CliInv'
<1>1. cli'.at = "prompt" /\ UNCHANGED <<selected, session>> /\ table' = Saved(table)
      BY DEF Done, Prompt
<1>2. edited' => ~Unselected'
      BY EditedSelected DEF Next, CliStep
<1>3. Written(table')
      BY <1>1, SavedWritten DEF IInv
<1>4. SameAddress(selected)'
      BY <1>1, <1>3 DEF Written, SameAddress
<1> QED BY <1>1, <1>2, <1>4 DEF CliInv, OnSelected

LEMMA SetCli ==
    ASSUME IInv, SetConfig, Cli("changed")
    PROVE  CliInv'
<1>1. cli.at = "set" /\ UNCHANGED selected
      BY Zenon DEF SetConfig
<1>2. selected # 0
      BY <1>1 DEF IInv, CliInv, OnSelected
<1>3. edited' => ~Unselected'
      BY EditedSelected DEF Next, CliStep
<1>4. cli'.at = "changed"
      BY CliMoves DEF CliAt, IInv
<1> QED BY <1>1, <1>2, <1>3, <1>4 DEF CliInv, OnSelected

LEMMA CliCli ==
    ASSUME IInv, CliStep
    PROVE  CliInv'
<1>1. TypeInv /\ CliInv
      BY DEF IInv
<1>2. CASE SelectRecord \/ SelectUndo \/ Done \/ (SetConfig /\ Cli("changed"))
      BY <1>2, SelectCli, UndoCli, DoneCli, SetCli
<1>3. CASE ~SelectRecord /\ ~SelectUndo /\ ~Done /\ ~(SetConfig /\ Cli("changed"))
  <2>1. selected' = selected /\ cli.at \notin {"select undo", "select record"}
        BY <1>3, CliSelected
  <2>2. session'.addr = session.addr
    <3>1. CASE SetConfig
          BY <1>1, <1>3, <3>1, SetSession, Zenon DEF SetConfig, SessionKept
    <3>2. CASE ~SetConfig
          BY <1>1, <1>3, <3>2, CliSession DEF SessionKept
    <3> QED BY <3>1, <3>2
  <2>3. PICK at \in CliAt : Moved(at)
    <3>1. cli' # Prompt \/ cli.at \notin {"done", "changed"}
      <4>1. SUFFICES ASSUME cli.at \in {"done", "changed"} PROVE Done
            BY <1>3, <4>1
      <4> QED BY <4>1 DEF CliStep, ShowSave, RefreshNativeAppPeerStates, SelectSave,
                 SelectRecord, SelectUndo, Load, Unload, UnloadNamed, RefreshSelected, Refreshed,
                 SetConfig, Listen, StopListener, Join
    <3> QED BY <1>1, <3>1, CliAfter
  <2>4. /\ cli'.at = at /\ cli'.prev = cli.prev /\ cli.at # "changed" /\ at # "select save"
        /\ at # "select undo" /\ at # "changed"
        /\ at = "select record" => cli.at = "select save"
        /\ at \in OnSelected => cli.at \in OnSelected
        BY <1>1, <1>3, <2>3, CliMoves, Zenon DEF Moved
  <2>5. Grows(table, table')
        BY <2>4, TableGrows DEF Next
  <2>6. edited' => ~Unselected'
        BY EditedSelected DEF Next
  <2>7. /\ cli'.at \in {"select save", "select record"} => cli'.prev = selected
        /\ cli'.at \in OnSelected => selected # 0
        BY <1>1, <2>4 DEF CliInv
  <2> QED BY <1>1, <2>1, <2>2, <2>4, <2>5, <2>6, <2>7, SelectionStays
<1> QED BY <1>2, <1>3

LEMMA OthersCli ==
    ASSUME IInv, [Next]_vars, UNCHANGED cliVars, ~CliStep
    PROVE  CliInv'
<1>1. /\ Grows(table, table') /\ UNCHANGED <<cli, selected, session, edited>>
      BY TableGrows DEF cliVars
<1>2. TypeInv /\ CliInv /\ selected \in 0..Len(table) /\ cli.prev \in 0..Len(table)
      BY LengthOf DEF IInv, TypeInv, CliRecord
<1>3. ASSUME NEW s \in 0..Len(table), SameAddress(s)
      PROVE  s # 0 => session'.addr = table'[s].addr
      BY <1>1, <1>2, <1>3, AddressKept
<1>4. CASE cli.at \notin {"select undo", "changed"}
      BY <1>1, <1>2, <1>3, <1>4 DEF CliInv, SameAddress, Unselected
<1>5. CASE cli.at = "select undo"
      BY <1>1, <1>2, <1>3, <1>5 DEF CliInv, SameAddress, Unselected
<1>6. CASE cli.at = "changed"
      BY <1>1, <1>2, <1>6 DEF CliInv, Unselected
<1> QED BY <1>4, <1>5, <1>6

LEMMA CliInvStep ==
    ASSUME IInv, [Next]_vars
    PROVE  CliInv'
<1>1. CASE Command
      BY <1>1, CommandCli
<1>2. CASE CliStep
      BY <1>2, CliCli
<1>3. CASE UNCHANGED cliVars /\ ~CliStep
      BY <1>3, OthersCli
<1> QED BY <1>1, <1>2, <1>3, OthersStay, Zenon DEF Next

-----------------------------------------------------------------------------
(* The listener                                                            *)

\* A step of the command loop that leaves the listener alone, or starts or
\* joins it
LEMMA CliListener ==
    ASSUME LisInv, Command \/ CliStep
    PROVE  \/ UNCHANGED <<lis, running>>
           \/ lis'.at = "poll" /\ lis.at = "off" /\ running' = TRUE
           \/ lis'.at = "off" /\ lis.at = "end"
<1>1. CASE Listen
  <2>1. CASE UNCHANGED <<lis, running>>
        BY <2>1
  <2>2. CASE ~running /\ running' = TRUE /\ lis' = [Off EXCEPT !.at = "poll"]
    <3>1. lis'.at = "poll"
          BY <2>2, OffType DEF LisAt
    <3> QED BY <2>2, <3>1 DEF LisInv
  <2> QED BY <1>1, <2>1, <2>2 DEF Listen
<1>2. CASE Join
      BY <1>2 DEF Join, Off
<1>3. CASE Command \/ ShowSave \/ RefreshNativeAppPeerStates \/ SelectSave \/ SelectRecord \/ SelectUndo
      BY <1>3, Zenon DEF Command, ShowSave, RefreshNativeAppPeerStates, SelectSave, SelectRecord,
         SelectUndo, threads
<1>4. CASE Load \/ Unload \/ UnloadNamed \/ RefreshSelected \/ SetConfig \/ StopListener \/ Done
      BY <1>4, Zenon DEF Load, Unload, UnloadNamed, RefreshSelected, SetConfig, StopListener, Done,
         threads
<1> QED BY <1>1, <1>2, <1>3, <1>4, Zenon DEF CliStep

\* What the listener is about to store does not change
SameCall ==
    /\ lis'.at = lis.at /\ lis'.ids = lis.ids
    /\ lis'.call.addr = lis.call.addr /\ lis'.call.ts = lis.call.ts

\* A client that leaves does not disturb the answer to it.
LEMMA PeerLis ==
    ASSUME TypeInv, LisInv, Connect \/ TakeAssign \/ Leave \/ UNCHANGED vars
    PROVE  LisInv' /\ SameCall
<1>1. UNCHANGED running /\ lis \in LisRecord
      BY OthersStay DEF cliVars, TypeInv
<1>2. CASE lis' = lis
      BY <1>1, <1>2 DEF LisInv, Answering, SameCall
<1>3. CASE Leave
  <2>1. PICK a \in Address : lis' = [lis EXCEPT !.call = Left(@, a)]
        BY <1>3, Zenon DEF Leave
  <2>2. lis'.at = lis.at /\ lis'.ids = lis.ids /\ lis'.call = Left(lis.call, a)
        BY <1>1, <2>1 DEF LisRecord
  <2>3. lis.call \in CallType \cup {NoCall}
        BY <1>1 DEF LisRecord
  <2>4. /\ lis'.call.addr = lis.call.addr /\ lis'.call.ts = lis.call.ts
        /\ lis.call \in CallType => lis'.call \in CallType
        BY <2>2, <2>3, LeftType
  <2> QED BY <1>1, <2>2, <2>4 DEF LisInv, Answering, SameCall
<1>4. ~Leave => lis' = lis
      BY Zenon DEF Connect, TakeAssign, vars
<1> QED BY <1>2, <1>3, <1>4

\* What a step of the listener thread does to the answer under way
LEMMA LisMoved ==
    ASSUME TypeInv, LisInv, LisStep
    PROVE  /\ LisInv'
           /\ Answering' => /\ table' = table /\ lis'.call = lis.call
                            /\ \/ /\ lis'.ids = AssignedIds(table, lis.call.addr)
                                  /\ CanAssign(table, lis.call.addr)
                               \/ Answering /\ lis'.ids = lis.ids
<1>1. lis \in LisRecord /\ lis.at # "off" /\ running' = running
      BY OthersStay
      DEF TypeInv, LisStep, Poll, Receive, Lookup, Validate, SendAssign, Store, After,
          CloseServer, cliVars
<1>2. ASSUME NEW at \in LisAt, Lis(at)
      PROVE  lis'.at = at /\ lis'.call = lis.call /\ lis'.ids = lis.ids
      BY <1>2, LisMoves DEF Lis
<1>3. CASE Poll
      BY <1>1, <1>3, PollTypes DEF Answering, LisInv
<1>4. CASE Receive
  <2>1. lis'.at \in {"lookup", "after"} /\ lis'.call = lis.call /\ lis.at = "receive"
        BY <1>2, <1>4 DEF Receive, LisAt
  <2> QED BY <1>1, <2>1 DEF Answering, LisInv
<1>5. CASE Lookup
  <2>1. lis.at = "lookup" /\ table' = table
        BY <1>5 DEF Lookup
  <2> QED BY <1>1, <1>5, <2>1, LookupTypes DEF Answering, LisInv
<1>6. CASE Validate \/ SendAssign
  <2>1. /\ lis'.at \in {"send", "store", "after"} /\ lis'.call = lis.call /\ lis'.ids = lis.ids
        /\ Answering /\ table' = table
        BY <1>2, <1>6 DEF Validate, SendAssign, LisAt, Answering
  <2> QED BY <1>1, <2>1 DEF LisInv, Answering
<1>7. CASE Store
  <2>1. lis'.at = "after"
        BY <1>2, <1>7 DEF Store, LisAt
  <2> QED BY <1>1, <2>1 DEF LisInv, Answering
<1>8. CASE After \/ CloseServer
  <2>1. lis'.at \in {"poll", "end"}
        BY <1>8, OffType DEF After, CloseServer, LisAt
  <2> QED BY <1>1, <2>1 DEF LisInv, Answering
<1> QED BY <1>3, <1>4, <1>5, <1>6, <1>7, <1>8 DEF LisStep

LEMMA LisInvStep ==
    ASSUME IInv, [Next]_vars
    PROVE  LisInv'
<1>1. TypeInv /\ LisInv
      BY DEF IInv
<1>2. CASE Command \/ CliStep
      BY <1>1, <1>2, CliListener DEF LisInv, Answering
<1> QED BY <1>1, <1>2, LisMoved, PeerLis DEF Next

-----------------------------------------------------------------------------
(* Until a profile is edited                                               *)

LEMMA UneditedBefore ==
    ASSUME IInv, [Next]_vars, ~edited'
    PROVE  ~edited
<1>1. TypeInv /\ CliInv
      BY DEF IInv
<1>2. CASE SetConfig
      BY <1>1, <1>2, SetSession
<1>3. CASE SelectRecord \/ Command
      BY <1>3, Zenon DEF SelectRecord, Command
<1>4. CASE CliStep /\ ~SelectRecord /\ ~SetConfig
      BY <1>1, <1>4, CliSession
<1>5. CASE UNCHANGED cliVars
      BY <1>5, Zenon DEF cliVars
<1> QED BY <1>2, <1>3, <1>4, <1>5, OthersStay, Zenon DEF Next

\* What the lookup found stays true until the store.
LEMMA AnswerKept ==
    ASSUME IInv, Unedited, [Next]_vars, Answering'
    PROVE  /\ lis'.ids = AssignedIds(table', lis'.call.addr)
           /\ CanAssign(table', lis'.call.addr)
<1>1. TypeInv /\ CliInv /\ LisInv /\ table \in Seq(Rec) /\ OneRecord(table)
      BY DEF IInv, TypeInv, Unedited, Keyed
<1>2. Answering => /\ lis.ids = AssignedIds(table, lis.call.addr)
                   /\ CanAssign(table, lis.call.addr)
      BY DEF Unedited
<1>3. CASE Command \/ CliStep
  <2>1. lis' = lis
        BY <1>1, <1>3, CliListener DEF Answering
  <2>2. Answering
        BY <2>1 DEF Answering
  <2>3. /\ AssignedIds(table', lis.call.addr) = AssignedIds(table, lis.call.addr)
        /\ CanAssign(table', lis.call.addr) = CanAssign(table, lis.call.addr)
        BY <1>1, <1>3, CliKeeps, KeepsFind
  <2> QED BY <1>2, <2>1, <2>2, <2>3
<1>4. CASE LisStep
  <2>1. /\ table' = table /\ lis'.call = lis.call
        /\ \/ /\ lis'.ids = AssignedIds(table, lis.call.addr)
              /\ CanAssign(table, lis.call.addr)
           \/ Answering /\ lis'.ids = lis.ids
        BY <1>1, <1>4, LisMoved
  <2> QED BY <1>2, <2>1
<1>5. CASE Connect \/ TakeAssign \/ Leave \/ UNCHANGED vars
  <2>1. table' = table /\ SameCall
        BY <1>1, <1>5, PeerLis, QuietTable
  <2>2. Answering
        BY <2>1 DEF SameCall, Answering
  <2> QED BY <1>2, <2>1, <2>2 DEF SameCall
<1> QED BY <1>3, <1>4, <1>5 DEF Next

\* A session that keeps its profile stays a copy of its record.
LEMMA NamesKept ==
    ASSUME TypeInv, \A i \in 1..Len(table) : SameKey(table'[i], table[i]), SessionKept,
           NEW s \in 0..Len(table), SameNames(s), s # 0
    PROVE  /\ session'.addr = table'[s].addr /\ session'.id = table'[s].id
           /\ session'.name = table'[s].name
<1>1. s \in 1..Len(table)
      BY LengthOf DEF TypeInv
<1>2. SameKey(table'[s], table[s])
      BY <1>1
<1> QED BY <1>2 DEF SameKey, SessionKept, SameNames

\* Before a profile is edited, the session is a copy of the selected record or,
\* while a selection is undone, of the one before.
CopyInv ==
    /\ cli.at # "select undo" => SameNames(selected)
    /\ cli.at = "select undo" => SameNames(cli.prev)

LEMMA SelectCopies ==
    ASSUME TypeInv, CliInv, CopyInv, SelectRecord
    PROVE  CopyInv'
<1>1. table \in Seq(Rec)
      BY DEF TypeInv
<1>2. /\ cli.at = "select record" /\ cli.prev = selected /\ SameNames(selected) /\ table' = table
      BY DEF SelectRecord, CliInv, CopyInv
<1>3. ASSUME NEW at \in CliAt, Cli(at)
      PROVE  cli'.at = at /\ cli'.prev = cli.prev
      BY <1>3, CliMoves
<1>4. {"done", "select undo"} \subseteq CliAt
      BY DEF CliAt
<1>5. CASE UNCHANGED <<selected, session>> /\ Cli("done")
      BY <1>2, <1>3, <1>4, <1>5 DEF SameNames, CopyInv
<1>6. CASE FoundRecord(selected') /\ session' = Copy(table[selected']) /\ Cli("done")
  <2>1. cli'.at = "done" /\ SameNames(selected)'
        BY <1>2, <1>3, <1>4, <1>6 DEF SameNames, Copy
  <2> QED BY <2>1 DEF CopyInv
<1>7. CASE FoundRecord(selected') /\ UNCHANGED session /\ Cli("select undo")
      BY <1>2, <1>3, <1>4, <1>7 DEF SameNames, CopyInv
<1> QED BY <1>1, <1>5, <1>6, <1>7, SelectFinds

LEMMA UndoCopies ==
    ASSUME TypeInv, CopyInv, SelectUndo
    PROVE  CopyInv'
<1>1. /\ cli.at = "select undo" /\ selected' = cli.prev /\ SameNames(cli.prev)
      /\ UNCHANGED <<table, session>>
      BY DEF SelectUndo, CopyInv
<1>2. cli'.at = "done"
      BY CliMoves DEF SelectUndo, CliAt
<1> QED BY <1>1, <1>2 DEF SameNames, CopyInv

LEMMA CopyStep ==
    ASSUME IInv, Unedited, [Next]_vars, ~edited'
    PROVE  CopyInv'
<1>0. TypeInv /\ CliInv /\ CopyInv
      BY DEF IInv, Unedited, CopyInv
<1>1. TypeInv /\ CliInv /\ CopyInv /\ selected \in 0..Len(table) /\ cli.prev \in 0..Len(table)
      BY <1>0, LengthOf DEF TypeInv, CliRecord
<1>2. \A i \in 1..Len(table) : SameKey(table'[i], table[i])
      BY TableKeeps
<1>3. ASSUME SessionKept, selected' = selected, cli.at # "select undo", cli'.at # "select undo"
      PROVE  CopyInv'
  <2>1. SameNames(selected)
        BY <1>1, <1>3 DEF CopyInv
  <2>2. SameNames(selected)'
        BY <1>1, <1>2, <1>3, <2>1, NamesKept DEF SameNames
  <2> QED BY <1>3, <2>2 DEF CopyInv
<1>4. CASE Command
  <2>1. /\ cli'.at # "select undo" /\ cli.at # "select undo"
        BY <1>4, CommandCli DEF Command, Prompt
  <2>2. selected' = selected /\ SessionKept
        BY <1>4 DEF Command, SessionKept
  <2> QED BY <1>3, <2>1, <2>2
<1>5. CASE SelectRecord \/ SelectUndo
      BY <1>1, <1>5, SelectCopies, UndoCopies
<1>6. CASE CliStep /\ ~SelectRecord /\ ~SelectUndo
  <2>1. selected' = selected /\ cli.at # "select undo"
        BY <1>6, CliSelected
  <2>2. SessionKept
        BY <1>1, <1>6, SetSession, CliSession
  <2>3. cli'.at # "select undo"
    <3>1. Prompt.at = "prompt"
          BY DEF Prompt
    <3>2. \A at \in CliAt : Moved(at) => cli'.at = at /\ at # "select undo"
          BY <1>1, <1>6, CliMoves DEF Moved
    <3> QED BY <1>1, <1>6, <3>1, <3>2, CliAfter
  <2> QED BY <1>3, <2>1, <2>2, <2>3
<1>7. CASE UNCHANGED cliVars
  <2>1. UNCHANGED <<cli, selected, session>> /\ SessionKept
        BY <1>7 DEF cliVars, SessionKept
  <2>2. ASSUME NEW s \in 0..Len(table), SameNames(s)
        PROVE  s # 0 => /\ session'.addr = table'[s].addr /\ session'.id = table'[s].id
                        /\ session'.name = table'[s].name
        BY <1>1, <1>2, <2>1, <2>2, NamesKept
  <2> QED BY <1>1, <2>1, <2>2 DEF CopyInv, SameNames
<1> QED BY <1>4, <1>5, <1>6, <1>7, OthersStay, Zenon DEF Next

LEMMA UneditedStep ==
    ASSUME IInv, [Next]_vars, ~edited'
    PROVE  Unedited'
<1>1. Unedited
      BY UneditedBefore DEF IInv
<1>2. Keyed(table')
      BY <1>1, TableKeeps
<1>3. CopyInv'
      BY <1>1, CopyStep
<1>4. Answering' => /\ lis'.ids = AssignedIds(table', lis'.call.addr)
                    /\ CanAssign(table', lis'.call.addr)
      BY <1>1, AnswerKept
<1> QED BY <1>2, <1>3, <1>4 DEF Unedited, CopyInv, Keyed, OneRecord

-----------------------------------------------------------------------------
(* The names a responder was sent                                          *)

\* While no peer is selected nothing has been edited.
LEMMA UnselectedUnedited ==
    ASSUME IInv, Unselected
    PROVE  Unedited
BY DEF IInv, CliInv

\* A record of the table keeps its address and ids.
LEMMA NamedGrows ==
    ASSUME IInv, Unedited, [Next]_vars, NEW a, NEW d,
           \E i \in 1..Len(table) : table[i].addr = a /\ table[i].ids = d
    PROVE  \E i \in 1..Len(table') : table'[i].addr = a /\ table'[i].ids = d
<1>1. Len(table) \in Nat /\ Len(table') \in Nat /\ Len(table) <= Len(table')
      BY TableGrows, LengthOf DEF IInv, TypeInv
<1>2. \A i \in 1..Len(table) : SameKey(table'[i], table[i])
      BY TableKeeps
<1> QED BY <1>1, <1>2 DEF SameKey

\* Names that are stored or about to be stay so.
LEMMA NamedStays ==
    ASSUME IInv, [Next]_vars, Unselected, NEW a, NEW d, Named(a, d)
    PROVE  Named(a, d)'
<1>1. Unedited /\ TypeInv /\ CliInv /\ LisInv
      BY UnselectedUnedited DEF IInv
<1>2. CASE \E i \in 1..Len(table) : table[i].addr = a /\ table[i].ids = d
      BY <1>1, <1>2, NamedGrows DEF Named
<1>3. CASE lis.at = "store" /\ lis.call.addr = a /\ lis.ids = d
  <2>1. CASE Command \/ CliStep
        BY <1>1, <1>3, <2>1, CliListener DEF Named
  <2>2. CASE Store
    <3>1. Answering /\ table' = UpsertNativeAppPeer(table, Candidate) /\ Admitted
          BY <1>3, <2>2, StoreAnswers DEF IInv, AssignInv
    <3>2. table \in Seq(Rec) /\ Len(table) <= Capacity /\ Keyed(table)
          BY <1>1 DEF TypeInv, Unedited
    <3>3. Fits(table, Candidate) /\ Candidate.addr = a /\ Candidate.ids = d
          BY <1>1, <1>3, <3>1, CandidateFits, CandidateType
    <3>4. ValidateRemoteTrafficSelector(table, Candidate, FindByRemoteAddress(table, Candidate.addr))
          BY <1>3, <3>1, <3>3 DEF Admitted
    <3>5. \E i \in 1..Len(table') : table'[i].addr = a /\ table'[i].ids = d
          BY <3>1, <3>2, <3>3, <3>4, UpsertNames, SMTT(30)
    <3> QED BY <3>5 DEF Named
  <2>3. CASE Connect \/ TakeAssign \/ Leave \/ UNCHANGED vars
        BY <1>1, <1>3, <2>3, PeerLis DEF Named, SameCall
  <2>4. CASE LisStep /\ ~Store
        BY <1>3, <2>4 DEF LisStep, Poll, Receive, Lookup, Validate, SendAssign, After, CloseServer
  <2> QED BY <2>1, <2>2, <2>3, <2>4 DEF Next
<1> QED BY <1>2, <1>3 DEF Named

\* What was admitted stays so until it is stored, while no peer is selected.
LEMMA AdmittedStays ==
    ASSUME IInv, [Next]_vars, Unselected, lis'.at \in {"send", "store"}
    PROVE  Admitted'
<1>0. Unedited /\ TypeInv /\ CliInv /\ LisInv
      BY UnselectedUnedited DEF IInv
<1>1. TypeInv /\ table \in Seq(Rec) /\ OneRecord(table) /\ lis \in LisRecord
      BY <1>0 DEF TypeInv, Unedited, Keyed
<1>2. lis.at \in {"send", "store"} => Admitted
      BY DEF IInv, AssignInv
<1>3. CASE Command \/ CliStep
  <2>1. lis' = lis
        BY <1>0, <1>3, CliListener
  <2>2. /\ Keeps(table, table') /\ SameTs(table, table')
        /\ FindByRemoteAddress(table', lis.call.addr) = FindByRemoteAddress(table, lis.call.addr)
        BY <1>0, <1>1, <1>3, CliKeeps, KeepsFind
  <2>3. Candidate' = Candidate
        BY <2>1 DEF Candidate
  <2>4. Admitted
        BY <1>2, <2>1
  <2> QED BY <2>1, <2>2, <2>3, <2>4 DEF Admitted, ValidateRemoteTrafficSelector, Keeps, SameTs
<1>4. CASE LisStep
  <2>1. ASSUME NEW at \in LisAt, Lis(at)
        PROVE  lis'.at = at /\ lis'.call = lis.call /\ lis'.ids = lis.ids
        BY <1>1, <2>1, LisMoves DEF Lis
  <2>2. Validate \/ SendAssign
    <3>1. ~Poll
          BY <1>1, PollTypes
    <3>2. ~Receive /\ ~Store
          BY <2>1 DEF Receive, Store, LisAt
    <3>3. ~Lookup
          BY <1>0, LookupTypes
    <3>4. ~After /\ ~CloseServer
          BY OffType DEF After, CloseServer, LisAt
    <3> QED BY <1>4, <3>1, <3>2, <3>3, <3>4 DEF LisStep
  <2>3. table' = table /\ lis'.call = lis.call /\ lis'.ids = lis.ids
        BY <2>1, <2>2 DEF Validate, SendAssign, LisAt
  <2>4. Admitted
    <3>1. CASE Validate
          BY <2>1, <3>1 DEF Validate, Admitted, LisAt
    <3>2. CASE SendAssign
          BY <1>2, <3>2 DEF SendAssign
    <3> QED BY <2>2, <3>1, <3>2
  <2> QED BY <2>3, <2>4 DEF Admitted, Candidate
<1>5. CASE Connect \/ TakeAssign \/ Leave \/ UNCHANGED vars
  <2>1. table' = table /\ SameCall
        BY <1>0, <1>5, QuietTable, PeerLis
  <2> QED BY <1>2, <2>1 DEF Admitted, Candidate, SameCall
<1> QED BY <1>3, <1>4, <1>5 DEF Next

\* A responder is sent only names about to be stored, and takes only those.
LEMMA NamesSent ==
    ASSUME IInv, [Next]_vars, NEW a \in Address
    PROVE  /\ inbox'[a] # NoIds => inbox'[a] = inbox[a] \/ Named(a, inbox[a])'
           /\ mine'[a] # NoIds => mine'[a] = mine[a] \/ mine'[a] = inbox[a]
<1>1. TypeInv /\ inbox \in [Address -> Ids] /\ mine \in [Address -> Ids]
      BY DEF IInv, TypeInv
<1>2. CASE UNCHANGED <<inbox, mine>>
      BY <1>2
<1>3. CASE SendAssign
  <2>1. mine' = mine
        BY <1>3 DEF SendAssign
  <2>2. CASE inbox' = inbox
        BY <2>1, <2>2
  <2>3. CASE Lis("store") /\ inbox' = [inbox EXCEPT ![lis.call.addr] = lis.ids]
    <3>1. lis'.at = "store" /\ lis'.call = lis.call /\ lis'.ids = lis.ids
          BY <1>1, <2>3, LisMoves DEF Lis, LisAt
    <3>2. a # lis.call.addr => inbox'[a] = inbox[a]
          BY <1>1, <2>3
    <3>3. a = lis.call.addr => inbox'[a] = lis.ids
          BY <1>1, <2>3
    <3> QED BY <2>1, <3>1, <3>2, <3>3 DEF Named
  <2> QED BY <1>3, <2>2, <2>3 DEF SendAssign
<1>4. CASE TakeAssign
      BY <1>1, <1>4 DEF TakeAssign
<1>5. CASE Leave
      BY <1>1, <1>5 DEF Leave
<1>6. CASE Command \/ CliStep \/ Connect
  <2>1. UNCHANGED <<inbox, mine>>
    <3>1. CASE Command \/ Connect
          BY <3>1, Zenon DEF Command, Connect, threads, peerVars
    <3>2. CASE ShowSave \/ RefreshNativeAppPeerStates \/ SelectSave \/ SelectRecord \/ SelectUndo
          BY <3>2, Zenon DEF ShowSave, RefreshNativeAppPeerStates, SelectSave, SelectRecord,
             SelectUndo, threads, peerVars
    <3>3. CASE Load \/ Unload \/ UnloadNamed \/ RefreshSelected \/ SetConfig \/ Done
          BY <3>3, Zenon DEF Load, Unload, UnloadNamed, RefreshSelected, SetConfig, Done, threads,
             peerVars
    <3>4. CASE Listen \/ StopListener \/ Join
          BY <3>4, Zenon DEF Listen, StopListener, Join, peerVars
    <3> QED BY <1>6, <3>1, <3>2, <3>3, <3>4, Zenon DEF CliStep
  <2> QED BY <1>2, <2>1
<1>7. CASE (LisStep /\ ~SendAssign) \/ UNCHANGED vars
      BY <1>2, <1>7 DEF LisStep, Poll, Receive, Lookup, Validate, Store, After, CloseServer,
         peerVars, vars
<1> QED BY <1>3, <1>4, <1>5, <1>6, <1>7 DEF Next

LEMMA AssignInvStep ==
    ASSUME IInv, [Next]_vars
    PROVE  AssignInv'
<1> SUFFICES ASSUME Unselected' PROVE AssignInv'
    BY DEF AssignInv
<1>1. Unselected
      BY UnselectedBefore
<1>2. /\ \A a \in Address : mine[a] # NoIds => Named(a, mine[a])
      /\ \A a \in Address : inbox[a] # NoIds => Named(a, inbox[a])
      BY <1>1 DEF IInv, AssignInv
<1>3. ASSUME NEW a \in Address, mine'[a] # NoIds
      PROVE  Named(a, mine[a])'
  <2>1. Named(a, mine'[a])
        BY <1>2, <1>3, NamesSent
  <2>2. ASSUME NEW d, Named(a, d) PROVE Named(a, d)'
        BY <1>1, <2>2, NamedStays
  <2> QED BY <2>1, <2>2 DEF Named
<1>4. ASSUME NEW a \in Address, inbox'[a] # NoIds
      PROVE  Named(a, inbox[a])'
  <2>1. Named(a, inbox'[a]) \/ Named(a, inbox[a])'
        BY <1>2, <1>4, NamesSent
  <2>2. ASSUME NEW d, Named(a, d) PROVE Named(a, d)'
        BY <1>1, <2>2, NamedStays
  <2> QED BY <2>1, <2>2 DEF Named
<1>5. lis'.at \in {"send", "store"} => Admitted'
      BY <1>1, AdmittedStays
<1> QED BY <1>3, <1>4, <1>5 DEF AssignInv

-----------------------------------------------------------------------------
(* The theorems                                                            *)

LEMMA InitIInv ==
    ASSUME Init
    PROVE  IInv
<1>1. <<>> \in Seq(Rec) /\ <<>> \in Seq(CallType) /\ Len(<<>>) = 0
      OBVIOUS
<1>2. cli.at = "prompt" /\ cli.prev = 0 /\ lis.at = "off" /\ selected = 0 /\ edited = FALSE
      BY DEF Init, Prompt, Off
<1>3. TypeInv
  <2>1. Prompt \in CliRecord /\ Off \in LisRecord
        BY NoIdsType, OffType DEF Prompt, CliRecord, CliAt, LisAt
  <2>2. NoSession \in SessionType
        BY NoIdsType DEF NoSession, SessionType, Outer, Selector
  <2>3. /\ table \in Seq(Rec) /\ Len(table) <= Capacity
        /\ selected \in 0..Len(table) /\ cli.prev <= Len(table)
        BY <1>1, <1>2, PeerTableAssumption DEF Init
  <2>4. backlog \in Seq(CallType) /\ inbox \in [Address -> Ids] /\ mine \in [Address -> Ids]
        BY <1>1, NoIdsType DEF Init
  <2>5. loaded \subseteq Ids /\ running \in BOOLEAN /\ stop \in BOOLEAN
        BY DEF Init
  <2> QED BY <1>2, <2>1, <2>2, <2>3, <2>4, <2>5, Zenon DEF Init, TypeInv
<1>4. CliInv /\ LisInv
      BY <1>2 DEF CliInv, OnSelected, SameAddress, LisInv, Answering
<1>5. Unedited
  <2>1. Keyed(table)
        BY <1>1 DEF Init, Keyed, OneRecord
  <2> QED BY <1>2, <2>1 DEF Unedited, SameNames, Answering
<1>6. AssignInv
      BY <1>2 DEF Init, AssignInv
<1> QED BY <1>3, <1>4, <1>5, <1>6 DEF IInv

LEMMA StepIInv ==
    ASSUME IInv, [Next]_vars
    PROVE  IInv'
BY TypeStep, CliInvStep, LisInvStep, UneditedStep, AssignInvStep DEF IInv

\* Whatever registrations, commands, edits and failures come together, the
\* invariant of the peer table, the session and the listener holds.
THEOREM RegistrationInvariant == Spec => []IInv
<1>1. Init => IInv
      BY InitIInv
<1>2. IInv /\ [Next]_vars => IInv'
      BY StepIInv
<1> QED BY <1>1, <1>2, PTL DEF Spec

\* The table, the session and the answers under way keep their types: a count
\* never wraps and no index leaves the table (UpsertNativeAppPeer).
THEOREM RegistrationTypes == Spec => []TypeOK
<1>1. IInv => TypeOK
  <2> SUFFICES ASSUME IInv PROVE TypeOK
      OBVIOUS
  <2>1. /\ table \in Seq(Rec) /\ loaded \subseteq Ids /\ session \in SessionType
        /\ running \in BOOLEAN /\ stop \in BOOLEAN /\ edited \in BOOLEAN /\ lis.ids \in Ids
        /\ inbox \in [Address -> Ids] /\ mine \in [Address -> Ids]
        BY DEF IInv, TypeInv, LisRecord
  <2>2. selected \in 0..Capacity
        BY <2>1, LengthOf, PeerTableAssumption DEF IInv, TypeInv
  <2> QED BY <2>1, <2>2 DEF TypeOK, Rec
<1> QED BY <1>1, RegistrationInvariant, PTL

\* The table never outgrows its capacity, and until a profile is edited by hand
\* no interleaving of registrations and write-backs gives a record other ids
\* than those of its place, or an address two records (UpsertNativeAppPeer,
\* SaveNativeAppSelectedPeer).
THEOREM TableStaysKeyed == Spec => []TableKeyed
<1>1. IInv => TableKeyed
  <2> SUFFICES ASSUME IInv PROVE TableKeyed
      OBVIOUS
  <2>1. Len(table) <= Capacity
        BY DEF IInv, TypeInv
  <2>2. ~edited => Keyed(table)
        BY DEF IInv, Unedited
  <2> QED BY <2>1, <2>2 DEF TableKeyed, Keyed, OneRecord
<1> QED BY <1>1, RegistrationInvariant, PTL

\* Whatever the operator edited before, no write-back but that of an edit gives
\* a record another address, and until a profile is edited it goes to the record
\* the session was copied from (SelectNativeAppPeer, SaveNativeAppSelectedPeer).
THEOREM SelectionStaysCoherent == Spec => []SelectionCoherent
<1>1. IInv => SelectionCoherent
  <2> SUFFICES ASSUME IInv, selected # 0, cli.at \notin {"select undo", "changed"}
               PROVE  /\ selected <= Len(table) /\ session.addr = table[selected].addr
                      /\ ~edited => /\ session.id = table[selected].id
                                    /\ session.name = table[selected].name
      BY Zenon DEF SelectionCoherent
  <2>1. SameAddress(selected)
        BY DEF IInv, CliInv
  <2>2. ~edited => SameNames(selected)
        BY DEF IInv, Unedited
  <2>3. table \in Seq(Rec) /\ selected \in 0..Len(table)
        BY DEF IInv, TypeInv
  <2>4. selected <= Len(table)
        BY ONLY <2>3, LengthOf
  <2> QED BY <2>1, <2>2, <2>4 DEF SameAddress, SameNames
<1> QED BY <1>1, RegistrationInvariant, PTL

\* While no peer is selected, a responder that took names has those the
\* initiator stored or is storing: ASSIGN may go out first
\* (AcceptNativeAppPeerConnection).
THEOREM AssignmentsAgree == Spec => []AssignAgrees
<1>1. IInv => AssignAgrees
      BY DEF IInv, AssignInv, AssignAgrees, Unselected, Named
<1> QED BY <1>1, RegistrationInvariant, PTL

\* No registration makes two selectors overlap, whatever was edited meanwhile
\* (UpsertNativeAppPeer checks again under the lock).
THEOREM RegistrationsStayDisjoint == Spec => RegistrationDisjoint
<1> DEFINE Apart == lis' # lis =>
         \A i, j \in 1..Len(table') :
             Overlap(table', i, j) =>
                 i = j \/ (i <= Len(table) /\ j <= Len(table) /\ Overlap(table, i, j))
<1>1. IInv /\ [Next]_vars => [Apart]_vars
  <2> SUFFICES ASSUME IInv, [Next]_vars PROVE Apart
      OBVIOUS
  <2>1. TypeInv /\ LisInv /\ table \in Seq(Rec) /\ Len(table) \in Nat
        BY LengthOf DEF IInv, TypeInv
  <2>2. CASE table' = table
        BY <2>1, <2>2
  <2>3. CASE Store
    <3>1. Answering /\ table' = UpsertNativeAppPeer(table, Candidate)
          BY <2>3, StoreAnswers
    <3>2. Candidate \in Rec
          BY <2>1, <3>1, CandidateType
    <3> QED BY <2>1, <3>1, <3>2, UpsertDisjoint
  <2>4. CASE Listen \/ Join
        BY <2>2, <2>4, Zenon DEF Listen, Join
  <2>5. CASE Command \/ ShowSave \/ RefreshNativeAppPeerStates \/ SelectSave \/ SelectRecord
             \/ SelectUndo
        BY <2>5, Zenon DEF Command, ShowSave, RefreshNativeAppPeerStates, SelectSave, SelectRecord,
           SelectUndo, threads
  <2>6. CASE Load \/ Unload \/ UnloadNamed \/ RefreshSelected \/ SetConfig \/ StopListener \/ Done
        BY <2>6, Zenon DEF Load, Unload, UnloadNamed, RefreshSelected, SetConfig, StopListener, Done,
           threads
  <2>7. CASE LisStep \/ Connect \/ TakeAssign \/ Leave \/ UNCHANGED vars
        BY <2>2, <2>3, <2>7, QuietTable DEF LisStep
  <2> HIDE DEF Apart
  <2> QED BY <2>4, <2>5, <2>6, <2>7, Zenon DEF Next, CliStep
<1> QED BY <1>1, RegistrationInvariant, PTL DEF Spec, RegistrationDisjoint
=============================================================================
