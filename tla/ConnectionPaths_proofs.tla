------------------------ MODULE ConnectionPaths_proofs ------------------------
(***************************************************************************)
(* What the operations of the two packet path registries do, for any       *)
(* connections and capacities: lemmas on the filters of a protected peer,  *)
(* on the slots of the registry and on the rebuilding of the plain rules;  *)
(* the invariant BaseInv; and what the stages of Add and Remove that       *)
(* change a registry do to it.  ConnectionThreads_proofs has the theorems. *)
(***************************************************************************)
EXTENDS ConnectionPaths, FiniteSetTheorems, WellFoundedInduction, TLAPS

-----------------------------------------------------------------------------
(* Filters                                                                 *)

\* The kernel holds no filter of slot p that p does not record as owned, unless
\* an earlier context left it there (left); a free slot owns none.
Sound(p, left) ==
    /\ p.udp.ker /\ ~p.udp.own => left
    /\ p.raw.ker /\ ~p.raw.own => left
    /\ p.udp.own \/ p.raw.own => p.name # Free

\* The fields of filters and of peer records.
LEMMA FilterFields ==
    ASSUME NEW f \in Filter, NEW b \in BOOLEAN
    PROVE  /\ f.own \in BOOLEAN /\ f.ker \in BOOLEAN
           /\ LET g == [f EXCEPT !.own = b] IN g \in Filter /\ g.own = b /\ g.ker = f.ker
           /\ LET g == [f EXCEPT !.ker = b] IN g \in Filter /\ g.ker = b /\ g.own = f.own
BY DEF Filter

LEMMA PeerFields ==
    ASSUME NEW p \in Peer
    PROVE  p.name \in Name \cup {Free} /\ p.udp \in Filter /\ p.raw \in Filter
BY DEF Peer

LEMMA WithFiltersFields ==
    ASSUME NEW p \in Peer, NEW u \in Filter, NEW r \in Filter
    PROVE  LET q == WithFilters(p, u, r)
           IN  q \in Peer /\ q.name = p.name /\ q.udp = u /\ q.raw = r
BY DEF Peer, WithFilters

LEMMA NamedPeer ==
    ASSUME NEW p \in Peer, NEW n \in Name
    PROVE  LET q == [p EXCEPT !.name = n]
           IN  q \in Peer /\ q.name = n /\ q.udp = p.udp /\ q.raw = p.raw
BY DEF Peer

\* Creating a filter records it as owned before the kernel may hold it.
LEMMA CreateFilterOutcome ==
    ASSUME NEW f \in Filter, NEW o \in CreateFilter(f)
    PROVE  /\ o.f \in Filter /\ o.ok \in BOOLEAN
           /\ o.ok => o.f.own /\ o.f.ker
           /\ ~f.ker => (o.f.ker => o.f.own)
<1>1. CASE o = [f |-> [own |-> TRUE, ker |-> TRUE], ok |-> TRUE]
  BY <1>1 DEF Filter
<1>2. CASE o = [f |-> [f EXCEPT !.own = FALSE], ok |-> FALSE]
  BY <1>2, FilterFields, Zenon
<1>3. CASE o = [f |-> [own |-> TRUE, ker |-> TRUE], ok |-> FALSE]
  BY <1>3 DEF Filter
<1>4. CASE o = [f |-> [f EXCEPT !.own = TRUE], ok |-> FALSE]
  BY <1>4, FilterFields, Zenon
<1>5. CASE o = [f |-> f, ok |-> FALSE]
  BY <1>5, FilterFields
<1> QED
  BY <1>1, <1>2, <1>3, <1>4, <1>5, Zenon DEF CreateFilter

\* Removing one forgets it only when the kernel no longer holds it.
LEMMA RemoveFilterOutcome ==
    ASSUME NEW f \in Filter, NEW o \in RemoveFilter(f)
    PROVE  /\ o.f \in Filter /\ o.ok \in BOOLEAN
           /\ o.f.own => f.own
           /\ o.f.ker /\ ~o.f.own => f.ker /\ ~f.own
           /\ o.ok => ~o.f.own
<1>1. CASE ~f.own /\ o = [f |-> f, ok |-> TRUE]
  BY <1>1, FilterFields
<1>2. CASE f.own /\ o = [f |-> None, ok |-> TRUE]
  BY <1>2 DEF None, Filter
<1>3. CASE f.own /\ o = [f |-> [f EXCEPT !.ker = FALSE], ok |-> FALSE]
  BY <1>3, FilterFields, Zenon
<1>4. CASE f.own /\ o = [f |-> f, ok |-> FALSE]
  BY <1>4, FilterFields
<1> QED
  BY <1>1, <1>2, <1>3, <1>4, Zenon DEF RemoveFilter

\* Installing the pair of a slot whose handle is unused.
LEMMA InstallFiltersOutcome ==
    ASSUME NEW p \in Peer, NEW left, Sound(p, left), p.name # Free, NEW o \in InstallFilters(p)
    PROVE  /\ o.p \in Peer /\ o.ok \in BOOLEAN /\ o.p.name = p.name
           /\ Sound(o.p, left)
           /\ o.ok => o.p.udp.ker /\ o.p.raw.ker
<1>1. p.udp \in Filter /\ p.raw \in Filter
  BY PeerFields
<1>2. CASE o = [p |-> p, ok |-> FALSE]
  BY <1>2
<1>3. ASSUME ~p.udp.ker, ~p.raw.ker, NEW u \in CreateFilter(p.udp), ~u.ok,
             o = [p |-> WithFilters(p, u.f, p.raw), ok |-> FALSE]
      PROVE  o.p \in Peer /\ o.ok = FALSE /\ o.p.name = p.name /\ Sound(o.p, left)
  <2>1. u.f \in Filter /\ (u.f.ker => u.f.own)
    BY <1>1, <1>3, CreateFilterOutcome
  <2>2. o.p = WithFilters(p, u.f, p.raw) /\ o.ok = FALSE
    BY <1>3
  <2>3. o.p \in Peer /\ o.p.name = p.name /\ o.p.udp = u.f /\ o.p.raw = p.raw
    BY <1>1, <2>1, <2>2, PeerFields DEF WithFilters, Peer
  <2> QED
    BY <1>3, <2>1, <2>2, <2>3 DEF Sound
<1>4. ASSUME ~p.udp.ker, ~p.raw.ker,
             NEW u \in CreateFilter(p.udp), u.ok, NEW r \in CreateFilter(p.raw), NEW verified \in BOOLEAN,
             o = [p |-> WithFilters(p, u.f, r.f), ok |-> r.ok /\ verified]
      PROVE  /\ o.p \in Peer /\ o.ok \in BOOLEAN /\ o.p.name = p.name /\ Sound(o.p, left)
             /\ o.ok => o.p.udp.ker /\ o.p.raw.ker
  <2>1. u.f \in Filter /\ (u.f.ker => u.f.own) /\ u.f.ker /\ r.f \in Filter /\ (r.f.ker => r.f.own)
        /\ r.ok \in BOOLEAN /\ (r.ok => r.f.ker)
    BY <1>1, <1>4, CreateFilterOutcome
  <2>2. o.p = WithFilters(p, u.f, r.f) /\ o.ok = (r.ok /\ verified)
    BY <1>4
  <2>3. o.p \in Peer /\ o.p.name = p.name /\ o.p.udp = u.f /\ o.p.raw = r.f
    BY <2>1, <2>2, WithFiltersFields
  <2> QED
    BY <1>4, <2>1, <2>2, <2>3 DEF Sound
<1>5. CASE p.udp.ker \/ p.raw.ker
  BY <1>2, <1>5 DEF InstallFilters
<1>6. CASE ~(p.udp.ker \/ p.raw.ker) /\ o # [p |-> p, ok |-> FALSE]
  <2>1. PICK u \in CreateFilter(p.udp) :
           o \in IF ~u.ok THEN {[p |-> WithFilters(p, u.f, p.raw), ok |-> FALSE]}
                 ELSE {[p |-> WithFilters(p, u.f, r.f), ok |-> r.ok /\ verified] :
                         r \in CreateFilter(p.raw), verified \in BOOLEAN}
    BY <1>6 DEF InstallFilters
  <2>2. CASE u.ok
    BY <1>4, <1>6, <2>1, <2>2
  <2>3. CASE ~u.ok
    <3>1. o = [p |-> WithFilters(p, u.f, p.raw), ok |-> FALSE]
      BY <2>1, <2>3
    <3> QED
      BY <1>3, <1>6, <2>3, <3>1, Zenon
  <2> QED
    BY <2>2, <2>3
<1> QED
  BY <1>2, <1>5, <1>6

\* Removing the pair forgets what the kernel gave up, and no more.
LEMMA RemoveFiltersOutcome ==
    ASSUME NEW p \in Peer, NEW left, Sound(p, left), NEW o \in RemoveFilters(p)
    PROVE  /\ o.p \in Peer /\ o.ok \in BOOLEAN /\ o.p.name = p.name
           /\ Sound(o.p, left)
           /\ o.ok => ~o.p.udp.own /\ ~o.p.raw.own
<1>1. p.udp \in Filter /\ p.raw \in Filter
  BY PeerFields
<1>2. CASE o = [p |-> p, ok |-> FALSE]
  BY <1>2
<1>3. ASSUME NEW r \in RemoveFilter(p.raw), NEW u \in RemoveFilter(p.udp),
             o = [p |-> WithFilters(p, u.f, r.f), ok |-> r.ok /\ u.ok]
      PROVE  /\ o.p \in Peer /\ o.ok \in BOOLEAN /\ o.p.name = p.name
             /\ Sound(o.p, left)
             /\ o.ok => ~o.p.udp.own /\ ~o.p.raw.own
  <2>1. /\ r.f \in Filter /\ r.ok \in BOOLEAN /\ (r.f.own => p.raw.own)
        /\ r.f.ker /\ ~r.f.own => p.raw.ker /\ ~p.raw.own
        /\ r.ok => ~r.f.own
    BY <1>1, RemoveFilterOutcome
  <2>2. /\ u.f \in Filter /\ u.ok \in BOOLEAN /\ (u.f.own => p.udp.own)
        /\ u.f.ker /\ ~u.f.own => p.udp.ker /\ ~p.udp.own
        /\ u.ok => ~u.f.own
    BY <1>1, RemoveFilterOutcome
  <2>3. o.p \in Peer /\ o.p.name = p.name /\ o.p.udp = u.f /\ o.p.raw = r.f /\ o.ok = (r.ok /\ u.ok)
    BY <1>3, <2>1, <2>2, WithFiltersFields
  <2> QED
    BY <2>1, <2>2, <2>3 DEF Sound
<1>4. CASE o # [p |-> p, ok |-> FALSE]
  <2>1. PICK r \in RemoveFilter(p.raw), u \in RemoveFilter(p.udp) :
           o = [p |-> WithFilters(p, u.f, r.f), ok |-> r.ok /\ u.ok]
    BY <1>4 DEF RemoveFilters
  <2> QED
    BY <1>3, <2>1
<1> QED
  BY <1>2, <1>4

\* A forgotten slot is free and owns nothing; what the kernel still holds of it
\* was not owned before.
LEMMA ForgetPeer ==
    ASSUME NEW p \in Peer
    PROVE  /\ Forget(p) \in Peer /\ Forget(p).name = Free
           /\ ~Forget(p).udp.own /\ ~Forget(p).raw.own
           /\ Forget(p).udp.ker = p.udp.ker /\ Forget(p).raw.ker = p.raw.ker
BY Zenon DEF Forget, Cleared, Peer, Filter

\* Forgetting a slot that owns nothing, or every slot of a context.
LEMMA ForgetSound ==
    ASSUME NEW p \in Peer, NEW left
    PROVE  /\ Sound(p, left) /\ ~p.udp.own /\ ~p.raw.own => Sound(Forget(p), left)
           /\ Sound(Forget(p), Forget(p).udp.ker \/ Forget(p).raw.ker)
BY ForgetPeer DEF Sound

\* Filling a fresh slot: on success the pair is in the kernel; the slot is kept
\* exactly when something of it may still be there.
LEMMA FreshOutcome ==
    ASSUME NEW p \in Peer, NEW left, Sound(p, left), NEW n \in Name, NEW o \in FreshOutcomes(p, n)
    PROVE  /\ o.p \in Peer /\ o.ok \in BOOLEAN /\ o.added \in BOOLEAN
           /\ Sound(o.p, left)
           /\ o.added => o.p.name = n
           /\ ~o.added => o.p.name = Free
           /\ o.ok => o.added /\ o.p.udp.ker /\ o.p.raw.ker
<1> DEFINE q == [p EXCEPT !.name = n]
<1>1. q \in Peer /\ q.name = n /\ n # Free /\ Sound(q, left)
  <2>1. q \in Peer /\ q.name = n /\ q.udp = p.udp /\ q.raw = p.raw
    BY NamedPeer
  <2> HIDE DEF q
  <2> QED
    BY <2>1, RegistryAssumption DEF Sound
<1>2. ASSUME NEW i \in InstallFilters(q), i.ok, o = [p |-> i.p, ok |-> TRUE, added |-> TRUE]
      PROVE  /\ o.p \in Peer /\ o.ok = TRUE /\ o.added = TRUE /\ Sound(o.p, left)
             /\ o.p.name = n /\ o.p.udp.ker /\ o.p.raw.ker
  BY <1>1, <1>2, InstallFiltersOutcome, Zenon
<1>3. ASSUME NEW i \in InstallFilters(q), NEW c \in RemoveFilters(i.p), c.ok,
             o = [p |-> Forget(c.p), ok |-> FALSE, added |-> FALSE]
      PROVE  o.p \in Peer /\ o.ok = FALSE /\ o.added = FALSE /\ Sound(o.p, left) /\ o.p.name = Free
  <2>1. i.p \in Peer /\ Sound(i.p, left)
    BY <1>1, InstallFiltersOutcome, Zenon
  <2>2. c.p \in Peer /\ Sound(c.p, left) /\ ~c.p.udp.own /\ ~c.p.raw.own
    BY <1>3, <2>1, RemoveFiltersOutcome
  <2> QED
    BY <1>3, <2>2, ForgetPeer, ForgetSound
<1>4. ASSUME NEW i \in InstallFilters(q), NEW c \in RemoveFilters(i.p), ~c.ok,
             o = [p |-> c.p, ok |-> FALSE, added |-> TRUE]
      PROVE  o.p \in Peer /\ o.ok = FALSE /\ o.added = TRUE /\ Sound(o.p, left) /\ o.p.name = n
  <2>1. i.p \in Peer /\ Sound(i.p, left) /\ i.p.name = n
    BY <1>1, InstallFiltersOutcome, Zenon
  <2> QED
    BY <1>4, <2>1, RemoveFiltersOutcome
<1> QED
  BY <1>2, <1>3, <1>4, Zenon DEF FreshOutcomes

-----------------------------------------------------------------------------
(* The protected registry                                                  *)

SlotsOK == aPeers \in [Slot -> Peer] /\ leftover \subseteq Slot

\* Connections have a slot each.
SlotInv ==
    \A i, j \in Slot : aPeers[i].name = aPeers[j].name /\ aPeers[i].name # Free => i = j

OwnedInv == \A i \in Slot : Sound(aPeers[i], i \in leftover)

RegistryInv == SlotsOK /\ SlotInv /\ OwnedInv

\* The slots of connection m are left alone.
Kept(m) == SlotsOf(m)' = SlotsOf(m) /\ \A i \in SlotsOf(m) : aPeers'[i] = aPeers[i]

LEMMA FirstSlot ==
    ASSUME NEW S, S \subseteq Slot, S # {}
    PROVE  First(S) \in S
<1>1. S \subseteq Nat
  BY ProtectedAssumption DEF Slot
<1>2. PICK i \in S : \A j \in S : ~(<<j, i>> \in OpToRel(<, Nat))
  BY <1>1, NatLessThanWellFounded, WFMin, Zenon
<1>3. \A j \in S : ~(j < i)
  BY <1>1, <1>2, Zenon DEF OpToRel
<1>4. \A j \in S : i <= j
  BY <1>1, <1>3
<1> QED
  BY <1>4 DEF First

\* One slot changes.  It was free or had the name n, and it ends up free or with
\* the name n: every other connection is left alone.
LEMMA OneSlotChanges ==
    ASSUME RegistryInv, NEW n \in Name, NEW i \in Slot, NEW p \in Peer,
           aPeers' = [aPeers EXCEPT ![i] = p], UNCHANGED leftover,
           aPeers[i].name \in {n, Free}, p.name \in {n, Free},
           aPeers[i].name = Free => SlotsOf(n) = {},
           Sound(p, i \in leftover)
    PROVE  /\ RegistryInv' /\ \A m \in Name \ {n} : Kept(m)
           /\ p.name = n => SlotsOf(n)' = {i} /\ aPeers'[i] = p
           /\ p.name = Free => SlotsOf(n)' = {}
<1>1. aPeers'[i] = p /\ \A j \in Slot : j # i => aPeers'[j] = aPeers[j]
  BY DEF RegistryInv, SlotsOK
<1>2. SlotsOK'
  BY DEF RegistryInv, SlotsOK
<1>3. \A j \in Slot : j # i => aPeers[j].name # n
  BY DEF RegistryInv, SlotInv, SlotsOf
<1>4. SlotInv'
  BY <1>1, <1>3 DEF RegistryInv, SlotInv
<1>5. OwnedInv'
  BY <1>1 DEF RegistryInv, OwnedInv
<1>6. \A m \in Name \ {n} : Kept(m)
  BY <1>1, RegistryAssumption DEF Kept, SlotsOf
<1>7. /\ p.name = n => SlotsOf(n)' = {i} /\ aPeers'[i] = p
      /\ p.name = Free => SlotsOf(n)' = {}
  BY <1>1, <1>3, RegistryAssumption DEF SlotsOf
<1> QED
  BY <1>2, <1>4, <1>5, <1>6, <1>7 DEF RegistryInv

LEMMA RegisterProtectedStep ==
    ASSUME RegistryInv, NEW n \in Name, NEW ok \in BOOLEAN, NEW added \in BOOLEAN,
           RegisterProtectedPeer(n, ok, added), UNCHANGED leftover
    PROVE  /\ RegistryInv' /\ \A m \in Name \ {n} : Kept(m)
           /\ ok => SlotsOf(n)' # {}
           /\ added => SlotsOf(n) = {}
           /\ added /\ ok => Installed(n)'
           /\ \/ UNCHANGED aPeers
              \/ added
              \/ SlotsOf(n)' = {}
           /\ SlotsOf(n) # {} => UNCHANGED aPeers
<1>1. CASE SlotsOf(n) # {} \/ SlotsOf(Free) = {}
  <2>1. added = FALSE /\ UNCHANGED aPeers /\ (ok => SlotsOf(n) # {})
    BY <1>1 DEF RegisterProtectedPeer
  <2> QED
    BY <2>1 DEF RegistryInv, SlotsOK, SlotInv, OwnedInv, Kept, SlotsOf, Sound
<1>2. CASE SlotsOf(n) = {} /\ SlotsOf(Free) # {}
  <2> DEFINE i == First(SlotsOf(Free))
  <2>1. i \in Slot /\ aPeers[i].name = Free
    BY <1>2, FirstSlot DEF SlotsOf
  <2>2. PICK o \in FreshOutcomes(aPeers[i], n) :
           aPeers' = [aPeers EXCEPT ![i] = o.p] /\ ok = o.ok /\ added = o.added
    BY <1>2 DEF RegisterProtectedPeer
  <2> HIDE DEF i
  <2>3. aPeers[i] \in Peer /\ Sound(aPeers[i], i \in leftover)
    BY <2>1 DEF RegistryInv, SlotsOK, OwnedInv
  <2>4. /\ o.p \in Peer /\ Sound(o.p, i \in leftover)
        /\ (added => o.p.name = n) /\ (~added => o.p.name = Free)
        /\ ok => added /\ o.p.udp.ker /\ o.p.raw.ker
    BY <2>2, <2>3, FreshOutcome
  <2>5. /\ RegistryInv' /\ \A m \in Name \ {n} : Kept(m)
        /\ added => SlotsOf(n)' = {i} /\ aPeers'[i] = o.p
        /\ ~added => SlotsOf(n)' = {}
    <3>1. CASE added
      <4>1. o.p.name = n /\ o.p.name # Free
        BY <2>4, <3>1, RegistryAssumption
      <4>2. /\ aPeers' = [aPeers EXCEPT ![i] = o.p] /\ o.p \in Peer /\ Sound(o.p, i \in leftover)
            /\ SlotsOf(n) = {} /\ aPeers[i].name \in {n, Free} /\ o.p.name \in {n, Free}
        BY <1>2, <2>1, <2>2, <2>4, <4>1
      <4>3. /\ RegistryInv' /\ \A m \in Name \ {n} : Kept(m)
            /\ o.p.name = n => SlotsOf(n)' = {i} /\ aPeers'[i] = o.p
        BY <2>1, <4>2, OneSlotChanges, Zenon
      <4> QED
        BY <3>1, <4>1, <4>3
    <3>2. CASE ~added
      BY <1>2, <2>1, <2>2, <2>4, <3>2, OneSlotChanges, Zenon
    <3> QED
      BY <3>1, <3>2
  <2>6. added /\ ok => Installed(n)'
    BY <2>4, <2>5 DEF Installed
  <2> QED
    BY <1>2, <2>4, <2>5, <2>6
<1> QED
  BY <1>1, <1>2

LEMMA UnregisterProtectedStep ==
    ASSUME RegistryInv, NEW n \in Name, NEW ok \in BOOLEAN,
           UnregisterProtectedPeer(n, ok), UNCHANGED leftover
    PROVE  /\ RegistryInv' /\ \A m \in Name \ {n} : Kept(m)
           /\ ok => SlotsOf(n)' = {}
<1>1. CASE SlotsOf(n) = {}
  BY <1>1 DEF UnregisterProtectedPeer, RegistryInv, SlotsOK, SlotInv, OwnedInv, Kept, SlotsOf, Sound
<1>2. CASE SlotsOf(n) # {}
  <2> DEFINE i == First(SlotsOf(n))
  <2>1. i \in Slot /\ aPeers[i].name = n
    BY <1>2, FirstSlot DEF SlotsOf
  <2>2. PICK o \in RemoveFilters(aPeers[i]) :
           aPeers' = [aPeers EXCEPT ![i] = IF o.ok THEN Forget(o.p) ELSE o.p] /\ ok = o.ok
    BY <1>2 DEF UnregisterProtectedPeer
  <2> HIDE DEF i
  <2>3. aPeers[i] \in Peer /\ Sound(aPeers[i], i \in leftover) /\ n # Free
    BY <2>1, RegistryAssumption DEF RegistryInv, SlotsOK, OwnedInv
  <2>4. /\ o.p \in Peer /\ o.p.name = n /\ Sound(o.p, i \in leftover)
        /\ ok => ~o.p.udp.own /\ ~o.p.raw.own
    BY <2>1, <2>2, <2>3, RemoveFiltersOutcome
  <2>5. CASE ok
    <3>1. Forget(o.p) \in Peer /\ Forget(o.p).name = Free /\ Sound(Forget(o.p), i \in leftover)
      BY <2>4, <2>5, ForgetPeer, ForgetSound
    <3>2. aPeers' = [aPeers EXCEPT ![i] = Forget(o.p)]
      BY <2>2, <2>5
    <3> QED
      BY <2>1, <2>3, <3>1, <3>2, OneSlotChanges, Zenon
  <2>6. CASE ~ok
    <3>1. aPeers' = [aPeers EXCEPT ![i] = o.p]
      BY <2>2, <2>6
    <3> QED
      BY <2>1, <2>3, <2>4, <2>6, <3>1, OneSlotChanges, Zenon
  <2> QED
    BY <2>5, <2>6
<1> QED
  BY <1>1, <1>2

\* A context that goes away leaves free slots, and leftover says which of them
\* still have a filter in the kernel.
LEMMA AbandonRegistry ==
    ASSUME RegistryInv, Abandon,
           \/ DeinitProtectedPath
           \/ aPeers' = [i \in Slot |-> Forget(aPeers[i])]
    PROVE  RegistryInv' /\ \A n \in Name : SlotsOf(n)' = {}
<1>1. aPeers' \in [Slot -> Peer] /\ \A i \in Slot : \E p \in Peer : aPeers'[i] = Forget(p)
  <2>1. CASE DeinitProtectedPath
    <3>1. aPeers' \in [Slot -> {Forget(p) : p \in Peer}]
      BY <2>1 DEF DeinitProtectedPath
    <3>2. \A i \in Slot : \E p \in Peer : aPeers'[i] = Forget(p)
      BY <3>1
    <3> QED
      BY <3>1, <3>2, ForgetPeer
  <2>2. CASE aPeers' = [i \in Slot |-> Forget(aPeers[i])]
    BY <2>2, ForgetPeer DEF RegistryInv, SlotsOK
  <2> QED
    BY <2>1, <2>2
<1>2. \A i \in Slot : /\ aPeers'[i].name = Free
                      /\ Sound(aPeers'[i], aPeers'[i].udp.ker \/ aPeers'[i].raw.ker)
  BY <1>1, ForgetPeer, ForgetSound
<1>3. leftover' = {i \in Slot : aPeers'[i].udp.ker \/ aPeers'[i].raw.ker}
  BY DEF Abandon
<1>4. OwnedInv'
  BY <1>2, <1>3 DEF OwnedInv, Sound
<1>5. SlotInv' /\ \A n \in Name : SlotsOf(n)' = {}
  BY <1>2, RegistryAssumption DEF SlotInv, SlotsOf
<1>6. SlotsOK'
  BY <1>1, <1>3 DEF SlotsOK
<1> QED
  BY <1>4, <1>5, <1>6 DEF RegistryInv

-----------------------------------------------------------------------------
(* The plain rules                                                         *)

RulesState == [owned : BOOLEAN, k : Kernel, ok : BOOLEAN]

\* The kernel's rules are those of the peers.
Built(peers) == [table |-> TRUE, chain |-> TRUE, rules |-> peers]

LEMMA OperationOutcome ==
    ASSUME NEW k \in Kernel, NEW done \in Kernel, NEW o \in Operation(k, done)
    PROVE  o.k \in Kernel /\ o.ok \in BOOLEAN /\ (o.ok => o.k = done)
<1>1. CASE o = [k |-> done, ok |-> TRUE]
  BY <1>1
<1>2. CASE o = [k |-> done, ok |-> FALSE]
  BY <1>2
<1>3. CASE o = [k |-> k, ok |-> FALSE]
  BY <1>3
<1> QED
  BY <1>1, <1>2, <1>3 DEF Operation

LEMMA KernelFields ==
    ASSUME NEW k \in Kernel
    PROVE  /\ k.table \in BOOLEAN /\ k.chain \in BOOLEAN /\ k.rules \in SUBSET Name
           /\ LET l == [k EXCEPT !.table = TRUE]
              IN  l \in Kernel /\ l.table = TRUE /\ l.chain = k.chain /\ l.rules = k.rules
           /\ LET l == [k EXCEPT !.chain = TRUE]
              IN  l \in Kernel /\ l.table = k.table /\ l.chain = TRUE /\ l.rules = k.rules
BY Zenon DEF Kernel

LEMMA KernelPlus ==
    ASSUME NEW k \in Kernel, NEW R \in SUBSET Name
    PROVE  /\ [k EXCEPT !.rules = @ \cup R] \in Kernel
           /\ [k EXCEPT !.rules = @ \cup R].table = k.table
           /\ [k EXCEPT !.rules = @ \cup R].chain = k.chain
           /\ [k EXCEPT !.rules = @ \cup R].rules = k.rules \cup R
BY DEF Kernel

LEMMA KernelBuilt ==
    ASSUME NEW k \in Kernel, k.table, k.chain
    PROVE  k = Built(k.rules)
BY DEF Kernel, Built

LEMMA RemoveTableOutcome ==
    ASSUME NEW s \in RulesState, NEW o \in RemoveTable(s)
    PROVE  o \in RulesState /\ (o.ok => ~o.owned /\ o.k = NoTable)
<1>1. NoTable \in Kernel /\ s.k \in Kernel
  BY DEF NoTable, Kernel, RulesState
<1>2. PICK c \in Operation(s.k, NoTable) : o = [owned |-> s.owned /\ ~c.ok, k |-> c.k, ok |-> c.ok]
  BY DEF RemoveTable
<1>3. c.k \in Kernel /\ c.ok \in BOOLEAN /\ (c.ok => c.k = NoTable)
  BY <1>1, OperationOutcome
<1> QED
  BY <1>2, <1>3, Zenon DEF RulesState

LEMMA CreateTableOutcome ==
    ASSUME NEW s \in RulesState, NEW o \in CreateTable(s)
    PROVE  o \in RulesState /\ (o.ok => o.owned /\ o.k = Built(s.k.rules))
<1> DEFINE kt == [s.k EXCEPT !.table = TRUE]
<1>1. s.k \in Kernel /\ s.owned \in BOOLEAN
  BY DEF RulesState
<1>2. kt \in Kernel /\ kt.table = TRUE /\ kt.rules = s.k.rules
  BY <1>1, KernelFields, Zenon
<1>3. PICK t \in NewTable(s) : o \in IF t.ok THEN NewChain(t) ELSE {t}
  BY DEF CreateTable
<1>4. PICK c \in Operation(s.k, kt) : t = [owned |-> s.owned \/ c.ok, k |-> c.k, ok |-> c.ok]
  BY Zenon DEF NewTable
<1> HIDE DEF kt
<1>5. c.k \in Kernel /\ c.ok \in BOOLEAN /\ (c.ok => c.k = kt)
  BY <1>1, <1>2, OperationOutcome
<1>6. t \in RulesState /\ (t.ok => t.owned /\ t.k = kt)
  BY <1>1, <1>4, <1>5 DEF RulesState
<1>7. CASE ~t.ok
  BY <1>3, <1>6, <1>7
<1>8. CASE t.ok
  <2> DEFINE kc == [t.k EXCEPT !.chain = TRUE]
  <2>1. t.k \in Kernel /\ t.owned \in BOOLEAN
    BY <1>6 DEF RulesState
  <2>2. kc \in Kernel /\ kc.table = t.k.table /\ kc.chain = TRUE /\ kc.rules = t.k.rules
    BY <2>1, KernelFields, Zenon
  <2>3. PICK d \in Operation(t.k, kc) : o = [owned |-> t.owned, k |-> d.k, ok |-> d.ok]
    BY <1>3, <1>8, Zenon DEF NewChain
  <2> HIDE DEF kc
  <2>4. d.k \in Kernel /\ d.ok \in BOOLEAN /\ (d.ok => d.k = kc)
    BY <2>1, <2>2, OperationOutcome
  <2>5. kc = Built(s.k.rules)
    BY <1>2, <1>6, <1>8, <2>2, KernelBuilt
  <2> QED
    BY <1>6, <1>8, <2>1, <2>3, <2>4, <2>5 DEF RulesState
<1> QED
  BY <1>7, <1>8

LEMMA RenewOutcome ==
    ASSUME NEW s \in RulesState, NEW o \in Renew(s)
    PROVE  o \in RulesState /\ (o.ok => o.owned /\ o.k = Built({}))
<1>1. PICK t \in RemoveTable(s) : o \in IF t.ok THEN CreateTable(t) ELSE {t}
  BY DEF Renew
<1>2. t \in RulesState /\ (t.ok => t.k = NoTable)
  BY RemoveTableOutcome
<1>3. CASE ~t.ok
  BY <1>1, <1>2, <1>3
<1>4. CASE t.ok
  <2>1. o \in RulesState /\ (o.ok => o.owned /\ o.k = Built(t.k.rules))
    BY <1>1, <1>2, <1>4, CreateTableOutcome
  <2>2. t.k.rules = {}
    BY <1>2, <1>4 DEF NoTable
  <2> QED
    BY <2>1, <2>2
<1> QED
  BY <1>3, <1>4

\* A rebuild that succeeds leaves the rules of the peers and no others.
LEMMA RebuildOutcome ==
    ASSUME NEW s \in RulesState, NEW peers \in SUBSET Name, NEW o \in Rebuild(s, peers)
    PROVE  o \in RulesState /\ (o.ok => o.k = Built(peers))
<1>1. PICK t \in Renew(s) : o \in IF t.ok THEN AddRules(t, peers) ELSE {t}
  BY DEF Rebuild
<1>2. t \in RulesState /\ (t.ok => t.owned /\ t.k = Built({}))
  BY RenewOutcome
<1>3. CASE ~t.ok
  BY <1>1, <1>2, <1>3
<1>4. CASE t.ok
  <2> DEFINE Plus(R) == [t.k EXCEPT !.rules = @ \cup R]
  <2>1. t.k \in Kernel /\ t.k.table = TRUE /\ t.k.chain = TRUE /\ t.k.rules = {} /\ t.owned \in BOOLEAN
    BY <1>2, <1>4 DEF RulesState, Built
  <2>2. ASSUME NEW R \in SUBSET Name PROVE Plus(R) \in Kernel /\ Plus(R) = Built(R)
    <3>1. Plus(R) \in Kernel /\ Plus(R).table = TRUE /\ Plus(R).chain = TRUE /\ Plus(R).rules = {} \cup R
      BY <2>1, KernelPlus
    <3> HIDE DEF Plus
    <3> QED
      BY <3>1, KernelBuilt
  <2>3. \/ o = [owned |-> t.owned, k |-> Plus(peers), ok |-> TRUE]
        \/ \E done \in SUBSET peers : o = [owned |-> t.owned, k |-> Plus(done), ok |-> FALSE]
    BY <1>1, <1>4 DEF AddRules
  <2> HIDE DEF Plus
  <2>4. CASE o = [owned |-> t.owned, k |-> Plus(peers), ok |-> TRUE]
    BY <2>1, <2>2, <2>4 DEF RulesState
  <2>5. ASSUME NEW done \in SUBSET peers, o = [owned |-> t.owned, k |-> Plus(done), ok |-> FALSE]
        PROVE  o \in RulesState /\ ~o.ok
    BY <2>1, <2>2, <2>5 DEF RulesState
  <2> QED
    BY <2>3, <2>4, <2>5
<1> QED
  BY <1>3, <1>4

PlainOK == plainPeers \in SUBSET Name /\ bRuleTableOwned \in BOOLEAN /\ nft \in Kernel

LEMMA StateType == PlainOK => State \in RulesState /\ State.k = nft /\ State.owned = bRuleTableOwned
BY DEF PlainOK, State, RulesState

LEMMA RegisterPlainStep ==
    ASSUME PlainOK, NEW n \in Name, NEW ok \in BOOLEAN, NEW added \in BOOLEAN,
           RegisterPlainPeer(n, ok, added)
    PROVE  /\ PlainOK' /\ plainPeers' = IF added THEN plainPeers \cup {n} ELSE plainPeers
           /\ ok => n \in plainPeers'
           /\ added => ok /\ n \notin plainPeers
           /\ ok /\ nft = Built(plainPeers) => nft' = Built(plainPeers')
<1>1. CASE ~bRuleTableOwned \/ n \in plainPeers \/ Cardinality(plainPeers) = PeerCapacity
  <2>1. added = FALSE /\ (ok => n \in plainPeers) /\ UNCHANGED plainVars
    BY <1>1 DEF RegisterPlainPeer
  <2> QED
    BY <2>1 DEF plainVars, PlainOK
<1>2. CASE ~(~bRuleTableOwned \/ n \in plainPeers \/ Cardinality(plainPeers) = PeerCapacity)
  <2> DEFINE kn == [State.k EXCEPT !.rules = @ \cup {n}]
  <2>1. PICK s \in AddRule(State, n) :
           /\ Becomes(s) /\ ok = s.ok /\ added = s.ok
           /\ plainPeers' = IF s.ok THEN plainPeers \cup {n} ELSE plainPeers
    BY <1>2 DEF RegisterPlainPeer
  <2>2. /\ State.k = nft /\ State.owned = bRuleTableOwned
        /\ State.k \in Kernel /\ {n} \in SUBSET Name
    BY StateType DEF PlainOK
  <2>3. /\ kn \in Kernel /\ kn.table = State.k.table /\ kn.chain = State.k.chain
        /\ kn.rules = State.k.rules \cup {n}
    BY <2>2, KernelPlus, Zenon
  <2>4. PICK o \in IF State.k.chain THEN Operation(State.k, kn) ELSE {[k |-> State.k, ok |-> FALSE]} :
           s = [owned |-> State.owned, k |-> o.k, ok |-> o.ok]
    BY DEF AddRule
  <2> HIDE DEF kn
  <2>5. o.k \in Kernel /\ o.ok \in BOOLEAN /\ (o.ok => o.k = kn)
    <3>1. CASE State.k.chain
      BY <2>2, <2>3, <2>4, <3>1, OperationOutcome
    <3>2. CASE ~State.k.chain
      <4>1. o = [k |-> State.k, ok |-> FALSE]
        BY <2>4, <3>2
      <4> QED
        BY <2>2, <4>1
    <3> QED
      BY <3>1, <3>2
  <2>6. PlainOK' /\ (ok => nft' = kn)
    BY <2>1, <2>2, <2>4, <2>5 DEF PlainOK, Becomes
  <2>7. nft = Built(plainPeers) => kn = Built(plainPeers \cup {n})
    <3>1. SUFFICES ASSUME nft = Built(plainPeers)
                   PROVE  kn = Built(plainPeers \cup {n})
      OBVIOUS
    <3>2. kn.table = TRUE /\ kn.chain = TRUE /\ kn.rules = plainPeers \cup {n}
      BY <2>2, <2>3, <3>1 DEF Built
    <3> QED
      BY <2>3, <3>2, KernelBuilt, Zenon
  <2> QED
    BY <1>2, <2>1, <2>6, <2>7
<1> QED
  BY <1>1, <1>2

LEMMA UnregisterPlainStep ==
    ASSUME PlainOK, NEW n \in Name, NEW ok \in BOOLEAN, UnregisterPlainPeer(n, ok)
    PROVE  /\ PlainOK' /\ plainPeers' = plainPeers \ {n}
           /\ n \notin plainPeers => UNCHANGED plainVars
           /\ n \in plainPeers /\ ok => nft' = Built(plainPeers')
<1>1. CASE n \notin plainPeers
  BY <1>1 DEF UnregisterPlainPeer, plainVars, PlainOK
<1>2. CASE n \in plainPeers
  <2>1. PICK s \in Rebuild(State, plainPeers \ {n}) : Becomes(s) /\ ok = s.ok
    BY <1>2 DEF UnregisterPlainPeer
  <2>2. plainPeers' = plainPeers \ {n} /\ plainPeers \ {n} \in SUBSET Name
    BY <1>2 DEF UnregisterPlainPeer, PlainOK
  <2>3. s \in RulesState /\ (s.ok => s.k = Built(plainPeers \ {n}))
    BY <2>2, StateType, RebuildOutcome
  <2> QED
    BY <1>2, <2>1, <2>2, <2>3 DEF Becomes, PlainOK, RulesState
<1> QED
  BY <1>1, <1>2

LEMMA StopRulesOutcome ==
    ASSUME NEW s \in RulesState, NEW o \in StopRules(s)
    PROVE  o \in RulesState
BY RemoveTableOutcome DEF StopRules

LEMMA InitPlainStep ==
    ASSUME PlainOK, NEW ok, InitPlainRules(ok)
    PROVE  /\ PlainOK' /\ plainPeers' = {} /\ ok \in BOOLEAN
           /\ ok => nft' = Built({})
           /\ ~ok => ~bRuleTableOwned'
<1> DEFINE z == [State EXCEPT !.owned = FALSE]
<1>1. z \in RulesState
  <2>1. State \in RulesState
    BY StateType
  <2> QED
    BY <2>1, Zenon DEF RulesState
<1>2. PICK s \in Renew(z) :
         /\ ok = s.ok
         /\ IF s.ok THEN Becomes(s) ELSE \E d \in StopRules(s) : Becomes([d EXCEPT !.owned = FALSE])
  BY DEF InitPlainRules, StartRules
<1> HIDE DEF z
<1>3. s \in RulesState /\ (s.ok => s.owned /\ s.k = Built({}))
  BY <1>1, RenewOutcome
<1>4. plainPeers' = {}
  BY DEF InitPlainRules
<1>5. CASE s.ok
  BY <1>2, <1>3, <1>4, <1>5 DEF Becomes, PlainOK, RulesState
<1>6. CASE ~s.ok
  <2>1. PICK d \in StopRules(s) : Becomes([d EXCEPT !.owned = FALSE])
    BY <1>2, <1>6
  <2>2. d \in RulesState
    BY <1>3, StopRulesOutcome
  <2>3. bRuleTableOwned' = FALSE /\ nft' = d.k /\ d.k \in Kernel
    BY <2>1, <2>2 DEF Becomes, RulesState
  <2> QED
    BY <1>2, <1>3, <1>4, <1>6, <2>3, Zenon DEF PlainOK, RulesState
<1> QED
  BY <1>5, <1>6

LEMMA DeinitPlainStep ==
    ASSUME PlainOK, DeinitPlainRules
    PROVE  PlainOK' /\ plainPeers' = {} /\ ~bRuleTableOwned'
<1>1. PICK d \in StopRules(State) : Becomes([d EXCEPT !.owned = FALSE])
  BY Zenon DEF DeinitPlainRules
<1>2. d \in RulesState
  BY StateType, StopRulesOutcome
<1>3. bRuleTableOwned' = FALSE /\ nft' = d.k /\ d.k \in Kernel
  BY <1>1, <1>2 DEF Becomes, RulesState
<1> QED
  BY <1>3, Zenon DEF DeinitPlainRules, PlainOK

-----------------------------------------------------------------------------
(* The invariant that needs no discipline of the callers                   *)

CallRecord == [name : Name \cup {Free}, protected : BOOLEAN, plain : BOOLEAN, ok : BOOLEAN]

ThreadOK == pc \in [Thread -> Stage] /\ call \in [Thread -> CallRecord]
CharonOK == loaded \in SUBSET Name /\ late \in SUBSET Request /\ unsure \in SUBSET Name
RestOK == up \in BOOLEAN /\ drifted \in BOOLEAN /\ halfway \in SUBSET Name

\* Without a context, or without managed rules, there are no peers and no table
\* of the library's own; and RulesMatchPeers.
PlainInv ==
    /\ ~up \/ ~ManagePlain => plainPeers = {} /\ ~bRuleTableOwned
    /\ RulesMatchPeers

\* A thread works within a context, on a connection.
ActiveInv == \A t \in Thread : pc[t] # "IDLE" => up /\ call[t].name \in Name

BaseInv ==
    /\ RegistryInv /\ PlainOK /\ PlainInv
    /\ ThreadOK /\ CharonOK /\ RestOK /\ ActiveInv

LEMMA BaseType == BaseInv => TypeOK
BY DEF BaseInv, RegistryInv, SlotsOK, PlainOK, PlainInv, ThreadOK, CharonOK, RestOK, CallRecord, TypeOK

LEMMA BaseKept ==
    /\ RegistryInv /\ UNCHANGED <<aPeers, leftover>> => RegistryInv'
    /\ PlainOK /\ UNCHANGED plainVars => PlainOK'
    /\ PlainInv /\ UNCHANGED <<plainVars, up, drifted>> => PlainInv'
    /\ CharonOK /\ UNCHANGED charon => CharonOK'
    /\ RestOK /\ UNCHANGED <<up, drifted, halfway>> => RestOK'
    /\ ThreadOK /\ UNCHANGED <<pc, call>> => ThreadOK'
    /\ ActiveInv /\ UNCHANGED <<pc, call, up>> => ActiveInv'
<1>1. RegistryInv /\ UNCHANGED <<aPeers, leftover>> => RegistryInv'
  BY DEF RegistryInv, SlotsOK, SlotInv, OwnedInv, Sound
<1>2. PlainOK /\ UNCHANGED plainVars => PlainOK'
  BY DEF PlainOK, plainVars
<1>3. PlainInv /\ UNCHANGED <<plainVars, up, drifted>> => PlainInv'
  BY DEF PlainInv, RulesMatchPeers, plainVars
<1>4. /\ CharonOK /\ UNCHANGED charon => CharonOK'
      /\ RestOK /\ UNCHANGED <<up, drifted, halfway>> => RestOK'
  BY DEF CharonOK, RestOK, charon
<1>5. /\ ThreadOK /\ UNCHANGED <<pc, call>> => ThreadOK'
      /\ ActiveInv /\ UNCHANGED <<pc, call, up>> => ActiveInv'
  BY DEF ThreadOK, ActiveInv
<1> QED
  BY <1>1, <1>2, <1>3, <1>4, <1>5

\* The fields of the calls the actions write.
LEMMA CallFields ==
    ASSUME NEW c \in CallRecord
    PROVE  c.name \in Name \cup {Free} /\ c.protected \in BOOLEAN /\ c.plain \in BOOLEAN /\ c.ok \in BOOLEAN
BY DEF CallRecord

CallProtected(c, added, ok) == [c EXCEPT !.protected = added, !.ok = ok]
CallPlain(c, added, ok) == [c EXCEPT !.plain = added, !.ok = ok]
CallOk(c, ok) == [c EXCEPT !.ok = ok]

LEMMA CallTyped ==
    ASSUME NEW c \in CallRecord, NEW a \in BOOLEAN, NEW b \in BOOLEAN
    PROVE  CallProtected(c, a, b) \in CallRecord /\ CallPlain(c, a, b) \in CallRecord /\ CallOk(c, b) \in CallRecord
BY Zenon DEF CallRecord, CallProtected, CallPlain, CallOk

LEMMA ProtectedFields ==
    ASSUME NEW c \in CallRecord, NEW a, NEW b
    PROVE  /\ CallProtected(c, a, b).name = c.name
           /\ CallProtected(c, a, b).protected = a
           /\ CallProtected(c, a, b).plain = c.plain
           /\ CallProtected(c, a, b).ok = b
BY DEF CallRecord, CallProtected

LEMMA PlainFields ==
    ASSUME NEW c \in CallRecord, NEW a, NEW b
    PROVE  /\ CallPlain(c, a, b).name = c.name
           /\ CallPlain(c, a, b).protected = c.protected
           /\ CallPlain(c, a, b).plain = a
           /\ CallPlain(c, a, b).ok = b
BY DEF CallRecord, CallPlain

LEMMA OkFields ==
    ASSUME NEW c \in CallRecord, NEW b
    PROVE  /\ CallOk(c, b).name = c.name
           /\ CallOk(c, b).protected = c.protected
           /\ CallOk(c, b).plain = c.plain
           /\ CallOk(c, b).ok = b
BY DEF CallRecord, CallOk

Begun(n) == [Idle EXCEPT !.name = n]

LEMMA IdleFields ==
    ASSUME NEW n \in Name
    PROVE  /\ Idle \in CallRecord /\ Idle.name = Free /\ Begun(n) \in CallRecord
           /\ Begun(n).name = n /\ Begun(n).protected = FALSE /\ Begun(n).plain = FALSE /\ Begun(n).ok = TRUE
BY Zenon DEF CallRecord, Idle, Begun

\* A step of thread t alone.
Alone(t) == \A u \in Thread : u # t => pc'[u] = pc[u] /\ call'[u] = call[u]

LEMMA ThreadMoves ==
    ASSUME ThreadOK, ActiveInv, NEW t \in Thread, NEW s \in Stage, NEW c \in CallRecord,
           Goto(t, s, c), UNCHANGED up, s # "IDLE" => up /\ c.name \in Name
    PROVE  /\ ThreadOK' /\ ActiveInv'
           /\ pc'[t] = s /\ call'[t] = c /\ Alone(t)
BY DEF ThreadOK, ActiveInv, Goto, Alone

LEMMA UndoStage ==
    ASSUME NEW c
    PROVE  /\ Undo(c) \in {"UNDO_PLAIN", "UNDO_PROTECTED", "ADDED"} /\ Undo(c) \in Stage
           /\ Undo(c) = "UNDO_PLAIN" => c.plain
           /\ Undo(c) = "UNDO_PROTECTED" => c.protected
BY DEF Undo, Stage

-----------------------------------------------------------------------------
(* What the steps of a thread do                                           *)

\* The registration of the protected peer: only the connection's own slot may
\* change, and it is added complete or marked as halfway.
ProtectedRegistered(t, n, ok, added) ==
    /\ Alone(t)
    /\ pc[t] = "PROTECTED" /\ pc'[t] = (IF ok THEN "PLAIN" ELSE Undo(call'[t]))
    /\ call'[t].name = n /\ call'[t].protected = added
    /\ call'[t].plain = call[t].plain /\ call'[t].ok = ok
    /\ \A m \in Name \ {n} : Kept(m)
    /\ ManageProtected /\ ok => SlotsOf(n)' # {}
    /\ added => ManageProtected /\ SlotsOf(n) = {}
    /\ added /\ ok => Installed(n)'
    /\ UNCHANGED aPeers \/ added \/ SlotsOf(n)' = {}
    /\ SlotsOf(n) # {} => UNCHANGED aPeers
    /\ halfway' = (IF added /\ ~ok THEN halfway \cup {n} ELSE halfway)
    /\ UNCHANGED <<plainVars, up, charon>>

LEMMA RegisterProtectedEffect ==
    ASSUME BaseInv, NEW t \in Thread, NEW n \in Name, n = call[t].name, RegisterProtected(t)
    PROVE  BaseInv' /\ \E ok, added \in BOOLEAN : ProtectedRegistered(t, n, ok, added)
<1>0. up /\ call[t] \in CallRecord
  BY DEF BaseInv, ActiveInv, ThreadOK, RegisterProtected
<1>1. PICK ok, added \in BOOLEAN :
         LET c == CallProtected(call[t], added, ok)
         IN  /\ IF ManageProtected
                THEN RegisterProtectedPeer(c.name, ok, added)
                ELSE ok /\ ~added /\ UNCHANGED aPeers
             /\ Goto(t, IF ok THEN "PLAIN" ELSE Undo(c), c)
             /\ halfway' = IF added /\ ~ok THEN halfway \cup {c.name} ELSE halfway
  BY Zenon DEF RegisterProtected, CallProtected
<1> DEFINE c == CallProtected(call[t], added, ok)
<1>2. c.name = n /\ c.protected = added /\ c.plain = call[t].plain /\ c.ok = ok
  BY <1>0, ProtectedFields
<1>a. c \in CallRecord
  BY <1>0, <1>1, CallTyped
<1>3. /\ IF ManageProtected
         THEN RegisterProtectedPeer(n, ok, added)
         ELSE ok /\ ~added /\ UNCHANGED aPeers
      /\ Goto(t, IF ok THEN "PLAIN" ELSE Undo(c), c)
      /\ halfway' = IF added /\ ~ok THEN halfway \cup {n} ELSE halfway
  BY <1>1, <1>2, Zenon
<1>4. pc[t] = "PROTECTED" /\ UNCHANGED <<plainVars, up, charon, leftover, drifted>>
  BY DEF RegisterProtected
<1> HIDE DEF c
<1>5. (IF ok THEN "PLAIN" ELSE Undo(c)) \in Stage
  BY UndoStage DEF Stage
<1>6. /\ ThreadOK' /\ ActiveInv' /\ Alone(t)
      /\ pc'[t] = (IF ok THEN "PLAIN" ELSE Undo(c)) /\ call'[t] = c
  BY <1>0, <1>2, <1>a, <1>3, <1>4, <1>5, ThreadMoves DEF BaseInv
<1>7. /\ RegistryInv' /\ \A m \in Name \ {n} : Kept(m)
      /\ ManageProtected /\ ok => SlotsOf(n)' # {}
      /\ added => ManageProtected /\ SlotsOf(n) = {}
      /\ added /\ ok => Installed(n)'
      /\ UNCHANGED aPeers \/ added \/ SlotsOf(n)' = {}
      /\ SlotsOf(n) # {} => UNCHANGED aPeers
  <2>1. CASE ManageProtected
    <3>1. RegisterProtectedPeer(n, ok, added) /\ RegistryInv /\ UNCHANGED leftover
      BY <1>3, <1>4, <2>1 DEF BaseInv
    <3> QED
      BY <1>0, <2>1, <3>1, RegisterProtectedStep
  <2>2. CASE ~ManageProtected
    BY <1>3, <1>4, <2>2, BaseKept DEF BaseInv, Kept, SlotsOf
  <2> QED
    BY <2>1, <2>2
<1>8. BaseInv'
  BY <1>0, <1>3, <1>4, <1>6, <1>7, BaseKept DEF BaseInv, RestOK
<1>9. ProtectedRegistered(t, n, ok, added)
  BY <1>2, <1>3, <1>4, <1>6, <1>7 DEF ProtectedRegistered
<1> QED
  BY <1>8, <1>9

\* The registration of the plain peer: the connection is added complete, or the
\* registry keeps its peers.
PlainRegistered(t, n, ok, added) ==
    /\ Alone(t)
    /\ pc[t] = "PLAIN" /\ pc'[t] = (IF ok THEN "LOAD" ELSE Undo(call'[t]))
    /\ call'[t].name = n /\ call'[t].protected = call[t].protected
    /\ call'[t].plain = added /\ call'[t].ok = ok
    /\ plainPeers' = (IF added THEN plainPeers \cup {n} ELSE plainPeers)
    /\ ManagePlain /\ ok => n \in plainPeers'
    /\ added => ManagePlain /\ n \notin plainPeers
    /\ UNCHANGED <<aPeers, up, charon, halfway>>

LEMMA RegisterPlainEffect ==
    ASSUME BaseInv, NEW t \in Thread, NEW n \in Name, n = call[t].name, RegisterPlain(t)
    PROVE  BaseInv' /\ \E ok, added \in BOOLEAN : PlainRegistered(t, n, ok, added)
<1>0. up /\ call[t] \in CallRecord
  BY DEF BaseInv, ActiveInv, ThreadOK, RegisterPlain
<1>1. PICK ok, added \in BOOLEAN :
         LET c == CallPlain(call[t], added, ok)
         IN  /\ IF ManagePlain
                THEN RegisterPlainPeer(c.name, ok, added)
                ELSE ok /\ ~added /\ UNCHANGED plainVars
             /\ Goto(t, IF ok THEN "LOAD" ELSE Undo(c), c)
             /\ drifted' = (drifted \/ (~ok /\ nft' # nft))
  BY Zenon DEF RegisterPlain, CallPlain
<1> DEFINE c == CallPlain(call[t], added, ok)
<1>2. c.name = n /\ c.protected = call[t].protected /\ c.plain = added /\ c.ok = ok
  BY <1>0, PlainFields
<1>a. c \in CallRecord
  BY <1>0, <1>1, CallTyped
<1>3. /\ IF ManagePlain
         THEN RegisterPlainPeer(n, ok, added)
         ELSE ok /\ ~added /\ UNCHANGED plainVars
      /\ Goto(t, IF ok THEN "LOAD" ELSE Undo(c), c)
      /\ drifted' = (drifted \/ (~ok /\ nft' # nft))
  BY <1>1, <1>2, Zenon
<1>4. pc[t] = "PLAIN" /\ UNCHANGED <<aPeers, up, charon, leftover, halfway>>
  BY DEF RegisterPlain
<1> HIDE DEF c
<1>5. (IF ok THEN "LOAD" ELSE Undo(c)) \in Stage
  BY UndoStage DEF Stage
<1>6. /\ ThreadOK' /\ ActiveInv' /\ Alone(t)
      /\ pc'[t] = (IF ok THEN "LOAD" ELSE Undo(c)) /\ call'[t] = c
  BY <1>0, <1>2, <1>a, <1>3, <1>4, <1>5, ThreadMoves DEF BaseInv
<1>7. /\ PlainOK' /\ plainPeers' = (IF added THEN plainPeers \cup {n} ELSE plainPeers)
      /\ ManagePlain /\ ok => n \in plainPeers'
      /\ added => ManagePlain /\ ok /\ n \notin plainPeers
      /\ ManagePlain /\ ok /\ nft = Built(plainPeers) => nft' = Built(plainPeers')
  <2>1. CASE ManagePlain
    <3>1. RegisterPlainPeer(n, ok, added) /\ PlainOK
      BY <1>3, <2>1 DEF BaseInv
    <3> QED
      BY <2>1, <3>1, RegisterPlainStep
  <2>2. CASE ~ManagePlain
    BY <1>3, <2>2, BaseKept DEF BaseInv, plainVars
  <2> QED
    BY <2>1, <2>2
<1>8. PlainInv'
  <2>1. CASE ManagePlain
    <3>1. ~drifted' => ~drifted /\ nft = Built(plainPeers) /\ (~ok => nft' = nft)
      BY <1>0, <1>3, <2>1, Zenon DEF BaseInv, PlainInv, RulesMatchPeers, Built
    <3>2. ~drifted' => nft' = Built(plainPeers')
      BY <1>7, <2>1, <3>1
    <3> QED
      BY <1>0, <1>4, <2>1, <3>2 DEF PlainInv, RulesMatchPeers, Built
  <2>2. CASE ~ManagePlain
    BY <1>3, <1>4, <2>2 DEF BaseInv, PlainInv, RulesMatchPeers, plainVars
  <2> QED
    BY <2>1, <2>2
<1>9. drifted' \in BOOLEAN
  BY <1>3
<1>10. BaseInv'
  BY <1>4, <1>6, <1>7, <1>8, <1>9, BaseKept DEF BaseInv, RestOK
<1>11. PlainRegistered(t, n, ok, added)
  BY <1>2, <1>4, <1>6, <1>7 DEF PlainRegistered
<1> QED
  BY <1>10, <1>11

\* A plain peer is unregistered: it is gone from the registry, and the kernel's
\* rules are in doubt when the rebuild failed.
LEMMA UnregisterPlainInv ==
    ASSUME PlainOK, PlainInv, up, drifted \in BOOLEAN, NEW n \in Name, NEW ok \in BOOLEAN,
           UnregisterPlainPeer(n, ok), drifted' = Drifts(n, ok), UNCHANGED up
    PROVE  PlainOK' /\ PlainInv' /\ plainPeers' = plainPeers \ {n} /\ drifted' \in BOOLEAN
<1>1. /\ PlainOK' /\ plainPeers' = plainPeers \ {n}
      /\ n \notin plainPeers => UNCHANGED plainVars
      /\ n \in plainPeers /\ ok => nft' = Built(plainPeers')
  BY UnregisterPlainStep
<1>2. drifted' \in BOOLEAN
  BY Zenon DEF Drifts
<1>3. CASE n \in plainPeers
  <2>1. ManagePlain
    BY <1>3 DEF PlainInv
  <2>2. drifted' = ~ok
    BY <1>3 DEF Drifts
  <2> QED
    BY <1>1, <1>2, <1>3, <2>1, <2>2, Zenon DEF PlainInv, RulesMatchPeers, Built
<1>4. CASE n \notin plainPeers
  BY <1>1, <1>2, <1>4 DEF PlainInv, RulesMatchPeers, plainVars, Drifts
<1> QED
  BY <1>3, <1>4

LEMMA UndoPlainEffect ==
    ASSUME BaseInv, NEW t \in Thread, NEW n \in Name, n = call[t].name, UndoPlain(t)
    PROVE  /\ BaseInv' /\ Alone(t)
           /\ pc[t] = "UNDO_PLAIN" /\ pc'[t] = (IF call[t].protected THEN "UNDO_PROTECTED" ELSE "ADDED")
           /\ call'[t] = call[t] /\ plainPeers' = plainPeers \ {n}
           /\ UNCHANGED <<aPeers, up, charon, halfway>>
<1>1. PICK ok \in BOOLEAN : UnregisterPlainPeer(n, ok) /\ drifted' = Drifts(n, ok)
  BY DEF UndoPlain
<1>2. /\ pc[t] = "UNDO_PLAIN" /\ UNCHANGED <<aPeers, up, charon, leftover, halfway>>
      /\ Goto(t, IF call[t].protected THEN "UNDO_PROTECTED" ELSE "ADDED", call[t])
  BY DEF UndoPlain
<1>3. up /\ call[t] \in CallRecord /\ drifted \in BOOLEAN /\ PlainOK /\ PlainInv
  BY <1>2 DEF BaseInv, ActiveInv, ThreadOK, RestOK
<1>4. (IF call[t].protected THEN "UNDO_PROTECTED" ELSE "ADDED") \in Stage
  BY DEF Stage
<1>5. /\ ThreadOK' /\ ActiveInv' /\ Alone(t) /\ call'[t] = call[t]
      /\ pc'[t] = (IF call[t].protected THEN "UNDO_PROTECTED" ELSE "ADDED")
  BY <1>2, <1>3, <1>4, ThreadMoves DEF BaseInv
<1>6. PlainOK' /\ PlainInv' /\ plainPeers' = plainPeers \ {n} /\ drifted' \in BOOLEAN
  BY <1>1, <1>2, <1>3, UnregisterPlainInv
<1>7. BaseInv'
  BY <1>2, <1>5, <1>6, BaseKept DEF BaseInv, RestOK
<1> QED
  BY <1>2, <1>5, <1>6, <1>7

LEMMA DropPlainEffect ==
    ASSUME BaseInv, NEW t \in Thread, NEW n \in Name, n = call[t].name, DropPlain(t)
    PROVE  /\ BaseInv' /\ Alone(t)
           /\ pc[t] = "DROP_PLAIN" /\ pc'[t] = "DROP_PROTECTED"
           /\ call'[t].name = n /\ plainPeers' = plainPeers \ {n}
           /\ UNCHANGED <<aPeers, up, charon, halfway>>
<1>1. PICK ok \in BOOLEAN :
         /\ IF ManagePlain THEN UnregisterPlainPeer(n, ok) ELSE ok /\ UNCHANGED plainVars
         /\ drifted' = Drifts(n, ok)
         /\ Goto(t, "DROP_PROTECTED", CallOk(call[t], ok))
  BY Zenon DEF DropPlain, CallOk
<1>2. pc[t] = "DROP_PLAIN" /\ UNCHANGED <<aPeers, up, charon, leftover, halfway>>
  BY DEF DropPlain
<1>3. up /\ call[t] \in CallRecord /\ drifted \in BOOLEAN /\ PlainOK /\ PlainInv
  BY <1>2 DEF BaseInv, ActiveInv, ThreadOK, RestOK
<1>4. CallOk(call[t], ok) \in CallRecord /\ CallOk(call[t], ok).name = n
  BY <1>1, <1>3, CallTyped, OkFields
<1>5. "DROP_PROTECTED" \in Stage
  BY DEF Stage
<1>6. /\ ThreadOK' /\ ActiveInv' /\ Alone(t) /\ call'[t] = CallOk(call[t], ok)
      /\ pc'[t] = "DROP_PROTECTED"
  BY <1>1, <1>2, <1>3, <1>4, <1>5, ThreadMoves DEF BaseInv
<1>7. PlainOK' /\ PlainInv' /\ plainPeers' = plainPeers \ {n} /\ drifted' \in BOOLEAN
  <2>1. CASE ManagePlain
    BY <1>1, <1>2, <1>3, <2>1, UnregisterPlainInv
  <2>2. CASE ~ManagePlain
    <3>1. plainPeers = {} /\ UNCHANGED plainVars
      BY <1>1, <1>3, <2>2 DEF PlainInv
    <3>2. drifted' = drifted
      BY <1>1, <3>1 DEF Drifts
    <3> QED
      BY <1>2, <1>3, <3>1, <3>2, BaseKept DEF plainVars
  <2> QED
    BY <2>1, <2>2
<1>8. BaseInv'
  BY <1>2, <1>6, <1>7, BaseKept DEF BaseInv, RestOK
<1> QED
  BY <1>2, <1>4, <1>6, <1>7, <1>8

LEMMA UndoProtectedEffect ==
    ASSUME BaseInv, NEW t \in Thread, NEW n \in Name, n = call[t].name, UndoProtected(t)
    PROVE  /\ BaseInv' /\ Alone(t)
           /\ pc[t] = "UNDO_PROTECTED" /\ pc'[t] = "ADDED" /\ call'[t] = call[t]
           /\ \A m \in Name \ {n} : Kept(m)
           /\ \E ok \in BOOLEAN : halfway' = Halved(n, ok) /\ (ok => SlotsOf(n)' = {})
           /\ UNCHANGED <<plainVars, up, charon>>
<1>1. PICK ok \in BOOLEAN : UnregisterProtectedPeer(n, ok) /\ halfway' = Halved(n, ok)
  BY DEF UndoProtected
<1>2. /\ pc[t] = "UNDO_PROTECTED" /\ UNCHANGED <<plainVars, up, charon, leftover, drifted>>
      /\ Goto(t, "ADDED", call[t])
  BY DEF UndoProtected
<1>3. up /\ call[t] \in CallRecord /\ halfway \in SUBSET Name /\ RegistryInv
  BY <1>2 DEF BaseInv, ActiveInv, ThreadOK, RestOK
<1>4. "ADDED" \in Stage
  BY DEF Stage
<1>5. ThreadOK' /\ ActiveInv' /\ Alone(t) /\ call'[t] = call[t] /\ pc'[t] = "ADDED"
  BY <1>2, <1>3, <1>4, ThreadMoves DEF BaseInv
<1>6. RegistryInv' /\ (\A m \in Name \ {n} : Kept(m)) /\ (ok => SlotsOf(n)' = {})
  BY <1>1, <1>2, <1>3, UnregisterProtectedStep
<1>7. halfway' \in SUBSET Name
  BY <1>1, <1>3 DEF Halved
<1>8. BaseInv'
  BY <1>2, <1>5, <1>6, <1>7, BaseKept DEF BaseInv, RestOK
<1> QED
  BY <1>1, <1>2, <1>5, <1>6, <1>8

LEMMA DropProtectedEffect ==
    ASSUME BaseInv, NEW t \in Thread, NEW n \in Name, n = call[t].name, DropProtected(t)
    PROVE  /\ BaseInv' /\ Alone(t)
           /\ pc[t] = "DROP_PROTECTED" /\ pc'[t] = "REMOVED" /\ call'[t].name = n
           /\ \A m \in Name \ {n} : Kept(m)
           /\ \E ok \in BOOLEAN : halfway' = Halved(n, ok) /\ (ManageProtected /\ ok => SlotsOf(n)' = {})
           /\ UNCHANGED <<plainVars, up, charon>>
<1>1. PICK ok \in BOOLEAN :
         /\ IF ManageProtected THEN UnregisterProtectedPeer(n, ok) ELSE ok /\ UNCHANGED aPeers
         /\ halfway' = Halved(n, ok)
         /\ Goto(t, "REMOVED", CallOk(call[t], call[t].ok /\ ok))
  BY Zenon DEF DropProtected, CallOk
<1>2. pc[t] = "DROP_PROTECTED" /\ UNCHANGED <<plainVars, up, charon, leftover, drifted>>
  BY DEF DropProtected
<1>3. up /\ call[t] \in CallRecord /\ halfway \in SUBSET Name /\ RegistryInv
  BY <1>2 DEF BaseInv, ActiveInv, ThreadOK, RestOK
<1> DEFINE b == call[t].ok /\ ok
<1>4. b \in BOOLEAN
  OBVIOUS
<1> HIDE DEF b
<1>5. CallOk(call[t], b) \in CallRecord /\ CallOk(call[t], b).name = n
  BY <1>3, <1>4, CallTyped, OkFields
<1>6. "REMOVED" \in Stage
  BY DEF Stage
<1>7. Goto(t, "REMOVED", CallOk(call[t], b))
  BY <1>1 DEF b
<1>8. ThreadOK' /\ ActiveInv' /\ Alone(t) /\ call'[t] = CallOk(call[t], b) /\ pc'[t] = "REMOVED"
  BY <1>2, <1>3, <1>5, <1>6, <1>7, ThreadMoves DEF BaseInv
<1>9. /\ RegistryInv' /\ \A m \in Name \ {n} : Kept(m)
      /\ ManageProtected /\ ok => SlotsOf(n)' = {}
  <2>1. CASE ManageProtected
    BY <1>1, <1>2, <1>3, <2>1, UnregisterProtectedStep
  <2>2. CASE ~ManageProtected
    BY <1>1, <1>2, <1>3, <2>2, BaseKept DEF Kept, SlotsOf
  <2> QED
    BY <2>1, <2>2
<1>10. halfway' \in SUBSET Name
  BY <1>1, <1>3 DEF Halved
<1>11. BaseInv'
  BY <1>2, <1>8, <1>9, <1>10, BaseKept DEF BaseInv, RestOK
<1> QED
  BY <1>1, <1>2, <1>5, <1>8, <1>9, <1>11
=============================================================================
