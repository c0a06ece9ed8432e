--------------------------- MODULE OwnedResources ---------------------------
(***************************************************************************)
(* The ledger of src/app/shutdown.c: for every configuration the session   *)
(* has used, whether a connection and a private credential in charon may   *)
(* be its own, and the reqids whose removal from the kernel is not         *)
(* confirmed yet.                                                          *)
(***************************************************************************)
EXTENDS Credentials

CONSTANTS Capacity,     \* NATIVE_APP_PEER_CAPACITY + 1
          MaxPending    \* size of auiPendingReqids

ASSUME LedgerAssumption == Capacity \in Nat /\ MaxPending \in Nat

VARIABLES items,    \* the prepared configurations, in order (aItems, uiCount)
          ownConn,  \* those with bConnectionOwned
          ownCred,  \* those with bCredentialOwned
          pending,  \* of each: auiPendingReqids
          closing   \* bClosing

owned == <<ownConn, ownCred, pending>>
ledger == <<items, owned, closing>>

Prepared(c) == \E i \in 1..Len(items) : items[i] = c

InitLedger ==
    /\ items = <<>> /\ closing = FALSE
    /\ ownConn = {} /\ ownCred = {} /\ pending = [c \in Config |-> {}]

TypeOKLedger ==
    /\ items \in Seq(Config) /\ Len(items) <= Capacity /\ IsInjective(items)
    /\ ownConn \subseteq Config /\ ownCred \subseteq Config /\ tracked \subseteq Config
    /\ pending \in [Config -> SUBSET Reqid] /\ closing \in BOOLEAN

\* PrepareNativeAppOwnedResource.  Seeded fault: a known item is added again.
ItemsAgain(c) == Append(items, c)

CanPrepare(c) == ~closing /\ (Prepared(c) \/ Len(items) < Capacity)
ItemsWith(c) == IF Prepared(c) THEN items ELSE Append(items, c)

\* A different logical credential may refer to a previously owned name.
NameOwned(n) == \E c \in ownConn : NameOf[c] = n

\* HasNativeAppOwnedSaTarget, for a connection name
HasOwnedSaTarget(n) == ~closing /\ NameOwned(n)

\* The part of AddNativeAppConnection after its checks, with the seeded
\* fault of recording ownership only when the answer says so.
SendOwnedOnAnswer(c, ok) ==
    /\ ownConn' = ownConn \cup {d \in {c} : ok}
    /\ LoadConnection(NameOf[c], ok)

\* Reserve before send: an uncertain reply must not lose the cleanup target.
SendConnection(c, ok) ==
    /\ ownConn' = ownConn \cup {c}
    /\ LoadConnection(NameOf[c], ok)

\* AddNativeAppPsk: an ambiguous load is retained for cleanup.
AddNativeAppPsk(c, ok) ==
    /\ items' = ItemsWith(c)
    /\ ownCred' = ownCred \cup {c}
    /\ AddIpsecPsk(c, ok)

\* RemoveNativeAppCredential: nothing to do when it is not owned.
RemoveNativeAppCredential(c, ok) ==
    IF c \in ownCred
    THEN /\ RemoveIpsecPsk(c, ok)
         /\ ownCred' = IF ok THEN ownCred \ {c} ELSE ownCred
    ELSE ok /\ UNCHANGED <<ownCred, psk, tracked, faults>>

\* The reqids of configuration c in the list of CHILD SAs.
Listed(c) == IF sa[NameOf[c]].state = "up" THEN {sa[NameOf[c]].reqid} ELSE {}
PendingFull(c) ==
    ~(Listed(c) \subseteq pending[c]) /\ Cardinality(pending[c]) >= MaxPending

\* What TerminateNativeAppTargetSas has to see removed: the reqids listed now
\* and, for a prepared item, those of earlier attempts.  Seeded fault: only
\* the present list.
RecordedNow(c) == Listed(c)

Recorded(c) == Listed(c) \cup pending[c]

\* QueryNativeAppConnectionPresent and GetNativeAppConnectionSaStatus
ConnectionPresent(n) == conn[n] # "none"
ConnectionSaActive(n) == ~Down(n)
=============================================================================
