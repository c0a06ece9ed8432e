------------------------------- MODULE Charon -------------------------------
(***************************************************************************)
(* charon and the kernel as one application session sees them: connection  *)
(* definitions, SAs, the XFRM entries of their reqids and shared secrets.  *)
(* Every command of the session is one step here.  It is carried out and   *)
(* answered, refused, or left without an answer; an unanswered command has *)
(* taken effect or never will by the time the next one is answered.        *)
(* The remote peer starts and deletes SAs on its own at any time.          *)
(***************************************************************************)
EXTENDS Integers, Sequences, FiniteSets, FiniteSetsExt, Functions

CONSTANTS Name,         \* connection names
          Foreign,      \* those that may exist before the session
          Config,       \* connection configurations the session uses
          NameOf, IdOf, \* their connection name and logical credential id
          Reqid,        \* reqids of CHILD SAs
          KernelXfrm,   \* the datapath is kernel XFRM, not kernel-libipsec
          MaxFaults,    \* commands that are refused or not answered
          MaxRemote     \* steps of the remote peer

ASSUME CharonAssumption ==
    /\ NameOf \in [Config -> Name]
    /\ Reqid \subseteq Nat \ {0}
    /\ KernelXfrm \in BOOLEAN
    /\ MaxFaults \in Nat /\ MaxRemote \in Nat

VARIABLES conn,    \* the definition under each name: none, ours or foreign
          sa,      \* the SA under each name: [state, reqid, of], of whose definition
          xfrm,    \* reqids with states or policies in the kernel
          psk,     \* configurations whose private credential charon holds
          faults, remote

daemon == <<conn, sa, xfrm, psk>>

NoSa == [state |-> "none", reqid |-> 0, of |-> "none"]
Down(n) == sa[n].state = "none"
InUse == {sa[n].reqid : n \in Name}

InitCharon ==
    /\ conn \in [Name -> {"none", "foreign"}]
    /\ \A n \in Name \ Foreign : conn[n] = "none"
    /\ sa = [n \in Name |-> NoSa] /\ xfrm = {} /\ psk = {}
    /\ faults = MaxFaults /\ remote = MaxRemote

TypeOKCharon ==
    /\ conn \in [Name -> {"none", "ours", "foreign"}]
    /\ sa \in [Name -> [state : {"none", "ike", "up"}, reqid : Reqid \cup {0},
                         of : {"none", "ours", "foreign"}]]
    /\ \A n \in Name : sa[n].state = "up" => sa[n].reqid # 0
    /\ xfrm \subseteq Reqid /\ psk \subseteq Config
    /\ faults \in 0..MaxFaults /\ remote \in 0..MaxRemote

Answered == UNCHANGED faults
Fault == faults > 0 /\ faults' = faults - 1

\* charon and the kernel bring an SA of name n to state s.
Establish(n, s) ==
    /\ conn[n] # "none"
    /\ \/ /\ s = "ike" /\ Down(n)
          /\ sa' = [sa EXCEPT ![n] = [state |-> "ike", reqid |-> 0, of |-> conn[n]]]
          /\ UNCHANGED xfrm
       \/ /\ s = "up" /\ sa[n].state # "up"
          /\ \E r \in Reqid \ {sa[m].reqid : m \in Name \ {n}} :
                /\ sa' = [sa EXCEPT ![n] = [state |-> "up", reqid |-> r, of |-> conn[n]]]
                /\ xfrm' = IF KernelXfrm THEN xfrm \cup {r} ELSE xfrm

\* terminate: charon drops the IKE SA and its CHILD; the kernel follows.
EndSa(n) == ~Down(n) /\ sa' = [sa EXCEPT ![n] = NoSa] /\ UNCHANGED xfrm

RemoteSa(n) ==
    /\ remote > 0 /\ remote' = remote - 1
    /\ Establish(n, "up") \/ EndSa(n)
    /\ UNCHANGED <<conn, psk, faults>>

\* TerminateIpsecIke: refused when no SA matches.
TerminateIke(n, ok) ==
    \/ ok /\ EndSa(n) /\ Answered
    \/ ~ok /\ Down(n) /\ UNCHANGED <<sa, xfrm>> /\ Answered
    \/ ~ok /\ Fault /\ (EndSa(n) \/ UNCHANGED <<sa, xfrm>>)

\* AddIpsecConnection.
LoadConnection(n, ok) ==
    \/ ok /\ conn' = [conn EXCEPT ![n] = "ours"] /\ Answered
    \/ ~ok /\ Fault /\ conn' \in {conn, [conn EXCEPT ![n] = "ours"]}

\* RemoveIpsecConnection: a refused unload of an absent definition is a
\* success (UnloadViciConnectionInternal), SAs survive their definition.
UnloadConnection(n, ok) ==
    \/ ok /\ conn' = [conn EXCEPT ![n] = "none"] /\ Answered
    \/ ~ok /\ Fault /\ conn' \in {conn, [conn EXCEPT ![n] = "none"]}
=============================================================================
