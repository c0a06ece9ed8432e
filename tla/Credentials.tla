---------------------------- MODULE Credentials ----------------------------
(***************************************************************************)
(* The PSK calls of src/ike/vici/vici_credential.c.  The context keeps a   *)
(* list of the credential ids it loaded, under Credentials.Mutex; each     *)
(* call holds that mutex around its VICI command, so it is one step.       *)
(***************************************************************************)
EXTENDS Charon

VARIABLE tracked    \* Credentials.pOwned

\* LoadIpsecPskInternal: the load-shared command.
LoadShared(c, ok) ==
    \/ ok /\ psk' = psk \cup {c} /\ Answered
    \/ ~ok /\ Fault /\ psk' \in {psk, psk \cup {c}}

\* UnloadIpsecPskInternal: unload-shared of an unknown id succeeds.
UnloadShared(c, ok) ==
    \/ ok /\ psk' = psk \ {c} /\ Answered
    \/ ~ok /\ Fault /\ psk' \in {psk, psk \ {c}}

\* ClearAllViciCredentialsInternal: the clear-creds command.
ClearCreds(ok) ==
    \/ ok /\ psk' = {} /\ Answered
    \/ ~ok /\ Fault /\ psk' \in {psk, {}}

\* An id enters the list only when its load was answered with success.
AddIpsecPsk(c, ok) ==
    /\ LoadShared(c, ok)
    /\ tracked' = IF ok THEN tracked \cup {c} ELSE tracked

\* The unload is sent whether or not the id is tracked.
RemoveIpsecPsk(c, ok) ==
    /\ UnloadShared(c, ok)
    /\ tracked' = IF ok THEN tracked \ {c} ELSE tracked

ClearAllIpsecDaemonCredentials(ok) ==
    /\ ClearCreds(ok)
    /\ tracked' = IF ok THEN {} ELSE tracked
=============================================================================
