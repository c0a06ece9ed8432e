---------------------------- MODULE CommandService ----------------------------
(***************************************************************************)
(* What the VICI command path promises its callers, with no socket in it.  *)
(* Calls are served one at a time.  A mutation is run by the daemon at     *)
(* most once; when the library reports a known outcome that outcome is     *)
(* what happened and nothing happens later; only a call reported with      *)
(* bOutcomeUnknown may still be run after it returned.                     *)
(***************************************************************************)
EXTENDS Integers

CONSTANTS Call,        \* identities of API calls
          Mutation     \* the calls that change the daemon

VARIABLES status,      \* progress of each call
          ran,         \* how often the daemon ran it
          applied,     \* the calls whose effect the daemon holds
          outcome      \* what the caller was told

vars == <<status, ran, applied, outcome>>

Init == /\ status = [c \in Call |-> "new"]
        /\ ran = [c \in Call |-> 0]
        /\ applied = {}
        /\ outcome = [c \in Call |-> "none"]

Invoke(c) == /\ status[c] = "new"
             /\ status' = [status EXCEPT ![c] = "pending"]
             /\ UNCHANGED <<ran, applied, outcome>>

\* The call is given the command slot; no other call is being served.
Start(c) == /\ status[c] = "pending"
            /\ \A d \in Call : status[d] # "running"
            /\ status' = [status EXCEPT ![c] = "running"]
            /\ UNCHANGED <<ran, applied, outcome>>

\* The daemon runs the call, at once or after the caller gave up on it.
Run(c) == /\ \/ status[c] = "running"
             \/ status[c] = "returned" /\ outcome[c] = "unknown"
          /\ ran[c] = 0
          /\ ran' = [ran EXCEPT ![c] = 1]
          /\ applied' \in {applied, applied \cup {c}}
          /\ UNCHANGED <<status, outcome>>

\* What a caller may be told of call c when it returns.
Truthful(c, o) ==
    \/ o = "unknown"
    \/ o = "ok" /\ (c \in Mutation => c \in applied)
    \/ o = "refused" /\ (c \in Mutation => c \notin applied /\ ran[c] = 1)
    \/ o = "failed" /\ (c \in Mutation => ran[c] = 0)

Return(c) ==
    \E o \in {"ok", "refused", "failed", "unknown"} :
        /\ \/ status[c] = "running" /\ Truthful(c, o)
           \/ status[c] = "pending" /\ o = "failed"
        /\ status' = [status EXCEPT ![c] = "returned"]
        /\ outcome' = [outcome EXCEPT ![c] = o]
        /\ UNCHANGED <<ran, applied>>

Next == \E c \in Call : Invoke(c) \/ Start(c) \/ Run(c) \/ Return(c)

Spec == Init /\ [][Next]_vars
=============================================================================
