----------------------------- MODULE AppSession -----------------------------
(***************************************************************************)
(* One interactive session of ipsec_app (src/app/cli.c, lifecycle.c,       *)
(* state.c, shutdown.c).  The session runs one command at a time; each     *)
(* library call it makes is a step, between which the remote peer, the     *)
(* kernel and signals act.  quit cleans up everything the ledger owns with *)
(* three attempts per item and stays in the session when that fails.       *)
(* Two listings made back to back count as one step: whatever they report  *)
(* was true together at the first or at the second.                        *)
(***************************************************************************)
EXTENDS OwnedResources

CONSTANTS ProtectedApp,  \* eProtectedPacketPath is APPLICATION
          MaxCommands,   \* commands typed, quit not counted
          MaxSignals,    \* SIGINT and SIGTERM received
          MaxPolls,      \* polls of WaitNativeAppRemoved before its timeout
          MaxLoops       \* iterations of the loop test

VARIABLES sel,       \* the configuration of the session
          flag,      \* bCredentialLoaded, kept per configuration
          exited,    \* how the session ended, "no" while it lives
          stop, exitReq,  \* gbNativeAppStopRequested, gbNativeAppExitRequested
          commands, signals,
          unconfirmed  \* reqids recorded for an item and never gone since

\* The command being run: its name, the stage it is at and its local variables.
VARIABLES cmd, at,
          cfg, name,   \* its configuration and connection name
          try, idx,    \* attempt or iteration, position in the ledger
          todo, poll,  \* reqids to see removed, polls made for the present one
          loopReqid,   \* the reqid the loop test verified
          facts        \* its flags

session == <<sel, flag, exited>>
request == <<stop, exitReq>>
bounds == <<commands, signals>>
target == <<cmd, cfg, name>>
tries == <<try, idx>>
polls == <<todo, poll>>
job == <<at, target, tries, polls, loopReqid, facts>>
vars == <<daemon, faults, remote, tracked, ledger, session, request, bounds, job, unconfirmed>>

\* IsNativeAppShutdownCommand, for the commands that change something
ShutdownCommand == {"connection_unload", "credential_unload", "terminate", "down"}

Init ==
    /\ InitCharon /\ InitLedger /\ tracked = {}
    /\ sel \in Config /\ flag = [c \in Config |-> FALSE] /\ exited = "no"
    /\ stop = FALSE /\ exitReq = FALSE
    /\ commands = MaxCommands /\ signals = MaxSignals
    /\ unconfirmed = [c \in Config |-> {}]
    /\ cmd = "none" /\ at = "prompt" /\ cfg = "none" /\ name = "none" /\ facts = {}
    /\ try = 0 /\ idx = 0 /\ todo = {} /\ poll = 0 /\ loopReqid = 0

-----------------------------------------------------------------------------
(* Moving through a command                                                *)

Target == NameOf[cfg]

\* Command c begins at stage s; with no command the session is at its prompt.
Enter(c, s, g, n, i, f) ==
    /\ cmd' = c /\ at' = s /\ cfg' = g /\ name' = n /\ idx' = i /\ facts' = f
    /\ try' = 0 /\ todo' = {} /\ poll' = 0 /\ loopReqid' = 0
Return == Enter("none", "prompt", "none", "none", 0, {})

\* The command goes on at stage s, with the flags f set.
GoWith(s, f) ==
    at' = s /\ facts' = facts \cup f /\ UNCHANGED <<target, tries, polls, loopReqid>>
Go(s) == GoWith(s, {})

\* The rest of ExecuteNativeAppUp after the connection and the credential.
UpStart(f) == IF "child" \in facts \cup f THEN Return ELSE GoWith("start", f)
UpPsk(f) == IF flag[cfg] THEN UpStart(f) ELSE GoWith("load_psk", f)
UpFailed == IF "added" \in facts THEN Go("up_undo") ELSE Return

\* CleanupNativeAppOwnedResources: where an attempt for configuration c begins.
AttemptAt(c) == IF c \in ownConn THEN "list" ELSE "psk_sa"

\* One of its attempts failed; the third one ends the item.  Seeded fault: a
\* failed attempt is not counted.
RetryForever ==
    /\ at' = AttemptAt(cfg) /\ facts' = facts \ {"refused"} /\ todo' = {} /\ poll' = 0
    /\ UNCHANGED <<target, tries, loopReqid>>

AttemptFails ==
    /\ IF try < 2
       THEN /\ at' = AttemptAt(cfg) /\ try' = try + 1 /\ UNCHANGED idx
            /\ facts' = facts \ {"refused"}
       ELSE /\ at' = "item" /\ try' = 0 /\ idx' = idx + 1
            /\ facts' = (facts \ {"refused"}) \cup {"failed"}
    /\ todo' = {} /\ poll' = 0 /\ UNCHANGED <<target, loopReqid>>
ItemDone ==
    at' = "item" /\ try' = 0 /\ idx' = idx + 1 /\ UNCHANGED <<target, polls, loopReqid, facts>>

\* Where AddNativeAppConnection returns to.
AfterAdd(ok) ==
    \/ cmd = "connection_load" /\ Return
    \/ cmd = "up" /\ IF ok THEN UpPsk({"added"}) ELSE UpFailed
    \/ cmd = "load" /\ Go(IF ok THEN "load_psk" ELSE "load_undo")
    \/ cmd = "loop" /\ IF ok THEN GoWith("start", {"added"}) ELSE GoWith("loop_next", {"failed"})

\* Where LoadNativeAppCredential returns to.
AfterPsk(ok) ==
    \/ cmd = "credential_load" /\ Return
    \/ cmd = "up" /\ IF ok THEN UpStart({}) ELSE UpFailed
    \/ cmd = "load" /\ IF ok THEN Return ELSE Go("load_undo")
    \/ cmd = "loop" /\ IF ok THEN Go("loop_top") ELSE Return

\* Where StartNativeAppConnection returns to.
AfterStart(ok) ==
    \/ cmd = "up" /\ IF ok THEN Return ELSE UpFailed
    \/ cmd = "loop" /\ IF ok THEN Go("verify") ELSE GoWith("loop_end", {"failed"})

\* Where TerminateNativeAppTargetSas returns to.
AfterTerminate(ok) ==
    \/ /\ cmd = "quit" /\ ok
       /\ at' = "clean_remove" /\ todo' = {} /\ poll' = 0
       /\ UNCHANGED <<target, tries, loopReqid, facts>>
    \/ cmd = "quit" /\ ~ok /\ AttemptFails
    \/ /\ cmd = "down" /\ ok /\ "loaded" \in facts
       /\ at' = "down_remove" /\ todo' = {} /\ poll' = 0
       /\ UNCHANGED <<target, tries, loopReqid, facts>>
    \/ cmd = "down" /\ ~(ok /\ "loaded" \in facts) /\ Return

-----------------------------------------------------------------------------
(* AddNativeAppConnection and LoadNativeAppCredential                      *)

Quiet == UNCHANGED <<session, request, bounds, remote, unconfirmed>>

\* Preparation, with adoption of a name another item owns.
Prepare ==
    /\ at = "prepare"
    /\ \/ /\ CanPrepare(cfg) /\ items' = ItemsWith(cfg)
          /\ IF NameOwned(Target)
             THEN ownConn' = ownConn \cup {cfg} /\ Go("send_load")
             ELSE ownConn' = ownConn \ {cfg} /\ Go("check_name")
       \/ ~CanPrepare(cfg) /\ UNCHANGED <<items, ownConn>> /\ AfterAdd(FALSE)
    /\ UNCHANGED <<daemon, faults, tracked, ownCred, pending, closing>> /\ Quiet

\* Seeded fault: the item is owned before the name is known to be free.
CheckNameLate ==
    /\ at = "check_name"
    /\ ownConn' = ownConn \cup {cfg}
    /\ \/ Fault /\ AfterAdd(FALSE)
       \/ /\ Answered
          /\ IF ConnectionPresent(Target) \/ ConnectionSaActive(Target)
             THEN AfterAdd(FALSE) ELSE Go("send_load")
    /\ UNCHANGED <<daemon, tracked, items, ownCred, pending, closing>> /\ Quiet

\* The name must not exist outside the session.
CheckName ==
    /\ at = "check_name"
    /\ \/ Fault /\ AfterAdd(FALSE)
       \/ /\ Answered
          /\ IF ConnectionPresent(Target) \/ ConnectionSaActive(Target)
             THEN AfterAdd(FALSE) ELSE Go("send_load")
    /\ UNCHANGED <<daemon, tracked, ledger>> /\ Quiet

SendLoad ==
    /\ at = "send_load"
    /\ \E ok \in BOOLEAN : SendConnection(cfg, ok) /\ AfterAdd(ok)
    /\ UNCHANGED <<sa, xfrm, psk, tracked, items, ownCred, pending, closing>> /\ Quiet

\* An unreadable secret or a full ledger ends it before anything is sent.
LoadPsk ==
    /\ at = "load_psk"
    /\ \E ok \in BOOLEAN :
          /\ \/ CanPrepare(cfg) /\ AddNativeAppPsk(cfg, ok)
             \/ ~ok /\ Fault /\ UNCHANGED <<psk, tracked, items, ownCred>>
             \/ ~ok /\ ~CanPrepare(cfg) /\ Answered /\ UNCHANGED <<psk, tracked, items, ownCred>>
          /\ AfterPsk(ok)
          /\ flag' = [flag EXCEPT ![cfg] = ok \/ (@ /\ cmd # "loop")]
    /\ UNCHANGED <<conn, sa, xfrm, ownConn, pending, closing, sel, exited, request, bounds,
                   remote, unconfirmed>>

-----------------------------------------------------------------------------
(* Starting and ending SAs                                                 *)

\* StartNativeAppConnection as initiator or as responder, InitiateIpsecIke
\* and InitiateIpsecChild with their wait.
StartSa(n, ok) ==
    \/ ok /\ Answered /\ (Establish(n, "up") \/ (sa[n].state = "up" /\ UNCHANGED <<sa, xfrm>>))
    \/ ~ok /\ Answered /\ sa[n].state # "up" /\ UNCHANGED <<sa, xfrm>>
    \/ ~ok /\ Fault /\ (Establish(n, "ike") \/ Establish(n, "up"))

Start ==
    /\ at = "start"
    /\ \E ok \in BOOLEAN : StartSa(Target, ok) /\ AfterStart(ok)
    /\ UNCHANGED <<conn, psk, tracked, ledger>> /\ Quiet

\* ike initiate and child initiate: only what this session loaded.
Initiate ==
    /\ at = "initiate" /\ Return
    /\ IF HasOwnedSaTarget(name)
       THEN \E ok \in BOOLEAN : StartSa(name, ok)
       ELSE UNCHANGED <<sa, xfrm, faults>>
    /\ UNCHANGED <<conn, psk, tracked, ledger>> /\ Quiet

\* ike terminate, for any name
Terminate ==
    /\ at = "terminate" /\ Return
    /\ \E ok \in BOOLEAN : TerminateIke(name, ok)
    /\ UNCHANGED <<conn, psk, tracked, ledger>> /\ Quiet

\* TerminateNativeAppTargetSas: list the CHILD SAs and keep their reqids.
ListChildren ==
    LET seen == IF Prepared(cfg) THEN Recorded(cfg) ELSE Listed(cfg) IN
    /\ at = "list"
    /\ \/ Fault /\ UNCHANGED <<pending, unconfirmed>> /\ AfterTerminate(FALSE)
       \/ /\ Answered /\ Prepared(cfg) /\ PendingFull(cfg)
          /\ UNCHANGED <<pending, unconfirmed>> /\ AfterTerminate(FALSE)
       \/ /\ Answered /\ ~(Prepared(cfg) /\ PendingFull(cfg))
          /\ IF Prepared(cfg)
             THEN /\ pending' = [pending EXCEPT ![cfg] = seen]
                  /\ unconfirmed' = [unconfirmed EXCEPT ![cfg] = @ \cup (Listed(cfg) \cap xfrm)]
             ELSE UNCHANGED <<pending, unconfirmed>>
          /\ at' = "status" /\ todo' = {0} \cup seen
          /\ UNCHANGED <<target, tries, poll, loopReqid, facts>>
    /\ UNCHANGED <<daemon, tracked, items, ownConn, ownCred, closing, session, request, bounds,
                   remote>>

TargetStatus ==
    /\ at = "status"
    /\ \/ Fault /\ AfterTerminate(FALSE)
       \/ Answered /\ Go(IF Down(Target) THEN "wait" ELSE "end_sa")
    /\ UNCHANGED <<daemon, tracked, ledger>> /\ Quiet

EndTargetSa ==
    /\ at = "end_sa"
    /\ \E ok \in BOOLEAN :
          TerminateIke(Target, ok) /\ Go(IF ok THEN "wait" ELSE "ask_again")
    /\ UNCHANGED <<conn, psk, tracked, ledger>> /\ Quiet

\* A remote delete may have completed in the meantime.
AskAgain ==
    /\ at = "ask_again"
    /\ \/ Fault /\ AfterTerminate(FALSE)
       \/ Answered /\ IF Down(Target) THEN Go("wait") ELSE AfterTerminate(FALSE)
    /\ UNCHANGED <<daemon, tracked, ledger>> /\ Quiet

\* WaitNativeAppRemovedWithTimeout: one poll for reqid r of name n.  It asks
\* at least once, whatever was requested meanwhile.
Gone(n, r) == Down(n) /\ r \notin xfrm
PollSays(n, r, result) ==
    \/ result = "error" /\ Fault
    \/ result = "absent" /\ Answered /\ Gone(n, r)
    \/ result = "error" /\ Answered /\ ~Gone(n, r) /\ (stop \/ poll = MaxPolls)
    \/ result = "again" /\ Answered /\ ~Gone(n, r) /\ ~stop /\ poll < MaxPolls

WaitRemoved ==
    LET r == Min(todo)  left == todo \ {r} IN
    /\ at = "wait"
    /\ \/ /\ PollSays(Target, r, "again") /\ poll' = poll + 1
          /\ UNCHANGED <<at, target, tries, todo, loopReqid, facts, pending>>
       \/ PollSays(Target, r, "error") /\ UNCHANGED pending /\ AfterTerminate(FALSE)
       \/ /\ PollSays(Target, r, "absent") /\ left # {} /\ todo' = left /\ poll' = 0
          /\ UNCHANGED <<at, target, tries, loopReqid, facts, pending>>
       \/ /\ PollSays(Target, r, "absent") /\ left = {} /\ AfterTerminate(TRUE)
          /\ pending' = IF Prepared(cfg) THEN [pending EXCEPT ![cfg] = {}] ELSE pending
    /\ UNCHANGED <<daemon, tracked, items, ownConn, ownCred, closing>> /\ Quiet

-----------------------------------------------------------------------------
(* RemoveIpsecConnection and the checks in front of it                     *)

\* up failed after adding: keep the connection if an SA remains.  load failed:
\* the same for a connection the session owns.  connection unload: refused
\* while an SA is active.
RemoveCheck ==
    /\ at \in {"up_undo", "load_undo", "unload_check"}
    /\ \/ at = "load_undo" /\ ~HasOwnedSaTarget(Target) /\ Answered /\ Return
       \/ /\ at = "load_undo" => HasOwnedSaTarget(Target)
          /\ \/ Fault /\ Return
             \/ Answered /\ IF ConnectionSaActive(name) THEN Return ELSE Go("remove")
    /\ UNCHANGED <<daemon, tracked, ledger>> /\ Quiet

AfterRemove(ok) ==
    \/ at \in {"remove", "down_remove"} /\ Return
    \/ at = "clean_remove" /\ GoWith("clean_present", IF ok THEN {} ELSE {"refused"})
    \/ at = "loop_remove" /\ GoWith("loop_next", IF ok THEN {} ELSE {"failed", "remain"})

Remove ==
    /\ at \in {"remove", "down_remove", "loop_remove", "clean_remove"}
    /\ \E ok \in BOOLEAN : UnloadConnection(name, ok) /\ AfterRemove(ok)
    /\ UNCHANGED <<sa, xfrm, psk, tracked, ledger>> /\ Quiet

-----------------------------------------------------------------------------
(* The first query of a command                                            *)

\* up: add what is not loaded by this session, then the credential, then start.
UpStatus ==
    /\ at = "up_status"
    /\ \/ Fault /\ Return
       \/ /\ Answered
          /\ LET child == IF sa[Target].state = "up" THEN {"child"} ELSE {} IN
             IF ~ConnectionPresent(Target) \/ ~HasOwnedSaTarget(Target)
             THEN GoWith("prepare", child) ELSE UpPsk(child)
    /\ UNCHANGED <<daemon, tracked, ledger>> /\ Quiet

DownStatus ==
    /\ at = "down_status"
    /\ \/ Fault /\ Return
       \/ Answered /\ GoWith("list", IF ConnectionPresent(Target) THEN {"loaded"} ELSE {})
    /\ UNCHANGED <<daemon, tracked, ledger>> /\ Quiet

\* load and the loop test want a clean target; negotiating SAs do not count.
Clean(n) == ~ConnectionPresent(n) /\ sa[n].state # "up"
CleanCheck ==
    /\ at \in {"load_check", "loop_check"}
    /\ \/ Fault /\ Return /\ UNCHANGED request
       \/ /\ Answered /\ Clean(Target) /\ ~(at = "load_check" /\ flag[cfg])
          /\ Go(IF at = "load_check" THEN "prepare" ELSE "load_psk")
          /\ stop' = IF at = "loop_check" THEN FALSE ELSE stop
          /\ UNCHANGED exitReq
       \/ /\ Answered /\ (sa[Target].state # "none" \/ ConnectionPresent(Target)
                            \/ (at = "load_check" /\ flag[cfg]))
          /\ Return /\ UNCHANGED request
    /\ UNCHANGED <<daemon, remote, tracked, ledger, session, bounds, unconfirmed>>

\* credential unload: not with an established SA, and nothing to do when the
\* session's own flag says it is not loaded.
PskCheck ==
    /\ at = "psk_check"
    /\ \/ Fault /\ Return
       \/ Answered /\ ~Down(Target) /\ Return
       \/ /\ Answered /\ sa[Target].state # "up"
          /\ IF flag[cfg] THEN Go("unload_psk") ELSE Return
    /\ UNCHANGED <<daemon, tracked, ledger>> /\ Quiet

\* RemoveNativeAppCredential from credential unload, the loop and the cleanup.
UnloadPsk ==
    /\ at \in {"unload_psk", "clean_psk"}
    /\ \E ok \in BOOLEAN :
          /\ RemoveNativeAppCredential(cfg, ok)
          /\ flag' = [flag EXCEPT ![cfg] = @ /\ ~(ok /\ at = "unload_psk")]
          /\ \/ at = "unload_psk" /\ Return
             \/ at = "clean_psk" /\ IF ok THEN ItemDone ELSE AttemptFails
    /\ UNCHANGED <<conn, sa, xfrm, items, ownConn, pending, closing, sel, exited, request, bounds,
                   remote, unconfirmed>>

\* credential clear all
ClearCheck ==
    /\ at = "clear_check"
    /\ \/ Fault /\ Return
       \/ Answered /\ IF \E n \in Name : ~Down(n) THEN Return ELSE Go("clear")
    /\ UNCHANGED <<daemon, tracked, ledger>> /\ Quiet

ClearAll ==
    /\ at = "clear" /\ Return
    /\ \E ok \in BOOLEAN :
          /\ ClearAllIpsecDaemonCredentials(ok)
          /\ ownCred' = IF ok THEN {} ELSE ownCred
          /\ flag' = IF ok THEN [c \in Config |-> FALSE] ELSE flag
    /\ UNCHANGED <<conn, sa, xfrm, items, ownConn, pending, closing, sel, exited, request, bounds,
                   remote, unconfirmed>>

-----------------------------------------------------------------------------
(* RunNativeAppLoop                                                        *)

LoopTop ==
    /\ at = "loop_top"
    /\ IF stop \/ try = MaxLoops THEN Go("loop_clear")
       ELSE /\ at' = "prepare" /\ try' = try + 1 /\ loopReqid' = 0
            /\ facts' = facts \ {"added", "failed"} /\ UNCHANGED <<target, idx, polls>>
    /\ UNCHANGED <<daemon, faults, tracked, ledger>> /\ Quiet

\* VerifyNativeAppInstalled
Verify ==
    /\ at = "verify"
    /\ \/ Fault /\ GoWith("loop_end", {"failed"})
       \/ /\ Answered
          /\ LET s == sa[Target] IN
             IF s.state = "up" /\ (KernelXfrm => s.reqid \in xfrm)
             THEN /\ at' = "loop_end" /\ loopReqid' = s.reqid
                  /\ UNCHANGED <<target, tries, polls, facts>>
             ELSE GoWith("loop_end", {"failed"})
    /\ UNCHANGED <<daemon, tracked, ledger>> /\ Quiet

LoopEnd ==
    /\ at = "loop_end"
    /\ \E ok \in BOOLEAN :
          /\ TerminateIke(Target, ok)
          /\ IF ok THEN Go("loop_wait") ELSE GoWith("loop_next", {"failed", "remain"})
    /\ UNCHANGED <<conn, psk, tracked, ledger>> /\ Quiet

LoopWait ==
    /\ at = "loop_wait"
    /\ \/ /\ PollSays(Target, loopReqid, "again")
          /\ poll' = poll + 1 /\ UNCHANGED <<at, facts>>
       \/ /\ PollSays(Target, loopReqid, "absent")
          /\ poll' = 0 /\ at' = "loop_remove" /\ UNCHANGED facts
       \/ /\ PollSays(Target, loopReqid, "error")
          /\ poll' = 0 /\ at' = "loop_next" /\ facts' = facts \cup {"failed", "remain"}
    /\ UNCHANGED <<target, tries, todo, loopReqid>>
    /\ UNCHANGED <<daemon, tracked, ledger>> /\ Quiet

\* A failed iteration ends the loop unless it was cleaned up and the loop is
\* to continue.
LoopNext ==
    /\ at = "loop_next"
    /\ Go(IF "failed" \in facts /\ ("continue" \notin facts \/ "remain" \in facts)
          THEN "loop_clear" ELSE "loop_top")
    /\ UNCHANGED <<daemon, faults, tracked, ledger>> /\ Quiet

\* The credential goes only when no resource of the loop remains.
LoopClear ==
    /\ at = "loop_clear"
    /\ IF "unload" \in facts /\ "remain" \notin facts THEN Go("unload_psk") ELSE Return
    /\ stop' = FALSE
    /\ UNCHANGED <<daemon, faults, remote, tracked, ledger, session, exitReq, bounds, unconfirmed>>

-----------------------------------------------------------------------------
(* CloseNativeAppSession and CleanupNativeAppOwnedResources                *)

\* The next item that owns anything, and its first attempt.
NextItem ==
    /\ at = "item"
    /\ IF idx > Len(items) THEN Go("closed")
       ELSE LET c == items[idx] IN
            IF c \in ownConn \cup ownCred
            THEN /\ cfg' = c /\ name' = NameOf[c] /\ at' = AttemptAt(c)
                 /\ UNCHANGED <<cmd, tries, polls, loopReqid, facts>>
            ELSE ItemDone
    /\ UNCHANGED <<daemon, faults, tracked, ledger>> /\ Quiet

\* After the unload: a failed query, a failed unload and a definition that is
\* still there all fail the attempt.
CleanPresent ==
    /\ at = "clean_present"
    /\ \/ Fault /\ AttemptFails
       \/ /\ Answered
          /\ IF "refused" \in facts \/ ConnectionPresent(name) THEN AttemptFails ELSE Go("clean_sa")
    /\ UNCHANGED <<daemon, tracked, ledger>> /\ Quiet

\* Ownership of the connection ends here.  Seeded fault: without asking for
\* SAs that came up before the unload.
CleanSaTrusted ==
    /\ at = "clean_sa"
    /\ ownConn' = ownConn \ {cfg}
    /\ IF cfg \in ownCred THEN Go("psk_sa") ELSE ItemDone
    /\ UNCHANGED <<daemon, faults, tracked, items, ownCred, pending, closing>> /\ Quiet

CleanSa ==
    /\ at = "clean_sa"
    /\ \/ Fault /\ UNCHANGED ownConn /\ AttemptFails
       \/ Answered /\ ConnectionSaActive(name) /\ UNCHANGED ownConn /\ AttemptFails
       \/ /\ Answered /\ ~ConnectionSaActive(name)
          /\ ownConn' = ownConn \ {cfg}
          /\ IF cfg \in ownCred THEN Go("psk_sa") ELSE ItemDone
    /\ UNCHANGED <<daemon, tracked, items, ownCred, pending, closing>> /\ Quiet

\* No credential is taken from under an SA.  Seeded fault: the query's answer
\* is not looked at.
CleanPskCheckBlind ==
    /\ at = "psk_sa"
    /\ \/ Fault /\ AttemptFails
       \/ Answered /\ Go("clean_psk")
    /\ UNCHANGED <<daemon, tracked, ledger>> /\ Quiet

CleanPskCheck ==
    /\ at = "psk_sa"
    /\ \/ Fault /\ AttemptFails
       \/ Answered /\ IF ConnectionSaActive(name) THEN AttemptFails ELSE Go("clean_psk")
    /\ UNCHANGED <<daemon, tracked, ledger>> /\ Quiet

\* The flags follow the ledger.  The exit of a protected APPLICATION session
\* wants no SA at all.  A failed close started by a signal forgets every
\* request that came in meanwhile.
Closed ==
    /\ at = "closed" /\ Return
    /\ flag' = [c \in Config |-> c \in ownCred]
    /\ \/ Fault /\ exited' = exited
       \/ /\ Answered
          /\ exited' = IF "failed" \in facts \/ (ProtectedApp /\ \E n \in Name : ~Down(n))
                       THEN exited ELSE "cleaned"
    /\ IF exited' = exited /\ "signal" \in facts
       THEN stop' = FALSE /\ exitReq' = FALSE ELSE UNCHANGED request
    /\ UNCHANGED <<daemon, remote, tracked, ledger, sel, bounds, unconfirmed>>

\* quit with terminate_on_exit or an application path, quit without, --force.
\* Seeded fault: a session that is closing already returns at once.
CloseOnce(how, why) ==
    /\ stop' = FALSE /\ exitReq' = FALSE
    /\ IF how = "clean"
       THEN /\ closing' = TRUE /\ UNCHANGED exited
            /\ IF closing THEN UNCHANGED job
               ELSE Enter("quit", "item", "none", "none", 1, why)
       ELSE exited' = how /\ UNCHANGED <<closing, job>>
    /\ UNCHANGED <<daemon, faults, remote, tracked, items, owned, sel, flag, bounds, unconfirmed>>

Close(how, why) ==
    /\ stop' = FALSE /\ exitReq' = FALSE
    /\ IF how = "clean"
       THEN /\ closing' = TRUE /\ UNCHANGED exited
            /\ Enter("quit", "item", "none", "none", 1, why)
       ELSE exited' = how /\ UNCHANGED <<closing, job>>
    /\ UNCHANGED <<daemon, faults, remote, tracked, items, owned, sel, flag, bounds, unconfirmed>>

AtPrompt == exited = "no" /\ at = "prompt"

Quit == AtPrompt /\ ~exitReq /\ \E how \in {"clean", "detached", "forced"} : Close(how, {})
QuitClean == AtPrompt /\ ~exitReq /\ Close("clean", {})
SignalQuit == AtPrompt /\ exitReq /\ \E how \in {"clean", "detached"} : Close(how, {"signal"})

-----------------------------------------------------------------------------
(* The operator, signals, the kernel                                       *)

Typed == AtPrompt /\ ~exitReq /\ commands > 0 /\ commands' = commands - 1

\* The commands and the stage each of them begins at.
Begin(n, opt) ==
    \/ Enter("connection_load", "prepare", sel, n, 0, opt)
    \/ Enter("connection_unload", "unload_check", sel, n, 0, opt)
    \/ Enter("credential_load", "load_psk", sel, n, 0, opt)
    \/ Enter("credential_unload", "psk_check", sel, n, 0, opt)
    \/ Enter("credential_clear", "clear_check", sel, n, 0, opt)
    \/ Enter("initiate", "initiate", sel, n, 0, opt)
    \/ Enter("terminate", "terminate", sel, n, 0, opt)
    \/ Enter("up", "up_status", sel, n, 0, opt)
    \/ Enter("down", "down_status", sel, n, 0, opt)
    \/ Enter("load", "load_check", sel, n, 0, opt)
    \/ Enter("loop", "loop_check", sel, n, 0, opt)

\* ExecuteNativeAppCommand; a stop request pending at the prompt is dropped.
Command ==
    /\ Typed /\ stop' = FALSE
    /\ \E n \in Name, opt \in SUBSET {"continue", "unload"} :
          /\ Begin(n, opt)
          /\ closing => cmd' \in ShutdownCommand
          /\ cmd' \in {"connection_unload", "terminate", "initiate"} \/ n = NameOf[sel]
          /\ cmd' = "loop" \/ opt = {}
    /\ UNCHANGED <<daemon, faults, remote, tracked, ledger, session, exitReq, signals, unconfirmed>>

\* peer select: the flag of each peer is kept with it.
Select ==
    /\ Typed /\ sel' \in Config
    /\ UNCHANGED <<daemon, faults, remote, tracked, ledger, flag, exited, request, signals, job,
                   unconfirmed>>

\* config set and config load: only for a clean target, and a setting that
\* replaces the credential only when none is loaded.
Reconfigure ==
    /\ Typed /\ ~closing /\ Clean(NameOf[sel])
    /\ \E c \in Config \ {sel} :
          /\ IdOf[c] = IdOf[sel] \/ ~flag[sel]
          /\ sel' = c /\ flag' = [flag EXCEPT ![c] = flag[sel]]
    /\ UNCHANGED <<daemon, faults, remote, tracked, ledger, exited, request, signals, job, unconfirmed>>

\* SIGINT or SIGTERM, just before a step that reads or resets the flags: at
\* any other point it has the same effect.
Signal ==
    /\ exited = "no" /\ at \in {"prompt", "wait", "loop_wait", "loop_top", "closed"}
    /\ signals > 0 /\ signals' = signals - 1 /\ stop' = TRUE /\ exitReq' \in {exitReq, TRUE}
    /\ at = "prompt" => exitReq'
    /\ UNCHANGED <<daemon, faults, remote, tracked, ledger, session, commands, job, unconfirmed>>

\* The kernel drops the states and policies of a reqid no SA uses any more.
KernelGone ==
    /\ \E r \in xfrm \ InUse :
          /\ xfrm' = xfrm \ {r}
          /\ unconfirmed' = [c \in Config |-> unconfirmed[c] \ {r}]
    /\ UNCHANGED <<conn, sa, psk, faults, remote, tracked, ledger, session, request, bounds, job>>

Remote ==
    /\ exited = "no"
    /\ \E n \in Name : RemoteSa(n)
    /\ UNCHANGED <<tracked, ledger, session, request, bounds, job, unconfirmed>>

Exited == exited # "no" /\ UNCHANGED vars

\* The steps of a command under way.
Work ==
    \/ Prepare \/ CheckName \/ SendLoad \/ LoadPsk
    \/ Start \/ Initiate \/ Terminate
    \/ ListChildren \/ TargetStatus \/ EndTargetSa \/ AskAgain \/ WaitRemoved
    \/ RemoveCheck \/ Remove
    \/ UpStatus \/ DownStatus \/ CleanCheck \/ PskCheck \/ UnloadPsk \/ ClearCheck \/ ClearAll
    \/ LoopTop \/ Verify \/ LoopEnd \/ LoopWait \/ LoopNext \/ LoopClear
    \/ NextItem \/ CleanPresent \/ CleanSa \/ CleanPskCheck \/ Closed

Next ==
    \/ Work
    \/ Quit \/ SignalQuit \/ Command \/ Select \/ Reconfigure
    \/ Signal \/ KernelGone \/ Remote \/ Exited

\* The thread of the session stays neither inside a command nor at the prompt
\* with an exit request.  Every stage has a step whatever is answered, so this
\* is weak fairness of Work \/ SignalQuit, in a form that needs no ENABLED.
SessionRuns == []<>(at = "prompt" /\ ~exitReq) \/ []<><<TRUE>>_job

\* A command under way goes on, the kernel finishes what charon asked for, and
\* the operator of a session that refused to end types quit again.
Spec ==
    /\ Init /\ [][Next]_vars
    /\ SessionRuns /\ WF_vars(KernelGone) /\ WF_vars(closing /\ QuitClean)

-----------------------------------------------------------------------------
(* Properties                                                              *)

TypeOK ==
    /\ TypeOKCharon /\ TypeOKLedger
    /\ sel \in Config /\ flag \in [Config -> BOOLEAN]
    /\ exited \in {"no", "cleaned", "detached", "forced"}
    /\ stop \in BOOLEAN /\ exitReq \in BOOLEAN
    /\ unconfirmed \in [Config -> SUBSET Reqid]

\* Whatever charon may hold because of this session, the ledger owns: a
\* connection or credential whose load was never answered is not forgotten
\* by any later command, failure or cleanup (AddNativeAppConnection,
\* AddNativeAppPsk).
LedgerCovers ==
    /\ \A n \in Name : conn[n] = "ours" => NameOwned(n)
    /\ psk \cup tracked \subseteq ownCred

\* The session removes a connection it did not load only by a command that
\* names it (connection unload, down), never in a rollback or a cleanup.
ForeignSpared ==
    [][\A n \in Name : conn[n] = "foreign" /\ conn'[n] # "foreign" =>
          cmd \in {"connection_unload", "down"}]_vars

\* The cleanup takes a credential away only when its item no longer owns the
\* connection and, if the definition is gone, no SA of it is left.
CredentialOutlivesSas ==
    [][\A c \in Config : cmd = "quit" /\ c \in psk /\ c \notin psk' =>
          /\ c \notin ownConn
          /\ conn[NameOf[c]] = "none" => Down(NameOf[c])]_vars

\* A session that says it was cleaned has left no definition, no SA and no
\* credential of its own behind.
CleanExit ==
    exited = "cleaned" =>
        /\ ownConn = {} /\ ownCred = {}
        /\ \A n \in Name : conn[n] # "ours" /\ sa[n].of # "ours"
        /\ psk = {} /\ tracked = {}

\* Ownership of a connection ends only after every reqid recorded for it has
\* left the kernel, however many attempts failed in between.
ReleaseConfirmed ==
    [][\A c \in ownConn \ ownConn' : unconfirmed[c] = {}]_vars

\* A quit ends the session or comes back to the prompt.
QuitReturns == cmd = "quit" ~> at = "prompt"

\* Where every definition left is the session's own, repeating quit ends it: no
\* earlier failure leaves a state that cleanup cannot finish.  The exception is
\* a full list of unconfirmed reqids while an SA with another one is up, which
\* TerminateNativeAppTargetSas refuses before it terminates anything.
QuitSucceeds ==
    (closing /\ \A n \in Name : "foreign" \notin {conn[n], sa[n].of})
        ~> (exited # "no" \/ \E c \in Config : PendingFull(c))
=============================================================================
