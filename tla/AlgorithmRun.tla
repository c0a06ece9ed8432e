---------------------------- MODULE AlgorithmRun ----------------------------
(***************************************************************************)
(* The algorithm test runner (src/app/algorithm_runner.c): the initiator   *)
(* walks through the cases of a matrix and drives the responder through    *)
(* PREPARE, VERIFY, CLEANUP or ABORT, and FINISH.  Each side has its own   *)
(* daemon: the connection definition it holds, 0 or the case whose         *)
(* proposals it carries, and the cases of its SAs.                         *)
(***************************************************************************)
EXTENDS PacketTest

CONSTANTS Cases,          \* cases of the run
          Options,        \* the option records a run may have; lacks gives for
                          \* each side the cases it does not support
          MaxPrepare,     \* PREPAREs sent before the initiator gives up
          MaxFinish,      \* CLEANUPs or ABORTs sent (CLEANUP_ATTEMPTS)
          MaxWait         \* receive timeouts before the responder leaves a case

ASSUME RunAssumption ==
    /\ Cases \in Nat \ {0} /\ {MaxPrepare, MaxFinish, MaxWait} \subseteq Nat \ {0}
    /\ \A o \in Options : o.lacks \in [Side -> SUBSET (1..Cases)]

VARIABLES cl,             \* the initiator: where it is, and its case
          sv,             \* the responder: where it is, and its case
          conn, sa,       \* per side: the daemon's definition, and its SAs
          verdict,        \* what the initiator recorded of each case
          served,         \* cases the responder found to PASS
          confirmed       \* cases whose cleanup the responder confirmed

daemon == <<conn, sa>>
history == <<verdict, served, confirmed>>
vars == <<opt, net, stop, faults, pk, matched, cl, sv, conn, sa, verdict, served, confirmed>>

Case == 1..Cases
Result == {"none", "PASS", "UNSUPPORTED", "DATA_PATH", "FAIL"}

Fresh == [pc |-> "next", k |-> 0, n |-> 0, prepared |-> FALSE, loaded |-> FALSE,
          started |-> FALSE, ready |-> "none", result |-> "FAIL", err |-> FALSE,
          peerErr |-> FALSE, verified |-> FALSE, tested |-> FALSE, cleanErr |-> FALSE]

Waiting == [pc |-> "idle", k |-> 0, n |-> 0, loaded |-> FALSE, verified |-> FALSE,
            ok |-> FALSE, result |-> "none", clean |-> FALSE, val |-> "OK",
            last |-> 0, run |-> FALSE, streams |-> 0]

Init ==
    /\ opt \in Options /\ InitStream /\ InitPacketTest
    /\ cl = Fresh /\ sv = Waiting
    /\ conn = [p \in Side |-> 0] /\ sa = [p \in Side |-> {}]
    /\ verdict = [k \in Case |-> "none"] /\ served = {} /\ confirmed = {}

-----------------------------------------------------------------------------
(* The daemons                                                             *)

\* AddNativeAppConnection: every case has the same name, so it replaces the
\* definition of an earlier one.  A refused or unanswered load may have worked.
Add(p, k, o) ==
    /\ Outcome(TRUE, o)
    /\ conn' \in {[conn EXCEPT ![p] = k]} \cup (IF o THEN {} ELSE {conn})
    /\ UNCHANGED sa

\* StartNativeAppConnection: an SA needs the same proposals at both ends.  One
\* that fails may be half open.
Start(k, o) ==
    LET match == conn["c"] = k /\ conn["s"] = k IN
    /\ Outcome(match, o)
    /\ sa' \in IF o THEN {[p \in Side |-> sa[p] \cup {k}]}
               ELSE {sa} \cup (IF match THEN {[sa EXCEPT !["s"] = @ \cup {k}]} ELSE {})
    /\ UNCHANGED conn

\* QueryNativeAppAlgorithmState looks at the first SA of the name and compares
\* its proposals, its ESN and PFS, and the kernel state with those of the case.
QueryState(p, k, o) ==
    /\ o => k \in sa[p]
    /\ IF o \/ sa[p] # {k} THEN UNCHANGED faults ELSE Fault

\* CleanupNativeAppAlgorithmCase: terminate (the initiator only), wait until the
\* SAs are gone, unload, and look again.  A fault is a terminate that fails, a
\* delete that does not reach the peer, or an unload that fails.
CleanupCase(p, terminate, verified) ==
    \E o, off \in BOOLEAN, gone \in SUBSET Side :
       /\ Outcome(TRUE, o)
       /\ o => off /\ gone = (IF terminate THEN Side ELSE {})
       /\ ~o => (terminate \/ ~off) /\ gone \in {{}} \cup (IF terminate THEN {{p}} ELSE {})
       /\ conn' = IF off THEN [conn EXCEPT ![p] = 0] ELSE conn
       /\ sa' = [q \in Side |-> IF q \in gone THEN {} ELSE sa[q]]
       /\ verified <=> (off /\ sa'[p] = {})

\* The delete of an SA reaches the peer, or its dead peer detection ends it.
PeerDelete ==
    /\ \E p \in Side : sa[p] \ sa[Other(p)] # {} /\ sa' = [sa EXCEPT ![p] = @ \cap sa[Other(p)]]
    /\ UNCHANGED <<opt, net, stop, faults, pkVars, cl, sv, conn, history>>

-----------------------------------------------------------------------------
(* The initiator                                                           *)

Client(pc) == cl' = [cl EXCEPT !.pc = pc, !.n = 0]
ClientFails(pc, result) == cl' = [cl EXCEPT !.pc = pc, !.n = 0, !.err = TRUE, !.result = result]
Send(act, val) == net' = Sent(net, "c", Frame(act, cl.k, val))

\* Seeded fault: an answer to another case is taken for this one.
AnswersAnyCase(m, act, k) == m.act = act
\* WaitNativeAppAlgorithmResponse: the frame that is waited for
Answers(m, act, k) == m.act = act /\ m.k = k

\* A binary record in place of a message is a protocol error.
Broken(m) == m.act \in {"E", "A"}

\* The responder has nothing to do before something reaches it.
ServerWaits ==
    sv.pc = "over" \/ (/\ Ready("s") = {}
                       /\ sv.pc = "case" \/ (sv.pc = "idle" /\ sv.streams = Len(net.str)))

\* The wait ends with an answer, at the end of the stream, or by its timeout;
\* any other message is dropped and the wait goes on.
WaitResponse(act, Got(_), Failed) ==
    \/ \E m \in Ready("c") : \E rest \in {net, Taken("c", m)} :
          /\ Receive("c", m, rest) /\ net' = rest
          /\ IF Answers(m, act, cl.k) THEN Got(m.val)
             ELSE IF Broken(m) THEN Failed
             ELSE UNCHANGED cl
    \/ UNCHANGED net /\ Timeout(stop["c"] \/ Eof("c") \/ (Ready("c") = {} /\ ServerWaits)) /\ Failed

\* RunNativeAppAlgorithmClient: the next case of the matrix
CaseBegins ==
    /\ cl.pc = "next"
    /\ IF cl.k = Cases \/ stop["c"]
       THEN cl' = [Fresh EXCEPT !.pc = IF opt.app THEN "connect" ELSE "end", !.k = 0]
            /\ UNCHANGED faults
       ELSE \E o \in BOOLEAN :
               /\ Outcome(TRUE, o)
               /\ cl' = [Fresh EXCEPT !.k = cl.k + 1, !.err = ~o,
                            !.pc = IF ~o THEN "after" ELSE IF opt.app THEN "connect" ELSE "prepare"]
    /\ UNCHANGED <<net, pkVars, sv, daemon, history>>

\* A fresh stream for the case, or for FINISH (case 0)
Connect ==
    /\ cl.pc = "connect"
    /\ \E o \in BOOLEAN :
          /\ Outcome(sv.pc # "over" /\ ~stop["c"], o)
          /\ net' = IF o THEN Opened(net) ELSE net
          /\ IF o THEN Client(IF cl.k = 0 THEN "end" ELSE "prepare")
             ELSE ClientFails(IF cl.k = 0 THEN "over" ELSE "after", "FAIL")
    /\ UNCHANGED <<pkVars, sv, daemon, history>>

\* PrepareNativeAppAlgorithmPeer sends before each wait.  A stop request ends
\* its loop without an error, and with no answer either.
Prepare ==
    /\ cl.pc = "prepare"
    /\ IF stop["c"]
       THEN cl' = [cl EXCEPT !.pc = "decide", !.prepared = TRUE] /\ UNCHANGED net
       ELSE cl' = [cl EXCEPT !.pc = "ready"] /\ Send("PREPARE", "-")
    /\ UNCHANGED <<faults, pkVars, sv, daemon, history>>

\* Seeded fault: the time spent on PREPARE is not counted.
PrepareForever(c) == [c EXCEPT !.pc = "prepare"]
\* The wait for READY timed out: send again until the time is up.
PrepareAgain(c) ==
    IF stop["c"] \/ c.n + 1 < MaxPrepare THEN [c EXCEPT !.pc = "prepare", !.n = @ + 1]
    ELSE [c EXCEPT !.pc = "finish", !.n = 0, !.err = TRUE]

WaitReady ==
    /\ cl.pc = "ready"
    /\ WaitResponse("READY",
          LAMBDA v : cl' = [cl EXCEPT !.pc = "decide", !.n = 0, !.prepared = TRUE, !.ready = v],
          IF Eof("c") /\ ~stop["c"] THEN ClientFails("finish", "FAIL") ELSE cl' = PrepareAgain(cl))
    /\ UNCHANGED <<pkVars, sv, daemon, history>>

\* The capabilities of both ends decide whether the case is run.
Decide ==
    /\ cl.pc = "decide"
    /\ IF cl.ready = "none" THEN ClientFails("finish", "FAIL")
       ELSE IF cl.k \in opt.lacks["c"] \/ cl.ready = "UNSUPPORTED"
       THEN cl' = [cl EXCEPT !.pc = "finish", !.n = 0, !.result = "UNSUPPORTED"]
       ELSE Client("load")
    /\ UNCHANGED <<netVars, pkVars, sv, daemon, history>>

\* A connection that was not loaded, or not known to be, is not cleaned up.
Load ==
    /\ cl.pc = "load"
    /\ \E o \in BOOLEAN :
          /\ Add("c", cl.k, o)
          /\ cl' = [cl EXCEPT !.pc = IF o THEN "start" ELSE "finish", !.loaded = o, !.err = ~o]
    /\ UNCHANGED <<net, pkVars, sv, history>>

Negotiate ==
    /\ cl.pc = "start"
    /\ \E o \in BOOLEAN :
          /\ Start(cl.k, o)
          /\ cl' = [cl EXCEPT !.pc = IF o THEN "query" ELSE "clean", !.started = TRUE, !.err = ~o]
    /\ UNCHANGED <<net, pkVars, sv, history>>

Query ==
    /\ cl.pc = "query"
    /\ \E o \in BOOLEAN :
          /\ QueryState("c", cl.k, o)
          /\ IF o THEN Client("verify") ELSE ClientFails("clean", "FAIL")
    /\ UNCHANGED <<net, pkVars, sv, daemon, history>>

\* VerifyNativeAppAlgorithmPeer: VERIFY is sent once.
Verify ==
    /\ cl.pc = "verify" /\ Send("VERIFY", "-")
    /\ Client(IF opt.app THEN "packet ready" ELSE "result")
    /\ UNCHANGED <<faults, pkVars, sv, daemon, history>>

WaitPacketReady ==
    /\ cl.pc = "packet ready"
    /\ WaitResponse("PACKET_READY", LAMBDA v : cl' = [cl EXCEPT !.pc = "enter", !.tested = TRUE],
                    ClientFails("clean", "DATA_PATH"))
    /\ UNCHANGED <<pkVars, sv, daemon, history>>

ClientEnters ==
    /\ cl.pc = "enter" /\ Client("test") /\ pk' = [pk EXCEPT !["c"] = Enter("c", 0)]
    /\ UNCHANGED <<netVars, matched, sv, daemon, history>>

\* The exchanges, then the evidence files.  Whatever came of it, RESULT follows.
ClientTest ==
    /\ cl.pc = "test"
    /\ IF pk["c"].at # "out"
       THEN PacketStep("c", cl.k, cl.k \in sa["c"]) /\ UNCHANGED cl
       ELSE \E o \in BOOLEAN :
               /\ Outcome(pk["c"].ok, o)
               /\ cl' = [cl EXCEPT !.pc = "result", !.err = ~o]
               /\ UNCHANGED <<net, pkVars>>
    /\ UNCHANGED <<sv, daemon, history>>

\* The packet error of this side comes before the answer of the peer.
Judged(v) ==
    IF cl.err THEN ClientFails("clean", "DATA_PATH")
    ELSE IF v = "PASS" THEN cl' = [cl EXCEPT !.pc = "traffic", !.verified = TRUE]
    ELSE cl' = [cl EXCEPT !.pc = "clean", !.verified = TRUE, !.peerErr = TRUE, !.result = v]

WaitResult ==
    /\ cl.pc = "result"
    /\ WaitResponse("RESULT", Judged, ClientFails("clean", "DATA_PATH"))
    /\ UNCHANGED <<pkVars, sv, daemon, history>>

\* WaitNativeAppAlgorithmTraffic: the counters of an installed CHILD_SA
Traffic ==
    /\ cl.pc = "traffic"
    /\ \E o \in BOOLEAN :
          /\ Outcome(sa["c"] # {} /\ ~stop["c"], o)
          /\ IF o THEN cl' = [cl EXCEPT !.pc = "clean", !.result = "PASS"]
             ELSE ClientFails("clean", "DATA_PATH")
    /\ UNCHANGED <<net, pkVars, sv, daemon, history>>

LocalCleanup ==
    /\ cl.pc = "clean"
    /\ \E v \in BOOLEAN :
          /\ CleanupCase("c", cl.started, v)
          /\ cl' = [cl EXCEPT !.pc = "finish", !.n = 0, !.cleanErr = ~v, !.err = @ \/ ~v,
                       !.result = IF v \/ cl.err THEN @ ELSE "FAIL"]
    /\ UNCHANGED <<net, pkVars, sv, history>>

\* FinishNativeAppAlgorithmPeer, for a peer that answered READY
FinishPeer ==
    /\ cl.pc = "finish"
    /\ IF cl.prepared
       THEN /\ cl' = [cl EXCEPT !.pc = "done", !.n = @ + 1]
            /\ Send(IF cl.verified /\ cl.result = "PASS" THEN "CLEANUP" ELSE "ABORT", "-")
       ELSE Client("after") /\ UNCHANGED net
    /\ UNCHANGED <<faults, pkVars, sv, daemon, history>>

\* Out of attempts: the cleanup of the peer is not confirmed.
WaitDone ==
    /\ cl.pc = "done"
    /\ WaitResponse("DONE", LAMBDA v : Client("after"),
          cl' = IF cl.n < MaxFinish THEN [cl EXCEPT !.pc = "finish"]
                ELSE [cl EXCEPT !.pc = "after", !.n = 0, !.cleanErr = TRUE, !.err = TRUE,
                         !.result = IF cl.err THEN @ ELSE "FAIL"])
    /\ UNCHANGED <<pkVars, sv, daemon, history>>

\* GetNativeAppAlgorithmCaseError, ShouldStopNativeAppPacketFailure and the
\* rule on unconfirmed cleanups decide whether the matrix goes on.
MatrixStops ==
    \/ opt.app /\ cl.cleanErr
    \/ (cl.err \/ cl.peerErr) /\ ~opt.cont
    \/ cl.tested /\ cl.result = "DATA_PATH" /\ ~opt.contData

\* The case is recorded, its stream closed, and the loop goes round or ends.
CaseEnds ==
    /\ cl.pc = "after"
    /\ verdict' = [verdict EXCEPT ![cl.k] = cl.result]
    /\ confirmed' = IF cl.prepared /\ ~cl.cleanErr THEN confirmed \cup {cl.k} ELSE confirmed
    /\ net' = Closed(net, "c")
    /\ cl' = [Fresh EXCEPT !.k = IF MatrixStops THEN Cases ELSE cl.k]
    /\ UNCHANGED <<faults, pkVars, sv, daemon, served>>

\* FinishNativeAppAlgorithmRun: FINISH is sent once.
Finish ==
    /\ cl.pc = "end" /\ Client("finished") /\ Send("FINISH", "-")
    /\ UNCHANGED <<faults, pkVars, sv, daemon, history>>

WaitFinished ==
    /\ cl.pc = "finished"
    /\ WaitResponse("FINISHED", LAMBDA v : Client("close"), Client("close"))
    /\ UNCHANGED <<pkVars, sv, daemon, history>>

CloseRun ==
    /\ cl.pc = "close" /\ Client("over") /\ net' = Closed(net, "c")
    /\ UNCHANGED <<faults, pkVars, sv, daemon, history>>

-----------------------------------------------------------------------------
(* The responder                                                           *)

Server(pc) == sv' = [sv EXCEPT !.pc = pc]
Reply(n, act, k, val) == net' = Sent(n, "s", Frame(act, k, val))

\* APPLICATION: the next stream of the listener's backlog
Accept ==
    /\ sv.pc = "idle" /\ opt.app /\ net.cur["s"] = 0 /\ ~stop["s"]
    /\ sv.streams < Len(net.str)
    /\ net' = Accepted(net, sv.streams) /\ sv' = [sv EXCEPT !.streams = @ + 1]
    /\ UNCHANGED <<faults, pkVars, cl, daemon, history>>

\* Between cases: the last confirmed cleanup is confirmed again, FINISH ends a
\* run that has begun, PREPARE begins a case, anything else is dropped.
Request ==
    /\ sv.pc = "idle"
    /\ \E m \in Ready("s") : \E rest \in {net, Taken("s", m)} :
          /\ Receive("s", m, rest)
          /\ \/ /\ m.act \in {"CLEANUP", "ABORT"} /\ sv.last = m.k
                /\ Reply(rest, "DONE", m.k, "-") /\ UNCHANGED sv
             \/ /\ m.act = "FINISH" /\ sv.run
                /\ Reply(rest, "FINISHED", m.k, "-") /\ Server("leaving")
             \/ /\ m.act = "PREPARE" /\ net' = rest
                /\ sv' = [Waiting EXCEPT !.pc = "load", !.k = m.k, !.run = TRUE,
                             !.last = sv.last, !.streams = sv.streams]
             \/ /\ ~(m.act \in {"CLEANUP", "ABORT"} /\ sv.last = m.k)
                /\ ~(m.act = "FINISH" /\ sv.run) /\ m.act # "PREPARE"
                /\ net' = (IF Broken(m) THEN Closed(rest, "s") ELSE rest) /\ UNCHANGED sv
    /\ UNCHANGED <<pkVars, cl, daemon, history>>

\* The stream ended between cases: wait for the next one.
Reconnect ==
    /\ sv.pc = "idle" /\ Eof("s") /\ ~stop["s"] /\ net' = Closed(net, "s")
    /\ UNCHANGED <<faults, pkVars, cl, sv, daemon, history>>

\* RunNativeAppAlgorithmServerCase: load the connection of a case that is
\* supported, and say READY.
ServerLoad ==
    /\ sv.pc = "load"
    /\ IF sv.k \in opt.lacks["s"]
       THEN /\ sv' = [sv EXCEPT !.pc = "case", !.val = "UNSUPPORTED", !.result = "UNSUPPORTED"]
            /\ Reply(net, "READY", sv.k, "UNSUPPORTED") /\ UNCHANGED <<faults, daemon>>
       ELSE \E o \in BOOLEAN :
               /\ Add("s", sv.k, o)
               /\ sv' = [sv EXCEPT !.pc = IF o THEN "case" ELSE "leave", !.loaded = o]
               /\ IF o THEN Reply(net, "READY", sv.k, "OK") ELSE UNCHANGED net
    /\ UNCHANGED <<pkVars, cl, history>>

\* A message of the case.  READY and RESULT are said again when asked again.
CaseMessage ==
    /\ sv.pc = "case"
    /\ \E m \in Ready("s") : \E rest \in {net, Taken("s", m)} :
          /\ Receive("s", m, rest)
          /\ IF Broken(m) THEN Server("leave") /\ net' = rest
             ELSE IF m.k # sv.k THEN UNCHANGED sv /\ net' = rest
             ELSE CASE m.act = "PREPARE" -> UNCHANGED sv /\ Reply(rest, "READY", sv.k, sv.val)
                    [] m.act = "VERIFY" /\ sv.verified ->
                          UNCHANGED sv /\ Reply(rest, "RESULT", sv.k, sv.result)
                    [] m.act = "VERIFY" /\ ~sv.verified -> Server("query") /\ net' = rest
                    [] m.act \in {"CLEANUP", "ABORT"} -> Server("clean") /\ net' = rest
                    [] OTHER -> UNCHANGED sv /\ net' = rest
    /\ UNCHANGED <<pkVars, cl, daemon, history>>

ClientWaits ==
    \/ cl.pc = "over"
    \/ Ready("c") = {} /\ cl.pc \in {"ready", "packet ready", "result", "done", "finished"}

\* Seeded fault: a receive timeout does not count against the case.
WaitsForever(s) == s
\* Seeded fault: one receive timeout too many.
TimedOutLate(s) == IF s.n <= MaxWait THEN [s EXCEPT !.n = @ + 1] ELSE [s EXCEPT !.pc = "leave"]
\* A receive timeout: the case is left when too many have gone by.
TimedOut(s) == IF s.n < MaxWait THEN [s EXCEPT !.n = @ + 1] ELSE [s EXCEPT !.pc = "leave"]

CaseWait ==
    /\ sv.pc = "case"
    /\ sv' = IF stop["s"] \/ Eof("s") THEN [sv EXCEPT !.pc = "leave"] ELSE TimedOut(sv)
    /\ Timeout(stop["s"] \/ Eof("s") \/ (Ready("s") = {} /\ ClientWaits))
    /\ UNCHANGED <<net, pkVars, cl, daemon, history>>

\* The first VERIFY: the state of the SA, and in APPLICATION mode the packet
\* test whatever that state is.
ServerQuery ==
    /\ sv.pc = "query"
    /\ \E o \in BOOLEAN :
          /\ QueryState("s", sv.k, o)
          /\ sv' = [sv EXCEPT !.pc = IF opt.app THEN "test" ELSE "traffic", !.ok = o,
                       !.result = IF o THEN "PASS" ELSE "FAIL"]
    /\ IF opt.app
       THEN Reply(net, "PACKET_READY", sv.k, "-") /\ pk' = [pk EXCEPT !["s"] = Enter("s", 0)]
       ELSE UNCHANGED <<net, pk>>
    /\ UNCHANGED <<matched, cl, daemon, history>>

ServerTest ==
    /\ sv.pc = "test"
    /\ IF pk["s"].at # "out"
       THEN PacketStep("s", sv.k, sv.k \in sa["s"]) /\ UNCHANGED sv
       ELSE \E o \in BOOLEAN :
               /\ Outcome(pk["s"].ok, o)
               /\ sv' = [sv EXCEPT !.pc = "traffic", !.ok = sv.ok /\ o,
                            !.result = IF sv.ok /\ ~o THEN "DATA_PATH" ELSE @]
               /\ UNCHANGED <<net, pkVars>>
    /\ UNCHANGED <<cl, daemon, history>>

\* Inbound counters, VERIFY_ACK (which no one reads: it is traffic), outbound
\* counters, RESULT.
ServerTraffic ==
    /\ sv.pc = "traffic"
    /\ \E o \in BOOLEAN :
          /\ Outcome(sv.ok /\ sa["s"] # {} /\ ~stop["s"], o)
          /\ LET r == IF sv.ok /\ ~o THEN "DATA_PATH" ELSE sv.result IN
             /\ sv' = [sv EXCEPT !.pc = "case", !.verified = TRUE, !.ok = o, !.result = r]
             /\ Reply(net, "RESULT", sv.k, r)
          /\ served' = IF o THEN served \cup {sv.k} ELSE served
    /\ UNCHANGED <<pkVars, cl, daemon, verdict, confirmed>>

\* Seeded fault: DONE says that the request came, not that the cleanup worked.
DoneAnyway(v) == TRUE
\* DONE is said when the cleanup was verified, and only then.
SaysDone(v) == v

\* CLEANUP or ABORT
ServerClean ==
    /\ sv.pc = "clean"
    /\ \E v \in BOOLEAN :
          /\ IF sv.loaded THEN CleanupCase("s", FALSE, v)
             ELSE v /\ UNCHANGED <<daemon, faults>>
          /\ sv' = [sv EXCEPT !.pc = "leave", !.loaded = FALSE, !.clean = v]
          /\ IF SaysDone(v) THEN Reply(net, "DONE", sv.k, "-") ELSE UNCHANGED net
    /\ UNCHANGED <<pkVars, cl, history>>

\* The end of the case: clean up what CLEANUP did not, remember a verified
\* cleanup, and close the stream of the case.
Leave ==
    /\ sv.pc = "leave"
    /\ \E v \in BOOLEAN :
          /\ IF sv.loaded THEN CleanupCase("s", FALSE, v)
             ELSE v = sv.clean /\ UNCHANGED <<daemon, faults>>
          /\ sv' = [Waiting EXCEPT !.run = TRUE, !.streams = sv.streams,
                       !.last = IF v THEN sv.k ELSE 0]
    /\ net' = Closed(net, "s")
    /\ UNCHANGED <<pkVars, cl, history>>

\* The run was finished, or the responder was asked to stop.
ServerEnds ==
    /\ sv.pc = "leaving" \/ (sv.pc = "idle" /\ stop["s"])
    /\ Server("over") /\ net' = Deserted(net)
    /\ UNCHANGED <<faults, pkVars, cl, daemon, history>>

-----------------------------------------------------------------------------
ClientStep ==
    \/ CaseBegins \/ Connect \/ Prepare \/ WaitReady \/ Decide \/ Load \/ Negotiate \/ Query
    \/ Verify \/ WaitPacketReady \/ ClientEnters \/ ClientTest \/ WaitResult \/ Traffic
    \/ LocalCleanup \/ FinishPeer \/ WaitDone \/ CaseEnds \/ Finish \/ WaitFinished \/ CloseRun

ServerStep ==
    \/ Accept \/ Request \/ Reconnect \/ ServerLoad \/ CaseMessage \/ CaseWait \/ ServerQuery
    \/ ServerTest \/ ServerTraffic \/ ServerClean \/ Leave \/ ServerEnds

Signal ==
    /\ cl.pc # "over" /\ \E p \in Side : Interrupt(p)
    /\ UNCHANGED <<pkVars, cl, sv, daemon, history>>

Break == cl.pc # "over" /\ StreamBreaks /\ UNCHANGED <<pkVars, cl, sv, daemon, history>>

Over == cl.pc = "over" /\ UNCHANGED vars

Next ==
    \/ ClientStep /\ UNCHANGED <<opt, stop>>
    \/ ServerStep /\ UNCHANGED <<opt, stop>>
    \/ PeerDelete \/ Signal \/ Break \/ Over

\* Every wait of either program is bounded, so each takes its steps.
Spec == Init /\ [][Next]_vars /\ WF_vars(ClientStep /\ UNCHANGED <<opt, stop>>)
                               /\ WF_vars(ServerStep /\ UNCHANGED <<opt, stop>>)

-----------------------------------------------------------------------------
(* Properties                                                              *)

TypeOK ==
    /\ opt \in Options /\ stop \in [Side -> BOOLEAN] /\ faults \in 0..MaxFaults
    /\ net.cur \in [Side -> 0..Len(net.str)]
    /\ cl.k \in 0..Cases /\ cl.n \in 0..(MaxPrepare + MaxFinish) /\ cl.result \in Result
    /\ sv.k \in 0..Cases /\ sv.n \in 0..MaxWait /\ sv.result \in Result
    /\ sv.last \in 0..Cases /\ sv.streams \in 0..Len(net.str)
    /\ conn \in [Side -> 0..Cases] /\ sa \in [Side -> SUBSET Case]
    /\ \A p \in Side : pk[p].r \in 0..(2 * Probes)
    /\ verdict \in [Case -> Result] /\ served \subseteq Case /\ confirmed \subseteq Case

\* The initiator records PASS only for a case that the responder verified too
\* (VerifyNativeAppAlgorithmPeer takes the RESULT of this case only), and in
\* APPLICATION mode only when every probe of both directions was decrypted and
\* matched by its receiver: late, repeated and foreign answers make no PASS.
PassAgreed ==
    \A k \in Case : verdict[k] = "PASS" =>
        /\ k \in served
        /\ opt.app => \A r \in 1..(2 * Probes) : <<k, r>> \in matched

\* In APPLICATION mode, when the initiator leaves a case that the responder had
\* said READY to and no cleanup error was recorded, the responder has given the
\* case up for good: neither its connection nor its SA comes back.
PeerCleanConfirmed ==
    opt.app => \A k \in confirmed :
        /\ conn["s"] # k /\ k \notin sa["s"]
        /\ (sv.k = k) => sv.pc = "leave"

\* RunNativeAppAlgorithmClient returns, whatever the responder does and whichever
\* of its frames are late, lost or repeated.  Its waits count timeouts only, so
\* frames without end from elsewhere, which are not modelled, would postpone it.
RunEnds == <>(cl.pc = "over")

\* RunNativeAppAlgorithmServerCase returns: a responder whose initiator fell
\* silent gives the connection of the case up and is ready for the next one.
ResponderReturns == (sv.k # 0) ~> (sv.k = 0)
=============================================================================
