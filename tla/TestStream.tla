----------------------------- MODULE TestStream -----------------------------
(***************************************************************************)
(* The control channel of an algorithm test (src/app/algorithm_runner.c,   *)
(* algorithm_packet.c) between the initiator "c" and the responder "s".    *)
(* SYSTEM runs use one pair of UDP sockets: a datagram may be late, lost,  *)
(* repeated or overtaken.  APPLICATION runs open a TCP stream per case:    *)
(* frames arrive in order, until either end closes or shuts the stream.    *)
(* A receive that times out while the peer is at work or a frame is on its *)
(* way is a fault, and the frame may still come later.                     *)
(***************************************************************************)
EXTENDS Naturals, Sequences, FiniteSets

CONSTANT MaxFaults      \* calls that fail, frames late or repeated, streams broken, signals

VARIABLES opt,          \* options of the run
          net,          \* datagrams, streams, and the stream each side holds
          stop,         \* per side: the stop flag of its process
          faults

netVars == <<net, faults>>

Side == {"c", "s"}
Other(p) == IF p = "c" THEN "s" ELSE "c"
Frame(act, k, val) == [act |-> act, k |-> k, val |-> val]

Fault == faults > 0 /\ faults' = faults - 1

\* A call that should succeed when good holds: it fails otherwise, or by a fault.
Outcome(good, o) ==
    \/ good /\ o /\ UNCHANGED faults
    \/ ~good /\ ~o /\ UNCHANGED faults
    \/ good /\ ~o /\ Fault

\* A wait that ends by its timeout
Timeout(quiet) == IF quiet THEN UNCHANGED faults ELSE Fault

NewStream == [in |-> [p \in Side |-> <<>>], open |-> TRUE]

\* OpenNativeAppAlgorithmSocket, OpenNativeAppAlgorithmListener
InitStream ==
    /\ net = [udp |-> [p \in Side |-> {}], str |-> <<>>, cur |-> [p \in Side |-> 0]]
    /\ stop = [p \in Side |-> FALSE] /\ faults = MaxFaults

Holds(n, p) == opt.app /\ n.cur[p] # 0

\* shutdown(SHUT_RDWR): nothing more goes in; what is in can still be read.
Shut(n, p) == IF Holds(n, p) THEN [n EXCEPT !.str[n.cur[p]].open = FALSE] ELSE n

\* close: the frames for p are gone too
Closed(n, p) ==
    IF Holds(n, p)
    THEN [Shut(n, p) EXCEPT !.str[n.cur[p]].in[p] = <<>>, !.cur[p] = 0]
    ELSE n

\* SendNativeAppAlgorithmMessage: a frame into a shut stream is lost, and a
\* TCP send after a stop request shuts the stream.
Sent(n, p, m) ==
    IF ~opt.app THEN [n EXCEPT !.udp[Other(p)] = @ \cup {m}]
    ELSE IF stop[p] THEN Shut(n, p)
    ELSE IF Holds(n, p) /\ n.str[n.cur[p]].open
    THEN [n EXCEPT !.str[n.cur[p]].in[Other(p)] = Append(@, m)]
    ELSE n

Ready(p) ==
    IF ~opt.app THEN net.udp[p]
    ELSE IF Holds(net, p) /\ net.str[net.cur[p]].in[p] # <<>>
    THEN {Head(net.str[net.cur[p]].in[p])} ELSE {}

Taken(p, m) ==
    IF opt.app THEN [net EXCEPT !.str[net.cur[p]].in[p] = Tail(@)]
    ELSE [net EXCEPT !.udp[p] = @ \ {m}]

\* ReceiveNativeAppAlgorithmMessage: rest is the channel once m is read.
Receive(p, m, rest) ==
    /\ ~stop[p] /\ m \in Ready(p)
    /\ \/ rest = Taken(p, m) /\ UNCHANGED faults
       \/ ~opt.app /\ rest = net /\ Fault

Silent == \A p \in Side : Ready(p) = {}

\* ReceiveNativeAppTestFrame at the end of the stream
Eof(p) == Holds(net, p) /\ ~net.str[net.cur[p]].open /\ net.str[net.cur[p]].in[p] = <<>>

\* ConnectNativeAppAlgorithmStream: the stream waits in the listener's backlog.
Opened(n) == [n EXCEPT !.str = Append(@, NewStream), !.cur["c"] = Len(n.str) + 1]

\* AcceptNativeAppAlgorithmStream: accepted is how many the server took before.
Accepted(n, accepted) == [n EXCEPT !.cur["s"] = accepted + 1]

\* The responder returns: its stream and its listener are closed.
Deserted(n) == [n EXCEPT !.str = [i \in DOMAIN n.str |-> [n.str[i] EXCEPT !.open = FALSE]],
                         !.cur["s"] = 0]

\* A TCP connection that breaks
StreamBreaks ==
    /\ \E i \in DOMAIN net.str :
          net.str[i].open /\ net' = [net EXCEPT !.str[i].open = FALSE]
    /\ Fault /\ UNCHANGED <<opt, stop>>

\* SIGINT or SIGTERM at either process
Interrupt(p) ==
    /\ ~stop[p] /\ stop' = [stop EXCEPT ![p] = TRUE]
    /\ Fault /\ UNCHANGED <<opt, net>>
=============================================================================
