----------------------------- MODULE PacketTest -----------------------------
(***************************************************************************)
(* The packet test of an APPLICATION case (RunNativeAppAlgorithmPacketTest *)
(* in src/app/algorithm_packet.c).  Both ends walk through the same        *)
(* exchanges: number 0 is the handshake, the odd ones carry a probe of the *)
(* initiator, the even ones a probe of the responder.  In each one the     *)
(* sender relays an ESP packet with its status and waits for the status of *)
(* the receiver, which submitted the packet and compared the plaintext.    *)
(***************************************************************************)
EXTENDS TestStream

CONSTANT Probes         \* probes in each direction (NATIVE_APP_PROBE_COUNT)

VARIABLES pk,           \* per side: exchange, step in it, own status
          matched       \* <<case, exchange>> whose plaintext the receiver matched

pkVars == <<pk, matched>>

Sender(r) == IF r = 0 \/ r % 2 = 1 THEN "c" ELSE "s"
Enter(p, r) == [r |-> r, at |-> IF Sender(r) = p THEN "send" ELSE "receive", ok |-> TRUE]
Idle == [r |-> 0, at |-> "out", ok |-> FALSE]

InitPacketTest == pk = [p \in Side |-> Idle] /\ matched = {}

Out(p, ok) == pk' = [pk EXCEPT ![p] = [@ EXCEPT !.at = "out", !.ok = ok]]

\* VerifyNativeAppPacketTestProof holds after the last exchange and not before.
Passed(p) == IF pk[p].r = 2 * Probes THEN Out(p, TRUE)
             ELSE pk' = [pk EXCEPT ![p] = Enter(p, pk[p].r + 1)]

\* Plaintext out, ESP in, its framing and SPI: good when the SA is there.
\* Whatever came of it, the record goes to the peer with the status.
Relay(p, k, good) ==
    /\ pk[p].at = "send" /\ ~stop[p]
    /\ \E o \in BOOLEAN :
          /\ Outcome(good, o)
          /\ pk' = [pk EXCEPT ![p].at = "await", ![p].ok = o]
          /\ net' = Sent(net, p, Frame("E", k, [r |-> pk[p].r, ok |-> o]))
    /\ UNCHANGED <<opt, stop, matched>>

\* The status of the receiver ends the test like the sender's own.
Acknowledged(p, s) == IF pk[p].ok /\ s THEN Passed(p) ELSE Out(p, FALSE)

IsRecord(m, act, r) == m.act = act /\ m.val.r = r

\* ReceiveNativeAppProbeRecord: another frame than the one due shuts the stream.
Await(p) ==
    /\ pk[p].at = "await"
    /\ \E m \in Ready(p), rest \in {Taken(p, n) : n \in Ready(p)} :
          /\ Receive(p, m, rest)
          /\ IF IsRecord(m, "A", pk[p].r)
             THEN net' = rest /\ Acknowledged(p, m.val.ok)
             ELSE net' = Shut(rest, p) /\ Out(p, FALSE)
    /\ UNCHANGED <<opt, stop, matched>>

\* Inspect, submit, receive the plaintext, compare, and answer with the status.
Deliver(p, k, good) ==
    /\ pk[p].at = "receive"
    /\ \E m \in Ready(p) : ~stop[p] /\
          IF IsRecord(m, "E", pk[p].r)
          THEN \E o \in BOOLEAN :
                  /\ Outcome(good /\ m.val.ok, o)
                  /\ net' = Sent(Taken(p, m), p, Frame("A", k, [r |-> pk[p].r, ok |-> o]))
                  /\ matched' = IF o THEN matched \cup {<<k, pk[p].r>>} ELSE matched
                  /\ IF o THEN Passed(p) ELSE Out(p, FALSE)
          ELSE /\ net' = Shut(Taken(p, m), p) /\ Out(p, FALSE)
               /\ UNCHANGED <<matched, faults>>
    /\ UNCHANGED <<opt, stop>>

\* No record before the deadline: the end leaves and the stream stays open.  A
\* stop request, the end of the stream, half a record and a report that cannot
\* be written leave it shut.
GiveUp(p) ==
    /\ pk[p].at # "out" /\ Out(p, FALSE)
    /\ \/ pk[p].at # "send" /\ ~stop[p] /\ ~Eof(p) /\ UNCHANGED net
          /\ Timeout(Silent /\ pk[Other(p)].at # "send")
       \/ (stop[p] \/ Eof(p)) /\ net' = Shut(net, p) /\ UNCHANGED faults
       \/ (pk[p].at # "send" \/ pk[p].r = 0)
          /\ net' = Shut(net, p) /\ Fault
    /\ UNCHANGED <<opt, stop, matched>>

PacketStep(p, k, good) == Relay(p, k, good) \/ Await(p) \/ Deliver(p, k, good) \/ GiveUp(p)
=============================================================================
