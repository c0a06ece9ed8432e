----------------------------- MODULE MCViciWait -----------------------------
(* One wait against an ordinary command, and two waits against the closer. *)
EXTENDS ViciWait, TLC

CONSTANTS w1, w2, c1

OneWaiter == {w1}
OneCaller == {c1}
TwoWaiters == {w1, w2}
NoCaller == {}
=============================================================================
