---------------------------- MODULE MCAppSession ----------------------------
(***************************************************************************)
(* Two connection names; the first is used with two logical credentials,   *)
(* the second shares a credential id with it.                              *)
(***************************************************************************)
EXTENDS AppSession

MCNameOf == [a |-> "c1", b |-> "c1", c |-> "c2"]
MCIdOf == [a |-> "k1", b |-> "k2", c |-> "k1"]
=============================================================================
