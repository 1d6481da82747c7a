-------------------------- MODULE MCConnectionPull --------------------------
(* The pool with one popping thread, with two users that race to grow it, and *)
(* with a user beside the pinger, which is followed until the first exchange  *)
(* for an outdated successor.                                                 *)
EXTENDS ConnectionPull, TLC

CONSTANTS u1, u2

MCUsers == {u1, u2}
MCCasts == {{u1}, {u1, u2}, {Pinger}, {u1, Pinger}}
Followed == outdated => Pinger \notin cast
=============================================================================
