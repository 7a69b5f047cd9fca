------------------------------- MODULE MCPipe -------------------------------
(* Two wakers, so that a future can be polled again with another waker, and  *)
(* three items, so that an offer can follow a delivered and a cancelled one. *)
EXTENDS Pipe

CONSTANTS i1, i2, i3, w1, w2

MCItems == {i1, i2, i3}
MCWakers == {w1, w2}
=============================================================================
