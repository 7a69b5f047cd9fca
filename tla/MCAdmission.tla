---------------------------- MODULE MCAdmission ----------------------------
(* Three clients: an owner, a registered waiter and a newcomer.  Two senders *)
(* are enough to tell a clone from the last sender.                          *)
EXTENDS Admission

CONSTANTS c1, c2, c3

MCClients == {c1, c2, c3}
=============================================================================
