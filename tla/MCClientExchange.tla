-------------------------- MODULE MCClientExchange --------------------------
(***************************************************************************)
(* One head of every class the policy tells apart, and a limit of one      *)
(* informational head so that the limit is met.                            *)
(***************************************************************************)
EXTENDS ClientExchange

Info(continue) ==
    [class |-> "informational", continue |-> continue, upgrade |-> NoUpgrade,
     matches |-> FALSE, reuse |-> TRUE, body |-> FALSE]
Final(reuse, body) ==
    [class |-> "final", continue |-> FALSE, upgrade |-> NoUpgrade,
     matches |-> FALSE, reuse |-> reuse, body |-> body]
Switch(kind, matches) ==
    [class |-> "upgrade", continue |-> FALSE, upgrade |-> kind,
     matches |-> matches, reuse |-> TRUE, body |-> FALSE]

MCHeads ==
    {Info(TRUE), Info(FALSE), Final(TRUE, TRUE), Final(TRUE, FALSE), Final(FALSE, TRUE),
     Switch("Tunnel", FALSE), Switch("Protocol", TRUE), Switch("Protocol", FALSE)}
=============================================================================
