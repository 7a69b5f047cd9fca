-------------------------- MODULE MCServerExchange --------------------------
(***************************************************************************)
(* Responses of every class the policy tells apart.                        *)
(***************************************************************************)
EXTENDS ServerExchange

Head(class, kind, matches, reuse) ==
    [class |-> class, continue |-> FALSE, upgrade |-> kind, matches |-> matches,
     reuse |-> reuse, body |-> FALSE]

MCHeads ==
    {Head("informational", NoUpgrade, FALSE, TRUE),
     Head("final", NoUpgrade, FALSE, TRUE), Head("final", NoUpgrade, FALSE, FALSE),
     Head("upgrade", "Tunnel", FALSE, TRUE),
     Head("upgrade", "Protocol", TRUE, TRUE), Head("upgrade", "Protocol", FALSE, TRUE)}
=============================================================================
