----------------------------- MODULE MCUpgrade -----------------------------
(***************************************************************************)
(* Two claims, two transport types besides the boxed form, and a stream    *)
(* longer than any one buffer.                                             *)
(***************************************************************************)
EXTENDS UpgradedTransport

CONSTANTS c1, c2, tcp, tls

MCClaims == {c1, c2}
MCTypes == {tcp, tls}
MCWidths == {1, 2}
=============================================================================
