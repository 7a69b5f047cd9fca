--------------------------- MODULE MCInformational ---------------------------
(* Three calls, so that one can be abandoned in mid-write, the next answered  *)
(* and the last rejected; the limit of two heads is reached by two of them or *)
(* by one and the automatic Continue.                                         *)
EXTENDS Informational

MCMaxSends == 3
MCMaxInformational == 2
=============================================================================
