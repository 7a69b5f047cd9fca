--------------------------- MODULE MCServerDriver ---------------------------
(* Two deadlines, requested in any order, and a clock that passes both; heads *)
(* that end in LF LF or CR LF CR LF after line breaks of their own, a body    *)
(* that looks like the end of a head, a head one byte too long and an illegal *)
(* one, read up to four bytes at a time.                                      *)
EXTENDS ServerDriver

Lf == <<"LF", "LF">>
CrLf == <<"CR", "LF", "CR", "LF">>

MCScripts ==
    {<<[head |-> <<"CR", "LF", "x">> \o CrLf, body |-> Lf, legal |-> TRUE],
       [head |-> <<"x">> \o Lf, body |-> <<>>, legal |-> TRUE]>>,
     <<[head |-> <<"x", "x", "x", "x">> \o CrLf, body |-> <<>>, legal |-> TRUE]>>,
     <<[head |-> <<"x", "LF", "CR", "x">> \o Lf, body |-> <<>>, legal |-> FALSE]>>}
=============================================================================
