-------------------------------- MODULE MCCgi --------------------------------
(* Instances of Cgi for TLC. *)
EXTENDS Cgi

\* Programs that read first or late, close their outputs early, and write a header in
\* one piece or two, or an error that may be read before the header.
AllScripts == {
    <<"read", "head", "d1", "d2", "d3">>,
    <<"part", "rest", "d1", "read", "d2">>,
    <<"head", "d1", "close", "read">>,
    <<"head", "err">>,
    <<"loc", "d1">>,
    <<"bad">>}
AllBodies == {[size |-> n, form |-> f] : n \in {0, 2}, f \in BOOLEAN}

ShortScripts == {<<"loc">>, <<"head">>}
NoBodies == {[size |-> 0, form |-> FALSE]}
=============================================================================
