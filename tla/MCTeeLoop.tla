------------------------------ MODULE MCTeeLoop ------------------------------
(* Scripts of two lines: commands with and without answers, blocks with       *)
(* characters that must be escaped or without all their bytes, a missing      *)
(* parameter, EXT, an empty line, lines that end inside and lines that are    *)
(* too long for one buffer or for both.                                       *)
EXTENDS TeeLoop

Line ==
  { <<>>, <<"Q", "?">>, <<"S">>, <<"D", "?">>, <<"S", ";", "D", "?">>,
    <<"Q", "?", "LF", "Q", "?">>, <<"Q", "?", "CR">>,
    <<"D", "?", " ", "#", "1", "LF">>, <<"D", "?", " ", "#", "2", "\\", "\\">>,
    <<"D", "?", " ", "#", "2", "a">>,
    <<"Q", "?", ";", "Q", "?", ";", "Q", "?", "\\">>,
    <<"D", "?", " ", "#", "2", "\\", "a", ";", "a", "LF", "a">> }

MCCareless == {DataQuery}
MCScripts == {<<l, k>> : l \in Line, k \in Line}
=============================================================================
