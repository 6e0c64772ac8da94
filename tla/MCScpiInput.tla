----------------------------- MODULE MCScpiInput -----------------------------
(* Streams of two commands: commands that answer, do not answer, are          *)
(* undefined or have the wrong parameter, a block with a line end, a block    *)
(* and a string with a semicolon in it, or none; separators, a character that *)
(* fits nowhere, and both kinds of line ends.                                 *)
EXTENDS ScpiInput

Command ==
  { <<>>, <<"Q", "?">>, <<"S">>, <<"S", " ", "a">>, <<"a", "?">>, <<"D", "?", " ", "a">>,
    <<"D", "?", " ", "#", "2", "LF", "a">>, <<"D", "?", " ", "#", "1", ";">>,
    <<"T", "?", " ", "QUOTE", ";", "QUOTE">> }

LineEnd == { <<"LF">>, <<"CR", "LF">> }
Separator == LineEnd \cup { <<";">>, <<"#">> }

MCStreams ==
  { c[1] \o s[1] \o c[2] \o s[2] : c \in Command \X Command, s \in Separator \X LineEnd }

\* what the theorem CutsMakeNoDifference of ScpiInputProofs supposes of the streams
ASSUME StringsAssumption == \A s \in MCStreams : StringsStayInLines(s)
=============================================================================
