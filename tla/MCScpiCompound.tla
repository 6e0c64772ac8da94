--------------------------- MODULE MCScpiCompound ---------------------------
(* Two families of sessions.  Chains: messages of up to four headers over one *)
(* command list: a path longer than the mnemonic after it, a deeper path, a   *)
(* relative header that is found and one that is not, an empty unit, a header *)
(* at the root, one without a path, an optional keyword, a number, a query    *)
(* and a common command.  Patterns: every pattern of up to three keywords,    *)
(* all different, each optional or not and with a number or not, against      *)
(* every header of up to three words.                                         *)
EXTENDS ScpiCompound

Part(names, optional, numbered) == [name : names, optional : optional, numbered : numbered]
Fixed(name) == [name |-> name, optional |-> FALSE, numbered |-> FALSE]
Command(parts) == [parts |-> parts, query |-> FALSE]

MCCmdList ==
  << Command(<<Fixed(<<"A", "B">>), Fixed(<<"C">>)>>),
     Command(<<Fixed(<<"A", "B">>), [name |-> <<"E">>, optional |-> TRUE, numbered |-> TRUE],
               Fixed(<<"F">>)>>),
     [parts |-> <<Fixed(<<"A", "B">>), Fixed(<<"D">>)>>, query |-> TRUE],
     Command(<<Fixed(<<"D">>)>>),
     Command(<<Fixed(<<"*", "I">>)>>) >>

MCHeader ==
  { <<"A", "B", ":", "C">>, <<"A", "B", ":", "E", "2", ":", "F">>, <<"C">>, <<"D", "?">>,
    <<"X">>, <<":", "D">>, <<"*", "I">>, <<"F">>, <<>> }

\* units separated by semicolons
Joined(units) == Tail(FoldLeft(LAMBDA m, u : m \o <<Semicolon>> \o u, <<>>, units))

Chains == [cmdlist : {MCCmdList},
           message : {Joined(units) : units \in UNION {[1 .. n -> MCHeader] : n \in 1 .. 4}}]

MCParts ==
  {<<Fixed(<<"*">>)>>}
    \cup {<<p>> : p \in Part({<<"A">>}, BOOLEAN, BOOLEAN)}
    \cup {<<p, q>> : p \in Part({<<"A">>}, BOOLEAN, BOOLEAN), q \in Part({<<"B">>}, BOOLEAN, BOOLEAN)}
    \cup {<<p, q, r>> : p \in Part({<<"A">>}, BOOLEAN, BOOLEAN), q \in Part({<<"B">>}, BOOLEAN, BOOLEAN),
                        r \in Part({<<"C">>}, BOOLEAN, BOOLEAN)}

MCWord == { <<"A">>, <<"A", "2">>, <<"B">>, <<"B", "3">>, <<"C">>, <<"C", "4">> }

Spelled(words) == FoldLeft(LAMBDA h, w : IF h = <<>> THEN w ELSE h \o <<":">> \o w, <<>>, words)

MCSpelling ==
  {colon \o Spelled(words) \o mark :
     colon \in {<<>>, <<":">>}, mark \in {<<>>, <<"?">>},
     words \in {<<<<"*">>>>} \cup UNION {[1 .. n -> MCWord] : n \in 1 .. 3}}

Patterns ==
  {[cmdlist |-> <<[parts |-> ps, query |-> q]>>, message |-> h] :
     ps \in MCParts, q \in BOOLEAN, h \in MCSpelling}

MCSessions == Chains \cup Patterns
=============================================================================
