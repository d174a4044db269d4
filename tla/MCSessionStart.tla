--------------------------- MODULE MCSessionStart ---------------------------
(***************************************************************************)
(* Every Exec line of up to five characters, and some of four words, with a*)
(* plain environment; every environment with one Exec line and with the    *)
(* default shell.                                                          *)
(* With MaxArgs = 1 a third argument is one too many, and with             *)
(* ArgLength = 2 the block of an argument grows twice.                     *)
(***************************************************************************)
EXTENDS SessionStart

UpTo(S, n) == UNION {[1 .. m -> S] : m \in 0 .. n}
FileLines == {"#comment", "blank", "no equal sign", "HOME", "LANG"}

Bare1 == [pam |-> <<"HOME">>, unset |-> {"TERM"}, source |-> <<>>, user_source |-> <<>>,
          x11 |-> FALSE]
MCSetups ==
  [pam : {<<>>, <<"PATH">>, <<"HOME", "LANG">>},
   unset : {{}, {"TERM", "PATH"}, {"TERM", "HOME"}},
   source : {<<>>, <<Missing, <<"LANG">>>>} \cup {<<f>> : f \in UpTo(FileLines, 2)},
   user_source : {<<>>, <<<<"HOME", "LANG">>>>, <<Missing>>},
   x11 : BOOLEAN] \cup {Bare1}

TwoWords == <<"letter", "space", "letter">>
FourWords == {<<"letter", "space", "letter", "space", c, d, "space", "letter">> :
                c, d \in Char}
MCStarts ==
  [exec_s : UpTo(Char, 5) \cup FourWords, setup : {Bare1}, shell : {FALSE}, bypass : BOOLEAN]
  \cup [exec_s : {TwoWords}, setup : MCSetups, shell : {FALSE}, bypass : {FALSE}]
  \cup [exec_s : {<<>>}, setup : MCSetups, shell : {TRUE}, bypass : {TRUE}]
  \cup [exec_s : {<<>>}, setup : {Bare1}, shell : {TRUE}, bypass : {FALSE}]

MCPaths == UpTo({"nothing", "no program", "program", "directory"}, 2)
=============================================================================
