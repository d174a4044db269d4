--------------------------- MODULE MCDesktopFiles ---------------------------
(***************************************************************************)
(* A configuration, one or two desktop files.  The second file or the rest *)
(* of the first is any sequence of up to three lines, with or without the  *)
(* table line before it; the others are short and well formed.  One table  *)
(* name leaves a table and one a key=value line in the buffer, and one key *)
(* a table.                                                                *)
(***************************************************************************)
EXTENDS DesktopFiles

DE == Table("Desktop Entry", Junk)
Bracketed == [Entry("[t]", "v") EXCEPT !.left = Table("t", Junk)]
Alphabet == {Skip, Junk, Table("t]", Table("t", Junk)), Table("a=b", Entry("[a", "b")),
             Bracketed,
             Entry("Name", "v"), Entry("Name", "w"), Entry("Exec", "v"),
             Entry("Exec", "bad"), Entry("TryExec", "v")}
Settings == {Skip, Junk, Table("t", Junk), Entry("one", "v"), Entry("one", "bad"),
             Entry("many", "v"), Entry("many", "w")}
UpTo(S, k) == UNION {[1 .. n -> S] : n \in 0 .. k}

Plain == <<DE, Entry("Name", "v"), Entry("Exec", "v")>>
Conf == <<Table("t", Junk), Entry("many", "v")>>

MCStartups ==
  [files : {<<Conf, head \o tail, Plain>> :
              head \in {<<>>, <<DE>>}, tail \in UpTo(Alphabet, 3)}
           \cup {<<<<Table("t", Junk)>> \o tail, Plain>> : tail \in UpTo(Settings, 3)},
   nomem : BOOLEAN]
MCLeftovers == {Junk, Table("t", Junk), Entry("[a", "b")}
MCLineSet == Alphabet \cup Settings \cup MCLeftovers \cup {DE}
MCGarbage == {Skip, Table("t", Junk)}
MCOptions == {<<"t", "one">>, <<"t", "many">>}
MCArrays == {<<"t", "many">>}
MCUnparsable == {"bad"}
=============================================================================
