------------------------------- MODULE MCForm -------------------------------
(***************************************************************************)
(* One user among three accounts; two desktop sessions and the default     *)
(* shell, whose name begins one of theirs.  A character of two bytes       *)
(* arrives whole or in two pieces, in fields of three bytes and a null     *)
(* byte, so that one of one byte, which comes from a name, stands on       *)
(* either side.                                                            *)
(***************************************************************************)
EXTENDS Form

MCPasswd == <<[name |-> <<"x">>, home |-> "elsewhere", shell |-> <<"x">>],
              [name |-> <<"b", "k">>, home |-> "in /home/", shell |-> <<"s">>],
              [name |-> <<"s">>, home |-> "elsewhere", shell |-> <<"x">>]>>
MCSessions == <<<<"s", "x">>, <<"x">>>>
SameNameSessions == <<<<"x">>, <<"x">>>>      \* an X11 and a Wayland "x"
MCUpdates == {<<"b", "k">>, <<"k">>}
=============================================================================
