----------------------------- MODULE MCKeyboard -----------------------------
(* Every sequence of the table by itself, and runs of a few keys.          *)
EXTENDS Keyboard

MCSequences == UNION {m.sequences : m \in Range(KEY_MAPPINGS)}
MCMixed == {<<"a">>, <<"newline">>, <<"esc">>, <<"esc", "[", "A">>}
Plan(ks) == [bytes |-> FlattenSeq(ks),
             ends |-> [i \in DOMAIN ks |-> Len(FlattenSeq(SubSeq(ks, 1, i)))]]
MCPlans == {Plan(ks) : ks \in
           {<<s>> : s \in MCSequences}
           \cup [1 .. 2 -> MCMixed]
           \cup {<<<<"a">>, <<"newline">>, <<"b">>>>, <<<<"a">>, <<"b">>, <<"newline">>>>}}
MCBindings == {[refresh |-> "F5", reboot |-> "F2", poweroff |-> "F1", fido |-> "F3"],
               [refresh |-> "A_UP", reboot |-> "A_UP", poweroff |-> "ESC", fido |-> "NONE"]}
=============================================================================
