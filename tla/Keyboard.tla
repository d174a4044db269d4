------------------------------ MODULE Keyboard ------------------------------
(***************************************************************************)
(* The loop of load() in ui.c around one key: it draws, waits in select()  *)
(* for input or for the next refresh, and takes what the terminal sends    *)
(* byte by byte until a select() that does not wait finds no more of it    *)
(* (keys.c).  The bytes read in one go are one key, or else text.  SIGWINCH*)
(* comes at any point.  What a key then does to the form is module Form.   *)
(***************************************************************************)
EXTENDS Integers, SequencesExt

CONSTANTS Plans,        \* what is pressed: the bytes, and where each key ends in them
          Bindings,     \* what [functions] of the configuration may say
          MaxResizes    \* bound: how often the window changes

ASSUME PlansAssumption == \A p \in Plans :
  /\ p.bytes \in Seq(STRING) /\ p.ends \in Seq(1 .. Len(p.bytes))
  /\ \A i, j \in DOMAIN p.ends : i < j => p.ends[i] < p.ends[j]
ASSUME ResizesAssumption == MaxResizes \in Nat

VARIABLES plan, arrived,        \* the terminal: what is typed, bytes that came
          functions,            \* g_config->functions
          pc, taken, seq,       \* lidm: bytes it read, and the key at hand
          need_resize,
          window, shown,        \* the window, and what scratch_print_ui() saw
          dealt,                \* [seq, act, upto] of every key, in order: upto is
                                \* the bytes that were read by then
          calm                  \* each key came whole, and not while one was read

vars == <<plan, arrived, functions, pc, taken, seq, need_resize, window, shown,
          dealt, calm>>

----------------------------------------------------------------------------
(* enum Keys without NONE, and the sequences that terminals send for each. *)
Keys == <<"ESC", "F1", "F2", "F3", "F4", "F5", "F6", "F7", "F8", "F9", "F10", "F11",
          "F12", "A_UP", "A_DOWN", "A_RIGHT", "A_LEFT", "N_CENTER", "N_UP", "N_DOWN",
          "N_RIGHT", "N_LEFT", "INS", "SUPR", "HOME", "END", "PAGE_UP", "PAGE_DOWN">>
Mapping(k, ss) == [key |-> k, sequences |-> {<<"esc">> \o s : s \in ss}]
KEY_MAPPINGS == <<
  Mapping("ESC", {<<>>}),
  Mapping("F1", {<<"O", "P">>, <<"[", "[", "A">>}),
  Mapping("F2", {<<"O", "Q">>, <<"[", "[", "B">>}),
  Mapping("F3", {<<"O", "R">>, <<"[", "[", "C">>}),
  Mapping("F4", {<<"O", "S">>, <<"[", "[", "D">>}),
  Mapping("F5", {<<"[", "1", "5", "~">>, <<"[", "[", "E">>}),
  Mapping("F6", {<<"[", "1", "7", "~">>}), Mapping("F7", {<<"[", "1", "8", "~">>}),
  Mapping("F8", {<<"[", "1", "9", "~">>}), Mapping("F9", {<<"[", "2", "0", "~">>}),
  Mapping("F10", {<<"[", "2", "1", "~">>}), Mapping("F11", {<<"[", "2", "3", "~">>}),
  Mapping("F12", {<<"[", "2", "4", "~">>}),
  Mapping("A_UP", {<<"[", "A">>}), Mapping("A_DOWN", {<<"[", "B">>}),
  Mapping("A_RIGHT", {<<"[", "C">>}), Mapping("A_LEFT", {<<"[", "D">>}),
  Mapping("N_CENTER", {<<"[", "E">>}),
  Mapping("N_UP", {<<"O", "A">>}), Mapping("N_DOWN", {<<"O", "B">>}),
  Mapping("N_RIGHT", {<<"O", "C">>}), Mapping("N_LEFT", {<<"O", "D">>}),
  Mapping("INS", {<<"[", "2", "~">>}), Mapping("SUPR", {<<"[", "3", "~">>}),
  Mapping("HOME", {<<"[", "H">>}), Mapping("END", {<<"[", "F">>}),
  Mapping("PAGE_UP", {<<"[", "5", "~">>}), Mapping("PAGE_DOWN", {<<"[", "6", "~">>}) >>

(* The index of the first entry of that name; NONE is behind the last one. *)
find_keyname(name) == SelectInSeq(SubSeq(Keys, 1, Len(KEY_MAPPINGS)), LAMBDA k : k = name)

(* A slip: an entry matches whatever begins with one of its sequences.     *)
FindPrefix(s) ==
  LET at == SelectInSeq(KEY_MAPPINGS, LAMBDA m : \E p \in m.sequences : IsPrefix(p, s))
  IN  IF at = 0 THEN "NONE" ELSE Keys[at]

find_ansi(s) == LET at == SelectInSeq(KEY_MAPPINGS, LAMBDA m : s \in m.sequences)
                IN  IF at = 0 THEN "NONE" ELSE Keys[at]

(* A name that is not found is reported and leaves the default in place.   *)
Default == [refresh |-> "F5", reboot |-> "F2", poweroff |-> "F1", fido |-> "NONE"]
Bound(b) == [f \in DOMAIN Default |-> IF find_keyname(b[f]) = 0 THEN Default[f] ELSE b[f]]

(* What load() does with a sequence.                                       *)
Act(s) ==
  LET key == find_ansi(s)
  IN  IF s[1] # "esc" THEN IF s = <<"newline">> THEN "login" ELSE "type"
      ELSE IF key = "NONE" THEN "nothing"
      ELSE IF key = "ESC" THEN "escape"
      ELSE IF key = functions.refresh THEN "refresh"
      ELSE IF key = functions.reboot THEN "reboot"
      ELSE IF key = functions.poweroff THEN "poweroff"
      ELSE IF key = functions.fido THEN "fido"
      ELSE IF key \in {"A_UP", "A_DOWN"} THEN "focus"
      ELSE IF key \in {"A_RIGHT", "A_LEFT"} THEN "seek"
      ELSE "nothing"

----------------------------------------------------------------------------
Input == plan.bytes
Ready == taken < arrived
End(i) == IF i = 0 THEN 0 ELSE plan.ends[i]
Stops == {End(i) : i \in 0 .. Len(plan.ends)}
Pressed(i) == SubSeq(Input, End(i - 1) + 1, End(i))

Init == /\ plan \in Plans /\ arrived = 0
        /\ \E b \in Bindings : functions = Bound(b)
        /\ pc = "redraw" /\ taken = 0 /\ seq = <<>>
        /\ need_resize = FALSE /\ window = 0 /\ shown = -1
        /\ dealt = <<>> /\ calm = TRUE

terminal == <<plan, functions, arrived, window, calm>>

(* scratch_print_ui(), before the loop and after a session.                *)
Redraw == /\ pc = "redraw" /\ pc' = "loop"
          /\ shown' = window
          /\ UNCHANGED <<terminal, taken, seq, need_resize, dealt>>

(* The head of the loop; print_head() does not look at the window.         *)
Loop == /\ pc = "loop"
        /\ pc' = IF need_resize THEN "draw" ELSE "select"
        /\ need_resize' = FALSE
        /\ UNCHANGED <<terminal, taken, seq, shown, dealt>>
Draw == /\ pc = "draw" /\ pc' = "paint"
        /\ shown' = window
        /\ UNCHANGED <<terminal, taken, seq, need_resize, dealt>>

(* A slip: need_resize is cleared when the window has been drawn.          *)
PaintClears == /\ pc = "paint" /\ pc' = "select"
               /\ need_resize' = FALSE
               /\ UNCHANGED <<terminal, taken, seq, shown, dealt>>
Paint == /\ pc = "paint" /\ pc' = "select"
         /\ UNCHANGED <<terminal, taken, seq, need_resize, shown, dealt>>

(* A slip: select() is called without a timeout.                           *)
SelectForever == /\ pc = "select" /\ Ready /\ pc' = "read"
                 /\ seq' = <<>>
                 /\ UNCHANGED <<terminal, taken, need_resize, shown, dealt>>

(* select() in read_press_nb(): input, or the refresh rate has passed.     *)
Select == /\ pc = "select"
          /\ pc' = IF Ready THEN "read" ELSE "loop"
          /\ seq' = IF Ready THEN <<>> ELSE seq
          /\ UNCHANGED <<terminal, taken, need_resize, shown, dealt>>

(* read() of one byte, which waits for it and goes on after a signal.      *)
Read == /\ pc = "read" /\ Ready
        /\ seq' = Append(seq, Input[taken + 1]) /\ taken' = taken + 1
        /\ pc' = "more"
        /\ UNCHANGED <<terminal, need_resize, shown, dealt>>

(* A slip: this select() waits too.                                        *)
MoreWaits == /\ pc = "more" /\ Ready /\ pc' = "read"
             /\ UNCHANGED <<terminal, taken, seq, need_resize, shown, dealt>>

(* selret_magic(): a select() that does not wait.                          *)
More == /\ pc = "more"
        /\ pc' = IF Ready THEN "read" ELSE "deal"
        /\ UNCHANGED <<terminal, taken, seq, need_resize, shown, dealt>>

(* A slip: bytes of the key are dealt with and stay in the buffer.         *)
DealTwice == /\ pc = "deal"
             /\ LET d == [seq |-> seq, act |-> Act(seq), upto |-> taken]
                IN  dealt' = dealt \o <<d, d>>
             /\ pc' = "loop"
             /\ UNCHANGED <<terminal, taken, seq, need_resize, shown>>

Deal == /\ pc = "deal"
        /\ LET act == Act(seq)
           IN  /\ dealt' = Append(dealt, [seq |-> seq, act |-> act, upto |-> taken])
               /\ pc' = CASE act \in {"login", "fido"} -> "launch"
                          [] act \in {"refresh", "reboot", "poweroff"} -> "left"
                          [] OTHER -> "loop"
        /\ UNCHANGED <<terminal, taken, seq, need_resize, shown>>

(* launch() fails and the password is marked, or a session has ended.      *)
LaunchReturns == /\ pc = "launch" /\ pc' \in {"loop", "redraw"}
                 /\ UNCHANGED <<terminal, taken, seq, need_resize, shown, dealt>>

Lidm == Redraw \/ Loop \/ Draw \/ Paint \/ Select \/ Read \/ More \/ Deal

(* SIGINT: the terminal is restored and lidm exits.                        *)
Interrupt == /\ pc # "left" /\ pc' = "left"
             /\ UNCHANGED <<terminal, taken, seq, need_resize, shown, dealt>>

(* n bytes come from the terminal: a key of several bytes may come torn.   *)
Arrive(n) == /\ pc # "left" /\ arrived + n <= Len(Input)
             /\ arrived' = arrived + n
             /\ calm' = (calm /\ ~ Ready /\ pc \notin {"read", "more"}
                              /\ {m \in Stops : arrived < m /\ m <= arrived'} = {arrived'})
             /\ UNCHANGED <<plan, functions, pc, taken, seq, need_resize, window, shown,
                            dealt>>

(* The window changes and process_sigwinch() runs.  A select() that has    *)
(* found nothing yet fails with EINTR: the first one then counts as a      *)
(* refresh, the second one makes read_press() read another byte.           *)
Resize == /\ pc # "left" /\ window < MaxResizes
          /\ window' = window + 1 /\ need_resize' = TRUE
          /\ \/ UNCHANGED <<pc, calm>>
             \/ pc = "select" /\ ~ Ready /\ pc' = "loop" /\ UNCHANGED calm
             \/ pc = "more" /\ ~ Ready /\ pc' = "read" /\ calm' = FALSE
          /\ UNCHANGED <<plan, functions, arrived, taken, seq, shown, dealt>>

Next == Lidm \/ LaunchReturns \/ Interrupt \/ Resize
        \/ \E n \in 1 .. Len(Input) - arrived : Arrive(n)

(* The loop goes on; a session may last, and nothing need be typed.        *)
Spec == Init /\ [][Next]_vars /\ WF_vars(Lidm)

----------------------------------------------------------------------------
DealtTo(i) == IF i = 0 THEN 0 ELSE dealt[i].upto
Handled == DealtTo(Len(dealt))

(* Every byte read is dealt with exactly once and in the order it came, or *)
(* it is part of the key at hand (keys.c 37-54, ui.c 286-351).             *)
KeyboardInv ==
  /\ pc \in {"redraw", "loop", "draw", "paint", "select", "read", "more", "deal",
            "launch", "left"}
  /\ taken \in 0 .. arrived /\ arrived \in 0 .. Len(Input)
  /\ window \in 0 .. MaxResizes /\ shown \in -1 .. window
  /\ need_resize \in BOOLEAN /\ calm \in BOOLEAN
  /\ \A i \in DOMAIN dealt :
       /\ DealtTo(i - 1) < DealtTo(i)
       /\ dealt[i].seq = SubSeq(Input, DealtTo(i - 1) + 1, DealtTo(i))
  /\ CASE pc \in {"read", "more", "deal"} -> /\ Handled <= taken
                                            /\ seq = SubSeq(Input, Handled + 1, taken)
       [] pc = "left" -> Handled <= taken
       [] OTHER -> Handled = taken

(* Where each key comes whole and none while another is read, every key is *)
(* dealt with as itself: enter logs in, a bound key does what it is bound  *)
(* to, whichever of its sequences the terminal sends (keys.h 78-107).      *)
Promised(key) ==
  LET bound == {f \in DOMAIN functions : functions[f] = key}
  IN  IF key = "ESC" THEN {"escape"}
      ELSE IF bound # {} THEN bound
      ELSE IF key \in {"A_UP", "A_DOWN"} THEN {"focus"}
      ELSE IF key \in {"A_LEFT", "A_RIGHT"} THEN {"seek"}
      ELSE {"nothing"}
KeysAct == calm => \A i \in DOMAIN dealt :
  /\ i \in DOMAIN plan.ends /\ dealt[i].seq = Pressed(i)
  /\ \A m \in Range(KEY_MAPPINGS) :
       Pressed(i) \in m.sequences => dealt[i].act \in Promised(m.key)
  /\ Pressed(i)[1] # "esc" =>
       dealt[i].act = IF Pressed(i) = <<"newline">> THEN "login" ELSE "type"

(* A change of the window that is not on the screen is noted, or is about  *)
(* to be seen: no signal is lost between the test of need_resize and the   *)
(* ioctl() (ui.c 276-278).                                                 *)
ResizeNoted == window # shown => need_resize \/ pc \in {"draw", "redraw", "left"}

(* keys.h 117: read_press_nb() is "non blocking, waits up to tv or         *)
(* interrupt".  A signal in the second select() makes it wait for a byte   *)
(* that nobody has typed.                                                  *)
Stuck == pc = "read" /\ ~ Ready
NonBlocking == ~ Stuck

(* lidm-config.5 105-106: the refresh rate is that of the resize, also when*)
(* the signal comes right before the select().  Only a session, an exit and*)
(* an interrupted selret_magic() keep the new window from being drawn.     *)
ResizeIsDrawn == window # shown ~> window = shown \/ pc \in {"launch", "left"} \/ Stuck

(* Whatever has come is dealt with without another key being pressed, with *)
(* the same exceptions (keys.c 45-52).                                     *)
BytesAreHandled == Handled < arrived ~>
                     Handled = arrived \/ pc \in {"launch", "left"} \/ Stuck
=============================================================================
