--------------------------- MODULE KeyboardProofs ---------------------------
(***************************************************************************)
(* However often the window changes, whatever is typed and however it      *)
(* comes: proofs that no change of the window is forgotten, that every byte*)
(* is dealt with once and in order, and that a key which comes whole is    *)
(* taken as itself.                                                        *)
(***************************************************************************)
EXTENDS Keyboard, TLAPS

(* The steps of load() and of keys.c keep it.                              *)
LEMMA LidmStep == ResizeNoted /\ Lidm => ResizeNoted'
<1> SUFFICES ASSUME ResizeNoted, Lidm PROVE ResizeNoted'
  OBVIOUS
<1> USE DEF ResizeNoted, terminal
<1>1. CASE Redraw
  BY <1>1 DEF Redraw
<1>2. CASE Loop
  BY <1>2 DEF Loop
<1>3. CASE Draw
  BY <1>3 DEF Draw
<1>4. CASE Paint
  BY <1>4 DEF Paint
<1>5. CASE Select
  BY <1>5 DEF Select
<1>6. CASE Read
  BY <1>6 DEF Read
<1>7. CASE More
  BY <1>7 DEF More
<1>8. CASE Deal
  BY <1>8 DEF Deal
<1> QED BY <1>1, <1>2, <1>3, <1>4, <1>5, <1>6, <1>7, <1>8 DEF Lidm

(* Between the test of need_resize, its reset, the ioctl() and the drawing *)
(* a change of the window is always noted or still to be read.             *)
THEOREM ResizeKept == Spec => []ResizeNoted
<1>1. Init => ResizeNoted
  BY DEF Init, ResizeNoted
<1>2. ResizeNoted /\ [Next]_vars => ResizeNoted'
  <2> SUFFICES ASSUME ResizeNoted, [Next]_vars PROVE ResizeNoted'
    OBVIOUS
  <2> USE DEF ResizeNoted, terminal
  <2>1. CASE Lidm
    BY <2>1, LidmStep
  <2>2. CASE LaunchReturns
    BY <2>2 DEF LaunchReturns
  <2>3. CASE Interrupt
    BY <2>3 DEF Interrupt
  <2>4. CASE Resize
    BY <2>4 DEF Resize
  <2>5. ASSUME NEW n \in 1 .. Len(Input) - arrived, Arrive(n) PROVE ResizeNoted'
    BY <2>5 DEF Arrive
  <2>6. CASE UNCHANGED vars
    BY <2>6 DEF vars
  <2> QED BY <2>1, <2>2, <2>3, <2>4, <2>5, <2>6 DEF Next
<1> QED BY <1>1, <1>2, PTL DEF Spec
----------------------------------------------------------------------------
Acts == {"login", "type", "nothing", "escape", "refresh", "reboot", "poweroff", "fido",
         "focus", "seek"}
Deals == [seq : Seq(STRING), act : Acts, upto : Nat]

(* The inductive invariant behind KeyboardInv: a key at hand has a byte    *)
(* before anybody deals with it.                                           *)
KeyInd == /\ KeyboardInv
          /\ plan \in Plans /\ dealt \in Seq(Deals)
          /\ \E b \in Bindings : functions = Bound(b)
          /\ pc \in {"more", "deal"} => Handled < taken
          /\ \A i \in DOMAIN dealt : dealt[i].act = Act(dealt[i].seq)

(* One byte more of a part of the input.                                   *)
LEMMA OneMore ==
  ASSUME NEW s \in Seq(STRING), NEW a \in Nat, NEW t \in Nat, a <= t, t < Len(s)
  PROVE  Append(SubSeq(s, a + 1, t), s[t + 1]) = SubSeq(s, a + 1, t + 1)
<1> DEFINE p == SubSeq(s, a + 1, t)
           q == SubSeq(s, a + 1, t + 1)
<1>1. p \in Seq(STRING) /\ Len(p) = t - a /\ \A i \in 1 .. t - a : p[i] = s[a + i]
  OBVIOUS
<1>2. q \in Seq(STRING) /\ Len(q) = t - a + 1 /\ \A i \in 1 .. t - a + 1 : q[i] = s[a + i]
  OBVIOUS
<1>3. s[t + 1] \in STRING /\ s[t + 1] = s[a + (t - a + 1)]
  OBVIOUS
<1> HIDE DEF p, q
<1>4. Append(p, s[t + 1]) = q
  BY <1>1, <1>2, <1>3
<1> QED BY <1>4 DEF p, q

LEMMA ActTyped == \A s : Act(s) \in Acts
BY Zenon DEF Act, Acts

LEMMA InputTyped == KeyInd => Input \in Seq(STRING)
BY PlansAssumption DEF KeyInd, Input

(* What is dealt with does not change, and what is known of it neither.    *)
LEMMA DealtKept ==
  ASSUME KeyInd, UNCHANGED <<plan, functions, dealt>>
  PROVE  /\ Handled' = Handled /\ Input' = Input /\ Handled \in Nat
         /\ plan' \in Plans /\ dealt' \in Seq(Deals)
         /\ (\E b \in Bindings : functions = Bound(b))'
         /\ \A i \in DOMAIN dealt' : /\ (DealtTo(i - 1) < DealtTo(i))'
                                    /\ (dealt[i].seq = SubSeq(Input, DealtTo(i - 1) + 1, DealtTo(i)))'
                                    /\ (dealt[i].act = Act(dealt[i].seq))'
<1>1. Input' = Input
  BY DEF Input
<1>2. \A i : DealtTo(i)' = DealtTo(i)
  BY DEF DealtTo
<1>3. Handled' = Handled
  BY <1>2 DEF Handled, DealtTo
<1>4. \A s : Act(s)' = Act(s)
  BY DEF Act
<1>5. (\E b \in Bindings : functions = Bound(b))'
  BY DEF KeyInd
<1>6. Handled \in Nat
  <2>1. dealt \in Seq(Deals) /\ Len(dealt) \in Nat
    BY DEF KeyInd
  <2>2. Len(dealt) # 0 => dealt[Len(dealt)] \in Deals
    BY <2>1
  <2> QED BY <2>2 DEF Handled, DealtTo, Deals
<1> QED BY <1>1, <1>2, <1>3, <1>4, <1>5, <1>6 DEF KeyInd, KeyboardInv

(* Every step that reads nothing and deals with nothing.                   *)
LEMMA KeyStays ==
  ASSUME KeyInd, UNCHANGED <<plan, functions, dealt, taken>>,
         arrived' \in arrived .. Len(Input), window' \in window .. MaxResizes,
         shown' \in {shown, window}, need_resize' \in BOOLEAN, calm' \in BOOLEAN,
         \/ /\ pc' \in {"redraw", "loop", "draw", "paint", "select", "launch"}
            /\ pc \notin {"read", "more", "deal", "left"}
         \/ pc' = pc /\ seq' = seq
         \/ pc = "more" /\ pc' \in {"read", "deal"} /\ seq' = seq
         \/ pc = "select" /\ pc' = "read" /\ seq' = <<>>
         \/ pc' = "left"
  PROVE  KeyInd'
<1>1. /\ Handled' = Handled /\ Input' = Input /\ Handled \in Nat
      /\ plan' \in Plans /\ dealt' \in Seq(Deals)
      /\ (\E b \in Bindings : functions = Bound(b))'
      /\ \A i \in DOMAIN dealt' : /\ (DealtTo(i - 1) < DealtTo(i))'
                                 /\ (dealt[i].seq = SubSeq(Input, DealtTo(i - 1) + 1, DealtTo(i)))'
                                 /\ (dealt[i].act = Act(dealt[i].seq))'
  BY DealtKept, Zenon
<1>2. /\ taken \in Nat /\ arrived \in Nat /\ Len(Input) \in Nat /\ window \in Nat
      /\ shown \in Int /\ Handled <= taken
      /\ taken <= arrived /\ arrived <= Len(Input)
      /\ -1 <= shown /\ shown <= window /\ window <= MaxResizes
  BY <1>1, InputTyped, ResizesAssumption DEF KeyInd, KeyboardInv
<1>3. /\ (taken \in 0 .. arrived)' /\ (arrived \in 0 .. Len(Input))'
      /\ (window \in 0 .. MaxResizes)' /\ (shown \in -1 .. window)'
  BY <1>1, <1>2, ResizesAssumption
<1>4. /\ pc' \in {"redraw", "loop", "draw", "paint", "select", "read", "more", "deal",
                 "launch", "left"}
      /\ (CASE pc \in {"read", "more", "deal"} ->
                 Handled <= taken /\ seq = SubSeq(Input, Handled + 1, taken)
            [] pc = "left" -> Handled <= taken
            [] OTHER -> Handled = taken)'
      /\ (pc \in {"more", "deal"} => Handled < taken)'
  <2>1. CASE pc = "select" /\ pc' = "read" /\ seq' = <<>>
    <3>1. Handled = taken
      BY <2>1 DEF KeyInd, KeyboardInv
    <3>2. SubSeq(Input, Handled + 1, taken) = <<>>
      BY <1>1, <1>2, <3>1, InputTyped
    <3> QED BY <1>1, <1>2, <2>1, <3>1, <3>2
  <2>2. CASE \/ /\ pc' \in {"redraw", "loop", "draw", "paint", "select", "launch"}
                /\ pc \notin {"read", "more", "deal", "left"}
             \/ pc' = "left"
    BY <1>1, <1>2, <2>2 DEF KeyInd, KeyboardInv
  <2>3. CASE pc' = pc /\ seq' = seq
    BY <1>1, <1>2, <2>3 DEF KeyInd, KeyboardInv
  <2>4. CASE pc = "more" /\ pc' \in {"read", "deal"} /\ seq' = seq
    BY <1>1, <1>2, <2>4 DEF KeyInd, KeyboardInv
  <2> QED BY <2>1, <2>2, <2>3, <2>4
<1> QED BY <1>1, <1>3, <1>4 DEF KeyInd, KeyboardInv

(* A byte that is read is behind those of the key at hand.                 *)
LEMMA ReadKeeps == KeyInd /\ Read => KeyInd'
<1> SUFFICES ASSUME KeyInd, Read PROVE KeyInd'
  OBVIOUS
<1>1. /\ pc = "read" /\ pc' = "more" /\ taken < arrived /\ taken' = taken + 1
      /\ seq' = Append(seq, Input[taken + 1])
      /\ UNCHANGED <<plan, functions, arrived, window, calm, need_resize, shown, dealt>>
  BY DEF Read, Ready, terminal
<1>2. /\ Handled' = Handled /\ Input' = Input /\ Handled \in Nat
      /\ plan' \in Plans /\ dealt' \in Seq(Deals)
      /\ (\E b \in Bindings : functions = Bound(b))'
      /\ \A i \in DOMAIN dealt' : /\ (DealtTo(i - 1) < DealtTo(i))'
                                 /\ (dealt[i].seq = SubSeq(Input, DealtTo(i - 1) + 1, DealtTo(i)))'
                                 /\ (dealt[i].act = Act(dealt[i].seq))'
  BY <1>1, DealtKept, Zenon
<1>3. /\ taken \in Nat /\ arrived \in Nat /\ Handled <= taken /\ taken < Len(Input)
      /\ Input \in Seq(STRING) /\ seq = SubSeq(Input, Handled + 1, taken)
  BY <1>1, InputTyped DEF KeyInd, KeyboardInv
<1>4. seq' = SubSeq(Input, Handled + 1, taken + 1)
  BY <1>1, <1>2, <1>3, OneMore
<1>5. (Handled < taken /\ Handled <= taken /\ seq = SubSeq(Input, Handled + 1, taken))'
  BY <1>1, <1>2, <1>3, <1>4
<1>6. /\ (taken \in 0 .. arrived)' /\ (arrived \in 0 .. Len(Input))'
      /\ (window \in 0 .. MaxResizes)' /\ (shown \in -1 .. window)'
      /\ need_resize' \in BOOLEAN /\ calm' \in BOOLEAN
  <2>1. /\ arrived <= Len(Input) /\ Len(Input) \in Nat
        /\ window \in 0 .. MaxResizes /\ shown \in -1 .. window
        /\ need_resize \in BOOLEAN /\ calm \in BOOLEAN
    BY <1>3 DEF KeyInd, KeyboardInv
  <2> QED BY <1>1, <1>2, <1>3, <2>1
<1>7. KeyboardInv'
  BY <1>1, <1>2, <1>5, <1>6 DEF KeyboardInv
<1> QED BY <1>1, <1>2, <1>5, <1>7 DEF KeyInd

(* A key is dealt with up to what has been read, and as what it is.        *)
LEMMA DealKeeps == KeyInd /\ Deal => KeyInd'
<1> SUFFICES ASSUME KeyInd, Deal PROVE KeyInd'
  OBVIOUS
<1> DEFINE d == [seq |-> seq, act |-> Act(seq), upto |-> taken]
<1>1. /\ pc = "deal" /\ pc' \in {"launch", "left", "loop"} /\ dealt' = Append(dealt, d)
      /\ UNCHANGED <<plan, functions, arrived, window, calm, taken, seq, need_resize, shown>>
  BY DEF Deal, terminal
<1>2. Input' = Input /\ \A s : Act(s)' = Act(s)
  BY <1>1 DEF Input, Act
<1>3. /\ taken \in Nat /\ Handled < taken /\ taken <= Len(Input) /\ arrived \in Nat
      /\ Input \in Seq(STRING) /\ seq = SubSeq(Input, Handled + 1, taken)
      /\ dealt \in Seq(Deals) /\ Len(dealt) \in Nat
  BY <1>1, InputTyped DEF KeyInd, KeyboardInv
<1>4. Handled \in Nat
  <2>1. Len(dealt) # 0 => dealt[Len(dealt)] \in Deals
    BY <1>3
  <2> QED BY <2>1 DEF Handled, DealtTo, Deals
<1>5. d \in Deals
  BY <1>3, <1>4, ActTyped DEF Deals
<1>0. PICK n : n = Len(dealt)
  OBVIOUS
<1>6. /\ dealt' \in Seq(Deals) /\ Len(dealt') = n + 1 /\ dealt'[n + 1] = d
      /\ DOMAIN dealt' = 1 .. n + 1 /\ DOMAIN dealt = 1 .. n
      /\ \A i \in 1 .. n : dealt'[i] = dealt[i]
  BY <1>0, <1>1, <1>3, <1>5
<1>7. /\ d.seq = seq /\ d.act = Act(seq) /\ d.upto = taken
  OBVIOUS
<1> HIDE DEF d
<1>8. /\ \A i \in 0 .. n : DealtTo(i)' = DealtTo(i)
      /\ DealtTo(n + 1)' = taken
      /\ DealtTo(n) = Handled /\ n \in Nat
  BY <1>0, <1>3, <1>6, <1>7 DEF DealtTo, Handled
<1>9. Handled' = taken
  BY <1>6, <1>8 DEF Handled
<1>10. ASSUME NEW i \in DOMAIN dealt'
       PROVE  /\ (DealtTo(i - 1) < DealtTo(i))'
              /\ (dealt[i].seq = SubSeq(Input, DealtTo(i - 1) + 1, DealtTo(i)))'
              /\ (dealt[i].act = Act(dealt[i].seq))'
  <2>1. CASE i = n + 1
    <3>1. DealtTo(i - 1)' = Handled /\ DealtTo(i)' = taken
      <4>1. i - 1 = n /\ i - 1 \in 0 .. n
        BY <1>8, <2>1
      <4> QED BY <1>8, <2>1, <4>1
    <3>2. dealt'[i].seq = seq /\ dealt'[i].act = Act(seq)
      BY <1>6, <1>7, <2>1
    <3> QED BY <1>2, <1>3, <3>1, <3>2
  <2>2. CASE i \in 1 .. n
    <3>1. DealtTo(i - 1)' = DealtTo(i - 1) /\ DealtTo(i)' = DealtTo(i) /\ dealt'[i] = dealt[i]
      BY <1>3, <1>6, <1>8, <2>2
    <3>2. /\ DealtTo(i - 1) < DealtTo(i) /\ dealt[i].act = Act(dealt[i].seq)
          /\ dealt[i].seq = SubSeq(Input, DealtTo(i - 1) + 1, DealtTo(i))
      BY <1>6, <2>2 DEF KeyInd, KeyboardInv
    <3> QED BY <1>2, <3>1, <3>2
  <2> QED BY <1>6, <1>8, <2>1, <2>2
<1>11. plan' \in Plans /\ (\E b \in Bindings : functions = Bound(b))'
  BY <1>1 DEF KeyInd
<1>12. KeyboardInv'
  BY <1>1, <1>2, <1>3, <1>9, <1>10 DEF KeyInd, KeyboardInv
<1> QED BY <1>1, <1>6, <1>10, <1>11, <1>12 DEF KeyInd

LEMMA KeyStep == KeyInd /\ [Next]_vars => KeyInd'
<1> SUFFICES ASSUME KeyInd, [Next]_vars PROVE KeyInd'
  OBVIOUS
<1>0. /\ arrived \in Nat /\ arrived <= Len(Input) /\ Len(Input) \in Nat
      /\ window \in Nat /\ window <= MaxResizes
      /\ calm \in BOOLEAN /\ need_resize \in BOOLEAN
      /\ arrived \in arrived .. Len(Input) /\ window \in window .. MaxResizes
  BY InputTyped, ResizesAssumption DEF KeyInd, KeyboardInv
<1>1. CASE Redraw
  BY <1>0, <1>1, KeyStays DEF Redraw, terminal
<1>2. CASE Loop
  BY <1>0, <1>2, KeyStays DEF Loop, terminal
<1>3. CASE Draw
  BY <1>0, <1>3, KeyStays DEF Draw, terminal
<1>4. CASE Paint
  BY <1>0, <1>4, KeyStays DEF Paint, terminal
<1>5. CASE Select
  BY <1>0, <1>5, KeyStays DEF Select, terminal
<1>6. CASE Read
  BY <1>6, ReadKeeps
<1>7. CASE More
  BY <1>0, <1>7, KeyStays DEF More, terminal
<1>8. CASE Deal
  BY <1>8, DealKeeps
<1>9. CASE LaunchReturns
  BY <1>0, <1>9, KeyStays DEF LaunchReturns, terminal
<1>10. CASE Interrupt
  BY <1>0, <1>10, KeyStays DEF Interrupt, terminal
<1>11. CASE Resize
  <2>1. /\ UNCHANGED <<plan, functions, arrived, taken, seq, shown, dealt>>
        /\ window' = window + 1 /\ need_resize' = TRUE
        /\ \/ UNCHANGED <<pc, calm>>
           \/ pc = "select" /\ pc' = "loop" /\ UNCHANGED calm
           \/ pc = "more" /\ pc' = "read" /\ calm' = FALSE
    BY <1>11 DEF Resize
  <2>2. window' \in window .. MaxResizes
    BY <1>0, <1>11, ResizesAssumption DEF Resize
  <2> QED BY <1>0, <2>1, <2>2, KeyStays
<1>12. ASSUME NEW n \in 1 .. Len(Input) - arrived, Arrive(n) PROVE KeyInd'
  <2>1. arrived' \in arrived .. Len(Input) /\ calm' \in BOOLEAN
    BY <1>0, <1>12 DEF Arrive
  <2> QED BY <1>0, <1>12, <2>1, KeyStays DEF Arrive
<1>13. CASE UNCHANGED vars
  BY <1>0, <1>13, KeyStays DEF vars
<1> QED BY <1>1, <1>2, <1>3, <1>4, <1>5, <1>6, <1>7, <1>8, <1>9, <1>10, <1>11, <1>12, <1>13
        DEF Next, Lidm

LEMMA KeyInitially == Init => KeyInd
<1> SUFFICES ASSUME Init PROVE KeyInd
  OBVIOUS
<1>1. /\ plan \in Plans /\ arrived = 0 /\ taken = 0 /\ dealt = <<>> /\ window = 0
      /\ shown = -1 /\ pc = "redraw" /\ need_resize = FALSE /\ calm = TRUE
      /\ \E b \in Bindings : functions = Bound(b)
  BY DEF Init
<1>2. Len(Input) \in Nat
  BY <1>1, PlansAssumption DEF Input
<1>3. Handled = 0
  BY <1>1 DEF Handled, DealtTo
<1>4. dealt \in Seq(Deals)
  BY <1>1
<1>5. \A i \in DOMAIN dealt : FALSE
  BY <1>1
<1>6. KeyboardInv
  <2>1. taken \in 0 .. arrived /\ arrived \in 0 .. Len(Input) /\ window \in 0 .. MaxResizes
    BY <1>1, <1>2, ResizesAssumption
  <2>2. shown \in -1 .. window
    BY <1>1
  <2> QED BY <1>1, <1>3, <1>5, <2>1, <2>2 DEF KeyboardInv
<1> QED BY <1>1, <1>4, <1>5, <1>6 DEF KeyInd

(* No byte is lost, taken twice or out of order, however the keys are torn *)
(* and typed ahead and whenever the window changes.                        *)
THEOREM BytesDealtOnce == Spec => []KeyboardInv
<1>1. KeyInd => KeyboardInv
  BY DEF KeyInd
<1> QED BY <1>1, KeyInitially, KeyStep, PTL DEF Spec

----------------------------------------------------------------------------
(* No sequence is in the table for two keys, so that the first entry which *)
(* has it is the only one.                                                 *)
LEMMA KeysApart ==
  \A i, j \in 1 .. 28 : \A s :
    s \in KEY_MAPPINGS[i].sequences /\ s \in KEY_MAPPINGS[j].sequences => i = j
BY SMTT(60) DEF KEY_MAPPINGS, Mapping

LEMMA KeysNamed ==
  /\ Len(KEY_MAPPINGS) = 28 /\ DOMAIN KEY_MAPPINGS = 1 .. 28
  /\ \A i \in 1 .. 28 : KEY_MAPPINGS[i].key = Keys[i] /\ Keys[i] # "NONE"
BY DEF KEY_MAPPINGS, Keys, Mapping

LEMMA KeysEscape == \A i \in 1 .. 28 : \A s \in KEY_MAPPINGS[i].sequences : s[1] = "esc"
BY SMTT(60) DEF KEY_MAPPINGS, Mapping

LEMMA FindsItself ==
  ASSUME NEW i \in 1 .. 28, NEW s \in KEY_MAPPINGS[i].sequences
  PROVE  find_ansi(s) = KEY_MAPPINGS[i].key
<1> DEFINE I == {n \in 1 .. Len(KEY_MAPPINGS) : s \in KEY_MAPPINGS[n].sequences}
<1>1. I = {i}
  BY KeysApart, KeysNamed
<1>2. find_ansi(s) = LET at == IF I # {} THEN Min(I) ELSE 0
                     IN  IF at = 0 THEN "NONE" ELSE Keys[at]
  BY DEF find_ansi, SelectInSeq
<1> HIDE DEF I
<1>3. Min(I) = i
  BY <1>1 DEF Min
<1> QED BY <1>1, <1>2, <1>3, KeysNamed

(* A key does what it is bound to.                                         *)
LEMMA ActsAsBound ==
  ASSUME KeyInd, NEW i \in 1 .. 28, NEW s \in KEY_MAPPINGS[i].sequences
  PROVE  Act(s) \in Promised(KEY_MAPPINGS[i].key)
<1>1. PICK key : key = KEY_MAPPINGS[i].key
  OBVIOUS
<1>2. find_ansi(s) = key /\ key # "NONE" /\ s[1] = "esc"
  BY <1>1, FindsItself, KeysNamed, KeysEscape
<1>3. DOMAIN functions = {"refresh", "reboot", "poweroff", "fido"}
  BY DEF KeyInd, Bound, Default
<1>4. Act(s) = IF key = "ESC" THEN "escape"
               ELSE IF key = functions.refresh THEN "refresh"
               ELSE IF key = functions.reboot THEN "reboot"
               ELSE IF key = functions.poweroff THEN "poweroff"
               ELSE IF key = functions.fido THEN "fido"
               ELSE IF key \in {"A_UP", "A_DOWN"} THEN "focus"
               ELSE IF key \in {"A_RIGHT", "A_LEFT"} THEN "seek"
               ELSE "nothing"
  BY <1>2 DEF Act
<1>5. Act(s) \in Promised(key)
  BY <1>3, <1>4 DEF Promised
<1> QED BY <1>1, <1>5

(* Where keys come whole and one at a time: all of them but the last that  *)
(* came are dealt with, each up to its end, and at most one is on its way. *)
Count == Len(plan.ends)
Begun == IF pc = "deal" THEN Len(dealt) + 1 ELSE Len(dealt)
Ahead == \/ arrived = End(Begun)
         \/ Begun < Count /\ arrived = End(Begun + 1)
CalmInd == calm =>
  /\ Begun <= Count
  /\ \A i \in DOMAIN dealt : dealt[i].upto = End(i)
  /\ pc # "left" => Ahead
  /\ pc \in {"read", "more"} => Begun < Count /\ arrived = End(Begun + 1)
  /\ pc = "read" => taken < arrived
  /\ pc = "deal" => taken = End(Begun)

(* The ends of the keys in the input.                                      *)
LEMMA EndsGrow ==
  ASSUME KeyInd
  PROVE  /\ Count \in Nat /\ Len(dealt) \in Nat /\ dealt \in Seq(Deals)
         /\ \A i \in 0 .. Count : End(i) \in Nat
         /\ \A i, j \in 0 .. Count : i < j => End(i) < End(j)
<1>1. /\ plan.ends \in Seq(1 .. Len(plan.bytes)) /\ Len(plan.bytes) \in Nat
      /\ \A i, j \in DOMAIN plan.ends : i < j => plan.ends[i] < plan.ends[j]
  BY PlansAssumption DEF KeyInd
<1>2. /\ Count \in Nat /\ DOMAIN plan.ends = 1 .. Count
      /\ \A i \in 1 .. Count : plan.ends[i] \in 1 .. Len(plan.bytes)
  BY <1>1 DEF Count
<1>3. End(0) = 0 /\ \A i \in 1 .. Count : End(i) = plan.ends[i]
  BY DEF End
<1>4. \A i \in 1 .. Count : End(i) \in Nat /\ 0 < End(i)
  BY <1>1, <1>2, <1>3
<1>5. \A i, j \in 1 .. Count : i < j => End(i) < End(j)
  BY <1>1, <1>2, <1>3
<1>6. 0 .. Count = {0} \cup 1 .. Count
  BY <1>2
<1>7. ASSUME NEW i \in 0 .. Count, NEW j \in 0 .. Count, i < j PROVE End(i) < End(j)
  BY <1>2, <1>3, <1>4, <1>5, <1>7
<1>8. \A i \in 0 .. Count : End(i) \in Nat
  BY <1>3, <1>4, <1>6
<1>9. dealt \in Seq(Deals) /\ Len(dealt) \in Nat
  BY DEF KeyInd
<1> QED BY <1>2, <1>7, <1>8, <1>9

(* What came after one end, and stops at the first end behind it.          *)
LEMMA NextStop ==
  ASSUME KeyInd, NEW c \in 0 .. Count, NEW a,
         {m \in Stops : End(c) < m /\ m <= a} = {a}
  PROVE  c < Count /\ a = End(c + 1)
<1>1. /\ Count \in Nat /\ \A i \in 0 .. Count : End(i) \in Nat
      /\ \A i, j \in 0 .. Count : i < j => End(i) < End(j)
  BY EndsGrow
<1>2. PICK j \in 0 .. Count : a = End(j) /\ End(c) < a
  BY DEF Stops, Count
<1>3. c < j
  BY <1>1, <1>2
<1>4. /\ c + 1 \in 0 .. Count /\ End(c) < End(c + 1) /\ End(c + 1) <= a
  BY <1>1, <1>2, <1>3
<1>5. End(c + 1) \in Stops
  BY <1>4 DEF Stops, Count
<1> QED BY <1>1, <1>3, <1>4, <1>5

LEMMA CalmStep == KeyInd /\ KeyInd' /\ CalmInd /\ [Next]_vars => CalmInd'
<1> SUFFICES ASSUME KeyInd, CalmInd, [Next]_vars, calm' PROVE CalmInd'
  BY DEF CalmInd
<1>1. /\ Count \in Nat /\ Len(dealt) \in Nat /\ dealt \in Seq(Deals)
      /\ \A i \in 0 .. Count : End(i) \in Nat
      /\ \A i, j \in 0 .. Count : i < j => End(i) < End(j)
  BY EndsGrow
<1>2. plan' = plan /\ Count' = Count /\ \A i : End(i)' = End(i)
  <2>1. plan' = plan
    BY DEF Next, Lidm, Redraw, Loop, Draw, Paint, Select, Read, More, Deal, terminal,
           LaunchReturns, Interrupt, Arrive, Resize, vars
  <2> QED BY <2>1 DEF Count, End
<1>3. /\ taken \in Nat /\ arrived \in Nat /\ taken <= arrived
      /\ pc \notin {"read", "more", "deal", "left"} => taken = Handled
  BY DEF KeyInd, KeyboardInv
<1>4. ASSUME calm PROVE Handled = End(Len(dealt))
  BY <1>1, <1>4 DEF CalmInd, Handled, DealtTo, End
<1>5. ASSUME calm, UNCHANGED <<dealt, taken, arrived>>,
             \/ pc' = pc
             \/ pc \notin {"read", "more", "deal", "left"} /\ pc' \notin {"read", "more", "deal"}
             \/ pc' = "left"
      PROVE  CalmInd'
  <2>1. CASE pc' = pc
    BY <1>2, <1>5, <2>1 DEF CalmInd, Begun, Ahead
  <2>2. CASE pc \notin {"read", "more", "deal", "left"} /\ pc' \notin {"read", "more", "deal"}
    BY <1>2, <1>5, <2>2 DEF CalmInd, Begun, Ahead
  <2>3. CASE pc' = "left"
    BY <1>1, <1>2, <1>5, <2>3 DEF CalmInd, Begun
  <2> QED BY <1>5, <2>1, <2>2, <2>3
<1>6. CASE Redraw \/ Loop \/ Draw \/ Paint \/ LaunchReturns \/ Interrupt \/ UNCHANGED vars
  BY <1>5, <1>6 DEF Redraw, Loop, Draw, Paint, LaunchReturns, Interrupt, terminal, vars
<1>7. CASE Select
  <2>1. CASE Ready
    <3>1. /\ pc = "select" /\ pc' = "read" /\ taken < arrived /\ calm
          /\ UNCHANGED <<dealt, taken, arrived>>
      BY <1>7, <2>1 DEF Select, Ready, terminal
    <3>2. Begun = Len(dealt) /\ Begun' = Len(dealt)
      BY <3>1 DEF Begun
    <3>3. Begun < Count /\ arrived = End(Begun + 1)
      BY <1>3, <1>4, <3>1, <3>2 DEF CalmInd, Ahead
    <3> QED BY <1>2, <3>1, <3>2, <3>3 DEF CalmInd, Ahead
  <2>2. CASE ~ Ready
    BY <1>5, <1>7, <2>2 DEF Select, terminal
  <2> QED BY <2>1, <2>2
<1>8. CASE Read
  <2>1. pc = "read" /\ pc' = "more" /\ calm /\ UNCHANGED <<dealt, arrived>>
    BY <1>8 DEF Read, terminal
  <2> QED BY <1>2, <2>1 DEF CalmInd, Begun, Ahead
<1>9. CASE More
  <2>1. pc = "more" /\ calm /\ UNCHANGED <<dealt, taken, arrived>>
    BY <1>9 DEF More, terminal
  <2>2. CASE taken < arrived /\ pc' = "read"
    BY <1>2, <2>1, <2>2 DEF CalmInd, Begun, Ahead
  <2>3. CASE ~ taken < arrived /\ pc' = "deal"
    <3>1. Begun' = Begun + 1 /\ Begun \in Nat
      BY <1>1, <2>1, <2>3 DEF Begun
    <3>2. Begun < Count /\ arrived = End(Begun + 1) /\ taken = arrived
      BY <1>3, <2>1, <2>3 DEF CalmInd
    <3> QED BY <1>1, <1>2, <2>1, <2>3, <3>1, <3>2 DEF CalmInd, Ahead
  <2> QED BY <1>9, <2>2, <2>3 DEF More, Ready
<1>10. CASE Deal
  <2> DEFINE d == [seq |-> seq, act |-> Act(seq), upto |-> taken]
  <2>1. /\ pc = "deal" /\ pc' \in {"launch", "left", "loop"} /\ dealt' = Append(dealt, d)
        /\ calm /\ UNCHANGED <<taken, arrived>>
    BY <1>10 DEF Deal, terminal
  <2>2. d.upto = taken
    OBVIOUS
  <2> HIDE DEF d
  <2>3. Begun = Len(dealt) + 1 /\ Begun' = Len(dealt) + 1
    BY <1>1, <2>1 DEF Begun
  <2>4. taken = End(Len(dealt) + 1)
    BY <2>1, <2>3 DEF CalmInd
  <2>5. ASSUME NEW i \in DOMAIN dealt' PROVE dealt'[i].upto = End(i)
    <3>1. CASE i = Len(dealt) + 1
      BY <1>1, <2>1, <2>2, <2>4, <3>1
    <3>2. CASE i # Len(dealt) + 1
      <4>1. i \in DOMAIN dealt /\ dealt'[i] = dealt[i]
        BY <1>1, <2>1, <3>2
      <4> QED BY <2>1, <4>1 DEF CalmInd
    <3> QED BY <3>1, <3>2
  <2> QED BY <1>2, <2>1, <2>3, <2>5 DEF CalmInd, Ahead
<1>11. CASE Resize
  BY <1>5, <1>11 DEF Resize
<1>12. ASSUME NEW n \in 1 .. Len(Input) - arrived, Arrive(n) PROVE CalmInd'
  <2>1. /\ calm /\ ~ taken < arrived /\ pc \notin {"read", "more", "left"} /\ pc' = pc
        /\ UNCHANGED <<dealt, taken>>
        /\ {m \in Stops : arrived < m /\ m <= arrived'} = {arrived'}
    BY <1>12 DEF Arrive, Ready
  <2>2. arrived = End(Begun) /\ Begun \in 0 .. Count /\ Begun' = Begun
    BY <1>1, <1>3, <1>4, <2>1 DEF CalmInd, Begun
  <2>3. Begun < Count /\ arrived' = End(Begun + 1)
    BY <2>1, <2>2, NextStop
  <2> QED BY <1>2, <2>1, <2>2, <2>3 DEF CalmInd, Ahead
<1> QED BY <1>6, <1>7, <1>8, <1>9, <1>10, <1>11, <1>12 DEF Next, Lidm

(* Where each key comes whole and by itself, every key is taken as itself, *)
(* and does what the configuration bound it to.                            *)
THEOREM KeysTakenAsThemselves == Spec => []KeysAct
<1>1. Init => CalmInd
  <2> SUFFICES ASSUME Init PROVE CalmInd
    OBVIOUS
  <2>1. pc = "redraw" /\ dealt = <<>> /\ arrived = 0 /\ plan \in Plans
    BY DEF Init
  <2>2. Count \in Nat
    BY <2>1, PlansAssumption DEF Count
  <2>3. Begun = 0 /\ End(0) = 0 /\ \A i \in DOMAIN dealt : FALSE
    BY <2>1 DEF Begun, End
  <2> QED BY <2>1, <2>2, <2>3 DEF CalmInd, Ahead
<1>2. KeyInd /\ CalmInd => KeysAct
  <2> SUFFICES ASSUME KeyInd, CalmInd, calm, NEW i \in DOMAIN dealt
               PROVE  /\ i \in DOMAIN plan.ends /\ dealt[i].seq = Pressed(i)
                      /\ \A m \in Range(KEY_MAPPINGS) :
                           Pressed(i) \in m.sequences => dealt[i].act \in Promised(m.key)
                      /\ Pressed(i)[1] # "esc" =>
                           dealt[i].act = IF Pressed(i) = <<"newline">> THEN "login" ELSE "type"
    BY DEF KeysAct
  <2>1. /\ Count \in Nat /\ Len(dealt) \in Nat /\ dealt \in Seq(Deals)
    BY EndsGrow
  <2>2. i \in 1 .. Count /\ Len(dealt) <= Count
    BY <2>1 DEF CalmInd, Begun
  <2>3. i \in DOMAIN plan.ends
    BY <2>2, PlansAssumption DEF KeyInd, Count
  <2>4. DealtTo(i) = End(i) /\ DealtTo(i - 1) = End(i - 1)
    BY <2>1, <2>2 DEF CalmInd, DealtTo, End
  <2>5. dealt[i].seq = Pressed(i) /\ dealt[i].act = Act(Pressed(i))
    BY <2>4 DEF KeyInd, KeyboardInv, Pressed
  <2>6. ASSUME NEW m \in Range(KEY_MAPPINGS), Pressed(i) \in m.sequences
        PROVE  dealt[i].act \in Promised(m.key)
    BY <2>5, <2>6, ActsAsBound, KeysNamed DEF Range
  <2>7. ASSUME Pressed(i)[1] # "esc"
        PROVE  dealt[i].act = IF Pressed(i) = <<"newline">> THEN "login" ELSE "type"
    BY <2>5, <2>7 DEF Act
  <2> QED BY <2>3, <2>5, <2>6, <2>7
<1> QED BY <1>1, <1>2, CalmStep, KeyInitially, KeyStep, PTL DEF Spec
=============================================================================
