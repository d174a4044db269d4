---------------------------- MODULE CommandProofs ----------------------------
(***************************************************************************)
(* What holds of the parser for every Exec line and every limit on the     *)
(* arguments: it writes inside its blocks, and its vector is the words of  *)
(* the line.                                                               *)
(***************************************************************************)
EXTENDS SessionStart, Integers, FiniteSetTheorems, TLAPS

(* The string at hand, which no step changes, makes CommandInv inductive.  *)
CmdInv == CommandInv /\ exec_s \in Seq(Char)

(* A block that has room for its text has room for one character more when *)
(* Room was asked for it.                                                  *)
LEMMA RoomEnough ==
  ASSUME NEW c, c.text \in Seq(Char), c.cap \in Nat, Len(c.text) <= c.cap
  PROVE  Room(c) \in Nat \ {0} /\ Len(c.text) + 1 <= Room(c)
BY ArgLengthAssumption DEF Room, Full

(* All of it is freed, and nothing is left.                                *)
LEMMA GiveUpKeeps ==
  ASSUME CmdInv, NEW code \in {"nomem", "syntax"}, GiveUp(code)
  PROVE  CmdInv'
BY MaxArgsAssumption DEF GiveUp, CmdInv, CommandInv, HasCur, NoCur

(* One more character.                                                     *)
LEMMA TakeKeeps ==
  ASSUME CmdInv, ret = "none", NEW ch \in Char, NEW n \in {1, 2},
         idx + n <= Len(exec_s), Take(ch, n)
  PROVE  CmdInv'
<1>1. CASE /\ cur' = [text |-> Append(cur.text, ch), cap |-> Room(cur)]
           /\ idx' = idx + n /\ UNCHANGED <<exec_s, argv, in_quote, ret>>
  <2>1. Room(cur) \in Nat \ {0} /\ Len(cur.text) + 1 <= Room(cur)
    BY RoomEnough DEF CmdInv, CommandInv
  <2>2. /\ cur'.text \in Seq(Char) /\ Len(cur'.text) = Len(cur.text) + 1
        /\ cur'.cap = Room(cur) /\ cur'.text # <<>>
    BY <1>1 DEF CmdInv, CommandInv
  <2>3. idx' \in 0 .. Len(exec_s)
    BY <1>1 DEF CmdInv, CommandInv
  <2> QED BY <1>1, <2>1, <2>2, <2>3 DEF CmdInv, CommandInv, HasCur
<1>2. CASE GiveUp("nomem")
  BY <1>2, GiveUpKeeps
<1> QED BY <1>1, <1>2 DEF Take

(* What push_arg() does to the two texts, and what it leaves true of them. *)
LEMMA PushKeeps ==
  ASSUME CmdInv, Push
  PROVE  /\ cur'.text \in Seq(Char) /\ cur'.cap \in Nat
         /\ Len(cur'.text) <= cur'.cap
         /\ cur'.cap # 0 <=> cur'.text # <<>>
         /\ argv' \in Seq(Seq(Char) \ {<<>>})
         /\ Len(argv') <= MaxArgs + 1
         /\ cur'.cap # 0 => Len(argv') = MaxArgs + 1
<1>1. CASE HasCur /\ Len(argv) <= MaxArgs
  <2>1. cur.text \in Seq(Char) \ {<<>>}
    BY <1>1 DEF CmdInv, CommandInv
  <2>2. argv' = Append(argv, cur.text) /\ cur' = NoCur
    BY <1>1 DEF Push
  <2> QED BY <1>1, <2>1, <2>2, MaxArgsAssumption DEF CmdInv, CommandInv, NoCur
<1>2. CASE ~ (HasCur /\ Len(argv) <= MaxArgs)
  BY <1>2, MaxArgsAssumption DEF Push, CmdInv, CommandInv, HasCur
<1> QED BY <1>1, <1>2

(* Every iteration of the loop keeps it, and so does its end.              *)
LEMMA CommandStep == CmdInv /\ CommandNext => CmdInv'
<1> SUFFICES ASSUME CmdInv, CommandNext PROVE CmdInv'
  OBVIOUS
<1>0. ASSUME Parsing
      PROVE  /\ ret = "none" /\ At \in Char /\ idx + 1 <= Len(exec_s)
             /\ ~ AtEnd => Next1 \in Char /\ idx + 2 <= Len(exec_s)
  BY <1>0 DEF Parsing, At, AtEnd, Next1, CmdInv, CommandInv
<1>1. CASE Separator
  <2>1. CASE Push /\ idx' = idx + 1 /\ UNCHANGED <<exec_s, in_quote, ret>>
    BY <1>0, <1>1, <2>1, PushKeeps DEF Separator, CmdInv, CommandInv, HasCur
  <2>2. CASE PushFails
    BY <2>2, GiveUpKeeps DEF PushFails
  <2> QED BY <1>1, <2>1, <2>2 DEF Separator
<1>2. CASE Quote
  BY <1>0, <1>2 DEF Quote, CmdInv, CommandInv, HasCur
<1>3. CASE Escape
  BY <1>0, <1>3, TakeKeeps, GiveUpKeeps DEF Escape
<1>4. CASE FieldCode
  <2>1. CASE AtEnd
    BY <1>4, <2>1, GiveUpKeeps DEF FieldCode
  <2>2. CASE ~ AtEnd /\ Next1 = "percent"
    BY <1>0, <1>4, <2>2, TakeKeeps DEF FieldCode
  <2>3. CASE ~ AtEnd /\ Next1 # "percent"
    BY <1>0, <1>4, <2>3 DEF FieldCode, CmdInv, CommandInv, HasCur
  <2> QED BY <2>1, <2>2, <2>3
<1>5. CASE Plain
  BY <1>0, <1>5, TakeKeeps DEF Plain
<1>6. CASE Finish
  <2>1. CASE in_quote /\ GiveUp("syntax")
    BY <2>1, GiveUpKeeps
  <2>2. CASE ~ in_quote /\ Push /\ ret' = "ok" /\ UNCHANGED <<exec_s, idx, in_quote>>
    BY <2>2, PushKeeps DEF CmdInv, CommandInv, HasCur
  <2>3. CASE ~ in_quote /\ GiveUp("nomem")
    BY <2>3, GiveUpKeeps
  <2> QED BY <1>6, <2>1, <2>2, <2>3 DEF Finish
<1> QED BY <1>1, <1>2, <1>3, <1>4, <1>5, <1>6 DEF CommandNext

(* Nothing after the parser touches what it made.                          *)
LEMMA CommandKept == CmdInv /\ UNCHANGED commandVars => CmdInv'
BY DEF CmdInv, CommandInv, commandVars, HasCur

LEMMA CommandInitially == Init => CmdInv
<1> SUFFICES ASSUME Init PROVE CmdInv
  OBVIOUS
<1>1. start.exec_s \in Seq(Char)
  BY StartsAssumption DEF Init
<1>2. exec_s \in Seq(Char) /\ idx = 0 /\ cur = NoCur /\ argv = <<>>
      /\ in_quote = FALSE /\ ret = "none"
  BY <1>1 DEF Init, CommandInit
<1>3. cur.text = <<>> /\ cur.cap = 0
  BY <1>2 DEF NoCur
<1>4. Len(exec_s) \in Nat /\ Len(argv) = 0 /\ Len(cur.text) = 0
  BY <1>2, <1>3
<1>5. cur.text \in Seq(Char) /\ argv \in Seq(Seq(Char) \ {<<>>})
  BY <1>2, <1>3
<1>6. in_quote \in BOOLEAN
  BY <1>2
<1>7. idx \in 0 .. Len(exec_s) /\ Len(argv) <= MaxArgs + 1 /\ Len(cur.text) <= cur.cap
  BY <1>2, <1>3, <1>4, MaxArgsAssumption
<1>8. HasCur <=> cur.text # <<>>
  BY <1>3 DEF HasCur
<1> QED BY <1>2, <1>3, <1>4, <1>5, <1>6, <1>7, <1>8 DEF CmdInv, CommandInv, HasCur

(* The parser writes inside its blocks, whatever the Exec line and the     *)
(* limits are.                                                             *)
THEOREM CommandCorrect == Spec => []CommandInv
<1>1. CmdInv /\ [Next]_vars => CmdInv'
  BY CommandStep, CommandKept
  DEF Next, Parse, List, Prepare, Begin, Count, Allocate, Join, JoinEnds, Exec, vars
<1>2. CmdInv => CommandInv
  BY DEF CmdInv
<1> QED BY <1>1, <1>2, CommandInitially, PTL DEF Spec

----------------------------------------------------------------------------
(* The members of a set of positions up to one of them.                    *)
Within(S, N) == \A q \in S : q \in 1 .. N
Upto(S, n) == {q \in S : q <= n}

LEMMA UptoFinite ==
  ASSUME NEW N \in Nat, NEW S, Within(S, N), NEW n \in Int
  PROVE  IsFiniteSet(Upto(S, n)) /\ Cardinality(Upto(S, n)) \in Nat
<1>1. IsFiniteSet(1 .. N)
  BY FS_Interval
<1>2. Upto(S, n) \subseteq 1 .. N
  BY DEF Upto, Within
<1> QED BY <1>1, <1>2, FS_Subset, FS_CardinalityType

(* Further up there are no fewer.                                          *)
LEMMA UptoGrows ==
  ASSUME NEW N \in Nat, NEW S, Within(S, N), NEW m \in Int, NEW n \in Int, m <= n
  PROVE  Cardinality(Upto(S, m)) <= Cardinality(Upto(S, n))
<1>1. Upto(S, m) \subseteq Upto(S, n)
  BY DEF Upto, Within
<1> QED BY <1>1, UptoFinite, FS_Subset

(* One position further is one more, if it is a member.                    *)
LEMMA UptoNext ==
  ASSUME NEW N \in Nat, NEW S, Within(S, N), NEW n \in Nat
  PROVE  /\ Upto(S, n + 1) = IF n + 1 \in S THEN Upto(S, n) \cup {n + 1} ELSE Upto(S, n)
         /\ Cardinality(Upto(S, n + 1)) =
              IF n + 1 \in S THEN Cardinality(Upto(S, n)) + 1 ELSE Cardinality(Upto(S, n))
<1>1. Upto(S, n + 1) = IF n + 1 \in S THEN Upto(S, n) \cup {n + 1} ELSE Upto(S, n)
  BY DEF Upto, Within
<1>2. n + 1 \notin Upto(S, n) /\ IsFiniteSet(Upto(S, n))
  BY UptoFinite DEF Upto, Within
<1>3. Cardinality(Upto(S, n) \cup {n + 1}) = Cardinality(Upto(S, n)) + 1
  BY <1>2, FS_AddElement
<1> QED BY <1>1, <1>3

LEMMA UptoAll ==
  ASSUME NEW N \in Nat, NEW S, Within(S, N)
  PROVE  Upto(S, N) = S /\ Upto(S, 0) = {} /\ Cardinality({}) = 0
<1>1. Cardinality({}) = 0
  BY FS_EmptySet
<1> QED BY <1>1 DEF Upto, Within

(* One more position, behind all others, and its character at the end.     *)
LEMMA SpellsNext ==
  ASSUME NEW N \in Nat, NEW ps, Within(ps, N), NEW n \in Nat, n < N,
         NEW s \in Seq(Char), Len(s) = N, NEW v \in Seq(Char),
         \A q \in ps : q <= n, Spells(s, ps, v)
  PROVE  Spells(s, ps \cup {n + 1}, Append(v, s[n + 1]))
<1> DEFINE qs == ps \cup {n + 1}
           u == Append(v, s[n + 1])
<1>1. /\ Within(qs, N) /\ ps = Upto(ps, n) /\ n + 1 \notin ps
      /\ s[n + 1] \in Char
  BY DEF Upto, Within
<1>2. IsFiniteSet(ps) /\ Cardinality(ps) \in Nat /\ Len(v) = Cardinality(ps)
  BY <1>1, UptoFinite DEF Spells
<1>3. /\ Cardinality(qs) = Cardinality(ps) + 1 /\ Len(u) = Len(v) + 1
      /\ \A i \in 1 .. Len(v) : u[i] = v[i]
      /\ u[Len(v) + 1] = s[n + 1]
  <2>1. Cardinality(qs) = Cardinality(ps) + 1
    BY <1>1, <1>2, FS_AddElement
  <2>2. PICK x \in Char : x = s[n + 1]
    BY <1>1
  <2>3. /\ Len(Append(v, x)) = Len(v) + 1
        /\ \A i \in 1 .. Len(v) : Append(v, x)[i] = v[i]
        /\ Append(v, x)[Len(v) + 1] = x
    OBVIOUS
  <2> QED BY <2>1, <2>2, <2>3
<1>4. ASSUME NEW p \in qs
      PROVE  u[Cardinality({q \in qs : q <= p})] = s[p]
  <2>1. CASE p = n + 1
    <3>1. \A q \in qs : q <= p
      BY <1>1, <2>1
    <3> QED BY <1>2, <1>3, <2>1, <3>1
  <2>2. CASE p # n + 1
    <3>1. p \in ps /\ p <= n /\ p <= p /\ {q \in qs : q <= p} = {q \in ps : q <= p}
      BY <1>1, <2>2 DEF Within
    <3>2. PICK ms : ms = {q \in ps : q <= p}
      OBVIOUS
    <3>3. ms \subseteq ps /\ p \in ms
      BY <3>1, <3>2
    <3>4. IsFiniteSet(ms) /\ Cardinality(ms) <= Cardinality(ps)
      BY <1>2, <3>3, FS_Subset
    <3>5. Cardinality(ms) \in Nat /\ Cardinality(ms) # 0
      BY <3>3, <3>4, FS_CardinalityType, FS_EmptySet
    <3>6. v[Cardinality(ms)] = s[p]
      BY <3>1, <3>2 DEF Spells
    <3>7. Cardinality(ms) \in 1 .. Len(v)
      BY <1>2, <3>4, <3>5
    <3>8. u[Cardinality(ms)] = s[p]
      BY <1>3, <3>6, <3>7
    <3> QED BY <3>1, <3>2, <3>8
  <2> QED BY <2>1, <2>2
<1>5. Len(u) = Cardinality(qs)
  BY <1>2, <1>3
<1> HIDE DEF qs, u
<1>6. Spells(s, qs, u)
  BY <1>4, <1>5 DEF Spells
<1> QED BY <1>6 DEF qs, u

(* A string with its text and its breaks; the words begun up to a position *)
(* and what there is of a word.                                            *)
Cuts(s, T, B) == /\ s \in Seq(Char) /\ Within(T, Len(s)) /\ Within(B, Len(s))
                 /\ \A p \in T : p \notin B
Begun(T, B, n) == Cardinality(Upto(Begins(T, B), n))
Part(T, B, w, n) == Upto(Word(T, Begins(T, B), w), n)

(* What a vector and the argument at hand are after n characters: the      *)
(* words are there, those in the vector are over, and the one at hand is   *)
(* not, unless the vector is full.                                         *)
Kept(s, T, B, n, v, c) ==
  /\ \A w \in 1 .. Len(v) : Spells(s, Part(T, B, w, n), v[w])
  /\ \A q \in Upto(T, n) : Begun(T, B, q) <= Len(v) => \E b \in B : q < b /\ b <= n
  /\ Len(v) <= Begun(T, B, n)
  /\ Len(v) <= MaxArgs =>
       /\ Begun(T, B, n) = IF c = <<>> THEN Len(v) ELSE Len(v) + 1
       /\ Spells(s, Part(T, B, Len(v) + 1, n), c)
       /\ \A q \in Upto(T, n) : Begun(T, B, q) > Len(v) => \A b \in B : ~ (q < b /\ b <= n)

LEMMA BegunNext ==
  ASSUME NEW s, NEW T, NEW B, Cuts(s, T, B), NEW n \in Nat
  PROVE  /\ Begun(T, B, n) \in Nat
         /\ Begun(T, B, n + 1) = IF n + 1 \in Begins(T, B) THEN Begun(T, B, n) + 1
                                 ELSE Begun(T, B, n)
         /\ \A m \in 0 .. n : Begun(T, B, m) <= Begun(T, B, n)
<1>0. PICK N \in Nat : N = Len(s)
  BY DEF Cuts
<1>1. Within(Begins(T, B), N)
  BY <1>0 DEF Cuts, Within, Begins
<1>2. ASSUME NEW m \in 0 .. n PROVE Begun(T, B, m) <= Begun(T, B, n)
  BY <1>1, UptoGrows DEF Begun
<1>3. Begun(T, B, n) \in Nat
  BY <1>1, UptoFinite DEF Begun
<1>4. Cardinality(Upto(Begins(T, B), n + 1)) =
        IF n + 1 \in Begins(T, B) THEN Cardinality(Upto(Begins(T, B), n)) + 1
        ELSE Cardinality(Upto(Begins(T, B), n))
  BY <1>1, UptoNext
<1> QED BY <1>2, <1>3, <1>4 DEF Begun

(* A word grows by the positions of its text, and is a set of positions.   *)
LEMMA PartNext ==
  ASSUME NEW s, NEW T, NEW B, Cuts(s, T, B), NEW n \in Nat, NEW w
  PROVE  /\ n + 1 \in T /\ Begun(T, B, n + 1) = w =>
              Part(T, B, w, n + 1) = Part(T, B, w, n) \cup {n + 1}
         /\ n + 1 \notin T \/ Begun(T, B, n + 1) # w =>
              Part(T, B, w, n + 1) = Part(T, B, w, n)
         /\ Within(Part(T, B, w, n), Len(s))
         /\ \A p : p \in Part(T, B, w, n) <=> p \in T /\ p <= n /\ Begun(T, B, p) = w
<1>1. Len(s) \in Nat /\ Within(Word(T, Begins(T, B), w), Len(s))
  BY DEF Cuts, Within, Word
<1>2. \A p : p \in Word(T, Begins(T, B), w) <=> p \in T /\ Begun(T, B, p) = w
  BY DEF Word, Begun, Upto
<1>3. \A p : p \in Part(T, B, w, n) <=> p \in T /\ p <= n /\ Begun(T, B, p) = w
  BY <1>2 DEF Part, Upto
<1>4. Within(Part(T, B, w, n), Len(s))
  BY <1>1 DEF Part, Upto, Within
<1> QED BY <1>1, <1>2, <1>3, <1>4, UptoNext DEF Part

(* A character that is neither text nor a break changes nothing.           *)
LEMMA SkipKeeps ==
  ASSUME NEW s, NEW T, NEW B, Cuts(s, T, B), NEW n \in Nat,
         n + 1 \notin T, n + 1 \notin B, NEW v \in Seq(Seq(Char)), NEW c,
         Kept(s, T, B, n, v, c)
  PROVE  Kept(s, T, B, n + 1, v, c)
<1>1. Begun(T, B, n + 1) = Begun(T, B, n)
  BY BegunNext DEF Begins
<1>2. ASSUME NEW w PROVE Part(T, B, w, n + 1) = Part(T, B, w, n)
  BY PartNext
<1>3. Upto(T, n + 1) = Upto(T, n)
  <2>1. PICK N \in Nat : N = Len(s)
    BY DEF Cuts
  <2>2. Within(T, N)
    BY <2>1 DEF Cuts
  <2> QED BY <2>2, UptoNext
<1>4. \A b \in B : b <= n + 1 <=> b <= n
  BY DEF Cuts, Within
<1> QED BY <1>1, <1>2, <1>3, <1>4 DEF Kept

(* A character of the text goes to the argument at hand: it begins a word  *)
(* if there is none, and otherwise is of the same one.                     *)
LEMMA AddKeeps ==
  ASSUME NEW s, NEW T, NEW B, Cuts(s, T, B), NEW n \in Nat,
         n + 1 \in T, NEW v \in Seq(Seq(Char)), NEW c \in Seq(Char),
         Kept(s, T, B, n, v, c)
  PROVE  Kept(s, T, B, n + 1, v, Append(c, s[n + 1]))
<1>0. PICK N \in Nat : N = Len(s)
  BY DEF Cuts
<1>1. Within(T, N) /\ Within(B, N) /\ s \in Seq(Char) /\ n < N /\ n + 1 \notin B
  BY <1>0 DEF Cuts, Within
<1>2. Upto(T, n + 1) = Upto(T, n) \cup {n + 1}
  BY <1>1, UptoNext
<1>3. \A q \in T : q \in Nat /\ q > 0 /\ (q <= n \/ q = n + 1 \/ q > n + 1)
  BY <1>1 DEF Within
<1>4. \A b \in B : b \in Nat /\ (b <= n + 1 <=> b <= n) /\ (b < n + 1 <=> b <= n)
  BY <1>1 DEF Within
<1>5. /\ Begun(T, B, n) \in Nat /\ Begun(T, B, n + 1) \in Nat
      /\ \A q \in T : q <= n => /\ Begun(T, B, q) \in Nat
                               /\ Begun(T, B, q) <= Begun(T, B, n)
  <2>1. ASSUME NEW q \in T, q <= n
        PROVE  Begun(T, B, q) \in Nat /\ Begun(T, B, q) <= Begun(T, B, n)
    <3>1. q \in 0 .. n /\ q \in Nat
      BY <1>3, <2>1
    <3> QED BY <3>1, BegunNext
  <2> QED BY <2>1, BegunNext
<1>6. Len(v) \in Nat /\ Len(c) \in Nat
  OBVIOUS
(* The word of the character is not in the vector, and is the one at hand  *)
(* if the vector is not full.                                              *)
<1>7. /\ Begun(T, B, n + 1) > Len(v)
      /\ Len(v) <= MaxArgs => Begun(T, B, n + 1) = Len(v) + 1
  <2>1. CASE n + 1 \in Begins(T, B)
    <3>1. Begun(T, B, n + 1) = Begun(T, B, n) + 1
      BY <2>1, BegunNext
    <3>2. ASSUME Len(v) <= MaxArgs, c # <<>> PROVE FALSE
      <4>1. Spells(s, Part(T, B, Len(v) + 1, n), c)
        BY <3>2 DEF Kept
      <4>2. Part(T, B, Len(v) + 1, n) # {}
        <5>1. Len(c) # 0
          BY <3>2
        <5> QED BY <4>1, <5>1, FS_EmptySet DEF Spells
      <4>3. PICK q \in T : q <= n /\ Begun(T, B, q) = Len(v) + 1
        BY <4>2, PartNext
      <4>4. PICK b \in B : q < b /\ b < n + 1
        <5>1. \A r \in T : r < n + 1 => \E b \in B : r < b /\ b < n + 1
          BY <2>1 DEF Begins
        <5>2. q < n + 1
          BY <1>3, <4>3
        <5> QED BY <5>1, <5>2
      <4>5. q \in Upto(T, n) /\ Begun(T, B, q) > Len(v) /\ b <= n
        BY <1>4, <1>6, <4>3, <4>4 DEF Upto
      <4> QED BY <3>2, <4>4, <4>5 DEF Kept
    <3>3. Len(v) <= Begun(T, B, n)
          /\ (Len(v) <= MaxArgs /\ c = <<>> => Begun(T, B, n) = Len(v))
      BY DEF Kept
    <3> QED BY <1>5, <1>6, <3>1, <3>2, <3>3
  <2>2. CASE n + 1 \notin Begins(T, B)
    <3>1. Begun(T, B, n + 1) = Begun(T, B, n)
      BY <2>2, BegunNext
    <3>2. PICK q \in T : q < n + 1 /\ \A b \in B : ~ (q < b /\ b < n + 1)
      BY <2>2 DEF Begins
    <3>3. q <= n /\ q \in Upto(T, n) /\ \A b \in B : ~ (q < b /\ b <= n)
      BY <1>3, <1>4, <3>2 DEF Upto
    <3>4. Begun(T, B, q) > Len(v)
      BY <1>5, <1>6, <3>2, <3>3 DEF Kept
    <3>5. Begun(T, B, n) > Len(v)
      BY <1>5, <1>6, <3>2, <3>3, <3>4
    <3>6. Len(v) <= MaxArgs => Begun(T, B, n) = Len(v) \/ Begun(T, B, n) = Len(v) + 1
      BY DEF Kept
    <3> QED BY <1>5, <1>6, <3>1, <3>5, <3>6
  <2> QED BY <2>1, <2>2
<1>8. ASSUME NEW w \in 1 .. Len(v)
      PROVE  Spells(s, Part(T, B, w, n + 1), v[w])
  <2>1. Begun(T, B, n + 1) # w
    BY <1>5, <1>6, <1>7
  <2>2. Part(T, B, w, n + 1) = Part(T, B, w, n)
    BY <2>1, PartNext
  <2> QED BY <2>2 DEF Kept
<1>9. ASSUME NEW q \in Upto(T, n + 1), Begun(T, B, q) <= Len(v)
      PROVE  \E b \in B : q < b /\ b <= n + 1
  <2>1. q \in Upto(T, n)
    BY <1>2, <1>5, <1>6, <1>7, <1>9
  <2>2. PICK b \in B : q < b /\ b <= n
    BY <1>9, <2>1 DEF Kept
  <2> QED BY <1>4, <2>2
<1>10. ASSUME Len(v) <= MaxArgs
       PROVE  /\ Begun(T, B, n + 1) = Len(v) + 1
              /\ Spells(s, Part(T, B, Len(v) + 1, n + 1), Append(c, s[n + 1]))
              /\ \A q \in Upto(T, n + 1) :
                   Begun(T, B, q) > Len(v) => \A b \in B : ~ (q < b /\ b <= n + 1)
  <2>1. Begun(T, B, n + 1) = Len(v) + 1
    BY <1>7, <1>10
  <2>2. PICK ps : ps = Part(T, B, Len(v) + 1, n)
    OBVIOUS
  <2>3. /\ Part(T, B, Len(v) + 1, n + 1) = ps \cup {n + 1}
        /\ Within(ps, N) /\ \A q \in ps : q <= n
    BY <1>0, <2>1, <2>2, PartNext
  <2>4. Spells(s, ps, c)
    BY <1>10, <2>2 DEF Kept
  <2>5. Spells(s, ps \cup {n + 1}, Append(c, s[n + 1]))
    BY <1>0, <1>1, <2>3, <2>4, SpellsNext
  <2>6. ASSUME NEW q \in Upto(T, n + 1), Begun(T, B, q) > Len(v), NEW b \in B
        PROVE  ~ (q < b /\ b <= n + 1)
    <3>1. CASE q = n + 1
      BY <1>4, <3>1
    <3>2. CASE q \in Upto(T, n)
      BY <1>4, <1>10, <2>6, <3>2 DEF Kept
    <3> QED BY <1>2, <3>1, <3>2
  <2> QED BY <2>1, <2>3, <2>5, <2>6
<1>11. Append(c, s[n + 1]) # <<>>
  <2>1. PICK x \in Char : x = s[n + 1]
    BY <1>0, <1>1
  <2>2. Len(Append(c, x)) = Len(c) + 1 /\ Len(<<>>) = 0
    OBVIOUS
  <2> QED BY <1>6, <2>1, <2>2
<1>12. Len(v) <= Begun(T, B, n + 1)
  BY <1>5, <1>6, <1>7
<1> QED BY <1>8, <1>9, <1>10, <1>11, <1>12 DEF Kept

(* A break ends the word at hand, which goes into the vector if there is   *)
(* room for it.                                                            *)
LEMMA BreakKeeps ==
  ASSUME NEW s, NEW T, NEW B, Cuts(s, T, B), NEW n \in Nat,
         n + 1 \in B, NEW v \in Seq(Seq(Char)), NEW c \in Seq(Char),
         Kept(s, T, B, n, v, c)
  PROVE  IF c # <<>> /\ Len(v) <= MaxArgs
         THEN Kept(s, T, B, n + 1, Append(v, c), <<>>) ELSE Kept(s, T, B, n + 1, v, c)
<1>0. PICK N \in Nat : N = Len(s)
  BY DEF Cuts
<1>1. Within(T, N) /\ Within(B, N) /\ n + 1 \notin T
  BY <1>0 DEF Cuts
<1>2. Upto(T, n + 1) = Upto(T, n)
  BY <1>1, UptoNext
<1>3. \A q \in Upto(T, n) : q \in 0 .. n /\ q \in T /\ q < n + 1
  BY <1>1 DEF Upto, Within
<1>4. \A b \in B : b <= n => b <= n + 1
  BY <1>1 DEF Within
<1>5. Begun(T, B, n + 1) = Begun(T, B, n) /\ Begun(T, B, n) \in Nat
  BY <1>1, BegunNext DEF Begins
<1>6. ASSUME NEW w PROVE Part(T, B, w, n + 1) = Part(T, B, w, n)
  BY <1>1, PartNext
<1>7. ASSUME NEW q \in Upto(T, n + 1) PROVE \E b \in B : q < b /\ b <= n + 1
  BY <1>2, <1>3
<1>8. Len(v) \in Nat
  OBVIOUS
<1>9. CASE c # <<>> /\ Len(v) <= MaxArgs
  <2>1. /\ Begun(T, B, n) = Len(v) + 1 /\ Spells(s, Part(T, B, Len(v) + 1, n), c)
        /\ \A w \in 1 .. Len(v) : Spells(s, Part(T, B, w, n), v[w])
    BY <1>9 DEF Kept
  <2>2. PICK u : u = Append(v, c)
    OBVIOUS
  <2>3. /\ Len(u) = Len(v) + 1 /\ u[Len(v) + 1] = c
        /\ \A w \in 1 .. Len(v) : u[w] = v[w]
    BY <2>2
  <2>4. ASSUME NEW w \in 1 .. Len(u) PROVE Spells(s, Part(T, B, w, n + 1), u[w])
    <3>1. CASE w = Len(v) + 1
      BY <1>6, <2>1, <2>3, <3>1
    <3>2. CASE w \in 1 .. Len(v)
      BY <1>6, <2>1, <2>3, <3>2
    <3> QED BY <1>8, <2>3, <3>1, <3>2
  <2>5. Spells(s, Part(T, B, Len(u) + 1, n + 1), <<>>)
    <3>1. ASSUME NEW p \in Part(T, B, Len(u) + 1, n) PROVE FALSE
      <4>1. p \in T /\ p <= n /\ Begun(T, B, p) = Len(u) + 1
        BY <3>1, PartNext
      <4>2. p \in 0 .. n
        BY <1>3, <4>1 DEF Upto
      <4>3. Begun(T, B, p) <= Begun(T, B, n)
        BY <4>2, BegunNext
      <4> QED BY <1>8, <2>1, <2>3, <4>1, <4>3
    <3>2. Part(T, B, Len(u) + 1, n + 1) = {}
      BY <1>6, <3>1
    <3>3. Cardinality({}) = 0 /\ Len(<<>>) = 0
      BY FS_EmptySet
    <3> QED BY <3>2, <3>3 DEF Spells
  <2>6. \A q \in Upto(T, n + 1) : ~ (Begun(T, B, q) > Len(u))
    <3>1. ASSUME NEW q \in Upto(T, n)
          PROVE  Begun(T, B, q) \in Nat /\ Begun(T, B, q) <= Begun(T, B, n)
      BY <1>3, BegunNext
    <3> QED BY <1>2, <1>5, <1>8, <2>1, <2>3, <3>1
  <2>7. Begun(T, B, n + 1) = Len(u)
    BY <1>5, <2>1, <2>3
  <2>8. Kept(s, T, B, n + 1, u, <<>>)
    BY <1>5, <1>7, <2>4, <2>5, <2>6, <2>7 DEF Kept
  <2> QED BY <1>9, <2>2, <2>8
<1>10. CASE ~ (c # <<>> /\ Len(v) <= MaxArgs)
  <2>1. ASSUME Len(v) <= MaxArgs
        PROVE  /\ c = <<>> /\ Begun(T, B, n + 1) = Len(v)
               /\ \A q \in Upto(T, n + 1) : ~ (Begun(T, B, q) > Len(v))
    <3>1. c = <<>> /\ Begun(T, B, n) = Len(v)
      BY <1>10, <2>1 DEF Kept
    <3>2. ASSUME NEW q \in Upto(T, n)
          PROVE  Begun(T, B, q) \in Nat /\ Begun(T, B, q) <= Begun(T, B, n)
      BY <1>3, BegunNext
    <3> QED BY <1>2, <1>5, <1>8, <3>1, <3>2
  <2>2. Kept(s, T, B, n + 1, v, c)
    BY <1>5, <1>6, <1>7, <2>1 DEF Kept
  <2> QED BY <1>10, <2>2
<1> QED BY <1>9, <1>10

(* Before the first character there is nothing.                            *)
LEMMA KeptInitially ==
  ASSUME NEW s, NEW T, NEW B, Cuts(s, T, B)
  PROVE  Kept(s, T, B, 0, <<>>, <<>>)
<1>0. PICK N \in Nat : N = Len(s)
  BY DEF Cuts
<1>1. Upto(T, 0) = {} /\ Upto(Begins(T, B), 0) = {} /\ Cardinality({}) = 0
      /\ \A w : Part(T, B, w, 0) = {}
  <2>1. Within(T, N) /\ Within(Begins(T, B), N) /\ \A w : Within(Word(T, Begins(T, B), w), N)
    BY <1>0 DEF Cuts, Within, Begins, Word
  <2> QED BY <2>1, UptoAll DEF Part
<1>2. Begun(T, B, 0) = 0
  BY <1>1 DEF Begun
<1>3. Len(<<>>) = 0 /\ 1 .. 0 = {}
  OBVIOUS
<1>4. Spells(s, {}, <<>>)
  BY <1>1, <1>3 DEF Spells
<1>5. PICK none : none = <<>>
  OBVIOUS
<1>6. Len(none) = 0 /\ Spells(s, {}, none) /\ Part(T, B, Len(none) + 1, 0) = {}
  BY <1>1, <1>3, <1>4, <1>5
<1>7. Kept(s, T, B, 0, none, none)
  <2>1. \A w \in 1 .. Len(none) : Spells(s, Part(T, B, w, 0), none[w])
    BY <1>3, <1>6
  <2>2. Upto(T, 0) = {} /\ Begun(T, B, 0) = 0 /\ Len(none) <= Begun(T, B, 0)
    BY <1>1, <1>2, <1>6
  <2>3. Spells(s, Part(T, B, Len(none) + 1, 0), none)
    BY <1>6
  <2> QED BY <1>5, <1>6, <2>1, <2>2, <2>3 DEF Kept
<1> QED BY <1>5, <1>7

LEMMA MinIs ==
  ASSUME NEW m \in Int, NEW n \in Int, m <= n
  PROVE  Min({m, n}) = m /\ Min({n, m}) = m
<1>1. PICK S : S = {m, n}
  OBVIOUS
<1>2. m \in S /\ \A y \in S : m <= y /\ (y <= m => y = m)
  BY <1>1
<1>3. Min(S) \in S /\ \A y \in S : Min(S) <= y
  BY <1>2 DEF Min
<1> QED BY <1>1, <1>2, <1>3

(* The end is a break for the word at hand, and there are no more words    *)
(* than were begun.                                                        *)
LEMMA EndKeeps ==
  ASSUME NEW s, NEW T, NEW B, Cuts(s, T, B),
         NEW v \in Seq(Seq(Char)), NEW c \in Seq(Char), Len(v) <= MaxArgs + 1,
         Kept(s, T, B, Len(s), v, c),
         NEW u, c # <<>> /\ Len(v) <= MaxArgs => u = Append(v, c),
         ~ (c # <<>> /\ Len(v) <= MaxArgs) => u = v
  PROVE  /\ Len(u) = Min({Cardinality(Begins(T, B)), MaxArgs + 1})
         /\ SpellsWords(s, T, Begins(T, B), u)
<1>0. PICK N \in Nat : N = Len(s)
  BY DEF Cuts
<1>1. PICK words : words = Cardinality(Begins(T, B))
  OBVIOUS
<1>2. /\ Begun(T, B, N) = words /\ words \in Nat
      /\ \A w : Part(T, B, w, N) = Word(T, Begins(T, B), w)
  <2>1. Within(Begins(T, B), N) /\ \A w : Within(Word(T, Begins(T, B), w), N)
    BY <1>0 DEF Cuts, Within, Begins, Word
  <2>2. /\ Upto(Begins(T, B), N) = Begins(T, B)
        /\ \A w : Upto(Word(T, Begins(T, B), w), N) = Word(T, Begins(T, B), w)
    BY <2>1, UptoAll
  <2>3. Begun(T, B, N) \in Nat
    BY BegunNext
  <2> QED BY <1>1, <2>2, <2>3 DEF Begun, Part
<1>3. Kept(s, T, B, N, v, c) /\ Len(v) \in Nat /\ MaxArgs \in Nat
  BY <1>0, MaxArgsAssumption
<1>. PICK most \in Int : most = MaxArgs + 1
  BY <1>3
<1>4. Len(u) = Min({words, most})
  <2>1. words \in Int
    BY <1>2
  <2>2. words <= most => Min({words, most}) = words
    BY <2>1, MinIs
  <2>3. most <= words => Min({words, most}) = most
    BY <2>1, MinIs
  <2>4. CASE c # <<>> /\ Len(v) <= MaxArgs
    <3>1. Len(u) = Len(v) + 1 /\ words = Len(v) + 1
      BY <1>2, <1>3, <2>4 DEF Kept
    <3> QED BY <1>3, <2>2, <2>4, <3>1
  <2>5. CASE c = <<>> /\ Len(v) <= MaxArgs
    <3>1. Len(u) = Len(v) /\ words = Len(v)
      BY <1>2, <1>3, <2>5 DEF Kept
    <3> QED BY <1>3, <2>2, <2>5, <3>1
  <2>6. CASE Len(v) = MaxArgs + 1
    <3>1. Len(u) = most /\ most <= words
      BY <1>2, <1>3, <2>6 DEF Kept
    <3> QED BY <2>3, <3>1
  <2> QED BY <1>3, <2>4, <2>5, <2>6
<1>5. ASSUME NEW w \in DOMAIN u PROVE Spells(s, Word(T, Begins(T, B), w), u[w])
  <2>1. \A i \in 1 .. Len(v) : Spells(s, Word(T, Begins(T, B), i), v[i])
    BY <1>2, <1>3 DEF Kept
  <2>2. CASE c # <<>> /\ Len(v) <= MaxArgs
    <3>1. Spells(s, Word(T, Begins(T, B), Len(v) + 1), c)
      BY <1>2, <1>3, <2>2 DEF Kept
    <3>2. /\ w \in 1 .. Len(v) + 1 /\ u[Len(v) + 1] = c
          /\ \A i \in 1 .. Len(v) : u[i] = v[i]
      BY <1>5, <2>2
    <3>3. CASE w = Len(v) + 1
      BY <3>1, <3>2, <3>3
    <3>4. CASE w \in 1 .. Len(v)
      BY <2>1, <3>2, <3>4
    <3> QED BY <1>3, <3>2, <3>3, <3>4
  <2>3. CASE ~ (c # <<>> /\ Len(v) <= MaxArgs)
    <3>1. u = v /\ w \in 1 .. Len(v)
      BY <1>5, <2>3
    <3> QED BY <2>1, <3>1
  <2> QED BY <2>2, <2>3
<1> QED BY <1>1, <1>4, <1>5 DEF SpellsWords

----------------------------------------------------------------------------
(* What introduces another character is not introduced itself: two runs    *)
(* that share a character begin at the same one.                           *)
LEMMA NotTwice ==
  ASSUME NEW s \in Seq(Char), NEW p \in Introduces(s)
  PROVE  p + 1 \notin Introduces(s)
<1> SUFFICES ASSUME p + 1 \in Introduces(s) PROVE FALSE
  OBVIOUS
<1>1. PICK j \in 1 .. p : RunFrom(s, j, p) /\ (p - j) % 2 = 0
  BY DEF Introduces
<1>2. PICK i \in 1 .. p + 1 : RunFrom(s, i, p + 1) /\ (p + 1 - i) % 2 = 0
  BY DEF Introduces
<1>3. p \in Nat /\ p >= 1
  BY DEF Introduces
<1>4. i = j
  <2>1. i - 1 \in j .. p => i = 1
    BY <1>1, <1>2 DEF RunFrom
  <2>2. j - 1 \in i .. p + 1 => j = 1
    BY <1>1, <1>2 DEF RunFrom
  <2> QED BY <1>3, <2>1, <2>2
<1>5. PICK m \in Nat : m = p - j
  BY <1>3
<1>6. m % 2 = 0 /\ (m + 1) % 2 = 0
  <2>1. p + 1 - i = m + 1
    BY <1>3, <1>4, <1>5
  <2> QED BY <1>1, <1>2, <1>5, <2>1
<1> QED BY <1>6

(* The parser stands behind a whole item: what is before it introduces     *)
(* nothing, and if it looks like an introducer it was itself introduced.   *)
Settled(s, n) == /\ n \in 0 .. Len(s) /\ n \notin Introduces(s)
                 /\ n # 0 /\ s[n] \in Introducers => n - 1 \in Introduces(s)

LEMMA IntroducesNext ==
  ASSUME NEW s \in Seq(Char), NEW n \in Nat, Settled(s, n), n < Len(s)
  PROVE  n + 1 \in Introduces(s) <=> s[n + 1] \in Introducers
<1>1. ASSUME n + 1 \in Introduces(s) PROVE s[n + 1] \in Introducers
  BY <1>1 DEF Introduces, RunFrom
<1>2. ASSUME s[n + 1] \in Introducers PROVE n + 1 \in Introduces(s)
  <2> SUFFICES \E j \in 1 .. n + 1 : RunFrom(s, j, n + 1) /\ (n + 1 - j) % 2 = 0
    BY DEF Introduces
  <2>1. CASE n = 0 \/ s[n] \notin Introducers
    <3>1. RunFrom(s, n + 1, n + 1) /\ n + 1 - (n + 1) = 0 /\ 0 % 2 = 0
      BY <1>2, <2>1 DEF RunFrom
    <3> QED BY <3>1
  <2>2. CASE n # 0 /\ s[n] \in Introducers
    <3>1. n - 1 \in Introduces(s)
      BY <2>2 DEF Settled
    <3>2. PICK j \in 1 .. n - 1 : RunFrom(s, j, n - 1) /\ (n - 1 - j) % 2 = 0
      BY <3>1 DEF Introduces
    <3>3. RunFrom(s, j, n + 1)
      <4>1. \A i \in j .. n + 1 : i \in j .. n - 1 \/ i = n \/ i = n + 1
        OBVIOUS
      <4> QED BY <1>2, <2>2, <3>2, <4>1 DEF RunFrom
    <3>4. PICK m \in Nat : m = n - 1 - j
      BY <3>1 DEF Introduces
    <3>5. (m + 2) % 2 = 0 /\ n + 1 - j = m + 2 /\ j \in 1 .. n + 1
      BY <3>2, <3>4
    <3> QED BY <3>3, <3>5
  <2> QED BY <2>1, <2>2
<1> QED BY <1>1, <1>2

LEMMA PlainNext ==
  ASSUME NEW s \in Seq(Char), NEW n \in Nat, Settled(s, n), n < Len(s),
         s[n + 1] \notin Introducers
  PROVE  /\ Settled(s, n + 1)
         /\ n + 1 \in Quotes(s) <=> s[n + 1] = "quote"
         /\ n + 1 \in Breaks(s) <=> s[n + 1] = "space" /\ ~ InQuotes(s, n + 1)
         /\ n + 1 \in Text(s) <=>
              s[n + 1] = "letter" \/ (s[n + 1] = "space" /\ InQuotes(s, n + 1))
<1>1. n + 1 \notin Introduces(s) /\ n \notin Introduces(s) /\ n + 1 - 1 = n
      /\ n + 1 \in 1 .. Len(s)
  BY IntroducesNext DEF Settled
<1>2. s[n + 1] \in {"letter", "space", "quote"}
  BY <1>1 DEF Char, Introducers
<1>3. n + 1 \in Bare(s)
  BY <1>1 DEF Bare
<1>4. n + 1 \in Quotes(s) <=> s[n + 1] = "quote"
  BY <1>3 DEF Quotes
<1>5. n + 1 \in Breaks(s) <=> s[n + 1] = "space" /\ ~ InQuotes(s, n + 1)
  BY <1>3 DEF Breaks
<1>6. n + 1 \in Text(s) <=> n + 1 \notin Quotes(s) /\ n + 1 \notin Breaks(s)
  BY <1>1, <1>3 DEF Text
<1>7. Settled(s, n + 1)
  BY <1>1 DEF Settled
<1> QED BY <1>2, <1>4, <1>5, <1>6, <1>7

LEMMA PairNext ==
  ASSUME NEW s \in Seq(Char), NEW n \in Nat, Settled(s, n), n + 1 < Len(s),
         s[n + 1] \in Introducers
  PROVE  /\ Settled(s, n + 2)
         /\ n + 1 \notin Text(s) \cup Breaks(s) \cup Quotes(s)
         /\ n + 2 \notin Breaks(s) \cup Quotes(s)
         /\ n + 2 \in Text(s) <=> s[n + 1] = "backslash" \/ s[n + 2] = "percent"
<1>1. /\ n + 1 \in Introduces(s) /\ n \notin Introduces(s) /\ n + 1 - 1 = n
      /\ n + 2 - 1 = n + 1 /\ n + 2 \in 1 .. Len(s)
  BY IntroducesNext DEF Settled
<1>2. n + 2 \notin Introduces(s)
  <2>1. n + 1 + 1 \notin Introduces(s)
    BY <1>1, NotTwice
  <2> QED BY <2>1
<1>3. n + 1 \notin Bare(s) /\ n + 2 \notin Bare(s)
  BY <1>1 DEF Bare
<1>4. /\ n + 1 \notin Text(s) \cup Breaks(s) \cup Quotes(s)
      /\ n + 2 \notin Breaks(s) \cup Quotes(s)
  BY <1>1, <1>3 DEF Text, Breaks, Quotes
<1>5. n + 2 \in Text(s) <=> s[n + 1] = "backslash" \/ s[n + 2] = "percent"
  BY <1>1, <1>3 DEF Text
<1>6. Settled(s, n + 2)
  BY <1>1, <1>2 DEF Settled
<1> QED BY <1>4, <1>5, <1>6

(* Only a bare quote opens or closes.                                      *)
LEMMA InQuotesNext ==
  ASSUME NEW s \in Seq(Char), NEW n \in Nat
  PROVE  /\ n + 1 \in Quotes(s) => (InQuotes(s, n + 2) <=> ~ InQuotes(s, n + 1))
         /\ n + 1 \notin Quotes(s) => (InQuotes(s, n + 2) <=> InQuotes(s, n + 1))
<1>0. PICK N \in Nat : N = Len(s)
  OBVIOUS
<1>1. Within(Quotes(s), N)
  BY <1>0 DEF Within, Quotes, Bare
<1>2. \A q \in Quotes(s) : (q < n + 1 <=> q <= n) /\ (q < n + 2 <=> q <= n + 1)
  BY <1>1 DEF Within
<1>3. /\ {q \in Quotes(s) : q < n + 1} = Upto(Quotes(s), n)
      /\ {q \in Quotes(s) : q < n + 2} = Upto(Quotes(s), n + 1)
  BY <1>2 DEF Upto
<1>4. PICK m \in Nat : m = Cardinality(Upto(Quotes(s), n))
  BY <1>1, UptoFinite
<1>5. (m + 1) % 2 = 1 <=> ~ (m % 2 = 1)
  OBVIOUS
<1>6. Cardinality(Upto(Quotes(s), n + 1)) = IF n + 1 \in Quotes(s) THEN m + 1 ELSE m
  BY <1>1, <1>4, UptoNext
<1> QED BY <1>3, <1>4, <1>5, <1>6 DEF InQuotes

LEMMA ScanInitially ==
  ASSUME NEW s \in Seq(Char)
  PROVE  /\ Settled(s, 0) /\ ~ InQuotes(s, 1)
         /\ Cuts(s, Text(s), Breaks(s))
<1>1. 0 \notin Introduces(s) /\ Len(s) \in Nat
  BY DEF Introduces
<1>2. \A q \in Quotes(s) : ~ (q < 1)
  BY DEF Quotes, Bare
<1>3. {q \in Quotes(s) : q < 1} = {}
  BY <1>2
<1>4. Cardinality({}) = 0 /\ 0 % 2 # 1
  BY FS_EmptySet
<1>5. Cuts(s, Text(s), Breaks(s))
  <2>1. ASSUME NEW p \in Text(s) PROVE p \notin Breaks(s)
    BY <2>1 DEF Text, Breaks, Bare
  <2>2. Within(Text(s), Len(s)) /\ Within(Breaks(s), Len(s))
    BY DEF Within, Text, Breaks, Bare
  <2> QED BY <2>1, <2>2 DEF Cuts
<1>6. Settled(s, 0)
  BY <1>1 DEF Settled
<1>7. ~ InQuotes(s, 1)
  BY <1>3, <1>4 DEF InQuotes
<1> QED BY <1>5, <1>6, <1>7

----------------------------------------------------------------------------
(* In the middle of the string: the parser is between two items, knows     *)
(* whether it is inside quotes, and has the words so far.                  *)
Middle(s, n, quoted, v, c) == /\ Settled(s, n) /\ (quoted <=> InQuotes(s, n + 1))
                              /\ Kept(s, Text(s), Breaks(s), n, v, c)
WordInd == /\ CmdInv /\ ArgsAreWords
           /\ ret = "none" => Middle(exec_s, idx, in_quote, argv, cur.text)

LEMMA WordTypes ==
  ASSUME WordInd, ret = "none"
  PROVE  /\ exec_s \in Seq(Char) /\ idx \in Nat /\ Len(exec_s) \in Nat /\ idx <= Len(exec_s)
         /\ argv \in Seq(Seq(Char)) /\ Len(argv) <= MaxArgs + 1
         /\ cur.text \in Seq(Char) /\ (HasCur <=> cur.text # <<>>) /\ in_quote \in BOOLEAN
         /\ Settled(exec_s, idx) /\ (in_quote <=> InQuotes(exec_s, idx + 1))
         /\ Kept(exec_s, Text(exec_s), Breaks(exec_s), idx, argv, cur.text)
         /\ Cuts(exec_s, Text(exec_s), Breaks(exec_s))
<1>1. CmdInv /\ Middle(exec_s, idx, in_quote, argv, cur.text)
  BY DEF WordInd
<1>2. argv \in Seq(Seq(Char) \ {<<>>}) /\ exec_s \in Seq(Char)
  BY <1>1 DEF CmdInv, CommandInv
<1>3. argv \in Seq(Seq(Char))
  BY <1>2
<1>4. Cuts(exec_s, Text(exec_s), Breaks(exec_s))
  BY <1>2, ScanInitially
<1> QED BY <1>1, <1>2, <1>3, <1>4 DEF CmdInv, CommandInv, Middle

(* The parser goes on with the next item, or gives up.                     *)
LEMMA GoesOn ==
  ASSUME CmdInv', ret' = "none", exec_s' = exec_s,
         Middle(exec_s, idx', in_quote', argv', cur'.text)
  PROVE  WordInd'
BY DEF WordInd, ArgsAreWords

LEMMA WordNomem == ASSUME CmdInv', ret' = "nomem" PROVE WordInd'
BY DEF WordInd, ArgsAreWords

LEMMA WordSyntax ==
  ASSUME CmdInv', ret' = "syntax", exec_s' = exec_s, ~ WellFormed(exec_s)
  PROVE  WordInd'
BY DEF WordInd, ArgsAreWords

(* One character that is taken as it is, and two of which the second is.   *)
LEMMA PlainTaken ==
  ASSUME WordInd, CmdInv', Parsing, At \notin Introducers, idx + 1 \in Text(exec_s),
         Take(At, 1)
  PROVE  WordInd'
<1>0. ret = "none" /\ idx < Len(exec_s)
  BY DEF Parsing
<1>1. CASE /\ cur' = [text |-> Append(cur.text, At), cap |-> Room(cur)]
           /\ idx' = idx + 1
           /\ UNCHANGED <<exec_s, argv, in_quote, ret>>
  <2>1. PICK T, B : T = Text(exec_s) /\ B = Breaks(exec_s)
    OBVIOUS
  <2>2. Kept(exec_s, T, B, idx + 1, argv, Append(cur.text, exec_s[idx + 1]))
    BY <1>0, <2>1, WordTypes, AddKeeps
  <2>3. Settled(exec_s, idx + 1) /\ idx + 1 \notin Quotes(exec_s)
    BY <1>0, WordTypes, PlainNext DEF At
  <2>4. in_quote <=> InQuotes(exec_s, idx + 1 + 1)
    <3>1. InQuotes(exec_s, idx + 2) <=> InQuotes(exec_s, idx + 1)
      BY <1>0, <2>3, WordTypes, InQuotesNext
    <3>2. idx + 1 + 1 = idx + 2
      BY <1>0, WordTypes
    <3> QED BY <1>0, <3>1, <3>2, WordTypes, Zenon
  <2>5. Middle(exec_s, idx', in_quote', argv', cur'.text)
    BY <1>1, <2>1, <2>2, <2>3, <2>4 DEF Middle, At
  <2> QED BY <1>0, <1>1, <2>5, GoesOn
<1>2. CASE GiveUp("nomem")
  BY <1>2, WordNomem DEF GiveUp
<1> QED BY <1>1, <1>2 DEF Take

LEMMA PairTaken ==
  ASSUME WordInd, CmdInv', Parsing, ~ AtEnd, At \in Introducers,
         At = "backslash" \/ Next1 = "percent", Take(Next1, 2)
  PROVE  WordInd'
<1>0. ret = "none" /\ idx + 1 < Len(exec_s) /\ idx + 2 = idx + 1 + 1
  BY WordTypes DEF Parsing, AtEnd
<1>1. CASE /\ cur' = [text |-> Append(cur.text, Next1), cap |-> Room(cur)]
           /\ idx' = idx + 2
           /\ UNCHANGED <<exec_s, argv, in_quote, ret>>
  <2>1. PICK T, B : T = Text(exec_s) /\ B = Breaks(exec_s)
    OBVIOUS
  <2>2. /\ Settled(exec_s, idx + 2) /\ idx + 1 \notin T \cup B \cup Quotes(exec_s)
        /\ idx + 2 \notin Quotes(exec_s) /\ idx + 2 \in T
    BY <1>0, <2>1, WordTypes, PairNext DEF At, Next1
  <2>3. Kept(exec_s, T, B, idx + 1, argv, cur.text)
    BY <1>0, <2>1, <2>2, WordTypes, SkipKeeps
  <2>4. Kept(exec_s, T, B, idx + 1 + 1, argv, Append(cur.text, exec_s[idx + 1 + 1]))
    <3>1. idx + 1 \in Nat /\ idx + 1 + 1 \in T
      BY <1>0, <2>2, WordTypes
    <3> QED BY <1>0, <2>1, <2>3, <3>1, WordTypes, AddKeeps
  <2>5. in_quote <=> InQuotes(exec_s, idx + 2 + 1)
    <3>1. InQuotes(exec_s, idx + 2) <=> InQuotes(exec_s, idx + 1)
      BY <1>0, <2>2, WordTypes, InQuotesNext
    <3>2. InQuotes(exec_s, idx + 1 + 2) <=> InQuotes(exec_s, idx + 1 + 1)
      <4>1. idx + 1 \in Nat /\ idx + 1 + 1 \notin Quotes(exec_s)
        BY <1>0, <2>2, WordTypes
      <4> QED BY <1>0, <4>1, WordTypes, InQuotesNext
    <3>3. idx + 2 + 1 = idx + 1 + 2
      BY <1>0, WordTypes
    <3> QED BY <1>0, <3>1, <3>2, <3>3, WordTypes, Zenon
  <2>6. Middle(exec_s, idx', in_quote', argv', cur'.text)
    BY <1>0, <1>1, <2>1, <2>2, <2>4, <2>5 DEF Middle, Next1
  <2> QED BY <1>0, <1>1, <2>6, GoesOn
<1>2. CASE GiveUp("nomem")
  BY <1>2, WordNomem DEF GiveUp
<1> QED BY <1>1, <1>2 DEF Take

LEMMA PairSkipped ==
  ASSUME WordInd, CmdInv', Parsing, ~ AtEnd, At = "percent", Next1 # "percent",
         idx' = idx + 2, UNCHANGED <<exec_s, cur, argv, in_quote, ret>>
  PROVE  WordInd'
<1>0. ret = "none" /\ idx + 1 < Len(exec_s) /\ idx + 2 = idx + 1 + 1
  BY WordTypes DEF Parsing, AtEnd
<1>1. PICK T, B : T = Text(exec_s) /\ B = Breaks(exec_s)
  OBVIOUS
<1>2. /\ Settled(exec_s, idx + 2) /\ idx + 1 \notin T \cup B \cup Quotes(exec_s)
      /\ idx + 2 \notin B \cup Quotes(exec_s) /\ idx + 2 \notin T
  BY <1>0, <1>1, WordTypes, PairNext DEF At, Next1, Introducers
<1>3. Kept(exec_s, T, B, idx + 1, argv, cur.text)
  BY <1>0, <1>1, <1>2, WordTypes, SkipKeeps
<1>4. Kept(exec_s, T, B, idx + 1 + 1, argv, cur.text)
  <2>1. idx + 1 \in Nat /\ idx + 1 + 1 \notin T /\ idx + 1 + 1 \notin B
    BY <1>0, <1>2, WordTypes
  <2> QED BY <1>0, <1>1, <1>3, <2>1, WordTypes, SkipKeeps
<1>5. in_quote <=> InQuotes(exec_s, idx + 2 + 1)
  <2>1. InQuotes(exec_s, idx + 2) <=> InQuotes(exec_s, idx + 1)
    BY <1>0, <1>2, WordTypes, InQuotesNext
  <2>2. InQuotes(exec_s, idx + 1 + 2) <=> InQuotes(exec_s, idx + 1 + 1)
    <3>1. idx + 1 \in Nat /\ idx + 1 + 1 \notin Quotes(exec_s)
      BY <1>0, <1>2, WordTypes
    <3> QED BY <1>0, <3>1, WordTypes, InQuotesNext
  <2>3. idx + 2 + 1 = idx + 1 + 2
    BY <1>0, WordTypes
  <2> QED BY <1>0, <2>1, <2>2, <2>3, WordTypes, Zenon
<1>6. Middle(exec_s, idx', in_quote', argv', cur'.text)
  BY <1>0, <1>1, <1>2, <1>4, <1>5 DEF Middle
<1> QED BY <1>0, <1>6, GoesOn

LEMMA SeparatorKeeps == ASSUME WordInd, CmdInv', Separator PROVE WordInd'
<1>0. ret = "none" /\ idx < Len(exec_s) /\ exec_s[idx + 1] = "space" /\ ~ in_quote
  BY DEF Separator, Parsing, At
<1>1. CASE Push /\ idx' = idx + 1 /\ UNCHANGED <<exec_s, in_quote, ret>>
  <2>1. PICK T, B : T = Text(exec_s) /\ B = Breaks(exec_s)
    OBVIOUS
  <2>2. /\ Settled(exec_s, idx + 1) /\ idx + 1 \notin Quotes(exec_s) /\ idx + 1 \in B
    BY <1>0, <2>1, WordTypes, PlainNext DEF Introducers
  <2>3. IF cur.text # <<>> /\ Len(argv) <= MaxArgs
        THEN Kept(exec_s, T, B, idx + 1, Append(argv, cur.text), <<>>)
        ELSE Kept(exec_s, T, B, idx + 1, argv, cur.text)
    BY <1>0, <2>1, <2>2, WordTypes, BreakKeeps
  <2>4. Kept(exec_s, T, B, idx + 1, argv', cur'.text)
    <3>1. CASE cur.text # <<>> /\ Len(argv) <= MaxArgs
      <4>1. argv' = Append(argv, cur.text) /\ cur'.text = <<>>
        BY <1>0, <1>1, <3>1, WordTypes DEF Push, NoCur
      <4> QED BY <2>3, <3>1, <4>1
    <3>2. CASE ~ (cur.text # <<>> /\ Len(argv) <= MaxArgs)
      <4>1. argv' = argv /\ cur' = cur
        BY <1>0, <1>1, <3>2, WordTypes DEF Push
      <4> QED BY <2>3, <3>2, <4>1
    <3> QED BY <3>1, <3>2
  <2>5. in_quote <=> InQuotes(exec_s, idx + 1 + 1)
    <3>1. InQuotes(exec_s, idx + 2) <=> InQuotes(exec_s, idx + 1)
      BY <1>0, <2>2, WordTypes, InQuotesNext
    <3>2. idx + 1 + 1 = idx + 2
      BY <1>0, WordTypes
    <3> QED BY <1>0, <3>1, <3>2, WordTypes, Zenon
  <2>6. Middle(exec_s, idx', in_quote', argv', cur'.text)
    BY <1>1, <2>1, <2>2, <2>4, <2>5 DEF Middle
  <2> QED BY <1>0, <1>1, <2>6, GoesOn
<1>2. CASE PushFails
  BY <1>2, WordNomem DEF PushFails, GiveUp
<1> QED BY <1>1, <1>2 DEF Separator

LEMMA QuoteKeeps == ASSUME WordInd, CmdInv', Quote PROVE WordInd'
<1>0. /\ ret = "none" /\ idx < Len(exec_s) /\ exec_s[idx + 1] = "quote"
      /\ in_quote' = ~ in_quote /\ idx' = idx + 1 /\ UNCHANGED <<exec_s, cur, argv, ret>>
  BY DEF Quote, Parsing, At
<1>1. PICK T, B : T = Text(exec_s) /\ B = Breaks(exec_s)
  OBVIOUS
<1>2. /\ Settled(exec_s, idx + 1) /\ idx + 1 \in Quotes(exec_s)
      /\ idx + 1 \notin T /\ idx + 1 \notin B
  BY <1>0, <1>1, WordTypes, PlainNext DEF Introducers
<1>3. Kept(exec_s, T, B, idx + 1, argv, cur.text)
  BY <1>0, <1>1, <1>2, WordTypes, SkipKeeps
<1>4. in_quote' <=> InQuotes(exec_s, idx + 1 + 1)
  <2>1. InQuotes(exec_s, idx + 2) <=> ~ InQuotes(exec_s, idx + 1)
    BY <1>0, <1>2, WordTypes, InQuotesNext
  <2>2. idx + 1 + 1 = idx + 2
    BY <1>0, WordTypes
  <2>3. in_quote' <=> ~ in_quote
    BY <1>0
  <2> QED BY <1>0, <2>1, <2>2, <2>3, WordTypes, Zenon
<1>5. Middle(exec_s, idx', in_quote', argv', cur'.text)
  BY <1>0, <1>1, <1>2, <1>3, <1>4 DEF Middle
<1> QED BY <1>0, <1>5, GoesOn

(* A string that ends in an introducer, or inside quotes, is refused.      *)
LEMMA CutShort ==
  ASSUME WordInd, CmdInv', Parsing, AtEnd, At \in Introducers, GiveUp("syntax")
  PROVE  WordInd'
<1>1. ret = "none" /\ idx < Len(exec_s) /\ idx + 1 = Len(exec_s)
  BY WordTypes DEF Parsing, AtEnd
<1>2. Len(exec_s) \in Introduces(exec_s)
  BY <1>1, WordTypes, IntroducesNext DEF At
<1> QED BY <1>2, WordSyntax DEF GiveUp, WellFormed

LEMMA FinishKeeps == ASSUME WordInd, CmdInv', Finish PROVE WordInd'
<1>0. ret = "none" /\ idx = Len(exec_s)
  BY WordTypes DEF Finish
<1>1. CASE in_quote /\ GiveUp("syntax")
  <2>1. ~ WellFormed(exec_s)
    BY <1>0, <1>1, WordTypes, Zenon DEF WellFormed
  <2> QED BY <1>1, <2>1, WordSyntax DEF GiveUp
<1>2. CASE ~ in_quote /\ Push /\ ret' = "ok" /\ UNCHANGED <<exec_s, idx, in_quote>>
  <2>1. WellFormed(exec_s)
    <3>1. ~ InQuotes(exec_s, Len(exec_s) + 1)
      BY <1>0, <1>2, WordTypes, Zenon
    <3>2. Len(exec_s) \notin Introduces(exec_s)
      BY <1>0, WordTypes DEF Settled
    <3> QED BY <3>1, <3>2 DEF WellFormed
  <2>2. argv' = IF cur.text # <<>> /\ Len(argv) <= MaxArgs THEN Append(argv, cur.text)
                ELSE argv
    BY <1>0, <1>2, WordTypes DEF Push
  <2>3. AreWords(exec_s, argv')
    <3>1. PICK s, T, B, v, c, u : /\ s = exec_s /\ T = Text(s) /\ B = Breaks(s)
                                  /\ v = argv /\ c = cur.text /\ u = argv'
      OBVIOUS
    <3>2. /\ Cuts(s, T, B) /\ Kept(s, T, B, Len(s), v, c)
          /\ v \in Seq(Seq(Char)) /\ c \in Seq(Char) /\ Len(v) <= MaxArgs + 1
      BY <1>0, <3>1, WordTypes
    <3>3. /\ c # <<>> /\ Len(v) <= MaxArgs => u = Append(v, c)
          /\ ~ (c # <<>> /\ Len(v) <= MaxArgs) => u = v
      BY <2>2, <3>1
    <3>4. /\ Len(u) = Min({Cardinality(Begins(T, B)), MaxArgs + 1})
          /\ SpellsWords(s, T, Begins(T, B), u)
      BY <3>2, <3>3, EndKeeps
    <3> QED BY <3>1, <3>4 DEF AreWords
  <2> QED BY <1>2, <2>1, <2>3 DEF WordInd, ArgsAreWords
<1>3. CASE ~ in_quote /\ GiveUp("nomem")
  BY <1>3, WordNomem DEF GiveUp
<1> QED BY <1>1, <1>2, <1>3 DEF Finish

LEMMA WordStep == WordInd /\ CommandNext => WordInd'
<1> SUFFICES ASSUME WordInd, CommandNext PROVE WordInd'
  OBVIOUS
<1>0. CmdInv'
  BY CommandStep DEF WordInd
<1>1. CASE Separator
  BY <1>0, <1>1, SeparatorKeeps
<1>2. CASE Quote
  BY <1>0, <1>2, QuoteKeeps
<1>3. CASE Escape
  BY <1>0, <1>3, CutShort, PairTaken DEF Escape, Introducers
<1>4. CASE FieldCode
  <2>1. CASE AtEnd
    BY <1>0, <1>4, <2>1, CutShort DEF FieldCode, Introducers
  <2>2. CASE ~ AtEnd /\ Next1 = "percent"
    BY <1>0, <1>4, <2>2, PairTaken DEF FieldCode, Introducers
  <2>3. CASE ~ AtEnd /\ Next1 # "percent"
    BY <1>0, <1>4, <2>3, PairSkipped DEF FieldCode
  <2> QED BY <2>1, <2>2, <2>3
<1>5. CASE Plain
  <2>1. ret = "none" /\ idx < Len(exec_s) /\ exec_s[idx + 1] = At /\ At \notin Introducers
    BY <1>5 DEF Plain, Parsing, At, Introducers
  <2>2. At = "letter" \/ (At = "space" /\ InQuotes(exec_s, idx + 1))
    BY <1>5, <2>1, WordTypes, Zenon DEF Plain
  <2>3. idx + 1 \in Text(exec_s)
    BY <2>1, <2>2, WordTypes, PlainNext
  <2> QED BY <1>0, <1>5, <2>1, <2>3, PlainTaken DEF Plain
<1>6. CASE Finish
  BY <1>0, <1>6, FinishKeeps
<1> QED BY <1>1, <1>2, <1>3, <1>4, <1>5, <1>6 DEF CommandNext

LEMMA WordKept == WordInd /\ UNCHANGED commandVars => WordInd'
<1> SUFFICES ASSUME WordInd, UNCHANGED commandVars PROVE WordInd'
  OBVIOUS
<1>1. CmdInv'
  BY CommandKept DEF WordInd
<1>2. /\ exec_s' = exec_s /\ idx' = idx /\ in_quote' = in_quote /\ argv' = argv
      /\ cur'.text = cur.text /\ ret' = ret
  BY DEF commandVars
<1> QED BY <1>1, <1>2 DEF WordInd, ArgsAreWords

(* Whatever the Exec line and the limit are, the vector that is handed out *)
(* is the words of the line, and a line is refused as malformed only if it *)
(* is.                                                                     *)
THEOREM WordsOfTheLine == Spec => []ArgsAreWords
<1>1. Init => WordInd
  <2> SUFFICES ASSUME Init PROVE WordInd
    OBVIOUS
  <2>1. CmdInv
    BY CommandInitially
  <2>2. exec_s \in Seq(Char)
    BY <2>1 DEF CmdInv
  <2>3. idx = 0 /\ cur.text = <<>> /\ argv = <<>> /\ in_quote = FALSE /\ ret = "none"
    BY DEF Init, CommandInit, NoCur
  <2>4. Middle(exec_s, 0, FALSE, <<>>, <<>>)
    BY <2>2, ScanInitially, KeptInitially DEF Middle
  <2> QED BY <2>1, <2>3, <2>4 DEF WordInd, ArgsAreWords
<1>2. WordInd /\ [Next]_vars => WordInd'
  BY WordStep, WordKept
  DEF Next, Parse, List, Prepare, Begin, Count, Allocate, Join, JoinEnds, Exec, vars
<1>3. WordInd => ArgsAreWords
  BY DEF WordInd
<1> QED BY <1>1, <1>2, <1>3, PTL DEF Spec
=============================================================================
