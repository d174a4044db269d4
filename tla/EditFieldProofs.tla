-------------------------- MODULE EditFieldProofs --------------------------
(***************************************************************************)
(* What the operations of a field do to its text and to its cursor: the    *)
(* lemmas about efield.c and utf8.c that the proofs about the form take.   *)
(***************************************************************************)
EXTENDS EditField, SequenceTheorems, WellFoundedInduction, TLAPS

(* A set of numbers that is not empty has a least one.                     *)
LEMMA MinIn ==
  ASSUME NEW S \in SUBSET Nat, S # {}
  PROVE  Min(S) \in S /\ \A y \in S : Min(S) <= y
<1>1. \E x \in S : \A y \in S : x <= y
  <2> DEFINE R == {p \in Nat \X Nat : p[1] < p[2]}
  <2>1. R = OpToRel(<, Nat)
    BY DEF OpToRel
  <2>2. IsWellFoundedOn(R, Nat)
    BY <2>1, NatLessThanWellFounded
  <2> HIDE DEF R
  <2>3. PICK x \in S : \A y \in S : ~ (<<y, x>> \in R)
    BY <2>2, WFMin
  <2>4. ASSUME NEW y \in S PROVE x <= y
    <3>1. x \in Nat /\ y \in Nat /\ <<y, x>> \notin R
      BY <2>3
    <3>2. ~ (y < x)
      BY <3>1 DEF R
    <3> QED BY <3>1, <3>2
  <2> QED BY <2>4
<1> QED BY <1>1 DEF Min

(* And a greatest one, if they have a bound: the distances to it have a    *)
(* least one.                                                              *)
LEMMA MaxIn ==
  ASSUME NEW n \in Nat, NEW S \in SUBSET (0 .. n), S # {}
  PROVE  Max(S) \in S /\ \A y \in S : y <= Max(S)
<1> DEFINE D == {d \in 0 .. n : n - d \in S}
           x == n - Min(D)
<1>1. D \in SUBSET Nat
  OBVIOUS
<1>2. \A y \in S : y \in 0 .. n /\ n - y \in 0 .. n /\ n - (n - y) = y
  OBVIOUS
<1>3. \A y \in S : n - y \in D
  BY <1>2
<1> HIDE DEF D
<1>4. Min(D) \in D /\ \A d \in D : Min(D) <= d
  BY <1>1, <1>3, MinIn
<1>5. x \in S /\ \A y \in S : x >= y
  <2>1. x \in S /\ Min(D) \in 0 .. n
    BY <1>4 DEF D
  <2>2. ASSUME NEW y \in S PROVE x >= y
    <3>1. Min(D) <= n - y /\ y \in 0 .. n
      BY <1>3, <1>4
    <3> QED BY <2>1, <3>1
  <2> QED BY <2>1, <2>2
<1> HIDE DEF x
<1>6. Max(S) \in S /\ \A y \in S : Max(S) >= y
  BY <1>5 DEF Max
<1> QED
  <2>1. ASSUME NEW y \in S PROVE y <= Max(S)
    <3>1. y \in 0 .. n /\ Max(S) \in 0 .. n /\ Max(S) >= y
      BY <1>6
    <3> QED BY <3>1
  <2> QED BY <1>6, <2>1

(* One step back that stays in the text ends before the first byte of the  *)
(* last character before it.                                               *)
LEMMA BackStops ==
  ASSUME NEW c \in Seq(Bytes), NEW p \in 1 .. Len(c), Back(c, p) # -1
  PROVE  /\ Back(c, p) \in 0 .. p - 1
         /\ c[Back(c, p) + 1] \notin Conts
         /\ \A q \in Back(c, p) + 1 .. p - 1 : c[q + 1] \in Conts
<1> DEFINE stops == {q \in 0 .. p - 1 : c[q + 1] \notin Conts}
<1>1. Len(c) \in Nat /\ p \in Nat
  OBVIOUS
<1>2. stops # {}
  BY DEF Back
<1>3. Back(c, p) = Max(stops)
  BY <1>2 DEF Back
<1>4. p - 1 \in Nat /\ stops \in SUBSET (0 .. p - 1)
  BY <1>1
<1> HIDE DEF stops
<1>5. Max(stops) \in stops /\ \A q \in stops : q <= Max(stops)
  BY <1>2, <1>4, MaxIn
<1>6. Back(c, p) \in 0 .. p - 1 /\ c[Back(c, p) + 1] \notin Conts
  BY <1>3, <1>5 DEF stops
<1>7. ASSUME NEW q \in Back(c, p) + 1 .. p - 1 PROVE c[q + 1] \in Conts
  <2>1. q \notin stops
    BY <1>1, <1>3, <1>5, <1>6, <1>7
  <2> QED BY <1>1, <1>6, <2>1 DEF stops
<1> QED BY <1>6, <1>7

(* A field whose cursor stands between two characters.                     *)
Text(f) == f \in [content : Seq(Bytes), pos : Nat] /\ FieldOK(f)

(* Where a character begins before a place, the step back from it stays in *)
(* the text; in a text of whole characters every step does.                *)
LEMMA BackStays ==
  ASSUME NEW c \in Seq(Bytes), NEW p \in 1 .. Len(c), NEW q \in 0 .. p - 1,
         c[q + 1] \notin Conts
  PROVE  Back(c, p) # -1
<1> DEFINE stops == {x \in 0 .. p - 1 : c[x + 1] \notin Conts}
<1>1. q \in stops /\ p - 1 \in Nat /\ stops \in SUBSET (0 .. p - 1)
  OBVIOUS
<1>2. Back(c, p) = Max(stops)
  BY <1>1 DEF Back
<1> HIDE DEF stops
<1>3. Max(stops) \in stops
  BY <1>1, MaxIn
<1> QED BY <1>1, <1>2, <1>3

LEMMA WholeStays == ASSUME NEW f, Text(f), Whole(f.content) PROVE ~ Walks(f)
<1> SUFFICES ASSUME f.pos # 0 PROVE Back(f.content, f.pos) # -1
  BY DEF Walks
<1> DEFINE c == f.content
           p == f.pos
<1>1. c \in Seq(Bytes) /\ Len(c) \in Nat /\ p \in 1 .. Len(c) /\ 0 \in 0 .. p - 1
  BY DEF Text, FieldOK, Boundary
<1>2. c[0 + 1] \notin Conts
  BY <1>1 DEF Whole, Boundary
<1> HIDE DEF c, p
<1>3. Back(c, p) # -1
  BY <1>1, <1>2, BackStays
<1> QED BY <1>3 DEF c, p

(* One step forward ends where the next character begins.                  *)
LEMMA ForwardStops ==
  ASSUME NEW c \in Seq(Bytes), NEW p \in 0 .. Len(c) - 1
  PROVE  /\ Forward(c, p) \in p + 1 .. Len(c)
         /\ Boundary(c, Forward(c, p))
         /\ \A q \in p + 1 .. Forward(c, p) - 1 : c[q + 1] \in Conts
<1> DEFINE ends == {q \in p + 1 .. Len(c) : Boundary(c, q)}
<1>1. Len(c) \in Nat /\ p \in Nat
  OBVIOUS
<1>2. Len(c) \in ends
  BY <1>1 DEF Boundary
<1>3. Forward(c, p) = Min(ends) /\ ends \in SUBSET Nat
  BY <1>1 DEF Forward
<1> HIDE DEF ends
<1>4. Min(ends) \in ends /\ \A q \in ends : Min(ends) <= q
  BY <1>2, <1>3, MinIn
<1>5. Forward(c, p) \in p + 1 .. Len(c) /\ Boundary(c, Forward(c, p))
  BY <1>3, <1>4 DEF ends
<1>6. ASSUME NEW q \in p + 1 .. Forward(c, p) - 1 PROVE c[q + 1] \in Conts
  <2>1. q \notin ends
    BY <1>1, <1>3, <1>4, <1>5, <1>6
  <2> QED BY <1>1, <1>5, <2>1 DEF ends, Boundary
<1> QED BY <1>5, <1>6

(* What is left of a text when the bytes from p to q are taken out and     *)
(* others put there, byte by byte.                                         *)
Splice(c, p, u, q) == Before(c, p) \o u \o After(c, q)

LEMMA Spliced ==
  ASSUME NEW c \in Seq(Bytes), NEW u \in Seq(Bytes),
         NEW p \in 0 .. Len(c), NEW q \in p .. Len(c)
  PROVE  LET d == Splice(c, p, u, q) IN
         /\ d \in Seq(Bytes) /\ Len(d) = p + Len(u) + Len(c) - q
         /\ \A i \in 1 .. p : d[i] = c[i]
         /\ \A i \in 1 .. Len(u) : d[p + i] = u[i]
         /\ \A i \in q + 1 .. Len(c) : d[i + p + Len(u) - q] = c[i]
<1>0. Len(c) \in Nat /\ p \in Nat /\ q \in Nat /\ Len(u) \in Nat /\ \A i \in 1 .. Len(c) : c[i] \in Bytes
  OBVIOUS
<1>1. /\ Before(c, p) \in Seq(Bytes) /\ Len(Before(c, p)) = p
      /\ \A i \in 1 .. p : Before(c, p)[i] = c[i]
  <2>1. \A i \in 1 .. p : c[i] \in Bytes
    BY <1>0
  <2> QED BY <1>0, <2>1, SubSeqProperties DEF Before
<1>2. /\ After(c, q) \in Seq(Bytes) /\ Len(After(c, q)) = Len(c) - q
      /\ \A i \in 1 .. Len(c) - q : After(c, q)[i] = c[q + i]
  <2>1. \A i \in q + 1 .. Len(c) : c[i] \in Bytes
    BY <1>0
  <2> QED BY <1>0, <2>1, SubSeqProperties DEF After
<1> DEFINE b == Before(c, p)
           a == After(c, q)
           e == b \o u
           d == Splice(c, p, u, q)
<1> HIDE DEF b, a, d
<1>3. /\ e \in Seq(Bytes) /\ Len(e) = p + Len(u)
      /\ \A i \in 1 .. p + Len(u) : e[i] = IF i <= p THEN b[i] ELSE u[i - p]
  BY <1>1, ConcatProperties DEF b
<1> HIDE DEF e
<1>4. d = e \o a
  BY DEF d, Splice, e, a, b
<1>5. /\ d \in Seq(Bytes) /\ Len(d) = p + Len(u) + (Len(c) - q)
      /\ \A i \in 1 .. p + Len(u) + (Len(c) - q) :
            d[i] = IF i <= p + Len(u) THEN e[i] ELSE a[i - (p + Len(u))]
  <2>1. a \in Seq(Bytes) /\ Len(a) = Len(c) - q
    BY <1>2 DEF a
  <2>2. /\ d \in Seq(Bytes) /\ Len(d) = Len(e) + Len(a)
        /\ \A i \in 1 .. Len(e) + Len(a) :
              d[i] = IF i <= Len(e) THEN e[i] ELSE a[i - Len(e)]
    <3>1. /\ e \o a \in Seq(Bytes) /\ Len(e \o a) = Len(e) + Len(a)
          /\ \A i \in 1 .. Len(e) + Len(a) :
                (e \o a)[i] = IF i <= Len(e) THEN e[i] ELSE a[i - Len(e)]
      BY <1>3, <2>1, ConcatProperties
    <3> QED BY <1>4, <3>1
  <2> QED BY <1>3, <2>1, <2>2
<1>6. ASSUME NEW i \in 1 .. p PROVE d[i] = c[i]
  <2>1. i \in 1 .. p + Len(u) + (Len(c) - q) /\ i \in 1 .. p + Len(u) /\ i <= p /\ i <= p + Len(u)
    BY <1>0
  <2>2. d[i] = e[i]
    BY <1>5, <2>1
  <2>3. e[i] = b[i]
    BY <1>3, <2>1
  <2>4. b[i] = c[i]
    BY <1>1 DEF b
  <2> QED BY <2>2, <2>3, <2>4
<1>7. ASSUME NEW i \in 1 .. Len(u) PROVE d[p + i] = u[i]
  <2>1. p + i \in 1 .. p + Len(u) /\ ~ (p + i <= p) /\ p + i - p = i
    BY <1>0
  <2>2. e[p + i] = u[i]
    BY <1>3, <2>1
  <2>3. p + i \in 1 .. p + Len(u) + (Len(c) - q) /\ p + i <= p + Len(u)
    BY <1>0
  <2> QED BY <1>5, <2>2, <2>3
<1>8. ASSUME NEW i \in q + 1 .. Len(c) PROVE d[i + p + Len(u) - q] = c[i]
  <2> DEFINE j == i + p + Len(u) - q
  <2>1. /\ j \in 1 .. p + Len(u) + (Len(c) - q) /\ ~ (j <= p + Len(u))
        /\ j - (p + Len(u)) = i - q /\ i - q \in 1 .. Len(c) - q /\ q + (i - q) = i
    BY <1>0
  <2>2. d[j] = a[i - q]
    BY <1>5, <2>1
  <2>3. a[i - q] = c[i]
    BY <1>2, <2>1 DEF a
  <2> QED BY <2>2, <2>3
<1> QED BY <1>0, <1>5, <1>6, <1>7, <1>8 DEF d

LEMMA TakenOut ==
  ASSUME NEW c \in Seq(Bytes), NEW p \in 0 .. Len(c), NEW q \in p .. Len(c)
  PROVE  LET d == Splice(c, p, <<>>, q) IN
         /\ d \in Seq(Bytes) /\ Len(d) = p + Len(c) - q
         /\ \A i \in 1 .. p : d[i] = c[i]
         /\ \A i \in q + 1 .. Len(c) : d[i + p - q] = c[i]
<1> DEFINE d == Splice(c, p, <<>>, q)
<1>1. <<>> \in Seq(Bytes) /\ Len(<<>>) = 0
  OBVIOUS
<1>2. /\ d \in Seq(Bytes) /\ Len(d) = p + Len(<<>>) + Len(c) - q
      /\ \A i \in 1 .. p : d[i] = c[i]
      /\ \A i \in q + 1 .. Len(c) : d[i + p + Len(<<>>) - q] = c[i]
  BY <1>1, Spliced
<1> HIDE DEF d
<1>3. Len(d) = p + Len(c) - q
  BY <1>1, <1>2
<1>4. ASSUME NEW i \in q + 1 .. Len(c) PROVE d[i + p - q] = c[i]
  BY <1>1, <1>2
<1> QED BY <1>2, <1>3, <1>4 DEF d

(* Backspace that stays in the text leaves the cursor between characters,  *)
(* and whole characters where there were whole ones.                       *)
LEMMA EraseText ==
  ASSUME NEW f, Text(f), ~ Walks(f)
  PROVE  /\ Text(Erase(f)) /\ Len(Erase(f).content) <= Len(f.content)
         /\ Whole(f.content) => Whole(Erase(f).content)
<1> DEFINE c == f.content
           p == f.pos
           prev == Back(c, p)
           d == Before(c, prev) \o After(c, p)
<1>1. c \in Seq(Bytes) /\ Len(c) \in Nat /\ p \in 0 .. Len(c) /\ Boundary(c, p)
  BY DEF Text, FieldOK, Boundary
<1>2. CASE p = 0
  <2>1. Erase(f) = f
    BY <1>2 DEF Erase
  <2> QED BY <1>1, <2>1
<1>3. CASE p # 0
  <2>1. Erase(f) = [content |-> d, pos |-> prev]
    BY <1>3 DEF Erase
  <2> HIDE DEF c, p
  <2>2. prev \in 0 .. p - 1 /\ c[prev + 1] \notin Conts
    <3>1. p \in 1 .. Len(c) /\ Back(c, p) # -1
      BY <1>1, <1>3 DEF Walks, c, p
    <3> QED BY <1>1, <3>1, BackStops
  <2>3. d = Splice(c, prev, <<>>, p)
    <3>1. Before(c, prev) \in Seq(Bytes)
      <4>1. \A i \in 1 .. prev : c[i] \in Bytes
        BY <1>1, <2>2
      <4>2. prev \in Int
        BY <1>1, <2>2
      <4> QED BY <4>1, <4>2, SubSeqProperties DEF Before
    <3> QED BY <3>1, ConcatEmptySeq DEF Splice
  <2> HIDE DEF prev, d
  <2>4. prev \in 0 .. Len(c) /\ p \in prev .. Len(c) /\ <<>> \in Seq(Bytes) /\ Len(<<>>) = 0
    BY <1>1, <2>2
  <2>5. /\ d \in Seq(Bytes) /\ Len(d) = prev + 0 + Len(c) - p
        /\ \A i \in 1 .. prev : d[i] = c[i]
        /\ \A i \in p + 1 .. Len(c) : d[i + prev + 0 - p] = c[i]
    <3>1. c \in Seq(Bytes)
      BY <1>1
    <3>2. /\ d \in Seq(Bytes) /\ Len(d) = prev + Len(<<>>) + Len(c) - p
          /\ \A i \in 1 .. prev : d[i] = c[i]
          /\ \A i \in p + 1 .. Len(c) : d[i + prev + Len(<<>>) - p] = c[i]
      BY <3>1, <2>3, <2>4, Spliced
    <3> QED BY <2>4, <3>2
  <2>6. prev \in Nat /\ Len(d) \in Nat /\ prev <= Len(d) /\ Len(d) <= Len(c)
    BY <1>1, <2>2, <2>5
  <2>7. Boundary(d, prev)
    <3>1. ASSUME prev < Len(d) PROVE d[prev + 1] \notin Conts
      <4>1. p + 1 \in p + 1 .. Len(c) /\ p + 1 + prev + 0 - p = prev + 1 /\ p < Len(c)
        BY <1>1, <2>2, <2>5, <3>1
      <4>2. d[prev + 1] = c[p + 1]
        BY <2>5, <4>1
      <4> QED BY <1>1, <4>1, <4>2 DEF Boundary
    <3> QED BY <2>6, <3>1 DEF Boundary
  <2>8. Boundary(c, 0) => Boundary(d, 0)
    <3>1. CASE prev = 0
      BY <2>7, <3>1
    <3>2. CASE prev # 0
      <4>1. d[1] = c[1] /\ 0 < Len(c)
        BY <1>1, <2>2, <2>5, <3>2
      <4> QED BY <1>1, <2>6, <4>1 DEF Boundary
    <3> QED BY <3>1, <3>2
  <2> QED BY <2>1, <2>5, <2>6, <2>7, <2>8 DEF Text, FieldOK, Whole, c
<1> QED BY <1>2, <1>3

(* A number below the modulus is its own remainder: the cursor in 8 bits.  *)
LEMMA SmallMod == ASSUME NEW a \in Nat, NEW m \in Nat, a < m PROVE a % m = a
OBVIOUS

(* Where there is room the cursor comes to stand behind what was typed and *)
(* does not wrap; whole characters in a whole text make a whole text.      *)
LEMMA InsertText ==
  ASSUME NEW f, Text(f), NEW u \in Seq(Bytes), u # <<>>
  PROVE  /\ Insert(f, u).content \in Seq(Bytes)
         /\ Len(Insert(f, u).content) = Len(f.content) + Len(u)
         /\ Len(f.content) + Len(u) < ContentSize => Text(Insert(f, u))
         /\ Whole(f.content) /\ u[1] \notin Conts => Whole(Insert(f, u).content)
<1> DEFINE c == f.content
           p == f.pos
           d == Before(c, p) \o u \o After(c, p)
           q == (p + Len(u)) % PosValues
<1>1. c \in Seq(Bytes) /\ Len(c) \in Nat /\ p \in 0 .. Len(c) /\ Boundary(c, p)
  BY DEF Text, FieldOK, Boundary
<1>2. u \in Seq(Bytes) /\ Len(u) \in Nat \ {0}
  OBVIOUS
<1>3. Insert(f, u) = [content |-> d, pos |-> q]
  BY DEF Insert
<1> HIDE DEF c, p
<1>4. /\ d \in Seq(Bytes) /\ Len(d) = p + Len(u) + Len(c) - p
      /\ \A i \in 1 .. p : d[i] = c[i]
      /\ \A i \in 1 .. Len(u) : d[p + i] = u[i]
      /\ \A i \in p + 1 .. Len(c) : d[i + p + Len(u) - p] = c[i]
  <2>1. p \in 0 .. Len(c) /\ p \in p .. Len(c)
    BY <1>1
  <2>2. c \in Seq(Bytes) /\ u \in Seq(Bytes) /\ d = Splice(c, p, u, p)
    BY <1>1, <1>2 DEF Splice
  <2> HIDE DEF d
  <2> QED BY <2>1, <2>2, Spliced
<1> HIDE DEF d
<1>5. Len(d) = Len(c) + Len(u)
  BY <1>1, <1>2, <1>4
<1>6. ASSUME Len(c) + Len(u) < ContentSize PROVE Text([content |-> d, pos |-> q])
  <2>1. q = p + Len(u) /\ q \in Nat /\ q <= Len(d)
    <3>1. p \in Nat /\ Len(u) \in Nat /\ Len(c) \in Nat /\ p <= Len(c)
      BY <1>1, <1>2
    <3>2. p + Len(u) \in Nat /\ p + Len(u) < PosValues /\ PosValues \in Nat
      BY <1>6, <3>1, SizeAssumption DEF PosValues
    <3>3. q = p + Len(u)
      BY <3>2, SmallMod
    <3> HIDE DEF q
    <3> QED BY <1>5, <3>1, <3>3
  <2> HIDE DEF q
  <2>2. Boundary(d, q)
    <3>1. ASSUME q < Len(d) PROVE d[q + 1] \notin Conts
      <4>1. p + 1 \in p + 1 .. Len(c) /\ p + 1 + p + Len(u) - p = q + 1 /\ p < Len(c)
        BY <1>1, <1>2, <1>5, <2>1, <3>1
      <4>2. d[q + 1] = c[p + 1]
        BY <1>4, <4>1
      <4> QED BY <1>1, <4>1, <4>2 DEF Boundary
    <3> QED BY <2>1, <3>1, <1>5, <1>1, <1>2 DEF Boundary
  <2> QED BY <1>4, <2>1, <2>2 DEF Text, FieldOK
<1>7. ASSUME Whole(c), u[1] \notin Conts PROVE Whole(d)
  <2>1. d[1] \notin Conts
    <3>1. CASE p = 0
      BY <1>1, <1>2, <1>4, <1>7, <3>1
    <3>2. CASE p # 0
      BY <1>1, <1>4, <1>7, <3>2 DEF Whole, Boundary
    <3> QED BY <3>1, <3>2
  <2> QED BY <1>1, <1>2, <1>4, <1>5, <2>1 DEF Whole, Boundary
<1> QED BY <1>3, <1>4, <1>5, <1>6, <1>7 DEF c

(* An arrow leaves the cursor between two characters.                      *)
LEMMA SeekText ==
  ASSUME NEW f, Text(f), NEW seek \in {-1, 1}, seek < 0 => ~ Walks(f)
  PROVE  /\ Text(efield_seek(f, seek))
         /\ efield_seek(f, seek) = [content |-> f.content, pos |-> Sought(f, seek)]
<1> DEFINE c == f.content
           p == f.pos
           q == Sought(f, seek)
<1>1. c \in Seq(Bytes) /\ Len(c) \in Nat /\ p \in 0 .. Len(c) /\ Boundary(c, p)
  BY DEF Text, FieldOK, Boundary
<1>2. efield_seek(f, seek) = [content |-> c, pos |-> q]
  BY DEF efield_seek, Text
<1>3. q \in 0 .. Len(c) /\ Boundary(c, q)
  <2>1. CASE seek < 0
    <3>1. CASE p = 0
      BY <1>1, <2>1, <3>1 DEF Sought
    <3>2. CASE p # 0
      <4>1. q = Back(c, p) /\ p \in 1 .. Len(c) /\ Back(c, p) # -1
        BY <1>1, <2>1, <3>2 DEF Sought, Walks
      <4> HIDE DEF c, p, q
      <4> QED BY <1>1, <4>1, BackStops DEF Boundary
    <3> QED BY <3>1, <3>2
  <2>2. CASE ~ (seek < 0)
    <3>1. CASE p = Len(c)
      BY <1>1, <2>2, <3>1 DEF Sought
    <3>2. CASE p # Len(c)
      <4>1. q = Forward(c, p) /\ p \in 0 .. Len(c) - 1
        BY <1>1, <2>2, <3>2 DEF Sought
      <4> HIDE DEF c, p, q
      <4>2. q \in p + 1 .. Len(c) /\ Boundary(c, q)
        BY <1>1, <4>1, ForwardStops
      <4> QED BY <1>1, <4>1, <4>2
    <3> QED BY <3>1, <3>2
  <2> QED BY <2>1, <2>2
<1> QED BY <1>1, <1>2, <1>3 DEF Text, FieldOK

(* There is one place a step back from a cursor can end: the last one      *)
(* before it where no character continues.                                 *)
LEMMA BackIs ==
  ASSUME NEW c \in Seq(Bytes), NEW p \in 1 .. Len(c), NEW q \in 0 .. p - 1,
         c[q + 1] \notin Conts, \A k \in q + 1 .. p - 1 : c[k + 1] \in Conts
  PROVE  Back(c, p) = q
<1>1. /\ Back(c, p) \in 0 .. p - 1 /\ c[Back(c, p) + 1] \notin Conts
      /\ \A k \in Back(c, p) + 1 .. p - 1 : c[k + 1] \in Conts
  BY BackStays, BackStops
<1>2. p \in Nat /\ q \in Nat
  OBVIOUS
<1>3. ~ (Back(c, p) < q)
  BY <1>1, <1>2
<1>4. ~ (q < Back(c, p))
  BY <1>1, <1>2
<1> QED BY <1>1, <1>2, <1>3, <1>4

(* And one a step forward can.                                             *)
LEMMA ForwardIs ==
  ASSUME NEW c \in Seq(Bytes), NEW p \in 0 .. Len(c) - 1, NEW q \in p + 1 .. Len(c),
         Boundary(c, q), \A k \in p + 1 .. q - 1 : c[k + 1] \in Conts
  PROVE  Forward(c, p) = q
<1>1. /\ Forward(c, p) \in p + 1 .. Len(c) /\ Boundary(c, Forward(c, p))
      /\ \A k \in p + 1 .. Forward(c, p) - 1 : c[k + 1] \in Conts
  BY ForwardStops
<1>2. p \in Nat /\ q \in Nat /\ Len(c) \in Nat
  OBVIOUS
<1>3. ~ (Forward(c, p) < q)
  BY <1>1, <1>2 DEF Boundary
<1>4. ~ (q < Forward(c, p))
  BY <1>1, <1>2 DEF Boundary
<1> QED BY <1>1, <1>2, <1>3, <1>4

(* An arrow back takes the cursor to where it was before an arrow.         *)
LEMMA SeekUndone ==
  ASSUME NEW f, Text(f), NEW seek \in {-1, 1}, Sought(f, seek) \notin {f.pos, -1}
  PROVE  efield_seek(efield_seek(f, seek), -seek) = f
<1> DEFINE c == f.content
           p == f.pos
           q == Sought(f, seek)
           g == efield_seek(f, seek)
<1>1. /\ c \in Seq(Bytes) /\ Len(c) \in Nat /\ p \in 0 .. Len(c) /\ Boundary(c, p)
      /\ f = [content |-> c, pos |-> p] /\ q # p
  BY DEF Text, FieldOK, Boundary
<1>0. seek < 0 => p = 0 \/ Back(c, p) # -1
  BY DEF Sought
<1>2. Text(g) /\ g = [content |-> c, pos |-> q]
  <2>1. seek < 0 => ~ Walks(f)
    BY <1>0 DEF Walks
  <2> QED BY <2>1, SeekText
<1>3. -seek \in {-1, 1}
  OBVIOUS
<1>4. efield_seek(g, -seek) = [content |-> c, pos |-> Sought(g, -seek)]
  <2> HIDE DEF g, c, q
  <2> QED BY <1>2 DEF efield_seek
<1>5. Sought(g, -seek) = p
  <2>1. CASE seek = -1
    <3>0. seek < 0 /\ ~ (-seek < 0)
      BY <2>1
    <3>1. p # 0 /\ p \in 1 .. Len(c) /\ q = Back(c, p)
      <4>1. q = IF p = 0 THEN 0 ELSE Back(c, p)
        BY <3>0 DEF Sought
      <4> HIDE DEF q, p, c
      <4> QED BY <1>1, <4>1
    <3> HIDE DEF c, p
    <3>2. /\ q \in 0 .. p - 1 /\ \A k \in q + 1 .. p - 1 : c[k + 1] \in Conts
      <4>1. q # -1
        OBVIOUS
      <4> HIDE DEF q
      <4> QED BY <1>1, <3>1, <4>1, BackStops
    <3>3. q \in 0 .. Len(c) - 1 /\ q # Len(c) /\ p \in q + 1 .. Len(c)
      BY <1>1, <3>1, <3>2
    <3>4. Sought(g, -seek) = Forward(c, q)
      <4>1. g.content = c /\ g.pos = q
        BY <1>2
      <4> HIDE DEF g, q
      <4> QED BY <3>0, <3>3, <4>1 DEF Sought
    <3> HIDE DEF q
    <3> QED BY <1>1, <3>2, <3>3, <3>4, ForwardIs
  <2>2. CASE seek = 1
    <3>1. p # Len(c) /\ p \in 0 .. Len(c) - 1 /\ q = Forward(c, p) /\ -seek < 0
      BY <1>1, <2>2 DEF Sought
    <3> HIDE DEF c, p
    <3>2. /\ q \in p + 1 .. Len(c) /\ \A k \in p + 1 .. q - 1 : c[k + 1] \in Conts
      <4> HIDE DEF q
      <4> QED BY <1>1, <3>1, ForwardStops
    <3>3. q \in 1 .. Len(c) /\ q # 0 /\ p \in 0 .. q - 1 /\ c[p + 1] \notin Conts
      BY <1>1, <3>1, <3>2 DEF Boundary
    <3>4. Sought(g, -seek) = Back(c, q)
      <4>1. g.content = c /\ g.pos = q
        BY <1>2
      <4> HIDE DEF g, q
      <4> QED BY <3>1, <3>3, <4>1 DEF Sought
    <3> HIDE DEF q
    <3> QED BY <1>1, <3>2, <3>3, <3>4, BackIs
  <2> QED BY <2>1, <2>2
<1> QED BY <1>1, <1>4, <1>5

(* Backspace takes out the character that was typed, and only that.        *)
LEMMA TypingUndone ==
  ASSUME NEW f, Text(f), NEW u \in Seq(Bytes), u # <<>>, u[1] \notin Conts,
         \A k \in 2 .. Len(u) : u[k] \in Conts,
         Len(f.content) + Len(u) < ContentSize
  PROVE  Erase(Insert(f, u)) = f
<1> DEFINE c == f.content
           p == f.pos
           d == Splice(c, p, u, p)
           q == p + Len(u)
           g == Insert(f, u)
           e == Splice(d, p, <<>>, q)
<1>1. /\ c \in Seq(Bytes) /\ Len(c) \in Nat /\ p \in 0 .. Len(c)
      /\ f = [content |-> c, pos |-> p]
  BY DEF Text, FieldOK, Boundary
<1>2. u \in Seq(Bytes) /\ Len(u) \in Nat \ {0} /\ u[1] \notin Conts
  OBVIOUS
<1>3. q \in Nat \ {0} /\ g = [content |-> d, pos |-> q]
  <2>1. g = [content |-> d, pos |-> q % PosValues]
    BY DEF Insert, Splice
  <2>2. q \in Nat \ {0} /\ q % PosValues = q
    <3> HIDE DEF c, p
    <3>1. Len(c) + Len(u) < ContentSize
      BY DEF c
    <3>2. q \in 0 .. ContentSize /\ PosValues \in Nat /\ q < PosValues /\ q # 0
      BY <1>1, <1>2, <3>1, SizeAssumption DEF PosValues
    <3> HIDE DEF q
    <3> QED BY <3>2, SmallMod
  <2> HIDE DEF q
  <2> QED BY <2>1, <2>2
<1> HIDE DEF c, p
<1>5. /\ d \in Seq(Bytes) /\ Len(d) = p + Len(u) + Len(c) - p
      /\ \A i \in 1 .. p : d[i] = c[i]
      /\ \A i \in 1 .. Len(u) : d[p + i] = u[i]
      /\ \A i \in p + 1 .. Len(c) : d[i + p + Len(u) - p] = c[i]
  <2>1. p \in p .. Len(c)
    BY <1>1
  <2>2. c \in Seq(Bytes) /\ u \in Seq(Bytes) /\ p \in 0 .. Len(c)
    BY <1>1, <1>2
  <2> HIDE DEF d
  <2> QED BY <2>1, <2>2, Spliced DEF d
<1> HIDE DEF d
<1>7. Back(d, q) = p
  <2>1. q \in 1 .. Len(d) /\ p \in 0 .. q - 1
    BY <1>1, <1>2, <1>5
  <2>2. d[p + 1] \notin Conts
    BY <1>2, <1>5
  <2>3. ASSUME NEW k \in p + 1 .. q - 1 PROVE d[k + 1] \in Conts
    <3>1. k + 1 - p \in 2 .. Len(u) /\ p + (k + 1 - p) = k + 1 /\ k + 1 - p \in 1 .. Len(u)
      BY <1>1, <1>2
    <3> QED BY <1>5, <3>1
  <2> HIDE DEF q
  <2> QED BY <1>5, <2>1, <2>2, <2>3, BackIs
<1>8. e = c
  <2>1. p \in 0 .. Len(d) /\ q \in p .. Len(d) /\ d \in Seq(Bytes)
    BY <1>1, <1>2, <1>5
  <2>2. /\ e \in Seq(Bytes) /\ Len(e) = p + Len(d) - q
        /\ \A i \in 1 .. p : e[i] = d[i]
        /\ \A i \in q + 1 .. Len(d) : e[i + p - q] = d[i]
    <3> HIDE DEF q, g
    <3> QED BY <2>1, TakenOut
  <2> HIDE DEF e
  <2>3. Len(e) = Len(c)
    BY <1>1, <1>2, <1>5, <2>1, <2>2
  <2>4. ASSUME NEW i \in 1 .. Len(e) PROVE e[i] = c[i]
    <3>1. CASE i <= p
      BY <1>1, <1>5, <2>2, <3>1
    <3>2. CASE i > p
      <4>1. /\ i + Len(u) \in q + 1 .. Len(d) /\ i + Len(u) + p - q = i
            /\ i \in p + 1 .. Len(c) /\ i + p + Len(u) - p = i + Len(u)
        <5>1. /\ i \in Nat /\ i <= Len(c) /\ i > p /\ p \in Nat
              /\ Len(u) \in Nat /\ Len(c) \in Nat /\ Len(d) = p + Len(u) + Len(c) - p
          BY <1>1, <1>2, <1>5, <2>3, <3>2
        <5> HIDE DEF e
        <5> QED BY <5>1
      <4>2. e[i] = d[i + Len(u)]
        BY <2>2, <4>1
      <4>3. d[i + Len(u)] = c[i]
        BY <1>5, <4>1
      <4> QED BY <4>2, <4>3
    <3> QED BY <1>1, <2>3, <3>1, <3>2
  <2> QED BY <1>1, <2>2, <2>3, <2>4, SeqEqual
<1>9. Erase(g) = [content |-> e, pos |-> p]
  <2>1. Before(d, p) \in Seq(Bytes)
    <3>1. \A i \in 1 .. p : d[i] \in Bytes
      BY <1>1, <1>2, <1>5
    <3> QED BY <1>1, <3>1, SubSeqProperties DEF Before
  <2>2. Before(d, p) \o <<>> = Before(d, p)
    BY <2>1, ConcatEmptySeq
  <2>3. e = Before(d, p) \o After(d, q)
    BY <2>2 DEF Splice
  <2>4. g.content = d /\ g.pos = q /\ q # 0
    BY <1>3
  <2> HIDE DEF g, e, q
  <2> QED BY <1>7, <2>3, <2>4 DEF Erase
<1> QED BY <1>1, <1>8, <1>9
=============================================================================
