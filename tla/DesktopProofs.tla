--------------------------- MODULE DesktopProofs ---------------------------
(***************************************************************************)
(* Whatever the files hold and whatever is left in the buffer behind the   *)
(* last line, read_desktop() hands on each line once: the proofs of the    *)
(* invariants of DesktopFiles.                                             *)
(***************************************************************************)
EXTENDS DesktopFiles, Integers, FiniteSetTheorems, SequenceTheorems,
        NaturalsInduction, WellFoundedInduction, TLAPS

(* The least and the greatest number of a set, once they are known.        *)
LEMMA MinIs ==
  ASSUME NEW S \in SUBSET Int, NEW x \in S, \A y \in S : x <= y
  PROVE  Min(S) = x
<1>1. ASSUME NEW z \in S, \A y \in S : z <= y PROVE z = x
  BY <1>1
<1>2. Min(S) \in S /\ \A y \in S : Min(S) <= y
  BY DEF Min
<1> QED BY <1>1, <1>2

LEMMA MaxIs ==
  ASSUME NEW S \in SUBSET Int, NEW x \in S, \A y \in S : y <= x
  PROVE  Max(S) = x
<1>1. ASSUME NEW z \in S, \A y \in S : z >= y PROVE z = x
  BY <1>1
<1>2. \A y \in S : x >= y
  OBVIOUS
<1>3. Max(S) \in S /\ \A y \in S : Max(S) >= y
  BY <1>2 DEF Max
<1> QED BY <1>1, <1>3

(* The table a line stands under: one more line changes it if it is a      *)
(* table's.                                                                *)
LEMMA TableNext ==
  ASSUME NEW ls \in Seq(LineSet), NEW k \in 0 .. Len(ls) - 1
  PROVE  TableAt(ls, k + 1) = IF ls[k + 1].is = "table" THEN ls[k + 1].name
                              ELSE TableAt(ls, k)
<1> DEFINE ts == {t \in 1 .. k : ls[t].is = "table"}
           us == {t \in 1 .. k + 1 : ls[t].is = "table"}
<1>1. TableAt(ls, k) = (IF ts = {} THEN None ELSE ls[Max(ts)].name)
      /\ TableAt(ls, k + 1) = (IF us = {} THEN None ELSE ls[Max(us)].name)
  BY DEF TableAt
<1>2. k \in Nat
  OBVIOUS
<1>3. CASE ls[k + 1].is = "table"
  <2>1. us \in SUBSET Int /\ k + 1 \in us /\ \A y \in us : y <= k + 1
    BY <1>2, <1>3
  <2> HIDE DEF us
  <2>2. Max(us) = k + 1
    BY <2>1, MaxIs
  <2> QED BY <1>1, <1>3, <2>1, <2>2
<1>4. CASE ls[k + 1].is # "table"
  <2>1. us = ts
    BY <1>2, <1>4
  <2> HIDE DEF us, ts
  <2> QED BY <1>1, <1>4, <2>1
<1> QED BY <1>3, <1>4

LEMMA TableStart == ASSUME NEW ls PROVE TableAt(ls, 0) = None
BY DEF TableAt

(* The lines that say something of a key: the next one is one of them if   *)
(* it is an entry with that key under that table.                          *)
LEMMA SayingNext ==
  ASSUME NEW ls \in Seq(LineSet), NEW k \in 0 .. Len(ls) - 1, NEW t, NEW key
  PROVE  Saying(ls, k + 1, t, key) =
           IF ls[k + 1].is = "entry" /\ ls[k + 1].key = key /\ TableAt(ls, k) = t
           THEN Saying(ls, k, t, key) \cup {k + 1} ELSE Saying(ls, k, t, key)
<1>1. ls[k + 1].is = "entry" => TableAt(ls, k + 1) = TableAt(ls, k)
  BY TableNext
<1>2. k \in Nat
  OBVIOUS
<1>3. 1 .. k + 1 = (1 .. k) \cup {k + 1}
  BY <1>2
<1> QED BY <1>1, <1>3 DEF Saying

LEMMA SayingStart == ASSUME NEW ls, NEW t, NEW key PROVE Saying(ls, 0, t, key) = {}
BY DEF Saying

LEMMA SayingIn ==
  ASSUME NEW ls \in Seq(LineSet), NEW k \in 0 .. Len(ls), NEW t, NEW key
  PROVE  /\ Saying(ls, k, t, key) \in SUBSET (1 .. k)
         /\ \A j \in Saying(ls, k, t, key) : ls[j].value # None
<1>1. \A j \in 1 .. k : ls[j] \in LineSet
  OBVIOUS
<1> QED BY <1>1, LinesAssumption DEF Saying

(* What was made of the lines so far: the first value, the latest, all.    *)
FirstOf(ls, js, v) == \/ js = {} /\ v = None
                      \/ \E j \in js : (\A m \in js : j <= m) /\ v = ls[j].value
LatestOf(ls, js, vs) == \/ js = {} /\ vs = <<>>
                        \/ \E j \in js : (\A m \in js : m <= j) /\ vs = <<ls[j].value>>

LEMMA FirstIs == ASSUME NEW ls, NEW js \in SUBSET Int, NEW v, FirstOf(ls, js, v)
                 PROVE  v = First(ls, js)
<1>1. CASE js = {}
  BY <1>1 DEF First, FirstOf
<1>2. CASE js # {}
  <2>1. PICK j \in js : (\A m \in js : j <= m) /\ v = ls[j].value
    BY <1>2 DEF FirstOf
  <2>2. Min(js) = j
    BY <2>1, MinIs
  <2> QED BY <1>2, <2>1, <2>2 DEF First
<1> QED BY <1>1, <1>2

LEMMA LatestIs == ASSUME NEW ls, NEW js \in SUBSET Int, NEW vs, LatestOf(ls, js, vs)
                  PROVE  vs = Latest(ls, js)
<1>1. CASE js = {}
  BY <1>1 DEF Latest, LatestOf
<1>2. CASE js # {}
  <2>1. PICK j \in js : (\A m \in js : m <= j) /\ vs = <<ls[j].value>>
    BY <1>2 DEF LatestOf
  <2>2. Max(js) = j
    BY <2>1, MaxIs
  <2> QED BY <1>2, <2>1, <2>2 DEF Latest
<1> QED BY <1>1, <1>2

(* One more line that says something, behind all the others.               *)
LEMMA FirstGrows ==
  ASSUME NEW ls, NEW k \in Nat, NEW js \in SUBSET (1 .. k), NEW v, FirstOf(ls, js, v),
         \A j \in js : ls[j].value # None
  PROVE  FirstOf(ls, js \cup {k + 1}, IF v = None THEN ls[k + 1].value ELSE v)
<1>1. CASE v = None
  BY <1>1 DEF FirstOf
<1>2. CASE v # None
  <2>1. PICK j \in js : (\A m \in js : j <= m) /\ v = ls[j].value
    BY <1>2 DEF FirstOf
  <2>2. j <= k + 1 /\ j \in js \cup {k + 1}
    OBVIOUS
  <2>3. \A m \in js \cup {k + 1} : j <= m
    BY <2>1, <2>2
  <2> QED BY <1>2, <2>1, <2>2, <2>3 DEF FirstOf
<1> QED BY <1>1, <1>2

LEMMA LatestGrows ==
  ASSUME NEW ls, NEW k \in Nat, NEW js \in SUBSET (1 .. k)
  PROVE  LatestOf(ls, js \cup {k + 1}, <<ls[k + 1].value>>)
<1>1. \A m \in js \cup {k + 1} : m <= k + 1
  OBVIOUS
<1> QED BY <1>1 DEF LatestOf

LEMMA InOrderGrows ==
  ASSUME NEW ls, NEW k \in Nat, NEW js \in SUBSET (1 .. k), NEW V, NEW vs \in Seq(V),
         InOrder(ls, js, vs), ls[k + 1].value \in V
  PROVE  InOrder(ls, js \cup {k + 1}, Append(vs, ls[k + 1].value))
<1> DEFINE n == k + 1
           ks == js \cup {n}
           ws == Append(vs, ls[n].value)
           upto(S, j) == {m \in S : m <= j}
<1>1. IsFiniteSet(js) /\ n \notin js
  <2>1. IsFiniteSet(1 .. k)
    <3>1. 1 \in Int /\ k \in Int
      OBVIOUS
    <3> QED BY <3>1, FS_Interval
  <2>2. \A m \in js : m <= k /\ m \in Nat
    OBVIOUS
  <2>3. n \notin js
    <3>1. n \notin 1 .. k
      OBVIOUS
    <3> HIDE DEF n
    <3> QED BY <3>1
  <2> QED BY <2>1, <2>3, FS_Subset
<1>2. Cardinality(ks) = Cardinality(js) + 1 /\ Cardinality(js) \in Nat /\ Len(vs) = Cardinality(js)
  BY <1>1, FS_AddElement, FS_CardinalityType DEF InOrder
<1>3. /\ Len(ws) = Len(vs) + 1 /\ ws[Len(vs) + 1] = ls[n].value
      /\ \A x \in 1 .. Len(vs) : ws[x] = vs[x]
  BY AppendProperties
<1>4. ASSUME NEW j \in ks PROVE ws[Cardinality(upto(ks, j))] = ls[j].value
  <2>1. CASE j = n
    <3>1. upto(ks, n) = ks
      <4>1. \A m \in ks : m <= n
        OBVIOUS
      <4> HIDE DEF ks
      <4> QED BY <4>1
    <3> HIDE DEF upto, ks, ws
    <3> QED BY <1>2, <1>3, <2>1, <3>1
  <2>2. CASE j # n
    <3>1. j \in js /\ upto(ks, j) = upto(js, j) /\ j \in upto(js, j) /\ upto(js, j) \subseteq js
      BY <2>2
    <3>2. vs[Cardinality(upto(js, j))] = ls[j].value
      BY <3>1 DEF InOrder
    <3> HIDE DEF upto, ks, ws
    <3>3. Cardinality(upto(js, j)) \in 1 .. Len(vs)
      <4>1. IsFiniteSet(upto(js, j)) /\ Cardinality(upto(js, j)) <= Cardinality(js)
        BY <1>1, <3>1, FS_Subset
      <4>2. Cardinality(upto(js, j)) \in Nat /\ Cardinality(upto(js, j)) # 0
        BY <3>1, <4>1, FS_CardinalityType, FS_EmptySet
      <4> QED BY <1>2, <4>1, <4>2
    <3> QED BY <1>3, <3>1, <3>2, <3>3
  <2> QED BY <2>1, <2>2
<1> QED BY <1>2, <1>3, <1>4 DEF InOrder

(* The inductive invariant.  Under way in a file, the table at hand is the *)
(* one the next line stands under; behind its last line the buffer has     *)
(* nothing of interest, or no table was met yet; and what was made of the  *)
(* lines is what they say.                                                 *)
Stale(l) == l.is = "entry" => l.key \notin Keys /\ \A o \in Options : o[2] # l.key
Stands == IF at < Len(Lines) THEN table = TableAt(Lines, at)
          ELSE table = None \/ Stale(buf)
OptionRead(ls, n, o, v) ==
  LET js == Parsed(ls, Saying(ls, n, o[1], o[2]))
  IN  IF o \in Arrays THEN InOrder(ls, js, v) ELSE LatestOf(ls, js, v)
KeyRead(ls, n, k, v) == FirstOf(ls, Saying(ls, n, "Desktop Entry", k), v)
Reads == IF IsConfig THEN startup.nomem \/ \A o \in Options : OptionRead(Lines, at, o, config[o])
         ELSE \A k \in Keys : KeyRead(Lines, at, k, ctx[k])

Types == /\ startup \in Startups
         /\ i \in 1 .. Len(Files) + 1
         /\ pc \in {"open", "read", "close", "exit"}
         /\ pc \in {"read", "close"} => i <= Len(Files) /\ at \in 0 .. Len(Lines)
         /\ buf \in LineSet
         /\ ret \in BOOLEAN
         /\ ctx \in [Keys -> Values \cup {None}]
         /\ config \in [Options -> Seq(Values)]
         /\ sessions \in Seq([name : Values, exec : Values])
Blank == /\ i = 1 => ctx = [k \in Keys |-> None]
         /\ i = 1 /\ pc = "open" => config = [o \in Options |-> <<>>]

Ended == pc = "close" /\ ~ startup.nomem =>
  (ret /\ Line.is = "junk") \/ (~ ret /\ ~ IsConfig /\ \A k \in Keys : ctx[k] # None)

DInd == /\ Types /\ Blank /\ Ended
        /\ pc = "read" => Stands
        /\ pc \in {"read", "close"} => Reads

(* The line at hand is the next one of the file, or stale.                 *)
LEMMA LineIs ==
  ASSUME DInd, pc = "read"
  PROVE  /\ startup \in Startups /\ i \in 1 .. Len(Files) /\ Lines \in Seq(LineSet)
         /\ at \in 0 .. Len(Lines) /\ Line \in LineSet
         /\ at < Len(Lines) => /\ Line = Lines[at + 1] /\ table = TableAt(Lines, at)
                               /\ Line.is = "entry" => Line.value \in Values
         /\ at = Len(Lines) => Line = buf /\ (table = None \/ Stale(Line))
<1>1. /\ startup \in Startups /\ i \in 1 .. Len(Files) /\ at \in 0 .. Len(Lines)
      /\ buf \in LineSet /\ Files \in Seq(Seq(LineSet))
  <2>1. startup \in [files : Seq(Seq(LineSet)), nomem : BOOLEAN]
    BY LinesAssumption DEF DInd, Types
  <2> QED BY <2>1 DEF DInd, Types, Files
<1>2. Lines \in Seq(LineSet)
  BY <1>1 DEF Lines
<1>3. CASE at < Len(Lines)
  <2>1. Line = Lines[at + 1] /\ at + 1 \in 1 .. Len(Lines) /\ table = TableAt(Lines, at)
    BY <1>1, <1>2, <1>3 DEF Line, DInd, Stands
  <2>2. Line \in Range(Lines) /\ Lines \in Range(Files)
    <3>1. Range(Lines) = {Lines[j] : j \in 1 .. Len(Lines)}
      BY <1>2, RangeEquality
    <3>2. Range(Files) = {Files[j] : j \in 1 .. Len(Files)}
      BY <1>1, RangeEquality
    <3> QED BY <1>1, <2>1, <3>1, <3>2 DEF Lines
  <2>3. Line.is = "entry" => Line.value \in Values
    BY <2>2 DEF Values
  <2>4. Line \in LineSet
    BY <1>2, <2>1
  <2> QED BY <1>1, <1>2, <1>3, <2>1, <2>3, <2>4
<1>4. CASE at = Len(Lines)
  <2>1. Line = buf
    BY <1>1, <1>2, <1>4 DEF Line
  <2> QED BY <1>1, <1>2, <1>4, <2>1 DEF DInd, Stands
<1> QED BY <1>1, <1>2, <1>3, <1>4

(* After a line is handled, the buffer is stale or the table is known.     *)
LEMMA LeftStale == ASSUME NEW l \in LineSet PROVE Left(l) \in LineSet /\ Stale(Left(l))
<1>1. l.is \in {"table", "entry"} => Left(l) \in Leftovers
  BY LinesAssumption DEF Left
<1>2. l.is \notin {"table", "entry"} => Left(l) = l
  BY DEF Left
<1> QED BY <1>1, <1>2, LinesAssumption DEF Stale

(* One more line: it says nothing of a key or an option, or it is taken.   *)
Says(l, t, tab, key) == l.is = "entry" /\ l.key = key /\ tab = t

LEMMA KeyNext ==
  ASSUME NEW ls \in Seq(LineSet), NEW n \in 0 .. Len(ls) - 1, NEW k, NEW v,
         KeyRead(ls, n, k, v)
  PROVE  KeyRead(ls, n + 1, k,
                 IF Says(ls[n + 1], "Desktop Entry", TableAt(ls, n), k) /\ v = None
                 THEN ls[n + 1].value ELSE v)
<1> DEFINE js == Saying(ls, n, "Desktop Entry", k)
           ks == Saying(ls, n + 1, "Desktop Entry", k)
<1>1. n \in Nat /\ n \in 0 .. Len(ls)
  OBVIOUS
<1>2. js \in SUBSET (1 .. n) /\ \A j \in js : ls[j].value # None
  BY <1>1, SayingIn
<1>3. CASE Says(ls[n + 1], "Desktop Entry", TableAt(ls, n), k)
  <2>1. ks = js \cup {n + 1}
    BY <1>3, SayingNext DEF Says
  <2> HIDE DEF js, ks
  <2>2. FirstOf(ls, js \cup {n + 1}, IF v = None THEN ls[n + 1].value ELSE v)
    <3>1. FirstOf(ls, js, v)
      BY DEF KeyRead, js
    <3> QED BY <1>1, <1>2, <3>1, FirstGrows
  <2> QED BY <1>3, <2>1, <2>2 DEF KeyRead, ks
<1>4. CASE ~ Says(ls[n + 1], "Desktop Entry", TableAt(ls, n), k)
  <2>1. ks = js
    BY <1>4, SayingNext DEF Says
  <2> QED BY <1>4, <2>1 DEF KeyRead
<1> QED BY <1>3, <1>4

LEMMA OptionNext ==
  ASSUME NEW ls \in Seq(LineSet), NEW n \in 0 .. Len(ls) - 1, NEW o,
         NEW V, NEW v \in Seq(V), OptionRead(ls, n, o, v)
  PROVE  IF Says(ls[n + 1], o[1], TableAt(ls, n), o[2]) /\ ls[n + 1].value \notin Unparsable
         THEN ls[n + 1].value \in V =>
                OptionRead(ls, n + 1, o, IF o \in Arrays THEN Append(v, ls[n + 1].value)
                                         ELSE <<ls[n + 1].value>>)
         ELSE OptionRead(ls, n + 1, o, v)
<1> DEFINE js == Parsed(ls, Saying(ls, n, o[1], o[2]))
           ks == Parsed(ls, Saying(ls, n + 1, o[1], o[2]))
<1>1. n \in Nat /\ n \in 0 .. Len(ls)
  OBVIOUS
<1>2. js \in SUBSET (1 .. n)
  BY <1>1, SayingIn DEF Parsed
<1>3. CASE Says(ls[n + 1], o[1], TableAt(ls, n), o[2]) /\ ls[n + 1].value \notin Unparsable
  <2> SUFFICES ASSUME ls[n + 1].value \in V
               PROVE  OptionRead(ls, n + 1, o, IF o \in Arrays THEN Append(v, ls[n + 1].value)
                                               ELSE <<ls[n + 1].value>>)
    BY <1>3
  <2>1. ks = js \cup {n + 1}
    <3>1. Saying(ls, n + 1, o[1], o[2]) = Saying(ls, n, o[1], o[2]) \cup {n + 1}
      BY <1>3, SayingNext DEF Says
    <3> QED BY <1>3, <3>1 DEF Parsed
  <2>2. IF o \in Arrays THEN InOrder(ls, js, v) ELSE LatestOf(ls, js, v)
    BY DEF OptionRead
  <2> HIDE DEF js, ks
  <2>3. CASE o \in Arrays
    <3>1. InOrder(ls, js \cup {n + 1}, Append(v, ls[n + 1].value))
      BY <1>1, <1>2, <2>2, <2>3, InOrderGrows
    <3> QED BY <2>1, <2>3, <3>1 DEF OptionRead, ks
  <2>4. CASE o \notin Arrays
    <3>1. LatestOf(ls, js \cup {n + 1}, <<ls[n + 1].value>>)
      BY <1>1, <1>2, LatestGrows
    <3> QED BY <2>1, <2>4, <3>1 DEF OptionRead, ks
  <2> QED BY <2>3, <2>4
<1>4. CASE ~ (Says(ls[n + 1], o[1], TableAt(ls, n), o[2]) /\ ls[n + 1].value \notin Unparsable)
  <2>1. ks = js
    <3>1. \/ Saying(ls, n + 1, o[1], o[2]) = Saying(ls, n, o[1], o[2])
          \/ /\ ls[n + 1].value \in Unparsable
             /\ Saying(ls, n + 1, o[1], o[2]) = Saying(ls, n, o[1], o[2]) \cup {n + 1}
      BY <1>4, SayingNext DEF Says
    <3> QED BY <3>1 DEF Parsed
  <2> QED BY <1>4, <2>1 DEF OptionRead
<1> QED BY <1>3, <1>4

(* What stays the same within a file.                                      *)
LEMMA FilesSame ==
  ASSUME UNCHANGED startup
  PROVE  Files' = Files /\ Values' = Values /\ (UNCHANGED i => Lines' = Lines /\ IsConfig' = IsConfig)
BY DEF Files, Values, Lines, IsConfig

(* A line that is no entry changes neither what the options nor what the   *)
(* keys are read as.                                                       *)
LEMMA ReadsOn ==
  ASSUME DInd, pc = "read", Line.is # "entry", UNCHANGED <<startup, i, ctx, config>>, Handled
  PROVE  Reads'
<1>1. Reads /\ Types
  BY DEF DInd
<1>2. /\ Lines \in Seq(LineSet) /\ at \in 0 .. Len(Lines)
      /\ at < Len(Lines) => Line = Lines[at + 1]
  BY LineIs
<1>3. Lines' = Lines /\ IsConfig' = IsConfig /\ at' = IF at < Len(Lines) THEN at + 1 ELSE at
  BY FilesSame DEF Handled
<1>4. CASE ~ (at < Len(Lines))
  BY <1>1, <1>3, <1>4 DEF Reads
<1>5. CASE at < Len(Lines)
  <2>1. at \in 0 .. Len(Lines) - 1 /\ Lines[at + 1].is # "entry" /\ at' = at + 1
    BY <1>2, <1>3, <1>5
  <2>2. ASSUME NEW k \in Keys, KeyRead(Lines, at, k, ctx[k])
        PROVE  KeyRead(Lines, at + 1, k, ctx[k])
    <3> HIDE DEF Lines
    <3> QED BY <1>2, <2>1, <2>2, KeyNext DEF Says
  <2>3. ASSUME NEW o \in Options, OptionRead(Lines, at, o, config[o])
        PROVE  OptionRead(Lines, at + 1, o, config[o])
    <3>1. config[o] \in Seq(Values)
      BY <1>1 DEF Types
    <3> HIDE DEF Lines
    <3> QED BY <1>2, <2>1, <2>3, <3>1, OptionNext DEF Says
  <2> QED BY <1>1, <1>3, <2>1, <2>2, <2>3 DEF Reads
<1> QED BY <1>4, <1>5

(* Behind a line the table is the one of the next, or the buffer is stale. *)
LEMMA StandsOn ==
  ASSUME DInd, pc = "read", UNCHANGED <<startup, i>>, Handled, buf' = Left(Line),
         table' = IF Line.is = "table" THEN Line.name ELSE table
  PROVE  Stands' /\ buf' \in LineSet /\ at' \in 0 .. Len(Lines')
<1>1. /\ Lines \in Seq(LineSet) /\ at \in 0 .. Len(Lines) /\ Line \in LineSet
      /\ at < Len(Lines) => Line = Lines[at + 1] /\ table = TableAt(Lines, at)
  BY LineIs
<1>2. Lines' = Lines /\ at' = IF at < Len(Lines) THEN at + 1 ELSE at
  BY FilesSame DEF Handled
<1>3. buf' \in LineSet /\ Stale(buf') /\ Len(Lines) \in Nat
  BY <1>1, LeftStale
<1>4. at' \in 0 .. Len(Lines)
  BY <1>1, <1>2, <1>3
<1>5. at' < Len(Lines) => table' = TableAt(Lines, at')
  <2> SUFFICES ASSUME at' < Len(Lines) PROVE table' = TableAt(Lines, at')
    OBVIOUS
  <2>1. at < Len(Lines) /\ at' = at + 1 /\ at \in 0 .. Len(Lines) - 1
    BY <1>1, <1>2, <1>3
  <2>2. TableAt(Lines, at + 1) = IF Lines[at + 1].is = "table" THEN Lines[at + 1].name
                                 ELSE TableAt(Lines, at)
    <3> HIDE DEF Lines
    <3> QED BY <1>1, <2>1, TableNext
  <2> QED BY <1>1, <2>1, <2>2
<1> QED BY <1>2, <1>3, <1>4, <1>5 DEF Stands, Stale

LEMMA SkipInd == ASSUME DInd, SkipLine PROVE DInd'
<1>1. /\ pc = "read" /\ pc' = "read" /\ Line.is = "skip" /\ buf' = Line /\ ret' = FALSE
      /\ Handled /\ UNCHANGED <<startup, i, table, ctx, config, sessions>>
  BY DEF SkipLine
<1>2. Left(Line) = Line
  BY <1>1 DEF Left
<1>3. Stands' /\ buf' \in LineSet /\ at' \in 0 .. Len(Lines')
  BY <1>1, <1>2, StandsOn
<1>4. Reads'
  BY <1>1, ReadsOn
<1>5. Types' /\ Blank'
  <2>1. Files' = Files /\ Values' = Values
    BY <1>1, FilesSame
  <2> QED BY <1>1, <1>3, <2>1 DEF DInd, Types, Blank
<1>6. Ended'
  BY <1>1 DEF Ended
<1> QED BY <1>1, <1>3, <1>4, <1>5, <1>6 DEF DInd

LEMMA TableInd == ASSUME DInd, TableLine PROVE DInd'
<1>1. /\ pc = "read" /\ pc' = "read" /\ Line.is = "table" /\ buf' = Left(Line)
      /\ ret' = FALSE /\ table' = Line.name
      /\ Handled /\ UNCHANGED <<startup, i, ctx, config, sessions>>
  BY DEF TableLine
<1>2. Stands' /\ buf' \in LineSet /\ at' \in 0 .. Len(Lines')
  BY <1>1, StandsOn
<1>3. Reads'
  BY <1>1, ReadsOn
<1>4. Types' /\ Blank'
  <2>1. Files' = Files /\ Values' = Values
    BY <1>1, FilesSame
  <2> QED BY <1>1, <1>2, <2>1 DEF DInd, Types, Blank
<1>5. Ended'
  BY <1>1 DEF Ended
<1> QED BY <1>1, <1>2, <1>3, <1>4, <1>5 DEF DInd

LEMMA JunkInd == ASSUME DInd, JunkLine PROVE DInd'
<1>1. /\ pc = "read" /\ pc' = "close" /\ Line.is = "junk" /\ buf' = Line /\ ret' = TRUE
      /\ UNCHANGED <<startup, i, at, table, ctx, config, sessions>>
  BY DEF JunkLine
<1>2. /\ Lines \in Seq(LineSet) /\ at \in 0 .. Len(Lines) /\ Line \in LineSet
      /\ i \in 1 .. Len(Files)
  BY <1>1, LineIs
<1>3. Files' = Files /\ Values' = Values /\ Lines' = Lines /\ IsConfig' = IsConfig
  BY <1>1, FilesSame
<1>4. Line' = Line
  BY <1>1, <1>2, <1>3 DEF Line
<1>5. Types' /\ Blank'
  BY <1>1, <1>2, <1>3 DEF DInd, Types, Blank
<1>6. Ended'
  BY <1>1, <1>4 DEF Ended
<1>7. Reads'
  BY <1>1, <1>3 DEF DInd, Reads
<1> QED BY <1>1, <1>5, <1>6, <1>7 DEF DInd

LEMMA NoMemoryInd == ASSUME DInd, OutOfMemory PROVE DInd'
<1>1. /\ pc = "read" /\ pc' = "close" /\ startup.nomem /\ buf' = Left(Line) /\ ret' = TRUE
      /\ UNCHANGED <<startup, i, at, ctx, config, sessions>>
  BY DEF OutOfMemory
<1>2. /\ Lines \in Seq(LineSet) /\ at \in 0 .. Len(Lines) /\ Line \in LineSet
      /\ i \in 1 .. Len(Files)
  BY <1>1, LineIs
<1>3. Files' = Files /\ Values' = Values /\ Lines' = Lines /\ IsConfig' = IsConfig
  BY <1>1, FilesSame
<1>4. Types' /\ Blank'
  BY <1>1, <1>2, <1>3, LeftStale DEF DInd, Types, Blank
<1>5. Ended'
  BY <1>1 DEF Ended
<1>6. Reads'
  BY <1>1, <1>3 DEF DInd, Reads
<1> QED BY <1>1, <1>4, <1>5, <1>6 DEF DInd

(* Before a file is opened and after it is closed.                         *)
LEMMA OpenInd == ASSUME DInd, Open PROVE DInd'
<1>1. /\ pc = "open" /\ i <= Len(Files) /\ at' = 0 /\ ret' = TRUE /\ table' = None
      /\ ctx' = [k \in Keys |-> None] /\ UNCHANGED <<startup, config, sessions>>
      /\ \/ pc' = "read" /\ buf' \in Garbage /\ UNCHANGED i
         \/ i' = i + 1 /\ UNCHANGED <<pc, buf>>
  BY DEF Open
<1>2. Files' = Files /\ Values' = Values /\ (UNCHANGED i => Lines' = Lines)
  BY <1>1, FilesSame
<1>3. /\ i \in 1 .. Len(Files) /\ Files \in Seq(Seq(LineSet)) /\ Len(Files) \in Nat
  <2>1. startup \in [files : Seq(Seq(LineSet)), nomem : BOOLEAN]
    BY LinesAssumption DEF DInd, Types
  <2>2. Files \in Seq(Seq(LineSet)) /\ Len(Files) \in Nat
    BY <2>1 DEF Files
  <2> QED BY <1>1, <2>2 DEF DInd, Types
<1>4. CASE pc' = "read" /\ buf' \in Garbage /\ UNCHANGED i
  <2>1. Lines \in Seq(LineSet) /\ Len(Lines) \in Nat
    BY <1>3 DEF Lines
  <2>2. Types' /\ Blank'
    BY <1>1, <1>2, <1>3, <1>4, <2>1, LinesAssumption DEF DInd, Types, Blank
  <2>3. Stands'
    BY <1>1, TableStart DEF Stands
  <2>4. Reads'
    <3>1. ASSUME i = 1, NEW o \in Options PROVE OptionRead(Lines, 0, o, config[o])
      <4>1. config[o] = <<>> /\ Saying(Lines, 0, o[1], o[2]) = {}
        BY <1>1, <3>1, SayingStart DEF DInd, Blank
      <4>2. Parsed(Lines, {}) = {}
        BY DEF Parsed
      <4>3. InOrder(Lines, {}, <<>>)
        BY FS_EmptySet DEF InOrder
      <4>4. LatestOf(Lines, {}, <<>>)
        BY DEF LatestOf
      <4> QED BY <4>1, <4>2, <4>3, <4>4 DEF OptionRead
    <3>2. ASSUME NEW k PROVE KeyRead(Lines, 0, k, None)
      BY SayingStart DEF KeyRead, FirstOf
    <3> QED BY <1>1, <1>2, <1>4, <3>1, <3>2 DEF Reads, IsConfig
  <2>5. Ended'
    BY <1>4 DEF Ended
  <2> QED BY <2>2, <2>3, <2>4, <2>5 DEF DInd
<1>5. CASE i' = i + 1 /\ UNCHANGED <<pc, buf>>
  <2>1. Types' /\ Blank'
    BY <1>1, <1>2, <1>3, <1>5 DEF DInd, Types, Blank
  <2> QED BY <1>1, <1>5, <2>1 DEF DInd, Ended
<1> QED BY <1>1, <1>4, <1>5

LEMMA CloseInd == ASSUME DInd, CloseSession \/ CloseConfig PROVE DInd'
<1>1. /\ pc = "close" /\ i' = i + 1 /\ pc' \in {"open", "exit"}
      /\ UNCHANGED <<startup, at, buf, table, ret, ctx, config>>
  BY DEF CloseSession, CloseConfig
<1>2. Files' = Files /\ Values' = Values
  BY <1>1, FilesSame
<1>3. sessions' \in Seq([name : Values, exec : Values])
  <2>1. CASE sessions' = Append(sessions, [name |-> ctx["Name"], exec |-> ctx["Exec"]])
             /\ Listed
    <3>1. ctx["Name"] \in Values /\ ctx["Exec"] \in Values
      BY <2>1 DEF DInd, Types, Listed, Keys
    <3> QED BY <2>1, <3>1 DEF DInd, Types
  <2>2. CASE UNCHANGED sessions
    BY <2>2 DEF DInd, Types
  <2> QED BY <2>1, <2>2 DEF CloseSession, CloseConfig
<1>4. Types' /\ Blank'
  <2>1. i \in 1 .. Len(Files) /\ Len(Files) \in Nat
    <3>1. startup \in [files : Seq(Seq(LineSet)), nomem : BOOLEAN]
      BY LinesAssumption DEF DInd, Types
    <3> QED BY <1>1, <3>1 DEF Files, DInd, Types
  <2> QED BY <1>1, <1>2, <1>3, <2>1 DEF DInd, Types, Blank
<1> QED BY <1>1, <1>4 DEF DInd, Ended

(* A key=value line: of a session, a key is copied; of the configuration,  *)
(* an option is set, unless there is no memory.                            *)
LEMMA EntryReads == ASSUME DInd, EntryLine PROVE Reads'
<1> DEFINE l == Line
<1>1. /\ pc = "read" /\ l.is = "entry" /\ Handled /\ UNCHANGED <<startup, i>>
      /\ ctx' = IF OfSession(l) THEN Copied(l) ELSE ctx
      /\ \/ config' = IF IsConfig THEN config_line_handler(l) ELSE config
         \/ IsConfig /\ startup.nomem
  BY DEF EntryLine
<1>2. /\ Lines \in Seq(LineSet) /\ at \in 0 .. Len(Lines) /\ l \in LineSet
      /\ at < Len(Lines) => /\ l = Lines[at + 1] /\ table = TableAt(Lines, at)
                            /\ l.value \in Values
      /\ at = Len(Lines) => table = None \/ Stale(l)
  BY <1>1, LineIs
<1>3. Lines' = Lines /\ IsConfig' = IsConfig /\ at' = IF at < Len(Lines) THEN at + 1 ELSE at
  BY <1>1, FilesSame DEF Handled
<1>4. Reads /\ Types
  BY <1>1 DEF DInd
<1> HIDE DEF l
<1>5. CASE IsConfig /\ startup.nomem
  BY <1>1, <1>3, <1>5 DEF Reads
<1>6. CASE IsConfig /\ ~ startup.nomem
  <2> SUFFICES ASSUME NEW o \in Options PROVE OptionRead(Lines, at', o, config'[o])
    BY <1>3, <1>6 DEF Reads
  <2> DEFINE says == Says(l, o[1], table, o[2]) /\ l.value \notin Unparsable
             v == config[o]
  <2>1. v \in Seq(Values) /\ OptionRead(Lines, at, o, v)
    BY <1>4, <1>6 DEF Types, Reads
  <2>2. config'[o] = IF says THEN IF o \in Arrays THEN Append(v, l.value) ELSE <<l.value>>
                     ELSE v
    <3>1. config' = config_line_handler(l) /\ config = [p \in Options |-> config[p]]
      BY <1>1, <1>4, <1>6 DEF Types
    <3>2. o = <<o[1], o[2]>>
      BY ArraysAssumption
    <3>3. CASE <<table, l.key>> \notin Options \/ l.value \in Unparsable
      BY <1>1, <3>1, <3>2, <3>3 DEF config_line_handler, Says
    <3>4. CASE <<table, l.key>> \in Options /\ l.value \notin Unparsable
      <4> DEFINE q == <<table, l.key>>
      <4>1. config' = [config EXCEPT ![q] = IF q \in Arrays THEN Append(@, l.value)
                                            ELSE <<l.value>>]
        BY <3>1, <3>4 DEF config_line_handler
      <4>2. says <=> o = q
        BY <1>1, <3>2, <3>4 DEF Says
      <4> HIDE DEF q, says
      <4> QED BY <3>1, <4>1, <4>2
    <3> QED BY <3>3, <3>4
  <2>3. CASE at < Len(Lines)
    <3>1. /\ at \in 0 .. Len(Lines) - 1 /\ at' = at + 1 /\ l = Lines[at + 1]
          /\ table = TableAt(Lines, at) /\ l.value \in Values
      BY <1>2, <1>3, <2>3
    <3>2. IF Says(Lines[at + 1], o[1], TableAt(Lines, at), o[2])
             /\ Lines[at + 1].value \notin Unparsable
          THEN Lines[at + 1].value \in Values =>
                 OptionRead(Lines, at + 1, o, IF o \in Arrays THEN Append(v, Lines[at + 1].value)
                                              ELSE <<Lines[at + 1].value>>)
          ELSE OptionRead(Lines, at + 1, o, v)
      <4> HIDE DEF Lines, v
      <4> QED BY <1>2, <2>1, <3>1, OptionNext
    <3> HIDE DEF Lines, v
    <3> QED BY <2>2, <3>1, <3>2
  <2>4. CASE ~ (at < Len(Lines))
    <3>1. at = Len(Lines) /\ at' = at
      BY <1>2, <1>3, <2>4
    <3>2. ~ says
      BY <1>1, <1>2, <3>1, LinesAssumption DEF Says, Stale
    <3> QED BY <2>1, <2>2, <3>1, <3>2
  <2> QED BY <2>3, <2>4
<1>7. CASE ~ IsConfig
  <2> SUFFICES ASSUME NEW k \in Keys PROVE KeyRead(Lines, at', k, ctx'[k])
    BY <1>3, <1>7 DEF Reads
  <2> DEFINE says == Says(l, "Desktop Entry", table, k)
             v == ctx[k]
  <2>1. KeyRead(Lines, at, k, v)
    BY <1>4, <1>7 DEF Reads
  <2>2. ctx'[k] = IF says /\ v = None THEN l.value ELSE v
    BY <1>1, <1>4, <1>7 DEF Types, OfSession, Copied, Says
  <2>3. CASE at < Len(Lines)
    <3>1. /\ at \in 0 .. Len(Lines) - 1 /\ at' = at + 1 /\ l = Lines[at + 1]
          /\ table = TableAt(Lines, at)
      BY <1>2, <1>3, <2>3
    <3>2. KeyRead(Lines, at + 1, k,
                  IF Says(Lines[at + 1], "Desktop Entry", TableAt(Lines, at), k) /\ v = None
                  THEN Lines[at + 1].value ELSE v)
      <4> HIDE DEF Lines, v
      <4> QED BY <1>2, <2>1, <3>1, KeyNext
    <3> HIDE DEF Lines, v
    <3> QED BY <2>2, <3>1, <3>2
  <2>4. CASE ~ (at < Len(Lines))
    <3>1. at = Len(Lines) /\ at' = at
      BY <1>2, <1>3, <2>4
    <3>2. ~ says
      BY <1>1, <1>2, <3>1 DEF Says, Stale, None
    <3> QED BY <2>1, <2>2, <3>1, <3>2
  <2> QED BY <2>3, <2>4
<1> QED BY <1>5, <1>6, <1>7

LEMMA EntryTypes == ASSUME DInd, EntryLine PROVE Types' /\ Blank'
<1>1. /\ pc = "read" /\ Line.is = "entry" /\ buf' = Left(Line) /\ Handled /\ ret' = FALSE
      /\ ctx' = IF OfSession(Line) THEN Copied(Line) ELSE ctx
      /\ pc' = IF Finish(ctx') THEN "close" ELSE "read"
      /\ UNCHANGED <<startup, i, table, sessions>>
      /\ \/ config' = IF IsConfig THEN config_line_handler(Line) ELSE config
         \/ UNCHANGED config
  BY DEF EntryLine
<1>2. /\ at' \in 0 .. Len(Lines') /\ buf' \in LineSet
  BY <1>1, StandsOn
<1>3. Files' = Files /\ Values' = Values
  BY <1>1, FilesSame
<1>4. Types /\ Blank /\ i \in 1 .. Len(Files)
      /\ (at < Len(Lines) => Line.value \in Values)
      /\ at \in 0 .. Len(Lines) /\ Len(Lines) \in Nat
      /\ (at = Len(Lines) => table = None \/ Stale(Line))
  BY <1>1, LineIs DEF DInd
<1> DEFINE l == Line
<1>5. OfSession(l) => l.value \in Values /\ ~ IsConfig
  <2>1. CASE at < Len(Lines)
    BY <1>4, <2>1 DEF OfSession
  <2>2. CASE ~ (at < Len(Lines))
    <3>1. table = None \/ Stale(l)
      BY <1>4, <2>2
    <3> HIDE DEF l
    <3>2. l.is = "entry"
      BY <1>1 DEF l
    <3> QED BY <3>1, <3>2 DEF OfSession, Stale, None
  <2> QED BY <2>1, <2>2
<1>6. IsConfig /\ <<table, l.key>> \in Options => l.value \in Values
  <2>1. CASE at < Len(Lines)
    BY <1>4, <2>1
  <2>2. CASE ~ (at < Len(Lines))
    <3>1. table = None \/ Stale(l)
      BY <1>4, <2>2
    <3>2. <<table, l.key>>[1] = table /\ <<table, l.key>>[2] = l.key
      OBVIOUS
    <3>3. table = None => <<table, l.key>> \notin Options
      BY <3>2, LinesAssumption
    <3>4. Stale(l) => <<table, l.key>> \notin Options
      BY <1>1, <3>2 DEF Stale
    <3> QED BY <3>1, <3>3, <3>4
  <2> QED BY <2>1, <2>2
<1> HIDE DEF l
<1>7. ctx' \in [Keys -> Values \cup {None}]
  BY <1>1, <1>4, <1>5 DEF Types, OfSession, Copied, l
<1>8. config' \in [Options -> Seq(Values)]
  <2>1. IsConfig => config_line_handler(l) \in [Options -> Seq(Values)]
    <3> SUFFICES ASSUME IsConfig PROVE config_line_handler(l) \in [Options -> Seq(Values)]
      OBVIOUS
    <3> DEFINE q == <<table, l.key>>
    <3>1. CASE q \notin Options \/ l.value \in Unparsable
      BY <1>4, <3>1 DEF config_line_handler, Types
    <3>2. CASE q \in Options /\ l.value \notin Unparsable
      <4>1. config_line_handler(l) = [config EXCEPT ![q] = IF q \in Arrays THEN Append(@, l.value)
                                                           ELSE <<l.value>>]
        BY <3>2 DEF config_line_handler
      <4>2. l.value \in Values /\ config[q] \in Seq(Values)
        BY <1>4, <1>6, <3>2 DEF Types
      <4>3. Append(config[q], l.value) \in Seq(Values) /\ <<l.value>> \in Seq(Values)
        BY <4>2
      <4> HIDE DEF q
      <4> QED BY <1>4, <4>1, <4>3 DEF Types
    <3> QED BY <3>1, <3>2
  <2> QED BY <1>1, <1>4, <2>1 DEF Types, l
<1>9. Blank'
  BY <1>1, <1>4, <1>5 DEF Blank, IsConfig, l
<1>10. Types'
  BY <1>1, <1>2, <1>3, <1>4, <1>7, <1>8 DEF Types
<1> QED BY <1>9, <1>10

LEMMA EntryInd == ASSUME DInd, EntryLine PROVE DInd'
<1>1. /\ pc = "read" /\ Line.is = "entry" /\ buf' = Left(Line) /\ Handled /\ ret' = FALSE
      /\ pc' = IF Finish(ctx') THEN "close" ELSE "read"
      /\ UNCHANGED <<startup, i, table, sessions>>
  BY DEF EntryLine
<1>2. Types' /\ Blank' /\ Reads'
  BY EntryTypes, EntryReads
<1>3. Stands'
  BY <1>1, StandsOn
<1>4. Ended'
  <2>1. pc' = "close" => ~ IsConfig' /\ \A k \in Keys : ctx'[k] # None
    BY <1>1, <1>2 DEF Finish, Blank, IsConfig, Keys
  <2> QED BY <1>1, <2>1 DEF Ended
<1> QED BY <1>1, <1>2, <1>3, <1>4 DEF DInd

LEMMA DInductive == DInd /\ [Next]_vars => DInd'
<1> SUFFICES ASSUME DInd, [Next]_vars PROVE DInd'
  OBVIOUS
<1>1. CASE UNCHANGED vars
  <2>1. /\ UNCHANGED <<startup, i, pc, at, buf, table, ret, ctx, config, sessions>>
    BY <1>1 DEF vars
  <2>2. Files' = Files /\ Values' = Values /\ Lines' = Lines /\ IsConfig' = IsConfig
    BY <2>1, FilesSame
  <2>3. Types' /\ Blank'
    BY <2>1, <2>2 DEF DInd, Types, Blank
  <2>4. Reads' <=> Reads
    BY <2>1, <2>2 DEF Reads
  <2>5. Stands' <=> Stands
    BY <2>1, <2>2 DEF Stands, Stale
  <2>6. Ended'
    BY <2>1, <2>2 DEF DInd, Ended, Line
  <2> QED BY <2>1, <2>3, <2>4, <2>5, <2>6 DEF DInd
<1> QED BY <1>1, OpenInd, SkipInd, TableInd, EntryInd, JunkInd, NoMemoryInd, CloseInd DEF Next

LEMMA DInvariant == FairSpec => []DInd
<1>1. Init => DInd
  <2> SUFFICES ASSUME Init PROVE DInd
    OBVIOUS
  <2>1. startup \in [files : Seq(Seq(LineSet)), nomem : BOOLEAN]
    BY LinesAssumption DEF Init
  <2>2. Len(Files) \in Nat
    BY <2>1 DEF Files
  <2> QED BY <2>2, LinesAssumption DEF Init, DInd, Types, Blank, Ended
<1> QED BY <1>1, DInductive, PTL DEF FairSpec, Spec

(* What is kept of a file are values that stand in it, never what is left  *)
(* in the buffer behind its last line, and lidm never reads past the last  *)
(* file.                                                                   *)
THEOREM DesktopTypeCorrect == FairSpec => []DTypeOK
<1>1. DInd => DTypeOK
  BY DEF DInd, Types, DTypeOK
<1> QED BY <1>1, DInvariant, PTL

(* However long the files are, each line counts once and under its own     *)
(* table (desktop.c 32-79).                                                *)
THEOREM EachLineReadOnce == FairSpec => []ReadsEachLineOnce
<1>1. DInd => ReadsEachLineOnce
  <2> SUFFICES ASSUME DInd, pc \in {"read", "close"} PROVE ReadsEachLineOnce
    BY DEF ReadsEachLineOnce
  <2>1. Reads /\ Lines \in Seq(LineSet) /\ at \in 0 .. Len(Lines)
    <3>1. startup \in [files : Seq(Seq(LineSet)), nomem : BOOLEAN]
      BY LinesAssumption DEF DInd, Types
    <3>2. Files \in Seq(Seq(LineSet)) /\ i \in 1 .. Len(Files) /\ at \in 0 .. Len(Lines)
      BY <3>1 DEF Files, DInd, Types
    <3> QED BY <3>2 DEF DInd, Lines
  <2>2. ASSUME NEW t, NEW key PROVE /\ Saying(Lines, at, t, key) \in SUBSET Int
                                    /\ Parsed(Lines, Saying(Lines, at, t, key)) \in SUBSET Int
    <3> HIDE DEF Lines
    <3>1. Saying(Lines, at, t, key) \in SUBSET (1 .. at)
      BY <2>1, SayingIn
    <3> QED BY <3>1 DEF Parsed
  <2>3. ASSUME NEW o, OptionRead(Lines, at, o, config[o])
        PROVE  LET js == Parsed(Lines, Saying(Lines, at, o[1], o[2]))
               IN  IF o \in Arrays THEN InOrder(Lines, js, config[o])
                   ELSE config[o] = Latest(Lines, js)
    <3> DEFINE js == Parsed(Lines, Saying(Lines, at, o[1], o[2]))
    <3>1. js \in SUBSET Int
      BY <2>2
    <3>2. IF o \in Arrays THEN InOrder(Lines, js, config[o]) ELSE LatestOf(Lines, js, config[o])
      BY <2>3 DEF OptionRead
    <3> HIDE DEF js, Lines
    <3> QED BY <3>1, <3>2, LatestIs DEF js
  <2>4. ASSUME NEW k, KeyRead(Lines, at, k, ctx[k])
        PROVE  ctx[k] = First(Lines, Saying(Lines, at, "Desktop Entry", k))
    <3> DEFINE js == Saying(Lines, at, "Desktop Entry", k)
    <3>1. js \in SUBSET Int
      BY <2>2
    <3>2. FirstOf(Lines, js, ctx[k])
      BY <2>4 DEF KeyRead
    <3> HIDE DEF js, Lines
    <3> QED BY <3>1, <3>2, FirstIs DEF js
  <2> QED BY <2>1, <2>3, <2>4 DEF Reads, ReadsEachLineOnce
<1> QED BY <1>1, DInvariant, PTL

(* No line behind which the reading goes on is in error.                   *)
NoError == pc \in {"read", "close"} => \A j \in 1 .. at : Lines[j].is # "junk"

LEMMA NoErrorInductive == DInd /\ NoError /\ [Next]_vars => NoError'
<1> SUFFICES ASSUME DInd, NoError, [Next]_vars PROVE NoError'
  OBVIOUS
<1>1. CASE SkipLine \/ TableLine \/ EntryLine
  <2>1. pc = "read" /\ Line.is # "junk" /\ Handled /\ UNCHANGED <<startup, i>>
    BY <1>1 DEF SkipLine, TableLine, EntryLine
  <2>2. /\ at \in 0 .. Len(Lines) /\ Len(Lines) \in Nat
        /\ at < Len(Lines) => Line = Lines[at + 1]
    BY <2>1, LineIs
  <2>3. Lines' = Lines /\ at' = IF at < Len(Lines) THEN at + 1 ELSE at
    BY <2>1, FilesSame DEF Handled
  <2>4. \A j \in 1 .. at : Lines[j].is # "junk"
    BY <2>1 DEF NoError
  <2> HIDE DEF Lines
  <2>5. \A j \in 1 .. at' : j \in 1 .. at \/ (at < Len(Lines) /\ j = at + 1)
    BY <2>2, <2>3
  <2>6. \A j \in 1 .. at' : Lines[j].is # "junk"
    BY <2>1, <2>2, <2>4, <2>5
  <2> QED BY <2>3, <2>6 DEF NoError
<1>2. CASE JunkLine \/ OutOfMemory \/ UNCHANGED vars
  <2>1. UNCHANGED <<startup, i, at>> /\ (pc' = pc \/ pc = "read")
    BY <1>2 DEF JunkLine, OutOfMemory, vars
  <2> QED BY <2>1, FilesSame DEF NoError
<1>3. CASE Open
  <2>1. at' = 0
    BY <1>3 DEF Open
  <2> QED BY <2>1 DEF NoError
<1>4. CASE CloseSession \/ CloseConfig
  BY <1>4 DEF CloseSession, CloseConfig, NoError
<1> QED BY <1>1, <1>2, <1>3, <1>4 DEF Next

(* Of some numbers one is the least.                                       *)
LEMMA MinIn ==
  ASSUME NEW S \in SUBSET Nat, S # {}
  PROVE  Min(S) \in S /\ \A y \in S : Min(S) <= y
<1>1. \E x \in S : \A y \in S : x <= y
  <2> DEFINE R == {p \in Nat \X Nat : p[1] < p[2]}
  <2>1. R = OpToRel(<, Nat)
    BY DEF OpToRel
  <2>2. IsWellFoundedOn(R, Nat)
    BY <2>1, NatLessThanWellFounded
  <2> HIDE DEF R
  <2>3. PICK x \in S : \A y \in S : ~ (<<y, x>> \in R)
    BY <2>2, WFMin
  <2>4. ASSUME NEW y \in S PROVE x <= y
    <3>1. x \in Nat /\ y \in Nat /\ <<y, x>> \notin R
      BY <2>3
    <3>2. ~ (y < x)
      BY <3>1 DEF R
    <3> QED BY <3>1, <3>2
  <2> QED BY <2>4
<1> QED BY <1>1 DEF Min

(* What the first lines say first of a key, all of them say first.         *)
LEMMA FirstStays ==
  ASSUME NEW ls \in Seq(LineSet), NEW n \in 0 .. Len(ls), NEW k \in 0 .. n, NEW key, NEW v,
         KeyRead(ls, k, key, v), v # None \/ n = k
  PROVE  First(ls, Saying(ls, n, "Desktop Entry", key)) = v
<1> DEFINE js == Saying(ls, n, "Desktop Entry", key)
           ks == Saying(ls, k, "Desktop Entry", key)
<1>1. js \in SUBSET Int /\ ks \in SUBSET (1 .. k)
  <2>1. k \in 0 .. Len(ls)
    OBVIOUS
  <2>2. js \in SUBSET (1 .. n)
    BY SayingIn
  <2>3. ks \in SUBSET (1 .. k)
    BY <2>1, SayingIn
  <2> HIDE DEF js, ks
  <2> QED BY <2>2, <2>3
<1>2. FirstOf(ls, ks, v)
  BY DEF KeyRead
<1>3. ks \subseteq js /\ \A m \in js : m \in ks \/ m > k
  <2> DEFINE P(j) == /\ ls[j].is = "entry" /\ ls[j].key = key
                     /\ TableAt(ls, j) = "Desktop Entry"
  <2>1. js = {j \in 1 .. n : P(j)} /\ ks = {j \in 1 .. k : P(j)}
    BY DEF Saying
  <2>2. n \in Nat /\ k \in Nat /\ k <= n
    OBVIOUS
  <2> HIDE DEF P, js, ks
  <2> QED BY <2>1, <2>2
<1> HIDE DEF js, ks
<1>4. CASE v # None
  <2>1. PICK j \in ks : (\A m \in ks : j <= m) /\ v = ls[j].value
    BY <1>2, <1>4 DEF FirstOf
  <2>2. j \in js /\ \A m \in js : j <= m
    BY <1>1, <1>3, <2>1
  <2>3. FirstOf(ls, js, v)
    BY <2>1, <2>2 DEF FirstOf
  <2>4. v = First(ls, js)
    BY <1>1, <2>3, FirstIs
  <2> QED BY <2>4 DEF js
<1>5. CASE n = k
  <2>1. js = ks
    BY <1>5 DEF js, ks
  <2>2. v = First(ls, js)
    BY <1>1, <1>2, <2>1, FirstIs
  <2> QED BY <2>2 DEF js
<1> QED BY <1>4, <1>5

(* Where the reading ended does not show in the menu: of every file it has *)
(* what the whole file offers (desktop.c, sessions.c).                     *)
THEOREM WholeFilesOffered == FairSpec => OffersWholeFiles
<1>1. DInd /\ NoError /\ [Next]_vars =>
        [CloseSession => \/ sessions' = sessions \o Offer(Lines)
                         \/ startup.nomem /\ sessions' = sessions]_vars
  <2> SUFFICES ASSUME DInd, NoError, CloseSession
               PROVE  \/ sessions' = sessions \o Offer(Lines)
                      \/ startup.nomem /\ sessions' = sessions
    OBVIOUS
  <2>1. /\ pc = "close" /\ ~ IsConfig
        /\ \/ /\ Listed
              /\ sessions' = Append(sessions, [name |-> ctx["Name"], exec |-> ctx["Exec"]])
           \/ (~ Listed \/ startup.nomem) /\ UNCHANGED sessions
    BY DEF CloseSession
  <2>2. Lines \in Seq(LineSet) /\ at \in 0 .. Len(Lines)
    <3>1. startup \in [files : Seq(Seq(LineSet)), nomem : BOOLEAN]
      BY LinesAssumption DEF DInd, Types
    <3>2. Files \in Seq(Seq(LineSet)) /\ i \in 1 .. Len(Files) /\ at \in 0 .. Len(Lines)
      BY <2>1, <3>1 DEF Files, DInd, Types
    <3> QED BY <3>2 DEF Lines
  <2>3. \A k \in Keys : KeyRead(Lines, at, k, ctx[k])
    BY <2>1 DEF DInd, Reads
  <2> DEFINE js == {j \in 1 .. Len(Lines) : Lines[j].is = "junk"}
             e == UpToError(Lines)
  <2>4. e = IF js = {} THEN Len(Lines) ELSE Min(js) - 1
    BY DEF UpToError
  <2>5. js \in SUBSET Nat /\ \A j \in js : j \in at + 1 .. Len(Lines)
    <3>1. \A j \in 1 .. at : Lines[j].is # "junk"
      BY <2>1 DEF NoError
    <3> QED BY <2>2, <3>1
  <2>6. Line.is = "junk" /\ at < Len(Lines) => at + 1 \in js
    BY <2>2 DEF Line
  <2> HIDE DEF js, e
  <2>7. e \in at .. Len(Lines)
    <3>1. js # {} => Min(js) \in js
      BY <2>5, MinIn
    <3>2. Len(Lines) \in Nat
      BY <2>2
    <3> HIDE DEF Lines
    <3>3. CASE js = {}
      BY <2>2, <2>4, <3>2, <3>3
    <3>4. CASE js # {}
      <4>1. Min(js) \in at + 1 .. Len(Lines) /\ e = Min(js) - 1
        BY <2>4, <2>5, <3>1, <3>4
      <4> QED BY <2>2, <3>2, <4>1
    <3> QED BY <3>3, <3>4
  <2>8. Line.is = "junk" => e = at
    <3>1. CASE at < Len(Lines)
      <4>1. ASSUME at + 1 \in js PROVE Min(js) = at + 1
        <5>1. js \in SUBSET Int /\ \A j \in js : at + 1 <= j
          BY <2>2, <2>5
        <5> QED BY <4>1, <5>1, MinIs
      <4> QED BY <2>2, <2>4, <2>6, <3>1, <4>1
    <3>2. CASE at = Len(Lines)
      BY <2>2, <2>7, <3>2
    <3> QED BY <2>2, <3>1, <3>2
  <2>9. ASSUME NEW k \in Keys, ctx[k] # None \/ e = at PROVE Said(Lines, k) = ctx[k]
    <3>1. KeyRead(Lines, at, k, ctx[k])
      BY <2>3
    <3>2. First(Lines, Saying(Lines, e, "Desktop Entry", k)) = ctx[k]
      <4> HIDE DEF Lines
      <4>1. e \in 0 .. Len(Lines) /\ at \in 0 .. e
        BY <2>2, <2>7
      <4> QED BY <2>2, <2>9, <3>1, <4>1, FirstStays
    <3> QED BY <3>2 DEF Said, e
  <2>10. "Name" \in Keys /\ "Exec" \in Keys
    BY DEF Keys
  <2> DEFINE n == Said(Lines, "Name")
             x == Said(Lines, "Exec")
             s == [name |-> ctx["Name"], exec |-> ctx["Exec"]]
  <2>11. Offer(Lines) = IF n # None /\ x \notin Unparsable \cup {None}
                        THEN <<[name |-> n, exec |-> x]>> ELSE <<>>
    BY DEF Offer
  <2>12. sessions \in Seq([name : Values, exec : Values])
    BY DEF DInd, Types
  <2>13. CASE Listed
    <3>1. n = ctx["Name"] /\ x = ctx["Exec"]
      BY <2>9, <2>10, <2>13 DEF Listed
    <3> HIDE DEF n, x
    <3>2. Offer(Lines) = <<s>>
      BY <2>11, <2>13, <3>1 DEF Listed
    <3>3. Append(sessions, s) = sessions \o <<s>>
      <4>1. s \in [name : Values, exec : Values]
        BY <2>10, <2>13 DEF Listed, DInd, Types
      <4> HIDE DEF s
      <4> QED BY <2>12, <4>1
    <3> QED BY <2>1, <2>13, <3>2, <3>3
  <2>14. CASE ~ Listed /\ startup.nomem
    BY <2>1, <2>14
  <2>15. CASE ~ Listed /\ ~ startup.nomem
    <3>1. Line.is = "junk" \/ \A k \in Keys : ctx[k] # None
      BY <2>1, <2>15 DEF DInd, Ended
    <3>2. n = ctx["Name"] /\ x = ctx["Exec"]
      BY <2>8, <2>9, <2>10, <3>1
    <3> HIDE DEF n, x
    <3>3. Offer(Lines) = <<>>
      BY <2>11, <2>15, <3>2 DEF Listed
    <3>4. sessions \o <<>> = sessions
      BY <2>12
    <3> QED BY <2>1, <2>15, <3>3, <3>4
  <2> QED BY <2>13, <2>14, <2>15
<1>2. FairSpec => []NoError
  <2>1. Init => NoError
    BY DEF Init, NoError
  <2> QED BY <2>1, DInvariant, NoErrorInductive, PTL DEF FairSpec, Spec
<1> QED BY <1>1, <1>2, DInvariant, PTL DEF FairSpec, Spec, OffersWholeFiles
=============================================================================
