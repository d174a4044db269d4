----------------------------- MODULE FormProofs -----------------------------
(***************************************************************************)
(* Whatever the lists of users and of sessions are and whatever bytes      *)
(* arrive, an option that is shown exists, a cursor stands between two     *)
(* characters, an edit can be undone, and a start shows what was launched  *)
(* last if the file has it and no two names are the same.                  *)
(***************************************************************************)
EXTENDS Form, EditFieldProofs

(* A field shows an option that exists, and nobody changes their number.   *)
Count(i) == CASE i = "session" -> Len(Sessions) + (IF Defshell THEN 1 ELSE 0)
              [] i = "user" -> Len(Users)
              [] OTHER -> 0
Shows(o, n) == /\ o = [opts |-> o.opts, current |-> o.current, efield |-> o.efield]
               /\ o.opts = n /\ o.current \in 0 .. n
Listed(fields) == /\ fields = [i \in Inputs |-> fields[i]]
                  /\ \A i \in Inputs : Shows(fields[i], Count(i))
FInd == Listed(of) /\ focus \in Inputs

LEMMA CountNat == ASSUME NEW i \in Inputs PROVE Count(i) \in Nat
BY OptionsAssumption DEF Count, Inputs

(* One field of the three may be replaced by one that shows an option.     *)
LEMMA ListedExcept ==
  ASSUME NEW fields, Listed(fields), NEW i \in Inputs, NEW o, Shows(o, Count(i))
  PROVE  Listed([fields EXCEPT ![i] = o])
BY DEF Listed

(* The next option and the one before it exist, on unsigned numbers.       *)
LEMMA SeekShows ==
  ASSUME NEW n \in Nat, NEW o, Shows(o, n), CanSeek(o), NEW seek \in {-1, 1}
  PROVE  Shows(OptsSeek(o, seek), n)
<1>1. n \in Nat \ {0} /\ o.current \in 0 .. n /\ o.opts = n
  BY DEF Shows, CanSeek
<1>2. o.current - 1 + seek + n \in Int
  BY <1>1
<1>3. (o.current - 1 + seek + n) % n \in 0 .. n - 1
  BY <1>1, <1>2
<1>4. OptsSeek(o, seek) = [opts |-> o.opts, efield |-> o.efield,
                           current |-> 1 + ((o.current - 1 + seek + o.opts) % o.opts)]
  BY DEF OptsSeek, Shows
<1> QED BY <1>1, <1>3, <1>4 DEF Shows

LEMMA SeekFirstListed ==
  ASSUME NEW fields, Listed(fields), NEW seek \in {-1, 1}, NEW list \in Seq(Inputs)
  PROVE  Listed(SeekFirst(fields, seek, list))
<1> DEFINE able == {i \in 1 .. Len(list) : CanSeek(fields[list[i]])}
<1>1. CASE able = {}
  BY <1>1 DEF SeekFirst
<1>2. CASE able # {}
  <2> DEFINE i == list[Min(able)]
             o == OptsSeek(fields[i], seek)
  <2>1. Min(able) \in able
    <3>1. able \in SUBSET Nat
      OBVIOUS
    <3> HIDE DEF able
    <3> QED BY <1>2, <3>1, MinIn
  <2>2. i \in Inputs /\ CanSeek(fields[i])
    BY <2>1
  <2>3. SeekFirst(fields, seek, list) = [fields EXCEPT ![i] = o]
    BY <1>2 DEF SeekFirst
  <2> HIDE DEF i, able
  <2>4. Shows(fields[i], Count(i)) /\ Count(i) \in Nat
    BY <2>2, CountNat DEF Listed
  <2>5. Shows(o, Count(i))
    BY <2>2, <2>4, SeekShows
  <2> HIDE DEF o
  <2>6. Listed([fields EXCEPT ![i] = o])
    BY <2>2, <2>5, ListedExcept
  <2> QED BY <2>3, <2>6
<1> QED BY <1>1, <1>2

(* An arrow, with ESC before it or without.                                *)
LEMMA ArrowListed ==
  ASSUME FInd, NEW seek \in {-1, 1}
  PROVE  Listed(ChOfOpts(of, seek)) /\ Listed(ChEfCol(of, seek))
<1>1. /\ <<"user", "session">> \in Seq(Inputs) /\ <<"session", "user">> \in Seq(Inputs)
      /\ <<focus>> \in Seq(Inputs)
  BY DEF FInd, Inputs
<1>2. Listed(ChOfOpts(of, seek))
  BY <1>1, SeekFirstListed DEF ChOfOpts, FInd
<1>3. Listed(ChEfCol(of, seek))
  <2> DEFINE o == of[focus]
             f == efield_seek(o.efield, seek)
             p == [o EXCEPT !.efield = f]
  <2>1. CASE o.current = 0 /\ f # o.efield
    <3>1. ChEfCol(of, seek) = [of EXCEPT ![focus] = p]
      BY <2>1 DEF ChEfCol, FInd, Listed
    <3>2. Shows(o, Count(focus)) /\ focus \in Inputs
      BY DEF FInd, Listed
    <3> HIDE DEF o, f
    <3>3. Shows(p, Count(focus))
      BY <3>2 DEF Shows
    <3> HIDE DEF p
    <3>4. Listed(of) /\ focus \in Inputs
      BY DEF FInd
    <3>5. Listed([of EXCEPT ![focus] = p])
      BY <3>3, <3>4, ListedExcept
    <3> QED BY <3>1, <3>5
  <2>2. CASE ~ (o.current = 0 /\ f # o.efield) /\ o.opts # 0
    <3>1. ChEfCol(of, seek) = SeekFirst(of, seek, <<focus>>)
      BY <2>2 DEF ChEfCol
    <3> QED BY <1>1, <3>1, SeekFirstListed DEF FInd
  <2>3. CASE ~ (o.current = 0 /\ f # o.efield) /\ o.opts = 0
    <3>1. ChEfCol(of, seek) = SeekFirst(of, seek, <<"session", "user">>)
      BY <2>3 DEF ChEfCol
    <3> QED BY <1>1, <3>1, SeekFirstListed DEF FInd
  <2> QED BY <2>1, <2>2, <2>3
<1> QED BY <1>2, <1>3

(* Typing turns an option into text.                                       *)
LEMMA TypeListed == ASSUME FInd, NEW u PROVE Listed(KbdType(of, u))
<1> DEFINE o == of[focus]
           g == efield_update(AtHand(of), u)
           p == [opts |-> o.opts, current |-> 0, efield |-> g]
<1> HIDE DEF g
<1>1. KbdType(of, u) = [of EXCEPT ![focus] = p]
  <2>1. of = [i \in Inputs |-> of[i]] /\ focus \in Inputs
        /\ o = [opts |-> o.opts, current |-> o.current, efield |-> o.efield]
    BY DEF FInd, Listed, Shows
  <2>2. KbdType(of, u) = [of EXCEPT ![focus].current = 0, ![focus].efield = g]
    BY DEF KbdType, g
  <2> QED BY <2>1, <2>2
<1>2. Shows(o, Count(focus)) /\ focus \in Inputs
  BY DEF FInd, Listed
<1> HIDE DEF o
<1>3. Shows(p, Count(focus))
  BY <1>2, CountNat DEF Shows
<1> HIDE DEF p
<1>4. Listed(of) /\ focus \in Inputs
  BY DEF FInd
<1>5. Listed([of EXCEPT ![focus] = p])
  BY <1>3, <1>4, ListedExcept
<1> QED BY <1>1, <1>5

(* The start of lidm, without the file and with it.                        *)
LEMMA FreshListed == Listed(Fresh)
<1>1. /\ Fresh = [i \in Inputs |-> Fresh[i]]
      /\ Fresh["user"] = ofield_new(Len(Users)) /\ Fresh["passwd"] = ofield_new(0)
      /\ Fresh["session"] = [opts |-> Count("session"), efield |-> Empty,
                             current |-> IF Sessions = <<>> THEN 0 ELSE 1]
  BY DEF Fresh, Inputs, Count, ofield_new
<1>2. Shows(Fresh["user"], Count("user")) /\ Shows(Fresh["passwd"], Count("passwd"))
  BY <1>1, OptionsAssumption DEF Shows, Count, ofield_new
<1>3. Sessions # <<>> => Count("session") >= 1
  BY OptionsAssumption DEF Count
<1>4. Shows(Fresh["session"], Count("session"))
  BY <1>1, <1>3, CountNat DEF Shows, Inputs
<1> QED BY <1>1, <1>2, <1>4 DEF Listed, Inputs

LEMMA MatchingIn ==
  ASSUME NEW names, Len(names) \in Nat, NEW name, NEW n \in Nat, Len(names) <= n,
         NEW default \in 0 .. n
  PROVE  Matching(names, name, default) \in 0 .. n
<1> DEFINE at == {i \in 1 .. Len(names) : names[i] = name}
<1>1. at \in SUBSET Nat /\ at \subseteq 1 .. Len(names)
  OBVIOUS
<1>2. Matching(names, name, default) = IF at = {} THEN default ELSE Min(at)
  BY DEF Matching
<1> HIDE DEF at
<1>3. CASE at = {}
  BY <1>2, <1>3
<1>4. CASE at # {}
  <2>1. Min(at) \in at
    BY <1>1, <1>4, MinIn
  <2>2. Min(at) \in 1 .. Len(names)
    BY <1>1, <2>1
  <2>3. Matching(names, name, default) = Min(at)
    BY <1>2, <1>4
  <2> QED BY <2>2, <2>3
<1> QED BY <1>3, <1>4

(* Another option of a field, if it exists.                                *)
LEMMA ChosenListed ==
  ASSUME NEW fields, Listed(fields), NEW i \in Inputs, NEW c \in 0 .. Count(i)
  PROVE  Listed([fields EXCEPT ![i].current = c])
<1> DEFINE o == [fields[i] EXCEPT !.current = c]
<1>1. Shows(fields[i], Count(i))
  BY DEF Listed
<1>2. Shows(o, Count(i))
  BY <1>1 DEF Shows
<1>3. [fields EXCEPT ![i].current = c] = [fields EXCEPT ![i] = o]
  OBVIOUS
<1> HIDE DEF o
<1> QED BY <1>2, <1>3, ListedExcept

LEMMA RestoredListed == ASSUME NEW f PROVE Listed(Restored(f))
<1>1. CASE f = <<>>
  BY <1>1, FreshListed DEF Restored
<1>2. CASE f # <<>>
  <2> DEFINE a == Matching(UserNames, f[1], Fresh["user"].current)
             u == [Fresh EXCEPT !["user"].current = a]
             b == Matching(Sessions, f[2], u["session"].current)
             s == [u EXCEPT !["session"].current = b]
             t == [s EXCEPT !["session"].current = Len(Sessions) + 1]
  <2>1. "user" \in Inputs /\ "session" \in Inputs
    BY DEF Inputs
  <2>2. a \in 0 .. Count("user")
    <3>1. Len(UserNames) = Len(Users)
      BY OptionsAssumption DEF UserNames
    <3>2. Fresh["user"].current \in 0 .. Count("user")
      BY <2>1, FreshListed DEF Listed, Shows
    <3>3. Len(UserNames) \in Nat /\ Len(UserNames) <= Count("user") /\ Count("user") \in Nat
      BY <3>1, OptionsAssumption DEF Count
    <3> QED BY <3>2, <3>3, MatchingIn
  <2>3. Listed(u)
    <3> HIDE DEF a
    <3> QED BY <2>1, <2>2, FreshListed, ChosenListed
  <2>4. b \in 0 .. Count("session")
    <3>1. u["session"].current \in 0 .. Count("session")
      BY <2>1, <2>3 DEF Listed, Shows
    <3> HIDE DEF u
    <3>2. Len(Sessions) \in Nat /\ Len(Sessions) <= Count("session")
          /\ Count("session") \in Nat
      BY OptionsAssumption DEF Count
    <3> QED BY <3>1, <3>2, MatchingIn
  <2>5. Listed(s)
    <3> HIDE DEF u, b
    <3> QED BY <2>1, <2>3, <2>4, ChosenListed
  <2>6. Defshell => Listed(t)
    <3>1. Defshell => Len(Sessions) + 1 \in 0 .. Count("session")
      BY OptionsAssumption DEF Count
    <3> HIDE DEF s
    <3> QED BY <2>1, <2>5, <3>1, ChosenListed
  <2>7. Restored(f) = IF Defshell /\ UserOf(u).shell = f[2] THEN t ELSE s
    BY <1>2 DEF Restored
  <2> HIDE DEF s, t
  <2> QED BY <2>5, <2>6, <2>7
<1> QED BY <1>1, <1>2

LEMMA FormInductive == FInd /\ [Next]_vars => FInd'
<1> SUFFICES ASSUME FInd, [Next]_vars PROVE FInd'
  OBVIOUS
<1>1. ASSUME NEW seek \in {-1, 1}, Arrow(seek) PROVE FInd'
  BY <1>1, ArrowListed DEF Arrow, FInd
<1>2. ASSUME NEW u, Type(u) PROVE FInd'
  BY <1>2, TypeListed DEF Type, FInd
<1>3. CASE Escape
  BY <1>3 DEF Escape, FInd
<1>4. CASE Up \/ Down
  <2>1. focus' \in Inputs /\ of' = of
    BY <1>4 DEF Up, Down, Order, Position, Inputs, FInd
  <2> QED BY <2>1 DEF FInd
<1>5. CASE Enter
  BY <1>5 DEF Enter, FInd
<1>6. CASE DieWriting
  BY <1>6, FreshListed DEF DieWriting, Started, FInd, Inputs
<1>7. CASE Restart
  BY <1>7, RestoredListed DEF Restart, Started, FInd, Inputs
<1>8. CASE UNCHANGED vars
  BY <1>8 DEF vars, FInd
<1> QED BY <1>1, <1>2, <1>3, <1>4, <1>5, <1>6, <1>7, <1>8 DEF Next

LEMMA FormInvariant == Spec => []FInd
<1>1. Init => FInd
  BY FreshListed DEF Init, FInd, Inputs
<1> QED BY <1>1, FormInductive, PTL DEF Spec

(* st_user() and st_session() index their vectors within their length, for *)
(* any lists, any state file and any sequence of keys.                     *)
THEOREM OptionsAlwaysExist == Spec => []OptionsExist
<1>1. FInd => OptionsExist
  BY DEF FInd, Listed, Shows, Count, Inputs, OptionsExist
<1> QED BY <1>1, FormInvariant, PTL

(* The texts leave room for the null byte and have their cursors between   *)
(* characters; they are whole characters as long as presses were.          *)
Fits(f) == Text(f) /\ Len(f.content) < ContentSize
Written(fields) == \A i \in Inputs : Fits(fields[i].efield)
Unbroken(fields) == \A i \in Inputs : Whole(fields[i].efield.content)
TextInd == /\ FInd /\ Written(of) /\ esc \in 0 .. 1
           /\ lost \in {"no", "walked", "overran"} /\ torn \in BOOLEAN
           /\ ~torn => lost # "walked" /\ Unbroken(of)
           /\ written \in BOOLEAN /\ file \in {<<>>} \cup (Seq(Bytes) \X Seq(Bytes))

LEMMA FreshWritten ==
  Written(Fresh) /\ Unbroken(Fresh) /\ \A i \in Inputs : Fresh[i].efield = Empty
<1>1. \A i \in Inputs : Fresh[i].efield = Empty
  BY DEF Fresh, Inputs, ofield_new
<1>2. Fits(Empty) /\ Whole(Empty.content)
  BY SizeAssumption DEF Fits, Text, FieldOK, Whole, Boundary, Empty, efield_new
<1> QED BY <1>1, <1>2 DEF Written, Unbroken

(* Another option is no other text.                                        *)
LEMMA SeekFirstWritten ==
  ASSUME NEW fields, Listed(fields), NEW seek \in {-1, 1}, NEW list \in Seq(Inputs)
  PROVE  \A i \in Inputs : SeekFirst(fields, seek, list)[i].efield = fields[i].efield
<1> DEFINE able == {i \in 1 .. Len(list) : CanSeek(fields[list[i]])}
           j == list[Min(able)]
           o == OptsSeek(fields[j], seek)
<1>1. CASE able = {}
  BY <1>1 DEF SeekFirst
<1>2. CASE able # {}
  <2>1. SeekFirst(fields, seek, list) = [fields EXCEPT ![j] = o]
    BY <1>2 DEF SeekFirst
  <2>2. j \in Inputs
    <3>1. able \in SUBSET Nat /\ able \subseteq 1 .. Len(list)
      OBVIOUS
    <3> HIDE DEF able
    <3>2. Min(able) \in able
      BY <1>2, <3>1, MinIn
    <3>3. \A x \in 1 .. Len(list) : list[x] \in Inputs
      OBVIOUS
    <3> QED BY <3>1, <3>2, <3>3
  <2> HIDE DEF j
  <2>3. o.efield = fields[j].efield
    BY <2>2 DEF OptsSeek, Listed, Shows
  <2> HIDE DEF o
  <2> QED BY <2>1, <2>2, <2>3 DEF Listed
<1> QED BY <1>1, <1>2

(* An arrow that stays in its string.                                      *)
LEMMA ArrowWritten ==
  ASSUME TextInd, NEW seek \in {-1, 1}, ArrowLeads(seek) = "no",
         NEW fields, fields = IF esc # 0 THEN ChOfOpts(of, seek) ELSE ChEfCol(of, seek)
  PROVE  Written(fields) /\ (~torn => Unbroken(fields))
<1>1. /\ <<"user", "session">> \in Seq(Inputs) /\ <<"session", "user">> \in Seq(Inputs)
      /\ <<focus>> \in Seq(Inputs) /\ Listed(of) /\ Written(of) /\ focus \in Inputs
      /\ ~torn => Unbroken(of)
  BY DEF TextInd, FInd, Inputs
<1>2. ASSUME \A i \in Inputs : fields[i].efield = of[i].efield
      PROVE  Written(fields) /\ (~torn => Unbroken(fields))
  BY <1>1, <1>2 DEF Written, Unbroken
<1>3. CASE esc # 0
  BY <1>1, <1>2, <1>3, SeekFirstWritten DEF ChOfOpts
<1>4. CASE esc = 0
  <2> DEFINE e == of[focus].efield
             f == efield_seek(e, seek)
  <2>1. CASE of[focus].current = 0 /\ f # e
    <3>1. fields = [of EXCEPT ![focus].efield = f]
      BY <1>4, <2>1 DEF ChEfCol
    <3>2. Text(e) /\ Len(e.content) < ContentSize
      BY <1>1 DEF Written, Fits
    <3>3. seek < 0 => ~ Walks(e)
      BY <1>4, <2>1 DEF ArrowLeads
    <3> HIDE DEF e
    <3>4. Text(f) /\ f = [content |-> e.content, pos |-> Sought(e, seek)]
      BY <3>2, <3>3, SeekText
    <3>5. Fits(f) /\ f.content = e.content
      BY <3>2, <3>4 DEF Fits
    <3> HIDE DEF f
    <3>6. \A i \in Inputs : fields[i].efield = IF i = focus THEN f ELSE of[i].efield
      BY <1>1, <3>1 DEF Listed, Shows
    <3> QED BY <1>1, <3>5, <3>6 DEF Written, Unbroken, e
  <2>2. CASE ~ (of[focus].current = 0 /\ f # e)
    <3>0. fields = ChEfCol(of, seek)
      BY <1>4
    <3>1. \/ fields = SeekFirst(of, seek, <<focus>>)
          \/ fields = SeekFirst(of, seek, <<"session", "user">>)
      <4>1. CASE of[focus].opts # 0
        BY <2>2, <3>0, <4>1 DEF ChEfCol
      <4>2. CASE of[focus].opts = 0
        BY <2>2, <3>0, <4>2 DEF ChEfCol
      <4> QED BY <4>1, <4>2
    <3>2. \A list \in Seq(Inputs) : \A i \in Inputs :
            SeekFirst(of, seek, list)[i].efield = of[i].efield
      BY <1>1, SeekFirstWritten
    <3>3. \A i \in Inputs : fields[i].efield = of[i].efield
      BY <1>1, <3>1, <3>2
    <3> QED BY <1>2, <3>3
  <2> QED BY <2>1, <2>2
<1> QED BY <1>3, <1>4

(* Typing starts from the text at hand or from a name of whole characters. *)
LEMMA StartText ==
  ASSUME FInd, of[focus].current # 0
  PROVE  Text(efield_new(Start(of))) /\ Whole(efield_new(Start(of)).content)
<1>1. Listed(of) /\ focus \in Inputs
  BY DEF FInd
<1>2. Whole(<<>>)
  BY DEF Whole, Boundary
<1>3. focus = "user" => Whole(Start(of))
  <2> SUFFICES ASSUME focus = "user" PROVE Whole(Start(of))
    OBVIOUS
  <2>1. of["user"].current \in 1 .. Len(Users)
    BY <1>1, OptionsAssumption DEF Listed, Shows, Count
  <2> QED BY <2>1, NamesAssumption DEF Start, UserOf
<1>4. focus = "session" => Whole(Start(of))
  <2> SUFFICES ASSUME focus = "session" PROVE Whole(Start(of))
    OBVIOUS
  <2>1. Whole(UserOf(of).shell)
    <3>1. of["user"].current \in 0 .. Len(Users)
      BY <1>1, OptionsAssumption DEF Listed, Shows, Count, Inputs
    <3> QED BY <3>1, NamesAssumption, OptionsAssumption DEF UserOf
  <2>2. Start(of) = IF IsShell(of) THEN SessionName(of) ELSE <<>>
    BY DEF Start
  <2>3. IsShell(of) => SessionName(of) = UserOf(of).shell
    BY DEF IsShell, SessionName
  <2> QED BY <1>2, <2>1, <2>2, <2>3
<1>5. Whole(Start(of))
  <2>1. focus = "passwd" => Start(of) = <<>>
    BY DEF Start
  <2> QED BY <1>1, <1>2, <1>3, <1>4, <2>1 DEF Inputs
<1> QED BY <1>5 DEF Whole, Text, FieldOK, Boundary, efield_new

(* One press that stays in the memory of its field.                        *)
LEMMA UpdateText ==
  ASSUME NEW f, Text(f), NEW u \in Updates \cup {Backspace},
         u = Backspace => ~ Walks(f), ~ Overruns(efield_update(f, u))
  PROVE  /\ Fits(efield_update(f, u))
         /\ Whole(f.content) /\ u[1] \notin Conts => Whole(efield_update(f, u).content)
<1>1. [f EXCEPT !.pos = IF @ > Len(f.content) THEN Len(f.content) ELSE @] = f
  BY DEF Text, FieldOK, Boundary
<1>2. CASE u = Backspace
  <2>1. efield_update(f, u) = Erase(f) /\ ~ Walks(f)
    BY <1>1, <1>2 DEF efield_update, Backspace
  <2>2. Text(Erase(f)) /\ (Whole(f.content) => Whole(Erase(f).content))
    BY <2>1, EraseText
  <2>3. Len(Erase(f).content) \in Nat /\ ~ (Len(Erase(f).content) >= ContentSize)
    BY <2>1, <2>2 DEF Overruns, Text
  <2> HIDE DEF Erase
  <2>4. Len(Erase(f).content) < ContentSize
    BY <2>3, SizeAssumption
  <2> QED BY <2>1, <2>2, <2>4 DEF Fits
<1>3. CASE u # Backspace
  <2>1. u \in Seq(Bytes) /\ u # <<>>
    BY <1>3, UpdatesAssumption
  <2>2. efield_update(f, u) = Insert(f, u)
    BY <1>1, <1>3, <2>1 DEF efield_update
  <2>3. /\ Insert(f, u).content \in Seq(Bytes)
        /\ Len(Insert(f, u).content) = Len(f.content) + Len(u)
        /\ Len(f.content) + Len(u) < ContentSize => Text(Insert(f, u))
        /\ Whole(f.content) /\ u[1] \notin Conts => Whole(Insert(f, u).content)
    BY <2>1, InsertText
  <2>4. Len(Insert(f, u).content) \in Nat /\ ~ (Len(Insert(f, u).content) >= ContentSize)
    BY <2>2, <2>3 DEF Overruns
  <2>5. Len(Insert(f, u).content) < ContentSize
    BY <2>4, SizeAssumption
  <2> QED BY <2>2, <2>3, <2>5 DEF Fits
<1> QED BY <1>2, <1>3

LEMMA TypeWritten ==
  ASSUME TextInd, NEW u \in Updates \cup {Backspace}, TypeLeads(u) = "no"
  PROVE  /\ Written(KbdType(of, u))
         /\ ~torn /\ u[1] \notin Conts => Unbroken(KbdType(of, u))
<1> DEFINE f == AtHand(of)
           g == efield_update(f, u)
<1>1. Listed(of) /\ Written(of) /\ focus \in Inputs /\ FInd /\ (~torn => Unbroken(of))
  BY DEF TextInd, FInd
<1>2. \A i \in Inputs : KbdType(of, u)[i].efield = IF i = focus THEN g ELSE of[i].efield
  <2>1. KbdType(of, u) = [of EXCEPT ![focus].current = 0, ![focus].efield = g]
    BY DEF KbdType
  <2> HIDE DEF g
  <2> QED BY <1>1, <2>1 DEF Listed, Shows
<1>3. Text(f) /\ (~torn => Whole(f.content))
  <2>1. CASE of[focus].current # 0
    <3>1. f = efield_new(Start(of))
      BY <2>1 DEF AtHand
    <3> QED BY <1>1, <2>1, <3>1, StartText
  <2>2. CASE of[focus].current = 0
    <3>1. f = of[focus].efield
      BY <2>2 DEF AtHand
    <3> QED BY <1>1, <3>1 DEF Written, Unbroken, Fits
  <2> QED BY <2>1, <2>2
<1>4. (u = Backspace => ~ Walks(f)) /\ ~ Overruns(g)
  BY DEF TypeLeads
<1> HIDE DEF f
<1>5. Fits(g) /\ (Whole(f.content) /\ u[1] \notin Conts => Whole(g.content))
  BY <1>3, <1>4, UpdateText
<1> HIDE DEF g
<1> QED BY <1>1, <1>2, <1>3, <1>5 DEF Written, Unbroken

(* While every press began with a character no key walks out of a string.  *)
LEMMA NoneWalks ==
  ASSUME TextInd, ~torn
  PROVE  /\ \A u : TypeLeads(u) # "walked"
         /\ \A seek : ArrowLeads(seek) # "walked"
<1>1. Listed(of) /\ Written(of) /\ focus \in Inputs /\ FInd /\ Unbroken(of)
  BY DEF TextInd, FInd
<1>2. ~ Walks(of[focus].efield)
  BY <1>1, WholeStays DEF Written, Unbroken, Fits
<1>3. ~ Walks(AtHand(of))
  <2>1. CASE of[focus].current # 0
    BY <1>1, <2>1, StartText, WholeStays DEF AtHand
  <2>2. CASE of[focus].current = 0
    BY <1>2, <2>2 DEF AtHand
  <2> QED BY <2>1, <2>2
<1> QED BY <1>2, <1>3 DEF TypeLeads, ArrowLeads

(* A start shows no text that was typed.                                   *)
LEMMA RestoredWritten == ASSUME NEW f PROVE Written(Restored(f)) /\ Unbroken(Restored(f))
<1>1. \A i \in Inputs : Restored(f)[i].efield = Fresh[i].efield
  <2> DEFINE a == Matching(UserNames, f[1], Fresh["user"].current)
             u == [Fresh EXCEPT !["user"].current = a]
             b == Matching(Sessions, f[2], u["session"].current)
             s == [u EXCEPT !["session"].current = b]
             t == [s EXCEPT !["session"].current = Len(Sessions) + 1]
  <2>1. Restored(f) \in {Fresh, s, t}
    BY DEF Restored
  <2> HIDE DEF a, b
  <2> DEFINE Kept(x) ==
        /\ x = [i \in Inputs |-> x[i]]
        /\ \A i \in Inputs : /\ x[i] = [opts |-> x[i].opts, current |-> x[i].current,
                                        efield |-> x[i].efield]
                             /\ x[i].efield = Fresh[i].efield
  <2>2. Kept(Fresh)
    BY FreshListed DEF Listed, Shows
  <2>3. \A x, i, c : i \in Inputs /\ Kept(x) => Kept([x EXCEPT ![i].current = c])
    OBVIOUS
  <2> HIDE DEF Kept
  <2>4. Kept(s) /\ Kept(t)
    BY <2>2, <2>3 DEF Inputs
  <2> HIDE DEF s, t
  <2> QED BY <2>1, <2>2, <2>4 DEF Kept
<1> QED BY <1>1, FreshWritten DEF Written, Unbroken

(* The two lines that Enter writes, and what may be left of them.          *)
LEMMA LinesWritten ==
  ASSUME TextInd
  PROVE  Lines \in Seq(Bytes) \X Seq(Bytes) /\ Cut \subseteq Seq(Bytes) \X Seq(Bytes)
<1>0. FInd /\ Listed(of) /\ focus \in Inputs
  BY DEF TextInd, FInd
<1>1. UserOf(of).name \in Seq(Bytes) /\ UserOf(of).shell \in Seq(Bytes)
  <2>1. of["user"].current \in 0 .. Len(Users) /\ of["user"].efield.content \in Seq(Bytes)
    BY <1>0 DEF TextInd, Written, Fits, Text, Listed, Shows, Count, Inputs
  <2> QED BY <2>1, NamesAssumption, OptionsAssumption DEF UserOf, Whole
<1>2. SessionName(of) \in Seq(Bytes)
  <2>1. of["session"].current \in 0 .. Len(Sessions) + 1
        /\ of["session"].efield.content \in Seq(Bytes)
    BY <1>0, OptionsAssumption
       DEF TextInd, Written, Fits, Text, Listed, Shows, Count, Inputs
  <2>2. \A k \in 1 .. Len(Sessions) : Sessions[k] \in Seq(Bytes)
    BY OptionsAssumption
  <2> DEFINE c == of["session"].current
  <2>3. CASE c = 0
    <3>1. SessionName(of) = of["session"].efield.content
      BY <2>3, OptionsAssumption DEF SessionName, IsDefshell
    <3> QED BY <2>1, <3>1
  <2>4. CASE c # 0 /\ c = Len(Sessions) + 1
    BY <1>1, <2>4 DEF SessionName, IsDefshell
  <2>5. CASE c # 0 /\ c # Len(Sessions) + 1
    <3>1. c \in 1 .. Len(Sessions)
      BY <2>1, <2>5, OptionsAssumption
    <3>2. SessionName(of) = Sessions[c]
      BY <2>5 DEF SessionName, IsDefshell
    <3> QED BY <2>2, <3>1, <3>2
  <2> QED BY <2>3, <2>4, <2>5
<1> DEFINE t == SessionName(of)
<1>3. ASSUME NEW n \in 1 .. Len(t) - 1 PROVE SubSeq(t, 1, n) \in Seq(Bytes)
  <2> HIDE DEF t
  <2>1. t \in Seq(Bytes)
    BY <1>2 DEF t
  <2>2. \A k \in 1 .. n : t[k] \in Bytes
    BY <2>1
  <2> QED BY <2>2, SubSeqProperties
<1> HIDE DEF t
<1>4. Lines = <<UserOf(of).name, t>> /\ t \in Seq(Bytes)
  BY <1>2 DEF Lines, t
<1>5. Lines[1] = UserOf(of).name /\ Lines[2] = t
  BY <1>4
<1>6. Lines \in Seq(Bytes) \X Seq(Bytes)
  BY <1>1, <1>4
<1>7. ASSUME NEW n \in 1 .. Len(t) - 1
      PROVE  <<Lines[1], SubSeq(Lines[2], 1, n)>> \in Seq(Bytes) \X Seq(Bytes)
  BY <1>1, <1>3, <1>5
<1>8. Cut = {<<Lines[1], SubSeq(Lines[2], 1, n)>> : n \in 1 .. Len(t) - 1}
  BY <1>5 DEF Cut
<1> QED BY <1>6, <1>7, <1>8

LEMMA TextInductive == TextInd /\ [Next]_vars => TextInd'
<1> SUFFICES ASSUME TextInd, [Next]_vars PROVE TextInd'
  OBVIOUS
<1>0. FInd /\ Listed(of) /\ focus \in Inputs
  BY DEF TextInd, FInd
<1>1. FInd'
  BY <1>0, FormInductive
<1>2. esc' \in 0 .. 1
  <2>1. esc' = 1 \/ esc' = 0 \/ esc' = esc \/ Handled
    BY DEF Next, vars, Escape, Up, Down, Enter, DieWriting, Restart, Started, Arrow, Type
  <2>2. esc \in 0 .. 1
    BY DEF TextInd
  <2>3. CASE Handled
    BY <2>2, <2>3 DEF Handled
  <2> QED BY <2>1, <2>2, <2>3
<1>3. written' \in BOOLEAN /\ file' \in {<<>>} \cup (Seq(Bytes) \X Seq(Bytes))
  <2>1. CASE Enter
    <3>1. file' \in {file, <<>>, Lines} \cup Cut /\ written' \in BOOLEAN
      BY <2>1 DEF Enter
    <3> QED BY <3>1, LinesWritten DEF TextInd
  <2>2. CASE ~ Enter
    BY <2>2 DEF TextInd, Next, vars, saved, Escape, Up, Down, DieWriting, Restart, Arrow, Type
  <2> QED BY <2>1, <2>2
<1>4. /\ Written(of') /\ lost' \in {"no", "walked", "overran"} /\ torn' \in BOOLEAN
      /\ ~torn' => lost' # "walked" /\ Unbroken(of')
  <2> DEFINE Texts(fields, l, t) ==
        /\ Written(fields) /\ l \in {"no", "walked", "overran"} /\ t \in BOOLEAN
        /\ ~t => l # "walked" /\ Unbroken(fields)
  <2>0. Texts(of, lost, torn)
    BY DEF TextInd
  <2>1. ASSUME NEW seek \in {-1, 1}, Arrow(seek) PROVE Texts(of', lost', torn')
    <3>1. lost' = ArrowLeads(seek) /\ torn' = torn /\ lost' \in {"no", "walked"}
      BY <2>1 DEF Arrow, ArrowLeads
    <3>2. ~torn => lost' # "walked"
      BY <3>1, NoneWalks
    <3>3. CASE lost' = "no"
      <4>1. of' = IF esc # 0 THEN ChOfOpts(of, seek) ELSE ChEfCol(of, seek)
        BY <2>1, <3>3 DEF Arrow
      <4>2. Written(of') /\ (~torn => Unbroken(of'))
        BY <3>1, <3>3, <4>1, ArrowWritten
      <4> QED BY <2>0, <3>1, <3>2, <4>2
    <3>4. CASE lost' # "no"
      <4>1. of' = of
        BY <2>1, <3>4 DEF Arrow
      <4> QED BY <2>0, <3>1, <3>2, <4>1
    <3> QED BY <3>3, <3>4
  <2>2. ASSUME NEW u \in Updates \cup {Backspace}, Type(u) PROVE Texts(of', lost', torn')
    <3>1. /\ lost' = TypeLeads(u) /\ torn' = (torn \/ u[1] \in Conts)
          /\ lost' \in {"no", "walked", "overran"}
      BY <2>2 DEF Type, TypeLeads
    <3>2. ~torn => lost' # "walked"
      BY <3>1, NoneWalks
    <3>3. torn' \in BOOLEAN /\ (~torn' => ~torn /\ u[1] \notin Conts)
      BY <2>0, <3>1
    <3>4. CASE lost' = "no"
      <4>1. of' = KbdType(of, u)
        BY <2>2, <3>4 DEF Type
      <4>2. Written(of') /\ (~torn /\ u[1] \notin Conts => Unbroken(of'))
        BY <3>1, <3>4, <4>1, TypeWritten
      <4> QED BY <3>1, <3>2, <3>3, <4>2
    <3>5. CASE lost' # "no"
      <4>1. of' = of
        BY <2>2, <3>5 DEF Type
      <4> QED BY <2>0, <3>1, <3>2, <3>3, <4>1
    <3> QED BY <3>4, <3>5
  <2>3. ASSUME DieWriting PROVE Texts(of', lost', torn')
    BY <2>3, FreshWritten DEF DieWriting, Started
  <2>4. ASSUME Restart PROVE Texts(of', lost', torn')
    BY <2>4, RestoredWritten DEF Restart, Started
  <2>5. ASSUME Escape \/ Up \/ Down \/ Enter \/ UNCHANGED vars
        PROVE  Texts(of', lost', torn')
    BY <2>0, <2>5 DEF Escape, Up, Down, Enter, vars, text
  <2>6. Texts(of', lost', torn')
    <3> HIDE DEF Texts
    <3>1. \/ Escape \/ Up \/ Down \/ Enter \/ UNCHANGED vars
          \/ DieWriting
          \/ Restart
          \/ \E seek \in {-1, 1} : Arrow(seek)
          \/ \E u \in Updates \cup {Backspace} : Type(u)
      <4>1. Backspace \in Updates \cup {Backspace}
            /\ \A u \in Updates : u \in Updates \cup {Backspace}
        OBVIOUS
      <4> QED BY <4>1 DEF Next
    <3>2. CASE \E seek \in {-1, 1} : Arrow(seek)
      BY <2>1, <3>2
    <3>3. CASE \E u \in Updates \cup {Backspace} : Type(u)
      BY <2>2, <3>3
    <3> QED BY <2>3, <2>4, <2>5, <3>1, <3>2, <3>3
  <2> QED BY <2>6
<1> QED BY <1>1, <1>2, <1>3, <1>4 DEF TextInd, Written, Fits, Text, FieldOK

LEMMA TextInvariant == Spec => []TextInd
<1>1. Init => TextInd
  <2> SUFFICES ASSUME Init PROVE TextInd
    OBVIOUS
  <2>1. of = Fresh /\ focus = "passwd" /\ esc = 0 /\ lost = "no" /\ torn = FALSE
        /\ file = <<>> /\ written = FALSE
    BY DEF Init
  <2>2. FInd
    BY <2>1, FreshListed DEF FInd, Inputs
  <2>3. Written(of) /\ Unbroken(of)
    BY <2>1, FreshWritten
  <2>4. esc \in 0 .. 1 /\ lost \in {"no", "walked", "overran"} /\ lost # "walked"
        /\ file \in {<<>>} \cup (Seq(Bytes) \X Seq(Bytes))
    BY <2>1
  <2>5. torn \in BOOLEAN /\ written \in BOOLEAN
    BY <2>1
  <2> QED BY <2>2, <2>3, <2>4, <2>5 DEF TextInd
<1> QED BY <1>1, TextInductive, PTL DEF Spec

(* Options, cursors, the ESC counter and the file's two lines stay in      *)
(* their ranges: the cursor, a uint8_t, does not wrap before a text leaves *)
(* the memory of its field.                                                *)
THEOREM FormTypeCorrect == Spec => []FormTypeOK
<1>1. TextInd => FormTypeOK
  <2> SUFFICES ASSUME TextInd PROVE FormTypeOK
    OBVIOUS
  <2>1. ASSUME NEW i \in Inputs PROVE of[i] \in [opts : Nat, current : Nat, efield : Field]
    <3>1. Shows(of[i], Count(i)) /\ Count(i) \in Nat /\ Fits(of[i].efield)
      BY CountNat DEF TextInd, FInd, Listed, Written
    <3>2. of[i].efield \in Field
      BY <3>1, SizeAssumption DEF Fits, Text, FieldOK, Boundary, Field
    <3> QED BY <3>1, <3>2 DEF Shows
  <2>2. of = [i \in Inputs |-> of[i]]
    BY DEF TextInd, FInd, Listed
  <2> QED BY <2>1, <2>2 DEF TextInd, FInd, FormTypeOK
<1> QED BY <1>1, TextInvariant, PTL

(* Whatever bytes arrive, no edit stops inside a character, and while each *)
(* press begins with a character neither backspace nor an arrow leaves the *)
(* string (efield.c, utf8.c).                                              *)
THEOREM CursorsStandBetween == Spec => []CursorsBetweenCharacters
<1>1. TextInd => CursorsBetweenCharacters
  BY DEF TextInd, Written, Unbroken, Fits, Text, CursorsBetweenCharacters
<1> QED BY <1>1, TextInvariant, PTL

(* In every text that can come about, backspace takes out just what was    *)
(* typed, and an arrow back undoes an arrow.                               *)
THEOREM EditsAlwaysUndo == Spec => []EditsUndo
<1>1. TextInd => EditsUndo
  <2> SUFFICES ASSUME TextInd, NEW i \in Inputs
               PROVE  LET f == of[i].efield IN
    /\ \A u \in Updates : Character(u) /\ Len(f.content) + Len(u) < ContentSize =>
                            efield_update(efield_update(f, u), Backspace) = f
    /\ \A seek \in {-1, 1} : Sought(f, seek) \notin {f.pos, -1} =>
                               efield_seek(efield_seek(f, seek), -seek) = f
    BY DEF EditsUndo
  <2> DEFINE f == of[i].efield
  <2>1. Text(f)
    BY DEF TextInd, Written, Fits
  <2> HIDE DEF f
  <2>2. ASSUME NEW u \in Updates, Character(u), Len(f.content) + Len(u) < ContentSize
        PROVE  efield_update(efield_update(f, u), Backspace) = f
    <3>1. u \in Seq(Bytes) /\ u # <<>> /\ u # Backspace
      <4>1. u \in Seq(Bytes) /\ u # <<>> /\ u[1] \in Bytes
        BY UpdatesAssumption
      <4> QED BY <4>1, BytesAssumption DEF Backspace
    <3>2. \A g : Text(g) => [g EXCEPT !.pos = IF @ > Len(g.content) THEN Len(g.content)
                                              ELSE @] = g
      BY DEF Text, FieldOK, Boundary
    <3>3. efield_update(f, u) = Insert(f, u)
      BY <2>1, <3>1, <3>2 DEF efield_update
    <3>4. Text(Insert(f, u))
      BY <2>1, <2>2, <3>1, InsertText
    <3>5. efield_update(Insert(f, u), Backspace) = Erase(Insert(f, u))
      BY <3>2, <3>4 DEF efield_update, Backspace
    <3>6. u[1] \notin Conts /\ \A k \in 2 .. Len(u) : u[k] \in Conts
      BY <2>2 DEF Character
    <3>7. Erase(Insert(f, u)) = f
      BY <2>1, <2>2, <3>1, <3>6, TypingUndone
    <3> QED BY <3>3, <3>5, <3>7
  <2>3. ASSUME NEW seek \in {-1, 1}, Sought(f, seek) \notin {f.pos, -1}
        PROVE  efield_seek(efield_seek(f, seek), -seek) = f
    BY <2>1, <2>3, SeekUndone
  <2> QED BY <2>2, <2>3 DEF f
<1> QED BY <1>1, TextInvariant, PTL

(* No two users, and no two sessions, have one name, and no shell that is  *)
(* offered is called like a session: what the file takes for granted.      *)
Distinct == /\ \A i, j \in 1 .. Len(Users) : Users[i].name = Users[j].name => i = j
            /\ \A i, j \in 1 .. Len(Sessions) : Sessions[i] = Sessions[j] => i = j
            /\ Defshell => \A i \in 1 .. Len(Users), j \in 1 .. Len(Sessions) :
                             Users[i].shell # Sessions[j]

(* The file has the names of the options that were launched last, if both  *)
(* lines got there.                                                        *)
NamesOf(u, s) == <<Users[u].name,
                   IF s = Len(Sessions) + 1 THEN Users[u].shell ELSE Sessions[s]>>
Kept(l, f) == /\ l[1] \in 1 .. Len(Users) /\ l[2] \in 1 .. Count("session")
              /\ l = <<l[1], l[2]>> /\ f = NamesOf(l[1], l[2])
LastKept == written /\ last # <<>> => Kept(last, file)
LastInd == FInd /\ LastKept

LEMMA LastInductive == LastInd /\ [Next]_vars => LastInd'
<1> SUFFICES ASSUME LastInd, [Next]_vars PROVE LastKept'
  BY FormInductive DEF LastInd
<1>1. CASE Enter
  <2> DEFINE u == of["user"].current
             s == of["session"].current
  <2>0. SUFFICES ASSUME written', last' # <<>> PROVE Kept(last', file')
    BY DEF LastKept
  <2>1. u \in 0 .. Len(Users) /\ s \in 0 .. Count("session") /\ Chosen = <<u, s>>
    BY DEF LastInd, FInd, Listed, Shows, Count, Inputs, Chosen
  <2>2. u # 0 /\ s # 0 /\ last' = <<u, s>> /\ file' = Lines
    BY <1>1, <2>0, <2>1 DEF Enter
  <2>3. Lines = NamesOf(u, s)
    BY <2>2 DEF Lines, UserOf, SessionName, IsDefshell, NamesOf
  <2> HIDE DEF u, s
  <2>4. u \in 1 .. Len(Users) /\ s \in 1 .. Count("session")
    BY <2>1, <2>2, OptionsAssumption, CountNat DEF Inputs
  <2> QED BY <2>2, <2>3, <2>4 DEF Kept
<1>2. CASE DieWriting
  BY <1>2 DEF DieWriting, LastKept
<1>3. CASE UNCHANGED saved
  <2>1. file' = file /\ last' = last /\ written' = written
    BY <1>3 DEF saved
  <2> QED BY <2>1 DEF LastInd, LastKept
<1>4. ASSUME NEW seek \in {-1, 1}, Arrow(seek) PROVE UNCHANGED saved
  BY <1>4 DEF Arrow
<1>5. ASSUME NEW u, Type(u) PROVE UNCHANGED saved
  BY <1>5 DEF Type
<1>6. CASE Escape \/ Up \/ Down \/ Restart \/ UNCHANGED vars
  <2>1. UNCHANGED saved
    BY <1>6 DEF Escape, Up, Down, Restart, vars
  <2> QED BY <1>3, <2>1
<1> QED BY <1>1, <1>2, <1>3, <1>4, <1>5, <1>6 DEF Next

LEMMA MatchingIs ==
  ASSUME NEW names, Len(names) \in Nat, NEW i \in 1 .. Len(names), NEW default,
         \A j \in 1 .. Len(names) : names[j] = names[i] => j = i
  PROVE  Matching(names, names[i], default) = i
<1> DEFINE at == {j \in 1 .. Len(names) : names[j] = names[i]}
<1>1. at = {i} /\ at \in SUBSET Nat
  OBVIOUS
<1>2. Matching(names, names[i], default) = Min(at)
  BY <1>1 DEF Matching
<1> HIDE DEF at
<1>3. Min(at) \in at
  BY <1>1, MinIn
<1> QED BY <1>1, <1>2, <1>3

(* Where names are distinct, a start shows the two options launched last,  *)
(* if the state file got both their lines, whatever keys, crashes and other*)
(* starts lie between.  The run FormNames shows that two sessions of one   *)
(* name defeat it.                                                         *)
THEOREM LastRestored == ASSUME Distinct PROVE Spec => RestoresLast
<1>1. Init => LastInd
  BY FreshListed DEF Init, LastInd, LastKept, FInd, Inputs
<1>3. Spec => []LastInd
  BY <1>1, LastInductive, PTL DEF Spec
<1>2. LastInd /\ [Next]_vars =>
        [Restart /\ written /\ last # <<>> => Chosen' = last]_vars
  <2> SUFFICES ASSUME LastInd, Restart, written, last # <<>>
               PROVE  Chosen' = last
    OBVIOUS
  <2> DEFINE i == last[1]
             k == last[2]
             u == [Fresh EXCEPT !["user"].current = i]
             b == Matching(Sessions, file[2], Fresh["session"].current)
  <2>1. /\ i \in 1 .. Len(Users) /\ k \in 1 .. Count("session") /\ last = <<i, k>>
        /\ file = NamesOf(i, k) /\ Len(Sessions) \in Nat /\ Len(Users) \in Nat
        /\ of' = Restored(file)
    BY OptionsAssumption DEF LastInd, LastKept, Kept, Restart
  <2> HIDE DEF i, k
  <2>2. file # <<>> /\ file[1] = Users[i].name
        /\ file[2] = IF k = Len(Sessions) + 1 THEN Users[i].shell ELSE Sessions[k]
    BY <2>1 DEF NamesOf
  <2>3. Matching(UserNames, file[1], Fresh["user"].current) = i
    <3>1. /\ Len(UserNames) = Len(Users) /\ file[1] = UserNames[i]
          /\ \A j \in 1 .. Len(Users) : UserNames[j] = UserNames[i] => j = i
      BY <2>1, <2>2 DEF UserNames, Distinct
    <3>2. Matching(UserNames, UserNames[i], Fresh["user"].current) = i
      <4>1. /\ Len(UserNames) \in Nat /\ i \in 1 .. Len(UserNames)
            /\ \A j \in 1 .. Len(UserNames) : UserNames[j] = UserNames[i] => j = i
        BY <2>1, <3>1
      <4> QED BY <4>1, MatchingIs, Zenon
    <3> QED BY <3>1, <3>2
  <2>4. /\ Fresh = [n \in Inputs |-> Fresh[n]]
        /\ \A n \in Inputs : Fresh[n] = [opts |-> Fresh[n].opts,
                               current |-> Fresh[n].current, efield |-> Fresh[n].efield]
    BY FreshListed DEF Listed, Shows
  <2>5. UserOf(u).shell = Users[i].shell
    BY <2>1, <2>4 DEF UserOf, Inputs
  <2>6. u["session"].current = Fresh["session"].current
    BY <2>4 DEF Inputs
  <2>7. Restored(file) = IF Defshell /\ Users[i].shell = file[2]
                         THEN [u EXCEPT !["session"].current = Len(Sessions) + 1]
                         ELSE [u EXCEPT !["session"].current = b]
    <3>1. [[u EXCEPT !["session"].current = b]
             EXCEPT !["session"].current = Len(Sessions) + 1]
          = [u EXCEPT !["session"].current = Len(Sessions) + 1]
      BY <2>4 DEF Inputs
    <3> QED BY <2>2, <2>3, <2>5, <2>6, <3>1 DEF Restored
  <2> HIDE DEF b
  <2>8. \A c : [u EXCEPT !["session"].current = c]["user"].current = i
               /\ [u EXCEPT !["session"].current = c]["session"].current = c
    BY <2>4 DEF Inputs
  <2> DEFINE r(c) == [u EXCEPT !["session"].current = c]
  <2>9. /\ Chosen' = <<Restored(file)["user"].current, Restored(file)["session"].current>>
         /\ \A c : r(c)["user"].current = i /\ r(c)["session"].current = c
         /\ Restored(file) = IF Defshell /\ Users[i].shell = file[2]
                             THEN r(Len(Sessions) + 1) ELSE r(b)
    BY <2>1, <2>7, <2>8 DEF Chosen
  <2> HIDE DEF r
  <2>10. CASE k = Len(Sessions) + 1
    <3>1. Defshell /\ file[2] = Users[i].shell
      BY <2>1, <2>2, <2>10, OptionsAssumption DEF Count
    <3> QED BY <2>1, <2>9, <2>10, <3>1
  <2>11. CASE k # Len(Sessions) + 1
    <3>1. k \in 1 .. Len(Sessions) /\ file[2] = Sessions[k]
      BY <2>1, <2>2, <2>11 DEF Count
    <3>2. b = k
      <4>1. Matching(Sessions, Sessions[k], Fresh["session"].current) = k
        <5>1. /\ Len(Sessions) \in Nat /\ k \in 1 .. Len(Sessions)
              /\ \A j \in 1 .. Len(Sessions) : Sessions[j] = Sessions[k] => j = k
          BY <2>1, <3>1 DEF Distinct
        <5> QED BY <5>1, MatchingIs, Zenon
      <4> QED BY <3>1, <4>1 DEF b
    <3>3. ~ (Defshell /\ Users[i].shell = file[2])
      BY <2>1, <3>1 DEF Distinct
    <3> QED BY <2>1, <2>9, <3>2, <3>3
  <2> QED BY <2>10, <2>11
<1> QED BY <1>2, <1>3, PTL DEF Spec, RestoresLast
=============================================================================
