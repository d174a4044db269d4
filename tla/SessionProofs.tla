--------------------------- MODULE SessionProofs ---------------------------
(***************************************************************************)
(* What holds of every session, environment and set of files: no vector is *)
(* overrun, no string is freed that is in use, and all strings are there,  *)
(* in the order that decides which one counts; the command line for a login*)
(* shell fills what was counted for it, and the program sees its words.    *)
(***************************************************************************)
EXTENDS CommandProofs

(* A sequence, of whatever strings.                                        *)
IsList(s) == \E S : s \in Seq(S)

LEMMA ListAppend ==
  ASSUME NEW s, IsList(s), NEW e
  PROVE  IsList(Append(s, e)) /\ Len(s) \in Nat /\ Len(Append(s, e)) = Len(s) + 1
<1>1. PICK S : s \in Seq(S)
  BY DEF IsList
<1>2. s \in Seq(S \cup {e})
  BY <1>1
<1> QED BY <1>2 DEF IsList

(* The vector with its room, and how many extras may still come.           *)
Vec(v) == /\ v = [items |-> v.items, cap |-> v.cap]
          /\ IsList(v.items) /\ v.cap \in Nat /\ Len(v.items) <= v.cap
Coming(j) == Cardinality(ExtrasTo(Len(Extras)) \ ExtrasTo(j))

(* The inductive invariant behind EnvironmentInv.                          *)
EnvInd == /\ Vec(env)
          /\ setup \in Setup /\ k \in Nat \ {0}
          /\ estep \in {"getenvlist", "merge", "extras", "open", "lines", "ready",
                        "x11 ready", "merge failed", "crashed", "failed"}
          /\ estep \in {"merge", "ready", "x11 ready"} => Len(env.items) < env.cap
          /\ estep \in {"getenvlist", "merge"} => k = 1
          /\ estep = "extras" => k <= 8 /\ Len(env.items) + Coming(k - 1) < env.cap

LEMMA ExtrasLength == Len(Extras) = 7
BY DEF Extras

(* The extras with a value are finitely many, before any of them there is  *)
(* none, and each of them is one more.                                     *)
LEMMA ExtrasFinite == \A j \in 0 .. 7 : IsFiniteSet(ExtrasTo(j))
<1> DEFINE C == {Extra(1)} \cup {Extra(2)} \cup {Extra(3)} \cup {Extra(4)}
           E == C \cup {Extra(5)} \cup {Extra(6)} \cup {Extra(7)}
<1>1. IsFiniteSet(E)
  <2>1. IsFiniteSet({Extra(1)})
    BY FS_Singleton
  <2>2. IsFiniteSet({Extra(1)} \cup {Extra(2)})
    BY <2>1, FS_AddElement
  <2>3. IsFiniteSet({Extra(1)} \cup {Extra(2)} \cup {Extra(3)})
    BY <2>2, FS_AddElement
  <2>4. IsFiniteSet(C)
    BY <2>3, FS_AddElement
  <2> HIDE DEF C
  <2>5. IsFiniteSet(C \cup {Extra(5)})
    BY <2>4, FS_AddElement
  <2>6. IsFiniteSet(C \cup {Extra(5)} \cup {Extra(6)})
    BY <2>5, FS_AddElement
  <2> QED BY <2>6, FS_AddElement
<1>2. \A j \in 0 .. 7 : ExtrasTo(j) \subseteq E
  BY DEF ExtrasTo
<1> QED BY <1>1, <1>2, FS_Subset

LEMMA ExtrasNone == ExtrasTo(0) = {}
BY DEF ExtrasTo

LEMMA ExtrasNext ==
  ASSUME NEW j \in 1 .. 7
  PROVE  /\ Extras[j] \in setup.unset => ExtrasTo(j) = ExtrasTo(j - 1)
         /\ Extras[j] \notin setup.unset =>
              ExtrasTo(j) = ExtrasTo(j - 1) \cup {Extra(j)} /\ Extra(j) \notin ExtrasTo(j - 1)
<1>1. \A i \in 1 .. 7 : Extra(i) = Extra(j) => i = j
  <2> TAKE i \in 1 .. 7
  <2>1. Extra(i).at = <<0, i>> /\ Extra(j).at = <<0, j>>
    BY DEF Extra, String
  <2> QED BY <2>1
<1>2. 1 .. j = 1 .. (j - 1) \cup {j} /\ 1 .. j \subseteq 1 .. 7
  OBVIOUS
<1> QED BY <1>1, <1>2 DEF ExtrasTo

LEMMA ComingNext ==
  ASSUME NEW j \in 1 .. 7
  PROVE  /\ Coming(j) \in Nat /\ Coming(j - 1) \in Nat
         /\ Extras[j] \in setup.unset => Coming(j) = Coming(j - 1)
         /\ Extras[j] \notin setup.unset => Coming(j) = Coming(j - 1) - 1
<1> DEFINE X == ExtrasTo(7)
<1>1. IsFiniteSet(X \ ExtrasTo(j)) /\ IsFiniteSet(X \ ExtrasTo(j - 1))
  BY ExtrasFinite, FS_Subset
<1>2. Coming(j) \in Nat /\ Coming(j - 1) \in Nat
  BY <1>1, FS_CardinalityType, ExtrasLength DEF Coming
<1>3. ASSUME Extras[j] \notin setup.unset PROVE Coming(j) = Coming(j - 1) - 1
  <2>1. Extra(j) \in X
    BY <1>3 DEF ExtrasTo
  <2>2. /\ X \ ExtrasTo(j) = (X \ ExtrasTo(j - 1)) \ {Extra(j)}
        /\ Extra(j) \in X \ ExtrasTo(j - 1)
    BY <1>3, <2>1, ExtrasNext
  <2> DEFINE Y == X \ ExtrasTo(j - 1)
  <2>3. Coming(j) = Cardinality(Y \ {Extra(j)}) /\ Coming(j - 1) = Cardinality(Y)
    BY <2>2, ExtrasLength DEF Coming
  <2>4. IsFiniteSet(Y) /\ Extra(j) \in Y
    BY <1>1, <2>2
  <2> HIDE DEF Y
  <2>5. Cardinality(Y \ {Extra(j)}) = Cardinality(Y) - 1
    BY <2>4, FS_RemoveElement
  <2> QED BY <2>3, <2>5
<1> QED BY <1>2, <1>3, ExtrasNext DEF Coming

LEMMA ComingFirst == Coming(0) \in Nat /\ Coming(0) = Cardinality(ExtrasTo(Len(Extras)))
<1>1. ExtrasTo(Len(Extras)) \ ExtrasTo(0) = ExtrasTo(Len(Extras))
  BY ExtrasNone
<1>2. IsFiniteSet(ExtrasTo(Len(Extras)))
  BY ExtrasFinite, ExtrasLength
<1> QED BY <1>1, <1>2, FS_CardinalityType DEF Coming

(* A vector may be given away and begun anew, and one that may be full has *)
(* room for one more when it was pushed.                                   *)
LEMMA VecLength == ASSUME NEW v, Vec(v) PROVE Len(v.items) \in Nat
BY DEF Vec, IsList

LEMMA RawFits == ASSUME NEW s, IsList(s) PROVE Vec(FromRaw(s)) /\ FromRaw(s).items = s
BY DEF Vec, FromRaw, IsList

LEMMA PushedFits ==
  ASSUME NEW v, Vec(v), NEW s
  PROVE  /\ Vec(Pushed(v, s)) /\ Vec(Ended(v))
         /\ Len(Ended(v).items) < Ended(v).cap
<1>1. Len(v.items) \in Nat /\ v.cap \div 2 \in Nat /\ Len(v.items) <= v.cap
  BY DEF Vec, IsList
<1>2. \A t : Pushed(v, t).cap \in Nat /\ Len(v.items) + 1 <= Pushed(v, t).cap
  BY <1>1 DEF Pushed, Vec
<1>3. Vec(Pushed(v, s))
  <2>1. /\ Pushed(v, s).items = Append(v.items, s)
        /\ Pushed(v, s) = [items |-> Pushed(v, s).items, cap |-> Pushed(v, s).cap]
    BY DEF Pushed
  <2> QED BY <1>1, <1>2, <2>1, ListAppend DEF Vec
<1>4. /\ Ended(v).items = v.items /\ Ended(v).cap = Pushed(v, Null).cap
      /\ Ended(v) = [items |-> Ended(v).items, cap |-> Ended(v).cap]
  BY DEF Ended, Vec
<1>5. Len(Ended(v).items) < Ended(v).cap
  BY <1>1, <1>2, <1>4
<1> QED BY <1>1, <1>2, <1>3, <1>4, <1>5 DEF Vec

(* Every step of the environment keeps it.                                 *)
LEMMA EnvironmentStep == EnvInd /\ EnvironmentNext => EnvInd'
<1> SUFFICES ASSUME EnvInd, EnvironmentNext PROVE EnvInd'
  OBVIOUS
<1>1. Vec(env) /\ Len(env.items) \in Nat /\ env.cap \in Nat /\ IsList(env.items)
  BY VecLength DEF EnvInd, Vec
<1>0. Vec(FromRaw(<<>>))
  <2>1. <<>> \in Seq({})
    OBVIOUS
  <2> QED BY <2>1, RawFits DEF IsList
<1>2. setup' = setup => Coming(k - 1)' = Coming(k' - 1)
  BY DEF Coming, ExtrasTo, Extra, String
<1>3. CASE GetEnvList
  <2>1. IsList(FromPam) /\ Len(FromPam) \in Nat
    <3>1. setup.pam \in Seq(STRING)
      BY DEF EnvInd, Setup
    <3>2. Len(setup.pam) \in Nat
      BY <3>1
    <3> DEFINE T == {String(setup.pam[j], "pam", <<0, j>>) : j \in 1 .. Len(setup.pam)}
    <3>3. FromPam \in [1 .. Len(setup.pam) -> T]
      BY DEF FromPam
    <3> HIDE DEF T
    <3>4. FromPam \in Seq(T)
      BY <3>2, <3>3
    <3> QED BY <3>4 DEF IsList
  <2>2. CASE env' = [items |-> FromPam, cap |-> Len(FromPam) + 1] /\ estep' = "merge"
    <3>1. Vec(env') /\ Len(env'.items) < env'.cap
      BY <2>1, <2>2 DEF Vec
    <3> QED BY <1>3, <2>2, <3>1 DEF GetEnvList, EnvInd
  <2>3. CASE estep' = "failed" /\ UNCHANGED env
    BY <1>1, <1>3, <2>3 DEF GetEnvList, EnvInd
  <2> QED BY <1>3, <2>2, <2>3 DEF GetEnvList
<1>4. CASE Merge
  <2>0. k = 1 /\ k' = k /\ setup' = setup
    BY <1>4 DEF Merge, EnvInd
  <2>1. CASE /\ env' = [env EXCEPT !.cap = Len(env.items) +
                            Cardinality(ExtrasTo(Len(Extras))) + 1]
             /\ estep' = "extras"
    <3>1. env' = [items |-> env.items, cap |-> Len(env.items) + Coming(0) + 1]
      BY <1>1, <2>1, ComingFirst DEF Vec
    <3>2. Vec(env') /\ Len(env'.items) + Coming(0) < env'.cap
      BY <1>1, <3>1, ComingFirst DEF Vec
    <3>3. Coming(k - 1)' = Coming(0)
      BY <1>2, <2>0
    <3>4. (Len(env.items) + Coming(k - 1) < env.cap)'
      BY <3>2, <3>3
    <3>5. estep' = "extras" /\ k' = 1 /\ setup' \in Setup
      BY <2>0, <2>1 DEF EnvInd
    <3>6. (estep = "extras" => k <= 8 /\ Len(env.items) + Coming(k - 1) < env.cap)'
      BY <3>4, <3>5
    <3>7. /\ k' \in Nat \ {0}
          /\ (estep \in {"merge", "ready", "x11 ready"} => Len(env.items) < env.cap)'
          /\ (estep \in {"getenvlist", "merge"} => k = 1)'
      BY <3>5
    <3>8. Vec(env)'
      BY <3>2
    <3> QED BY <3>5, <3>6, <3>7, <3>8 DEF EnvInd
  <2>2. CASE env' = FromRaw(<<>>) /\ estep' = "merge failed"
    BY <1>0, <2>0, <2>2 DEF EnvInd
  <2> QED BY <1>4, <2>1, <2>2 DEF Merge
<1>5. CASE AddExtra
  <2>0. /\ k \in 1 .. 7 /\ k' = k + 1 /\ setup' = setup
        /\ estep = "extras" /\ estep' = "extras"
        /\ Len(env.items) + Coming(k - 1) < env.cap
    BY <1>5, ExtrasLength DEF AddExtra, EnvInd
  <2>1. Coming(k - 1)' = Coming(k) /\ Coming(k) \in Nat /\ Coming(k - 1) \in Nat
    <3>1. k' - 1 = k
      BY <2>0
    <3> QED BY <1>2, <2>0, <3>1, ComingNext
  <2>2. CASE Extras[k] \in setup.unset
    <3>1. env' = env /\ Coming(k) = Coming(k - 1)
      BY <1>5, <2>0, <2>2, ComingNext DEF AddExtra
    <3> QED BY <1>1, <2>0, <2>1, <3>1 DEF EnvInd
  <2>3. CASE Extras[k] \notin setup.unset
    <3>1. /\ env' = [env EXCEPT !.items = Append(@, Extra(k))]
          /\ Coming(k) = Coming(k - 1) - 1
      BY <1>5, <2>0, <2>3, ComingNext DEF AddExtra
    <3>2. env' = [items |-> Append(env.items, Extra(k)), cap |-> env.cap]
      BY <1>1, <3>1 DEF Vec
    <3>3. IsList(Append(env.items, Extra(k)))
          /\ Len(Append(env.items, Extra(k))) = Len(env.items) + 1
      BY <1>1, ListAppend
    <3>4. Len(env.items) + 1 <= env.cap
      BY <1>1, <2>0, <2>1, <3>1
    <3>5. /\ env'.items = Append(env.items, Extra(k)) /\ env'.cap = env.cap
          /\ env' = [items |-> env'.items, cap |-> env'.cap]
      BY <3>2
    <3>6. Vec(env') /\ Len(env'.items) + Coming(k) < env'.cap
      BY <1>1, <2>0, <2>1, <3>1, <3>3, <3>4, <3>5 DEF Vec
    <3>7. (Len(env.items) + Coming(k - 1) < env.cap)'
      BY <2>1, <3>6
    <3> QED BY <2>0, <3>6, <3>7 DEF EnvInd
  <2> QED BY <2>2, <2>3
<1>6. CASE CleanUp
  <2>1. env' = FromRaw(<<>>) /\ UNCHANGED <<setup, k>>
    BY <1>6 DEF CleanUp
  <2>2. CASE estep' = "merge failed"
    BY <1>0, <2>1, <2>2 DEF EnvInd
  <2>3. CASE estep' = "crashed"
    BY <1>0, <2>1, <2>3 DEF EnvInd
  <2> QED BY <1>6, <2>2, <2>3 DEF CleanUp
<1>7. CASE Merged
  BY <1>1, <1>7, RawFits DEF Merged, EnvInd, Vec
<1>8. CASE OpenFile
  <2>1. /\ estep = "open" /\ estep' \in {"open", "lines"} /\ k' \in {k, k + 1}
        /\ UNCHANGED <<setup, env>>
    BY <1>8 DEF OpenFile
  <2>2. k' \in Nat \ {0} /\ Vec(env')
    BY <1>1, <2>1 DEF EnvInd
  <2>3. CASE estep' = "open"
    BY <2>1, <2>2, <2>3 DEF EnvInd
  <2>4. CASE estep' = "lines"
    BY <2>1, <2>2, <2>4 DEF EnvInd
  <2> QED BY <2>1, <2>3, <2>4
<1>9. CASE ReadLine
  BY <1>1, <1>9, PushedFits DEF ReadLine, EnvInd
<1>10. CASE CloseFile
  BY <1>1, <1>10 DEF CloseFile, EnvInd
<1>11. CASE Terminate
  BY <1>1, <1>11, PushedFits DEF Terminate, EnvInd
<1>12. CASE PushDisplay
  BY <1>1, <1>12, PushedFits, RawFits DEF PushDisplay, EnvInd, Vec
<1> QED BY <1>3, <1>4, <1>5, <1>6, <1>7, <1>8, <1>9, <1>10, <1>11, <1>12
        DEF EnvironmentNext

LEMMA EnvironmentKept == EnvInd /\ UNCHANGED environmentVars => EnvInd'
<1> SUFFICES ASSUME EnvInd, UNCHANGED environmentVars PROVE EnvInd'
  OBVIOUS
<1>1. setup' = setup /\ estep' = estep /\ env' = env /\ k' = k
  BY DEF environmentVars
<1>2. Coming(k - 1)' = Coming(k - 1)
  BY <1>1 DEF Coming, ExtrasTo, Extra, String
<1> QED BY <1>1, <1>2 DEF EnvInd

LEMMA EnvironmentInitially == Init => EnvInd
<1> SUFFICES ASSUME Init PROVE EnvInd
  OBVIOUS
<1>1. start.setup \in Setup
  BY StartsAssumption DEF Init
<1>2. setup \in Setup /\ env = FromRaw(<<>>) /\ k = 1
      /\ estep = "getenvlist"
  BY <1>1 DEF Init, EnvironmentInit
<1>3. Vec(FromRaw(<<>>))
  <2>1. <<>> \in Seq({})
    OBVIOUS
  <2> QED BY <2>1, RawFits DEF IsList
<1> QED BY <1>2, <1>3 DEF EnvInd

(* No vector of the environment is written past its capacity, whatever PAM *)
(* gives, the files hold and the allocations do.                           *)
THEOREM EnvironmentCorrect == Spec => []EnvironmentInv
<1>1. EnvInd /\ [Next]_vars => EnvInd'
  BY EnvironmentStep, EnvironmentKept
  DEF Next, Parse, List, Prepare, Begin, Count, Allocate, Join, JoinEnds, Exec, vars
<1>2. EnvInd => EnvironmentInv
  BY DEF EnvInd, EnvironmentInv, Vec, Coming
<1> QED BY <1>1, <1>2, EnvironmentInitially, PTL DEF Spec
----------------------------------------------------------------------------
(* What may be in a list, and in which order.                              *)
Known(s) == s \in Wanted \/ Sourced(s) \/ s = Display
Listed(q) == /\ \A i \in DOMAIN q : Known(q[i])
             /\ \A i, j \in DOMAIN q : i < j => Before(q[i], q[j])

(* The lines that have been read.                                          *)
Passed(s) == \/ s.at[1] < k
             \/ estep = "lines" /\ s.at[1] = k /\ s.at[2] <= line

(* How far the list has got: what each step finds in it.                   *)
Collected ==
  /\ line \in Nat
  /\ estep = "merge" => Range(env.items) = Range(FromPam) /\ live = Range(FromPam)
  /\ estep = "extras" => /\ Range(env.items) = Range(FromPam) \cup ExtrasTo(k - 1)
                         /\ live = Range(FromPam) \cup ExtrasTo(k - 1)
  /\ estep \in {"open", "lines", "ready", "x11 ready"} => Wanted \subseteq Range(env.items)
  /\ estep \in {"open", "lines"} =>
       \A s \in Range(env.items) : s \in Wanted \/ (Sourced(s) /\ Passed(s))
  /\ estep = "lines" => k <= Len(Files) /\ Files[k] # Missing
  /\ estep = "ready" => \A s \in Range(env.items) : s \in Wanted \/ Sourced(s)

(* The inductive invariant behind the two properties of the list.          *)
ListInd == EnvInd /\ Listed(env.items) /\ Range(env.items) \subseteq live /\ Collected

(* A step that leaves the launch alone leaves alone what it may collect.   *)
LEMMA SetupKept ==
  ASSUME setup' = setup
  PROVE  /\ FromPam' = FromPam /\ Files' = Files /\ Wanted' = Wanted
         /\ \A j : ExtrasTo(j)' = ExtrasTo(j)
         /\ \A s : (Sourced(s)' <=> Sourced(s)) /\ (Known(s)' <=> Known(s))
         /\ \A q : Listed(q)' <=> Listed(q)
<1>1. FromPam' = FromPam
  BY DEF FromPam, String
<1>2. Files' = Files
  BY DEF Files, HasHome
<1>3. \A j : ExtrasTo(j)' = ExtrasTo(j)
  BY DEF ExtrasTo, Extra, String
<1>4. Wanted' = Wanted
  BY <1>1, <1>3 DEF Wanted
<1>5. \A s : Sourced(s)' <=> Sourced(s)
  BY <1>2 DEF Sourced, Sets, String
<1>6. \A s : Known(s)' <=> Known(s)
  BY <1>4, <1>5 DEF Known, Display, String
<1>7. \A q : Listed(q)' <=> Listed(q)
  BY <1>6 DEF Listed, Before, Earlier
<1> QED BY <1>1, <1>2, <1>3, <1>4, <1>5, <1>6, <1>7

LEMMA FilesTyped == setup \in Setup => Files \in Seq(Seq(STRING))
<1> SUFFICES ASSUME setup \in Setup PROVE Files \in Seq(Seq(STRING))
  OBVIOUS
<1>1. setup.source \in Seq(Seq(STRING)) /\ setup.user_source \in Seq(Seq(STRING))
  BY DEF Setup
<1>2. \A T : <<>> \in Seq(T)
  OBVIOUS
<1>3. CASE HasHome
  BY <1>1, <1>3 DEF Files
<1>4. CASE ~ HasHome
  <2>1. Files = setup.source \o <<>> /\ <<>> \in Seq(Seq(STRING))
    BY <1>2, <1>4, Zenon DEF Files
  <2> HIDE DEF Files
  <2> QED BY <1>1, <2>1
<1> QED BY <1>3, <1>4

(* Where a string comes from is written on it.                             *)
LEMMA Origins ==
  ASSUME setup \in Setup, NEW s
  PROVE  /\ s \in Range(FromPam) => s.from = "pam" /\ s.at[1] = 0 /\ s.at[2] \in Nat
         /\ \A j \in 0 .. 7 : s \in ExtrasTo(j) =>
              s.from = "lidm" /\ s.at[1] = 0 /\ s.at[2] \in 1 .. j
         /\ Sourced(s) => s.from = "file" /\ s.at[1] \in Nat /\ s.at[2] \in Nat
         /\ s = Display => s.from = "x"
<1>1. ASSUME s \in Range(FromPam) PROVE s.from = "pam" /\ s.at[1] = 0 /\ s.at[2] \in Nat
  <2>1. PICK j \in 1 .. Len(setup.pam) : s = String(setup.pam[j], "pam", <<0, j>>)
    BY <1>1 DEF FromPam, Range
  <2>2. Len(setup.pam) \in Nat
    BY DEF Setup
  <2> QED BY <2>1, <2>2 DEF String
<1>2. ASSUME NEW j \in 0 .. 7, s \in ExtrasTo(j)
      PROVE  s.from = "lidm" /\ s.at[1] = 0 /\ s.at[2] \in 1 .. j
  BY <1>2 DEF ExtrasTo, Extra, String
<1>3. ASSUME Sourced(s) PROVE s.from = "file" /\ s.at[1] \in Nat /\ s.at[2] \in Nat
  <2>1. PICK f \in DOMAIN Files : \E l \in DOMAIN Files[f] :
          s = String(Files[f][l], "file", <<f, l>>)
    BY <1>3 DEF Sourced
  <2>2. Files \in Seq(Seq(STRING))
    BY FilesTyped
  <2>3. DOMAIN Files \subseteq Nat /\ DOMAIN Files[f] \subseteq Nat
    BY <2>2
  <2> QED BY <2>1, <2>3 DEF String
<1>4. s = Display => s.from = "x"
  BY DEF Display, String
<1> QED BY <1>1, <1>2, <1>3, <1>4

(* Whatever stands behind all there is may be added.                       *)
LEMMA ListedAppend ==
  ASSUME NEW q, IsList(q), Listed(q), NEW e, Known(e),
         \A s \in Range(q) : Before(s, e)
  PROVE  Listed(Append(q, e)) /\ Range(Append(q, e)) = Range(q) \cup {e}
<1>1. PICK S : q \in Seq(S)
  BY DEF IsList
<1>2. /\ DOMAIN Append(q, e) = DOMAIN q \cup {Len(q) + 1}
      /\ DOMAIN q = 1 .. Len(q) /\ Len(q) \in Nat
      /\ \A i \in DOMAIN q : Append(q, e)[i] = q[i]
      /\ Append(q, e)[Len(q) + 1] = e
  BY <1>1
<1>3. Range(Append(q, e)) = Range(q) \cup {e}
  BY <1>2, Zenon DEF Range
<1>4. \A i \in DOMAIN Append(q, e) : Known(Append(q, e)[i])
  BY <1>2 DEF Listed
<1>5. ASSUME NEW i \in DOMAIN Append(q, e), NEW j \in DOMAIN Append(q, e), i < j
      PROVE  Before(Append(q, e)[i], Append(q, e)[j])
  <2>1. i \in DOMAIN q
    BY <1>2, <1>5
  <2>2. q[i] \in Range(q)
    BY <2>1 DEF Range
  <2> QED BY <1>2, <1>5, <2>1, <2>2 DEF Listed
<1> QED BY <1>3, <1>4, <1>5 DEF Listed

(* Every step of the environment keeps what it has collected.              *)
LEMMA ListStep == ListInd /\ EnvironmentNext => ListInd'
<1> SUFFICES ASSUME ListInd, EnvironmentNext PROVE ListInd'
  OBVIOUS
<1>1. /\ EnvInd /\ EnvInd' /\ Listed(env.items) /\ Range(env.items) \subseteq live
      /\ Collected /\ line \in Nat /\ k \in Nat \ {0} /\ setup \in Setup
      /\ IsList(env.items)
  BY EnvironmentStep DEF ListInd, EnvInd, Vec, Collected
<1>2. setup' = setup
  BY DEF EnvironmentNext, GetEnvList, Merge, AddExtra, CleanUp, Merged, OpenFile, ReadLine,
         CloseFile, Terminate, PushDisplay
<1>3. /\ FromPam' = FromPam /\ Files' = Files /\ Wanted' = Wanted
      /\ \A j : ExtrasTo(j)' = ExtrasTo(j)
      /\ \A s : Sourced(s)' <=> Sourced(s)
      /\ \A q : Listed(q)' <=> Listed(q)
  BY <1>2, SetupKept
<1>4. SUFFICES /\ Listed(env'.items) /\ Range(env'.items) \subseteq live' /\ Collected'
  BY <1>1, <1>3 DEF ListInd
<1>5. Listed(<<>>) /\ Range(<<>>) = {} /\ FromRaw(<<>>).items = <<>>
  BY DEF Listed, Range, FromRaw
<1>6. CASE GetEnvList
  <2>1. ASSUME env' = [items |-> FromPam, cap |-> Len(FromPam) + 1],
               live' = Range(FromPam), estep' = "merge"
        PROVE  Listed(FromPam)
    <3>1. Len(setup.pam) \in Nat
      BY <1>1 DEF Setup
    <3>2. DOMAIN FromPam = 1 .. Len(setup.pam)
      BY DEF FromPam
    <3>3. \A i \in DOMAIN FromPam : FromPam[i].from = "pam" /\ FromPam[i].at = <<0, i>>
      BY DEF FromPam, String
    <3>4. \A i \in DOMAIN FromPam : Known(FromPam[i])
      BY DEF Known, Wanted, Range
    <3> QED BY <3>1, <3>2, <3>3, <3>4 DEF Listed, Before, Earlier
  <2>2. line' = line
    BY <1>6 DEF GetEnvList
  <2>3. CASE /\ env' = [items |-> FromPam, cap |-> Len(FromPam) + 1]
             /\ live' = Range(FromPam) /\ estep' = "merge"
    BY <1>1, <1>3, <2>1, <2>2, <2>3 DEF Collected
  <2>4. CASE estep' = "failed" /\ UNCHANGED <<env, live>>
    BY <1>1, <2>2, <2>4 DEF Collected
  <2> QED BY <1>6, <2>3, <2>4 DEF GetEnvList
<1>7. CASE Merge
  <2>1. k' = 1 /\ line' = line /\ estep = "merge" /\ ExtrasTo(0) = {}
    BY <1>1, <1>7, ExtrasNone DEF Merge, EnvInd
  <2>2. CASE env'.items = env.items /\ estep' = "extras" /\ live' = live
    <3>1. ExtrasTo(k - 1)' = {}
      <4>1. (k - 1)' = 0
        BY <2>1
      <4> QED BY <1>3, <2>1, <4>1 DEF ExtrasTo
    <3> QED BY <1>1, <1>3, <2>1, <2>2, <3>1 DEF Collected
  <2>3. CASE env' = FromRaw(<<>>) /\ live' = {} /\ estep' = "merge failed"
    BY <1>1, <1>5, <2>1, <2>3 DEF Collected
  <2> QED BY <1>1, <1>7, <2>2, <2>3 DEF Merge, EnvInd, Vec
<1>8. CASE AddExtra
  <2>1. /\ k \in 1 .. 7 /\ k' = k + 1 /\ line' = line
        /\ estep = "extras" /\ estep' = "extras"
    BY <1>1, <1>8, ExtrasLength DEF AddExtra
  <2>2. ExtrasTo(k - 1)' = ExtrasTo(k)
    BY <1>2, <2>1 DEF ExtrasTo, Extra, String
  <2>3. CASE Extras[k] \in setup.unset
    BY <1>1, <1>3, <1>8, <2>1, <2>2, <2>3, ExtrasNext DEF AddExtra, Collected
  <2>4. CASE Extras[k] \notin setup.unset
    <3>1. env'.items = Append(env.items, Extra(k)) /\ live' = live \cup {Extra(k)}
      BY <1>1, <1>8, <2>4 DEF AddExtra, EnvInd, Vec
    <3>2. Known(Extra(k))
      BY <2>1, <2>4, ExtrasLength DEF Known, Wanted, ExtrasTo
    <3>3. ASSUME NEW s \in Range(env.items) PROVE Before(s, Extra(k))
      <4>1. s \in Range(FromPam) \/ s \in ExtrasTo(k - 1)
        BY <1>1, <2>1 DEF Collected
      <4>2. k - 1 \in 0 .. 7
        BY <2>1
      <4>3. Extra(k).from = "lidm" /\ Extra(k).at = <<0, k>>
        BY DEF Extra, String
      <4>4. CASE s \in Range(FromPam)
        BY <1>1, <4>3, <4>4, Origins DEF Before
      <4>5. CASE s \in ExtrasTo(k - 1)
        BY <1>1, <2>1, <4>2, <4>3, <4>5, Origins DEF Before, Earlier
      <4> QED BY <4>1, <4>4, <4>5
    <3>4. /\ Listed(Append(env.items, Extra(k)))
          /\ Range(Append(env.items, Extra(k))) = Range(env.items) \cup {Extra(k)}
      BY <1>1, <3>2, <3>3, ListedAppend
    <3>5. ExtrasTo(k) = ExtrasTo(k - 1) \cup {Extra(k)}
      BY <2>1, <2>4, ExtrasNext
    <3>6. Collected'
      BY <1>1, <1>3, <2>1, <2>2, <3>1, <3>4, <3>5 DEF Collected
    <3> QED BY <1>1, <3>1, <3>4, <3>6
  <2> QED BY <2>3, <2>4
<1>9. CASE CleanUp
  <2>1. /\ env' = FromRaw(<<>>) /\ line' = line /\ estep' \in {"merge failed", "crashed"}
    BY <1>9 DEF CleanUp
  <2> QED BY <1>1, <1>5, <2>1 DEF Collected
<1>10. CASE Merged
  <2>1. /\ k = 8 /\ k' = 1 /\ line' = line /\ live' = live /\ env'.items = env.items
        /\ estep = "extras" /\ estep' = "open"
    BY <1>1, <1>10, ExtrasLength DEF Merged, EnvInd, FromRaw
  <2>2. Range(env.items) = Wanted
    BY <1>1, <2>1, ExtrasLength DEF Collected, Wanted
  <2> QED BY <1>1, <1>3, <2>1, <2>2 DEF Collected
<1>11. CASE OpenFile
  <2>1. /\ estep = "open" /\ line' = 0 /\ env' = env /\ live' = live /\ k <= Len(Files)
        /\ \/ Files[k] # Missing /\ estep' = "lines" /\ k' = k
           \/ k' = k + 1 /\ estep' = "open"
    BY <1>11 DEF OpenFile
  <2>2. ASSUME NEW s \in Range(env.items)
        PROVE  s \in Wanted \/ (Sourced(s) /\ Passed(s)')
    BY <1>1, <2>1, Origins DEF Collected, Passed
  <2>3. Collected'
    BY <1>1, <1>3, <2>1, <2>2 DEF Collected
  <2> QED BY <1>1, <2>1, <2>3
<1>12. CASE ReadLine
  <2> DEFINE l == Files[k][line + 1]
  <2>0. PICK s : s = String(l, "file", <<k, line + 1>>)
    OBVIOUS
  <2>1. /\ estep = "lines" /\ estep' = "lines" /\ k' = k /\ line' = line + 1
        /\ line < Len(Files[k]) /\ k <= Len(Files) /\ Files[k] # Missing
    BY <1>1, <1>12 DEF ReadLine, Collected
  <2>2. \/ env'.items = env.items /\ live \subseteq live'
        \/ Sets(l) /\ env'.items = Append(env.items, s) /\ live' = live \cup {s}
    BY <1>12, <2>0 DEF ReadLine, Pushed
  <2>3. \A t \in Range(env.items) : t \in Wanted \/ (Sourced(t) /\ Passed(t))
    BY <1>1, <2>1 DEF Collected
  <2>4. \A t \in Range(env.items) : t \in Wanted \/ (Sourced(t) /\ Passed(t)')
    BY <1>1, <2>1, <2>3, Origins DEF Passed
  <2>5. CASE env'.items = env.items /\ live \subseteq live'
    <3>1. Collected'
      BY <1>1, <1>3, <2>1, <2>4, <2>5 DEF Collected
    <3> QED BY <1>1, <2>5, <3>1
  <2>6. CASE Sets(l) /\ env'.items = Append(env.items, s) /\ live' = live \cup {s}
    <3>1. Files \in Seq(Seq(STRING))
      BY <1>1, FilesTyped
    <3>2. k \in DOMAIN Files /\ line + 1 \in DOMAIN Files[k]
      BY <1>1, <2>1, <3>1
    <3>3. Sourced(s)
      BY <2>0, <2>1, <2>6, <3>2 DEF Sourced
    <3>4. s.from = "file" /\ s.at = <<k, line + 1>>
      BY <2>0 DEF String
    <3>5. Passed(s)'
      BY <1>1, <2>1, <3>4 DEF Passed
    <3>6. ASSUME NEW t \in Range(env.items) PROVE Before(t, s)
      <4>1. CASE t \in Wanted
        BY <1>1, <3>4, <4>1, Origins, ExtrasLength DEF Before, Wanted
      <4>2. CASE Sourced(t) /\ Passed(t)
        BY <1>1, <2>1, <3>4, <4>2, Origins DEF Before, Earlier, Passed
      <4> QED BY <2>3, <4>1, <4>2
    <3>7. /\ Listed(Append(env.items, s))
          /\ Range(Append(env.items, s)) = Range(env.items) \cup {s}
      BY <1>1, <3>3, <3>6, ListedAppend DEF Known
    <3>8. Collected'
      BY <1>1, <1>3, <2>1, <2>4, <2>6, <3>3, <3>5, <3>7 DEF Collected
    <3> QED BY <1>1, <2>6, <3>7, <3>8
  <2> QED BY <2>2, <2>5, <2>6
<1>13. CASE CloseFile
  <2>1. /\ estep = "lines" /\ estep' = "open" /\ k' = k + 1 /\ line' = line
        /\ env' = env /\ live' = live
    BY <1>13 DEF CloseFile
  <2>2. \A t \in Range(env.items) : t \in Wanted \/ (Sourced(t) /\ Passed(t)')
    BY <1>1, <2>1, Origins DEF Collected, Passed
  <2>3. Collected'
    BY <1>1, <1>3, <2>1, <2>2 DEF Collected
  <2> QED BY <1>1, <2>1, <2>3
<1>14. CASE Terminate
  <2>1. /\ estep = "open" /\ estep' \in {"ready", "failed"} /\ env'.items = env.items
        /\ live' = live /\ line' = line
    BY <1>1, <1>14 DEF Terminate, Ended, EnvInd, Vec
  <2> QED BY <1>1, <1>3, <2>1 DEF Collected
<1>15. CASE PushDisplay
  <2>1. /\ estep = "ready" /\ estep' \in {"x11 ready", "failed"} /\ line' = line
        /\ live' = live \cup {Display}
        /\ \/ env'.items = env.items
           \/ env'.items = Append(env.items, Display)
    <3> DEFINE raw == FromRaw(env.items)
    <3>1. raw.items = env.items /\ Vec(raw)
      BY <1>1, RawFits
    <3>2. \A v, t : Pushed(v, t).items = Append(v.items, t)
      BY DEF Pushed
    <3>3. Vec(Pushed(raw, Display)) /\ Pushed(raw, Display).items = Append(env.items, Display)
      BY <3>1, <3>2, PushedFits
    <3>4. \A v : Vec(v) => Ended(v).items = v.items
      BY DEF Ended, Vec
    <3>5. env' \in {Ended(Pushed(raw, Display)), Ended(raw), raw}
      BY <1>15 DEF PushDisplay
    <3>6. env'.items \in {env.items, Append(env.items, Display)}
      BY <3>1, <3>3, <3>4, <3>5, Zenon
    <3> QED BY <1>15, <3>6 DEF PushDisplay
  <2>2. \A t \in Range(env.items) : Before(t, Display)
    <3>1. \A t \in Range(env.items) : t \in Wanted \/ Sourced(t)
      BY <1>1, <2>1 DEF Collected
    <3>2. Display.from = "x"
      BY DEF Display, String
    <3> QED BY <1>1, <3>1, <3>2, Origins, ExtrasLength DEF Before, Wanted
  <2>3. /\ Listed(Append(env.items, Display))
        /\ Range(Append(env.items, Display)) = Range(env.items) \cup {Display}
    BY <1>1, <2>2, ListedAppend DEF Known
  <2>4. Collected'
    BY <1>1, <1>3, <2>1, <2>3 DEF Collected
  <2> QED BY <1>1, <2>1, <2>3, <2>4
<1> QED BY <1>6, <1>7, <1>8, <1>9, <1>10, <1>11, <1>12, <1>13, <1>14, <1>15
        DEF EnvironmentNext

LEMMA ListPlaces ==
  ListInd => DOMAIN env.items = 1 .. Len(env.items) /\ Len(env.items) \in Nat
<1>1. \A q : IsList(q) => DOMAIN q = 1 .. Len(q) /\ Len(q) \in Nat
  BY DEF IsList
<1> QED BY <1>1 DEF ListInd, EnvInd, Vec

LEMMA ListKept == ListInd /\ UNCHANGED environmentVars => ListInd'
<1> SUFFICES ASSUME ListInd, UNCHANGED environmentVars PROVE ListInd'
  OBVIOUS
<1>1. /\ setup' = setup /\ estep' = estep /\ env' = env /\ k' = k /\ line' = line
      /\ live' = live
  BY DEF environmentVars
<1>2. EnvInd'
  BY EnvironmentKept DEF ListInd
<1>3. /\ FromPam' = FromPam /\ Files' = Files /\ Wanted' = Wanted
      /\ \A j : ExtrasTo(j)' = ExtrasTo(j)
      /\ \A s : Sourced(s)' <=> Sourced(s)
      /\ \A q : Listed(q)' <=> Listed(q)
  BY <1>1, SetupKept
<1>4. \A s : Passed(s)' <=> Passed(s)
  BY <1>1 DEF Passed
<1>5. ExtrasTo(k - 1)' = ExtrasTo(k - 1)
  BY <1>1 DEF ExtrasTo, Extra, String
<1>6. Collected'
  BY <1>1, <1>3, <1>4, <1>5 DEF Collected, ListInd
<1> QED BY <1>1, <1>2, <1>3, <1>6 DEF ListInd

LEMMA ListInitially == Init => ListInd
<1> SUFFICES ASSUME Init PROVE ListInd
  OBVIOUS
<1>1. EnvInd
  BY EnvironmentInitially
<1>2. env = FromRaw(<<>>) /\ estep = "getenvlist" /\ line = 0
  BY DEF Init, EnvironmentInit
<1>3. env.items = <<>>
  BY <1>2 DEF FromRaw
<1>4. Listed(<<>>) /\ Range(<<>>) = {}
  BY DEF Listed, Range
<1> QED BY <1>1, <1>2, <1>3, <1>4 DEF ListInd, Collected

LEMMA ListInvariant == Spec => []ListInd
<1>1. ListInd /\ [Next]_vars => ListInd'
  BY ListStep, ListKept
  DEF Next, Parse, List, Prepare, Begin, Count, Allocate, Join, JoinEnds, Exec, vars
<1> QED BY <1>1, ListInitially, PTL DEF Spec

(* What is in the list is allocated and there once: no step of the way     *)
(* frees or writes again a string that it gave away.                       *)
THEOREM StringsStayAlive == Spec => []StringsAlive
<1>1. ASSUME ListInd PROVE StringsAlive
  <2>1. ASSUME NEW i \in DOMAIN env.items, NEW j \in DOMAIN env.items, i < j,
               env.items[i] = env.items[j]
        PROVE  FALSE
    <3>1. Known(env.items[i]) /\ Before(env.items[i], env.items[i])
      BY <1>1, <2>1, Zenon DEF ListInd, Listed
    <3>2. setup \in Setup
      BY <1>1 DEF ListInd, EnvInd
    <3> QED BY <3>1, <3>2, Origins, ExtrasLength DEF Known, Wanted, Before, Earlier
  <2>2. DOMAIN env.items \subseteq Nat
    BY <1>1, ListPlaces
  <2>3. IsInjective(env.items)
    BY <2>1, <2>2 DEF IsInjective
  <2> QED BY <1>1, <2>3 DEF StringsAlive, ListInd
<1> QED BY <1>1, ListInvariant, PTL

(* A list that is handed on is complete and in order, however many         *)
(* variables PAM sets, files there are, and allocations fail.              *)
THEOREM EnvironmentInOrder == Spec => []EnvInOrder
<1>1. ListInd => EnvInOrder
  <2> SUFFICES ASSUME ListInd PROVE EnvInOrder
    OBVIOUS
  <2>1. \A s \in Range(env.items) : Known(s)
    BY DEF ListInd, Listed, Range
  <2> QED BY <2>1 DEF ListInd, Listed, Collected, EnvInOrder, Known
<1> QED BY <1>1, ListInvariant, PTL

----------------------------------------------------------------------------
(* The sizes are counted from the arguments, which no longer change, and   *)
(* grow; what is written so far is as long as was counted for it.          *)
Sized ==
  /\ sizes \in Seq(Nat) /\ Len(sizes) <= Len(argv)
  /\ \A i \in 1 .. Len(sizes) : sizes[i] = SizeTo(i - 1) + Len(argv[i]) + 1
  /\ \A i, j \in 0 .. Len(sizes) : i < j => SizeTo(i) < SizeTo(j)
SizeInd ==
  /\ CmdInv /\ Sized
  /\ cmdline \in Seq(Char) /\ joined \in 0 .. Len(argv)
  /\ stage \in {"parse", "login"} => sizes = <<>>
  /\ stage \in {"parse", "login", "count"} => cmdline = <<>> /\ joined = 0
  /\ stage \in {"login", "count", "join"} => argv # <<>> \/ start.shell
  /\ stage \in {"count", "join"} => ~ start.shell
  /\ stage = "join" => Len(sizes) = Len(argv) /\ Len(cmdline) = SizeTo(joined)
  /\ stage \in {"exec", "runs"} => joined = 0 \/ Len(cmdline) + 1 = Counted

LEMMA SizesTyped ==
  SizeInd => /\ Len(sizes) \in Nat /\ Len(argv) \in Nat /\ Len(cmdline) \in Nat
             /\ \A i \in 0 .. Len(sizes) : SizeTo(i) \in Nat
             /\ \A i \in 1 .. Len(argv) : argv[i] \in Seq(Char) /\ Len(argv[i]) \in Nat
<1> SUFFICES ASSUME SizeInd
             PROVE  /\ Len(sizes) \in Nat /\ Len(argv) \in Nat /\ Len(cmdline) \in Nat
                    /\ \A i \in 0 .. Len(sizes) : SizeTo(i) \in Nat
                    /\ \A i \in 1 .. Len(argv) : argv[i] \in Seq(Char) /\ Len(argv[i]) \in Nat
  OBVIOUS
<1>1. sizes \in Seq(Nat) /\ argv \in Seq(Seq(Char) \ {<<>>}) /\ cmdline \in Seq(Char)
  BY DEF SizeInd, Sized, CmdInv, CommandInv
<1>2. \A i \in 1 .. Len(sizes) : sizes[i] \in Nat
  BY <1>1
<1>3. \A i \in 0 .. Len(sizes) : SizeTo(i) \in Nat
  BY <1>1, <1>2 DEF SizeTo
<1>4. \A i \in 1 .. Len(argv) : argv[i] \in Seq(Char)
  BY <1>1
<1> QED BY <1>1, <1>3, <1>4

LEMMA CountKeeps == SizeInd /\ Count => SizeInd'
<1> SUFFICES ASSUME SizeInd, Count PROVE SizeInd'
  OBVIOUS
<1>0. /\ stage = "count" /\ Len(sizes) < Len(argv)
      /\ sizes' = Append(sizes, Counted + Len(argv[Len(sizes) + 1]) + 1)
      /\ UNCHANGED <<commandVars, argv, start, stage, cmdline, joined>>
  BY DEF Count, commandVars
<1>1. PICK n : n = Len(sizes)
  OBVIOUS
<1>2. /\ n \in Nat /\ Len(argv) \in Nat /\ n + 1 \in 1 .. Len(argv)
      /\ sizes \in Seq(Nat) /\ Len(argv[n + 1]) \in Nat
      /\ \A i \in 0 .. n : SizeTo(i) \in Nat
  BY <1>0, <1>1, SizesTyped DEF SizeInd, Sized
<1>3. PICK z \in Nat : z = SizeTo(n) + Len(argv[n + 1]) + 1
  BY <1>2
<1>4. sizes' = Append(sizes, z)
  BY <1>0, <1>1, <1>3 DEF Counted
<1>5. /\ sizes' \in Seq(Nat) /\ Len(sizes') = n + 1 /\ sizes'[n + 1] = z
      /\ \A i \in 1 .. n : sizes'[i] = sizes[i]
  BY <1>1, <1>2, <1>3, <1>4
<1>6. /\ \A i \in 0 .. n : SizeTo(i)' = SizeTo(i)
      /\ SizeTo(n + 1)' = z
  BY <1>2, <1>5 DEF SizeTo
<1>7. ASSUME NEW i \in 1 .. n + 1
      PROVE  (sizes[i] = SizeTo(i - 1) + Len(argv[i]) + 1)'
  <2>1. CASE i = n + 1
    <3>1. SizeTo(i - 1)' = SizeTo(n)
      BY <1>2, <1>6, <2>1
    <3> QED BY <1>0, <1>3, <1>5, <2>1, <3>1
  <2>2. CASE i \in 1 .. n
    <3>1. SizeTo(i - 1)' = SizeTo(i - 1)
      BY <1>2, <1>6, <2>2
    <3> QED BY <1>0, <1>1, <1>5, <2>2, <3>1 DEF SizeInd, Sized
  <2> QED BY <1>2, <2>1, <2>2
<1>8. ASSUME NEW i \in 0 .. n + 1, NEW j \in 0 .. n + 1, i < j
      PROVE  (SizeTo(i) < SizeTo(j))'
  <2>1. i \in 0 .. n /\ SizeTo(i)' = SizeTo(i)
    BY <1>2, <1>6, <1>8
  <2>2. CASE j = n + 1
    <3>1. SizeTo(i) <= SizeTo(n)
      BY <1>1, <1>2, <2>1 DEF SizeInd, Sized
    <3> QED BY <1>2, <1>3, <1>6, <2>1, <2>2, <3>1
  <2>3. CASE j \in 0 .. n
    BY <1>1, <1>6, <1>8, <2>1, <2>3 DEF SizeInd, Sized
  <2> QED BY <1>2, <2>2, <2>3
<1>9. CmdInv'
  BY <1>0, CommandKept DEF SizeInd
<1>10. Sized'
  <2>1. (Len(sizes) <= Len(argv))' /\ Len(sizes)' = n + 1
    BY <1>0, <1>2, <1>5
  <2> QED BY <1>5, <1>7, <1>8, <2>1 DEF Sized
<1>11. argv' # <<>> /\ joined' \in 0 .. Len(argv')
  BY <1>0 DEF SizeInd
<1> QED BY <1>0, <1>9, <1>10, <1>11 DEF SizeInd

LEMMA JoinKeeps == SizeInd /\ Join => SizeInd'
<1> SUFFICES ASSUME SizeInd, Join PROVE SizeInd'
  OBVIOUS
<1>1. /\ stage = "join" /\ joined < Len(argv)
      /\ cmdline' = cmdline \o argv[joined + 1] \o <<"space">>
      /\ joined' = joined + 1
      /\ UNCHANGED <<commandVars, argv, start, stage, sizes>>
  BY DEF Join, commandVars
<1>2. /\ joined \in Nat /\ joined + 1 \in 1 .. Len(argv) /\ Len(sizes) = Len(argv)
      /\ Len(cmdline) = SizeTo(joined) /\ cmdline \in Seq(Char)
      /\ argv[joined + 1] \in Seq(Char) /\ Len(argv) \in Nat
  BY <1>1, SizesTyped DEF SizeInd
<1>3. cmdline' \in Seq(Char) /\ Len(cmdline') = Len(cmdline) + Len(argv[joined + 1]) + 1
  <2>1. PICK a \in Seq(Char) : a = argv[joined + 1]
    BY <1>2
  <2>2. <<"space">> \in Seq(Char) /\ Len(<<"space">>) = 1
    BY DEF Char
  <2>3. /\ cmdline \o a \in Seq(Char) /\ Len(cmdline \o a) = Len(cmdline) + Len(a)
        /\ Len(cmdline) \in Nat /\ Len(a) \in Nat
    BY <1>2, <2>1
  <2>4. PICK c \in Seq(Char) : c = cmdline \o a
    BY <2>3
  <2>5. c \o <<"space">> \in Seq(Char) /\ Len(c \o <<"space">>) = Len(c) + 1
    BY <2>2
  <2>6. cmdline' = c \o <<"space">>
    BY <1>1, <2>1, <2>4
  <2> QED BY <2>1, <2>3, <2>4, <2>5, <2>6
<1>4. SizeTo(joined + 1) = SizeTo(joined) + Len(argv[joined + 1]) + 1
  <2>1. sizes[joined + 1] = SizeTo((joined + 1) - 1) + Len(argv[joined + 1]) + 1
    BY <1>2 DEF SizeInd, Sized
  <2>2. SizeTo(joined + 1) = sizes[joined + 1] /\ (joined + 1) - 1 = joined
    BY <1>2 DEF SizeTo
  <2> QED BY <2>1, <2>2
<1>5. \A i : SizeTo(i)' = SizeTo(i)
  BY <1>1 DEF SizeTo
<1>6. (Len(cmdline) = SizeTo(joined))'
  <2>1. SizeTo(joined)' = SizeTo(joined + 1)
    BY <1>1 DEF SizeTo
  <2> QED BY <1>1, <1>2, <1>3, <1>4, <2>1
<1>7. CmdInv'
  BY <1>1, CommandKept DEF SizeInd
<1>8. Sized'
  BY <1>1, <1>5 DEF SizeInd, Sized
<1>9. /\ joined' \in 0 .. Len(argv') /\ (argv # <<>> \/ start.shell)' /\ ~ (start.shell)'
      /\ stage' = "join" /\ (Len(sizes) = Len(argv))'
  BY <1>1, <1>2 DEF SizeInd
<1> QED BY <1>3, <1>6, <1>7, <1>8, <1>9 DEF SizeInd

LEMMA JoinEndsKeeps == SizeInd /\ JoinEnds => SizeInd'
<1> SUFFICES ASSUME SizeInd, JoinEnds PROVE SizeInd'
  OBVIOUS
<1>1. /\ stage = "join" /\ joined = Len(argv) /\ cmdline' = Front(cmdline)
      /\ stage' = "exec" /\ UNCHANGED <<commandVars, argv, start, sizes, joined>>
  BY DEF JoinEnds, commandVars
<1>2. /\ Len(sizes) = Len(argv) /\ Len(cmdline) = SizeTo(joined) /\ cmdline \in Seq(Char)
      /\ Len(argv) \in Nat /\ argv # <<>> /\ Len(cmdline) \in Nat
      /\ \A i \in 0 .. Len(sizes) : SizeTo(i) \in Nat
  BY <1>1, SizesTyped DEF SizeInd
<1>3. Len(argv) # 0
  BY <1>2 DEF SizeInd, CmdInv, CommandInv
<1>4. 0 < Len(cmdline)
  <2>1. SizeTo(0) < SizeTo(joined) /\ SizeTo(0) = 0
    BY <1>1, <1>2, <1>3 DEF SizeInd, Sized, SizeTo
  <2> QED BY <1>2, <2>1
<1>5. cmdline' \in Seq(Char) /\ Len(cmdline') + 1 = Len(cmdline)
  BY <1>1, <1>2, <1>4 DEF Front
<1>6. \A i : SizeTo(i)' = SizeTo(i)
  BY <1>1 DEF SizeTo
<1>7. Counted' = Counted /\ Counted = SizeTo(joined)
  BY <1>1, <1>2, <1>6 DEF Counted
<1>8. CmdInv'
  BY <1>1, CommandKept DEF SizeInd
<1>9. Sized'
  BY <1>1, <1>6 DEF SizeInd, Sized
<1> QED BY <1>1, <1>2, <1>5, <1>7, <1>8, <1>9 DEF SizeInd

LEMMA SizeStep == SizeInd /\ [Next]_vars => SizeInd'
<1> SUFFICES ASSUME SizeInd, [Next]_vars PROVE SizeInd'
  OBVIOUS
<1>1. ASSUME UNCHANGED <<sizes, argv>>
      PROVE  (\A i : SizeTo(i)' = SizeTo(i)) /\ Counted' = Counted
  BY <1>1 DEF SizeTo, Counted
<1>2. CASE Parse
  <2>1. /\ stage = "parse" /\ CommandNext /\ stage' = "parse"
        /\ UNCHANGED <<start, sizes, cmdline, joined>>
    BY <1>2 DEF Parse, sessionVars
  <2>2. CmdInv'
    BY <2>1, CommandStep DEF SizeInd
  <2>3. sizes' = <<>> /\ cmdline' = <<>> /\ joined' = 0
    BY <2>1 DEF SizeInd
  <2>4. Len(argv') \in Nat
    BY <2>2 DEF CmdInv, CommandInv
  <2>5. sizes' \in Seq(Nat) /\ Len(sizes') = 0 /\ cmdline' \in Seq(Char)
    BY <2>3
  <2>6. Sized'
    BY <2>4, <2>5 DEF Sized
  <2> QED BY <2>1, <2>2, <2>3, <2>4, <2>5, <2>6 DEF SizeInd
<1>3. CASE List \/ Prepare \/ Begin \/ Allocate \/ Exec \/ UNCHANGED vars
  <2>1. UNCHANGED <<commandVars, argv, start, sizes, cmdline, joined>>
    BY <1>3 DEF List, Prepare, Begin, Allocate, Exec, vars, sessionVars, commandVars
  <2>2. \/ stage' = stage
        \/ /\ stage = "parse"
           /\ (stage' = "login" /\ argv # <<>>) \/ stage' = "unlisted"
        \/ /\ stage = "login"
           /\ stage' = "exec" \/ (stage' = "count" /\ ~ start.shell)
        \/ stage = "count" /\ Len(sizes) = Len(argv) /\ stage' \in {"join", "exec failed"}
        \/ stage = "exec" /\ stage' \in {"runs", "exec failed"}
    <3>1. CASE List \/ Begin \/ Allocate
      BY <3>1 DEF List, Begin, Allocate
    <3>2. CASE Exec
      BY <3>2, Zenon DEF Exec
    <3>3. CASE Prepare \/ UNCHANGED vars
      BY <3>3 DEF Prepare, vars, sessionVars
    <3> QED BY <1>3, <3>1, <3>2, <3>3
  <2>3. CmdInv'
    BY <2>1, CommandKept DEF SizeInd
  <2>4. /\ \A i : SizeTo(i)' = SizeTo(i)
        /\ Counted' = Counted /\ SizeTo(0) = 0 /\ Len(<<>>) = 0
    BY <1>1, <2>1 DEF SizeTo
  <2>5. Sized'
    BY <2>1, <2>4 DEF SizeInd, Sized
  <2> QED BY <2>1, <2>2, <2>3, <2>4, <2>5 DEF SizeInd
<1>4. CASE Count
  BY <1>4, CountKeeps
<1>5. CASE Join
  BY <1>5, JoinKeeps
<1>6. CASE JoinEnds
  BY <1>6, JoinEndsKeeps
<1> QED BY <1>2, <1>3, <1>4, <1>5, <1>6 DEF Next

LEMMA SizeInitially == Init => SizeInd
<1> SUFFICES ASSUME Init PROVE SizeInd
  OBVIOUS
<1>1. CmdInv
  BY CommandInitially
<1>2. /\ sizes = <<>> /\ cmdline = <<>> /\ joined = 0 /\ argv = <<>>
      /\ stage = IF start.shell THEN "login" ELSE "parse"
  BY DEF Init, CommandInit
<1>3. sizes \in Seq(Nat) /\ Len(sizes) = 0 /\ Len(argv) = 0 /\ cmdline \in Seq(Char)
  BY <1>2
<1> QED BY <1>1, <1>2, <1>3 DEF SizeInd, Sized

(* The command line for the login shell never leaves the block that was    *)
(* counted out for it, whatever the arguments are, and fills it at last.   *)
THEOREM CommandLineFits == Spec => []JoinFits
<1>1. SizeInd => JoinFits
  <2> SUFFICES ASSUME SizeInd, stage = "join" PROVE Len(cmdline) <= Counted
    BY DEF SizeInd, JoinFits
  <2>1. /\ Len(sizes) = Len(argv) /\ Len(cmdline) = SizeTo(joined)
        /\ joined \in 0 .. Len(sizes) /\ Len(sizes) \in Nat
        /\ \A i \in 0 .. Len(sizes) : SizeTo(i) \in Nat
    BY SizesTyped DEF SizeInd
  <2>2. joined = Len(sizes) \/ SizeTo(joined) < SizeTo(Len(sizes))
    BY <2>1 DEF SizeInd, Sized
  <2> QED BY <2>1, <2>2 DEF Counted
<1> QED BY <1>1, SizeInitially, SizeStep, PTL DEF Spec

----------------------------------------------------------------------------
(* bash sees the first j arguments in c, which ends in a space.            *)
BeginsOf(c) == Begins(Letters(c), Spaces(c))
WordOf(c, w) == Word(Letters(c), BeginsOf(c), w)
Splits(c, v, j) == /\ Cardinality(BeginsOf(c)) = j
                   /\ \A w \in 1 .. j : Spells(c, WordOf(c, w), v[w])
EndsInSpace(c) == c = <<>> \/ c[Len(c)] = "space"

(* c goes on with a word of one character or more, and a space.            *)
Extends(d, c, a) == /\ Len(d) = Len(c) + Len(a) + 1
                    /\ \A p \in 1 .. Len(c) : d[p] = c[p]
                    /\ \A p \in 1 .. Len(a) : d[Len(c) + p] = a[p] /\ a[p] # "space"
                    /\ d[Len(d)] = "space"

(* Positions that follow one another are counted by their distance.        *)
LEMMA CountInterval ==
  ASSUME NEW N \in Nat, NEW M \in Nat, NEW ps, \A q : q \in ps <=> q \in N + 1 .. M,
         NEW p \in ps
  PROVE  Cardinality({q \in ps : q <= p}) = p - N
<1>1. PICK S : S = {q \in ps : q <= p}
  OBVIOUS
<1>2. p \in Nat /\ N + 1 <= p /\ p <= M
  OBVIOUS
<1>3. S = N + 1 .. p
  BY <1>1, <1>2
<1>4. Cardinality(N + 1 .. p) = p - N
  BY <1>2, FS_Interval
<1> QED BY <1>1, <1>3, <1>4

(* The words of the longer line are those of the shorter one and the new   *)
(* one.                                                                    *)
LEMMA JoinSplits ==
  ASSUME NEW c \in Seq(Char), NEW a \in Seq(Char), NEW d \in Seq(Char),
         Extends(d, c, a), a # <<>>, EndsInSpace(c),
         NEW v, NEW j \in Nat, Splits(c, v, j), v[j + 1] = a
  PROVE  Splits(d, v, j + 1) /\ EndsInSpace(d)
<1>0. PICK N \in Nat, L \in Nat : N = Len(c) /\ L = Len(a)
  OBVIOUS
<1>1. /\ L # 0 /\ Len(d) = N + L + 1 /\ d[N + L + 1] = "space"
      /\ \A p \in 1 .. N : d[p] = c[p]
      /\ \A p \in N + 1 .. N + L : d[p] = a[p - N] /\ d[p] # "space"
  <2>1. L # 0
    BY <1>0
  <2>2. ASSUME NEW p \in N + 1 .. N + L PROVE d[p] = a[p - N] /\ d[p] # "space"
    <3>1. PICK x \in 1 .. L : x = p - N /\ N + x = p
      OBVIOUS
    <3>2. d[N + x] = a[x] /\ a[x] # "space"
      BY <1>0 DEF Extends
    <3> QED BY <3>1, <3>2
  <2> QED BY <1>0, <2>1, <2>2 DEF Extends
<1>2. PICK T, S, U, R : /\ T = Letters(c) /\ S = Spaces(c)
                        /\ U = Letters(d) /\ R = Spaces(d)
  OBVIOUS
<1>3. /\ \A p : p \in T <=> p \in 1 .. N /\ c[p] # "space"
      /\ \A p : p \in S <=> p \in 1 .. N /\ c[p] = "space"
      /\ \A p : p \in U <=> p \in T \/ p \in N + 1 .. N + L
      /\ \A p : p \in R <=> p \in S \/ p = N + L + 1
  <2>1. /\ \A p : p \in T <=> p \in 1 .. N /\ c[p] # "space"
        /\ \A p : p \in S <=> p \in 1 .. N /\ c[p] = "space"
    BY <1>0, <1>2 DEF Letters, Spaces
  <2>2. /\ \A p : p \in U <=> p \in 1 .. N + L + 1 /\ d[p] # "space"
        /\ \A p : p \in R <=> p \in 1 .. N + L + 1 /\ d[p] = "space"
    BY <1>1, <1>2 DEF Letters, Spaces
  <2>3. \A p : p \in 1 .. N + L + 1 <=> p \in 1 .. N \/ p \in N + 1 .. N + L \/ p = N + L + 1
    <3>1. ASSUME NEW p \in 1 .. N + L + 1
          PROVE  p \in 1 .. N \/ p \in N + 1 .. N + L \/ p = N + L + 1
      OBVIOUS
    <3>2. N + L + 1 \in 1 .. N + L + 1 /\ \A p \in 1 .. N : p \in 1 .. N + L + 1
      OBVIOUS
    <3>3. \A p \in N + 1 .. N + L : p \in 1 .. N + L + 1
      OBVIOUS
    <3> QED BY <3>1, <3>2, <3>3
  <2>4. \A p \in N + 1 .. N + L : p \notin 1 .. N /\ p # N + L + 1
    OBVIOUS
  <2>5. N + L + 1 \notin 1 .. N
    OBVIOUS
  <2> QED BY <1>1, <2>1, <2>2, <2>3, <2>4, <2>5
<1>4. PICK B, D : B = Begins(T, S) /\ D = Begins(U, R)
  OBVIOUS
<1>5. \A p : p \in D <=> p \in B \/ p = N + 1
  <2>1. ASSUME NEW p \in 1 .. N PROVE p \in D <=> p \in B
    <3>1. p \in U <=> p \in T
      BY <1>3
    <3>2. \A q : q \in U /\ q < p <=> q \in T /\ q < p
      BY <1>3
    <3>3. \A b : b \in R /\ b < p <=> b \in S /\ b < p
      BY <1>3
    <3> QED BY <1>4, <3>1, <3>2, <3>3 DEF Begins
  <2>2. N + 1 \in D
    <3>1. N + 1 \in U
      BY <1>1, <1>3
    <3>2. ASSUME NEW q \in U, q < N + 1 PROVE \E b \in R : q < b /\ b < N + 1
      <4>1. q \in T /\ q \in 1 .. N /\ c[q] # "space"
        BY <1>3, <3>2
      <4>2. c # <<>>
        BY <1>0, <4>1
      <4>3. c[N] = "space" /\ N \in 1 .. N
        BY <1>0, <4>1, <4>2 DEF EndsInSpace
      <4>4. N \in R
        BY <1>3, <4>3
      <4>5. q # N
        BY <4>1, <4>3
      <4>6. q < N /\ N < N + 1
        BY <4>1, <4>5
      <4> QED BY <4>4, <4>6
    <3> QED BY <1>4, <3>1, <3>2 DEF Begins
  <2>3. ASSUME NEW p \in N + 2 .. N + L PROVE p \notin D
    <3>1. N + 1 \in U /\ N + 1 < p
      BY <1>1, <1>3
    <3>2. \A b \in R : ~ (N + 1 < b /\ b < p)
      BY <1>3
    <3> QED BY <1>4, <3>1, <3>2 DEF Begins
  <2>4. \A p \in D : p \in 1 .. N \/ p = N + 1 \/ p \in N + 2 .. N + L
    BY <1>3, <1>4 DEF Begins
  <2>5. \A p \in B : p \in 1 .. N
    BY <1>3, <1>4 DEF Begins
  <2> QED BY <2>1, <2>2, <2>3, <2>4, <2>5
<1>6. /\ Within(B, N) /\ N + 1 \notin B /\ D = B \cup {N + 1}
      /\ Cardinality(B) = j /\ Cardinality(D) = j + 1
  <2>1. Within(B, N) /\ N + 1 \notin B
    BY <1>3, <1>4 DEF Begins, Within
  <2>2. D = B \cup {N + 1}
    BY <1>5
  <2>3. Cardinality(B) = j
    BY <1>2, <1>4 DEF Splits, BeginsOf
  <2>4. IsFiniteSet(B)
    BY <2>1, UptoFinite, UptoAll
  <2> QED BY <2>1, <2>2, <2>3, <2>4, FS_AddElement
(* How many words have begun at a position.                                *)
<1>7. /\ \A p \in 1 .. N : {q \in D : q <= p} = {q \in B : q <= p}
      /\ \A p \in 1 .. N : Cardinality({q \in B : q <= p}) # j + 1
      /\ \A p \in N + 1 .. N + L : {q \in D : q <= p} = D
  <2>1. \A p \in 1 .. N : {q \in D : q <= p} = {q \in B : q <= p}
    BY <1>6 DEF Within
  <2>2. ASSUME NEW p \in 1 .. N PROVE Cardinality({q \in B : q <= p}) # j + 1
    <3>0. p \in Int /\ N \in Int /\ p <= N
      OBVIOUS
    <3>1. /\ Upto(B, p) = {q \in B : q <= p} /\ Upto(B, N) = B
          /\ Cardinality(Upto(B, p)) \in Nat
      <4>1. Upto(B, p) = {q \in B : q <= p}
        BY DEF Upto
      <4> QED BY <1>6, <3>0, <4>1, UptoFinite, UptoAll
    <3>2. Cardinality(Upto(B, p)) <= Cardinality(Upto(B, N))
      BY <1>6, <3>0, UptoGrows
    <3> QED BY <1>6, <3>1, <3>2
  <2>3. \A p \in N + 1 .. N + L : {q \in D : q <= p} = D
    BY <1>6 DEF Within
  <2> QED BY <2>1, <2>2, <2>3
<1>8. ASSUME NEW w \in 1 .. j PROVE Spells(d, WordOf(d, w), v[w])
  <2>1. \A p : p \in Word(U, D, w) <=> p \in Word(T, B, w)
    <3>1. ASSUME NEW p \in 1 .. N PROVE p \in Word(U, D, w) <=> p \in Word(T, B, w)
      <4>1. Cardinality({q \in D : q <= p}) = Cardinality({q \in B : q <= p})
        BY <1>7
      <4>2. p \in U <=> p \in T
        BY <1>3
      <4> QED BY <4>1, <4>2 DEF Word
    <3>2. ASSUME NEW p \in N + 1 .. N + L PROVE p \notin Word(U, D, w)
      <4>1. Cardinality({q \in D : q <= p}) # w
        <5>1. Cardinality({q \in D : q <= p}) = Cardinality(D)
          BY <1>7
        <5> QED BY <1>6, <5>1
      <4> QED BY <4>1 DEF Word
    <3>3. \A p \in Word(T, B, w) : p \in 1 .. N
      BY <1>3 DEF Word
    <3>4. \A p \in Word(U, D, w) : p \in 1 .. N \/ p \in N + 1 .. N + L
      BY <1>3 DEF Word
    <3> QED BY <3>1, <3>2, <3>3, <3>4
  <2>2. PICK ps : ps = Word(T, B, w)
    OBVIOUS
  <2>3. Spells(c, ps, v[w])
    BY <1>2, <1>4, <2>2 DEF Splits, WordOf, BeginsOf
  <2>4. \A p \in ps : d[p] = c[p]
    BY <1>1, <1>3, <2>2 DEF Word
  <2>5. Spells(d, ps, v[w])
    BY <2>3, <2>4 DEF Spells
  <2>6. WordOf(d, w) = ps
    BY <1>2, <1>4, <2>1, <2>2 DEF WordOf, BeginsOf
  <2> QED BY <2>5, <2>6
<1>9. Spells(d, WordOf(d, j + 1), v[j + 1])
  <2>1. PICK ps : ps = Word(U, D, j + 1)
    OBVIOUS
  <2>2. \A p : p \in ps <=> p \in N + 1 .. N + L
    <3>1. ASSUME NEW p \in 1 .. N PROVE p \notin ps
      BY <1>7, <2>1 DEF Word
    <3>2. ASSUME NEW p \in N + 1 .. N + L PROVE p \in ps
      BY <1>3, <1>6, <1>7, <2>1 DEF Word
    <3>3. \A p \in ps : p \in 1 .. N \/ p \in N + 1 .. N + L
      BY <1>3, <2>1 DEF Word
    <3> QED BY <3>1, <3>2, <3>3
  <2>3. Cardinality(ps) = L
    <3>1. ps = N + 1 .. N + L
      BY <2>2
    <3>2. Cardinality(N + 1 .. N + L) = N + L - (N + 1) + 1
      BY <1>1, FS_Interval
    <3> QED BY <3>1, <3>2
  <2>4. ASSUME NEW p \in ps PROVE a[Cardinality({q \in ps : q <= p})] = d[p]
    <3>1. Cardinality({q \in ps : q <= p}) = p - N
      <4>1. PICK M \in Nat : M = N + L
        OBVIOUS
      <4> QED BY <2>2, <4>1, CountInterval
    <3>2. d[p] = a[p - N]
      BY <1>1, <2>2
    <3> QED BY <3>1, <3>2
  <2>5. Spells(d, ps, a)
    BY <1>0, <2>3, <2>4 DEF Spells
  <2>6. WordOf(d, j + 1) = ps
    BY <1>2, <1>4, <2>1 DEF WordOf, BeginsOf
  <2> QED BY <2>5, <2>6
<1>10. Cardinality(BeginsOf(d)) = j + 1
  BY <1>2, <1>4, <1>6 DEF BeginsOf
<1>11. \A w \in 1 .. j + 1 : w \in 1 .. j \/ w = j + 1
  OBVIOUS
<1>12. EndsInSpace(d)
  BY <1>1 DEF EndsInSpace
<1> QED BY <1>8, <1>9, <1>10, <1>11, <1>12 DEF Splits

(* A space at the end is of no word.                                       *)
LEMMA FrontSplits ==
  ASSUME NEW c \in Seq(Char), c # <<>>, EndsInSpace(c),
         NEW v, NEW j \in Nat, Splits(c, v, j)
  PROVE  Splits(Front(c), v, j)
<1>0. PICK N \in Nat : N + 1 = Len(c)
  <2>1. Len(c) \in Nat /\ Len(c) # 0
    OBVIOUS
  <2> QED BY <2>1
<1>1. PICK d : d = Front(c)
  OBVIOUS
<1>2. Len(d) = N /\ c[N + 1] = "space" /\ \A p \in 1 .. N : d[p] = c[p]
  BY <1>0, <1>1 DEF Front, EndsInSpace
<1>3. PICK T, S, U, R : /\ T = Letters(c) /\ S = Spaces(c)
                        /\ U = Letters(d) /\ R = Spaces(d)
  OBVIOUS
<1>4. /\ \A p : p \in T <=> p \in 1 .. N /\ c[p] # "space"
      /\ \A p : p \in S <=> p = N + 1 \/ (p \in 1 .. N /\ c[p] = "space")
      /\ \A p : p \in U <=> p \in 1 .. N /\ c[p] # "space"
      /\ \A p : p \in R <=> p \in 1 .. N /\ c[p] = "space"
  <2>1. \A p : p \in 1 .. N + 1 <=> p \in 1 .. N \/ p = N + 1
    OBVIOUS
  <2>2. N + 1 \notin 1 .. N
    OBVIOUS
  <2> QED BY <1>0, <1>2, <1>3, <2>1, <2>2 DEF Letters, Spaces
<1>5. T = U
  BY <1>4
<1>6. Begins(T, S) = Begins(U, R)
  <2>1. ASSUME NEW p \in T, NEW b, b < p PROVE b \in S <=> b \in R
    BY <1>4, <2>1
  <2> QED BY <1>5, <2>1 DEF Begins
<1>7. BeginsOf(d) = BeginsOf(c) /\ \A w : WordOf(d, w) = WordOf(c, w)
  BY <1>3, <1>5, <1>6 DEF BeginsOf, WordOf
<1>8. ASSUME NEW w \in 1 .. j PROVE Spells(d, WordOf(d, w), v[w])
  <2>1. PICK ps : ps = WordOf(c, w)
    OBVIOUS
  <2>2. \A p \in ps : d[p] = c[p]
    BY <1>2, <1>3, <1>4, <2>1 DEF WordOf, Word
  <2>3. Spells(c, ps, v[w])
    BY <2>1 DEF Splits
  <2>4. Spells(d, ps, v[w])
    BY <2>2, <2>3 DEF Spells
  <2> QED BY <1>7, <2>1, <2>4
<1>9. Splits(d, v, j)
  BY <1>7, <1>8 DEF Splits
<1> QED BY <1>1, <1>9

(* The command line is the words that were joined, and a space in the end  *)
(* until it makes room for the null byte; a program that runs has it, or   *)
(* the vector, and all of the environment.                                 *)
Plainly == \A w \in Range(argv) : Unquoted(w)
RunInd ==
  /\ SizeInd
  /\ stage \notin {"parse", "unlisted"} /\ ~ start.shell => ret = "ok"
  /\ stage \notin {"parse", "unlisted", "login"} => EnvironmentReady
  /\ Plainly /\ stage \in {"count", "join"} =>
       EndsInSpace(cmdline) /\ Splits(cmdline, argv, joined)
  /\ Plainly /\ stage \in {"exec", "runs"} /\ ~ start.shell /\ ~ start.bypass =>
       Splits(cmdline, argv, Len(argv))
  /\ stage = "runs" /\ ~ start.shell =>
       /\ start.bypass => ran.args = argv
       /\ ~ start.bypass => ran.args = cmdline
       /\ ran.env = env.items

(* Nothing is no word.                                                     *)
LEMMA EmptySplits == Splits(<<>>, argv, 0) /\ EndsInSpace(<<>>)
<1>1. PICK none : none = <<>>
  OBVIOUS
<1>2. Len(none) = 0 /\ 1 .. 0 = {}
  BY <1>1
<1>3. BeginsOf(none) = {}
  BY <1>2 DEF BeginsOf, Begins, Letters, Spaces
<1>4. Cardinality({}) = 0
  BY FS_EmptySet
<1>5. Splits(none, argv, 0)
  BY <1>2, <1>3, <1>4 DEF Splits
<1> QED BY <1>1, <1>5 DEF EndsInSpace

(* What stands where when two texts become one.                            *)
LEMMA Concatenated ==
  ASSUME NEW b \in Seq(Char), NEW e \in Seq(Char)
  PROVE  /\ b \o e \in Seq(Char) /\ Len(b \o e) = Len(b) + Len(e)
         /\ \A p \in 1 .. Len(b) : (b \o e)[p] = b[p]
         /\ \A p \in 1 .. Len(e) : (b \o e)[Len(b) + p] = e[p]
OBVIOUS

(* One argument more, and the null byte in the end.                        *)
LEMMA JoinRuns == RunInd /\ Join => RunInd'
<1> SUFFICES ASSUME RunInd, Join PROVE RunInd'
  OBVIOUS
<1>1. /\ stage = "join" /\ joined < Len(argv)
      /\ cmdline' = cmdline \o argv[joined + 1] \o <<"space">>
      /\ joined' = joined + 1
      /\ UNCHANGED <<argv, ret, env, estep, setup, start, stage>>
  BY DEF Join, commandVars, environmentVars
<1>2. SizeInd'
  BY JoinKeeps DEF RunInd
<1>3. /\ joined \in Nat /\ joined + 1 \in 1 .. Len(argv) /\ Len(argv) \in Nat
      /\ cmdline \in Seq(Char) /\ argv \in Seq(Seq(Char) \ {<<>>})
  BY <1>1 DEF RunInd, SizeInd, CmdInv, CommandInv
<1>4. EnvironmentReady' <=> EnvironmentReady
  BY <1>1 DEF EnvironmentReady
<1>5. ASSUME Plainly PROVE EndsInSpace(cmdline') /\ Splits(cmdline', argv, joined + 1)
  <2>1. PICK a \in Seq(Char) : a = argv[joined + 1] /\ a # <<>>
    BY <1>3
  <2>2. \A p \in 1 .. Len(a) : a[p] # "space"
    <3>1. a \in Range(argv)
      BY <1>3, <2>1 DEF Range
    <3>2. "space" \notin Range(a)
      BY <1>5, <3>1 DEF Plainly, Unquoted
    <3>3. DOMAIN a = 1 .. Len(a)
      OBVIOUS
    <3> QED BY <3>2, <3>3 DEF Range
  <2>3. PICK d : d = cmdline \o a \o <<"space">>
    OBVIOUS
  <2>4. d \in Seq(Char) /\ Extends(d, cmdline, a)
    <3>1. PICK b : b = cmdline \o a
      OBVIOUS
    <3>2. /\ b \in Seq(Char) /\ Len(b) = Len(cmdline) + Len(a)
          /\ \A p \in 1 .. Len(cmdline) : b[p] = cmdline[p]
          /\ \A p \in 1 .. Len(a) : b[Len(cmdline) + p] = a[p]
      BY <1>3, <3>1, Concatenated
    <3>3. "space" \in Char /\ d = b \o <<"space">>
      BY <2>3, <3>1 DEF Char
    <3>4. /\ d \in Seq(Char) /\ Len(d) = Len(b) + 1 /\ d[Len(b) + 1] = "space"
          /\ \A p \in 1 .. Len(b) : d[p] = b[p]
      <4>1. PICK e : e = <<"space">>
        OBVIOUS
      <4>2. d = b \o e
        BY <3>3, <4>1
      <4>3. e \in Seq(Char) /\ Len(e) = 1 /\ e[1] = "space"
        BY <4>1 DEF Char
      <4>4. 1 \in 1 .. Len(e) /\ b \in Seq(Char)
        BY <3>2, <4>3
      <4>5. d \in Seq(Char) /\ Len(d) = Len(b) + Len(e)
        BY <4>2, <4>3, <4>4, Concatenated
      <4>6. \A p \in 1 .. Len(b) : d[p] = b[p]
        BY <4>2, <4>3, <4>4, Concatenated
      <4>7. d[Len(b) + 1] = e[1]
        BY <4>2, <4>3, <4>4, Concatenated
      <4> QED BY <4>3, <4>5, <4>6, <4>7
    <3>5. Len(cmdline) \in Nat /\ Len(a) \in Nat
      BY <1>3
    <3>6. \A p \in 1 .. Len(cmdline) : p \in 1 .. Len(b)
      BY <3>2, <3>5
    <3>7. \A p \in 1 .. Len(a) : Len(cmdline) + p \in 1 .. Len(b)
      BY <3>2, <3>5
    <3> QED BY <2>2, <3>2, <3>4, <3>5, <3>6, <3>7 DEF Extends
  <2>5. EndsInSpace(cmdline) /\ Splits(cmdline, argv, joined)
    BY <1>1, <1>5 DEF RunInd
  <2>6. Splits(d, argv, joined + 1) /\ EndsInSpace(d)
    BY <1>3, <2>1, <2>4, <2>5, JoinSplits
  <2> QED BY <1>1, <2>1, <2>3, <2>6
<1>6. Plainly' <=> Plainly
  BY <1>1 DEF Plainly
<1> QED BY <1>1, <1>2, <1>4, <1>5, <1>6 DEF RunInd

LEMMA JoinEndsRuns == RunInd /\ JoinEnds => RunInd'
<1> SUFFICES ASSUME RunInd, JoinEnds PROVE RunInd'
  OBVIOUS
<1>1. /\ stage = "join" /\ joined = Len(argv) /\ cmdline' = Front(cmdline)
      /\ stage' = "exec"
      /\ UNCHANGED <<argv, ret, env, estep, setup, start>>
  BY DEF JoinEnds, commandVars, environmentVars
<1>2. SizeInd'
  BY JoinEndsKeeps DEF RunInd
<1>3. EnvironmentReady' <=> EnvironmentReady
  BY <1>1 DEF EnvironmentReady
<1>4. /\ argv # <<>> /\ Len(argv) \in Nat /\ cmdline \in Seq(Char)
      /\ argv \in Seq(Seq(Char) \ {<<>>})
  BY <1>1 DEF RunInd, SizeInd, CmdInv, CommandInv
<1>5. ASSUME Plainly PROVE Splits(cmdline', argv, Len(argv))
  <2>1. EndsInSpace(cmdline) /\ Splits(cmdline, argv, Len(argv))
    BY <1>1, <1>5 DEF RunInd
  <2>2. ASSUME cmdline = <<>> PROVE FALSE
    <3>1. Splits(<<>>, argv, 0) /\ Len(argv) # 0
      BY <1>4, EmptySplits
    <3> QED BY <2>1, <2>2, <3>1 DEF Splits
  <2> QED BY <1>1, <1>4, <2>1, <2>2, FrontSplits
<1>6. Plainly' <=> Plainly
  BY <1>1 DEF Plainly
<1> QED BY <1>1, <1>2, <1>3, <1>5, <1>6 DEF RunInd

(* Every step keeps it; the environment no longer changes after login.     *)
LEMMA RunStep == RunInd /\ [Next]_vars => RunInd'
<1> SUFFICES ASSUME RunInd, [Next]_vars PROVE RunInd'
  OBVIOUS
<1>0. SizeInd'
  BY SizeStep DEF RunInd
<1>1. ASSUME UNCHANGED <<setup, estep>> PROVE EnvironmentReady' <=> EnvironmentReady
  BY <1>1 DEF EnvironmentReady
<1>2. ASSUME UNCHANGED argv PROVE Plainly' <=> Plainly
  BY <1>2 DEF Plainly
<1>3. CASE Parse
  BY <1>0, <1>3 DEF Parse, sessionVars, RunInd
<1>4. CASE List
  <2>1. /\ stage' = "unlisted" \/ (stage' = "login" /\ ret = "ok")
        /\ UNCHANGED <<ret, start>>
    BY <1>4 DEF List, commandVars
  <2> QED BY <1>0, <2>1 DEF RunInd
<1>5. CASE Prepare
  BY <1>0, <1>5 DEF Prepare, sessionVars, commandVars, RunInd
<1>6. CASE Begin
  <2>1. /\ stage = "login" /\ EnvironmentReady
        /\ \/ (start.bypass \/ start.shell) /\ stage' = "exec"
           \/ ~ (start.bypass \/ start.shell) /\ stage' = "count"
        /\ UNCHANGED <<argv, ret, env, estep, setup, start, cmdline, joined>>
    BY <1>6 DEF Begin, commandVars, environmentVars
  <2>2. cmdline = <<>> /\ joined = 0
    BY <2>1 DEF RunInd, SizeInd
  <2>3. EndsInSpace(cmdline') /\ Splits(cmdline', argv', joined')
    BY <2>1, <2>2, EmptySplits
  <2>4. stage' \in {"exec", "count"} /\ (stage' = "exec" => start.bypass \/ start.shell)
    BY <2>1
  <2>5. ret' = ret /\ start' = start /\ EnvironmentReady'
    BY <1>1, <2>1
  <2>6. ~ start.shell => ret = "ok"
    BY <2>1 DEF RunInd
  <2> QED BY <1>0, <2>3, <2>4, <2>5, <2>6 DEF RunInd
<1>7. CASE Count \/ Allocate
  <2>1. /\ stage = "count" /\ stage' \in {"count", "join", "exec failed"}
        /\ UNCHANGED <<argv, ret, env, estep, setup, start, cmdline, joined>>
    BY <1>7 DEF Count, Allocate, commandVars, environmentVars
  <2> QED BY <1>0, <1>1, <1>2, <2>1 DEF RunInd
<1>8. CASE Join
  BY <1>8, JoinRuns
<1>9. CASE JoinEnds
  BY <1>9, JoinEndsRuns
<1>10. CASE Exec
  <2>1. /\ stage = "exec"
        /\ UNCHANGED <<argv, ret, env, estep, setup, start, cmdline, joined>>
    BY <1>10 DEF Exec, commandVars, environmentVars
  <2>2. \/ /\ stage' = "runs" /\ ran'.env = env.items
           /\ ran'.args = IF start.bypass THEN Args
                          ELSE IF start.shell THEN Args[1] ELSE cmdline
        \/ stage' = "exec failed"
    <3>1. PICK args : args = IF start.bypass THEN Args
                             ELSE IF start.shell THEN Args[1] ELSE cmdline
      OBVIOUS
    <3>2. PICK path, at : IF at \in DOMAIN path /\ path[at] = "program"
            THEN /\ ran' = [args |-> args, env |-> env.items, at |-> at]
                 /\ stage' = "runs"
            ELSE stage' = "exec failed" /\ UNCHANGED ran
      BY <1>10, <3>1, Zenon DEF Exec
    <3>3. \/ stage' = "runs" /\ ran' = [args |-> args, env |-> env.items, at |-> at]
          \/ stage' = "exec failed"
      BY <3>2, Zenon
    <3>4. [args |-> args, env |-> env.items, at |-> at].args = args
          /\ [args |-> args, env |-> env.items, at |-> at].env = env.items
      OBVIOUS
    <3> QED BY <3>1, <3>3, <3>4, Zenon
  <2>3. ~ start.shell => Args = argv
    BY DEF Args
  <2> QED BY <1>0, <1>1, <1>2, <2>1, <2>2, <2>3 DEF RunInd
<1>11. CASE UNCHANGED vars
  <2>1. UNCHANGED <<argv, ret, env, estep, setup, start, stage, cmdline, joined, ran>>
    BY <1>11 DEF vars, commandVars, environmentVars, sessionVars
  <2> QED BY <1>0, <1>1, <1>2, <2>1 DEF RunInd
<1> QED BY <1>3, <1>4, <1>5, <1>6, <1>7, <1>8, <1>9, <1>10, <1>11 DEF Next

(* Whatever is executed has the words of its Exec line as its arguments,   *)
(* by either way, and all of the environment, if no word needs quotes.     *)
THEOREM ProgramSeesItsWords == Spec => []RunsItsWords
<1>1. Init => RunInd
  <2> SUFFICES ASSUME Init PROVE RunInd
    OBVIOUS
  <2>1. SizeInd
    BY SizeInitially
  <2>2. stage \in {"login", "parse"} /\ (stage = "login" => start.shell)
    <3>1. stage = IF start.shell THEN "login" ELSE "parse"
      BY DEF Init
    <3> QED BY <3>1
  <2> QED BY <2>1, <2>2 DEF RunInd
<1>2. ASSUME RunInd, ArgsAreWords, stage = "runs", ~ start.shell
      PROVE  /\ AreWords(exec_s, argv)
             /\ start.bypass \/ Plainly => Sees(argv)
             /\ ran.env = env.items /\ EnvironmentReady
  <2>1. AreWords(exec_s, argv) /\ ran.env = env.items /\ EnvironmentReady
    BY <1>2 DEF RunInd, ArgsAreWords
  <2>2. ASSUME start.bypass PROVE Sees(argv)
    BY <1>2, <2>2 DEF RunInd, Sees
  <2>3. ASSUME ~ start.bypass, Plainly PROVE Sees(argv)
    <3>1. PICK c : c = cmdline
      OBVIOUS
    <3>2. ran.args = c /\ Splits(c, argv, Len(argv))
      BY <1>2, <2>3, <3>1 DEF RunInd
    <3>3. argv \in Seq(Seq(Char) \ {<<>>})
      BY <1>2 DEF RunInd, SizeInd, CmdInv, CommandInv
    <3>4. DOMAIN argv = 1 .. Len(argv)
      BY <3>3
    <3>5. BashSplits(c, argv)
      BY <3>2, <3>4 DEF BashSplits, Splits, SpellsWords, BeginsOf, WordOf
    <3> QED BY <2>3, <3>2, <3>5 DEF Sees
  <2> QED BY <2>1, <2>2, <2>3
<1>3. RunInd /\ ArgsAreWords => RunsItsWords
  BY <1>2 DEF RunsItsWords, Plainly
<1> QED BY <1>1, <1>3, RunStep, WordsOfTheLine, PTL DEF Spec
=============================================================================
