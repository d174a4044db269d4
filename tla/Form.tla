-------------------------------- MODULE Form --------------------------------
(***************************************************************************)
(* The login form: load() of ui.c from one key press to the next, the      *)
(* fields of ui_state.c and ofield.c, the users of users.c, and the file   *)
(* in which launch_state.c keeps the last selection for the next start.    *)
(***************************************************************************)
EXTENDS EditField

CONSTANTS Passwd,       \* sequence of [name, home, shell] that getpwent() gives
          Sessions,     \* sequence of the names of the desktop files
          Defshell,     \* config.behavior.include_defshell
          Updates,      \* what one read_press() may return, backspace aside
          MaxTexts      \* Bound: how many inputs have a text at a time

(* It returns the bytes that have arrived, be they whole characters or not.*)
ASSUME UpdatesAssumption == Updates \subseteq Seq(Bytes) \ {<<>>}
ASSUME TextsAssumption == MaxTexts \in 1 .. 3    \* three is no bound

(* get_human_users(): who has a home in /home/, or no home directory set.  *)
get_human_users(passwd) == SelectSeq(passwd, LAMBDA p : p.home \in {"in /home/", "null"})
Users == get_human_users(Passwd)

ASSUME OptionsAssumption == /\ Len(Users) \in Nat
                            /\ Sessions \in Seq(Seq(Bytes)) /\ Defshell \in BOOLEAN

Inputs == {"session", "user", "passwd"}
Order == <<"session", "user", "passwd">>
BASH == <<"s">>         \* the shell of a user that is not in Users

(* The account file holds names and shells of whole characters.  The names *)
(* of desktop files need not be whole: no text begins as one of them.      *)
ASSUME NamesAssumption == /\ \A i \in 1 .. Len(Users) : /\ Whole(Users[i].name)
                                                       /\ Whole(Users[i].shell)
                          /\ Whole(BASH)

VARIABLES of,           \* the three opts_fields
          focus,        \* focused_input
          esc,          \* how many more keys the ESC counts for
          lost,         \* how a key took lidm out of the memory of a field
          torn,         \* a press began inside a character since lidm started
          file,         \* the two lines of the state file, if it has both
          last,         \* what was launched last, if two options: their numbers
          written       \* and the state file got both of its lines

text == <<lost, torn>>
saved == <<file, last, written>>
vars == <<of, focus, esc, text, saved>>

----------------------------------------------------------------------------
Empty == efield_new(<<>>)
ofield_new(n) == [opts |-> n, current |-> IF n = 0 THEN 0 ELSE 1, efield |-> Empty]

UserOf(fields) == IF fields["user"].current # 0 THEN Users[fields["user"].current]
                  ELSE [name |-> fields["user"].efield.content, shell |-> BASH]

IsDefshell(fields) == fields["session"].current = Len(Sessions) + 1
IsShell(fields) == fields["session"].current = 0 \/ IsDefshell(fields)
SessionName(fields) ==
  CASE fields["session"].current = 0 -> fields["session"].efield.content
    [] IsDefshell(fields) -> UserOf(fields).shell
    [] OTHER -> Sessions[fields["session"].current]

(* The first option of that name, as the loops of load() break at it.      *)
Matching(names, name, default) ==
  LET at == {i \in 1 .. Len(names) : names[i] = name}
  IN  IF at = {} THEN default ELSE Min(at)

(* What load() shows at its start without a state file.                    *)
Fresh == LET n == Len(Sessions) + (IF Defshell THEN 1 ELSE 0)
         IN  [session |-> [ofield_new(n) EXCEPT
                             !.current = IF Sessions = <<>> THEN 0 ELSE 1],
              user |-> ofield_new(Len(Users)),
              passwd |-> ofield_new(0)]

UserNames == [i \in 1 .. Len(Users) |-> Users[i].name]

(* A slip: the default shell is not looked for among the lines.            *)
RestoredNoShell(f) ==
  IF f = <<>> THEN Fresh
  ELSE [Fresh EXCEPT !["user"].current = Matching(UserNames, f[1], @),
                     !["session"].current = Matching(Sessions, f[2], @)]

(* And with one: its two lines select by name.                             *)
Restored(f) ==
  IF f = <<>> THEN Fresh
  ELSE LET u == [Fresh EXCEPT !["user"].current =
                   Matching(UserNames, f[1], @)]
           s == [u EXCEPT !["session"].current = Matching(Sessions, f[2], @)]
       IN  IF Defshell /\ UserOf(u).shell = f[2]
           THEN [s EXCEPT !["session"].current = Len(Sessions) + 1] ELSE s

CanSeek(o) == ~ (o.opts = 0 \/ (o.opts = 1 /\ o.current # 0))

(* A slip: the text counts as one more option when the options wrap.       *)
OptsSeekPast(o, seek) == [o EXCEPT !.current = 1 + ((@ + seek + o.opts) % (o.opts + 1))]

(* ofield_opts_seek(), on unsigned numbers.                                *)
OptsSeek(o, seek) == [o EXCEPT !.current = 1 + ((@ - 1 + seek + o.opts) % o.opts)]

(* The first field of a list that has another option takes the step.       *)
SeekFirst(fields, seek, list) ==
  LET able == {i \in 1 .. Len(list) : CanSeek(fields[list[i]])}
  IN  IF able = {} THEN fields
      ELSE [fields EXCEPT ![list[Min(able)]] = OptsSeek(@, seek)]

(* st_ch_of_opts(): ESC and then an arrow.                                 *)
ChOfOpts(fields, seek) ==
  SeekFirst(fields, seek, IF focus = "user" THEN <<"user", "session">>
                          ELSE <<"session", "user">>)

(* st_ch_ef_col(): an arrow moves in the text, or else changes an option.  *)
ChEfCol(fields, seek) ==
  LET o == fields[focus]
      f == efield_seek(o.efield, seek)
  IN  IF o.current = 0 /\ f # o.efield THEN [fields EXCEPT ![focus].efield = f]
      ELSE IF o.opts # 0 THEN SeekFirst(fields, seek, <<focus>>)
      ELSE SeekFirst(fields, seek, <<"session", "user">>)

(* st_kbd_type(): an option turns into text, after its name or its shell.  *)
Start(fields) == CASE focus = "user" -> UserOf(fields).name
                   [] focus = "session" /\ IsShell(fields) -> SessionName(fields)
                   [] OTHER -> <<>>
AtHand(fields) == IF fields[focus].current # 0 THEN efield_new(Start(fields))
                  ELSE fields[focus].efield
KbdType(fields, u) == [fields EXCEPT ![focus].current = 0,
                                     ![focus].efield = efield_update(AtHand(fields), u)]

(* The text and its null byte are longer than the memory of a field: the   *)
(* message "field too long" keeps nothing out, and efield_new() has none.  *)
Overruns(f) == Len(f.content) >= ContentSize

(* Where a key takes lidm: two ways lead out of the memory of a field.     *)
TypeLeads(u) == CASE u = Backspace /\ Walks(AtHand(of)) -> "walked"
                  [] \/ Overruns(AtHand(of))
                     \/ Overruns(efield_update(AtHand(of), u)) -> "overran"
                  [] OTHER -> "no"
ArrowLeads(seek) == IF /\ esc = 0 /\ of[focus].current = 0
                       /\ seek < 0 /\ Walks(of[focus].efield) THEN "walked" ELSE "no"
----------------------------------------------------------------------------
Init == /\ of = Fresh /\ focus = "passwd" /\ esc = 0
        /\ lost = "no" /\ torn = FALSE
        /\ file = <<>> /\ last = <<>> /\ written = FALSE

Handled == esc' = IF esc = 0 THEN 0 ELSE esc - 1

(* The key ESC: two, and one less for this key itself.                     *)
Escape == esc' = 1 /\ UNCHANGED <<of, focus, text, saved>>

(* focused_input is unsigned: one up from the first is 2^32 - 1, whose     *)
(* remainder by 3 is 0 again.                                              *)
Position == CHOOSE i \in 1 .. 3 : Order[i] = focus
Down == /\ focus' = Order[1 + (Position % 3)]
        /\ Handled /\ UNCHANGED <<of, text, saved>>
Up == /\ focus' = IF Position = 1 THEN focus ELSE Order[Position - 1]
      /\ Handled /\ UNCHANGED <<of, text, saved>>

Arrow(seek) == /\ lost' = ArrowLeads(seek)
               /\ of' = IF lost' # "no" THEN of
                        ELSE IF esc # 0 THEN ChOfOpts(of, seek) ELSE ChEfCol(of, seek)
               /\ Handled /\ UNCHANGED <<focus, torn, saved>>

Type(u) == /\ Cardinality({i \in Inputs \ {focus} : of[i].efield.content # <<>>}) < MaxTexts
           /\ lost' = TypeLeads(u)
           /\ of' = IF lost' # "no" THEN of ELSE KbdType(of, u)
           /\ torn' = (torn \/ u[1] \in Conts)
           /\ Handled /\ UNCHANGED <<focus, saved>>

(* Enter saves the selection and launches it, whatever came of the saving. *)
(* The file may be impossible to open, or to write: then nothing, the first*)
(* line or a part of the second is in it, and success is reported.  A file *)
(* without a second line is read as none.                                  *)
Chosen == <<of["user"].current, of["session"].current>>
Lines == <<UserOf(of).name, SessionName(of)>>
Cut == {<<Lines[1], SubSeq(Lines[2], 1, n)>> : n \in 1 .. Len(Lines[2]) - 1}
Enter == /\ \/ written' = TRUE /\ file' = Lines
            \/ written' = FALSE /\ file' \in {file, <<>>} \cup Cut
         /\ last' = IF 0 \in {Chosen[1], Chosen[2]} THEN <<>> ELSE Chosen
         /\ Handled /\ UNCHANGED <<of, focus, text>>

Started == focus' = "passwd" /\ esc' = 0 /\ lost' = "no" /\ torn' = FALSE

(* lidm dies after fopen() truncated the file and before fclose() wrote it,*)
(* and starts anew.                                                        *)
DieWriting == /\ file' = <<>> /\ written' = FALSE /\ last' = last
              /\ of' = Fresh /\ Started

(* lidm starts anew: a session ended, the refresh key, a reboot, a crash.  *)
Restart == of' = Restored(file) /\ Started /\ UNCHANGED saved

(* Out of its memory lidm may do anything: it is followed to its next start.*)
Next == \/ /\ lost = "no"
           /\ \/ Escape \/ Up \/ Down \/ Enter \/ DieWriting
              \/ \E seek \in {-1, 1} : Arrow(seek)
              \/ Type(Backspace)
              \/ \E u \in Updates : Type(u)
        \/ Restart

Spec == Init /\ [][Next]_vars

----------------------------------------------------------------------------
FormTypeOK == /\ of \in [Inputs -> [opts : Nat, current : Nat, efield : Field]]
              /\ focus \in Inputs /\ esc \in 0 .. 1
              /\ lost \in {"no", "walked", "overran"}
              /\ torn \in BOOLEAN /\ written \in BOOLEAN
              /\ file \in {<<>>} \cup (Seq(Bytes) \X Seq(Bytes))

(* Whatever is typed, erased and restored, an option that is shown exists: *)
(* st_user() and st_session() index their vectors with it.                 *)
OptionsExist == /\ of["user"].current \in 0 .. Len(Users)
                /\ of["session"].current \in
                     0 .. Len(Sessions) + (IF Defshell THEN 1 ELSE 0)
                /\ of["passwd"].current = 0

(* A cursor stands between two characters, whatever bytes arrived, and as  *)
(* long as every press began with a character every text does: then neither*)
(* backspace nor an arrow leaves the string (utf8back() has no bound).     *)
CursorsBetweenCharacters ==
  /\ \A i \in Inputs : FieldOK(of[i].efield)
  /\ ~torn => lost # "walked" /\ \A i \in Inputs : Whole(of[i].efield.content)

(* Erasing undoes typing one character where it fits, and an arrow back    *)
(* undoes an arrow that stayed in the string, in whole texts and in others.*)
Character(u) == u[1] \notin Conts /\ \A k \in 2 .. Len(u) : u[k] \in Conts
EditsUndo == \A i \in Inputs : LET f == of[i].efield IN
  /\ \A u \in Updates : Character(u) /\ Len(f.content) + Len(u) < ContentSize =>
                          efield_update(efield_update(f, u), Backspace) = f
  /\ \A seek \in {-1, 1} : Sought(f, seek) \notin {f.pos, -1} =>
                             efield_seek(efield_seek(f, seek), -seek) = f

(* A start of lidm shows the options that were launched last, if the file  *)
(* got both lines and these were options and not typed (launch_state.c 1), *)
(* also where keys, crashes and other starts lie between.                  *)
RestoresLast == [][Restart /\ written /\ last # <<>> => Chosen' = last]_vars
=============================================================================
