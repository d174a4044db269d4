# lidm in TLA+

A verification project for lidm, a text-mode login manager: one process that
draws a form, authenticates with PAM, forks the user's session, waits for it
and cleans up. Line numbers below are those of `src/src/*.c` of this commit.

## 1. The system

| Part | State it keeps | Operations | What is hard |
|---|---|---|---|
| launch protocol: `auth.c` `launch`/`forked`, `pam.c` | PAM handle with credentials and session, the pipe, the child, the terminal | the PAM calls up and down, fork, message, end-of-file, exec, waitpid | two processes share a pipe; every step can fail; attempts follow each other in one process |
| signals: `signal_handler.c`, SIGINT in `ui.c` | none (a handler) | SIGTERM to the group, reap all, `_exit` | it comes anywhere, also in the child before its exec |
| X11 launcher: `auth.c` `launch_with_xorg_server` | two pids, the display pipe | start X, read the display, start the session, end both | either may die first, at any time; a failed fork leaves the pid -1 |
| edit field: `efield.c`, `util/utf8.c` | bytes and a byte cursor | type, backspace, arrows | multi-byte characters, unbounded walk back, 255 bytes |
| options and form: `ofield.c`, `ui_state.c`, `load()` in `ui.c` | option or text per input, focus, ESC counter | every key | unsigned wrap-around; option 0 means text |
| state file: `launch_state.c` | two lines in `/var/lib/lidm/state` | write at Enter, read at start | crash after truncation; restored by name |
| desktop file reader: `desktop.c`, with the callbacks of `config.c` and `sessions.c` | line buffer, table, what was collected | one line per iteration | end-of-file in a `size_t`, errors in a `bool` |
| exec strings: `desktop_exec.c`, `sessions.c` | argument vector, command line | split the Exec line, join it again for a login shell | quotes, escapes, the limit of the arguments, a shell that splits once more |
| keyboard: `keys.c`, the loop of `load()` in `ui.c` | bytes of a key, `need_resize` | bytes until none is ready, draw, wait | torn and early bytes, SIGWINCH at any point, two uses of `select()` |
| environment: `pam.c` `merge_envlist`, `auth.c` `source_paths`, `push_dyn_arr`, `util/vec.c` | a vector of strings | append | the null pointer at the end, allocation failure half way, who owns a line |
| users, VT, log, drawing | lists, a descriptor, the screen | read once, print | nothing concurrent |

How they interact. `main` reads the configuration and the desktop files, then
calls `load()`, which owns the prompt. Enter writes the state file and calls
`launch()` with a callback, `restore_all`. `launch()` and its child talk over
one pipe: a message from the child, and end-of-file back to it when `launch()`
closes its write end. An X11 session is a third process that forks two more.
`launch()` returns to the prompt after a failure and otherwise ends lidm; the
service manager starts it again, and `load()` restores the selection from the
state file. SIGTERM reaches whoever is in lidm's process group. What a session
runs and with which environment is put together in three places: its Exec line
is split when lidm starts, its environment at login, and the child joins the
line again for a login shell.

What makes each part correct is section 4; the list of what is hard to test,
line by line, is `hazards` in `PROJECT.json`.

## 2. The modules

| Module | Models | Role |
|---|---|---|
| `Login` | nothing of the code | abstract specification: what a login manager promises about accounts and sessions |
| `Launch` | `launch`, `forked`, `get_pamh`, the environment as one step, `restore_all`, both signal handlers | the core |
| `MCLaunch` | | name under which TLC runs `Launch` |
| `XorgSession` | `launch_with_xorg_server`, `x_get_display`, `start_xorg_server`, X, the session | what `Launch` calls a session, when it is an X11 one |
| `EditField` | `efield.c`, `utf8back`, `utf8seek` | operators, used by `Form` |
| `Form`, `MCForm` | `load()` between key presses, `ui_state.c`, `ofield.c`, `launch_state.c`, `get_human_users` | the prompt and its restarts |
| `Keyboard`, `MCKeyboard` | the loop of `load()` around one key, `keys.c`, `keys.h`, SIGWINCH | how a key gets to the form |
| `Command` | `parse_exec_string` | part of `SessionStart` |
| `Environment` | `merge_envlist`, `try_source_file`, `source_paths`, `push_dyn_arr`, `vec.c` | part of `SessionStart` |
| `SessionStart`, `MCSessionStart` | `fn` from the Exec line on, `desktop_as_cmdline`, the two functions that execute a session, `search_path` | composes `Command` and `Environment` |
| `DesktopFiles`, `MCDesktopFiles` | `read_desktop` and the callbacks of `config.c`, `sessions.c` | what start-up reads |
| `LaunchProofs` | | proofs about `Launch`, and that it implements `Login` |
| `XorgProofs` | | proofs about `XorgSession` |
| `CommandProofs`, `SessionProofs` | | proofs about `SessionStart`: the parser; the environment, the command line and the program |
| `KeyboardProofs`, `DesktopProofs` | | proofs about `Keyboard` and `DesktopFiles` |
| `EditFieldProofs`, `FormProofs` | | lemmas about the operators of `EditField`, and the proofs about `Form` that use them |

### Launch

`pc` is lidm's place: `"prompt"`, one value for each PAM call of `get_pamh()`
and of the teardown, `"env"`, `"fork"`, `"read"`, `"restore"`, `"release"`,
`"wait"`, the SIGTERM handler and three ways to have exited. `child[a]` is the
place of the child of attempt `a` in `forked()`. `pam[a]` is the set of what
PAM holds for the attempt: the handle, the passed checks, credentials, session.
`pam_end()` frees the handle and what belongs to it, and *not* the credentials
and the session, which is why `PamFails` leaves these.

The pipe is `msg[a]` (the child's message) and `held` (attempts whose write end
lidm holds). Both processes read one end, so `DummyRead` has two ways out: a
byte of the child's own message (`early`) or end-of-file. When the child took a
byte, lidm's `read()` returns the other 15 of 16, and the fields of `struct
child_msg` are shifted by one. All builds with gcc from -O0 to -O3 zero the
whole compound literal, so that the `err` lidm finds there is false; `ReadMsg`
therefore treats both messages alike.

A SIGTERM before the exec runs lidm's own handler in the child and ends it with
status 0 (`HandleSigterm`); a child that was signalled takes no other step of
its own. After the exec the default action is the session's business
(`SessionEnds`).

`SEND_ERR` is two steps: `DropFails` writes the message and leaves the child
`"failing"`, `FailExits` is its `_exit()`. lidm does not wait for such a child,
so that it may live beside the prompt and the next attempt. `Able` is a child
that may still become a session, which a failing one may not.

`Faults` switches the outside on: a fork that fails, a child that is killed
from outside before its exec, a session that leaves the process group.
`MaxAttempts` is the bound of the model on `Begin`; lidm has none.

### XorgSession

`pc` is the launcher's line; `proc` the two children; `display` what is in the
display pipe; `victim` is `pid_to_kill`, computed by the exclusive or of
line 224: the other child, or -1 (`"all"`) when the other fork failed. The
fault `"garble"` is an answer on the display pipe that is no number. The
launcher never execs and keeps both handlers of lidm: `Sigterm` and `ReapAll`
are the one for SIGTERM, `Interrupt` the one for SIGINT, which exits with no
regard to the children. X is started without `-keeptty` and leaves the process
group by itself (`Regroup("x")`), after which the signal to the group does not
reach it. `exit_nomem` is the exit of `PushDisplay`.

### EditField and Form

A field is its byte string and cursor. Bytes are a small set, some of which
continue a character: that is all UTF-8 the code looks at. `Back` returns -1
where `utf8back()` would walk out of the string. `pos` has its 8 bits
(`PosValues`, scaled with `ContentSize`). `Form` has one action per kind of
key. The ESC counter is decremented by every key, ESC included, so that it is
0 or 1 between keys.

A press is whatever bytes had arrived (`UpdatesAssumption`), whole characters or
pieces of them; `torn` notes a press that began inside a character. Two things
take lidm out of the memory of a field: `utf8back()` in a text that begins
inside a character, and a text that does not fit, which is reported and inserted
all the same. `lost` says which (`TypeLeads`, `ArrowLeads`). From there on
anything may happen, and the model goes on with the next start of lidm.

`Enter` launches the selection in any case. The state file gets its two lines
(`written`), or cannot be opened, or is left empty or with its second line cut
short, which `launch_state.c` reports as success. `last` is what was launched,
whatever became of the file. `DieWriting` is a crash between `fopen("w")` and
`fclose()`; `Restart` stands for every new start (exit after a session, refresh
key, a crash).

`Passwd` is what `getpwent()` gives; the users are computed from it as
`get_human_users()` does, so that the user of the form stands among other
accounts.

### Keyboard

`plan` is what will be typed, its bytes and where each key ends in them,
`arrived` the bytes of it that came, `taken` those lidm read. `Select`, `Read` and `More` are the three system calls of one key,
`Deal` is what `load()` does with it (`Act`, with the table of `keys.h` in
full). `Resize` is the change of the window with its handler and may come
between any two of them; where a `select()` has found nothing yet it fails, the
first as after a timeout, the second as if there were more to read.
`Draw` is the `ioctl()` that looks at the window, `Paint` the rest of the
drawing.

### Command, Environment, SessionStart

A character of an Exec line is one of five kinds. `cur` has its text and
capacity, `argv` the arguments; every `realloc()` may fail. `AreWords`
defines what a line says without the loop: which characters introduce another
(`Introduces`), which quotes are bare, where a line breaks and which of its
characters are text; a word begins where a break stands between a character
and all text before it (`Begins`), and what it spells are the characters at
its positions (`Word`, `Spells`). An `Environment` string is its key and
where it came from; `live` is what is allocated. `AddExtra`, `ReadLine` and
`PushDisplay` are one iteration each, and `CleanUp` is the failure label of
`merge_envlist()`. Its frees begin behind the list of PAM and go on over slots
that nobody set (`Unset`), which is undefined: the child dies of it
(`"crashed"`) or goes on to the error path (`"merge failed"`). No session starts
after either. The list of PAM is not freed there, although the comment at
`pam.c` 32-33 says it is; the child exits with it, and no property is about it.

A character `"letter"` stands for one that means nothing to the parser and to
bash; `$`, `;`, `&` and the like are not represented. `search_path()` tries the
directories of `PATH` in turn, or for a name with a slash that one path.

`SessionStart` runs the two one after the other, as lidm does, then counts the
room for a command line, one argument per `Count`, joins and executes. What
bash makes of a command line is `BashSplits`, for lines in which nothing is
quoted: the words between its spaces.

### DesktopFiles

A line has a kind and what it leaves in the buffer after the parser cut it. At
the end of the file `Line` is what the last line left, because `getline()`
returns -1, the loop compares a `size_t`, and glibc leaves the buffer as it is.
A cut key=value line has no equal sign any more and stops the loop as an
error; a `bool` makes that error 1, which no caller takes for one. The first
file is the configuration, the others are desktop files; `startup.nomem` lets
`strdup()` and `malloc()` fail. `LineSet` is what a line may be and `Leftovers`
what one may leave; `LinesAssumption` says of them what the parser guarantees:
where a key=value line is left of a table line, its key begins with a bracket,
and is no key that anybody asks for.

## 3. The runs

| Run | Instance | Distinct states | Shows |
|---|---|---|---|
| `LaunchSafety` | 2 attempts, all faults, `FairSpec` | 20 022 | safety of `Launch`, the inductive invariant, the refinement of `Login`, progress of `launch()`, SIGTERM ends lidm, an ended session is closed |
| `XorgPass` | all faults, `FairSpec` | 400 | display before session, no orphans but by two named exits, no reaped pid killed, one end ends both, the start-up comes to an end, SIGTERM ends the launcher |
| `FormPass` | 3 accounts of which one is in the form, 2 sessions and the default shell, 5 bytes, whole and torn presses, fields of 3 bytes, one text at a time | 971 026 | options exist, cursors stand between characters and only torn presses lead `utf8back()` out of the string, edits undo, restarts restore |
| `DesktopPass` | all files of up to 4 lines of 11 kinds | 257 206 | the reader agrees with a definition without its loop, also after end-of-file, and what is offered is made of whole files |
| `SessionPass` | all Exec lines of up to 5 characters and some of 8, 2 arguments; 33 lists of sourced files, 0 to 2 PAM variables | 473 876 | the arguments are the words of the line, writes stay in their blocks, the environment is complete and in order, the program gets both |
| `KeyPass` | every sequence of the table, runs of 2 and 3 keys, 2 resizes, 2 configurations | 188 286 | bytes are dealt with once and in order, keys do what they are bound to, no resize is lost |
| `LaunchPrompt` | 1 attempt | violation | terminal mode at the prompt after a failed session |
| `XorgKill` | `fork_s` | violation | `kill(-1, SIGTERM)` after a failed fork |
| `FormNames` | two sessions of one name | violation | the first of them is restored |
| `DesktopEnd` | as `DesktopPass` | violation | a last line that is empty or a comment is read forever |
| `SessionShell` | as `SessionPass` | violation | an argument with a space becomes two in a login shell |
| `KeyBlocks` | as `KeyPass` | violation | a resize in the second `select()` makes lidm wait for another key |

The violations are disagreements between the code and a sentence of the
repository; `findings` in `PROJECT.json` quotes each sentence with its line.

Bounds. An attempt can leave to the next one a zombie, credentials, a lost
handle, a held pipe end, a terminal mode and a child that failed and still
lives; two attempts let one leave all of it and the other meet it, and the proofs
are for any number. `XorgSession` has no bound. In `Form` two sessions and the
default shell make the step between options and the wrap-around differ, and the
user has a single option; a field of three bytes holds a one-byte character next
to a two-byte one on either side, is filled to its end and overrun.
`MaxTexts = 1` keeps the texts of two inputs from being multiplied: the fields
do not share state, and what they share, focus and options, is in the model.

`DesktopFiles` needs a table, the three keys and one line more; its alphabet has one representative of every kind of line and both kinds of table
name that leave something else than an error in the buffer, and a key that
begins with a bracket.

In `SessionPass` five characters hold an open and a closed quote with text on
either side, and an introducer that is itself escaped; the longer lines have
four words, which with `MaxArgs = 1` is two more than are taken, so that the
third runs into the fourth. With `ArgLength = 2` a block of three letters has grown
twice. Files of up to two lines hold a line that is kept after one that is not,
and the reverse; the vector of the longest list grows several times past the
exact size it starts with. In `KeyPass` two resizes are one that is noted and
one that comes while it is being drawn; three keys show two that come in one
go, and the sequences of up to five bytes may be torn anywhere. `ESC` and a key
bound twice are in the second configuration.

Fairness. In `Launch` the code of lidm and of the child is fair, because the
kernel schedules both and PAM calls return; a session that was sent SIGTERM
ends. Neither a key press nor the end of a session is assumed. In
`XorgSession` also X either becomes ready or ends. In `DesktopFiles` the only
process is fair. In `Keyboard` the loop of lidm is fair (`select()` has a
timeout, so that it returns); keys, resizes and the end of a session are not.

The liveness properties are checked with all faults and name the state in
which the code does hang. `LaunchProgresses`: `BlockedOnOwnPipe`, when `fork()`
failed or the child was killed before its message, and the `read()` at line 340
waits for a pipe whose write end lidm itself holds. `SigtermEnds`: a session
that left the process group gets no SIGTERM, and lidm waits for it; so does the
launcher for an X server, which leaves the group by itself.
`StartupResolves`: an X server that gave an answer which is no number and runs
on. `ResizeIsDrawn` and `BytesAreHandled`: the `read()` of `KeyBlocks`.

Deadlock is checked in `FormPass`, where lidm can always be started anew, and
is no error in the other passing runs, where the program ends.

## 4. What is proved

TLAPS proves every invariant and every action property that the passing
runs check, and the refinement, for every value of the constants under the
assumptions the modules name. What follows lists, by module, the theorems, the
assumptions and the inductive invariants.

### Launch

`MaxAttempts \in Nat \ {0}`, and `Faults` a subset of the three.

- `TypeCorrect`: the type invariant, one step per action. TLC checks it as a
  conjunct of `Inv`.
- `InvCorrect`: the inductive invariant `Inv`. None of the safety properties is
  inductive alone. That a session has everything PAM granted needs to know that
  PAM's steps were taken in order (`PamInOrder`), that a child which
  may become a session belongs to the served attempt while lidm is between its
  fork and its wait, has reported no error, and that any living child, a failing
  one of an earlier attempt too, has what PAM granted (`Living`),
  that attempts not begun are untouched (`Unserved`), that the child's steps
  accumulate (`Dropping`), and that past `DUMMY_READ` lidm has let go
  (`Synced`). `Inv` is also an invariant of `LaunchSafety`.
- `SessionLegit`, `Handover`, `NothingLeft`, `ClosedAfterWait`,
  `SuccessEarned`: the five safety properties, each from `Inv`. `NothingLeft` is
  the one about the prompt: what lives there has reported an error and can only
  exit.
- `Refines`: `Launch` implements `Login`. `Account` and `SessionOf` map the
  state; `StepSimulation` shows, action by action and from `Inv`, that a step is
  one of `Login` or a stutter. Five lemmas (`Stutter`, `Moves`,
  `SameAccounts`, `Ends`, `Leaves`) carry the cases that recur.

### XorgSession

Any set of failing forks.

- `XInvCorrect`: `XInv`, whose core is that from `"kill"` on exactly one child is
  left, the one `victim` names, or none and `victim` is `"all"`. It needs to
  know what the display pipe says of X's state, since the launcher learns of a
  dead X by end-of-file only. `VictimOf` is the exclusive or of line 224.
- `DisplayFirst`, `NobodyOrphaned`, `VictimUnreaped`, each from `XInv`. Two exits
  are excepted from `NobodyOrphaned` by name: without memory for `DISPLAY` the X
  server stays and no session, after SIGINT both may.

### SessionStart

Any set of Exec lines and environments (`StartsAssumption`), any limit of
arguments (`MaxArgs \in Nat`), any first capacity (`ArgLength \in Nat \ {0}`).

- `CommandCorrect`: `CommandInv` is inductive once the limit and the string
  have their types. That `cur` has text exactly if it is allocated
  carries the case of the limit, where `push_arg()` returns without taking it.
- `WordsOfTheLine`: the vector is the words of the line, for lines of any length
  and any nesting of quotes and introducers. `WordInd` says where the loop is
  between two characters: no introducer is pending (`Settled`), `in_quote` is
  the parity of the bare quotes so far, and `Kept` ties the words begun so far
  to the vector and to `cur`. Past the limit `cur` holds several words in one,
  so that `Kept` says nothing of it there, and only counts. The lemmas go from
  `n` characters to `n + 1`: a character that is no text, one that is, and a
  break (`SkipKeeps`, `AddKeeps`, `BreakKeeps`); the loop is then each of its
  branches. `EndKeeps` is the end, where `Kept` becomes `AreWords`.
- `EnvironmentCorrect`: `EnvironmentInv`. The strengthening `EnvInd` counts the
  extras still to come (`Coming`), because `realloc()` was made for all of them
  before the first is written; `ComingNext` takes one off. That growing by one
  half and one makes room for one more is `PushedFits`.
- `StringsStayAlive`, `EnvironmentInOrder`: the two
  properties of the collected strings, both from `ListInd`. It says that every
  string of the list has a place it came from (`Known`) which the loops have
  passed, that strings stand in the order of these places (`Before`), and what
  was collected at each step (`Collected`). A string that was passed
  cannot come again, so that none is in the list twice. Two strings of one name
  may well be in it; the order then decides, for `getenv()` in favour of the
  first, for the bash through which sessions start by default of the last.
- `CommandLineFits`: `SizeInd` follows the two loops of `desktop_as_cmdline()`:
  the sizes are the sums the first one makes, and the second has written as
  much as was counted up to its argument.
- `ProgramSeesItsWords`: `RunInd` says that bash would split what is joined so
  far into the arguments joined so far (`Splits`) as long as none needs quotes,
  and that the line ends in a space. `JoinSplits` adds one word: the space
  before it makes it begin, and no word before it changes. Together with
  `WordsOfTheLine` the program has the words of its Exec line.

### Keyboard

Any plan whose keys end in order within its bytes (`PlansAssumption`), any
bindings, any number of resizes.

- `ResizeKept`: a window that is not on the screen is noted in `need_resize`,
  which is cleared before the `ioctl()` and never after it. Inductive as it
  stands.
- `BytesDealtOnce`: `KeyInd` adds to `KeyboardInv` that a key at hand has a byte,
  without which two keys could end at the same place.
- `KeysTakenAsThemselves`: `CalmInd`. While keys come whole and one at a time,
  every key that was dealt with ends where one ends that was pressed, and at
  most one is on its way. That `selret_magic()` finds what is bound is
  independent of that and holds of each key (`KeyInd`).

### Form and EditField

Any accounts with names and shells of whole characters (`NamesAssumption`: a
text of the form begins as one of them), any session names, whole or not, any
bytes of which some continue a character (`BytesAssumption`), any size of a
field, and any bytes in a press (`UpdatesAssumption`).

- `OptionsAlwaysExist`: the induction needs that the number of options in each
  field is that of its list and that what the state file restores is looked up
  in the same list (`FInd`); `SeekShows` is the wrap-around of
  `ofield_opts_seek()`, `MatchingIn` the search by name, which rests on `MinIn`.
- `FormTypeCorrect`, `CursorsStandBetween`, `EditsAlwaysUndo`: from `TextInd`,
  that every field has room for the null byte and its cursor between two
  characters, whatever pressed bytes it holds, and that as long as no press was
  torn it holds whole characters, where `utf8back()` stays in the string. The
  lemmas of `EditFieldProofs` show it of each operation: what `utf8back()` finds
  is the beginning of the character before the cursor, taking it out leaves the
  cursor between two, and so does putting some in; whole texts stay whole when
  what is put in begins with a character.
- `LastRestored`: a restart selects what was launched last, whatever keys, failed
  starts and crashes lie between, if the state file got both lines of it
  (`written`), if it was options and not text, if no two users and no
  two sessions have one name and no shell is called like a session (`Distinct`,
  which `FormPass` satisfies; `FormNames` is the run where sessions do not).
  `LastInd` ties the file to the selection that was written into it. Of a
  selection whose file was not written, cut short or truncated by a crash the
  code keeps nothing, and the theorem says nothing.

### DesktopFiles

Lines as `LinesAssumption` has them, files of any length and number, any options.
The theorems are about `FairSpec` and use no fairness.

- `DesktopTypeCorrect`, `EachLineReadOnce`: from `DInd`. Under
  way in a file the table at hand is the one the next line stands under, and
  what was made of the lines is what they say (`Reads`); behind the last line
  the buffer holds nothing of interest, or no table was met yet (`Stands`),
  which is why an entry that is handled twice is not stored twice.
  What ended the file is part of it (`Ended`).
- `WholeFilesOffered`: a session is offered if and only if the lines of its file,
  up to the first that cannot be parsed (`UpToError`), say so, with the first
  value of each key (`OffersWholeFiles`): that the loop stops early, at the third
  key or at an error that a `bool` hides, changes nothing, unless memory ran out.
  `FirstStays` is why: lines behind the first of each key do not count.

### Only model-checked

All liveness, which needs `ENABLED` and is out of the prover's reach:
`LaunchProgresses`, `SigtermEnds` in both modules, `EndedIsClosed`,
`OneEndsBoth`, `StartupResolves`, `ReadsAllFiles`, `ResizeIsDrawn` and
`BytesAreHandled`. The proofs take the loops step by step; the definitions
they are compared with have no recursion, as no prover here could induct over
it.

## 5. Not modelled

- Drawing, colours, the clock, the width of characters: no behaviour depends
  on them.
- The key length past 255 bytes, and a `read()` that fails (lidm exits).
- Escapes inside the string values of the configuration, and reboot and power
  off beyond the end of lidm.
- Users whose strings could not be allocated (`users.c` 58): what such a user
  reads as is whatever the memory held.
- What happens once lidm left the memory of a field, by a text that is too long
  (`efield.c` 56) or by `utf8back()` (`utf8.c` 46): what lies there is memory of
  other variables. `Form` says when it comes to that.
- What the frees of `merge_envlist()` do with slots nobody set, beyond a crash or
  none, and the leak of the list of PAM there.
- `pipe()` failing in `launch()`, where the code goes on with descriptors it
  never set.
- Directories and the walk over them: read once, constants of the models.
- What PAM modules, Xorg and sessions do inside: external, any outcome.
- A negative result of `read()` in `x_get_display()`, which writes before the
  buffer (`auth.c` 98): the model has an answer, a garbled one or end-of-file.

A remark outside the models: `find_keyname()` looks through as many names as
`KEY_MAPPINGS` has entries, and `NONE` is behind the last of them, so that
`fido = NONE` (as in `themes/default.ini` 28, a comment there) is refused
and the default stays; as the default is `NONE`, nothing is seen of it.
`Keyboard.Bound` does the same.

## 6. Plan

1. Done: `Login`, `Launch` with proofs and refinement; `XorgSession` with proofs;
   `EditField` and `Form`; `DesktopFiles`; `Keyboard`; `Command`, `Environment`
   and `SessionStart`.
2. Done: proofs of all safety invariants and action properties.
3. A composition of `Launch` with `XorgSession` as its session, so that SIGTERM
   and the exit code pass through the launcher, and of `Form` with `Launch`
   for the terminal mode over re-execs.
4. Widths: `uint32_t` capacity in `vec_reserve()`, `uint8_t` length in
   `read_press()`.
