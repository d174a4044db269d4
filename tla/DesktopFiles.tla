---------------------------- MODULE DesktopFiles ----------------------------
(***************************************************************************)
(* What lidm reads when it starts: the configuration and then the desktop  *)
(* files of the sessions, all by read_desktop() of desktop.c, with the     *)
(* callbacks of config.c and sessions.c.                                   *)
(*                                                                         *)
(* The loop over the lines stops at getline() <= 0, but its result is kept *)
(* in a size_t: at the end of a file the loop goes on with what the last   *)
(* line left in the buffer, until that is no key=value line any more.      *)
(***************************************************************************)
EXTENDS Naturals, SequencesExt, Functions

CONSTANTS LineSet,      \* what a line may be
          Leftovers,    \* those a line may leave, cut where its name or key ends
          Startups,     \* set of [files, nomem]: what one start of lidm reads, in
                        \* its order, and whether an allocation fails
          Garbage,      \* what memory from malloc() may look like as a line
          Options,      \* the options of the configuration, as <<table, key>>
          Arrays,       \* those that hold a STRING_ARRAY
          Unparsable    \* values parse_key() or parse_exec_string() refuses;
                        \* an option of type NUMBER takes whatever it finds

ASSUME ArraysAssumption == Arrays \subseteq Options /\ \A o \in Options : o = <<o[1], o[2]>>

(* A line by its kind: "skip" is empty, a comment or without a key; "junk" *)
(* has no equal sign.  The others are cut where their name or key ends, so *)
(* that another line is left of them in the buffer.                        *)
Skip == [is |-> "skip"]
Junk == [is |-> "junk"]
Table(name, left) == [is |-> "table", name |-> name, left |-> left]
Entry(key, value) == [is |-> "entry", key |-> key, value |-> value, left |-> Junk]

Keys == {"Name", "Exec", "TryExec"}
None == "none"          \* a null pointer

(* Where there is an equal sign in what is left, its line was a table's:   *)
(* the key begins with a bracket, as no option and no key of a session     *)
(* does (config.h 30-42).  Each option has a table (config.h 154-165).     *)
ASSUME LinesAssumption ==
  /\ \A l \in LineSet : /\ l.is \in {"skip", "junk", "table", "entry"}
                        /\ l.is \in {"table", "entry"} => l.left \in Leftovers
                        /\ l.is = "entry" => l.value # None
  /\ \A l \in Leftovers : l.is = "entry" => /\ l.key \notin Keys
                                            /\ \A o \in Options : o[2] # l.key
  /\ \A o \in Options : o[1] # None
  /\ Junk \in LineSet /\ Leftovers \subseteq LineSet /\ Garbage \subseteq LineSet
  /\ Startups \subseteq [files : Seq(Seq(LineSet)), nomem : BOOLEAN]

VARIABLES startup,      \* the member of Startups at hand
          i,            \* the file at hand, the first is the configuration
          pc,
          at,           \* lines of it that were handled
          buf,          \* what is in the buffer of getline()
          table,        \* table_name
          ret,          \* the bool ret: TRUE for -1
          ctx,          \* struct ctx_typ of sessions.c
          config,       \* the options that were set
          sessions      \* the vector of sessions

vars == <<startup, i, pc, at, buf, table, ret, ctx, config, sessions>>

Files == startup.files
Lines == Files[i]
IsConfig == i = 1

(* getline(), which leaves the buffer alone at the end of the file.        *)
Line == IF at < Len(Lines) THEN Lines[at + 1] ELSE buf
Handled == at' = IF at < Len(Lines) THEN at + 1 ELSE at

(* A slip: the bracket that ends a table's name is put back.               *)
LeftKeepsTable(l) == IF l.is = "entry" THEN l.left ELSE l
Left(l) == IF l.is \in {"table", "entry"} THEN l.left ELSE l

Init == /\ startup \in Startups
        /\ i = 1 /\ pc = "open" /\ at = 0 /\ ret = TRUE
        /\ buf = Junk /\ table = None
        /\ ctx = [k \in Keys |-> None]
        /\ config = [o \in Options |-> <<>>]
        /\ sessions = <<>>

(* parse_config() and fn(): a file that cannot be opened is passed over.   *)
Open == /\ pc = "open" /\ i <= Len(Files)
        /\ \/ /\ pc' = "read"
              /\ buf' \in Garbage
              /\ UNCHANGED i
           \/ i' = i + 1 /\ UNCHANGED <<pc, buf>>
        /\ at' = 0 /\ ret' = TRUE /\ table' = None
        /\ ctx' = [k \in Keys |-> None]
        /\ UNCHANGED <<startup, config, sessions>>

SkipLine == /\ pc = "read" /\ Line.is = "skip"
            /\ buf' = Line /\ Handled
            /\ ret' = FALSE
            /\ UNCHANGED <<startup, i, pc, table, ctx, config, sessions>>

TableLine == /\ pc = "read" /\ Line.is = "table"
             /\ buf' = Left(Line) /\ Handled
             /\ table' = Line.name
             /\ ret' = FALSE
             /\ UNCHANGED <<startup, i, pc, ctx, config, sessions>>

(* config_line_handler(): the last value of an option counts.              *)
config_line_handler(l) ==
  LET o == <<table, l.key>>
  IN  IF o \notin Options \/ l.value \in Unparsable THEN config
      ELSE [config EXCEPT ![o] = IF o \in Arrays THEN Append(@, l.value)
                                 ELSE <<l.value>>]

(* Slips of the callback: the key is copied; the last value counts.        *)
CbCopiesKey(l) == [ctx EXCEPT ![l.key] = l.key]
CbLastValue(l) == [ctx EXCEPT ![l.key] = l.value]

(* cb() copies the first value of a key and finishes when it has all.      *)
Copied(l) == [ctx EXCEPT ![l.key] = IF @ = None THEN l.value ELSE @]
OfSession(l) == ~ IsConfig /\ table = "Desktop Entry" /\ l.key \in Keys

(* A slip: one of the three is taken for all.                              *)
FinishWithAny(c) == \E k \in Keys : c[k] # None
Finish(c) == \A k \in Keys : c[k] # None

EntryLine == /\ pc = "read" /\ Line.is = "entry"
             /\ buf' = Left(Line) /\ Handled
             /\ ret' = FALSE
             /\ ctx' = IF OfSession(Line) THEN Copied(Line) ELSE ctx
             /\ \/ config' = IF IsConfig THEN config_line_handler(Line) ELSE config
                \/ IsConfig /\ startup.nomem /\ UNCHANGED config
             /\ pc' = IF Finish(ctx') THEN "close" ELSE "read"
             /\ UNCHANGED <<startup, i, table, sessions>>

JunkLine == /\ pc = "read" /\ Line.is = "junk"
            /\ buf' = Line
            /\ ret' = TRUE
            /\ pc' = "close"
            /\ UNCHANGED <<startup, i, at, table, ctx, config, sessions>>

(* strdup() fails for the name of a table or the value of a key.           *)
OutOfMemory == /\ pc = "read" /\ startup.nomem
               /\ \/ Line.is = "table" /\ table' = None
                  \/ /\ Line.is = "entry" /\ OfSession(Line) /\ UNCHANGED table
                     /\ ctx[Line.key] = None
               /\ buf' = Left(Line)
               /\ ret' = TRUE
               /\ pc' = "close"
               /\ UNCHANGED <<startup, i, at, ctx, config, sessions>>

Listed == ctx["Name"] # None /\ ctx["Exec"] # None /\ ctx["Exec"] \notin Unparsable

(* fn() takes what was read for complete, as a bool is never below 0;      *)
(* parse_config() gives up when the bool is FALSE.                         *)
CloseSession == /\ pc = "close" /\ ~ IsConfig
                /\ \/ /\ Listed
                      /\ sessions' = Append(sessions, [name |-> ctx["Name"],
                                                       exec |-> ctx["Exec"]])
                   \/ (~ Listed \/ startup.nomem) /\ UNCHANGED sessions
                /\ i' = i + 1 /\ pc' = "open"
                /\ UNCHANGED <<startup, at, buf, table, ret, ctx, config>>
CloseConfig == /\ pc = "close" /\ IsConfig
               /\ i' = i + 1
               /\ pc' = IF ret THEN "open" ELSE "exit"
               /\ UNCHANGED <<startup, at, buf, table, ret, ctx, config, sessions>>

Next == \/ Open \/ SkipLine \/ TableLine \/ EntryLine \/ JunkLine \/ OutOfMemory
        \/ CloseSession \/ CloseConfig

Spec == Init /\ [][Next]_vars
FairSpec == Spec /\ WF_vars(Next)
----------------------------------------------------------------------------
Values == {l.value : l \in {m \in UNION {Range(f) : f \in Range(Files)} : m.is = "entry"}}

DTypeOK == /\ i \in 1 .. Len(Files) + 1
           /\ pc \in {"open", "read", "close", "exit"}
           /\ pc \in {"read", "close"} => at \in 0 .. Len(Lines)
           /\ ret \in BOOLEAN
           /\ ctx \in [Keys -> Values \cup {None}]
           /\ config \in [Options -> Seq(Values)]
           /\ sessions \in Seq([name : Values, exec : Values])

(* What the first k lines of a file say of a key, without the loop.        *)
TableAt(ls, j) == LET ts == {t \in 1 .. j : ls[t].is = "table"}
                  IN  IF ts = {} THEN None ELSE ls[Max(ts)].name
Saying(ls, k, t, key) == {j \in 1 .. k : /\ ls[j].is = "entry" /\ ls[j].key = key
                                         /\ TableAt(ls, j) = t}
Parsed(ls, js) == {j \in js : ls[j].value \notin Unparsable}

First(ls, js) == IF js = {} THEN None ELSE ls[Min(js)].value
Latest(ls, js) == IF js = {} THEN <<>> ELSE <<ls[Max(js)].value>>
InOrder(ls, js, values) == /\ Len(values) = Cardinality(js)
                           /\ \A j \in js : LET rank == Cardinality({m \in js : m <= j})
                                            IN  values[rank] = ls[j].value

(* Of a session the first value of each key counts, of an option the last  *)
(* one that parses, of an array all of them, each under its own table and  *)
(* once, whatever is left in the buffer at the end (desktop.c 32-79); an   *)
(* option may miss a value for which there was no memory.                  *)
ReadsEachLineOnce == pc \in {"read", "close"} =>
  IF IsConfig
  THEN startup.nomem \/ \A o \in Options :
         LET js == Parsed(Lines, Saying(Lines, at, o[1], o[2]))
         IN  IF o \in Arrays THEN InOrder(Lines, js, config[o])
             ELSE config[o] = Latest(Lines, js)
  ELSE \A k \in Keys : ctx[k] = First(Lines, Saying(Lines, at, "Desktop Entry", k))

(* What a whole file offers: its first Name and its first Exec, if both    *)
(* stand before the first line that is in error.                           *)
UpToError(ls) == LET js == {j \in 1 .. Len(ls) : ls[j].is = "junk"}
                 IN  IF js = {} THEN Len(ls) ELSE Min(js) - 1
Said(ls, key) == First(ls, Saying(ls, UpToError(ls), "Desktop Entry", key))
Offer(ls) == IF Said(ls, "Name") # None /\ Said(ls, "Exec") \notin Unparsable \cup {None}
             THEN <<[name |-> Said(ls, "Name"), exec |-> Said(ls, "Exec")]>> ELSE <<>>

(* A session of every file that offers one is in the menu and no other,    *)
(* wherever the reading of the file ended: at all three keys, at an error  *)
(* that no caller sees, behind the end (desktop.c 27-83, sessions.c 62-80),*)
(* or, and then it may be missing, for want of memory.                     *)
OffersWholeFiles == [][CloseSession =>
  \/ sessions' = sessions \o Offer(Lines)
  \/ startup.nomem /\ sessions' = sessions]_vars

(* Files that end in a key or a table are read to their end, and lidm goes *)
(* on to its prompt (sessions.c 156-169).                                  *)
EndsInText(ls) == ls # <<>> /\ Last(ls) # Skip
ReadsAllFiles == (\A f \in Range(Files) : EndsInText(f)) => <>(i = Len(Files) + 1)

(* sessions.c 85: a bad desktop file must not break all possible sessions. *)
(* One whose last line is empty or a comment does.                         *)
NoFileBreaksAll == <>(i = Len(Files) + 1)
=============================================================================
