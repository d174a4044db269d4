---------------------------- MODULE SessionStart ----------------------------
(***************************************************************************)
(* The way of one session from its entry in the list to the exec: its Exec *)
(* line is parsed when lidm starts (sessions.c fn), its environment is put *)
(* together at login, and the child executes it, by itself or through a    *)
(* login shell (sessions.c session_exec_exec and                           *)
(* session_exec_login_through_shell, desktop_exec.c desktop_as_cmdline,    *)
(* util/path.c).                                                           *)
(***************************************************************************)
EXTENDS Command, Environment

CONSTANTS Starts,       \* set of [exec_s, setup, shell, bypass]: shell for the user's
                        \* default shell, bypass for config.behavior.bypass_shell_login
          Paths         \* what the directories of PATH may hold under a name, or
                        \* under a name with a slash the one place it leads to

ASSUME StartsAssumption ==
  Starts \subseteq [exec_s : Seq(Char), setup : Setup, shell : BOOLEAN, bypass : BOOLEAN]

VARIABLES start,        \* the member of Starts at hand
          stage,        \* where the session is
          sizes,        \* fmtd_len after each argument that was counted
          cmdline,      \* what desktop_as_cmdline() wrote
          joined,       \* arguments it handled
          ran           \* [args, env, at]: what was executed

sessionVars == <<start, stage, sizes, cmdline, joined, ran>>
vars == <<commandVars, environmentVars, sessionVars>>

Nothing == [args |-> <<>>, env |-> <<>>, at |-> 0]

Init == /\ start \in Starts
        /\ CommandInit(start.exec_s)
        /\ EnvironmentInit(start.setup)
        /\ stage = IF start.shell THEN "login" ELSE "parse"
        /\ sizes = <<>> /\ cmdline = <<>> /\ joined = 0 /\ ran = Nothing

Parse == /\ stage = "parse"
         /\ CommandNext
         /\ UNCHANGED <<environmentVars, sessionVars>>

(* A session without arguments is not listed.                              *)
List == /\ stage = "parse" /\ ret # "none"
        /\ stage' = IF ret = "ok" /\ argv # <<>> THEN "login" ELSE "unlisted"
        /\ UNCHANGED <<commandVars, environmentVars, start, sizes, cmdline, joined, ran>>

Prepare == /\ stage = "login"
           /\ EnvironmentNext
           /\ UNCHANGED <<commandVars, sessionVars>>

(* The default shell has its path as its only argument.                    *)
Args == IF start.shell THEN <<<<"letter">>>> ELSE argv

(* forked() and launch_with_xorg_server(); without a home chdir() failed.  *)
(* A login shell needs a command line.                                     *)
Begin == /\ stage = "login" /\ EnvironmentReady /\ HasHome
         /\ stage' = IF start.bypass \/ start.shell THEN "exec" ELSE "count"
         /\ UNCHANGED <<commandVars, environmentVars, start, sizes, cmdline, joined, ran>>

(* desktop_as_cmdline() counts each argument and one byte, and malloc() may*)
(* fail.                                                                   *)
SizeTo(j) == IF j = 0 THEN 0 ELSE sizes[j]
Counted == SizeTo(Len(sizes))
Count == /\ stage = "count" /\ Len(sizes) < Len(argv)
         /\ sizes' = Append(sizes, Counted + Len(argv[Len(sizes) + 1]) + 1)
         /\ UNCHANGED <<commandVars, environmentVars, start, stage, cmdline, joined, ran>>
Allocate == /\ stage = "count" /\ Len(sizes) = Len(argv)
            /\ stage' \in {"join", "exec failed"}
            /\ UNCHANGED <<commandVars, environmentVars, start, sizes, cmdline, joined, ran>>

(* A slip: the byte that ends an argument stays what it is.                *)
JoinUnseparated == /\ stage = "join" /\ joined < Len(argv)
                   /\ cmdline' = cmdline \o argv[joined + 1]
                   /\ joined' = joined + 1
                   /\ UNCHANGED <<commandVars, environmentVars, start, stage, sizes, ran>>

(* A slip: arguments are quoted, and the quotes not counted.               *)
JoinQuoted == /\ stage = "join" /\ joined < Len(argv)
              /\ cmdline' = cmdline \o <<"quote">> \o argv[joined + 1]
                              \o <<"quote", "space">>
              /\ joined' = joined + 1
              /\ UNCHANGED <<commandVars, environmentVars, start, stage, sizes, ran>>

(* desktop_as_cmdline(): each argument and a space, as they are.           *)
Join == /\ stage = "join" /\ joined < Len(argv)
        /\ cmdline' = cmdline \o argv[joined + 1] \o <<"space">>
        /\ joined' = joined + 1
        /\ UNCHANGED <<commandVars, environmentVars, start, stage, sizes, ran>>

(* The last space makes room for the null byte.                            *)
JoinEnds == /\ stage = "join" /\ joined = Len(argv)
            /\ cmdline' = Front(cmdline)
            /\ stage' = "exec"
            /\ UNCHANGED <<commandVars, environmentVars, start, sizes, joined, ran>>

(* search_path(): a name with a slash as it is, or the first directory that*)
(* has something by the name which may be executed, or searched if it is   *)
(* itself a directory.                                                     *)
search_path(slash, path) ==
  LET at == {i \in DOMAIN path : path[i] \in {"program", "directory"}}
  IN  IF slash THEN 1 ELSE IF at = {} THEN 0 ELSE Min(at)

(* execvpe() of the first argument, or of bash with -c and a command line. *)
Exec == /\ stage = "exec"
        /\ \E path \in Paths, slash \in {FALSE, start.bypass} :
             LET at == search_path(slash, path) IN
             IF at \in DOMAIN path /\ path[at] = "program"
             THEN /\ ran' = [args |-> IF start.bypass THEN Args
                                      ELSE IF start.shell THEN Args[1] ELSE cmdline,
                             env |-> env.items, at |-> at]
                  /\ stage' = "runs"
             ELSE stage' = "exec failed" /\ UNCHANGED ran
        /\ UNCHANGED <<commandVars, environmentVars, start, sizes, cmdline, joined>>

Next == Parse \/ List \/ Prepare \/ Begin \/ Count \/ Allocate \/ Join \/ JoinEnds \/ Exec

Spec == Init /\ [][Next]_vars

----------------------------------------------------------------------------
(* What the program sees: the vector it is given, or the words into which  *)
(* bash splits an unquoted command line at its spaces.                     *)
Spaces(c) == {i \in 1 .. Len(c) : c[i] = "space"}
Letters(c) == 1 .. Len(c) \ Spaces(c)
BashSplits(c, v) == LET begins == Begins(Letters(c), Spaces(c))
                    IN  /\ Len(v) = Cardinality(begins)
                        /\ SpellsWords(c, Letters(c), begins, v)
Sees(v) == IF start.bypass THEN ran.args = v ELSE BashSplits(ran.args, v)
Unquoted(w) == Range(w) \cap {"space", "quote", "backslash"} = {}

(* A program that runs has the words of its Exec line as its arguments,    *)
(* whichever way it was started, if no word needs quotes: a letter is one  *)
(* that bash, too, takes as it is (sessions.c 171-219, desktop_exec.c 19-  *)
(* 45).  And it has all of the environment.                                *)
RunsItsWords == stage = "runs" /\ ~ start.shell =>
  /\ AreWords(exec_s, argv)
  /\ start.bypass \/ (\A w \in Range(argv) : Unquoted(w)) => Sees(argv)
  /\ ran.env = env.items /\ EnvironmentReady

(* The command line stays in the block that was counted out for it, and in *)
(* the end, with the null byte for its last space, fills it: what is freed *)
(* and executed was all written (desktop_exec.c 20-44).                    *)
JoinFits == /\ stage = "join" => Len(cmdline) <= Counted
            /\ stage \in {"exec", "runs"} /\ joined # 0 => Len(cmdline) + 1 = Counted

(* desktop_exec.c 47: the Exec line "/bin/prog arg1 arg2\ with\ spaces" has*)
(* three words.  bash sees more of them, as nothing is quoted again.       *)
ShellKeepsWords == stage = "runs" /\ ~ start.shell =>
  ((\A w \in Range(argv) : Range(w) \subseteq {"letter", "space"}) => Sees(argv))
=============================================================================
