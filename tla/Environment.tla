---------------------------- MODULE Environment ----------------------------
(***************************************************************************)
(* The environment of a session: the list PAM gives, what pam.c adds to it *)
(* (pamh_get_complete_env, merge_envlist), the lines of the sourced files  *)
(* (auth.c try_source_file, source_paths), and DISPLAY for an X11 session  *)
(* (push_dyn_arr), in the vectors of util/vec.c.  Every allocation may     *)
(* fail; `live' is the strings that were allocated and not freed.          *)
(***************************************************************************)
EXTENDS Naturals, SequencesExt

(* What one launch finds: the variables PAM set, those of Extras that have *)
(* no value, the files of source and of user_source by their lines, and    *)
(* whether it is an X11 session.                                           *)
Setup == [pam : Seq(STRING), unset : SUBSET STRING, source : Seq(Seq(STRING)),
          user_source : Seq(Seq(STRING)), x11 : BOOLEAN]
Missing == <<"no such file">>

VARIABLES setup,        \* the member of Setup at hand
          estep,        \* where the code is
          env,          \* [items, cap]: the strings, and how many pointers fit
          k,            \* extra, or file, at hand
          line,         \* lines of the file at hand that were read
          live

environmentVars == <<setup, estep, env, k, line, live>>

Extras == <<"TERM", "PATH", "HOME", "USER", "SHELL", "LOGNAME", "XDG_SESSION_TYPE">>

(* A string key=value, known by its key and by where it comes from.        *)
String(key, from, at) == [key |-> key, from |-> from, at |-> at]
FromPam == [j \in 1 .. Len(setup.pam) |-> String(setup.pam[j], "pam", <<0, j>>)]
Extra(j) == String(Extras[j], "lidm", <<0, j>>)
ExtrasTo(j) == {Extra(i) : i \in {i \in 1 .. j : Extras[i] \notin setup.unset}}

(* A user without a home has no files of user_source.                      *)
HasHome == "HOME" \notin setup.unset
Files == setup.source \o (IF HasHome THEN setup.user_source ELSE <<>>)
IsUserFile(j) == j > Len(setup.source)
Sets(l) == l \notin {"#comment", "blank", "no equal sign"}

----------------------------------------------------------------------------
(* A slip: the vector grows only when it is over its capacity already.     *)
PushedLate(v, s) == [items |-> Append(v.items, s),
                     cap |-> IF Len(v.items) > v.cap
                             THEN v.cap + v.cap \div 2 + 1 ELSE v.cap]

(* vec_push(): vec_reserve(1) grows once, as length is at most capacity,   *)
(* and calls realloc() also when nothing has to grow.                      *)
Pushed(v, s) == [items |-> Append(v.items, s),
                 cap |-> IF Len(v.items) + 1 > v.cap
                         THEN v.cap + v.cap \div 2 + 1 ELSE v.cap]
FromRaw(items) == [items |-> items, cap |-> Len(items)]

EnvironmentInit(s) == /\ setup = s
                      /\ estep = "getenvlist" /\ env = FromRaw(<<>>)
                      /\ k = 1 /\ line = 0 /\ live = {}

GetEnvList == /\ estep = "getenvlist"
              /\ \/ /\ env' = [items |-> FromPam, cap |-> Len(FromPam) + 1]
                    /\ live' = Range(FromPam)
                    /\ estep' = "merge"
                 \/ estep' = "failed" /\ UNCHANGED <<env, live>>
              /\ UNCHANGED <<setup, k, line>>

(* realloc() to all there will be and the null pointer.                    *)
Merge == /\ estep = "merge"
         /\ \/ /\ env' = [env EXCEPT !.cap = Len(env.items) +
                            Cardinality(ExtrasTo(Len(Extras))) + 1]
               /\ estep' = "extras" /\ UNCHANGED live
            \/ /\ env' = FromRaw(<<>>) /\ live' = {}           \* free_envlist()
               /\ estep' = "merge failed"
         /\ UNCHANGED <<setup, k, line>>

(* A slip: an extra without a value takes its place all the same.          *)
AddExtraUnset == /\ estep = "extras" /\ k <= Len(Extras)
                 /\ env' = [env EXCEPT !.items = Append(@, Extra(k))]
                 /\ live' = live \cup {Extra(k)}
                 /\ k' = k + 1
                 /\ UNCHANGED <<setup, estep, line>>

AddExtra == /\ estep = "extras" /\ k <= Len(Extras)
            /\ IF Extras[k] \in setup.unset THEN UNCHANGED <<env, live>>
               ELSE /\ env' = [env EXCEPT !.items = Append(@, Extra(k))]
                    /\ live' = live \cup {Extra(k)}
            /\ k' = k + 1
            /\ UNCHANGED <<setup, estep, line>>

(* free_new_envlist_extra: the frees begin behind the list of PAM and go   *)
(* on for its length past the extras, over slots nobody set and beyond the *)
(* block; if there is no extra yet the first of these slots holds the null *)
(* pointer that ended PAM's list.  What is freed there is undefined: the   *)
(* child dies of it, or finds nothing there.                               *)
Unset == Len(setup.pam) > IF ExtrasTo(k - 1) = {} THEN 1 ELSE 0
CleanUp == /\ estep = "extras" /\ k <= Len(Extras) /\ Extras[k] \notin setup.unset
           /\ live' = live \ ExtrasTo(k - 1)
           /\ env' = FromRaw(<<>>)
           /\ \/ estep' = "merge failed"
              \/ Unset /\ estep' = "crashed"
           /\ UNCHANGED <<setup, k, line>>

(* The null pointer is written, and vec_from_raw() counts up to it.        *)
Merged == /\ estep = "extras" /\ k > Len(Extras)
          /\ env' = FromRaw(env.items)
          /\ estep' = "open" /\ k' = 1
          /\ UNCHANGED <<setup, line, live>>

(* source_paths(): a file that is not there is skipped, and so is a user's *)
(* file for whose path there is no memory.                                 *)
OpenFile == /\ estep = "open" /\ k <= Len(Files)
            /\ \/ Files[k] # Missing /\ estep' = "lines" /\ UNCHANGED k
               \/ (Files[k] = Missing \/ IsUserFile(k)) /\ k' = k + 1 /\ UNCHANGED estep
            /\ line' = 0
            /\ UNCHANGED <<setup, env, live>>

(* A slip: the buffer of getline() is kept, and freed at the end.          *)
ReadLineKeepsBuffer ==
  /\ estep = "lines" /\ line < Len(Files[k])
  /\ LET l == Files[k][line + 1]
     IN  env' = IF Sets(l) THEN Pushed(env, String(l, "file", <<k, line + 1>>)) ELSE env
  /\ line' = line + 1
  /\ UNCHANGED <<setup, estep, k, live>>

(* try_source_file(): a line with an equal sign is handed over to the      *)
(* vector, and dropped if that has no memory.                              *)
ReadLine ==
  /\ estep = "lines" /\ line < Len(Files[k])
  /\ LET l == Files[k][line + 1]
         s == String(l, "file", <<k, line + 1>>)
     IN  IF Sets(l) THEN /\ env' \in {Pushed(env, s), env}
                         /\ live' = live \cup {s}
         ELSE UNCHANGED <<env, live>>
  /\ line' = line + 1
  /\ UNCHANGED <<setup, estep, k>>

CloseFile == /\ estep = "lines" /\ line = Len(Files[k])
             /\ estep' = "open" /\ k' = k + 1
             /\ UNCHANGED <<setup, env, line, live>>

(* vec_as_raw(): one more push, of the null pointer.                       *)
Null == String("null", "null", <<0, 0>>)
Ended(v) == [v EXCEPT !.cap = Pushed(v, Null).cap]
Terminate == /\ estep = "open" /\ k > Len(Files)
             /\ \/ env' = Ended(env) /\ estep' = "ready"
                \/ estep' = "failed" /\ UNCHANGED env
             /\ UNCHANGED <<setup, k, line, live>>

(* push_dyn_arr() in the launcher of an X11 session; that the push of      *)
(* DISPLAY failed nobody looks at.                                         *)
Display == String("DISPLAY", "x", <<0, 0>>)
PushDisplay ==
  /\ estep = "ready" /\ setup.x11
  /\ LET raw == FromRaw(env.items)
     IN  \/ /\ env' \in {Ended(Pushed(raw, Display)), Ended(raw)}
            /\ estep' = "x11 ready"
         \/ env' = raw /\ estep' = "failed"
  /\ live' = live \cup {Display}
  /\ UNCHANGED <<setup, k, line>>

EnvironmentNext == \/ GetEnvList \/ Merge \/ AddExtra \/ CleanUp \/ Merged
                   \/ OpenFile \/ ReadLine \/ CloseFile \/ Terminate \/ PushDisplay

EnvironmentReady == estep = IF setup.x11 THEN "x11 ready" ELSE "ready"
----------------------------------------------------------------------------
(* No pointer is written past the capacity of its vector, the null pointer *)
(* at the end included (vec.c 41-64, pam.c 45-62).                         *)
EnvironmentInv ==
  /\ estep \in {"getenvlist", "merge", "extras", "open", "lines", "ready", "x11 ready",
                "merge failed", "crashed", "failed"}
  /\ env.cap \in Nat
  /\ Len(env.items) <= env.cap
  /\ estep \in {"merge", "ready", "x11 ready"} => Len(env.items) < env.cap
  /\ estep = "extras" => Len(env.items) + Cardinality(ExtrasTo(Len(Extras)) \ ExtrasTo(k - 1))
                           < env.cap

(* Every string in the list is allocated, in the list once, and nobody     *)
(* else's: getline() never writes into a line it gave away, and what the   *)
(* child executes points to nothing that was freed (auth.c 43-56, pam.c).  *)
StringsAlive == IsInjective(env.items) /\ Range(env.items) \subseteq live

(* A list that is handed on holds all of PAM and all extras with a value,  *)
(* in this order, then lines of the files in their order, then DISPLAY, and*)
(* nothing else; only memory can take a line or DISPLAY away (pam.c 55-60, *)
(* auth.c 60-83 and 193-204).                                            *)
Earlier(s, t) == \/ s.at[1] < t.at[1]
                 \/ s.at[1] = t.at[1] /\ s.at[2] < t.at[2]
Before(s, t) == \/ s.from = t.from /\ s.from # "x" /\ Earlier(s, t)
                \/ s.from = "pam" /\ t.from # "pam"
                \/ s.from = "lidm" /\ t.from \in {"file", "x"}
                \/ s.from = "file" /\ t.from = "x"
Wanted == Range(FromPam) \cup ExtrasTo(Len(Extras))
Sourced(s) == \E f \in DOMAIN Files : \E l \in DOMAIN Files[f] :
  /\ Files[f] # Missing /\ Sets(Files[f][l])
  /\ s = String(Files[f][l], "file", <<f, l>>)
EnvInOrder == estep \in {"ready", "x11 ready"} =>
  /\ Wanted \subseteq Range(env.items)
  /\ \A s \in Range(env.items) :
       s \in Wanted \/ Sourced(s) \/ (s = Display /\ estep = "x11 ready")
  /\ \A i, j \in DOMAIN env.items : i < j => Before(env.items[i], env.items[j])
=============================================================================
