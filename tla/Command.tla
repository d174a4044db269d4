------------------------------ MODULE Command ------------------------------
(***************************************************************************)
(* parse_exec_string() of desktop_exec.c: the Exec line of a desktop file  *)
(* becomes an argument vector, one iteration of its loop per step.  Of a   *)
(* character only its kind is kept.  The argument at hand grows in a block *)
(* of its own and goes over into argv when a separator ends it.            *)
(***************************************************************************)
EXTENDS Naturals, SequencesExt

CONSTANTS MaxArgs,      \* MAX_ARGS
          ArgLength     \* ARG_LENGTH, the first capacity of an argument

ASSUME MaxArgsAssumption == MaxArgs \in Nat
ASSUME ArgLengthAssumption == ArgLength \in Nat \ {0}

(* A letter is a character without a meaning here, nor for bash.           *)
Char == {"letter", "space", "quote", "backslash", "percent"}
Introducers == {"backslash", "percent"}     \* each of them takes the next one along

VARIABLES exec_s,       \* the string, which is not changed
          idx,          \* characters of it that were handled
          cur,          \* [text, cap]: cur with cur_len and cur_cap
          argv,
          in_quote,
          ret           \* "none", then "ok", "nomem" or "syntax"

commandVars == <<exec_s, idx, cur, argv, in_quote, ret>>

NoCur == [text |-> <<>>, cap |-> 0]         \* cur is a null pointer
HasCur == cur.cap # 0

CommandInit(s) == /\ exec_s = s
                  /\ idx = 0 /\ cur = NoCur /\ argv = <<>>
                  /\ in_quote = FALSE /\ ret = "none"

----------------------------------------------------------------------------
Parsing == ret = "none" /\ idx < Len(exec_s)
At == exec_s[idx + 1]
AtEnd == idx + 1 >= Len(exec_s)
Next1 == exec_s[idx + 2]

(* A slip: the block is grown only when it is overrun already.             *)
RoomLate(c) == IF Len(c.text) > c.cap \/ c.cap = 0
               THEN IF c.cap = 0 THEN ArgLength ELSE 2 * c.cap ELSE c.cap
Full(c) == Len(c.text) + 1 >= c.cap
Room(c) == IF ~ Full(c) THEN c.cap ELSE IF c.cap = 0 THEN ArgLength ELSE 2 * c.cap

(* The labels nomem and syntax_err: all of it is freed.                    *)
GiveUp(code) == /\ cur' = NoCur /\ argv' = <<>> /\ ret' = code
                /\ UNCHANGED <<exec_s, idx, in_quote>>

(* append_char(), for k characters of the string; realloc() may fail.      *)
Take(ch, k) == \/ /\ cur' = [text |-> Append(cur.text, ch), cap |-> Room(cur)]
                  /\ idx' = idx + k
                  /\ UNCHANGED <<exec_s, argv, in_quote, ret>>
               \/ Full(cur) /\ GiveUp("nomem")

(* push_arg(), where there is something to push.  At the limit it reports  *)
(* success and does nothing, and cur goes on growing.                      *)
Push == IF HasCur /\ Len(argv) <= MaxArgs
        THEN argv' = Append(argv, cur.text) /\ cur' = NoCur
        ELSE UNCHANGED <<argv, cur>>
PushFails == HasCur /\ Len(argv) <= MaxArgs /\ GiveUp("nomem")

Separator == /\ Parsing /\ At = "space" /\ ~ in_quote
             /\ \/ Push /\ idx' = idx + 1 /\ UNCHANGED <<exec_s, in_quote, ret>>
                \/ PushFails

Quote == /\ Parsing /\ At = "quote"
         /\ in_quote' = ~ in_quote
         /\ idx' = idx + 1
         /\ UNCHANGED <<exec_s, cur, argv, ret>>

(* A slip: the escaped character is scanned again.                         *)
EscapeOne == /\ Parsing /\ At = "backslash"
             /\ IF AtEnd THEN GiveUp("syntax") ELSE Take(Next1, 1)

Escape == /\ Parsing /\ At = "backslash"
          /\ IF AtEnd THEN GiveUp("syntax") ELSE Take(Next1, 2)

(* %% stands for %, every other field code for nothing.                    *)
FieldCode == /\ Parsing /\ At = "percent"
             /\ IF AtEnd THEN GiveUp("syntax")
                ELSE IF Next1 = "percent" THEN Take("percent", 2)
                ELSE idx' = idx + 2 /\ UNCHANGED <<exec_s, cur, argv, in_quote, ret>>

Plain == /\ Parsing
         /\ At = "letter" \/ (At = "space" /\ in_quote)
         /\ Take(At, 1)

(* The last argument and the null pointer after it.                        *)
Finish == /\ ret = "none" /\ idx >= Len(exec_s)
          /\ \/ in_quote /\ GiveUp("syntax")
             \/ ~ in_quote /\ Push /\ ret' = "ok" /\ UNCHANGED <<exec_s, idx, in_quote>>
             \/ ~ in_quote /\ GiveUp("nomem")

CommandNext == Separator \/ Quote \/ Escape \/ FieldCode \/ Plain \/ Finish

----------------------------------------------------------------------------
(* What the string says, without the loop.  In a run of introducers every  *)
(* other one is itself taken along by the one before it.                   *)
RunFrom(s, j, k) == /\ j = 1 \/ s[j - 1] \notin Introducers
                    /\ \A i \in j .. k : s[i] \in Introducers
Introduces(s) == {k \in 1 .. Len(s) : \E j \in 1 .. k : RunFrom(s, j, k) /\ (k - j) % 2 = 0}
Bare(s) == {k \in 1 .. Len(s) : k \notin Introduces(s) /\ k - 1 \notin Introduces(s)}
Quotes(s) == {k \in Bare(s) : s[k] = "quote"}
InQuotes(s, k) == Cardinality({q \in Quotes(s) : q < k}) % 2 = 1
Breaks(s) == {k \in Bare(s) : s[k] = "space" /\ ~ InQuotes(s, k)}
Text(s) == (Bare(s) \ (Quotes(s) \cup Breaks(s)))
           \cup {k \in 1 .. Len(s) : /\ k - 1 \in Introduces(s)
                                     /\ s[k - 1] = "backslash" \/ s[k] = "percent"}
WellFormed(s) == Len(s) \notin Introduces(s) /\ ~ InQuotes(s, Len(s) + 1)

(* The positions in T at which a word begins, if one of B cuts the text,   *)
(* and those of a word.                                                    *)
Begins(T, B) == {p \in T : \A q \in T : q < p => \E b \in B : q < b /\ b < p}
Word(T, begins, w) == {p \in T : Cardinality({q \in begins : q <= p}) = w}

(* v is what stands at the positions ps, in their order, or consists of the*)
(* first words of T.                                                       *)
Spells(s, ps, v) == /\ Len(v) = Cardinality(ps)
                    /\ \A p \in ps : v[Cardinality({q \in ps : q <= p})] = s[p]
SpellsWords(s, T, begins, v) == \A w \in DOMAIN v : Spells(s, Word(T, begins, w), v[w])

AreWords(s, v) == LET text == Text(s)
                      begins == Begins(text, Breaks(s))
                  IN  /\ Len(v) = Min({Cardinality(begins), MaxArgs + 1})
                      /\ SpellsWords(s, text, begins, v)

(* The vector is the words of the string, the first MaxArgs + 1 of them if *)
(* there are more; a word that is only quotes or field codes is none, and  *)
(* the string is refused as malformed exactly if a quote is left open or   *)
(* nothing follows an introducer (desktop_exec.c 149-193).                 *)
ArgsAreWords ==
  /\ ret = "ok" => WellFormed(exec_s) /\ AreWords(exec_s, argv)
  /\ ret = "syntax" => ~ WellFormed(exec_s)

(* Every character is written inside its block, with room for the null     *)
(* byte that push_arg() adds; argv stays within its limit; a block without *)
(* text does not exist; and what is still in cur when the vector is handed *)
(* out, nobody frees, is text beyond the limit (desktop_exec.c 65-117).    *)
CommandInv ==
  /\ idx \in 0 .. Len(exec_s)
  /\ cur.text \in Seq(Char) /\ cur.cap \in Nat
  /\ argv \in Seq(Seq(Char) \ {<<>>})
  /\ in_quote \in BOOLEAN
  /\ ret \in {"none", "ok", "nomem", "syntax"}
  /\ Len(cur.text) <= cur.cap
  /\ HasCur <=> cur.text # <<>>
  /\ Len(argv) <= MaxArgs + 1
  /\ ret = "ok" /\ HasCur => Len(argv) = MaxArgs + 1
  /\ ret \in {"nomem", "syntax"} => ~ HasCur /\ argv = <<>>
=============================================================================
