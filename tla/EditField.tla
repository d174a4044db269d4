----------------------------- MODULE EditField -----------------------------
(***************************************************************************)
(* The text of an input: struct editable_field of efield.h with the        *)
(* operations of efield.c and the UTF-8 steps of util/utf8.c they take.    *)
(* A field is a record of the C string without its null byte and of the    *)
(* cursor, a byte index.  Bytes are members of a small set; some of them   *)
(* continue a character.                                                   *)
(***************************************************************************)
EXTENDS Integers, Sequences, FiniteSetsExt

CONSTANTS Bytes,        \* what a byte may be, without the null byte
          Conts,        \* the bytes that continue a character
          ContentSize   \* sizeof content, the null byte included

ASSUME BytesAssumption == Conts \subseteq Bytes /\ "backspace" \notin Bytes
ASSUME SizeAssumption == ContentSize \in Nat \ {0}

PosValues == ContentSize + 1    \* pos is a uint8_t: 256 values, content has 255

Field == [content : Seq(Bytes), pos : 0 .. ContentSize]

(* A byte index stands between characters when no character continues there.*)
Boundary(c, p) == p \in 0 .. Len(c) /\ (p < Len(c) => c[p + 1] \notin Conts)
Whole(c) == c \in Seq(Bytes) /\ Boundary(c, 0)
FieldOK(f) == Boundary(f.content, f.pos)

(* A slip: one step back is one byte.                                      *)
BackByte(c, p) == p - 1

(* utf8back() and utf8seek().  Where no first byte of a character is on    *)
(* the way, utf8back() leaves the string, here to -1.                      *)
Back(c, p) == LET stops == {q \in 0 .. p - 1 : c[q + 1] \notin Conts}
              IN  IF stops = {} THEN -1 ELSE Max(stops)
Forward(c, p) == Min({q \in p + 1 .. Len(c) : Boundary(c, q)})

(* A step back from this cursor leaves the string.                         *)
Walks(f) == f.pos # 0 /\ Back(f.content, f.pos) = -1

Backspace == <<"backspace">>

efield_new(c) == [content |-> c, pos |-> Len(c)]

Before(c, p) == SubSeq(c, 1, p)
After(c, p) == SubSeq(c, p + 1, Len(c))

(* A slip: backspace at the start of the text is not stopped.              *)
EraseUnguarded(f) ==
  LET prev == Back(f.content, f.pos)
  IN  [content |-> Before(f.content, prev) \o After(f.content, f.pos), pos |-> prev]

Erase(f) ==
  LET prev == Back(f.content, f.pos)
  IN  IF f.pos = 0 THEN f
      ELSE [content |-> Before(f.content, prev) \o After(f.content, f.pos),
            pos |-> prev]

(* A slip: the cursor stays before what was typed.                         *)
InsertNoAdvance(f, u) ==
  [content |-> Before(f.content, f.pos) \o u \o After(f.content, f.pos), pos |-> f.pos]

(* The message "field too long" is printed and the insertion made anyway.  *)
Insert(f, u) ==
  [content |-> Before(f.content, f.pos) \o u \o After(f.content, f.pos),
   pos |-> (f.pos + Len(u)) % PosValues]

efield_update(f, u) ==
  LET g == [f EXCEPT !.pos = IF @ > Len(f.content) THEN Len(f.content) ELSE @]
  IN  CASE u = <<>> -> f
        [] u = Backspace -> Erase(g)
        [] OTHER -> Insert(g, u)

(* Where efield_seek() takes the cursor; it was used when it moved.        *)
Sought(f, seek) ==
  IF seek < 0 THEN IF f.pos = 0 THEN 0 ELSE Back(f.content, f.pos)
  ELSE IF f.pos = Len(f.content) THEN f.pos ELSE Forward(f.content, f.pos)

efield_seek(f, seek) == [f EXCEPT !.pos = Sought(f, seek)]
=============================================================================
