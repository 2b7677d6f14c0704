----------------------------- MODULE TextField -----------------------------
(***************************************************************************)
(* ui_core.c: the text fields of the dialogs.  A field is a buffer of      *)
(* fixed size of which the first len bytes are the text, and a cursor;     *)
(* keys and pastes move what is behind the cursor to and fro within it.    *)
(*                                                                         *)
(* A typed character is the byte the field stores of it: of a character    *)
(* above 255 its lowest eight bits.  The clipboard is external: a text     *)
(* of up to 256 bytes.                                                     *)
(***************************************************************************)
EXTENDS Integers, Sequences

CONSTANTS Bytes,   \* the bytes typed and pasted
          Zero,    \* what a buffer holds at first
          Cap,     \* sizeof(buffer)
          Texts    \* what is pasted, and what a dialog fills its fields with

ASSUME TextFieldAssumption == Cap \in Nat \ {0} /\ Texts \subseteq Seq(Bytes)

VARIABLES buffer, len, cursor

fieldVars == <<buffer, len, cursor>>

Places == 0 .. Cap - 1
Lesser(x, y) == IF x <= y THEN x ELSE y

FieldInit == buffer = [i \in Places |-> Zero] /\ len = 0 /\ cursor = 0

\* MemoryCopy(buffer + to, buffer + from, n), which is memmove.
Moved(to, from, n) ==
  [i \in Places |-> IF i \in to .. to + n - 1 THEN buffer[from + i - to] ELSE buffer[i]]

\* Seeded fault: what is behind the cursor is not moved out of the way.
OpenedNot(n) == buffer

\* The buffer with room for n bytes at the cursor.
Opened(n) == Moved(cursor + n, cursor, len - cursor)

\* Buffer b with the beginning of text t copied to a place.
Filled(b, at, t, n) ==
  [i \in Places |-> IF i \in at .. at + n - 1 THEN t[i - at + 1] ELSE b[i]]

\* ui_text_edit_set, ui_text_edit_set_u16.
Set(t) ==
  LET n == Lesser(Len(t), Cap - 1)
  IN  /\ buffer' = Filled(buffer, 0, t, n)
      /\ len' = n /\ cursor' = n

Char(c) ==
  /\ len < Cap - 1
  /\ buffer' = Filled(Opened(1), cursor, <<c>>, 1)
  /\ len' = len + 1 /\ cursor' = cursor + 1

Paste(t) ==
  LET n == Lesser(Len(t), Cap - 1 - len)
  IN  /\ n > 0
      /\ buffer' = Filled(Opened(n), cursor, t, n)
      /\ len' = len + n /\ cursor' = cursor + n

Back ==
  /\ cursor > 0
  /\ buffer' = Moved(cursor - 1, cursor, len - cursor)
  /\ cursor' = cursor - 1 /\ len' = len - 1

Delete ==
  /\ cursor < len
  /\ buffer' = Moved(cursor, cursor + 1, len - cursor - 1)
  /\ len' = len - 1
  /\ UNCHANGED cursor

\* VK_LEFT, VK_RIGHT, VK_HOME and VK_END.
MoveCursor ==
  /\ \/ cursor > 0 /\ cursor' = cursor - 1
     \/ cursor < len /\ cursor' = cursor + 1
     \/ cursor' = 0
     \/ cursor' = len
  /\ UNCHANGED <<buffer, len>>

FieldNext == \/ \E t \in Texts : Set(t) \/ Paste(t)
             \/ \E c \in Bytes : Char(c)
             \/ Back \/ Delete \/ MoveCursor

FieldSpec == FieldInit /\ [][FieldNext]_fieldVars

----------------------------------------------------------------------------
FieldTypeOK == /\ buffer \in [Places -> Bytes \cup {Zero}]
               /\ len \in 0 .. Cap - 1
               /\ cursor \in 0 .. len

\* The field is a line editor of Cap - 1 bytes: what is typed and pasted arrives where
\* the cursor is, nothing else of the text is lost, moved or shown twice, and a full
\* field takes nothing more (ui_text_edit, ui_text_edit_set).
Editor == INSTANCE LineEditor WITH
  Capacity <- Cap - 1,
  before <- [i \in 1 .. cursor |-> buffer[i - 1]],
  after <- [i \in 1 .. len - cursor |-> buffer[cursor + i - 1]]

TextSpec == Editor!Spec
=============================================================================
