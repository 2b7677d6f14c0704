---------------------------- MODULE LineEditor ----------------------------
(***************************************************************************)
(* What a single-line text field promises: the text before the cursor and  *)
(* the text behind it.  What is typed or pasted goes between the two, and  *)
(* what no longer fits is left out.                                        *)
(***************************************************************************)
EXTENDS Integers, Sequences

CONSTANTS Bytes, Capacity, Texts

VARIABLES before, after

editorVars == <<before, after>>

Room == Capacity - Len(before) - Len(after)
Beginning(t, n) == SubSeq(t, 1, IF Len(t) < n THEN Len(t) ELSE n)

Init == before = <<>> /\ after = <<>>

Set(t) == before' = Beginning(t, Capacity) /\ after' = <<>>

Insert(t) == before' = before \o Beginning(t, Room) /\ UNCHANGED after

Backspace == /\ before # <<>>
             /\ before' = SubSeq(before, 1, Len(before) - 1)
             /\ UNCHANGED after

Delete == after # <<>> /\ after' = Tail(after) /\ UNCHANGED before

\* The cursor moves to the place behind n bytes of the text.
Move(n) == LET text == before \o after
           IN  /\ before' = SubSeq(text, 1, n)
               /\ after' = SubSeq(text, n + 1, Len(text))

Left == before # <<>> /\ Move(Len(before) - 1)
Right == after # <<>> /\ Move(Len(before) + 1)
Home == Move(0)
End == Move(Len(before) + Len(after))

Next == \/ \E t \in Texts : Set(t) \/ Insert(t)
        \/ \E b \in Bytes : Insert(<<b>>)
        \/ Backspace \/ Delete \/ Left \/ Right \/ Home \/ End

Spec == Init /\ [][Next]_editorVars

=============================================================================
