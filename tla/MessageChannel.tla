--------------------------- MODULE MessageChannel ---------------------------
(***************************************************************************)
(* What a GuardedRing promises to the threads that use it: a bounded queue *)
(* of whole messages.  A write is either accepted, once and in full, or    *)
(* refused without a trace; a read takes the oldest message there is.      *)
(***************************************************************************)
EXTENDS Naturals, Sequences

CONSTANTS Writers, Readers, Messages, Capacity, None

VARIABLES queue,    \* accepted and not yet taken
          offered,  \* what each writer is trying to send
          taken     \* what each reader's last call returned

chanVars == <<queue, offered, taken>>

Init == /\ queue = <<>>
        /\ offered = [w \in Writers |-> None]
        /\ taken = [r \in Readers |-> None]

Offer(w) == /\ offered[w] = None
            /\ \E m \in Messages : offered' = [offered EXCEPT ![w] = m]
            /\ UNCHANGED <<queue, taken>>

Accept(w) == /\ offered[w] # None /\ Len(queue) < Capacity
             /\ queue' = Append(queue, offered[w])
             /\ offered' = [offered EXCEPT ![w] = None]
             /\ UNCHANGED taken

Refuse(w) == /\ offered[w] # None
             /\ offered' = [offered EXCEPT ![w] = None]
             /\ UNCHANGED <<queue, taken>>

Take(r) == /\ queue # <<>> /\ taken[r] = None
           /\ taken' = [taken EXCEPT ![r] = Head(queue)]
           /\ queue' = Tail(queue)
           /\ UNCHANGED offered

Consume(r) == /\ taken[r] # None
              /\ taken' = [taken EXCEPT ![r] = None]
              /\ UNCHANGED <<queue, offered>>

Next == \/ \E w \in Writers : Offer(w) \/ Accept(w) \/ Refuse(w)
        \/ \E r \in Readers : Take(r) \/ Consume(r)

Spec == Init /\ [][Next]_chanVars

============================================================================
