----------------------------- MODULE XferLedger -----------------------------
(***************************************************************************)
(* What the transfer queue promises its user, with no array, ring or       *)
(* thread in sight: every transfer has a standing, a running transfer's    *)
(* attempt comes to a verdict of its own, and the standing shown afterwards*)
(* is that verdict.  XferQueue is shown to implement this.                 *)
(***************************************************************************)
CONSTANT Ids

VARIABLES standing,  \* what the Queue, Failed and Completed tabs show
          verdict    \* what the current attempt has come to

ledgerVars == <<standing, verdict>>

Verdicts == {"Done", "Failed"}
Standings == {"Unborn", "Queued", "InProgress", "Removed"} \cup Verdicts

TypeOK == /\ standing \in [Ids -> Standings]
          /\ verdict \in [Ids -> Verdicts \cup {"None"}]

Init == /\ standing = [id \in Ids |-> "Unborn"]
        /\ verdict = [id \in Ids |-> "None"]

Move(id, from, to) == /\ standing[id] = from
                      /\ standing' = [standing EXCEPT ![id] = to]

Enqueue(id) == Move(id, "Unborn", "Queued") /\ UNCHANGED verdict

\* One visit of the queue may start several transfers.
Start(S) == /\ S # {} /\ \A id \in S : standing[id] = "Queued"
            /\ standing' = [id \in Ids |-> IF id \in S THEN "InProgress" ELSE standing[id]]
            /\ UNCHANGED verdict

Conclude(id) == /\ standing[id] = "InProgress" /\ verdict[id] = "None"
                /\ \E v \in Verdicts : verdict' = [verdict EXCEPT ![id] = v]
                /\ UNCHANGED standing

Settle(id) == /\ verdict[id] # "None"
              /\ Move(id, "InProgress", verdict[id])
              /\ UNCHANGED verdict

Resume(id) == /\ Move(id, "Failed", "Queued")
              /\ verdict' = [verdict EXCEPT ![id] = "None"]

Remove(id) == Move(id, "Queued", "Removed") /\ UNCHANGED verdict

Next == \/ \E id \in Ids : \/ Enqueue(id) \/ Conclude(id) \/ Settle(id)
                           \/ Resume(id) \/ Remove(id)
        \/ \E S \in SUBSET Ids : Start(S)

Spec == /\ Init /\ [][Next]_ledgerVars
        /\ \A id \in Ids : WF_ledgerVars(Conclude(id)) /\ WF_ledgerVars(Settle(id))

============================================================================
