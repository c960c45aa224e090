---------------------------- MODULE ApprovalRequests ----------------------------
(***************************************************************************)
(* What the interaction service promises to the services that ask and to   *)
(* the UI that answers: a request is answered once, and the messages that  *)
(* answered it return together, when it is over.  InteractionService       *)
(* implements this specification.                                          *)
(***************************************************************************)
CONSTANTS Ids, Callers, None

VARIABLES
    phase,   \* of each request
    awaits   \* the request each message of the UI waits for the end of

vars == <<phase, awaits>>

Init ==
    /\ phase  = [id \in Ids |-> "none"]
    /\ awaits = [c \in Callers |-> None]

Pend(id) ==
    /\ phase[id] = "none"
    /\ phase' = [phase EXCEPT ![id] = "pending"]
    /\ UNCHANGED awaits

\* Pending requests are answered together: by a message, a watcher or a switch.
Settle(ids, answer) ==
    /\ ids \subseteq {id \in Ids : phase[id] = "pending"}
    /\ phase' = [id \in Ids |-> IF id \in ids THEN answer ELSE phase[id]]

\* A message answers a pending request; one that comes late changes nothing, but it
\* is not heard of again before the request is over.
Receive(c, id, answer) ==
    /\ phase[id] # "none"
    /\ awaits[c] = None
    /\ awaits' = [awaits EXCEPT ![c] = id]
    /\ IF phase[id] = "pending" THEN Settle({id}, answer) ELSE UNCHANGED phase

\* The caller has done its part: all who answered hear of it.
Finish(id) ==
    /\ phase[id] \in {"approved", "rejected"}
    /\ phase'  = [phase EXCEPT ![id] = "done"]
    /\ awaits' = [c \in Callers |-> IF awaits[c] = id THEN None ELSE awaits[c]]

Answers == {"approved", "rejected"}

Next ==
    \/ \E id \in Ids : Pend(id) \/ Finish(id)
    \/ \E ids \in SUBSET Ids : Settle(ids, "rejected") /\ UNCHANGED awaits
    \/ \E id \in Ids, answer \in Answers : Settle({id}, answer) /\ UNCHANGED awaits
    \/ \E c \in Callers, id \in Ids, answer \in Answers : Receive(c, id, answer)

Spec == Init /\ [][Next]_vars
=============================================================================
