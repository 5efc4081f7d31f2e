--------------------------- MODULE AtMostOnceSend ---------------------------
(***************************************************************************)
(* What the outbox promises, without leases, rows, processes or clocks:    *)
(* an intent is tried, the transport takes a message at most once, and     *)
(* what the user is told about it is never a guess of the sender's own.    *)
(* Doubt is a state of its own that only the news of an acceptance ends.   *)
(* The adapter in between may deny what was taken: media then shows as     *)
(* refused, and a reaction or a read receipt may be tried again.           *)
(***************************************************************************)
EXTENDS Naturals

CONSTANT Intents

VARIABLES
    status,     \* what the sender knows of each intent
    kind,       \* what it is, once it is submitted
    delivered,  \* how often the transport took it ...
    denied      \* ... and how often with the adapter denying it

promised == <<status, kind, delivered, denied>>

Sorts    == {"text", "media", "reaction", "read"}
Messages == {"text", "media"}
Statuses == {"none", "open", "sending", "doubt", "sent", "refused", "withdrawn"}

Init ==
    /\ status = [i \in Intents |-> "none"]
    /\ kind = [i \in Intents |-> "text"]
    /\ delivered = [i \in Intents |-> 0]
    /\ denied = [i \in Intents |-> 0]

\* Intent i goes from status a to status b and nothing else happens.
Moves(i, a, b) == status[i] = a /\ status' = [status EXCEPT ![i] = b]
Becomes(i, a, b) == Moves(i, a, b) /\ UNCHANGED <<kind, delivered, denied>>

Submit(i) ==
    /\ Moves(i, "none", "open")
    /\ \E k \in Sorts : kind' = [kind EXCEPT ![i] = k]
    /\ UNCHANGED <<delivered, denied>>
Withdraw(i) == Becomes(i, "open", "withdrawn")
Refuse(i)   == Becomes(i, "open", "refused")
Begin(i)    == Becomes(i, "open", "sending")

\* The transport may take an intent whose caller has given up on it, but no
\* message that it took before.
May(i) ==
    /\ status[i] \in {"sending", "doubt"} /\ delivered[i] = 0
    /\ kind[i] \in Messages => denied[i] = 0

Deliver(i) ==
    /\ May(i)
    /\ delivered' = [delivered EXCEPT ![i] = 1]
    /\ UNCHANGED <<status, kind, denied>>

Deny(i) ==
    /\ May(i) /\ kind[i] # "text"
    /\ denied' = [denied EXCEPT ![i] = @ + 1]
    /\ UNCHANGED <<status, kind, delivered>>

Acknowledge(i) ==
    /\ delivered[i] > 0 \/ (kind[i] \in Messages /\ denied[i] > 0)
    /\ Becomes(i, "sending", "sent") \/ Becomes(i, "doubt", "sent")
Reopen(i) ==
    /\ delivered[i] = 0 /\ (kind[i] \in Messages => denied[i] = 0)
    /\ Becomes(i, "sending", "open")
Fail(i) == delivered[i] = 0 /\ Becomes(i, "sending", "refused")

\* Any number of unanswered attempts fall into doubt together.
Doubt ==
    /\ \E S \in SUBSET {i \in Intents : status[i] = "sending"} :
         status' = [i \in Intents |-> IF i \in S THEN "doubt" ELSE status[i]]
    /\ UNCHANGED <<kind, delivered, denied>>

Next ==
    \/ \E i \in Intents :
         \/ Submit(i) \/ Withdraw(i) \/ Refuse(i) \/ Begin(i) \/ Deliver(i) \/ Deny(i)
         \/ Acknowledge(i) \/ Reopen(i) \/ Fail(i)
    \/ Doubt

Spec == Init /\ [][Next]_promised

=============================================================================
