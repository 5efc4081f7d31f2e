-------------------------- MODULE OutboxRefinement --------------------------
(* Outbox implements AtMostOnceSend. *)
EXTENDS Outbox

\* A leased row is still open until its call marker commits, and a row whose
\* result could not be stored is as delivered as a confirmed one.
StatusOf(r) ==
    CASE r.st = "absent" -> "none"
      [] r.st \in Pending \/ (r.st = "dispatching" /\ ~r.called) -> "open"
      [] r.st = "dispatching" /\ r.called -> "sending"
      [] r.st = "uncertain" -> "doubt"
      [] r.st \in {"confirmed", "store_failed"} -> "sent"
      [] r.st = "rejected" -> "refused"
      [] r.st = "canceled" -> "withdrawn"

Promise == INSTANCE AtMostOnceSend WITH
    status <- [i \in Intents |-> StatusOf(row[i])],
    kind <- [i \in Intents |-> row[i].kind],
    delivered <- accepted

\* Every step of the dispatcher, the API, the inbound path, the clock and the
\* process manager is a step of the promise or invisible to it: at most one
\* delivery of a message, no retry out of doubt, and no verdict that contradicts
\* an acceptance, unless the adapter denied it.
KeepsPromise == Promise!Spec

=============================================================================
