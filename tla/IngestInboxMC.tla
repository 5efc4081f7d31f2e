---------------------------- MODULE IngestInboxMC ----------------------------
(* Instances of IngestInbox. *)
EXTENDS IngestInbox

CONSTANTS k1, k2, va, vb, vc, batch, junk, edit1, edit2

Sets(k, v) == <<[key |-> k, value |-> v]>>
Nothing == [valid |-> TRUE, conversations |-> <<>>, messages |-> <<>>, mutations |-> <<>>,
            extras |-> 0]

\* A history batch of two messages, two edits of its first, and a frame that
\* does not decode.
Contents == [f \in Frames |->
    CASE f = batch -> [Nothing EXCEPT !.messages = Sets(k1, va) \o Sets(k2, va)]
      [] f = edit1 -> [Nothing EXCEPT !.mutations = Sets(k1, vb)]
      [] f = edit2 -> [Nothing EXCEPT !.mutations = Sets(k1, vc)]
      [] f = junk  -> [Nothing EXCEPT !.valid = FALSE]]

Once  == [f \in Frames |-> 1]
Twice == [f \in Frames |-> 2]
\* What the proof of completeness asks of the frames.
ASSUME MessagesWrittenOnce == \A f \in Frames : FirstIsWrittenOnce(f)

\* The batch is repeated, an edit is not.
BatchTwice == [f \in Frames |-> IF f = batch THEN 2 ELSE 1]

=============================================================================
