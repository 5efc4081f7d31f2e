-------------------------------- MODULE Media --------------------------------
(* Attachments on demand: rows of message_attachments, files named by their *)
(* hash, and the callers of media.Service.Resolve, who share one download   *)
(* per attachment and one lock of the blob store.                           *)
EXTENDS Naturals, FiniteSets

CONSTANTS
    Attachments,    \* rows of message_attachments
    Refs, Bytes,    \* platform references, and what each of them downloads
    FirstRef,       \* the reference an attachment came with
    Callers,        \* concurrent requests
    Nobody,
    MaxEdits, MaxMediaFaults, MaxLosses    \* bounds

ASSUME MediaAssumption ==
    /\ Attachments # {} /\ FirstRef \in [Attachments -> Refs]
    /\ "none" \notin {Bytes[r] : r \in Refs}
    /\ Nobody \notin Callers
    /\ MaxEdits \in Nat /\ MaxMediaFaults \in Nat /\ MaxLosses \in Nat

VARIABLES
    atts,       \* attachment -> its reference, and the hash of its blob or "none"
    files,      \* bytes -> "none", "linked" under its hash, or "durable"
    writer,     \* the caller that holds the lock of the blob store
    callers,    \* caller -> where it is in Resolve
    serving,    \* the account's adapter is registered
    spared      \* edits, faults and power losses that remain

mediaVars == <<atts, files, writer, callers, serving, spared>>

\* at: where; att: for what; ref, hash: the row as last read; alive: the request's
\* context; first: it runs the download; answer: what it was told.
Idler == [at |-> "idle", att |-> CHOOSE a \in Attachments : TRUE, ref |-> CHOOSE r \in Refs : TRUE,
          hash |-> "none", alive |-> TRUE, first |-> FALSE, answer |-> "none"]
AllBytes == {Bytes[r] : r \in Refs}
Downloading == {"reload", "fetch", "lock", "stream", "link", "sync", "mark"}

MediaTypeOK ==
    /\ atts \in [Attachments -> [ref : Refs, hash : AllBytes \cup {"none"}]]
    /\ files \in [AllBytes -> {"none", "linked", "durable"}]
    /\ writer \in Callers \cup {Nobody}
    /\ callers \in [Callers ->
          [at : {"idle", "join", "wait", "reread", "open"} \cup Downloading, att : Attachments,
           ref : Refs, hash : AllBytes \cup {"none"}, alive : BOOLEAN, first : BOOLEAN,
           answer : AllBytes \cup {"none", "unavailable", "failed", "canceled"}]]
    /\ \A c \in Callers : writer = c <=> callers[c].at \in {"stream", "link", "sync"}
    /\ serving \in BOOLEAN
    /\ spared \in [edits : 0..MaxEdits, faults : 0..MaxMediaFaults, losses : 0..MaxLosses]

MediaInit ==
    /\ atts = [a \in Attachments |-> [ref |-> FirstRef[a], hash |-> "none"]]
    /\ files = [b \in AllBytes |-> "none"]
    /\ writer = Nobody
    /\ callers = [c \in Callers |-> Idler]
    /\ serving = FALSE
    /\ spared = [edits |-> MaxEdits, faults |-> MaxMediaFaults, losses |-> MaxLosses]

\* The caller reads its row (GetForDownload).
Row(a) == [ref |-> atts[a].ref, hash |-> atts[a].hash]
Reads(c, a, at) ==
    callers' = [callers EXCEPT ![c] = [@ EXCEPT !.at = at, !.att = a, !.ref = Row(a).ref,
                                                !.hash = Row(a).hash]]
Goes(c, at) == callers' = [callers EXCEPT ![c].at = at]
Told(call, what) == [call EXCEPT !.at = "idle", !.first = FALSE, !.answer = what]

\* What the shared download ended with goes to the one that ran it and to all that wait.
SameFlight(c) == {c} \cup {d \in Callers : callers[d].at = "wait" /\ callers[d].att = callers[c].att}
Lands(c, result) ==
    callers' = [d \in Callers |->
        IF d \notin SameFlight(c) THEN callers[d]
        ELSE IF result = "done" THEN [callers[d] EXCEPT !.at = "reread", !.first = FALSE]
        ELSE Told(callers[d], result)]

\* Any operation under a context fails once the context is canceled; a file operation or
\* the platform may fail as well.
Fails(c) ==
    /\ spared.faults > 0 /\ spared' = [spared EXCEPT !.faults = @ - 1]
    /\ Lands(c, "failed")
GivesUp(c) ==
    \/ ~callers[c].alive /\ Lands(c, "canceled") /\ UNCHANGED spared
    \/ Fails(c)

-----------------------------------------------------------------------------
(* Resolve and download.                                                    *)

\* Resolve: a row that has its blob is described, any other joins a download.
StartResolve(c, a) ==
    /\ callers[c] = Idler
    /\ Reads(c, a, IF atts[a].hash # "none" THEN "open" ELSE "join")
    /\ UNCHANGED <<atts, files, writer, serving, spared>>

InFlight(a) == \E d \in Callers : callers[d].first /\ callers[d].att = a
JoinFlight(c) ==
    /\ callers[c].at = "join"
    /\ callers' = IF InFlight(callers[c].att) THEN [callers EXCEPT ![c].at = "wait"]
                  ELSE [callers EXCEPT ![c] = [@ EXCEPT !.at = "reload", !.first = TRUE]]
    /\ UNCHANGED <<atts, files, writer, serving, spared>>

\* download: the row once more, since an earlier flight may have landed meanwhile; then
\* the registry, which says no at once when the account has no adapter.

HasLanded(a) == atts[a].hash # "none"
Reload(c) ==
    /\ callers[c].at = "reload"
    /\ \/ ~callers[c].alive /\ Lands(c, "canceled")
       \/ /\ callers[c].alive
          /\ \/ HasLanded(callers[c].att) /\ Lands(c, "done")
             \/ ~HasLanded(callers[c].att) /\ ~serving /\ Lands(c, "unavailable")
             \/ /\ ~HasLanded(callers[c].att) /\ serving
                /\ Reads(c, callers[c].att, "fetch")
    /\ UNCHANGED <<atts, files, writer, serving, spared>>

\* The platform opens a stream.
Fetch(c) ==
    /\ callers[c].at = "fetch"
    /\ \/ callers[c].alive /\ Goes(c, "lock") /\ UNCHANGED spared
       \/ GivesUp(c)
    /\ UNCHANGED <<atts, files, writer, serving>>

\* Put: the lock of the store is taken before the stream is read and kept until the
\* file bears its name and both directories are synced.
PutLocks(c) ==
    /\ callers[c].at = "lock" /\ writer = Nobody
    /\ writer' = c /\ Goes(c, "stream")
    /\ UNCHANGED <<atts, files, serving, spared>>
PutStreams(c) ==
    /\ callers[c].at = "stream"
    /\ \/ callers[c].alive /\ Goes(c, "link") /\ UNCHANGED <<spared, writer>>
       \/ GivesUp(c) /\ writer' = Nobody
    /\ UNCHANGED <<atts, files, serving>>
\* A file that is there already stays; whether it is durable is not known.
Linked(b) == IF files[b] = "none" THEN "linked" ELSE files[b]

\* A mutant: a deduplicated blob is taken for one that was synced before.
PutLinksOnce(c) ==
    /\ callers[c].at = "link"
    /\ files' = [files EXCEPT ![Bytes[callers[c].ref]] = Linked(Bytes[callers[c].ref])]
    /\ IF files[Bytes[callers[c].ref]] = "none" THEN Goes(c, "sync") /\ UNCHANGED writer
       ELSE Goes(c, "mark") /\ writer' = Nobody
    /\ UNCHANGED <<atts, serving, spared>>
PutLinks(c) ==
    /\ callers[c].at = "link"
    /\ files' = [files EXCEPT ![Bytes[callers[c].ref]] = Linked(Bytes[callers[c].ref])]
    /\ Goes(c, "sync")
    /\ UNCHANGED <<atts, writer, serving, spared>>
PutSyncs(c) ==
    /\ callers[c].at = "sync" /\ writer' = Nobody
    /\ \/ /\ files' = [files EXCEPT ![Bytes[callers[c].ref]] = "durable"]
          /\ Goes(c, "mark") /\ UNCHANGED spared
       \/ Fails(c) /\ UNCHANGED files
    /\ UNCHANGED <<atts, serving>>

\* MarkDownloaded: only a pending row takes the hash.
MarkDownloaded(c) ==
    /\ callers[c].at = "mark"
    /\ \/ /\ callers[c].alive /\ Lands(c, "done") /\ UNCHANGED spared
          /\ atts' = IF atts[callers[c].att].hash # "none" THEN atts
                     ELSE [atts EXCEPT ![callers[c].att].hash = Bytes[callers[c].ref]]
       \/ GivesUp(c) /\ UNCHANGED atts
    /\ UNCHANGED <<files, writer, serving>>

\* After a flight, the row is read again and its file opened.
Reread(c) ==
    /\ callers[c].at = "reread"
    /\ \/ callers[c].alive /\ Reads(c, callers[c].att, "open")
       \/ ~callers[c].alive /\ callers' = [callers EXCEPT ![c] = Told(@, "canceled")]
    /\ UNCHANGED <<atts, files, writer, serving, spared>>
OpenBlob(c) ==
    /\ callers[c].at = "open" /\ writer = Nobody
    /\ callers' = [callers EXCEPT ![c] =
          Told(@, IF @.hash # "none" /\ files[@.hash] # "none" THEN @.hash ELSE "failed")]
    /\ UNCHANGED <<atts, files, writer, serving, spared>>
\* The next request of the same client.
AskAgain(c) ==
    /\ callers[c].at = "idle" /\ callers[c].answer # "none"
    /\ callers' = [callers EXCEPT ![c] = Idler]
    /\ UNCHANGED <<atts, files, writer, serving, spared>>

-----------------------------------------------------------------------------
(* Around it.                                                               *)

\* The account's adapter is registered once, at start.
RegisterAdapter ==
    /\ ~serving /\ serving' = TRUE
    /\ UNCHANGED <<atts, files, writer, callers, spared>>
\* The client goes away.
Leaves(c) ==
    /\ callers[c].at # "idle" /\ callers[c].alive
    /\ callers' = [callers EXCEPT ![c].alive = FALSE]
    /\ UNCHANGED <<atts, files, writer, serving, spared>>
\* RecordInboundAttachment: an edit refreshes a row that has no blob.
RecordInboundAttachment(a, r) ==
    /\ spared.edits > 0 /\ spared' = [spared EXCEPT !.edits = @ - 1]
    /\ atts' = IF atts[a].hash # "none" THEN atts ELSE [atts EXCEPT ![a].ref = r]
    /\ UNCHANGED <<files, writer, callers, serving>>
\* The power fails: a name that was not synced is there or not.
PowerLoss ==
    /\ spared.losses > 0 /\ spared' = [spared EXCEPT !.losses = @ - 1]
    /\ \E lost \in SUBSET {b \in AllBytes : files[b] = "linked"} :
          files' = [b \in AllBytes |-> IF b \in lost THEN "none" ELSE files[b]]
    /\ writer' = Nobody /\ callers' = [c \in Callers |-> Idler] /\ serving' = FALSE
    /\ UNCHANGED atts

MediaNext ==
    \/ \E c \in Callers :
          \/ \E a \in Attachments : StartResolve(c, a)
          \/ JoinFlight(c) \/ Reload(c) \/ Fetch(c) \/ PutLocks(c) \/ PutStreams(c)
          \/ PutLinks(c) \/ PutSyncs(c) \/ MarkDownloaded(c) \/ Reread(c) \/ OpenBlob(c)
          \/ AskAgain(c) \/ Leaves(c)
    \/ RegisterAdapter \/ PowerLoss
    \/ \E a \in Attachments, r \in Refs : RecordInboundAttachment(a, r)
MediaSpec == MediaInit /\ [][MediaNext]_mediaVars

-----------------------------------------------------------------------------
\* A row is marked downloaded when its blob is on the disk to stay: whatever download
\* failed half way, whoever stored the same bytes before and whenever the power fails.
DownloadedHasBytes ==
    \A a \in Attachments : atts[a].hash # "none" => files[atts[a].hash] = "durable"

\* Callers of one attachment share a download, and one that comes when it has landed
\* does not start another.
FetchedOnce ==
    /\ \A c \in Callers : callers[c].at \in Downloading \ {"reload"} => atts[callers[c].att].hash = "none"
    /\ \A c, d \in Callers : callers[c].first /\ callers[d].first /\ callers[c].att = callers[d].att => c = d

\* The blob of an attachment is what its reference downloads.
BytesOfRef == \A a \in Attachments : atts[a].hash \in {"none", Bytes[atts[a].ref]}

\* A request is told of a cancellation when it was its own.
OwnCancellation == \A c \in Callers : callers[c].answer = "canceled" => ~callers[c].alive
=============================================================================
