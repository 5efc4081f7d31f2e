----------------------------- MODULE DaemonProofs -----------------------------
(* Parts of the daemon, proved: attachments on demand, the Google connection, *)
(* the projector of confirmed sends, the data directory, the fetches of the   *)
(* terminal interface, and the processes of serve.                            *)
EXTENDS Media, GoogleSession, Projector, DataDir, Tui, ServeRun, FiniteSetTheorems,
        WellFoundedInduction, TLAPS

-----------------------------------------------------------------------------
(* Media *)

\* A caller: where it is, and what it has read and been told.
Spots     == {"idle", "join", "wait", "reread", "open"} \cup Downloading
Hashes    == AllBytes \cup {"none"}
AnswerSet   == AllBytes \cup {"none", "unavailable", "failed", "canceled"}
CallType  == [at : Spots, att : Attachments, ref : Refs, hash : Hashes, alive : BOOLEAN,
              first : BOOLEAN, answer : AnswerSet]
AttsType  == [Attachments -> [ref : Refs, hash : Hashes]]
SpareType == [edits : 0..MaxEdits, faults : 0..MaxMediaFaults, losses : 0..MaxLosses]

\* The lock of the blob store.
Writing  == {"stream", "link", "sync"}
LockHeld == \A c \in Callers : writer = c <=> callers[c].at \in Writing

\* A caller that is about to mark its row has put the bytes on the disk to stay.
MarksDurable == \A c \in Callers : callers[c].at = "mark" => files[Bytes[callers[c].ref]] = "durable"

\* The one that runs a download is the only one for its attachment, and runs it from
\* its start to its end.
OneFlight ==
    /\ \A c \in Callers : callers[c].first = TRUE <=> callers[c].at \in Downloading
    /\ \A c, d \in Callers :
          callers[c].first = TRUE /\ callers[d].first = TRUE /\ callers[c].att = callers[d].att => c = d

\* Past its second look, a download is of a row that has no blob.
FetchesMissing == \A c \in Callers :
    callers[c].at \in Downloading \ {"reload"} => atts[callers[c].att].hash = "none"

MediaInv ==
    /\ MediaTypeOK /\ DownloadedHasBytes /\ MarksDurable /\ OneFlight /\ FetchesMissing

\* A platform's bytes are bytes.
LEMMA BytesType == \A r \in Refs : Bytes[r] \in AllBytes
  BY DEF AllBytes

\* No attachment's bytes are called "none".
LEMMA NoneIsNoHash == "none" \notin AllBytes
  BY MediaAssumption DEF AllBytes

\* A caller that asks for nothing.
LEMMA IdlerFacts ==
    /\ Idler \in CallType
    /\ Idler.at = "idle" /\ Idler.first = FALSE
<1>1. \E a \in Attachments : TRUE
  BY MediaAssumption
<1>2. \E r \in Refs : TRUE
  BY <1>1, MediaAssumption
<1>3. (CHOOSE a \in Attachments : TRUE) \in Attachments
  BY <1>1
<1>4. (CHOOSE r \in Refs : TRUE) \in Refs
  BY <1>2
<1>5. "idle" \in Spots /\ "none" \in Hashes /\ "none" \in AnswerSet
  BY DEF Spots, Hashes, AnswerSet
<1> QED
  BY <1>3, <1>4, <1>5 DEF Idler, CallType

\* What the invariant says of the callers, and of what they share.
CallsOK ==
    /\ callers \in [Callers -> CallType] /\ writer \in Callers \cup {Nobody}
    /\ LockHeld /\ MarksDurable /\ OneFlight /\ FetchesMissing
SharedOK ==
    /\ atts \in AttsType /\ files \in [AllBytes -> {"none", "linked", "durable"}]
    /\ serving \in BOOLEAN /\ spared \in SpareType
    /\ DownloadedHasBytes

\* The invariant is what it says of the two.
LEMMA MediaParts == MediaInv <=> CallsOK /\ SharedOK
  BY DEF MediaInv, MediaTypeOK, CallsOK, SharedOK, CallType, Spots, Hashes, AnswerSet, AttsType,
         SpareType, LockHeld, Writing

\* No bytes that were synced are lost.
KeepsDurable == \A b \in AllBytes : files[b] = "durable" => files'[b] = "durable"

\* One caller goes on, in a way that the invariant allows.
LEMMA OneMoves ==
    ASSUME CallsOK, KeepsDurable, NEW c \in Callers, NEW n \in CallType,
           callers' = [callers EXCEPT ![c] = n],
           atts' = atts,
           writer' \in {writer, c, Nobody}, writer \in {c, Nobody} \/ writer' = writer,
           writer' = c <=> n.at \in Writing,
           n.first = TRUE <=> n.at \in Downloading,
           n.first = TRUE => \/ callers[c].first = TRUE /\ n.att = callers[c].att
                             \/ ~InFlight(n.att),
           n.at = "mark" => files'[Bytes[n.ref]] = "durable",
           n.at \in Downloading \ {"reload"} => atts[n.att].hash = "none"
    PROVE  CallsOK'
<1>1. /\ callers' \in [Callers -> CallType] /\ callers'[c] = n
      /\ \A d \in Callers : d # c => callers'[d] = callers[d]
  BY DEF CallsOK
<1>2. writer' \in Callers \cup {Nobody}
  BY DEF CallsOK
<1>3. LockHeld'
  <2> SUFFICES ASSUME NEW d \in Callers PROVE writer' = d <=> callers'[d].at \in Writing
    BY DEF LockHeld
  <2>1. CASE d = c
    BY <2>1, <1>1
  <2>2. CASE d # c
    <3>1. writer' = d <=> writer = d
      BY <2>2, MediaAssumption
    <3> QED
      BY <3>1, <2>2, <1>1 DEF CallsOK, LockHeld
  <2> QED
    BY <2>1, <2>2
<1>4. MarksDurable'
  <2> SUFFICES ASSUME NEW d \in Callers, callers'[d].at = "mark"
               PROVE  files'[Bytes[callers'[d].ref]] = "durable"
    BY DEF MarksDurable
  <2>1. CASE d = c
    BY <2>1, <1>1
  <2>2. CASE d # c
    <3>1. callers[d].ref \in Refs
      BY DEF CallsOK, CallType
    <3>2. files[Bytes[callers[d].ref]] = "durable" /\ Bytes[callers[d].ref] \in AllBytes
      BY <3>1, <2>2, <1>1, BytesType DEF CallsOK, MarksDurable
    <3> QED
      BY <3>2, <2>2, <1>1 DEF KeepsDurable
  <2> QED
    BY <2>1, <2>2
<1>5. OneFlight'
  <2>1. \A d \in Callers : callers'[d].first = TRUE <=> callers'[d].at \in Downloading
    BY <1>1 DEF CallsOK, OneFlight
  <2>2. ASSUME NEW d \in Callers, NEW e \in Callers, callers'[d].first = TRUE,
               callers'[e].first = TRUE, callers'[d].att = callers'[e].att
        PROVE  d = e
    <3>1. CASE d # c /\ e # c
      BY <3>1, <2>2, <1>1 DEF CallsOK, OneFlight
    <3>2. CASE d = c /\ e # c
      <4>1. callers[e].first = TRUE /\ n.first = TRUE /\ callers[e].att = n.att
        BY <3>2, <2>2, <1>1
      <4>2. InFlight(n.att)
        BY <4>1 DEF InFlight
      <4>3. callers[c].first = TRUE /\ n.att = callers[c].att
        BY <4>1, <4>2
      <4>4. c = e
        BY <4>1, <4>3 DEF CallsOK, OneFlight
      <4> QED
        BY <4>4, <3>2
    <3>3. CASE d # c /\ e = c
      <4>1. callers[d].first = TRUE /\ n.first = TRUE /\ callers[d].att = n.att
        BY <3>3, <2>2, <1>1
      <4>2. InFlight(n.att)
        BY <4>1 DEF InFlight
      <4>3. callers[c].first = TRUE /\ n.att = callers[c].att
        BY <4>1, <4>2
      <4>4. c = d
        BY <4>1, <4>3 DEF CallsOK, OneFlight
      <4> QED
        BY <4>4, <3>3
    <3> QED
      BY <3>1, <3>2, <3>3
  <2> QED
    BY <2>1, <2>2 DEF OneFlight
<1>6. FetchesMissing'
  BY <1>1 DEF CallsOK, FetchesMissing
<1> QED
  BY <1>1, <1>2, <1>3, <1>4, <1>5, <1>6 DEF CallsOK

\* A download lands: the one that ran it and those that waited go on, nobody else.
LEMMA LandingFacts ==
    ASSUME callers \in [Callers -> CallType], NEW c \in Callers,
           NEW result \in {"done", "failed", "canceled", "unavailable"}, Lands(c, result)
    PROVE  /\ callers' \in [Callers -> CallType]
           /\ \A d \in Callers :
                 \/ callers'[d] = callers[d] /\ d # c
                 \/ /\ callers'[d].at \in {"reread", "idle"} /\ callers'[d].first = FALSE
                    /\ d = c \/ callers[d].at = "wait"
<1>1. \A d \in Callers : callers[d] \in CallType
  OBVIOUS
<1>2. "reread" \in Spots /\ "idle" \in Spots /\ result \in AnswerSet \cup {"done"}
  BY DEF Spots, AnswerSet
<1>3. \A d \in Callers : /\ [callers[d] EXCEPT !.at = "reread", !.first = FALSE] \in CallType
                         /\ [callers[d] EXCEPT !.at = "reread", !.first = FALSE].at = "reread"
                         /\ [callers[d] EXCEPT !.at = "reread", !.first = FALSE].first = FALSE
  BY <1>1, <1>2 DEF CallType
<1>4. ASSUME result # "done"
      PROVE  \A d \in Callers : /\ Told(callers[d], result) \in CallType
                                /\ Told(callers[d], result).at = "idle"
                                /\ Told(callers[d], result).first = FALSE
  <2>1. result \in AnswerSet
    BY <1>2, <1>4
  <2> QED
    BY <1>1, <1>2, <2>1 DEF CallType, Told
<1>5. \A d \in Callers : d \in SameFlight(c) <=> d = c \/ (callers[d].at = "wait" /\ callers[d].att = callers[c].att)
  BY DEF SameFlight
<1> DEFINE land(d) == IF d \notin SameFlight(c) THEN callers[d]
                      ELSE IF result = "done" THEN [callers[d] EXCEPT !.at = "reread", !.first = FALSE]
                      ELSE Told(callers[d], result)
<1>6. \A d \in Callers : land(d) \in CallType
  BY <1>1, <1>3, <1>4
<1>7. callers' = [d \in Callers |-> land(d)]
  BY DEF Lands
<1>8. \A d \in Callers : callers'[d] = land(d)
  BY <1>7
<1> HIDE DEF land
<1>9. callers' \in [Callers -> CallType]
  BY <1>6, <1>7
<1>10. ASSUME NEW d \in Callers
       PROVE  \/ callers'[d] = callers[d] /\ d # c
              \/ /\ callers'[d].at \in {"reread", "idle"} /\ callers'[d].first = FALSE
                 /\ d = c \/ callers[d].at = "wait"
  <2>1. CASE d \notin SameFlight(c)
    BY <2>1, <1>5, <1>8 DEF land
  <2>2. CASE d \in SameFlight(c) /\ result = "done"
    BY <2>2, <1>3, <1>5, <1>8 DEF land
  <2>3. CASE d \in SameFlight(c) /\ result # "done"
    BY <2>3, <1>4, <1>5, <1>8 DEF land
  <2> QED
    BY <2>1, <2>2, <2>3
<1> QED
  BY <1>9, <1>10

\* The shares of a download that lands.
LEMMA Landed ==
    ASSUME CallsOK, KeepsDurable, NEW c \in Callers, callers[c].at \in Downloading,
           NEW result \in {"done", "failed", "canceled", "unavailable"}, Lands(c, result),
           \A a \in Attachments : a # callers[c].att => atts'[a] = atts[a],
           writer' = IF callers[c].at \in Writing THEN Nobody ELSE writer
    PROVE  CallsOK'
<1>1. /\ callers' \in [Callers -> CallType]
      /\ \A d \in Callers :
            \/ callers'[d] = callers[d] /\ d # c
            \/ /\ callers'[d].at \in {"reread", "idle"} /\ callers'[d].first = FALSE
               /\ d = c \/ callers[d].at = "wait"
  BY LandingFacts DEF CallsOK
<1>2. {"reread", "idle", "wait"} \cap (Downloading \cup Writing) = {}
  BY DEF Downloading, Writing
<1>3. \A d \in Callers : d # c => (callers[d].at = "wait" => writer # d)
  BY <1>2 DEF CallsOK, LockHeld
<1>4. writer' \in Callers \cup {Nobody} /\ LockHeld'
  <2> SUFFICES ASSUME NEW d \in Callers PROVE writer' = d <=> callers'[d].at \in Writing
    BY DEF CallsOK, LockHeld
  <2>1. CASE d = c
    <3>1. callers'[d].at \notin Writing
      BY <2>1, <1>1, <1>2
    <3>2. writer' # d
      BY <2>1, MediaAssumption DEF CallsOK, LockHeld
    <3> QED
      BY <3>1, <3>2
  <2>2. CASE d # c /\ callers'[d] = callers[d]
    <3>1. writer = d <=> callers[d].at \in Writing
      BY DEF CallsOK, LockHeld
    <3>2. writer' = d <=> writer = d
      BY <2>2, MediaAssumption DEF CallsOK, LockHeld
    <3> QED
      BY <3>1, <3>2, <2>2
  <2>3. CASE d # c /\ callers'[d] # callers[d]
    <3>1. callers'[d].at \notin Writing /\ callers[d].at \notin Writing
      BY <2>3, <1>1, <1>2
    <3>2. writer # d
      BY <3>1 DEF CallsOK, LockHeld
    <3> QED
      BY <3>1, <3>2, MediaAssumption
  <2> QED
    BY <2>1, <2>2, <2>3
<1>5. MarksDurable'
  <2> SUFFICES ASSUME NEW d \in Callers, callers'[d].at = "mark"
               PROVE  files'[Bytes[callers'[d].ref]] = "durable"
    BY DEF MarksDurable
  <2>1. callers'[d] = callers[d]
    BY <1>1
  <2>2. callers[d].ref \in Refs
    BY DEF CallsOK, CallType
  <2>3. files[Bytes[callers[d].ref]] = "durable" /\ Bytes[callers[d].ref] \in AllBytes
    BY <2>1, <2>2, BytesType DEF CallsOK, MarksDurable
  <2> QED
    BY <2>1, <2>3 DEF KeepsDurable
<1>6. OneFlight'
  <2>1. \A d \in Callers : callers'[d].first = TRUE <=> callers'[d].at \in Downloading
    BY <1>1, <1>2 DEF CallsOK, OneFlight
  <2>2. \A d \in Callers : callers'[d].first = TRUE => callers'[d] = callers[d]
    BY <1>1
  <2> QED
    BY <2>1, <2>2 DEF CallsOK, OneFlight
<1>7. FetchesMissing'
  <2> SUFFICES ASSUME NEW d \in Callers, callers'[d].at \in Downloading \ {"reload"}
               PROVE  atts'[callers'[d].att].hash = "none"
    BY DEF FetchesMissing
  <2>1. callers'[d] = callers[d] /\ d # c
    BY <1>1, <1>2
  <2>2. callers[d].att # callers[c].att
    BY <2>1 DEF CallsOK, OneFlight
  <2>3. callers[d].att \in Attachments /\ atts[callers[d].att].hash = "none"
    BY <2>1 DEF CallsOK, CallType, FetchesMissing
  <2> QED
    BY <2>1, <2>2, <2>3
<1> QED
  BY <1>1, <1>4, <1>5, <1>6, <1>7 DEF CallsOK

\* A caller goes on to a place.
LEMMA GoesFacts ==
    ASSUME callers \in [Callers -> CallType], NEW c \in Callers, NEW at \in Spots, Goes(c, at)
    PROVE  \E n \in CallType :
              /\ callers' = [callers EXCEPT ![c] = n] /\ n.at = at
              /\ n.att = callers[c].att /\ n.ref = callers[c].ref /\ n.first = callers[c].first
<1> DEFINE n == [callers[c] EXCEPT !.at = at]
<1>1. callers[c] \in CallType
  OBVIOUS
<1>2. /\ n \in CallType /\ n.at = at
      /\ n.att = callers[c].att /\ n.ref = callers[c].ref /\ n.first = callers[c].first
  BY <1>1 DEF CallType
<1>3. callers' = [callers EXCEPT ![c] = n]
  BY DEF Goes
<1> QED
  BY <1>2, <1>3

\* A caller goes on to a place with a row as it is.
LEMMA ReadsFacts ==
    ASSUME callers \in [Callers -> CallType], atts \in AttsType, NEW c \in Callers,
           NEW a \in Attachments, NEW at \in Spots, Reads(c, a, at)
    PROVE  \E n \in CallType :
              /\ callers' = [callers EXCEPT ![c] = n] /\ n.at = at
              /\ n.att = a /\ n.ref = atts[a].ref /\ n.first = callers[c].first
<1> DEFINE n == [callers[c] EXCEPT !.at = at, !.att = a, !.ref = Row(a).ref, !.hash = Row(a).hash]
<1>1. callers[c] \in CallType
  OBVIOUS
<1>2. atts[a].ref \in Refs /\ atts[a].hash \in Hashes /\ Row(a).ref = atts[a].ref
      /\ Row(a).hash = atts[a].hash
  BY DEF AttsType, Row
<1>3. /\ n \in CallType /\ n.at = at
      /\ n.att = a /\ n.ref = atts[a].ref /\ n.first = callers[c].first
  BY <1>1, <1>2 DEF CallType
<1>4. callers' = [callers EXCEPT ![c] = n]
  BY DEF Reads
<1> QED
  BY <1>3, <1>4

\* Downloading begins with the only flight of its attachment; the rest of it needs no more
\* than to keep its flight.
LEMMA FlightGoesOn ==
    ASSUME CallsOK, NEW c \in Callers, callers[c].at \in Downloading
    PROVE  callers[c].first = TRUE
  BY DEF CallsOK, OneFlight

\* No attachment's blob is unmade, and what the callers share keeps its types, when neither
\* rows nor files change.
LEMMA SharedRests ==
    ASSUME SharedOK, atts' = atts, files' = files, serving' = serving, spared' = spared
    PROVE  SharedOK' /\ KeepsDurable
  BY DEF SharedOK, DownloadedHasBytes, KeepsDurable

\* A refused operation costs a fault, a canceled one nothing.
LEMMA GivesUpFacts ==
    ASSUME SharedOK, NEW c \in Callers, GivesUp(c)
    PROVE  /\ spared' \in SpareType
           /\ Lands(c, "canceled") \/ Lands(c, "failed")
<1>1. spared \in SpareType /\ MaxMediaFaults \in Nat
  BY MediaAssumption DEF SharedOK
<1>2. CASE Fails(c)
  <2>1. spared.faults \in 0..MaxMediaFaults /\ spared.faults > 0
    BY <1>1, <1>2 DEF Fails, SpareType
  <2>2. spared.faults - 1 \in 0..MaxMediaFaults
    BY <1>1, <2>1
  <2>3. spared' = [spared EXCEPT !.faults = spared.faults - 1]
    BY <1>1, <1>2 DEF Fails, SpareType
  <2>4. spared' \in SpareType
    BY <1>1, <2>2, <2>3 DEF SpareType
  <2> QED
    BY <1>2, <2>4 DEF Fails
<1>3. CASE ~Fails(c)
  BY <1>1, <1>3 DEF GivesUp
<1> QED
  BY <1>2, <1>3

\* Giving up in the middle of a download.
LEMMA GivingUp ==
    ASSUME CallsOK, SharedOK, NEW c \in Callers, callers[c].at \in Downloading, GivesUp(c),
           atts' = atts, files' = files, serving' = serving,
           writer' = IF callers[c].at \in Writing THEN Nobody ELSE writer
    PROVE  CallsOK' /\ SharedOK'
<1>1. KeepsDurable
  BY DEF KeepsDurable
<1>2. spared' \in SpareType /\ (Lands(c, "canceled") \/ Lands(c, "failed"))
  BY GivesUpFacts
<1>3. CallsOK'
  BY <1>1, <1>2, Landed
<1>4. SharedOK'
  BY <1>2 DEF SharedOK, DownloadedHasBytes
<1> QED
  BY <1>3, <1>4
-----------------------------------------------------------------------------
(* Media: one step for each action. *)

\* A request finds its blob, or joins a download.
LEMMA Starts ==
    ASSUME CallsOK, SharedOK, NEW c \in Callers, NEW a \in Attachments, StartResolve(c, a)
    PROVE  CallsOK' /\ SharedOK'
<1>1. SharedOK' /\ KeepsDurable
  BY SharedRests DEF StartResolve
<1> DEFINE at == IF atts[a].hash # "none" THEN "open" ELSE "join"
<1>2. at \in Spots /\ at \notin Downloading /\ at \notin Writing /\ at # "mark"
  BY DEF Spots, Downloading, Writing
<1>3. Reads(c, a, at) /\ callers[c].first = FALSE /\ callers[c].at = "idle"
  BY IdlerFacts DEF StartResolve
<1> HIDE DEF at
<1>4. PICK n \in CallType :
         /\ callers' = [callers EXCEPT ![c] = n] /\ n.at = at
         /\ n.att = a /\ n.ref = atts[a].ref /\ n.first = callers[c].first
  BY <1>2, <1>3, ReadsFacts DEF CallsOK, SharedOK
<1>5. writer # c
  BY <1>3 DEF CallsOK, LockHeld, Writing
<1>6. CallsOK'
  BY <1>1, <1>2, <1>3, <1>4, <1>5, OneMoves DEF StartResolve
<1> QED
  BY <1>1, <1>6

\* The first to join runs the download.
LEMMA Joins ==
    ASSUME CallsOK, SharedOK, NEW c \in Callers, JoinFlight(c)
    PROVE  CallsOK' /\ SharedOK'
<1>1. SharedOK' /\ KeepsDurable
  BY SharedRests DEF JoinFlight
<1>2. callers[c] \in CallType /\ callers[c].at = "join"
  BY DEF CallsOK, JoinFlight
<1>3. writer # c /\ callers[c].first # TRUE
  BY <1>2 DEF CallsOK, LockHeld, Writing, OneFlight, Downloading
<1>4. CASE InFlight(callers[c].att)
  <2> DEFINE n == [callers[c] EXCEPT !.at = "wait"]
  <2>1. "wait" \in Spots
    BY DEF Spots
  <2>2. n \in CallType /\ n.at = "wait" /\ n.first = callers[c].first
    BY <1>2, <2>1 DEF CallType
  <2>3. callers' = [callers EXCEPT ![c] = n]
    BY <1>4 DEF JoinFlight
  <2>4. "wait" \notin Downloading /\ "wait" \notin Writing
    BY DEF Downloading, Writing
  <2> HIDE DEF n
  <2> QED
    BY <1>1, <1>3, <2>2, <2>3, <2>4, OneMoves DEF JoinFlight
<1>5. CASE ~InFlight(callers[c].att)
  <2> DEFINE n == [callers[c] EXCEPT !.at = "reload", !.first = TRUE]
  <2>1. "reload" \in Spots /\ TRUE \in BOOLEAN
    BY DEF Spots, Downloading
  <2>2. n \in CallType /\ n.at = "reload" /\ n.first = TRUE /\ n.att = callers[c].att
    BY <1>2, <2>1 DEF CallType
  <2>3. callers' = [callers EXCEPT ![c] = n]
    BY <1>5 DEF JoinFlight
  <2>4. "reload" \in Downloading /\ "reload" \notin Writing
    BY DEF Downloading, Writing
  <2> HIDE DEF n
  <2> QED
    BY <1>1, <1>3, <1>5, <2>2, <2>3, <2>4, OneMoves DEF JoinFlight
<1> QED
  BY <1>4, <1>5

\* The second look at the row lands the flight, or goes to the platform for a row that
\* has no blob.
LEMMA Reloads ==
    ASSUME CallsOK, SharedOK, NEW c \in Callers, Reload(c)
    PROVE  CallsOK' /\ SharedOK'
<1>1. SharedOK' /\ KeepsDurable
  BY SharedRests DEF Reload
<1>2. callers[c].at = "reload" /\ callers[c].at \in Downloading /\ callers[c].at \notin Writing
  BY DEF Reload, Downloading, Writing
<1>3. callers[c] \in CallType /\ callers[c].att \in Attachments /\ callers[c].first = TRUE
      /\ writer # c
  BY <1>2, FlightGoesOn DEF CallsOK, CallType, LockHeld
<1>4. ASSUME NEW result \in {"done", "canceled", "unavailable"}, Lands(c, result)
      PROVE  CallsOK'
  BY <1>1, <1>2, <1>4, Landed DEF Reload
<1>5. ASSUME ~HasLanded(callers[c].att), Reads(c, callers[c].att, "fetch")
      PROVE  CallsOK'
  <2>1. "fetch" \in Spots /\ "fetch" \in Downloading /\ "fetch" \notin Writing
    BY DEF Spots, Downloading, Writing
  <2>2. PICK n \in CallType :
           /\ callers' = [callers EXCEPT ![c] = n] /\ n.at = "fetch"
           /\ n.att = callers[c].att /\ n.ref = atts[callers[c].att].ref
           /\ n.first = callers[c].first
    BY <1>3, <1>5, <2>1, ReadsFacts DEF CallsOK, SharedOK
  <2>3. atts[n.att].hash = "none"
    BY <1>5, <2>2 DEF HasLanded
  <2> QED
    BY <1>1, <1>3, <2>1, <2>2, <2>3, OneMoves DEF Reload
<1> QED
  BY <1>1, <1>4, <1>5 DEF Reload

\* The flight of a caller goes on to a later place of the download.
LEMMA FliesOn ==
    ASSUME CallsOK, KeepsDurable, NEW c \in Callers, NEW at \in Downloading \ {"reload"},
           callers[c].at \in Downloading \ {"reload"}, Goes(c, at), atts' = atts,
           writer' \in {writer, c, Nobody}, writer \in {c, Nobody} \/ writer' = writer,
           writer' = c <=> at \in Writing,
           at = "mark" => files'[Bytes[callers[c].ref]] = "durable"
    PROVE  CallsOK'
<1>1. at \in Spots
  BY DEF Spots
<1>2. PICK n \in CallType :
         /\ callers' = [callers EXCEPT ![c] = n] /\ n.at = at
         /\ n.att = callers[c].att /\ n.ref = callers[c].ref /\ n.first = callers[c].first
  BY <1>1, GoesFacts DEF CallsOK
<1>3. callers[c].first = TRUE /\ atts[callers[c].att].hash = "none"
  BY FlightGoesOn DEF CallsOK, FetchesMissing
<1> QED
  BY <1>2, <1>3, OneMoves

\* The platform answers with a stream, or does not.
LEMMA FetchStarts ==
    ASSUME CallsOK, SharedOK, NEW c \in Callers, Fetch(c)
    PROVE  CallsOK' /\ SharedOK'
<1>1. /\ callers[c].at \in Downloading \ {"reload"} /\ callers[c].at \notin Writing
      /\ "lock" \in Downloading \ {"reload"} /\ "lock" \notin Writing /\ "lock" # "mark"
  BY DEF Fetch, Downloading, Writing
<1>2. CASE GivesUp(c)
  BY <1>1, <1>2, GivingUp DEF Fetch
<1>3. CASE Goes(c, "lock") /\ UNCHANGED spared
  <2>1. SharedOK' /\ KeepsDurable
    BY <1>3, SharedRests DEF Fetch
  <2>2. writer # c
    BY <1>1 DEF CallsOK, LockHeld
  <2>3. CallsOK'
    BY <1>1, <1>3, <2>1, <2>2, FliesOn DEF Fetch
  <2> QED
    BY <2>1, <2>3
<1> QED
  BY <1>2, <1>3 DEF Fetch

\* The lock of the store is taken.
LEMMA Locks ==
    ASSUME CallsOK, SharedOK, NEW c \in Callers, PutLocks(c)
    PROVE  CallsOK' /\ SharedOK'
<1>1. /\ callers[c].at \in Downloading \ {"reload"}
      /\ "stream" \in Downloading \ {"reload"} /\ "stream" \in Writing /\ "stream" # "mark"
  BY DEF PutLocks, Downloading, Writing
<1>2. SharedOK' /\ KeepsDurable
  BY SharedRests DEF PutLocks
<1>3. CallsOK'
  BY <1>1, <1>2, FliesOn DEF PutLocks
<1> QED
  BY <1>2, <1>3

\* The bytes are read under the lock, which a failed read gives back.
LEMMA Streams ==
    ASSUME CallsOK, SharedOK, NEW c \in Callers, PutStreams(c)
    PROVE  CallsOK' /\ SharedOK'
<1>1. /\ callers[c].at \in Downloading \ {"reload"} /\ callers[c].at \in Writing
      /\ "link" \in Downloading \ {"reload"} /\ "link" \in Writing /\ "link" # "mark"
  BY DEF PutStreams, Downloading, Writing
<1>2. CASE GivesUp(c) /\ writer' = Nobody
  BY <1>1, <1>2, GivingUp DEF PutStreams
<1>3. CASE Goes(c, "link") /\ UNCHANGED <<spared, writer>>
  <2>1. SharedOK' /\ KeepsDurable
    BY <1>3, SharedRests DEF PutStreams
  <2>2. writer = c
    BY <1>1 DEF CallsOK, LockHeld
  <2>3. CallsOK'
    BY <1>1, <1>3, <2>1, <2>2, FliesOn DEF PutStreams
  <2> QED
    BY <2>1, <2>3
<1> QED
  BY <1>2, <1>3 DEF PutStreams

\* The blobs after one file has come to a better state: what was durable is so still.
LEMMA FileGains ==
    ASSUME SharedOK, NEW b \in AllBytes, NEW s \in {"none", "linked", "durable"},
           files[b] = "durable" => s = "durable",
           files' = [files EXCEPT ![b] = s], atts' = atts, serving' = serving,
           spared' \in SpareType
    PROVE  SharedOK' /\ KeepsDurable /\ files'[b] = s
<1>1. files' \in [AllBytes -> {"none", "linked", "durable"}] /\ files'[b] = s
      /\ \A e \in AllBytes : e # b => files'[e] = files[e]
  BY DEF SharedOK
<1>2. KeepsDurable
  BY <1>1 DEF KeepsDurable
<1>3. DownloadedHasBytes'
  <2> SUFFICES ASSUME NEW a \in Attachments, atts[a].hash # "none"
               PROVE  files'[atts[a].hash] = "durable"
    BY DEF DownloadedHasBytes
  <2>1. atts[a].hash \in AllBytes /\ files[atts[a].hash] = "durable"
    BY DEF SharedOK, AttsType, Hashes, DownloadedHasBytes
  <2> QED
    BY <1>2, <2>1 DEF KeepsDurable
<1> QED
  BY <1>1, <1>2, <1>3 DEF SharedOK

\* The file gets its name, or has it already.
LEMMA Links ==
    ASSUME CallsOK, SharedOK, NEW c \in Callers, PutLinks(c)
    PROVE  CallsOK' /\ SharedOK'
<1>1. /\ callers[c].at \in Downloading \ {"reload"} /\ callers[c].at \in Writing
      /\ "sync" \in Downloading \ {"reload"} /\ "sync" \in Writing /\ "sync" # "mark"
  BY DEF PutLinks, Downloading, Writing
<1>2. Bytes[callers[c].ref] \in AllBytes
  BY BytesType DEF CallsOK, CallType
<1> DEFINE b == Bytes[callers[c].ref]
<1>3. /\ Linked(b) \in {"none", "linked", "durable"}
      /\ files[b] = "durable" => Linked(b) = "durable"
  BY <1>2 DEF SharedOK, Linked
<1>4. spared' \in SpareType
  BY DEF PutLinks, SharedOK
<1>5. SharedOK' /\ KeepsDurable
  BY <1>2, <1>3, <1>4, FileGains DEF PutLinks
<1>6. writer = c
  BY <1>1 DEF CallsOK, LockHeld
<1>7. CallsOK'
  BY <1>1, <1>5, <1>6, FliesOn DEF PutLinks
<1> QED
  BY <1>5, <1>7

\* The bytes and their name are on the disk, or the sync fails; the lock goes back.
LEMMA Syncs ==
    ASSUME CallsOK, SharedOK, NEW c \in Callers, PutSyncs(c)
    PROVE  CallsOK' /\ SharedOK'
<1>1. /\ callers[c].at \in Downloading \ {"reload"} /\ callers[c].at \in Writing
      /\ "mark" \in Downloading \ {"reload"} /\ "mark" \notin Writing
  BY DEF PutSyncs, Downloading, Writing
<1>2. writer = c /\ writer' = Nobody /\ writer' # c
  BY <1>1, MediaAssumption DEF CallsOK, LockHeld, PutSyncs
<1>3. CASE Fails(c) /\ UNCHANGED files
  <2>1. GivesUp(c)
    BY <1>3 DEF GivesUp
  <2> QED
    BY <1>1, <1>2, <1>3, <2>1, GivingUp DEF PutSyncs
<1>4. CASE /\ files' = [files EXCEPT ![Bytes[callers[c].ref]] = "durable"]
           /\ Goes(c, "mark") /\ UNCHANGED spared
  <2>1. Bytes[callers[c].ref] \in AllBytes
    BY BytesType DEF CallsOK, CallType
  <2>2. spared' \in SpareType
    BY <1>4 DEF SharedOK
  <2>3. SharedOK' /\ KeepsDurable /\ files'[Bytes[callers[c].ref]] = "durable"
    BY <1>4, <2>1, <2>2, FileGains DEF PutSyncs
  <2>4. CallsOK'
    BY <1>1, <1>2, <1>4, <2>3, FliesOn DEF PutSyncs
  <2> QED
    BY <2>3, <2>4
<1> QED
  BY <1>3, <1>4 DEF PutSyncs

\* A row that has no blob takes the one that was stored.
LEMMA Marked ==
    ASSUME CallsOK, SharedOK, NEW c \in Callers, MarkDownloaded(c)
    PROVE  CallsOK' /\ SharedOK'
<1>1. callers[c].at \in Downloading /\ callers[c].at \notin Writing /\ callers[c].at = "mark"
  BY DEF MarkDownloaded, Downloading, Writing
<1>2. CASE GivesUp(c) /\ UNCHANGED atts
  BY <1>1, <1>2, GivingUp DEF MarkDownloaded
<1>3. CASE /\ Lands(c, "done") /\ UNCHANGED spared
           /\ atts' = IF atts[callers[c].att].hash # "none" THEN atts
                      ELSE [atts EXCEPT ![callers[c].att].hash = Bytes[callers[c].ref]]
  <2>1. /\ callers[c].att \in Attachments /\ callers[c].ref \in Refs
        /\ Bytes[callers[c].ref] \in AllBytes /\ files[Bytes[callers[c].ref]] = "durable"
    BY <1>1, BytesType DEF CallsOK, CallType, MarksDurable
  <2>2. KeepsDurable
    BY DEF KeepsDurable, MarkDownloaded
  <2>3. atts' \in AttsType /\ \A a \in Attachments : a # callers[c].att => atts'[a] = atts[a]
    <3>1. CASE atts[callers[c].att].hash # "none"
      BY <1>3, <3>1 DEF SharedOK
    <3>2. CASE atts[callers[c].att].hash = "none"
      <4> DEFINE row == [atts[callers[c].att] EXCEPT !.hash = Bytes[callers[c].ref]]
      <4>1. row \in [ref : Refs, hash : Hashes]
        BY <2>1 DEF SharedOK, AttsType, Hashes
      <4>2. atts' = [atts EXCEPT ![callers[c].att] = row]
        BY <1>3, <3>2
      <4> HIDE DEF row
      <4> QED
        BY <4>1, <4>2 DEF SharedOK, AttsType
    <3> QED
      BY <3>1, <3>2
  <2>4. atts'[callers[c].att].hash \in {atts[callers[c].att].hash, Bytes[callers[c].ref]}
    BY <1>3, <2>1 DEF SharedOK, AttsType
  <2>5. DownloadedHasBytes'
    BY <2>1, <2>3, <2>4 DEF SharedOK, DownloadedHasBytes, MarkDownloaded
  <2>6. SharedOK'
    BY <1>3, <2>3, <2>5 DEF SharedOK, MarkDownloaded
  <2>7. CallsOK'
    BY <1>1, <1>3, <2>2, <2>3, Landed DEF MarkDownloaded
  <2> QED
    BY <2>6, <2>7
<1> QED
  BY <1>2, <1>3 DEF MarkDownloaded

\* A caller that neither downloads nor holds the lock goes on to a place of the same kind.
LEMMA Strolls ==
    ASSUME CallsOK, SharedOK, NEW c \in Callers, callers[c].at \notin Downloading,
           NEW n \in CallType, callers' = [callers EXCEPT ![c] = n],
           n.at \notin Downloading, n.first = FALSE,
           UNCHANGED <<atts, files, writer, serving, spared>>
    PROVE  CallsOK' /\ SharedOK'
<1>1. SharedOK' /\ KeepsDurable
  BY SharedRests
<1>2. n.at \notin Writing /\ callers[c].at \notin Writing /\ n.at # "mark"
  BY DEF Writing, Downloading
<1>3. writer # c
  BY <1>2 DEF CallsOK, LockHeld
<1>4. CallsOK'
  BY <1>1, <1>2, <1>3, OneMoves
<1> QED
  BY <1>1, <1>4

\* Those that shared a flight read their row again.
LEMMA Rereads ==
    ASSUME CallsOK, SharedOK, NEW c \in Callers, Reread(c)
    PROVE  CallsOK' /\ SharedOK'
<1>1. /\ callers[c].at \notin Downloading /\ "open" \notin Downloading /\ "idle" \notin Downloading
      /\ "open" \in Spots /\ "idle" \in Spots /\ "canceled" \in AnswerSet
  BY DEF Reread, Downloading, Spots, AnswerSet
<1>2. callers[c] \in CallType /\ callers[c].att \in Attachments /\ callers[c].first = FALSE
  BY <1>1 DEF CallsOK, CallType, OneFlight
<1>3. CASE Reads(c, callers[c].att, "open")
  <2>1. PICK n \in CallType :
           /\ callers' = [callers EXCEPT ![c] = n] /\ n.at = "open"
           /\ n.att = callers[c].att /\ n.ref = atts[callers[c].att].ref
           /\ n.first = callers[c].first
    BY <1>1, <1>2, <1>3, ReadsFacts DEF CallsOK, SharedOK
  <2> QED
    BY <1>1, <1>2, <2>1, Strolls DEF Reread
<1>4. CASE callers' = [callers EXCEPT ![c] = Told(@, "canceled")]
  <2> DEFINE n == Told(callers[c], "canceled")
  <2>1. n \in CallType /\ n.at = "idle" /\ n.first = FALSE
    BY <1>1, <1>2 DEF CallType, Told
  <2>2. callers' = [callers EXCEPT ![c] = n]
    BY <1>4
  <2> HIDE DEF n
  <2> QED
    BY <1>1, <2>1, <2>2, Strolls DEF Reread
<1> QED
  BY <1>3, <1>4 DEF Reread

\* The file is opened, or is not there.
LEMMA Opens ==
    ASSUME CallsOK, SharedOK, NEW c \in Callers, OpenBlob(c)
    PROVE  CallsOK' /\ SharedOK'
<1>1. /\ callers[c].at \notin Downloading /\ "idle" \notin Downloading /\ "idle" \in Spots
  BY DEF OpenBlob, Downloading, Spots
<1>2. callers[c] \in CallType /\ callers[c].hash \in Hashes
  BY DEF CallsOK, CallType
<1> DEFINE what == IF callers[c].hash # "none" /\ files[callers[c].hash] # "none"
                   THEN callers[c].hash ELSE "failed"
<1>3. what \in AnswerSet
  BY <1>2 DEF Hashes, AnswerSet
<1>4. callers' = [callers EXCEPT ![c] = Told(callers[c], what)]
  BY DEF OpenBlob
<1> HIDE DEF what
<1>5. Told(callers[c], what) \in CallType /\ Told(callers[c], what).at = "idle"
      /\ Told(callers[c], what).first = FALSE
  BY <1>1, <1>2, <1>3 DEF CallType, Told
<1> DEFINE n == Told(callers[c], what)
<1>6. /\ n \in CallType /\ n.at \notin Downloading /\ n.first = FALSE
      /\ callers' = [callers EXCEPT ![c] = n]
  BY <1>1, <1>4, <1>5
<1>7. UNCHANGED <<atts, files, writer, serving, spared>>
  BY DEF OpenBlob
<1> HIDE DEF n
<1> QED
  BY <1>1, <1>6, <1>7, Strolls

\* A client asks again.
LEMMA AsksAgain ==
    ASSUME CallsOK, SharedOK, NEW c \in Callers, AskAgain(c)
    PROVE  CallsOK' /\ SharedOK'
<1>1. callers[c].at \notin Downloading /\ "idle" \notin Downloading
  BY DEF AskAgain, Downloading
<1> QED
  BY <1>1, IdlerFacts, Strolls DEF AskAgain

\* A client goes away.
LEMMA LeavesIt ==
    ASSUME CallsOK, SharedOK, NEW c \in Callers, Leaves(c)
    PROVE  CallsOK' /\ SharedOK'
<1>1. SharedOK' /\ KeepsDurable
  BY SharedRests DEF Leaves
<1> DEFINE n == [callers[c] EXCEPT !.alive = FALSE]
<1>2. callers[c] \in CallType /\ FALSE \in BOOLEAN
  BY DEF CallsOK
<1>3. /\ n \in CallType /\ n.at = callers[c].at /\ n.att = callers[c].att
      /\ n.ref = callers[c].ref /\ n.first = callers[c].first
  BY <1>2 DEF CallType
<1>4. callers' = [callers EXCEPT ![c] = n]
  BY DEF Leaves
<1> HIDE DEF n
<1>5. writer = c <=> n.at \in Writing
  BY <1>3 DEF CallsOK, LockHeld
<1>6. n.first = TRUE <=> n.at \in Downloading
  BY <1>3 DEF CallsOK, OneFlight
<1>7. n.at = "mark" => files[Bytes[n.ref]] = "durable"
  BY <1>3 DEF CallsOK, MarksDurable
<1>8. n.at \in Downloading \ {"reload"} => atts[n.att].hash = "none"
  BY <1>3 DEF CallsOK, FetchesMissing
<1>9. CallsOK'
  BY <1>1, <1>3, <1>4, <1>5, <1>6, <1>7, <1>8, OneMoves DEF Leaves
<1> QED
  BY <1>1, <1>9

\* The adapter of the account comes.
LEMMA Registers ==
    ASSUME CallsOK, SharedOK, RegisterAdapter
    PROVE  CallsOK' /\ SharedOK'
<1>1. CallsOK'
  BY DEF RegisterAdapter, CallsOK, LockHeld, MarksDurable, OneFlight, FetchesMissing
<1>2. SharedOK'
  BY DEF RegisterAdapter, SharedOK, DownloadedHasBytes
<1> QED
  BY <1>1, <1>2

\* An edit gives a row that has no blob another reference.
LEMMA Recorded ==
    ASSUME CallsOK, SharedOK, NEW a \in Attachments, NEW r \in Refs, RecordInboundAttachment(a, r)
    PROVE  CallsOK' /\ SharedOK'
<1>1. spared \in SpareType /\ spared.edits > 0 /\ spared' = [spared EXCEPT !.edits = spared.edits - 1]
  BY DEF SharedOK, SpareType, RecordInboundAttachment
<1>2. spared.edits - 1 \in 0..MaxEdits
  BY <1>1, MediaAssumption DEF SpareType
<1>3. spared' \in SpareType
  BY <1>1, <1>2 DEF SpareType
<1>4. atts' \in AttsType /\ \A e \in Attachments : atts'[e].hash = atts[e].hash
  <2>1. CASE atts[a].hash # "none"
    BY <2>1 DEF SharedOK, RecordInboundAttachment
  <2>2. CASE atts[a].hash = "none"
    <3> DEFINE row == [atts[a] EXCEPT !.ref = r]
    <3>1. row \in [ref : Refs, hash : Hashes] /\ row.hash = atts[a].hash
      BY DEF SharedOK, AttsType
    <3>2. atts' = [atts EXCEPT ![a] = row]
      BY <2>2 DEF RecordInboundAttachment
    <3> HIDE DEF row
    <3> QED
      BY <3>1, <3>2 DEF SharedOK, AttsType
  <2> QED
    BY <2>1, <2>2
<1>5. SharedOK'
  BY <1>3, <1>4 DEF SharedOK, DownloadedHasBytes, RecordInboundAttachment
<1>6. \A c \in Callers : callers[c].att \in Attachments
  BY DEF CallsOK, CallType
<1>7. CallsOK'
  BY <1>4, <1>6 DEF CallsOK, LockHeld, MarksDurable, OneFlight, FetchesMissing,
                    RecordInboundAttachment
<1> QED
  BY <1>5, <1>7

\* The power fails: what was synced stays, every request is gone.
LEMMA PowerFails ==
    ASSUME CallsOK, SharedOK, PowerLoss
    PROVE  CallsOK' /\ SharedOK'
<1>1. spared \in SpareType /\ spared.losses > 0
      /\ spared' = [spared EXCEPT !.losses = spared.losses - 1]
  BY DEF SharedOK, SpareType, PowerLoss
<1>2. spared.losses - 1 \in 0..MaxLosses
  BY <1>1, MediaAssumption DEF SpareType
<1>3. spared' \in SpareType
  BY <1>1, <1>2 DEF SpareType
<1>4. PICK lost \in SUBSET {b \in AllBytes : files[b] = "linked"} :
         files' = [b \in AllBytes |-> IF b \in lost THEN "none" ELSE files[b]]
  BY DEF PowerLoss
<1>5. files' \in [AllBytes -> {"none", "linked", "durable"}] /\ KeepsDurable
  BY <1>4 DEF SharedOK, KeepsDurable
<1>6. \A a \in Attachments : atts[a].hash \in Hashes
  BY DEF SharedOK, AttsType
<1>7. DownloadedHasBytes'
  BY <1>5, <1>6 DEF SharedOK, DownloadedHasBytes, KeepsDurable, PowerLoss, Hashes
<1>8. SharedOK'
  BY <1>3, <1>5, <1>7 DEF SharedOK, PowerLoss
<1>9. callers' \in [Callers -> CallType] /\ writer' = Nobody
      /\ \A c \in Callers : callers'[c] = Idler
  BY IdlerFacts DEF PowerLoss
<1>10. "idle" \notin Downloading /\ "idle" \notin Writing /\ "idle" # "mark"
  BY DEF Downloading, Writing
<1>11. LockHeld' /\ MarksDurable' /\ OneFlight' /\ FetchesMissing'
  BY <1>9, <1>10, IdlerFacts, MediaAssumption DEF LockHeld, MarksDurable, OneFlight, FetchesMissing
<1> QED
  BY <1>8, <1>9, <1>11 DEF CallsOK

\* A step that changes nothing.
LEMMA MediaStutters ==
    ASSUME CallsOK, SharedOK, UNCHANGED mediaVars
    PROVE  CallsOK' /\ SharedOK'
<1>1. CallsOK'
  BY DEF mediaVars, CallsOK, LockHeld, MarksDurable, OneFlight, FetchesMissing
<1>2. SharedOK'
  BY DEF mediaVars, SharedOK, DownloadedHasBytes
<1> QED
  BY <1>1, <1>2

\* At first nothing is stored and nobody asks.
LEMMA MediaStarts == MediaInit => CallsOK /\ SharedOK
<1> SUFFICES ASSUME MediaInit PROVE CallsOK /\ SharedOK
  OBVIOUS
<1>1. "none" \in Hashes
  BY DEF Hashes
<1>2. atts \in AttsType /\ \A a \in Attachments : atts[a].hash = "none"
  BY <1>1, MediaAssumption DEF MediaInit, AttsType
<1>3. spared \in SpareType
  BY MediaAssumption DEF MediaInit, SpareType
<1>4. SharedOK
  BY <1>2, <1>3 DEF MediaInit, SharedOK, DownloadedHasBytes
<1>5. "idle" \notin Downloading /\ "idle" \notin Writing /\ "idle" # "mark"
  BY DEF Downloading, Writing
<1>6. callers \in [Callers -> CallType] /\ \A c \in Callers : callers[c] = Idler
  BY IdlerFacts DEF MediaInit
<1>7. LockHeld /\ MarksDurable /\ OneFlight /\ FetchesMissing
  BY <1>5, <1>6, IdlerFacts, MediaAssumption
     DEF MediaInit, LockHeld, MarksDurable, OneFlight, FetchesMissing
<1> QED
  BY <1>4, <1>6, <1>7 DEF CallsOK, MediaInit

\* The inductive invariant holds of every step of the service: whoever asks for, downloads
\* and stores what, whichever operation fails and whenever the power does.
THEOREM MediaHolds == MediaSpec => []MediaInv
<1>1. MediaInit => CallsOK /\ SharedOK
  BY MediaStarts
<1>2. CallsOK /\ SharedOK /\ [MediaNext]_mediaVars => (CallsOK /\ SharedOK)'
  <2> SUFFICES ASSUME CallsOK, SharedOK, [MediaNext]_mediaVars PROVE CallsOK' /\ SharedOK'
    OBVIOUS
  <2>1. CASE UNCHANGED mediaVars
    BY <2>1, MediaStutters
  <2>2. ASSUME NEW c \in Callers, NEW a \in Attachments, StartResolve(c, a)
        PROVE  CallsOK' /\ SharedOK'
    BY <2>2, Starts
  <2>3. ASSUME NEW c \in Callers,
               JoinFlight(c) \/ Reload(c) \/ Fetch(c) \/ PutLocks(c) \/ PutStreams(c) \/ PutLinks(c)
        PROVE  CallsOK' /\ SharedOK'
    BY <2>3, Joins, Reloads, FetchStarts, Locks, Streams, Links
  <2>4. ASSUME NEW c \in Callers,
               \/ PutSyncs(c) \/ MarkDownloaded(c) \/ Reread(c) \/ OpenBlob(c)
               \/ AskAgain(c) \/ Leaves(c)
        PROVE  CallsOK' /\ SharedOK'
    BY <2>4, Syncs, Marked, Rereads, Opens, AsksAgain, LeavesIt
  <2>5. CASE RegisterAdapter \/ PowerLoss
    BY <2>5, Registers, PowerFails
  <2>6. ASSUME NEW a \in Attachments, NEW r \in Refs, RecordInboundAttachment(a, r)
        PROVE  CallsOK' /\ SharedOK'
    BY <2>6, Recorded
  <2> QED
    BY <2>1, <2>2, <2>3, <2>4, <2>5, <2>6 DEF MediaNext
<1>3. CallsOK /\ SharedOK => MediaInv
  BY MediaParts
<1> QED
  BY <1>1, <1>2, <1>3, PTL DEF MediaSpec

\* Every row, file and request has its type, and the lock of the store is held by the one
\* request that stores a file.
THEOREM MediaTypes == MediaSpec => []MediaTypeOK
<1>1. MediaInv => MediaTypeOK
  BY DEF MediaInv
<1> QED
  BY <1>1, MediaHolds, PTL

\* A row is marked downloaded when its blob is on the disk to stay: whatever download
\* failed half way, whoever stored the same bytes before and whenever the power fails.
THEOREM MarkedIsStored == MediaSpec => []DownloadedHasBytes
<1>1. MediaInv => DownloadedHasBytes
  BY DEF MediaInv
<1> QED
  BY <1>1, MediaHolds, PTL

\* Callers of one attachment share a download, and one that comes when it has landed does
\* not start another.
THEOREM DownloadsAreShared == MediaSpec => []FetchedOnce
<1>1. MediaInv => FetchedOnce
  <2> SUFFICES ASSUME MediaInv PROVE FetchedOnce
    OBVIOUS
  <2>1. \A c \in Callers : callers[c].first \in BOOLEAN
    BY DEF MediaInv, MediaTypeOK
  <2>2. \A c \in Callers : callers[c].first => callers[c].first = TRUE
    BY <2>1
  <2> QED
    BY <2>2 DEF MediaInv, OneFlight, FetchesMissing, FetchedOnce
<1> QED
  BY <1>1, MediaHolds, PTL

-----------------------------------------------------------------------------
(* GoogleSession *)

GenType    == [at : Places, jar : {0} \cup Jars, saved : {0} \cup Jars,
               admits : BOOLEAN, ready : BOOLEAN, ends : Endings]
ThreadAt   == {"idle", "ready", "publish", "save", "write", "handle", "finish", "call", "report"}
ThreadEv   == Events \cup {"send"}
ThreadType == [at : ThreadAt, g : 0..MaxGens, ev : ThreadEv, jar : {0} \cup Jars]
PushType   == [jar : {0} \cup Jars, read : BOOLEAN, by : {"browser", "repair"}]
SlotType   == [run : 0..MaxGens, starting : BOOLEAN]
AppType    == [generation : 0..MaxGens, client : 0..MaxGens]
StatusType == [connected : BOOLEAN, expired : BOOLEAN, repair : BOOLEAN]
SupStates  == {"wants", "starts", "runs", "repairs", "blocked", "parking", "parked"}

\* Where a generation is in the slot of the adapter.
InSlot == {"loaded", "listening", "closing"}

\* The slot is reserved for the newest generation or taken by the one that runs, and a
\* generation that was not started or has been given up does not have it.
SlotOK ==
    /\ current.starting = TRUE => current.run = 0
    /\ \A g \in Gens :
          /\ g > count => gens[g].at = "none"
          /\ gens[g].at = "loaded" => current.run = g \/ (current.starting = TRUE /\ g = count)
          /\ gens[g].at \in {"listening", "closing"} => current.run = g
          /\ gens[g].at \in {"none", "gone"} => current.run # g
          /\ gens[g].admits = TRUE => current.run = g
          /\ gens[g].at = "closing" => gens[g].admits # TRUE

\* What is installed in the application is what has the slot.
AppOK == app.generation = current.run /\ app.client \in {0, app.generation}

\* A callback under way belongs to the run that has the slot.
CallbacksOK == \A t \in Threads : thread[t].at \notin {"idle", "call"} =>
    /\ thread[t].g = current.run /\ current.run # 0
    /\ thread[t].at = "publish" => gens[current.run].ready = TRUE

\* What is called connected runs and has been ready.
StatusOK == status.connected = TRUE => current.run # 0 /\ gens[current.run].ready = TRUE

\* What has lost its client is ending, or has the goroutine that will end it.
ClientOK == app.generation # 0 /\ app.client = 0 => Ending(app.generation)

SessionInv == SessionTypeOK /\ SlotOK /\ AppOK /\ CallbacksOK /\ StatusOK /\ ClientOK

\* The types, by what actions change together.
BooksOK ==
    /\ file \in {0} \cup Jars /\ offered \in Jars /\ push \in PushType
    /\ sup \in SupStates /\ reconnect \in [queued : BOOLEAN, recent : BOOLEAN]
    /\ called \in 0..MaxCalled /\ parks \in 0..MaxParks /\ misjudged \in BOOLEAN
RunsTyped ==
    /\ gens \in [Gens -> GenType] /\ count \in 0..MaxGens /\ current \in SlotType
    /\ app \in AppType /\ status \in StatusType /\ thread \in [Threads -> ThreadType]
SlotsOK == RunsTyped /\ SlotOK /\ AppOK /\ CallbacksOK /\ StatusOK

\* The invariant is what it says of the books and of the slot.
LEMMA SessionParts == SessionInv <=> BooksOK /\ SlotsOK /\ ClientOK
  BY DEF SessionInv, SessionTypeOK, BooksOK, SlotsOK, RunsTyped, GenType, ThreadType, ThreadAt, ThreadEv,
         PushType, SlotType, AppType, StatusType, SupStates

\* A step that leaves the slot and the installed generation: no generation comes or goes,
\* what is published comes from a callback that was about to, a callback goes on or belongs
\* to the run in the slot.
LEMMA SlotRests ==
    ASSUME SlotsOK, current' = current, count' = count,
           app' \in AppType, app'.generation = app.generation, app'.client \in {0, app.client},
           gens' \in [Gens -> GenType],
           \A g \in Gens :
              /\ \/ gens'[g].at = gens[g].at
                 \/ current.run = g /\ gens[g].at \in InSlot /\ gens'[g].at \in InSlot
              /\ gens[g].ready = TRUE => gens'[g].ready = TRUE
              /\ gens'[g].admits = TRUE => gens[g].admits = TRUE
              /\ gens'[g].at = "closing" => gens[g].at = "closing" \/ gens'[g].admits # TRUE,
           status' \in StatusType,
           status'.connected = TRUE =>
              status.connected = TRUE \/ \E t \in Threads : thread[t].at = "publish",
           thread' \in [Threads -> ThreadType],
           \A t \in Threads :
              \/ thread'[t] = thread[t]
              \/ thread'[t].at \in {"idle", "call"}
              \/ /\ thread'[t].g = current.run /\ current.run # 0
                 /\ thread'[t].at = "publish" => gens'[current.run].ready = TRUE
    PROVE  SlotsOK'
<1>1. RunsTyped'
  BY DEF SlotsOK, RunsTyped
<1>2. SlotOK'
  <2> SUFFICES ASSUME NEW g \in Gens
               PROVE  /\ g > count => gens'[g].at = "none"
                      /\ gens'[g].at = "loaded" =>
                            current.run = g \/ (current.starting = TRUE /\ g = count)
                      /\ gens'[g].at \in {"listening", "closing"} => current.run = g
                      /\ gens'[g].at \in {"none", "gone"} => current.run # g
                      /\ gens'[g].admits = TRUE => current.run = g
                      /\ gens'[g].at = "closing" => gens'[g].admits # TRUE
    BY DEF SlotsOK, SlotOK
  <2>1. /\ g > count => gens[g].at = "none"
        /\ gens[g].at = "loaded" => current.run = g \/ (current.starting = TRUE /\ g = count)
        /\ gens[g].at \in {"listening", "closing"} => current.run = g
        /\ gens[g].at \in {"none", "gone"} => current.run # g
        /\ gens[g].admits = TRUE => current.run = g
        /\ gens[g].at = "closing" => gens[g].admits # TRUE
    BY DEF SlotsOK, SlotOK
  <2>2. CASE gens'[g].at = gens[g].at
    BY <2>1, <2>2
  <2>3. CASE current.run = g /\ gens[g].at \in InSlot /\ gens'[g].at \in InSlot
    BY <2>1, <2>3 DEF InSlot
  <2> QED
    BY <2>2, <2>3
<1>3. AppOK'
  BY DEF SlotsOK, AppOK
<1>4. current.run # 0 => current.run \in Gens
  BY SessionAssumption DEF SlotsOK, RunsTyped, SlotType, Gens
<1>5. CallbacksOK'
  <2> SUFFICES ASSUME NEW t \in Threads, thread'[t].at \notin {"idle", "call"}
               PROVE  /\ thread'[t].g = current.run /\ current.run # 0
                      /\ thread'[t].at = "publish" => gens'[current.run].ready = TRUE
    BY DEF CallbacksOK
  <2>1. CASE thread'[t] = thread[t]
    <3>1. /\ thread[t].g = current.run /\ current.run # 0
          /\ thread[t].at = "publish" => gens[current.run].ready = TRUE
      BY <2>1 DEF SlotsOK, CallbacksOK
    <3> QED
      BY <2>1, <3>1, <1>4
  <2>2. CASE thread'[t] # thread[t]
    BY <2>2
  <2> QED
    BY <2>1, <2>2
<1>6. StatusOK'
  <2> SUFFICES ASSUME status'.connected = TRUE
               PROVE  current.run # 0 /\ gens'[current.run].ready = TRUE
    BY DEF StatusOK
  <2>1. current.run # 0 /\ gens[current.run].ready = TRUE
    BY DEF SlotsOK, StatusOK, CallbacksOK
  <2> QED
    BY <2>1, <1>4
<1> QED
  BY <1>1, <1>2, <1>3, <1>5, <1>6 DEF SlotsOK

\* A step that leaves all that the slot is about.
LEMMA SlotStays ==
    ASSUME SlotsOK, UNCHANGED <<gens, count, current, app, status, thread>>
    PROVE  SlotsOK'
  BY DEF SlotsOK, RunsTyped, SlotOK, AppOK, CallbacksOK, StatusOK

\* The first reason to finish counts, and closes admission.
LEMMA FinishesFacts ==
    ASSUME gens \in [Gens -> GenType], NEW g \in Gens, NEW why \in Endings
    PROVE  /\ Finishes(g, why) \in [Gens -> GenType]
           /\ \A h \in Gens :
                 /\ Finishes(g, why)[h].at = gens[h].at
                 /\ Finishes(g, why)[h].ready = gens[h].ready
                 /\ Finishes(g, why)[h].admits = TRUE => gens[h].admits = TRUE
<1> DEFINE n == [gens[g] EXCEPT !.ends = why, !.admits = FALSE]
<1>1. gens[g] \in GenType /\ FALSE \in BOOLEAN
  OBVIOUS
<1>2. n \in GenType /\ n.at = gens[g].at /\ n.ready = gens[g].ready /\ n.admits = FALSE
  BY <1>1 DEF GenType
<1> HIDE DEF n
<1>3. CASE gens[g].ends = "none"
  <2>1. Finishes(g, why) = [gens EXCEPT ![g] = n]
    BY <1>3 DEF Finishes, n
  <2> QED
    BY <1>2, <2>1
<1>4. CASE gens[g].ends # "none"
  <2>1. Finishes(g, why) = gens
    BY <1>4 DEF Finishes
  <2> QED
    BY <2>1
<1> QED
  BY <1>3, <1>4

\* What is said of the connection never becomes more than it was when a run is lost.
LEMMA LossFacts ==
    ASSUME status \in StatusType, NEW g
    PROVE  /\ Lost(g) \in StatusType /\ (Lost(g).connected = TRUE => status.connected = TRUE)
           /\ AuthExpired(g) \in StatusType
           /\ (AuthExpired(g).connected = TRUE => status.connected = TRUE)
           /\ Released(g) \in StatusType
           /\ (Released(g).connected = TRUE => status.connected = TRUE)
           /\ app.generation = g => Released(g).connected = FALSE
<1>1. TRUE \in BOOLEAN /\ FALSE \in BOOLEAN
  OBVIOUS
<1>2. /\ [status EXCEPT !.connected = FALSE] \in StatusType
      /\ [status EXCEPT !.connected = FALSE].connected = FALSE
  BY <1>1 DEF StatusType
<1>3. /\ [status EXCEPT !.connected = FALSE, !.expired = TRUE] \in StatusType
      /\ [status EXCEPT !.connected = FALSE, !.expired = TRUE].connected = FALSE
  BY <1>1 DEF StatusType
<1>4. Lost(g) \in {status, [status EXCEPT !.connected = FALSE]}
  BY DEF Lost
<1>5. AuthExpired(g) \in {status, [status EXCEPT !.connected = FALSE, !.expired = TRUE]}
  BY DEF AuthExpired
<1>6. /\ Released(g) \in {status, [status EXCEPT !.connected = FALSE]}
      /\ app.generation = g => Released(g) = [status EXCEPT !.connected = FALSE]
  BY DEF Released
<1> QED
  BY <1>2, <1>3, <1>4, <1>5, <1>6
\* Refused credentials: a reason to finish, and nothing is published.
LEMMA UnauthorizedFacts ==
    ASSUME SlotsOK, NEW g \in Gens, Unauthorized(g)
    PROVE  /\ gens' \in [Gens -> GenType]
           /\ \A h \in Gens :
                 /\ gens'[h].at = gens[h].at /\ gens'[h].ready = gens[h].ready
                 /\ gens'[h].admits = TRUE => gens[h].admits = TRUE
           /\ status' \in StatusType /\ (status'.connected = TRUE => status.connected = TRUE)
<1>1. PICK why \in {"expired", "blocked"} :
         /\ gens' = Finishes(g, why)
         /\ status' = [AuthExpired(g) EXCEPT !.repair = AuthExpired(g).repair \/ why = "blocked"]
  BY DEF Unauthorized
<1>2. why \in Endings
  BY DEF Endings
<1>3. /\ gens' \in [Gens -> GenType]
      /\ \A h \in Gens :
            /\ gens'[h].at = gens[h].at /\ gens'[h].ready = gens[h].ready
            /\ gens'[h].admits = TRUE => gens[h].admits = TRUE
  BY <1>1, <1>2, FinishesFacts DEF SlotsOK, RunsTyped
<1>4. AuthExpired(g) \in StatusType /\ (AuthExpired(g).connected = TRUE => status.connected = TRUE)
  BY LossFacts DEF SlotsOK, RunsTyped
<1>5. (AuthExpired(g).repair \/ why = "blocked") \in BOOLEAN
  OBVIOUS
<1>6. status' \in StatusType /\ status'.connected = AuthExpired(g).connected
  BY <1>1, <1>4, <1>5 DEF StatusType
<1> QED
  BY <1>3, <1>4, <1>6

\* A goroutine that is done, or that goes on.
LEMMA ThreadFacts ==
    ASSUME thread \in [Threads -> ThreadType], NEW t \in Threads
    PROVE  /\ Free \in ThreadType /\ Free.at = "idle"
           /\ \A at \in ThreadAt :
                 /\ [thread[t] EXCEPT !.at = at] \in ThreadType
                 /\ [thread[t] EXCEPT !.at = at].at = at
                 /\ [thread[t] EXCEPT !.at = at].g = thread[t].g
                 /\ MovesOn(t, at) => thread' = [thread EXCEPT ![t] = [thread[t] EXCEPT !.at = at]]
<1>1. thread[t] \in ThreadType
  OBVIOUS
<1>2. "idle" \in ThreadAt /\ "data" \in ThreadEv /\ 0 \in 0..MaxGens /\ 0 \in {0} \cup Jars
  BY SessionAssumption DEF ThreadAt, ThreadEv, Events
<1>3. Free \in ThreadType /\ Free.at = "idle"
  BY <1>2 DEF Free, ThreadType
<1>4. ASSUME NEW at \in ThreadAt
      PROVE  /\ [thread[t] EXCEPT !.at = at] \in ThreadType
             /\ [thread[t] EXCEPT !.at = at].at = at
             /\ [thread[t] EXCEPT !.at = at].g = thread[t].g
             /\ MovesOn(t, at) => thread' = [thread EXCEPT ![t] = [thread[t] EXCEPT !.at = at]]
  BY <1>1 DEF ThreadType, MovesOn
<1> QED
  BY <1>3, <1>4

\* A step of one goroutine: the rest of the slot rests.
LEMMA OneThread ==
    ASSUME SlotsOK, NEW t \in Threads, NEW n \in ThreadType, thread' = [thread EXCEPT ![t] = n],
           current' = current, count' = count,
           app' \in AppType, app'.generation = app.generation, app'.client \in {0, app.client},
           gens' \in [Gens -> GenType],
           \A g \in Gens :
              /\ gens'[g].at = gens[g].at
              /\ gens[g].ready = TRUE => gens'[g].ready = TRUE
              /\ gens'[g].admits = TRUE => gens[g].admits = TRUE,
           status' \in StatusType,
           status'.connected = TRUE => status.connected = TRUE \/ thread[t].at = "publish",
           \/ n.at \in {"idle", "call"}
           \/ /\ n.g = current.run /\ current.run # 0
              /\ n.at = "publish" => gens'[current.run].ready = TRUE
    PROVE  SlotsOK'
<1>1. thread' \in [Threads -> ThreadType] /\ thread'[t] = n
      /\ \A u \in Threads : u # t => thread'[u] = thread[u]
  BY DEF SlotsOK, RunsTyped
<1>2. \A u \in Threads :
         \/ thread'[u] = thread[u]
         \/ thread'[u].at \in {"idle", "call"}
         \/ /\ thread'[u].g = current.run /\ current.run # 0
            /\ thread'[u].at = "publish" => gens'[current.run].ready = TRUE
  BY <1>1
<1>3. \A g \in Gens :
         /\ \/ gens'[g].at = gens[g].at
            \/ current.run = g /\ gens[g].at \in InSlot /\ gens'[g].at \in InSlot
         /\ gens[g].ready = TRUE => gens'[g].ready = TRUE
         /\ gens'[g].admits = TRUE => gens[g].admits = TRUE
         /\ gens'[g].at = "closing" => gens[g].at = "closing" \/ gens'[g].admits # TRUE
  <2> TAKE g \in Gens
  <2>1. gens'[g].at = gens[g].at
    OBVIOUS
  <2>2. gens[g].ready = TRUE => gens'[g].ready = TRUE
    OBVIOUS
  <2>3. gens'[g].admits = TRUE => gens[g].admits = TRUE
    OBVIOUS
  <2>4. gens'[g].at = "closing" => gens[g].at = "closing"
    BY <2>1
  <2> QED
    BY <2>1, <2>2, <2>3, <2>4
<1>4. status'.connected = TRUE =>
         status.connected = TRUE \/ \E u \in Threads : thread[u].at = "publish"
  OBVIOUS
<1> HIDE DEF Gens
<1> QED
  BY <1>1, <1>2, <1>3, <1>4, SlotRests

\* The books as they are.
LEMMA BooksRest ==
    ASSUME BooksOK, file' \in {0} \cup Jars, offered' = offered, push' = push, sup' \in SupStates,
           reconnect' = reconnect, called' \in 0..MaxCalled, parks' = parks, misjudged' \in BOOLEAN
    PROVE  BooksOK'
  BY DEF BooksOK

\* One more event or send.
LEMMA CalledFacts ==
    ASSUME BooksOK, called < MaxCalled, called' = called + 1
    PROVE  called' \in 0..MaxCalled
  BY SessionAssumption DEF BooksOK

\* The slot of the application, given up or without its client.
LEMMA AppFacts ==
    ASSUME SlotsOK
    PROVE  /\ app \in AppType /\ app.generation = current.run /\ app.client \in {0, app.generation}
           /\ [app EXCEPT !.client = 0] \in AppType
           /\ [app EXCEPT !.client = 0].generation = app.generation
           /\ [app EXCEPT !.client = 0].client = 0
           /\ current \in SlotType /\ current.run \in 0..MaxGens
           /\ current.run # 0 => current.run \in Gens
<1>1. app \in AppType /\ current \in SlotType /\ 0 \in 0..MaxGens
  BY SessionAssumption DEF SlotsOK, RunsTyped
<1>2. /\ [app EXCEPT !.client = 0] \in AppType
      /\ [app EXCEPT !.client = 0].generation = app.generation
      /\ [app EXCEPT !.client = 0].client = 0
  BY <1>1 DEF AppType
<1>3. current.run \in 0..MaxGens /\ (current.run # 0 => current.run \in Gens)
  BY <1>1, SessionAssumption DEF SlotType, Gens
<1> QED
  BY <1>1, <1>2, <1>3 DEF SlotsOK, AppOK

\* A generation gets another state: nobody else's changes.
LEMMA GenGoes ==
    ASSUME gens \in [Gens -> GenType], NEW g \in Gens, NEW n \in GenType,
           gens' = [gens EXCEPT ![g] = n]
    PROVE  gens' \in [Gens -> GenType] /\ gens'[g] = n
           /\ \A h \in Gens : h # g => gens'[h] = gens[h]
  OBVIOUS

-----------------------------------------------------------------------------
(* GoogleSession: one step for each action. *)

\* The slot is reserved for a generation that is loaded, or refused.
LEMMA GenerationStarts ==
    ASSUME BooksOK, SlotsOK, StartGeneration
    PROVE  BooksOK' /\ SlotsOK'
<1>1. sup' \in SupStates
  BY DEF StartGeneration, SupStates
<1>2. BooksOK'
  BY <1>1, BooksRest DEF StartGeneration, BooksOK
<1>3. CASE UNCHANGED <<current, status, gens, count, app>>
  BY <1>2, <1>3, SlotStays DEF StartGeneration
<1>4. CASE /\ current = [run |-> 0, starting |-> FALSE] /\ file # 0 /\ count < MaxGens
           /\ current' = [current EXCEPT !.starting = TRUE]
           /\ count' = count + 1
           /\ gens' = [gens EXCEPT ![count + 1] = [Fresh EXCEPT !.at = "loaded", !.jar = file]]
           /\ UNCHANGED <<status, app>>
  <2> DEFINE g == count + 1
             n == [Fresh EXCEPT !.at = "loaded", !.jar = file]
  <2>1. count \in 0..MaxGens /\ g \in Gens /\ g \in 0..MaxGens /\ g # 0 /\ g > count
        /\ (\A h \in Gens : h > g => h > count) /\ (\A h \in Gens : h # g /\ h > count => h > g)
    BY <1>4, SessionAssumption DEF SlotsOK, RunsTyped, Gens
  <2>2. /\ "loaded" \in Places /\ FALSE \in BOOLEAN /\ "none" \in Endings
        /\ 0 \in {0} \cup Jars /\ file \in {0} \cup Jars
    BY DEF Places, Endings, BooksOK
  <2>3. n \in GenType /\ n.at = "loaded" /\ n.admits = FALSE
    BY <2>2 DEF Fresh, GenType
  <2>4. current' \in SlotType /\ current'.run = 0 /\ current'.starting = TRUE /\ current.run = 0
        /\ current.starting = FALSE
    <3>1. current \in SlotType /\ current.run = 0 /\ current.starting = FALSE /\ TRUE \in BOOLEAN
      BY <1>4 DEF SlotsOK, RunsTyped
    <3> QED
      BY <1>4, <3>1 DEF SlotType
  <2> HIDE DEF n, g
  <2>5. gens' = [gens EXCEPT ![g] = n] /\ count' = g
    BY <1>4 DEF n, g
  <2>6. gens' \in [Gens -> GenType] /\ gens'[g] = n /\ \A h \in Gens : h # g => gens'[h] = gens[h]
    BY <2>1, <2>3, <2>5, GenGoes DEF SlotsOK, RunsTyped
  <2>7. RunsTyped'
    BY <1>4, <2>1, <2>4, <2>5, <2>6 DEF SlotsOK, RunsTyped, StartGeneration
  <2>8. \A h \in Gens : h # 0
    BY SessionAssumption DEF Gens
  <2>9. SlotOK'
    <3> SUFFICES ASSUME NEW h \in Gens
                 PROVE  /\ h > g => gens'[h].at = "none"
                        /\ gens'[h].at = "loaded" => h = g
                        /\ gens'[h].at \notin {"listening", "closing"}
                        /\ gens'[h].admits # TRUE
      BY <2>4, <2>5, <2>8 DEF SlotOK
    <3>1. CASE h = g
      <4>1. ~(g > g)
        BY <2>1
      <4> QED
        BY <3>1, <2>3, <2>6, <4>1
    <3>2. CASE h # g
      <4>1. gens'[h] = gens[h]
        BY <3>2, <2>6
      <4>2. current.run # h
        BY <2>4, <2>8
      <4> QED
        BY <4>1, <4>2, <2>1, <2>4, <2>8 DEF SlotsOK, SlotOK
    <3> QED
      BY <3>1, <3>2
  <2>10. AppOK' /\ CallbacksOK' /\ StatusOK'
    BY <1>4, <2>4 DEF SlotsOK, AppOK, CallbacksOK, StatusOK, StartGeneration
  <2> QED
    BY <1>2, <2>7, <2>9, <2>10 DEF SlotsOK
<1> QED
  BY <1>3, <1>4 DEF StartGeneration

\* The new generation takes the slot and is installed.
LEMMA Installs ==
    ASSUME BooksOK, SlotsOK, NEW g \in Gens, Install(g)
    PROVE  BooksOK' /\ SlotsOK'
<1>1. BooksOK'
  BY BooksRest DEF Install, BooksOK
<1>2. gens[g].at = "loaded" /\ current.starting = TRUE /\ current.run = 0
  BY DEF Install, SlotsOK, SlotOK, RunsTyped, SlotType
<1> DEFINE n == [gens[g] EXCEPT !.admits = TRUE]
<1>3. gens[g] \in GenType /\ TRUE \in BOOLEAN
  BY DEF SlotsOK, RunsTyped
<1>4. n \in GenType /\ n.at = "loaded" /\ n.admits = TRUE
  BY <1>2, <1>3 DEF GenType
<1>5. gens' = [gens EXCEPT ![g] = n]
  BY DEF Install
<1> HIDE DEF n
<1>6. gens' \in [Gens -> GenType] /\ gens'[g] = n /\ \A h \in Gens : h # g => gens'[h] = gens[h]
  BY <1>4, <1>5, GenGoes DEF SlotsOK, RunsTyped
<1>7. g \in 0..MaxGens /\ g # 0 /\ 0 \in 0..MaxGens /\ \A h \in Gens : h # 0
  BY SessionAssumption DEF Gens
<1>8. /\ current' \in SlotType /\ current'.run = g /\ current'.starting = FALSE
      /\ app' \in AppType /\ app'.generation = g /\ app'.client = g
  BY <1>7 DEF Install, SlotType, AppType
<1>9. status' \in StatusType /\ status'.connected = FALSE
  BY DEF Install, SlotsOK, RunsTyped, StatusType
<1>10. RunsTyped'
  BY <1>6, <1>8, <1>9 DEF Install, SlotsOK, RunsTyped
<1>11. SlotOK'
  <2> SUFFICES ASSUME NEW h \in Gens
               PROVE  /\ h > count => gens'[h].at = "none"
                      /\ gens'[h].at \in {"loaded", "listening", "closing"} => h = g
                      /\ gens'[h].at \in {"none", "gone"} => h # g
                      /\ gens'[h].admits = TRUE => h = g
                      /\ gens'[h].at = "closing" => gens'[h].admits # TRUE
    BY <1>8 DEF SlotOK, Install
  <2>1. CASE h = g
    BY <2>1, <1>2, <1>4, <1>6 DEF SlotsOK, SlotOK
  <2>2. CASE h # g
    <3>1. gens'[h] = gens[h] /\ current.run # h
      BY <2>2, <1>2, <1>6, <1>7
    <3>2. current.run # g /\ g = count
      BY <1>2, <1>7 DEF SlotsOK, SlotOK
    <3> QED
      BY <2>2, <3>1, <3>2, <1>2 DEF SlotsOK, SlotOK
  <2> QED
    BY <2>1, <2>2
<1>12. \A t \in Threads : thread'[t].at \in {"idle", "call"}
  BY <1>2 DEF Install, SlotsOK, CallbacksOK
<1>13. AppOK' /\ CallbacksOK' /\ StatusOK'
  BY <1>8, <1>9, <1>12 DEF AppOK, CallbacksOK, StatusOK
<1> QED
  BY <1>1, <1>10, <1>11, <1>13 DEF SlotsOK

\* The generation in the slot goes on within it.
LEMMA InSlotGoes ==
    ASSUME SlotsOK, NEW g \in Gens, current.run = g, gens[g].at \in InSlot,
           NEW n \in GenType, n.at \in InSlot, n.ready = gens[g].ready,
           n.admits = TRUE => gens[g].admits = TRUE, n.at = "closing" => n.admits # TRUE,
           gens' = [gens EXCEPT ![g] = n], UNCHANGED <<current, count, app, thread>>,
           status' \in StatusType, status'.connected = TRUE => status.connected = TRUE
    PROVE  SlotsOK'
<1>1. gens' \in [Gens -> GenType] /\ gens'[g] = n /\ \A h \in Gens : h # g => gens'[h] = gens[h]
  BY GenGoes DEF SlotsOK, RunsTyped
<1>2. app' \in AppType /\ thread' \in [Threads -> ThreadType] /\ app'.client \in {0, app.client}
  BY DEF SlotsOK, RunsTyped
<1>3. \A h \in Gens :
         /\ \/ gens'[h].at = gens[h].at
            \/ current.run = h /\ gens[h].at \in InSlot /\ gens'[h].at \in InSlot
         /\ gens[h].ready = TRUE => gens'[h].ready = TRUE
         /\ gens'[h].admits = TRUE => gens[h].admits = TRUE
         /\ gens'[h].at = "closing" => gens[h].at = "closing" \/ gens'[h].admits # TRUE
  <2> TAKE h \in Gens
  <2>1. CASE h = g
    <3>1. gens'[h] = n /\ gens[h].at \in InSlot /\ gens'[h].at \in InSlot
      BY <2>1, <1>1
    <3> QED
      BY <2>1, <3>1
  <2>2. CASE h # g
    BY <2>2, <1>1
  <2> QED
    BY <2>1, <2>2
<1>4. \A t \in Threads : thread'[t] = thread[t]
  OBVIOUS
<1> QED
  BY <1>1, <1>2, <1>3, <1>4, SlotRests

\* The client listens, or does not get to it.
LEMMA ConnectsIt ==
    ASSUME BooksOK, SlotsOK, NEW g \in Gens, Connects(g)
    PROVE  BooksOK' /\ SlotsOK'
<1>1. sup' \in SupStates
  BY DEF Connects, SupStates, BooksOK
<1>2. BooksOK'
  BY <1>1, BooksRest DEF Connects, BooksOK
<1>3. /\ current.run = g /\ gens[g].at = "loaded" /\ gens[g] \in GenType /\ FALSE \in BOOLEAN
      /\ {"loaded", "listening", "closing"} \subseteq InSlot
      /\ {"listening", "closing"} \subseteq Places
      /\ {"stop", "transient", "expired", "blocked"} \subseteq Endings
      /\ status \in StatusType
  BY DEF Connects, SlotsOK, RunsTyped, InSlot, Places, Endings
<1>4. ASSUME NEW why \in {"transient", "expired", "blocked"},
             gens' = [gens EXCEPT ![g].at = "closing", ![g].admits = FALSE, ![g].ends = why],
             status' \in FailureStatus(g, why)
      PROVE  SlotsOK'
  <2> DEFINE n == [gens[g] EXCEPT !.at = "closing", !.admits = FALSE, !.ends = why]
  <2>1. "closing" \in Places /\ why \in Endings
    BY <1>3
  <2>2. n \in GenType /\ n.at = "closing" /\ n.ready = gens[g].ready /\ n.admits = FALSE
    BY <1>3, <2>1 DEF GenType
  <2>3. gens' = [gens EXCEPT ![g] = n]
    BY <1>4 DEF SlotsOK, RunsTyped
  <2> HIDE DEF n
  <2>4. status' \in StatusType /\ (status'.connected = TRUE => status.connected = TRUE)
    <3>1. PICK r \in {Lost(g), AuthExpired(g), status}, flag \in BOOLEAN :
             status' = r \/ status' = [r EXCEPT !.repair = flag]
      <4>1. CASE why = "transient" \/ why = "expired"
        BY <1>4, <4>1 DEF FailureStatus
      <4>2. CASE why = "blocked"
        <5>1. status' = [AuthExpired(g) EXCEPT !.repair = TRUE]
              \/ status' = [status EXCEPT !.repair = status.repair \/ file # 0]
          BY <1>4, <4>2 DEF FailureStatus
        <5>2. (status.repair \/ file # 0) \in BOOLEAN
          BY <1>3 DEF StatusType
        <5> QED
          BY <5>1, <5>2
      <4> QED
        BY <4>1, <4>2
    <3>2. r \in StatusType /\ (r.connected = TRUE => status.connected = TRUE)
      BY <1>3, <3>1, LossFacts
    <3> QED
      BY <3>1, <3>2 DEF StatusType
  <2> QED
    BY <1>3, <2>2, <2>3, <2>4, InSlotGoes DEF Connects
<1>5. ASSUME gens' = [gens EXCEPT ![g].at = "listening",
                                  ![g].ends = IF sup = "starts" \/ @ # "none" THEN @ ELSE "stop"],
             UNCHANGED status
      PROVE  SlotsOK'
  <2> DEFINE e == IF sup = "starts" \/ gens[g].ends # "none" THEN gens[g].ends ELSE "stop"
             n == [gens[g] EXCEPT !.at = "listening", !.ends = e]
  <2>1. e \in Endings /\ "listening" \in Places
    BY <1>3 DEF GenType
  <2>2. gens' = [gens EXCEPT ![g] = [gens[g] EXCEPT !.at = "listening", !.ends = e]]
    BY <1>5 DEF SlotsOK, RunsTyped
  <2> HIDE DEF e
  <2>3. n \in GenType /\ n.at = "listening" /\ n.ready = gens[g].ready /\ n.admits = gens[g].admits
    BY <1>3, <2>1 DEF GenType
  <2>4. gens' = [gens EXCEPT ![g] = n]
    BY <2>2
  <2> HIDE DEF n
  <2>5. status' \in StatusType /\ (status'.connected = TRUE => status.connected = TRUE)
        /\ n.at # "closing" /\ n.at \in InSlot /\ gens[g].at \in InSlot
    BY <1>3, <1>5, <2>3
  <2>6. UNCHANGED <<current, count, app, thread>>
    BY DEF Connects
  <2> QED
    BY <1>3, <2>3, <2>4, <2>5, <2>6, InSlotGoes
<1> QED
  BY <1>2, <1>4, <1>5 DEF Connects

\* A run that has a reason to finish closes.
LEMMA ClosesIt ==
    ASSUME BooksOK, SlotsOK, NEW g \in Gens, Closes(g)
    PROVE  BooksOK' /\ SlotsOK'
<1>1. BooksOK'
  BY BooksRest DEF Closes, BooksOK
<1>2. /\ gens[g].at = "listening" /\ current.run = g /\ gens[g] \in GenType /\ FALSE \in BOOLEAN
      /\ "closing" \in Places /\ {"listening", "closing"} \subseteq InSlot
  BY DEF Closes, SlotsOK, SlotOK, RunsTyped, Places, InSlot
<1> DEFINE n == [gens[g] EXCEPT !.at = "closing", !.admits = FALSE]
<1>3. n \in GenType /\ n.at = "closing" /\ n.ready = gens[g].ready /\ n.admits = FALSE
  BY <1>2 DEF GenType
<1>4. gens' = [gens EXCEPT ![g] = n] /\ UNCHANGED <<current, count, app, thread, status>>
  BY DEF Closes, SlotsOK, RunsTyped
<1>5. status' \in StatusType
  BY <1>4 DEF SlotsOK, RunsTyped
<1> HIDE DEF n
<1>6. SlotsOK'
  BY <1>2, <1>3, <1>4, <1>5, InSlotGoes
<1> QED
  BY <1>1, <1>6

\* A run gives up the slot when its callbacks have returned, and what it published with it.
LEMMA ReleasesIt ==
    ASSUME BooksOK, SlotsOK, NEW g \in Gens, Releases(g)
    PROVE  BooksOK' /\ SlotsOK'
<1>1. sup' \in SupStates
  BY DEF Releases, AfterEnd, SupStates, BooksOK
<1>2. BooksOK'
  BY <1>1, BooksRest DEF Releases, BooksOK
<1>3. /\ gens[g].at = "closing" /\ current.run = g /\ app.generation = g /\ g # 0 /\ g \in 0..MaxGens
      /\ gens[g] \in GenType /\ "gone" \in Places /\ current.starting # TRUE
  <2>1. g # 0 /\ g \in 0..MaxGens /\ "gone" \in Places /\ gens[g] \in GenType
    BY SessionAssumption DEF SlotsOK, RunsTyped, Places, Gens
  <2>2. gens[g].at = "closing" /\ current.run = g /\ app.generation = g
    BY DEF Releases, SlotsOK, SlotOK, AppOK
  <2> QED
    BY <2>1, <2>2 DEF SlotsOK, SlotOK
<1> DEFINE n == [gens[g] EXCEPT !.at = "gone"]
<1>4. n \in GenType /\ n.at = "gone" /\ n.admits = gens[g].admits
  BY <1>3 DEF GenType
<1>5. gens' = [gens EXCEPT ![g] = n]
  BY DEF Releases, SlotsOK, RunsTyped
<1> HIDE DEF n
<1>6. gens' \in [Gens -> GenType] /\ gens'[g] = n /\ \A h \in Gens : h # g => gens'[h] = gens[h]
  BY <1>4, <1>5, GenGoes DEF SlotsOK, RunsTyped
<1>7. current' \in SlotType /\ current'.run = 0 /\ current'.starting # TRUE
  <2>1. current \in SlotType /\ 0 \in 0..MaxGens /\ current' = [current EXCEPT !.run = 0]
    BY <1>3, SessionAssumption DEF Releases, SlotsOK, RunsTyped
  <2> QED
    BY <1>3, <2>1 DEF SlotType
<1>8. app' \in AppType /\ app'.generation = 0 /\ app'.client = 0
  BY <1>3, SessionAssumption DEF Releases, AppType
<1>9. status' \in StatusType /\ status'.connected = FALSE
  BY <1>3, LossFacts DEF Releases, SlotsOK, RunsTyped
<1>10. RunsTyped'
  BY <1>6, <1>7, <1>8, <1>9 DEF Releases, SlotsOK, RunsTyped
<1>11. \A t \in Threads : thread[t].at \in {"idle", "call"}
  BY <1>3 DEF Releases, Joined, Callbacks, SlotsOK, CallbacksOK
<1>12. \A h \in Gens : h # 0
  BY SessionAssumption DEF Gens
<1>13. SlotOK'
  <2> SUFFICES ASSUME NEW h \in Gens
               PROVE  /\ h > count => gens'[h].at = "none"
                      /\ gens'[h].at \in {"none", "gone"} /\ gens'[h].admits # TRUE
    BY <1>7, <1>12 DEF SlotOK, Releases
  <2>1. CASE h = g
    <3>1. ~(g > count) /\ gens[g].admits # TRUE
      BY <1>3 DEF SlotsOK, SlotOK, Releases
    <3> QED
      BY <2>1, <3>1, <1>4, <1>6
  <2>2. CASE h # g
    <3>1. gens'[h] = gens[h] /\ current.run # h /\ gens[h].at \in Places
      BY <2>2, <1>3, <1>6 DEF SlotsOK, RunsTyped, GenType
    <3> QED
      BY <3>1, <1>3 DEF SlotsOK, SlotOK, Places
  <2> QED
    BY <2>1, <2>2
<1>14. AppOK' /\ CallbacksOK' /\ StatusOK'
  BY <1>7, <1>8, <1>9, <1>11 DEF AppOK, CallbacksOK, StatusOK, Releases
<1> QED
  BY <1>2, <1>10, <1>13, <1>14 DEF SlotsOK
\* A callback under way is of the run in the slot.
LEMMA CallbackRuns ==
    ASSUME SlotsOK, NEW t \in Threads, thread[t].at \notin {"idle", "call"}
    PROVE  /\ thread[t] \in ThreadType /\ thread[t].g = current.run /\ thread[t].g \in Gens
           /\ thread[t].at = "publish" => gens[current.run].ready = TRUE
<1>1. thread[t].g = current.run /\ current.run # 0
      /\ (thread[t].at = "publish" => gens[current.run].ready = TRUE)
  BY DEF SlotsOK, CallbacksOK
<1> QED
  BY <1>1, AppFacts DEF SlotsOK, RunsTyped

\* A step of one goroutine that leaves the generations, the application and its status.
LEMMA OneThreadOnly ==
    ASSUME SlotsOK, NEW t \in Threads, NEW n \in ThreadType, thread' = [thread EXCEPT ![t] = n],
           UNCHANGED <<gens, count, current, app>>,
           status' \in StatusType,
           status'.connected = TRUE => status.connected = TRUE \/ thread[t].at = "publish",
           \/ n.at \in {"idle", "call"}
           \/ /\ n.g = current.run /\ current.run # 0
              /\ n.at = "publish" => gens[current.run].ready = TRUE
    PROVE  SlotsOK'
<1>1. gens' \in [Gens -> GenType] /\ gens' = gens /\ current' = current /\ count' = count
      /\ app' \in AppType /\ app'.generation = app.generation /\ app'.client \in {0, app.client}
  BY DEF SlotsOK, RunsTyped
<1>2. \A g \in Gens : /\ gens'[g].at = gens[g].at
                      /\ gens[g].ready = TRUE => gens'[g].ready = TRUE
                      /\ gens'[g].admits = TRUE => gens[g].admits = TRUE
  BY <1>1
<1>3. \/ n.at \in {"idle", "call"}
      \/ /\ n.g = current.run /\ current.run # 0
         /\ n.at = "publish" => gens'[current.run].ready = TRUE
  BY <1>1
<1> QED
  BY <1>1, <1>2, <1>3, OneThread

\* The library calls back while the run admits it.
LEMMA Admits ==
    ASSUME BooksOK, SlotsOK, NEW t \in Threads, NEW g \in Gens, NEW ev \in Events,
           Admitted(t, g, ev)
    PROVE  BooksOK' /\ SlotsOK'
<1>1. BooksOK'
  BY CalledFacts, BooksRest DEF Admitted, BooksOK
<1> DEFINE at == IF ev = "data" THEN "ready" ELSE IF ev = "refresh" THEN "save" ELSE "handle"
           n == [at |-> at, g |-> g, ev |-> ev, jar |-> 0]
<1>2. g = current.run /\ current.run # 0 /\ g \in 0..MaxGens /\ 0 \in {0} \cup Jars
  <2>1. g = current.run
    BY DEF Admitted, SlotsOK, SlotOK, RunsTyped, GenType
  <2> QED
    BY <2>1, SessionAssumption DEF Gens
<1>3. at \in ThreadAt /\ at # "publish" /\ ev \in ThreadEv
  BY DEF ThreadAt, ThreadEv
<1>4. thread' = [thread EXCEPT ![t] = n]
  BY DEF Admitted
<1> HIDE DEF at
<1>5. n \in ThreadType /\ n.at # "publish" /\ n.g = current.run
  BY <1>2, <1>3 DEF ThreadType
<1> HIDE DEF n
<1>6. UNCHANGED <<gens, count, current, app, status>> /\ status' \in StatusType
  BY DEF Admitted, SlotsOK, RunsTyped
<1>7. SlotsOK'
  BY <1>2, <1>4, <1>5, <1>6, OneThreadOnly
<1> QED
  BY <1>1, <1>7

\* The first callback with data looks whether its generation is current.
LEMMA LooksReadyIt ==
    ASSUME BooksOK, SlotsOK, NEW t \in Threads, LooksReady(t)
    PROVE  BooksOK' /\ SlotsOK'
<1>1. BooksOK'
  BY BooksRest DEF LooksReady, BooksOK
<1>2. thread[t].at = "ready"
  BY DEF LooksReady
<1>3. /\ thread[t] \in ThreadType /\ thread[t].g = current.run /\ thread[t].g \in Gens
      /\ current.run # 0
  BY <1>2, CallbackRuns DEF SlotsOK, CallbacksOK
<1> DEFINE g == thread[t].g
           at == IF ~gens[g].ready /\ IsCurrent(g) THEN "publish" ELSE "save"
           n == [thread[t] EXCEPT !.at = at]
           o == [gens[g] EXCEPT !.ready = TRUE]
<1>4. MovesOn(t, at) /\ gens' = [gens EXCEPT ![g].ready = TRUE]
  BY DEF LooksReady
<1>5. at \in ThreadAt
  BY DEF ThreadAt
<1> HIDE DEF at
<1>6. n \in ThreadType /\ n.g = current.run /\ thread' = [thread EXCEPT ![t] = n]
  BY <1>3, <1>4, <1>5, ThreadFacts DEF SlotsOK, RunsTyped
<1>7. gens[g] \in GenType /\ TRUE \in BOOLEAN
  BY <1>3 DEF SlotsOK, RunsTyped
<1>8. o \in GenType /\ o.at = gens[g].at /\ o.admits = gens[g].admits /\ o.ready = TRUE
  BY <1>7 DEF GenType
<1>9. gens' = [gens EXCEPT ![g] = o]
  BY <1>4
<1> HIDE DEF n, o
<1>10. /\ gens' \in [Gens -> GenType] /\ gens'[g] = o
       /\ \A h \in Gens : h # g => gens'[h] = gens[h]
  BY <1>3, <1>8, <1>9, GenGoes DEF SlotsOK, RunsTyped
<1>11. \A h \in Gens : /\ gens'[h].at = gens[h].at
                       /\ gens[h].ready = TRUE => gens'[h].ready = TRUE
                       /\ gens'[h].admits = TRUE => gens[h].admits = TRUE
  <2> TAKE h \in Gens
  <2>1. CASE h = g
    BY <2>1, <1>8, <1>10
  <2>2. CASE h # g
    BY <2>2, <1>10
  <2> QED
    BY <2>1, <2>2
<1>12. gens'[current.run].ready = TRUE
  BY <1>3, <1>8, <1>10
<1>13. UNCHANGED <<count, current, app, status>> /\ status' \in StatusType
       /\ app' \in AppType /\ app'.client \in {0, app.client}
  BY DEF LooksReady, SlotsOK, RunsTyped
<1>14. SlotsOK'
  BY <1>3, <1>6, <1>10, <1>11, <1>12, <1>13, OneThread
<1> QED
  BY <1>1, <1>14

\* Readiness is published by a callback that its run waits for.
LEMMA Publishes ==
    ASSUME BooksOK, SlotsOK, NEW t \in Threads, PublishesReady(t)
    PROVE  BooksOK' /\ SlotsOK'
<1>1. BooksOK'
  BY BooksRest DEF PublishesReady, BooksOK
<1>2. thread[t].at = "publish"
  BY DEF PublishesReady
<1>3. /\ thread[t] \in ThreadType /\ thread[t].g = current.run /\ current.run # 0
  BY <1>2, CallbackRuns DEF SlotsOK, CallbacksOK
<1> DEFINE n == [thread[t] EXCEPT !.at = "save"]
<1>4. "save" \in ThreadAt /\ MovesOn(t, "save")
  BY DEF ThreadAt, PublishesReady
<1>5. n \in ThreadType /\ n.at = "save" /\ n.g = current.run /\ thread' = [thread EXCEPT ![t] = n]
  BY <1>3, <1>4, ThreadFacts DEF SlotsOK, RunsTyped
<1> HIDE DEF n
<1>6. status' \in StatusType /\ UNCHANGED <<gens, count, current, app>>
  BY DEF PublishesReady, StatusType
<1>7. SlotsOK'
  BY <1>2, <1>3, <1>5, <1>6, OneThreadOnly
<1> QED
  BY <1>1, <1>7

\* The client's copy is taken.
LEMMA Snapshots ==
    ASSUME BooksOK, SlotsOK, NEW t \in Threads, SnapshotSession(t)
    PROVE  BooksOK' /\ SlotsOK'
<1>1. BooksOK'
  BY BooksRest DEF SnapshotSession, BooksOK
<1>2. thread[t].at = "save"
  BY DEF SnapshotSession
<1>3. /\ thread[t] \in ThreadType /\ thread[t].g = current.run /\ thread[t].g \in Gens
      /\ current.run # 0
  BY <1>2, CallbackRuns DEF SlotsOK, CallbacksOK
<1>4. UNCHANGED <<gens, count, current, app, status>> /\ status' \in StatusType
  BY DEF SnapshotSession, SlotsOK, RunsTyped
<1>5. CASE thread' = [thread EXCEPT ![t] = Free]
  BY <1>4, <1>5, ThreadFacts, OneThreadOnly, <1>1 DEF SlotsOK, RunsTyped
<1>6. CASE thread' = [thread EXCEPT ![t].at = "write", ![t].jar = gens[thread[t].g].jar]
  <2> DEFINE j == gens[thread[t].g].jar
             n == [thread[t] EXCEPT !.at = "write", !.jar = j]
  <2>1. j \in {0} \cup Jars /\ "write" \in ThreadAt
    BY <1>3 DEF SlotsOK, RunsTyped, GenType, ThreadAt
  <2>2. thread' = [thread EXCEPT ![t] = [thread[t] EXCEPT !.at = "write", !.jar = j]]
    BY <1>6 DEF SlotsOK, RunsTyped
  <2> HIDE DEF j
  <2>3. n \in ThreadType /\ n.at = "write" /\ n.g = thread[t].g
    BY <1>3, <2>1 DEF ThreadType
  <2>4. thread' = [thread EXCEPT ![t] = n]
    BY <2>2
  <2> HIDE DEF n
  <2>5. SlotsOK'
    BY <1>3, <1>4, <2>3, <2>4, OneThreadOnly
  <2> QED
    BY <1>1, <2>5
<1> QED
  BY <1>5, <1>6 DEF SnapshotSession

\* The copy is saved over the file.
LEMMA Saves ==
    ASSUME BooksOK, SlotsOK, NEW t \in Threads, SaveSession(t)
    PROVE  BooksOK' /\ SlotsOK'
<1>1. thread[t].at = "write"
  BY DEF SaveSession
<1>2. thread[t] \in ThreadType /\ thread[t].g \in Gens
  BY <1>1, CallbackRuns
<1>3. thread[t].jar \in {0} \cup Jars
  BY <1>2 DEF ThreadType
<1>4. BooksOK'
  BY <1>3, BooksRest DEF SaveSession, BooksOK
<1> DEFINE g == thread[t].g
           o == [gens[g] EXCEPT !.saved = thread[t].jar]
<1>5. gens[g] \in GenType
  BY <1>2 DEF SlotsOK, RunsTyped
<1>6. o \in GenType /\ o.at = gens[g].at /\ o.admits = gens[g].admits /\ o.ready = gens[g].ready
  BY <1>3, <1>5 DEF GenType
<1>7. gens' = [gens EXCEPT ![g] = o]
  BY DEF SaveSession
<1> HIDE DEF o
<1>8. /\ gens' \in [Gens -> GenType] /\ gens'[g] = o
      /\ \A h \in Gens : h # g => gens'[h] = gens[h]
  BY <1>2, <1>6, <1>7, GenGoes DEF SlotsOK, RunsTyped
<1>9. \A h \in Gens : /\ gens'[h].at = gens[h].at
                      /\ gens[h].ready = TRUE => gens'[h].ready = TRUE
                      /\ gens'[h].admits = TRUE => gens[h].admits = TRUE
  <2> TAKE h \in Gens
  <2>1. CASE h = g
    BY <2>1, <1>6, <1>8
  <2>2. CASE h # g
    BY <2>2, <1>8
  <2> QED
    BY <2>1, <2>2
<1>10. /\ UNCHANGED <<count, current, app, status>> /\ status' \in StatusType
       /\ app' \in AppType /\ app'.client \in {0, app.client}
       /\ thread' = [thread EXCEPT ![t] = Free]
  BY DEF SaveSession, SlotsOK, RunsTyped
<1>11. Free \in ThreadType /\ Free.at = "idle"
  BY ThreadFacts DEF SlotsOK, RunsTyped
<1>12. SlotsOK'
  BY <1>8, <1>9, <1>10, <1>11, OneThread
<1> QED
  BY <1>4, <1>12

\* The run ends a generation, or only says that it is lost.
LEMMA Ends ==
    ASSUME SlotsOK, NEW t \in Threads, thread' = [thread EXCEPT ![t] = Free],
           UNCHANGED <<count, current>>,
           app' \in {app, [app EXCEPT !.client = 0]},
           gens' \in [Gens -> GenType],
           \A h \in Gens : /\ gens'[h].at = gens[h].at /\ gens'[h].ready = gens[h].ready
                           /\ gens'[h].admits = TRUE => gens[h].admits = TRUE,
           status' \in StatusType, status'.connected = TRUE => status.connected = TRUE
    PROVE  SlotsOK'
<1>1. Free \in ThreadType /\ Free.at = "idle"
  BY ThreadFacts DEF SlotsOK, RunsTyped
<1>2. app' \in AppType /\ app'.generation = app.generation /\ app'.client \in {0, app.client}
  BY AppFacts
<1>3. \A h \in Gens : /\ gens'[h].at = gens[h].at
                      /\ gens[h].ready = TRUE => gens'[h].ready = TRUE
                      /\ gens'[h].admits = TRUE => gens[h].admits = TRUE
  OBVIOUS
<1> QED
  BY <1>1, <1>2, <1>3, OneThread

\* An event that ends the run.
LEMMA Handles ==
    ASSUME BooksOK, SlotsOK, NEW t \in Threads, HandleEnd(t)
    PROVE  BooksOK' /\ SlotsOK'
<1>2. BooksOK'
  BY BooksRest DEF HandleEnd, BooksOK
<1>3. thread[t].at = "handle"
  BY DEF HandleEnd
<1>4. thread[t].g \in Gens /\ "transient" \in Endings
  BY <1>3, CallbackRuns DEF Endings
<1> DEFINE g == thread[t].g
<1>5. /\ app' \in {app, [app EXCEPT !.client = 0]} /\ UNCHANGED <<count, current>>
      /\ thread' = [thread EXCEPT ![t] = Free]
  BY DEF HandleEnd
<1>6. CASE status' = Lost(g) /\ gens' = Finishes(g, "transient")
  <2>1. status' \in StatusType /\ (status'.connected = TRUE => status.connected = TRUE)
    BY <1>6, LossFacts DEF SlotsOK, RunsTyped
  <2>3. /\ gens' \in [Gens -> GenType]
        /\ \A h \in Gens :
              /\ gens'[h].at = gens[h].at /\ gens'[h].ready = gens[h].ready
              /\ gens'[h].admits = TRUE => gens[h].admits = TRUE
    BY <1>4, <1>6, FinishesFacts DEF SlotsOK, RunsTyped
  <2> QED
    BY <1>2, <1>5, <2>1, <2>3, Ends
<1>7. CASE Unauthorized(g)
  <2>1. /\ gens' \in [Gens -> GenType]
        /\ \A h \in Gens :
              /\ gens'[h].at = gens[h].at /\ gens'[h].ready = gens[h].ready
              /\ gens'[h].admits = TRUE => gens[h].admits = TRUE
        /\ status' \in StatusType /\ (status'.connected = TRUE => status.connected = TRUE)
    BY <1>4, <1>7, UnauthorizedFacts
  <2> QED
    BY <1>2, <1>5, <2>1, Ends
<1>8. SlotsOK'
  BY <1>6, <1>7 DEF HandleEnd
<1> QED
  BY <1>2, <1>8

\* A logout: the session and the client are forgotten, and then the run is ended.
LEMMA Forgets ==
    ASSUME BooksOK, SlotsOK, NEW t \in Threads, ForgetSession(t) \/ FinishLogout(t)
    PROVE  BooksOK' /\ SlotsOK'
<1>1. file' \in {0} \cup Jars
  BY DEF ForgetSession, FinishLogout, BooksOK
<1>2. BooksOK'
  BY <1>1, BooksRest DEF ForgetSession, FinishLogout, BooksOK
<1>3. thread[t].at \in {"handle", "finish"}
  BY DEF ForgetSession, FinishLogout
<1>4. /\ thread[t].g \in Gens /\ "blocked" \in Endings /\ thread[t].g = current.run
      /\ thread[t] \in ThreadType /\ current.run # 0
  BY <1>3, CallbackRuns DEF Endings, SlotsOK, CallbacksOK
<1> DEFINE g == thread[t].g
<1>5. CASE ForgetSession(t)
  <2> DEFINE n == [thread[t] EXCEPT !.at = "finish"]
  <2>1. "finish" \in ThreadAt /\ MovesOn(t, "finish")
    BY <1>5 DEF ForgetSession, ThreadAt
  <2>2. n \in ThreadType /\ n.at = "finish" /\ n.g = current.run /\ thread' = [thread EXCEPT ![t] = n]
    BY <1>4, <2>1, ThreadFacts DEF SlotsOK, RunsTyped
  <2> HIDE DEF n
  <2>3. app' \in AppType /\ app'.generation = app.generation /\ app'.client \in {0, app.client}
    BY <1>5, AppFacts DEF ForgetSession
  <2>4. status' \in StatusType /\ (status'.connected = TRUE => status.connected = TRUE)
    BY <1>5, LossFacts DEF ForgetSession, SlotsOK, RunsTyped
  <2>5. /\ UNCHANGED <<gens, current, count>> /\ gens' \in [Gens -> GenType]
    BY <1>5 DEF ForgetSession, SlotsOK, RunsTyped
  <2>6. \A h \in Gens : /\ gens'[h].at = gens[h].at
                        /\ gens[h].ready = TRUE => gens'[h].ready = TRUE
                        /\ gens'[h].admits = TRUE => gens[h].admits = TRUE
    BY <2>5
  <2>7. SlotsOK'
    BY <1>4, <2>2, <2>3, <2>4, <2>5, <2>6, OneThread
  <2> QED
    BY <1>2, <2>7
<1>6. CASE FinishLogout(t)
  <2>1. /\ gens' \in [Gens -> GenType]
        /\ \A h \in Gens :
              /\ gens'[h].at = gens[h].at /\ gens'[h].ready = gens[h].ready
              /\ gens'[h].admits = TRUE => gens[h].admits = TRUE
    BY <1>4, <1>6, FinishesFacts DEF FinishLogout, SlotsOK, RunsTyped
  <2>2. /\ app' \in {app, [app EXCEPT !.client = 0]} /\ UNCHANGED <<count, current, status>>
        /\ thread' = [thread EXCEPT ![t] = Free]
    BY <1>6 DEF FinishLogout
  <2>3. status' \in StatusType /\ (status'.connected = TRUE => status.connected = TRUE)
    BY <2>2 DEF SlotsOK, RunsTyped
  <2> QED
    BY <1>2, <2>1, <2>2, <2>3, Ends
<1> QED
  BY <1>5, <1>6

\* A send holds on to the client that is installed.
LEMMA SendBegins ==
    ASSUME BooksOK, SlotsOK, NEW t \in Threads, BeginSend(t)
    PROVE  BooksOK' /\ SlotsOK'
<1>1. BooksOK'
  BY CalledFacts, BooksRest DEF BeginSend, BooksOK
<1> DEFINE n == [at |-> "call", g |-> app.client, ev |-> "send", jar |-> 0]
<1>2. app.client \in 0..MaxGens /\ "call" \in ThreadAt /\ "send" \in ThreadEv /\ 0 \in {0} \cup Jars
  BY DEF SlotsOK, RunsTyped, AppType, ThreadAt, ThreadEv
<1>3. n \in ThreadType /\ n.at = "call"
  BY <1>2 DEF ThreadType
<1>4. /\ thread' = [thread EXCEPT ![t] = n] /\ UNCHANGED <<gens, count, current, app, status>>
      /\ status' \in StatusType
  BY DEF BeginSend, SlotsOK, RunsTyped
<1> HIDE DEF n
<1>5. SlotsOK'
  BY <1>3, <1>4, OneThreadOnly
<1> QED
  BY <1>1, <1>5

\* It returns.
LEMMA SendEnds ==
    ASSUME BooksOK, SlotsOK, NEW t \in Threads, SendReturns(t)
    PROVE  BooksOK' /\ SlotsOK'
<1>1. BooksOK'
  BY BooksRest DEF SendReturns, BooksOK
<1>2. status \in StatusType /\ FALSE \in BOOLEAN
  BY DEF SlotsOK, RunsTyped
<1>3. status' \in StatusType /\ status'.connected = status.connected
  BY <1>2 DEF SendReturns, StatusType
<1>4. thread' = [thread EXCEPT ![t] = Free] /\ UNCHANGED <<gens, count, current, app>>
  BY DEF SendReturns
<1>5. SlotsOK'
  BY <1>3, <1>4, ThreadFacts, OneThreadOnly DEF SlotsOK, RunsTyped
<1> QED
  BY <1>1, <1>5

\* It fails for the credentials: the run of the time is told.
LEMMA SendIsRefused ==
    ASSUME BooksOK, SlotsOK, NEW t \in Threads, SendFails(t)
    PROVE  BooksOK' /\ SlotsOK'
<1>1. thread[t] \in ThreadType /\ thread[t].at = "call" /\ status \in StatusType
      /\ TRUE \in BOOLEAN /\ FALSE \in BOOLEAN
  BY DEF SendFails, SlotsOK, RunsTyped
<1>2. misjudged' \in BOOLEAN
  BY DEF SendFails, BooksOK
<1>3. BooksOK'
  BY <1>2, BooksRest DEF SendFails, BooksOK
<1>4. status' \in StatusType /\ (status'.connected = TRUE => status.connected = TRUE)
  <2>1. status' \in {status, [status EXCEPT !.connected = FALSE, !.expired = TRUE]}
    BY DEF SendFails
  <2>2. /\ [status EXCEPT !.connected = FALSE, !.expired = TRUE] \in StatusType
        /\ [status EXCEPT !.connected = FALSE, !.expired = TRUE].connected = FALSE
    BY <1>1 DEF StatusType
  <2> QED
    BY <1>1, <2>1, <2>2
<1>5. UNCHANGED <<gens, count, current, app>>
  BY DEF SendFails
<1>6. CASE thread' = [thread EXCEPT ![t] = Free]
  BY <1>3, <1>4, <1>5, <1>6, ThreadFacts, OneThreadOnly DEF SlotsOK, RunsTyped
<1>7. CASE /\ current.run # 0
           /\ thread' = [thread EXCEPT ![t].at = "report", ![t].g = current.run]
  <2> DEFINE n == [thread[t] EXCEPT !.at = "report", !.g = current.run]
  <2>1. "report" \in ThreadAt /\ current.run \in 0..MaxGens
    BY AppFacts DEF ThreadAt
  <2>2. n \in ThreadType /\ n.at = "report" /\ n.g = current.run
    BY <1>1, <2>1 DEF ThreadType
  <2>3. thread' = [thread EXCEPT ![t] = n]
    BY <1>7 DEF SlotsOK, RunsTyped
  <2> HIDE DEF n
  <2>4. SlotsOK'
    BY <1>4, <1>5, <1>7, <2>2, <2>3, OneThreadOnly
  <2> QED
    BY <1>3, <2>4
<1> QED
  BY <1>6, <1>7 DEF SendFails

\* It finds that the phone has dropped the device.
LEMMA SendUnlinked ==
    ASSUME BooksOK, SlotsOK, NEW t \in Threads, SendFindsUnlinked(t)
    PROVE  BooksOK' /\ SlotsOK'
<1>1. status \in StatusType /\ TRUE \in BOOLEAN /\ "blocked" \in Endings
  BY DEF SlotsOK, RunsTyped, Endings
<1>2. misjudged' \in BOOLEAN
  BY DEF SendFindsUnlinked, BooksOK
<1>3. BooksOK'
  BY <1>2, BooksRest DEF SendFindsUnlinked, BooksOK
<1>4. status' \in StatusType /\ status'.connected = status.connected
  BY <1>1 DEF SendFindsUnlinked, StatusType
<1>5. /\ gens' \in [Gens -> GenType]
      /\ \A h \in Gens : /\ gens'[h].at = gens[h].at /\ gens'[h].ready = gens[h].ready
                         /\ gens'[h].admits = TRUE => gens[h].admits = TRUE
  <2>1. CASE current.run # 0 /\ gens' = Finishes(current.run, "blocked")
    BY <1>1, <2>1, AppFacts, FinishesFacts DEF SlotsOK, RunsTyped
  <2>2. CASE gens' = gens
    BY <2>2 DEF SlotsOK, RunsTyped
  <2> QED
    BY <2>1, <2>2 DEF SendFindsUnlinked
<1>6. /\ app' \in {app, [app EXCEPT !.client = 0]} /\ UNCHANGED <<count, current>>
      /\ thread' = [thread EXCEPT ![t] = Free]
  BY DEF SendFindsUnlinked
<1>7. SlotsOK'
  BY <1>4, <1>5, <1>6, Ends
<1> QED
  BY <1>3, <1>7

\* The run hears of refused credentials.
LEMMA Reports ==
    ASSUME BooksOK, SlotsOK, NEW t \in Threads, ReportError(t)
    PROVE  BooksOK' /\ SlotsOK'
<1>1. BooksOK'
  BY BooksRest DEF ReportError, BooksOK
<1>2. thread[t].at = "report" /\ Unauthorized(thread[t].g)
  BY DEF ReportError
<1>3. thread[t].g \in Gens
  BY <1>2, CallbackRuns
<1>4. /\ app' \in {app, [app EXCEPT !.client = 0]} /\ UNCHANGED <<count, current>>
      /\ thread' = [thread EXCEPT ![t] = Free]
  BY DEF ReportError
<1>5. SlotsOK'
  BY <1>2, <1>3, <1>4, UnauthorizedFacts, Ends
<1> QED
  BY <1>1, <1>5

\* What the slot is about, but for what is said of repairs.
LEMMA OnlyRepair ==
    ASSUME SlotsOK, UNCHANGED <<gens, count, current, app, thread>>,
           NEW b \in BOOLEAN, status' = [status EXCEPT !.repair = b]
    PROVE  SlotsOK'
<1>1. status \in StatusType
  BY DEF SlotsOK, RunsTyped
<1>2. status' \in StatusType /\ status'.connected = status.connected
  BY <1>1 DEF StatusType
<1> QED
  BY <1>2 DEF SlotsOK, RunsTyped, SlotOK, AppOK, CallbacksOK, StatusOK

\* New cookies are read, then written.
LEMMA CookiesCome ==
    ASSUME BooksOK, SlotsOK, \/ \E by \in {"browser", "repair"} : ReadForUpdate(by)
                             \/ WriteUpdate
    PROVE  BooksOK' /\ SlotsOK'
<1>1. ASSUME NEW by \in {"browser", "repair"}, ReadForUpdate(by)
      PROVE  BooksOK' /\ SlotsOK'
  <2>1. offered + 1 \in Jars /\ TRUE \in BOOLEAN
    BY <1>1, SessionAssumption DEF ReadForUpdate, BooksOK, Jars
  <2>2. push' \in PushType /\ offered' \in Jars
    BY <1>1, <2>1 DEF ReadForUpdate, PushType
  <2>3. BooksOK'
    BY <1>1, <2>2 DEF ReadForUpdate, BooksOK
  <2> QED
    BY <1>1, <2>3, SlotStays DEF ReadForUpdate
<1>2. CASE WriteUpdate
  <2>1. push \in PushType /\ FALSE \in BOOLEAN /\ "browser" \in {"browser", "repair"} /\ TRUE \in BOOLEAN
    BY DEF BooksOK
  <2>2. file' \in {0} \cup Jars
    BY <1>2, <2>1 DEF WriteUpdate, PushType
  <2>3. push' \in PushType
    BY <1>2, <2>1 DEF WriteUpdate, NoPush, PushType
  <2>4. sup' \in SupStates
    BY <1>2, <2>1 DEF WriteUpdate, BooksOK, SupStates
  <2>8. reconnect' \in [queued : BOOLEAN, recent : BOOLEAN]
    <3>1. reconnect' = reconnect \/ reconnect' = [queued |-> TRUE, recent |-> TRUE]
      BY <1>2 DEF WriteUpdate
    <3>2. [queued |-> TRUE, recent |-> TRUE] \in [queued : BOOLEAN, recent : BOOLEAN]
      BY <2>1
    <3>3. reconnect \in [queued : BOOLEAN, recent : BOOLEAN]
      BY DEF BooksOK
    <3> QED
      BY <3>1, <3>2, <3>3
  <2>5. BooksOK'
    BY <1>2, <2>2, <2>3, <2>4, <2>8 DEF WriteUpdate, BooksOK
  <2>6. CASE UNCHANGED status
    BY <1>2, <2>5, <2>6, SlotStays DEF WriteUpdate
  <2>7. CASE status' = [status EXCEPT !.repair = FALSE]
    BY <1>2, <2>1, <2>5, <2>7, OnlyRepair DEF WriteUpdate
  <2> QED
    BY <1>2, <2>6, <2>7 DEF WriteUpdate
<1> QED
  BY <1>1, <1>2

\* The supervisor and the goroutine that applies new cookies.
LEMMA SupervisorActs ==
    ASSUME BooksOK, SlotsOK,
           \/ RepairFails \/ CoalescingPasses \/ Parks \/ StartsFromSession \/ Reconnects
    PROVE  BooksOK' /\ SlotsOK'
<1>1. CASE RepairFails
  <2>1. BooksOK'
    BY <1>1, BooksRest DEF RepairFails, BooksOK, SupStates
  <2>2. TRUE \in BOOLEAN
    OBVIOUS
  <2> QED
    BY <1>1, <2>1, <2>2, OnlyRepair DEF RepairFails
<1>2. CASE CoalescingPasses
  <2>1. reconnect' \in [queued : BOOLEAN, recent : BOOLEAN]
    BY <1>2 DEF CoalescingPasses, BooksOK
  <2>2. BooksOK'
    BY <1>2, <2>1 DEF CoalescingPasses, BooksOK
  <2> QED
    BY <1>2, <2>2, SlotStays DEF CoalescingPasses
<1>3. CASE Parks
  <2>1. BooksOK'
    BY <1>3, BooksRest DEF Parks, BooksOK, SupStates
  <2>2. "stop" \in Endings
    BY DEF Endings
  <2>3. /\ gens' \in [Gens -> GenType]
        /\ \A h \in Gens : /\ gens'[h].at = gens[h].at /\ gens'[h].ready = gens[h].ready
                           /\ gens'[h].admits = TRUE => gens[h].admits = TRUE
    <3>1. CASE current.run # 0 /\ gens' = Finishes(current.run, "stop")
      BY <2>2, <3>1, AppFacts, FinishesFacts DEF SlotsOK, RunsTyped
    <3>2. CASE gens' = gens
      BY <3>2 DEF SlotsOK, RunsTyped
    <3> QED
      BY <1>3, <3>1, <3>2 DEF Parks
  <2>4. /\ UNCHANGED <<count, current, app, status, thread>>
        /\ app \in AppType /\ status \in StatusType /\ thread \in [Threads -> ThreadType]
    BY <1>3 DEF Parks, SlotsOK, RunsTyped
  <2>5. \A h \in Gens :
           /\ \/ gens'[h].at = gens[h].at
              \/ current.run = h /\ gens[h].at \in InSlot /\ gens'[h].at \in InSlot
           /\ gens[h].ready = TRUE => gens'[h].ready = TRUE
           /\ gens'[h].admits = TRUE => gens[h].admits = TRUE
           /\ gens'[h].at = "closing" => gens[h].at = "closing" \/ gens'[h].admits # TRUE
    BY <2>3
  <2>6. SlotsOK'
    BY <2>3, <2>4, <2>5, SlotRests
  <2> QED
    BY <2>1, <2>6
<1>4. CASE StartsFromSession
  <2>1. parks' \in 0..MaxParks
    BY <1>4, SessionAssumption DEF StartsFromSession, BooksOK
  <2>2. reconnect' \in [queued : BOOLEAN, recent : BOOLEAN]
    BY <1>4 DEF StartsFromSession, BooksOK
  <2>3. sup' \in SupStates
    BY <1>4 DEF StartsFromSession, SupStates
  <2>4. BooksOK'
    BY <1>4, <2>1, <2>2, <2>3 DEF StartsFromSession, BooksOK
  <2> QED
    BY <1>4, <2>4, SlotStays DEF StartsFromSession
<1>5. CASE Reconnects
  <2>1. BooksOK'
    BY <1>5, CalledFacts, BooksRest DEF Reconnects, BooksOK, SupStates
  <2> QED
    BY <1>5, <2>1, SlotStays DEF Reconnects
<1> QED
  BY <1>1, <1>2, <1>3, <1>4, <1>5

\* At first nothing runs and nothing is installed.
LEMMA SessionStarts == SessionInit => BooksOK /\ SlotsOK
<1> SUFFICES ASSUME SessionInit PROVE BooksOK /\ SlotsOK
  OBVIOUS
<1>1. /\ 1 \in Jars /\ 0 \in {0} \cup Jars /\ 0 \in 0..MaxGens /\ 0 \in 0..MaxCalled /\ 0 \in 0..MaxParks
      /\ FALSE \in BOOLEAN /\ "none" \in Places /\ "none" \in Endings /\ "idle" \in ThreadAt
      /\ "data" \in ThreadEv /\ "wants" \in SupStates
  BY SessionAssumption DEF Jars, Places, Endings, ThreadAt, ThreadEv, SupStates, Events
<1>2. push \in PushType
  BY <1>1 DEF SessionInit, NoPush, PushType
<1>3. BooksOK
  BY <1>1, <1>2 DEF SessionInit, BooksOK
<1>4. Fresh \in GenType /\ Fresh.at = "none" /\ Fresh.admits = FALSE
  BY <1>1 DEF Fresh, GenType
<1>5. Free \in ThreadType /\ Free.at = "idle"
  BY <1>1 DEF Free, ThreadType
<1>6. current \in SlotType /\ current.run = 0 /\ current.starting = FALSE
  BY <1>1 DEF SessionInit, SlotType
<1>7. app \in AppType /\ app.generation = 0 /\ app.client = 0
  BY <1>1 DEF SessionInit, AppType
<1>8. status \in StatusType /\ status.connected = FALSE
  BY <1>1 DEF SessionInit, StatusType
<1>9. RunsTyped
  BY <1>1, <1>4, <1>5, <1>6, <1>7, <1>8 DEF SessionInit, RunsTyped
<1>10. \A g \in Gens : g # 0 /\ gens[g] = Fresh
  BY SessionAssumption DEF Gens, SessionInit
<1>11. SlotOK
  BY <1>4, <1>6, <1>10 DEF SlotOK
<1>12. AppOK /\ CallbacksOK /\ StatusOK
  BY <1>5, <1>6, <1>7, <1>8 DEF SessionInit, AppOK, CallbacksOK, StatusOK
<1> QED
  BY <1>3, <1>9, <1>11, <1>12 DEF SlotsOK

\* A reason to finish stays, and one is given where there was none.
LEMMA ReasonStays ==
    ASSUME gens \in [Gens -> GenType], NEW g \in Gens, NEW why \in Endings \ {"none"}
    PROVE  /\ Finishes(g, why)[g].ends # "none"
           /\ \A h \in Gens : gens[h].ends # "none" => Finishes(g, why)[h].ends # "none"
<1> DEFINE n == IF gens[g].ends = "none" THEN [gens[g] EXCEPT !.ends = why, !.admits = FALSE]
                ELSE gens[g]
<1>1. Finishes(g, why) = [gens EXCEPT ![g] = n]
  BY DEF Finishes
<1>2. n.ends # "none"
  <2>1. gens[g] \in GenType
    OBVIOUS
  <2> QED
    BY <2>1 DEF GenType
<1> HIDE DEF n
<1> QED
  BY <1>1, <1>2

\* No step takes back that a run is ending.
LEMMA ClientStays ==
    ASSUME SlotsOK, ClientOK, app' = app,
           \A h \in Gens : gens[h].ends # "none" => gens'[h].ends # "none",
           \A t \in Threads : thread[t].at = "finish" =>
              thread'[t] = thread[t] \/ gens'[thread[t].g].ends # "none"
    PROVE  ClientOK'
<1> SUFFICES ASSUME app.generation # 0, app.client = 0 PROVE Ending(app.generation)'
  BY DEF ClientOK
<1>1. app.generation \in Gens /\ Ending(app.generation)
  BY AppFacts DEF ClientOK
<1>2. CASE gens[app.generation].ends # "none"
  BY <1>1, <1>2 DEF Ending
<1>3. ASSUME NEW t \in Threads, thread[t].at = "finish", thread[t].g = app.generation
      PROVE  Ending(app.generation)'
  BY <1>3 DEF Ending
<1> QED
  BY <1>1, <1>2, <1>3 DEF Ending

\* One goroutine moves that is not about to end the run.
LEMMA ClientRests ==
    ASSUME SlotsOK, ClientOK, app' = app, NEW t \in Threads, thread[t].at # "finish", NEW n,
           thread' = [thread EXCEPT ![t] = n],
           \A h \in Gens : gens[h].ends # "none" => gens'[h].ends # "none"
    PROVE  ClientOK'
<1>1. \A u \in Threads : thread[u].at = "finish" => thread'[u] = thread[u]
  BY DEF SlotsOK, RunsTyped
<1> QED
  BY <1>1, ClientStays

\* The runs and the supervisor: only the end of a run takes it from the application.
LEMMA RunsKeepClient ==
    ASSUME SlotsOK, ClientOK,
           StartGeneration \/ \E g \in Gens : Install(g) \/ Connects(g) \/ Closes(g) \/ Releases(g)
    PROVE  ClientOK'
<1>1. gens \in [Gens -> GenType] /\ app.generation = current.run
  BY AppFacts DEF SlotsOK, RunsTyped
<1>2. CASE StartGeneration
  <2>1. app' = app /\ thread' = thread /\ (gens' = gens \/ current.run = 0)
    BY <1>2 DEF StartGeneration
  <2>2. CASE gens' = gens
    BY <2>1, <2>2, ClientStays
  <2>3. CASE current.run = 0
    BY <1>1, <2>1, <2>3 DEF ClientOK
  <2> QED
    BY <2>1, <2>2, <2>3
<1>3. ASSUME NEW g \in Gens, Install(g) PROVE ClientOK'
  <2>1. app'.client = g /\ g # 0
    BY <1>3, SessionAssumption DEF Install, Gens
  <2> QED
    BY <2>1 DEF ClientOK
<1>4. ASSUME NEW g \in Gens, Connects(g) \/ Closes(g) PROVE ClientOK'
  <2>1. app' = app /\ thread' = thread
    BY <1>4 DEF Connects, Closes
  <2>2. PICK n : gens' = [gens EXCEPT ![g] = n] /\ (gens[g].ends # "none" => n.ends # "none")
    <3>1. gens[g] \in GenType
      BY <1>1
    <3>2. CASE Closes(g)
      <4>1. gens' = [gens EXCEPT ![g] = [gens[g] EXCEPT !.at = "closing", !.admits = FALSE]]
        BY <3>2, <1>1 DEF Closes
      <4>2. [gens[g] EXCEPT !.at = "closing", !.admits = FALSE].ends = gens[g].ends
        BY <3>1 DEF GenType
      <4> QED
        BY <4>1, <4>2
    <3>3. ASSUME NEW e, e # "none" \/ e = gens[g].ends,
                 \/ gens' = [gens EXCEPT ![g] = [gens[g] EXCEPT !.at = "listening", !.ends = e]]
                 \/ gens' = [gens EXCEPT ![g] = [gens[g] EXCEPT !.at = "closing", !.admits = FALSE,
                                                               !.ends = e]]
          PROVE  \E n : gens' = [gens EXCEPT ![g] = n] /\ (gens[g].ends # "none" => n.ends # "none")
      <4>1. /\ [gens[g] EXCEPT !.at = "listening", !.ends = e].ends = e
            /\ [gens[g] EXCEPT !.at = "closing", !.admits = FALSE, !.ends = e].ends = e
        BY <3>1 DEF GenType
      <4> QED
        BY <3>3, <4>1
    <3>4. CASE Connects(g)
      <4>1. CASE gens' = [gens EXCEPT ![g].at = "listening",
                          ![g].ends = IF sup = "starts" \/ @ # "none" THEN @ ELSE "stop"]
        <5> DEFINE e == IF sup = "starts" \/ gens[g].ends # "none" THEN gens[g].ends ELSE "stop"
        <5>1. e # "none" \/ e = gens[g].ends
          OBVIOUS
        <5>2. gens' = [gens EXCEPT ![g] = [gens[g] EXCEPT !.at = "listening", !.ends = e]]
          BY <1>1, <4>1
        <5> HIDE DEF e
        <5> QED
          BY <3>3, <5>1, <5>2
      <4>2. ASSUME NEW why \in {"transient", "expired", "blocked"},
                   gens' = [gens EXCEPT ![g].at = "closing", ![g].admits = FALSE, ![g].ends = why]
            PROVE  \E n : gens' = [gens EXCEPT ![g] = n] /\ (gens[g].ends # "none" => n.ends # "none")
        <5>1. gens' = [gens EXCEPT ![g] = [gens[g] EXCEPT !.at = "closing", !.admits = FALSE,
                                                        !.ends = why]]
          BY <1>1, <4>2
        <5> QED
          BY <3>3, <4>2, <5>1
      <4> QED
        BY <3>4, <4>1, <4>2 DEF Connects
    <3> QED
      BY <1>4, <3>2, <3>4
  <2>3. \A h \in Gens : gens[h].ends # "none" => gens'[h].ends # "none"
    BY <1>1, <2>2
  <2> QED
    BY <2>1, <2>3, ClientStays
<1>5. ASSUME NEW g \in Gens, Releases(g) PROVE ClientOK'
  <2>1. CASE app' = [generation |-> 0, client |-> 0]
    BY <2>1 DEF ClientOK
  <2>2. CASE app' = app
    <3>1. gens' = [gens EXCEPT ![g] = [gens[g] EXCEPT !.at = "gone"]] /\ thread' = thread
      BY <1>1, <1>5 DEF Releases
    <3>2. [gens[g] EXCEPT !.at = "gone"].ends = gens[g].ends
      BY <1>1 DEF GenType
    <3>3. \A h \in Gens : gens[h].ends # "none" => gens'[h].ends # "none"
      BY <1>1, <3>1, <3>2
    <3> QED
      BY <2>2, <3>1, <3>3, ClientStays
  <2> QED
    BY <1>5, <2>1, <2>2 DEF Releases
<1> QED
  BY <1>2, <1>3, <1>4, <1>5

\* Callbacks, sends and what they report: only a logout takes the client, and it is then
\* about to end the run.
LEMMA ThreadsKeepClient ==
    ASSUME SlotsOK, ClientOK, NEW t \in Threads,
           \/ \E g \in Gens, ev \in Events : Admitted(t, g, ev)
           \/ LooksReady(t) \/ PublishesReady(t) \/ SnapshotSession(t) \/ SaveSession(t)
           \/ HandleEnd(t) \/ ForgetSession(t) \/ FinishLogout(t)
           \/ BeginSend(t) \/ SendReturns(t) \/ SendFails(t) \/ SendFindsUnlinked(t) \/ ReportError(t)
    PROVE  ClientOK'
<1>1. gens \in [Gens -> GenType] /\ thread \in [Threads -> ThreadType]
  BY DEF SlotsOK, RunsTyped
<1>2. /\ app.generation = current.run /\ (current.run # 0 => current.run \in Gens)
      /\ {"transient", "expired", "blocked"} \subseteq Endings \ {"none"}
      /\ [app EXCEPT !.client = 0].generation = app.generation
  BY AppFacts DEF Endings
<1>3. thread[t].at \notin {"idle", "call"} => thread[t].g = current.run /\ current.run \in Gens
  BY <1>2 DEF SlotsOK, CallbacksOK
<1>4. CASE /\ thread[t].at # "finish" /\ app' = app
           /\ \E n : thread' = [thread EXCEPT ![t] = n]
           /\ \A h \in Gens : gens[h].ends # "none" => gens'[h].ends # "none"
  BY <1>4, ClientRests
<1>5. CASE \/ \E g \in Gens, ev \in Events : Admitted(t, g, ev)
           \/ PublishesReady(t) \/ SnapshotSession(t) \/ BeginSend(t) \/ SendReturns(t) \/ SendFails(t)
  <2>1. thread[t].at # "finish" /\ app' = app /\ gens' = gens
    BY <1>5 DEF Admitted, PublishesReady, SnapshotSession, BeginSend, SendReturns, SendFails, Free
  <2>2. \E n : thread' = [thread EXCEPT ![t] = n]
    <3>1. thread' \in [Threads -> {thread'[u] : u \in Threads}]
          /\ \A u \in Threads : u # t => thread'[u] = thread[u]
      BY <1>1, <1>5 DEF Admitted, PublishesReady, SnapshotSession, BeginSend, SendReturns, SendFails,
                        MovesOn
    <3>2. thread' = [thread EXCEPT ![t] = thread'[t]]
      BY <1>1, <3>1
    <3> QED
      BY <3>2
  <2> QED
    BY <1>4, <2>1, <2>2
<1>6. CASE LooksReady(t) \/ SaveSession(t)
  <2>1. thread[t].at # "finish" /\ app' = app /\ thread[t].g \in Gens
    BY <1>3, <1>6 DEF LooksReady, SaveSession
  <2>2. \E n : thread' = [thread EXCEPT ![t] = n]
    <3>1. thread' \in [Threads -> {thread'[u] : u \in Threads}]
          /\ \A u \in Threads : u # t => thread'[u] = thread[u]
      BY <1>1, <1>6 DEF LooksReady, SaveSession, MovesOn
    <3>2. thread' = [thread EXCEPT ![t] = thread'[t]]
      BY <1>1, <3>1
    <3> QED
      BY <3>2
  <2>3. gens' = [gens EXCEPT ![thread[t].g] = gens'[thread[t].g]]
        /\ gens'[thread[t].g].ends = gens[thread[t].g].ends
    BY <1>1, <1>6, <2>1 DEF LooksReady, SaveSession, GenType
  <2> QED
    BY <1>1, <1>4, <2>1, <2>2, <2>3
<1>7. CASE HandleEnd(t) \/ ReportError(t)
  <2>1. thread[t].at # "finish" /\ app' = app /\ thread[t].g \in Gens
        /\ thread' = [thread EXCEPT ![t] = Free]
    BY <1>3, <1>7 DEF HandleEnd, ReportError
  <2>2. PICK why \in {"transient", "expired", "blocked"} : gens' = Finishes(thread[t].g, why)
    BY <1>7 DEF HandleEnd, ReportError, Unauthorized
  <2> QED
    BY <1>1, <1>2, <1>4, <2>1, <2>2, ReasonStays
<1>8. CASE SendFindsUnlinked(t)
  <2>1. thread[t].at # "finish" /\ app' = app /\ thread' = [thread EXCEPT ![t] = Free]
    BY <1>8 DEF SendFindsUnlinked
  <2>2. gens' = gens \/ (current.run # 0 /\ gens' = Finishes(current.run, "blocked"))
    BY <1>8 DEF SendFindsUnlinked
  <2> QED
    BY <1>1, <1>2, <1>4, <2>1, <2>2, ReasonStays
<1>9. CASE ForgetSession(t)
  <2>1. thread'[t].at = "finish" /\ thread'[t].g = current.run
    BY <1>1, <1>3, <1>9 DEF ForgetSession, MovesOn, ThreadType
  <2>2. app'.generation = current.run
    BY <1>2, <1>9 DEF ForgetSession
  <2> QED
    BY <2>1, <2>2 DEF ClientOK, Ending
<1>10. CASE FinishLogout(t)
  <2>1. /\ app' = app /\ thread[t].g \in Gens /\ gens' = Finishes(thread[t].g, "blocked")
        /\ \A u \in Threads : u # t => thread'[u] = thread[u]
    BY <1>1, <1>3, <1>10 DEF FinishLogout
  <2>2. gens'[thread[t].g].ends # "none"
        /\ \A h \in Gens : gens[h].ends # "none" => gens'[h].ends # "none"
    BY <1>1, <1>2, <2>1, ReasonStays
  <2> QED
    BY <2>1, <2>2, ClientStays
<1> QED
  BY <1>5, <1>6, <1>7, <1>8, <1>9, <1>10

\* The client goes with the end of the run, which every step then keeps.
LEMMA ClientKept ==
    ASSUME SlotsOK, ClientOK, [SessionNext]_sessionVars
    PROVE  ClientOK'
<1>1. CASE \/ UNCHANGED sessionVars
           \/ WriteUpdate \/ \E by \in {"browser", "repair"} : ReadForUpdate(by)
           \/ RepairFails \/ CoalescingPasses \/ StartsFromSession \/ Reconnects
  <2>1. UNCHANGED <<app, gens, thread>>
    BY <1>1 DEF sessionVars, WriteUpdate, ReadForUpdate, RepairFails, CoalescingPasses,
                StartsFromSession, Reconnects
  <2> QED
    BY <2>1, ClientStays
<1>2. CASE Parks
  <2>1. /\ UNCHANGED <<app, thread>>
        /\ gens' = gens \/ (current.run # 0 /\ gens' = Finishes(current.run, "stop"))
    BY <1>2 DEF Parks
  <2>2. "stop" \in Endings \ {"none"} /\ (current.run # 0 => current.run \in Gens)
        /\ gens \in [Gens -> GenType]
    BY AppFacts DEF Endings, SlotsOK, RunsTyped
  <2> QED
    BY <2>1, <2>2, ReasonStays, ClientStays
<1> QED
  BY <1>1, <1>2, RunsKeepClient, ThreadsKeepClient DEF SessionNext

\* The inductive invariant holds of every step of the connection.
THEOREM SessionHolds == SessionSpec => []SessionInv
<1>1. SessionInit => BooksOK /\ SlotsOK /\ ClientOK
  BY SessionStarts DEF SessionInit, ClientOK
<1>2. BooksOK /\ SlotsOK /\ [SessionNext]_sessionVars => (BooksOK /\ SlotsOK)'
  <2> SUFFICES ASSUME BooksOK, SlotsOK, [SessionNext]_sessionVars PROVE BooksOK' /\ SlotsOK'
    OBVIOUS
  <2>1. CASE UNCHANGED sessionVars
    <3>1. BooksOK'
      BY <2>1 DEF sessionVars, BooksOK
    <3> QED
      BY <2>1, <3>1, SlotStays DEF sessionVars
  <2>2. CASE StartGeneration
    BY <2>2, GenerationStarts
  <2>3. ASSUME NEW g \in Gens, Install(g) \/ Connects(g) \/ Closes(g) \/ Releases(g)
        PROVE  BooksOK' /\ SlotsOK'
    BY <2>3, Installs, ConnectsIt, ClosesIt, ReleasesIt
  <2>4. ASSUME NEW t \in Threads, NEW g \in Gens, NEW ev \in Events, Admitted(t, g, ev)
        PROVE  BooksOK' /\ SlotsOK'
    BY <2>4, Admits
  <2>5. ASSUME NEW t \in Threads,
               \/ LooksReady(t) \/ PublishesReady(t) \/ SnapshotSession(t) \/ SaveSession(t)
               \/ HandleEnd(t) \/ ForgetSession(t) \/ FinishLogout(t)
        PROVE  BooksOK' /\ SlotsOK'
    BY <2>5, LooksReadyIt, Publishes, Snapshots, Saves, Handles, Forgets
  <2>6. ASSUME NEW t \in Threads,
               \/ BeginSend(t) \/ SendReturns(t) \/ SendFails(t) \/ SendFindsUnlinked(t)
               \/ ReportError(t)
        PROVE  BooksOK' /\ SlotsOK'
    BY <2>6, SendBegins, SendEnds, SendIsRefused, SendUnlinked, Reports
  <2>7. CASE WriteUpdate \/ \E by \in {"browser", "repair"} : ReadForUpdate(by)
    BY <2>7, CookiesCome
  <2>8. CASE RepairFails \/ CoalescingPasses \/ Parks \/ StartsFromSession \/ Reconnects
    BY <2>8, SupervisorActs
  <2> QED
    BY <2>1, <2>2, <2>3, <2>4, <2>5, <2>6, <2>7, <2>8 DEF SessionNext
<1>3. SlotsOK /\ ClientOK /\ [SessionNext]_sessionVars => ClientOK'
  BY ClientKept
<1>4. BooksOK /\ SlotsOK /\ ClientOK => SessionInv
  BY SessionParts
<1> QED
  BY <1>1, <1>2, <1>3, <1>4, PTL DEF SessionSpec

\* The daemon says it is connected only while the generation that the application has is
\* the adapter's run, and that run has been ready; its client is installed unless the run
\* is ending. The end of a run leaves nothing published, and an old run never takes the
\* status or the client of the next.
THEOREM ConnectedRuns == SessionSpec => []ConnectedIsLive
<1>1. SessionInv => ConnectedIsLive
  <2> SUFFICES ASSUME SlotsOK, ClientOK PROVE ConnectedIsLive
    BY SessionParts
  <2>1. ASSUME status.connected
        PROVE  \E g \in Gens : current.run = g /\ app.generation = g /\ gens[g].ready
                              /\ (app.client = g \/ Ending(g))
    <3>1. status.connected = TRUE
      BY <2>1 DEF SlotsOK, RunsTyped, StatusType
    <3>2. current.run # 0 /\ gens[current.run].ready = TRUE
      BY <3>1 DEF SlotsOK, StatusOK
    <3>3. app.client = current.run \/ Ending(current.run)
      BY <3>2, AppFacts DEF ClientOK
    <3> QED
      BY <3>2, <3>3, AppFacts
  <2>2. ASSUME NEW g \in Gens, gens[g].at \in {"none", "gone"}
        PROVE  app.generation # g /\ app.client # g
    <3>1. g # 0
      BY SessionAssumption DEF Gens
    <3>2. current.run # g
      BY <2>2 DEF SlotsOK, SlotOK
    <3> QED
      BY <3>1, <3>2, AppFacts
  <2>3. \A g \in Gens : gens[g].at \in {"listening", "closing"} => current.run = g
    BY DEF SlotsOK, SlotOK
  <2> QED
    BY <2>1, <2>2, <2>3 DEF ConnectedIsLive
<1> QED
  BY <1>1, SessionHolds, PTL

-----------------------------------------------------------------------------
(* Projector *)

Times      == 0..MaxClock
RowType    == [st : {"open", "uncertain", "confirmed"}, at : Times, real : BOOLEAN]
CursorType == [mark : Times, done : SUBSET Keys]
ScanType   == [at : {"start", "working", "waiting"}, rows : SUBSET Keys, seen : Times,
               failed : SUBSET Times]
ToldType   == [ever : SUBSET Keys, run : SUBSET Keys, twice : SUBSET Keys]

\* A time that the scan has not met: its rows up to here are listed later.
Ahead(x) == x >= cursor.mark /\ x >= scan.seen /\ \A k \in scan.rows : x >= k[1]

\* A row confirmed in time that was never projected is at or above the watermark, and in
\* a scan it is listed, has failed, or came later than all that is listed.
Awaited == \A i \in Sends \ late :
    intent[i].st = "confirmed" /\ KeyOf(i) \notin told.ever =>
       /\ intent[i].at >= cursor.mark
       /\ KeyOf(i) \in scan.rows \/ intent[i].at \in scan.failed \/ Ahead(intent[i].at)

\* What this run has projected is known to its cursor, and the cursor knows nothing else.
ProcessedKnown ==
    /\ \A k \in told.run : k \in cursor.done \/ k[1] < cursor.mark
    /\ cursor.done \subseteq told.ever
    /\ told.twice = {}

\* A failure is not later than what the scan has seen, and between scans nothing is left.
ScanOK ==
    /\ \A f \in scan.failed : f <= scan.seen
    /\ scan.at # "working" => scan.rows = {} /\ scan.failed = {} /\ scan.seen = 0

CursorInv == ProjectorTypeOK /\ Awaited /\ ProcessedKnown /\ ScanOK

\* The types, by what actions change together.
OutboxTyped ==
    /\ clock \in 1..MaxClock /\ intent \in [Sends -> RowType] /\ taken \in [Sends -> Times]
    /\ woken \in BOOLEAN
    /\ shown \subseteq Sends \X {"request", "platform"}
    /\ frames \in [Sends -> 0..MaxFrames]
    /\ queued \subseteq Sends /\ late \subseteq Sends /\ swaps \subseteq Sends
    /\ restarts \in 0..MaxRestarts /\ projectFaults \in 0..MaxProjectFaults
ScanTyped == cursor \in CursorType /\ scan \in ScanType /\ told \in ToldType

\* The invariant, by what actions change together.
LEMMA CursorParts == CursorInv <=> OutboxTyped /\ ScanTyped /\ Awaited /\ ProcessedKnown /\ ScanOK
  BY DEF CursorInv, ProjectorTypeOK, OutboxTyped, ScanTyped, RowType, CursorType, ScanType, ToldType,
         Times

\* A set of times that is not empty has a first.
LEMMA HasMin ==
    ASSUME NEW T \in SUBSET Nat, T # {}
    PROVE  \E x \in T : \A y \in T : x <= y
<1>1. PICK x \in T : \A y \in T : ~ (<<y, x>> \in OpToRel(<, Nat))
  BY NatLessThanWellFounded, WFMin
<1>2. \A y \in T : ~(y < x)
  BY <1>1 DEF OpToRel
<1> QED
  BY <1>2

\* It is what Min finds.
LEMMA MinFacts ==
    ASSUME NEW T \in SUBSET Nat, T # {}
    PROVE  Min(T) \in T /\ \A y \in T : Min(T) <= y
  BY HasMin DEF Min

\* A set of times up to the bound that is not empty has a last, which is what Max finds.
LEMMA MaxFacts ==
    ASSUME NEW T \in SUBSET Times, T # {}
    PROVE  Max(T) \in T /\ \A y \in T : Max(T) >= y
<1> DEFINE D == {MaxClock - x : x \in T}
<1>1. MaxClock \in Nat /\ \A x \in T : x \in 0..MaxClock
  BY ProjectorAssumption DEF Times
<1>2. D \in SUBSET Nat /\ D # {}
  BY <1>1
<1>3. PICK d \in D : \A e \in D : d <= e
  BY <1>2, HasMin
<1>4. PICK x \in T : d = MaxClock - x
  BY <1>3
<1>5. ASSUME NEW y \in T PROVE x >= y
  <2>1. MaxClock - y \in D
    OBVIOUS
  <2>2. MaxClock - x <= MaxClock - y
    BY <1>3, <1>4, <2>1
  <2> QED
    BY <1>1, <2>2
<1> HIDE DEF D
<1> QED
  BY <1>4, <1>5 DEF Max

\* A time that is not before what the scans have met is ahead of them.
LEMMA PassedFacts ==
    ASSUME ScanTyped, NEW x \in Times, ~(x < Passed)
    PROVE  Ahead(x)
<1> DEFINE T == {cursor.mark, scan.seen} \cup {k[1] : k \in scan.rows}
<1>1. T \in SUBSET Times /\ T # {}
  BY DEF ScanTyped, CursorType, ScanType, Keys, Times
<1>2. Max(T) \in T /\ \A y \in T : Max(T) >= y
  BY <1>1, MaxFacts
<1>3. \A y \in T : x >= y
  <2> SUFFICES ASSUME NEW y \in T PROVE x >= y
    OBVIOUS
  <2>1. Passed = Max(T)
    BY DEF Passed
  <2>2. Max(T) \in Nat /\ y \in Nat /\ x \in Nat
    BY <1>1, <1>2 DEF Times
  <2>3. Max(T) >= y
    BY <1>2
  <2> HIDE DEF T
  <2> QED
    BY <2>1, <2>2, <2>3
<1> QED
  BY <1>3 DEF Ahead

\* A key names its time.
LEMMA KeyFacts ==
    ASSUME OutboxTyped, NEW i \in Sends
    PROVE  /\ intent[i] \in RowType /\ intent[i].at \in Times
           /\ KeyOf(i) \in Keys /\ KeyOf(i)[1] = intent[i].at
  BY DEF OutboxTyped, RowType, Times, KeyOf, Keys

\* The row that the scan comes to is one of those that it listed.
LEMMA ListedFacts ==
    ASSUME ScanTyped, scan.rows # {}
    PROVE  /\ NextListed \in scan.rows /\ NextListed \in Keys /\ NextListed[1] \in Times
<1> DEFINE T == {k[1] : k \in scan.rows}
<1>1. scan.rows \subseteq Keys /\ \A k \in Keys : k[1] \in Times
  BY DEF ScanTyped, ScanType, Keys, Times
<1>2. T \in SUBSET Nat /\ T # {}
  BY <1>1 DEF Times
<1>3. PICK t \in T : \A u \in T : t <= u
  BY <1>2, HasMin
<1>4. PICK k \in scan.rows : t = k[1]
  BY <1>3
<1>5. \A l \in scan.rows : k[1] <= l[1]
  BY <1>3, <1>4
<1>6. NextListed \in scan.rows
  BY <1>4, <1>5 DEF NextListed
<1> QED
  BY <1>1, <1>6

\* The scan goes on to the next row.
LEMMA ScannedFacts ==
    ASSUME ScanTyped, scan.rows # {}, scan.at = "working"
    PROVE  /\ ScannedNext \in ScanType /\ ScannedNext.at = "working"
           /\ ScannedNext.rows = scan.rows \ {NextListed} /\ ScannedNext.failed = scan.failed
           /\ ScannedNext.seen >= scan.seen /\ ScannedNext.seen >= NextListed[1]
           /\ ScannedNext.seen \in {scan.seen, NextListed[1]}
<1> DEFINE r == NextListed
           T == {scan.seen, r[1]}
           s == Max(T)
<1>1. r \in scan.rows /\ r[1] \in Times
  BY ListedFacts
<1>2. scan \in ScanType /\ scan.seen \in Times /\ scan.rows \subseteq Keys
  BY DEF ScanTyped, ScanType
<1>3. s \in T /\ \A y \in T : s >= y
  <2>1. T \in SUBSET Times /\ T # {}
    BY <1>1, <1>2
  <2> QED
    BY <2>1, MaxFacts
<1>4. s \in Times /\ s >= scan.seen /\ s >= r[1]
  BY <1>1, <1>2, <1>3
<1>5. scan.rows \ {r} \in SUBSET Keys
  BY <1>2
<1>6. ScannedNext = [scan EXCEPT !.rows = scan.rows \ {r}, !.seen = s]
  BY <1>2 DEF ScannedNext, ScanType
<1> HIDE DEF s, r
<1>7. /\ ScannedNext \in ScanType /\ ScannedNext.at = scan.at
      /\ ScannedNext.rows = scan.rows \ {r} /\ ScannedNext.failed = scan.failed
      /\ ScannedNext.seen = s
  BY <1>2, <1>4, <1>5, <1>6 DEF ScanType
<1> QED
  BY <1>3, <1>4, <1>7 DEF r
\* What the outbox and the platform do leaves the scan; a row is confirmed ahead of it, or
\* late.
LEMMA OutboxActs ==
    ASSUME OutboxTyped, ScanTyped, Awaited, ProcessedKnown, ScanOK,
           UNCHANGED <<cursor, scan, told>>, OutboxTyped',
           \A i \in Sends : i \notin late' /\ intent'[i].st = "confirmed" =>
              \/ i \notin late /\ intent'[i].at = intent[i].at /\ intent[i].st = "confirmed"
              \/ Ahead(intent'[i].at)
    PROVE  ScanTyped' /\ Awaited' /\ ProcessedKnown' /\ ScanOK'
<1>1. ScanTyped' /\ ProcessedKnown' /\ ScanOK'
  BY DEF ScanTyped, ProcessedKnown, ScanOK
<1>2. Awaited'
  <2> SUFFICES ASSUME NEW i \in Sends, i \notin late', intent'[i].st = "confirmed",
                      <<intent'[i].at, i>> \notin told.ever
               PROVE  /\ intent'[i].at >= cursor.mark
                      /\ \/ <<intent'[i].at, i>> \in scan.rows \/ intent'[i].at \in scan.failed
                         \/ Ahead(intent'[i].at)
    BY DEF Awaited, KeyOf, Ahead
  <2>2. CASE i \notin late /\ intent'[i].at = intent[i].at /\ intent[i].st = "confirmed"
    <3>1. /\ intent[i].at >= cursor.mark
          /\ KeyOf(i) \in scan.rows \/ intent[i].at \in scan.failed \/ Ahead(intent[i].at)
      BY <2>2 DEF Awaited, KeyOf
    <3> QED
      BY <2>2, <3>1 DEF KeyOf
  <2>3. CASE Ahead(intent'[i].at)
    BY <2>3 DEF Ahead
  <2> QED
    BY <2>2, <2>3
<1> QED
  BY <1>1, <1>2

\* A row is committed as confirmed: ahead of the scans, or late.
LEMMA CommitFacts ==
    ASSUME OutboxTyped, ScanTyped, NEW i \in Sends, NEW at \in Times, NEW real \in BOOLEAN,
           Commits(i, at, real)
    PROVE  /\ intent' \in [Sends -> RowType] /\ late' \subseteq Sends /\ woken' \in BOOLEAN
           /\ \A j \in Sends : j \notin late' /\ intent'[j].st = "confirmed" =>
                 \/ j \notin late /\ intent'[j].at = intent[j].at /\ intent[j].st = "confirmed"
                 \/ Ahead(intent'[j].at)
<1> DEFINE row == [st |-> "confirmed", at |-> at, real |-> real]
<1>1. row \in RowType /\ row.at = at
  BY DEF RowType
<1>2. intent' = [intent EXCEPT ![i] = row]
  BY DEF Commits
<1> HIDE DEF row
<1>3. /\ intent' \in [Sends -> RowType] /\ intent'[i] = row
      /\ \A j \in Sends : j # i => intent'[j] = intent[j]
  BY <1>1, <1>2 DEF OutboxTyped
<1>4. late' \subseteq Sends /\ woken' \in BOOLEAN /\ \A j \in Sends : j # i /\ j \notin late' => j \notin late
  BY DEF Commits, OutboxTyped
<1>5. i \notin late' => ~(at < Passed)
  BY DEF Commits
<1>6. i \notin late' => Ahead(at)
  BY <1>5, PassedFacts
<1>7. ASSUME NEW j \in Sends, j \notin late', intent'[j].st = "confirmed"
      PROVE  \/ j \notin late /\ intent'[j].at = intent[j].at /\ intent[j].st = "confirmed"
             \/ Ahead(intent'[j].at)
  <2>1. CASE j = i
    BY <2>1, <1>1, <1>3, <1>6, <1>7
  <2>2. CASE j # i
    BY <2>2, <1>3, <1>4, <1>7
  <2> QED
    BY <2>1, <2>2
<1> QED
  BY <1>3, <1>4, <1>7

-----------------------------------------------------------------------------
(* Projector: one step for each action. *)

\* Time passes, and a call reads it.
LEMMA TimePasses ==
    ASSUME OutboxTyped, ScanTyped, Awaited, ProcessedKnown, ScanOK,
           ClockTicks \/ \E i \in Sends : ReadsTime(i)
    PROVE  OutboxTyped' /\ ScanTyped' /\ Awaited' /\ ProcessedKnown' /\ ScanOK'
<1>1. clock \in Times
  BY ProjectorAssumption DEF OutboxTyped, Times
<1>2. OutboxTyped'
  <2>1. CASE ClockTicks
    BY <2>1, ProjectorAssumption DEF ClockTicks, OutboxTyped
  <2>2. CASE \E i \in Sends : ReadsTime(i)
    BY <2>2, <1>1 DEF ReadsTime, OutboxTyped
  <2> QED
    BY <2>1, <2>2
<1>3. UNCHANGED <<cursor, scan, told, intent, late>>
  BY DEF ClockTicks, ReadsTime
<1> QED
  BY <1>2, <1>3, OutboxActs

\* A row is confirmed.
LEMMA ConfirmsIt ==
    ASSUME OutboxTyped, ScanTyped, Awaited, ProcessedKnown, ScanOK, NEW i \in Sends, Confirms(i)
    PROVE  OutboxTyped' /\ ScanTyped' /\ Awaited' /\ ProcessedKnown' /\ ScanOK'
<1>1. taken[i] \in Times /\ (i \notin Swapped) \in BOOLEAN /\ 0 \in Times
  BY ProjectorAssumption DEF OutboxTyped, Times
<1>2. Commits(i, taken[i], i \notin Swapped)
  BY DEF Confirms
<1>3. /\ intent' \in [Sends -> RowType] /\ late' \subseteq Sends /\ woken' \in BOOLEAN
      /\ \A j \in Sends : j \notin late' /\ intent'[j].st = "confirmed" =>
            \/ j \notin late /\ intent'[j].at = intent[j].at /\ intent[j].st = "confirmed"
            \/ Ahead(intent'[j].at)
  BY <1>1, <1>2, CommitFacts
<1>4. OutboxTyped'
  BY <1>1, <1>3 DEF Confirms, OutboxTyped
<1>5. UNCHANGED <<cursor, scan, told>>
  BY DEF Confirms
<1> QED
  BY <1>3, <1>4, <1>5, OutboxActs

\* The answer of a call was lost.
LEMMA Doubts ==
    ASSUME OutboxTyped, ScanTyped, Awaited, ProcessedKnown, ScanOK, NEW i \in Sends, InDoubt(i)
    PROVE  OutboxTyped' /\ ScanTyped' /\ Awaited' /\ ProcessedKnown' /\ ScanOK'
<1> DEFINE row == [intent[i] EXCEPT !.st = "uncertain"]
<1>1. intent[i] \in RowType /\ 0 \in Times
  BY ProjectorAssumption DEF OutboxTyped, Times
<1>2. row \in RowType /\ row.st = "uncertain"
  BY <1>1 DEF RowType
<1>3. intent' = [intent EXCEPT ![i] = row]
  BY DEF InDoubt, OutboxTyped
<1> HIDE DEF row
<1>4. /\ intent' \in [Sends -> RowType] /\ intent'[i] = row
      /\ \A j \in Sends : j # i => intent'[j] = intent[j]
  BY <1>2, <1>3 DEF OutboxTyped
<1>5. OutboxTyped'
  BY <1>1, <1>4 DEF InDoubt, OutboxTyped
<1>6. UNCHANGED <<cursor, scan, told, late>>
  BY DEF InDoubt
<1>7. \A j \in Sends : j \notin late' /\ intent'[j].st = "confirmed" =>
         j \notin late /\ intent'[j].at = intent[j].at /\ intent[j].st = "confirmed"
  BY <1>2, <1>4, <1>6
<1> QED
  BY <1>5, <1>6, <1>7, OutboxActs

\* An echo comes.
LEMMA Echoes ==
    ASSUME OutboxTyped, ScanTyped, Awaited, ProcessedKnown, ScanOK, NEW i \in Sends, EchoArrives(i)
    PROVE  OutboxTyped' /\ ScanTyped' /\ Awaited' /\ ProcessedKnown' /\ ScanOK'
<1>1. frames[i] + 1 \in 0..MaxFrames
  BY ProjectorAssumption DEF EchoArrives, OutboxTyped
<1>2. frames' \in [Sends -> 0..MaxFrames]
  BY <1>1 DEF EchoArrives, OutboxTyped
<1>3. shown' \subseteq Sends \X {"request", "platform"} /\ queued' \subseteq Sends /\ swaps' \subseteq Sends
  BY DEF EchoArrives, OutboxTyped
<1>4. OutboxTyped'
  BY <1>2, <1>3 DEF EchoArrives, OutboxTyped
<1>5. UNCHANGED <<cursor, scan, told, intent, late>>
  BY DEF EchoArrives
<1> QED
  BY <1>4, <1>5, OutboxActs

\* The ingest worker settles a row.
LEMMA ReconcilesIt ==
    ASSUME OutboxTyped, ScanTyped, Awaited, ProcessedKnown, ScanOK, NEW i \in Sends, Reconciles(i)
    PROVE  OutboxTyped' /\ ScanTyped' /\ Awaited' /\ ProcessedKnown' /\ ScanOK'
<1>1. clock \in Times /\ TRUE \in BOOLEAN
  BY ProjectorAssumption DEF OutboxTyped, Times
<1>2. UNCHANGED <<cursor, scan, told>> /\ queued' \subseteq Sends
  BY DEF Reconciles, OutboxTyped
<1>3. CASE UNCHANGED <<intent, late, woken>>
  <2>1. OutboxTyped'
    BY <1>2, <1>3 DEF Reconciles, OutboxTyped
  <2> QED
    BY <1>2, <1>3, <2>1, OutboxActs
<1>4. CASE Commits(i, clock, TRUE)
  <2>1. /\ intent' \in [Sends -> RowType] /\ late' \subseteq Sends /\ woken' \in BOOLEAN
        /\ \A j \in Sends : j \notin late' /\ intent'[j].st = "confirmed" =>
              \/ j \notin late /\ intent'[j].at = intent[j].at /\ intent[j].st = "confirmed"
              \/ Ahead(intent'[j].at)
    BY <1>1, <1>4, CommitFacts
  <2>2. OutboxTyped'
    BY <1>2, <2>1 DEF Reconciles, OutboxTyped
  <2> QED
    BY <1>2, <2>1, <2>2, OutboxActs
<1> QED
  BY <1>3, <1>4 DEF Reconciles

\* A scan lists what is confirmed from the watermark on.
LEMMA Lists ==
    ASSUME OutboxTyped, ScanTyped, Awaited, ProcessedKnown, ScanOK, ListsConfirmed
    PROVE  OutboxTyped' /\ ScanTyped' /\ Awaited' /\ ProcessedKnown' /\ ScanOK'
<1> DEFINE rows == {KeyOf(i) : i \in {j \in Sends : intent[j].st = "confirmed"
                                                    /\ intent[j].at >= cursor.mark}}
<1>1. OutboxTyped'
  BY DEF ListsConfirmed, OutboxTyped
<1>2. rows \subseteq Keys /\ cursor.mark \in Times
  BY KeyFacts DEF ScanTyped, CursorType
<1>3. scan' = [at |-> "working", seen |-> cursor.mark, failed |-> {}, rows |-> rows]
  BY DEF ListsConfirmed
<1> HIDE DEF rows
<1>4. /\ scan' \in ScanType /\ scan'.at = "working" /\ scan'.rows = rows /\ scan'.failed = {}
  BY <1>2, <1>3 DEF ScanType
<1>5. UNCHANGED <<cursor, told, intent, late>>
  BY DEF ListsConfirmed
<1>6. ScanTyped' /\ ProcessedKnown' /\ ScanOK'
  BY <1>4, <1>5 DEF ScanTyped, ProcessedKnown, ScanOK
<1>7. Awaited'
  <2> SUFFICES ASSUME NEW i \in Sends, i \notin late, intent[i].st = "confirmed",
                      KeyOf(i) \notin told.ever
               PROVE  intent[i].at >= cursor.mark /\ KeyOf(i) \in scan'.rows
    BY <1>5 DEF Awaited, KeyOf
  <2>1. intent[i].at >= cursor.mark
    BY DEF Awaited
  <2> QED
    BY <1>4, <2>1 DEF rows
<1> QED
  BY <1>1, <1>6, <1>7

\* A row that is handled leaves the list: it was projected before, it is projected now or it
\* has failed.
LEMMA RowLeaves ==
    ASSUME OutboxTyped, ScanTyped, Awaited, ScanOK, scan.at = "working", scan.rows # {},
           scan' \in ScanType, scan'.rows = scan.rows \ {NextListed}, scan'.seen = ScannedNext.seen,
           scan.failed \subseteq scan'.failed, UNCHANGED <<intent, late>>,
           cursor'.mark = cursor.mark, told.ever \subseteq told'.ever,
           \/ NextListed \in told'.ever
           \/ NextListed[1] < cursor.mark
           \/ NextListed[1] \in scan'.failed
    PROVE  Awaited'
<1> DEFINE r == NextListed
<1>1. r \in scan.rows /\ r[1] \in Times /\ cursor.mark \in Times
  BY ListedFacts DEF ScanTyped, CursorType
<1>2. ScannedNext.seen \in {scan.seen, r[1]}
  BY ScannedFacts
<1> SUFFICES ASSUME NEW i \in Sends, i \notin late, intent[i].st = "confirmed",
                    KeyOf(i) \notin told'.ever
             PROVE  /\ intent[i].at >= cursor.mark
                    /\ KeyOf(i) \in scan'.rows \/ intent[i].at \in scan'.failed \/ Ahead(intent[i].at)'
  BY DEF Awaited, KeyOf
<1>3. /\ intent[i].at >= cursor.mark
      /\ KeyOf(i) \in scan.rows \/ intent[i].at \in scan.failed \/ Ahead(intent[i].at)
  BY DEF Awaited
<1>4. intent[i].at \in Times /\ KeyOf(i)[1] = intent[i].at
  BY KeyFacts
<1>5. CASE KeyOf(i) \in scan.rows
  <2>1. CASE KeyOf(i) = r
    <3>1. ~(r[1] < cursor.mark)
      BY <1>1, <1>3, <1>4, <2>1 DEF Times
    <3> QED
      BY <1>3, <1>4, <2>1, <3>1
  <2>2. CASE KeyOf(i) # r
    BY <1>3, <1>5, <2>2
  <2> QED
    BY <2>1, <2>2
<1>6. CASE intent[i].at \in scan.failed
  BY <1>3, <1>6
<1>7. CASE Ahead(intent[i].at)
  <2>1. Ahead(intent[i].at)'
    BY <1>1, <1>2, <1>7 DEF Ahead
  <2> QED
    BY <1>3, <2>1
<1> QED
  BY <1>3, <1>5, <1>6, <1>7

\* A row that was processed is passed over.
LEMMA PassesIt ==
    ASSUME OutboxTyped, ScanTyped, Awaited, ProcessedKnown, ScanOK, PassesOver
    PROVE  OutboxTyped' /\ ScanTyped' /\ Awaited' /\ ProcessedKnown' /\ ScanOK'
<1>1. OutboxTyped'
  BY DEF PassesOver, OutboxTyped
<1>2. /\ scan' \in ScanType /\ scan'.at = "working" /\ scan'.failed = scan.failed
      /\ scan'.rows = scan.rows \ {NextListed} /\ scan'.seen = ScannedNext.seen
      /\ scan'.seen >= scan.seen
  BY ScannedFacts DEF PassesOver
<1>3. scan.seen \in Times /\ scan'.seen \in Times /\ \A f \in scan.failed : f \in Times
  BY <1>2 DEF ScanTyped, ScanType
<1>4. ScanTyped' /\ ProcessedKnown'
  BY <1>2 DEF PassesOver, ScanTyped, ProcessedKnown
<1>5. ScanOK'
  BY <1>2, <1>3 DEF ScanOK, Times
<1>6. NextListed \in told.ever \/ NextListed[1] < cursor.mark
  BY DEF PassesOver, AlreadyProcessed, ProcessedKnown
<1>7. Awaited'
  BY <1>2, <1>6, RowLeaves DEF PassesOver
<1> QED
  BY <1>1, <1>4, <1>5, <1>7

\* A row is projected: never one that this run has projected already.
LEMMA ProjectsIt ==
    ASSUME OutboxTyped, ScanTyped, Awaited, ProcessedKnown, ScanOK, Projects
    PROVE  OutboxTyped' /\ ScanTyped' /\ Awaited' /\ ProcessedKnown' /\ ScanOK'
<1> DEFINE r == NextListed
<1>1. r \in Keys /\ r[2] \in Sends
  BY ListedFacts DEF Projects, Keys
<1>2. shown' \subseteq Sends \X {"request", "platform"}
  <2>1. Copy(r[2]) \in Sends \X {"request", "platform"}
    BY <1>1 DEF Copy
  <2> QED
    BY <2>1 DEF Projects, OutboxTyped
<1>3. OutboxTyped'
  BY <1>2 DEF Projects, OutboxTyped
<1>4. /\ scan' \in ScanType /\ scan'.at = "working" /\ scan'.failed = scan.failed
      /\ scan'.rows = scan.rows \ {r} /\ scan'.seen = ScannedNext.seen
      /\ scan'.seen >= scan.seen
  BY ScannedFacts DEF Projects
<1>5. scan.seen \in Times /\ scan'.seen \in Times /\ \A f \in scan.failed : f \in Times
  BY <1>4 DEF ScanTyped, ScanType
<1>6. ScanOK'
  BY <1>4, <1>5 DEF ScanOK, Times
<1>7. cursor \in CursorType /\ cursor' = [cursor EXCEPT !.done = cursor.done \cup {r}]
  BY DEF ScanTyped, CursorType, Projects
<1>8. cursor.done \cup {r} \in SUBSET Keys
  BY <1>1, <1>7 DEF CursorType
<1>9. cursor' \in CursorType /\ cursor'.mark = cursor.mark /\ cursor'.done = cursor.done \cup {r}
  BY <1>7, <1>8 DEF CursorType
<1>10. r \notin told.run
  BY DEF Projects, AlreadyProcessed, ProcessedKnown
<1>11. told' = [ever |-> told.ever \cup {r}, run |-> told.run \cup {r}, twice |-> told.twice]
  BY <1>10 DEF Projects
<1>12. /\ told' \in ToldType /\ told'.ever = told.ever \cup {r} /\ told'.run = told.run \cup {r}
       /\ told'.twice = told.twice
  BY <1>1, <1>11 DEF ScanTyped, ToldType
<1>13. ScanTyped' /\ ProcessedKnown'
  BY <1>4, <1>9, <1>12 DEF ScanTyped, ProcessedKnown
<1>14. Awaited'
  <2>1. UNCHANGED <<intent, late>> /\ scan.at = "working" /\ scan.rows # {}
    BY DEF Projects
  <2>2. r \in told'.ever /\ told.ever \subseteq told'.ever /\ scan.failed \subseteq scan'.failed
    BY <1>4, <1>12
  <2> QED
    BY <1>4, <1>9, <2>1, <2>2, RowLeaves
<1> QED
  BY <1>3, <1>6, <1>13, <1>14

\* A row cannot be projected now.
LEMMA FailsIt ==
    ASSUME OutboxTyped, ScanTyped, Awaited, ProcessedKnown, ScanOK, FailsToProject
    PROVE  OutboxTyped' /\ ScanTyped' /\ Awaited' /\ ProcessedKnown' /\ ScanOK'
<1> DEFINE r == NextListed
           n == ScannedNext
<1>1. r[1] \in Times
  BY ListedFacts DEF FailsToProject
<1>2. projectFaults' \in 0..MaxProjectFaults
  BY ProjectorAssumption DEF FailsToProject, OutboxTyped
<1>3. OutboxTyped'
  BY <1>2 DEF FailsToProject, OutboxTyped
<1>4. /\ n \in ScanType /\ n.at = "working" /\ n.rows = scan.rows \ {r} /\ n.failed = scan.failed
      /\ n.seen >= scan.seen /\ n.seen >= r[1]
  BY ScannedFacts DEF FailsToProject
<1>5. n.failed \cup {r[1]} \in SUBSET Times
  BY <1>1, <1>4 DEF ScanType
<1>6. scan' = [n EXCEPT !.failed = n.failed \cup {r[1]}]
  BY <1>4 DEF FailsToProject, ScanType
<1> HIDE DEF n, r
<1>7. /\ scan' \in ScanType /\ scan'.at = "working" /\ scan'.failed = scan.failed \cup {r[1]}
      /\ scan'.rows = scan.rows \ {r} /\ scan'.seen = n.seen
  BY <1>4, <1>5, <1>6 DEF ScanType
<1>8. scan.seen \in Times /\ scan'.seen \in Times /\ \A f \in scan.failed : f \in Times
  BY <1>7 DEF ScanTyped, ScanType
<1>9. ScanOK'
  BY <1>1, <1>4, <1>7, <1>8 DEF ScanOK, Times
<1>10. ScanTyped' /\ ProcessedKnown'
  BY <1>7 DEF FailsToProject, ScanTyped, ProcessedKnown
<1>11. Awaited'
  <2>1. UNCHANGED <<intent, late, cursor, told>> /\ scan.at = "working" /\ scan.rows # {}
    BY DEF FailsToProject
  <2>2. r[1] \in scan'.failed /\ scan.failed \subseteq scan'.failed
    BY <1>7
  <2> QED
    BY <1>7, <2>1, <2>2, RowLeaves DEF r, n
<1> QED
  BY <1>3, <1>9, <1>10, <1>11

\* The scan ends: the watermark stays at the oldest failure.
LEMMA ScanEnds ==
    ASSUME OutboxTyped, ScanTyped, Awaited, ProcessedKnown, ScanOK, EndsScan
    PROVE  OutboxTyped' /\ ScanTyped' /\ Awaited' /\ ProcessedKnown' /\ ScanOK'
<1> DEFINE T == {cursor.mark, NewMark}
           m == Max(T)
           kept == {k \in cursor.done : k[1] >= NewMark}
<1>1. OutboxTyped'
  BY DEF EndsScan, OutboxTyped
<1>2. /\ scan \in ScanType /\ scan.seen \in Times /\ scan.failed \in SUBSET Times /\ scan.rows = {}
      /\ cursor \in CursorType /\ cursor.mark \in Times /\ cursor.done \in SUBSET Keys
      /\ told.run \in SUBSET Keys /\ \A k \in Keys : k[1] \in Times
  BY DEF EndsScan, ScanTyped, ScanType, CursorType, ToldType, Keys, Times
<1>3. /\ NewMark \in Times
      /\ \A f \in scan.failed : NewMark <= f
      /\ NewMark <= scan.seen
  <2>1. CASE scan.failed = {}
    BY <2>1, <1>2 DEF NewMark, Times
  <2>2. CASE scan.failed # {}
    <3>1. scan.failed \in SUBSET Nat
      BY <1>2 DEF Times
    <3>2. Min(scan.failed) \in scan.failed /\ \A f \in scan.failed : Min(scan.failed) <= f
      BY <2>2, <3>1, MinFacts
    <3> QED
      BY <2>2, <3>2, <1>2 DEF NewMark, ScanOK
  <2> QED
    BY <2>1, <2>2
<1>4. m \in T /\ \A y \in T : m >= y
  <2>1. T \in SUBSET Times /\ T # {}
    BY <1>2, <1>3
  <2> QED
    BY <2>1, MaxFacts
<1>5. m \in Times /\ m >= cursor.mark /\ m >= NewMark /\ m \in {cursor.mark, NewMark}
  BY <1>2, <1>3, <1>4
<1>6. cursor' = [mark |-> m, done |-> kept] /\ kept \in SUBSET Keys
  BY <1>2 DEF EndsScan, AdvanceTo
<1> HIDE DEF m, kept
<1>7. cursor' \in CursorType /\ cursor'.mark = m /\ cursor'.done = kept
  BY <1>5, <1>6 DEF CursorType
<1>8. /\ scan' \in ScanType /\ scan'.rows = {} /\ scan'.failed = {} /\ scan'.seen = 0
  BY ProjectorAssumption DEF EndsScan, Waiting, ScanType, Times
<1>9. UNCHANGED <<intent, late, told>>
  BY DEF EndsScan
<1>10. ScanTyped' /\ ScanOK'
  BY <1>7, <1>8, <1>9 DEF ScanTyped, ScanOK
<1>11. ProcessedKnown'
  <2>1. ASSUME NEW k \in told.run PROVE k \in kept \/ k[1] < m
    <3>1. k[1] \in Times /\ (k \in cursor.done \/ k[1] < cursor.mark)
      BY <1>2 DEF ProcessedKnown
    <3>2. CASE k[1] < NewMark \/ k[1] < cursor.mark
      BY <1>2, <1>3, <1>5, <3>1, <3>2 DEF Times
    <3>3. CASE k \in cursor.done /\ ~(k[1] < NewMark)
      BY <1>3, <3>1, <3>3 DEF kept, Times
    <3> QED
      BY <3>1, <3>2, <3>3
  <2>2. kept \subseteq told.ever /\ told.twice = {}
    BY DEF kept, ProcessedKnown
  <2> QED
    BY <1>7, <1>9, <2>1, <2>2 DEF ProcessedKnown
<1>12. Awaited'
  <2> SUFFICES ASSUME NEW i \in Sends, i \notin late, intent[i].st = "confirmed",
                      KeyOf(i) \notin told.ever
               PROVE  intent[i].at >= m
    <3>1. \A x \in Times : x >= m => Ahead(x)'
      BY <1>7, <1>8 DEF Ahead, Times
    <3> QED
      BY <1>7, <1>9, <3>1, KeyFacts DEF Awaited, KeyOf
  <2>1. intent[i].at >= cursor.mark /\ (intent[i].at \in scan.failed \/ Ahead(intent[i].at))
    BY <1>2 DEF Awaited
  <2>2. intent[i].at \in Times
    BY KeyFacts
  <2>3. intent[i].at >= NewMark
    <3>1. CASE intent[i].at \in scan.failed
      BY <1>3, <2>2, <3>1 DEF Times
    <3>2. CASE Ahead(intent[i].at)
      BY <1>2, <1>3, <2>2, <3>2 DEF Ahead, Times
    <3> QED
      BY <2>1, <3>1, <3>2
  <2> QED
    BY <1>5, <2>1, <2>3
<1> QED
  BY <1>1, <1>10, <1>11, <1>12

\* The daemon starts again: what it does not replay is late.
LEMMA RestartsIt ==
    ASSUME OutboxTyped, ScanTyped, Awaited, ProcessedKnown, ScanOK, Restarts
    PROVE  OutboxTyped' /\ ScanTyped' /\ Awaited' /\ ProcessedKnown' /\ ScanOK'
<1>1. /\ clock \in Times /\ clock \in Nat /\ 0 \in Times /\ ReplayWindow \in Nat /\ FALSE \in BOOLEAN
  BY ProjectorAssumption DEF OutboxTyped, Times
<1> DEFINE row(i) == IF taken[i] > 0 THEN [intent[i] EXCEPT !.st = "uncertain"] ELSE intent[i]
<1>2. ASSUME NEW i \in Sends
      PROVE  /\ row(i) \in RowType
             /\ row(i).st = "confirmed" => row(i) = intent[i]
  <2>1. intent[i] \in RowType
    BY DEF OutboxTyped
  <2>2. /\ [intent[i] EXCEPT !.st = "uncertain"] \in RowType
        /\ [intent[i] EXCEPT !.st = "uncertain"].st = "uncertain"
    BY <2>1 DEF RowType
  <2> QED
    BY <2>1, <2>2
<1>3. intent' = [i \in Sends |-> row(i)]
  BY DEF Restarts
<1> HIDE DEF row
<1>4. intent' \in [Sends -> RowType] /\ \A i \in Sends : intent'[i] = row(i)
  BY <1>2, <1>3
<1>5. restarts' \in 0..MaxRestarts
  BY ProjectorAssumption DEF Restarts, OutboxTyped
<1>6. taken' \in [Sends -> Times] /\ late' \subseteq Sends
  BY <1>1 DEF Restarts
<1>7. OutboxTyped'
  BY <1>1, <1>4, <1>5, <1>6 DEF Restarts, OutboxTyped
<1> DEFINE m == IF clock > ReplayWindow THEN clock - ReplayWindow ELSE 0
<1>8. m \in Times /\ \A x \in Times : ~(x + ReplayWindow < clock) => x >= m
  <2>1. CASE clock > ReplayWindow
    <3>1. clock - ReplayWindow \in Nat /\ clock - ReplayWindow <= clock /\ m = clock - ReplayWindow
      BY <1>1, <2>1
    <3>2. MaxClock \in Nat /\ clock <= MaxClock
      BY <1>1, ProjectorAssumption DEF Times
    <3> HIDE DEF m
    <3>3. m \in Times
      BY <1>1, <3>1, <3>2 DEF Times
    <3>4. ASSUME NEW x \in Times, ~(x + ReplayWindow < clock) PROVE x >= m
      BY <1>1, <3>1, <3>4 DEF Times
    <3> QED
      BY <3>3, <3>4
  <2>2. CASE ~(clock > ReplayWindow)
    BY <1>1, <2>2 DEF Times
  <2> QED
    BY <2>1, <2>2
<1>9. cursor' = [mark |-> m, done |-> {}] /\ {} \in SUBSET Keys
  BY DEF Restarts
<1> HIDE DEF m
<1>10. cursor' \in CursorType /\ cursor'.mark = m /\ cursor'.done = {}
  BY <1>8, <1>9 DEF CursorType
<1>11. scan' \in ScanType /\ scan'.rows = {} /\ scan'.failed = {} /\ scan'.seen = 0
  <2>1. scan' = [at |-> "start", rows |-> {}, seen |-> 0, failed |-> {}]
    BY DEF Restarts, Waiting
  <2> QED
    BY <1>1, <2>1 DEF ScanType
<1>12. told' \in ToldType /\ told'.ever = told.ever /\ told'.run = {} /\ told'.twice = {}
  <2>1. told \in ToldType /\ {} \in SUBSET Keys
    BY DEF ScanTyped
  <2> QED
    BY <2>1 DEF Restarts, ToldType
<1>13. ScanTyped' /\ ProcessedKnown' /\ ScanOK'
  BY <1>10, <1>11, <1>12 DEF ScanTyped, ProcessedKnown, ScanOK
<1>14. Awaited'
  <2> SUFFICES ASSUME NEW i \in Sends, i \notin late', intent'[i].st = "confirmed",
                      <<intent'[i].at, i>> \notin told.ever
               PROVE  intent'[i].at \in Times /\ intent'[i].at >= m
    <3>1. \A x \in Times : x >= m => Ahead(x)'
      BY <1>10, <1>11 DEF Ahead, Times
    <3> QED
      BY <1>10, <1>12, <3>1 DEF Awaited, KeyOf
  <2>1. intent'[i] = intent[i] /\ intent[i].at \in Times
    BY <1>2, <1>4, KeyFacts
  <2>2. ~(intent[i].at + ReplayWindow < clock)
    BY <2>1 DEF Restarts, KeyOf
  <2> QED
    BY <1>8, <2>1, <2>2
<1> QED
  BY <1>7, <1>13, <1>14

\* At first nothing is confirmed.
LEMMA ProjectorStarts ==
    ProjectorInit => OutboxTyped /\ ScanTyped /\ Awaited /\ ProcessedKnown /\ ScanOK
<1> SUFFICES ASSUME ProjectorInit
             PROVE  OutboxTyped /\ ScanTyped /\ Awaited /\ ProcessedKnown /\ ScanOK
  OBVIOUS
<1>1. 0 \in Times /\ 1 \in 1..MaxClock /\ FALSE \in BOOLEAN /\ {} \in SUBSET Keys /\ {} \in SUBSET Times
  BY ProjectorAssumption DEF Times
<1>2. [st |-> "open", at |-> 0, real |-> FALSE] \in RowType
  BY <1>1 DEF RowType
<1>3. OutboxTyped
  <2>1. intent \in [Sends -> RowType] /\ taken \in [Sends -> Times]
    BY <1>1, <1>2 DEF ProjectorInit
  <2>2. /\ frames \in [Sends -> 0..MaxFrames] /\ restarts \in 0..MaxRestarts
        /\ projectFaults \in 0..MaxProjectFaults
    BY ProjectorAssumption DEF ProjectorInit
  <2>3. clock \in 1..MaxClock /\ woken \in BOOLEAN /\ shown \subseteq Sends \X {"request", "platform"}
    BY <1>1 DEF ProjectorInit
  <2>4. queued \subseteq Sends /\ late \subseteq Sends /\ swaps \subseteq Sends
    BY DEF ProjectorInit
  <2> QED
    BY <2>1, <2>2, <2>3, <2>4 DEF OutboxTyped
<1>4. cursor \in CursorType /\ cursor.done = {}
  BY <1>1 DEF ProjectorInit, CursorType
<1>5. scan \in ScanType /\ scan.rows = {} /\ scan.failed = {} /\ scan.seen = 0
  <2>1. scan = [at |-> "start", rows |-> {}, seen |-> 0, failed |-> {}]
    BY DEF ProjectorInit, Waiting
  <2> QED
    BY <1>1, <2>1 DEF ScanType
<1>6. told \in ToldType /\ told.run = {} /\ told.twice = {}
  BY <1>1 DEF ProjectorInit, ToldType
<1>7. ScanTyped /\ ProcessedKnown /\ ScanOK
  BY <1>4, <1>5, <1>6 DEF ScanTyped, ProcessedKnown, ScanOK
<1>8. Awaited
  BY DEF ProjectorInit, Awaited
<1> QED
  BY <1>3, <1>7, <1>8

\* The inductive invariant holds of every step of the projector and of what runs beside it.
THEOREM ProjectorHolds == ProjectorSpec => []CursorInv
<1> DEFINE I == OutboxTyped /\ ScanTyped /\ Awaited /\ ProcessedKnown /\ ScanOK
<1>1. ProjectorInit => I
  BY ProjectorStarts
<1>2. I /\ [ProjectorNext]_projectorVars => I'
  <2> SUFFICES ASSUME I, [ProjectorNext]_projectorVars PROVE I'
    OBVIOUS
  <2>1. CASE UNCHANGED projectorVars
    <3>1. OutboxTyped' /\ UNCHANGED <<cursor, scan, told, intent, late>>
      BY <2>1 DEF projectorVars, OutboxTyped
    <3> QED
      BY <3>1, OutboxActs
  <2>2. CASE ClockTicks \/ \E i \in Sends : ReadsTime(i)
    BY <2>2, TimePasses
  <2>3. ASSUME NEW i \in Sends, Confirms(i) \/ InDoubt(i) \/ EchoArrives(i) \/ Reconciles(i)
        PROVE  I'
    BY <2>3, ConfirmsIt, Doubts, Echoes, ReconcilesIt
  <2>4. CASE ListsConfirmed \/ PassesOver \/ Projects
    BY <2>4, Lists, PassesIt, ProjectsIt
  <2>5. CASE FailsToProject \/ EndsScan \/ Restarts
    BY <2>5, FailsIt, ScanEnds, RestartsIt
  <2> HIDE DEF I
  <2> QED
    BY <2>1, <2>2, <2>3, <2>4, <2>5 DEF ProjectorNext
<1>3. I => CursorInv
  BY CursorParts
<1> QED
  BY <1>1, <1>2, <1>3, PTL DEF ProjectorSpec

\* The watermark and the processed set together neither lose a confirmed row nor project
\* one again: whatever failed in a scan or was confirmed during it, a row not projected
\* is still at or above the watermark, unless it was committed at a time already passed.
THEOREM CursorExact == ProjectorSpec => []CursorIsExact
<1>1. CursorInv => CursorIsExact
  BY DEF CursorInv, Awaited, ProcessedKnown, CursorIsExact
<1> QED
  BY <1>1, ProjectorHolds, PTL

-----------------------------------------------------------------------------
(* The data directory.                                                      *)

MigrateSteps == {"idle", "locked", "cleared", "half", "seen", "copied", "built", "valid",
                 "blobs", "synced", "store", "undo", "undoBlobs", "cleanup"}
Inboxes  == [file : BOOLEAN, main : SUBSET Items, wal : SUBSET Items]
V2Stores == [from : {"none", "serve", "migrate"}, rows : SUBSET Items, full : BOOLEAN]
Staged   == [store : BOOLEAN, blobs : BOOLEAN, rows : SUBSET Items]
Migrations == [at : MigrateSteps, main : SUBSET Items, wal : SUBSET Items,
               snapshot : SUBSET Items]
ServeTypes == [at : {"down", "locked", "app", "stack", "blobs", "up"},
               mode : {"legacy", "shadow", "primary"}]
Backups   == [at : {"idle", "locked", "main", "copied"}, main : SUBSET Items]
Importers == [at : {"idle", "wrote", "syncs"}, row : Items]
SavedType == [rows : SUBSET Items, due : SUBSET Items, manifest : BOOLEAN]
Lefts == [imports : 0..MaxImports, serves : 0..MaxServes,
          kills : 0..MaxKills, refusals : 0..MaxRefusals]
DirTypes ==
    /\ inbox \in Inboxes /\ store \in V2Stores /\ (store.from = "none" => store = NoStore)
    /\ blobs \in {"none", "serve", "migrate"} /\ stage \in Staged
    /\ lock \in {"free", "serve", "migrate", "backup"}
    /\ serve \in ServeTypes /\ migrate \in Migrations /\ backup \in Backups
    /\ importer \in Importers /\ saved \in SavedType
    /\ base \subseteq Items /\ botched \in BOOLEAN /\ left \in Lefts

\* One command at a time has the lock, but for import, which takes none.
LockOK ==
    /\ serve.at # "down" => lock = "serve"
    /\ migrate.at # "idle" => lock = "migrate"
    /\ backup.at # "idle" => lock = "backup"

\* From its look at the target to its commit point a migration has no migrated store
\* beside it, and once it rolls back it has none left, unless it could not remove it.
NotYet == {"cleared", "half", "seen", "copied", "built", "valid", "blobs", "synced"}
TargetOK ==
    /\ migrate.at \in NotYet => store.from # "migrate"
    /\ migrate.at \in {"blobs", "synced"} => blobs = "migrate"
    /\ migrate.at = "undoBlobs" => store.from # "migrate" \/ botched

\* What is staged is the copy, the copy is what was hashed, and validated is what the
\* inbox still held.
StagedOK ==
    /\ migrate.at = "copied" => migrate.snapshot = migrate.main \cup migrate.wal
    /\ migrate.at = "built" => stage.rows = migrate.main \cup migrate.wal
    /\ migrate.at \in {"valid", "blobs", "synced"} => base \subseteq stage.rows

\* A daemon that writes a v2 store has one: no rollback removes it meanwhile.
StoreThere == serve.at \in {"stack", "blobs", "up"} /\ serve.mode # "legacy" => store.from # "none"

DirInv == DirTypes /\ LockOK /\ StoreThere /\ TargetOK /\ StagedOK /\ PublishedWhole

\* What is spent is counted down.
LEMMA LeftFits ==
    ASSUME left \in Lefts
    PROVE  /\ left.serves > 0 => [left EXCEPT !.serves = @ - 1] \in Lefts
           /\ left.imports > 0 => [left EXCEPT !.imports = @ - 1] \in Lefts
           /\ left.kills > 0 => [left EXCEPT !.kills = @ - 1] \in Lefts
           /\ left.refusals > 0 => [left EXCEPT !.refusals = @ - 1] \in Lefts
    BY DirAssumption DEF DirAssumption, Lefts

\* A daemon adds rows and creates what is missing; it starts only with the lock.
LEMMA ServeKeeps == ASSUME DirInv, ServeStep PROVE DirInv'
    <1>1. /\ DirTypes /\ NoStore \in V2Stores /\ NoStore.from = "none"
          /\ Legacy \subseteq Items
      BY DEF DirInv, DirTypes, NoStore, V2Stores, Legacy, Inboxes
    <1>2. CASE ServeStarts
      <2>1. left' \in Lefts BY <1>1, <1>2, LeftFits DEF ServeStarts, DirTypes
      <2>2. serve' \in ServeTypes /\ serve'.at = "locked" BY <1>2 DEF ServeStarts, ServeTypes
      <2>3. lock = "free" /\ lock' = "serve" BY <1>2 DEF ServeStarts
      <2>4. UNCHANGED <<inbox, store, blobs, stage, migrate, backup, importer, saved, base,
                        botched>>
        BY <1>2 DEF ServeStarts
      <2>5. QED
        BY <1>1, <2>1, <2>2, <2>3, <2>4 DEF DirInv, DirTypes, LockOK, StoreThere, TargetOK, StagedOK,
                                            PublishedWhole
    <1>3. CASE OpenApp
      BY <1>1, <1>3 DEF OpenApp, DirInv, DirTypes, LockOK, StoreThere, TargetOK, StagedOK, PublishedWhole,
                        ServeTypes, Inboxes
    <1>4. CASE OpenStore
      BY <1>1, <1>4 DEF OpenStore, Provisioned, DirInv, DirTypes, LockOK, StoreThere, TargetOK, StagedOK,
                        PublishedWhole, ServeTypes, V2Stores
    <1>5. CASE OpenBlobs
      BY <1>1, <1>5 DEF OpenBlobs, DirInv, DirTypes, LockOK, StoreThere, TargetOK, StagedOK, PublishedWhole,
                        ServeTypes
    <1>6. CASE Checkpoint \/ ServeStops \/ \E i \in Items : Receive(i)
      <2>1. /\ inbox' \in Inboxes
            /\ store' \in V2Stores /\ store'.from = store.from /\ store.rows \subseteq store'.rows
            /\ serve.mode = "legacy" => store' = store
            /\ serve' \in ServeTypes
        <3>1. CASE Checkpoint
          BY <1>1, <3>1 DEF Checkpoint, DirTypes, Inboxes, V2Stores
        <3>2. CASE ServeStops
          BY <1>1, <3>2 DEF ServeStops, DirTypes, Inboxes, V2Stores, ServeTypes
        <3>3. ASSUME NEW i \in Items, Receive(i)
              PROVE  /\ inbox' \in Inboxes /\ serve' \in ServeTypes
                     /\ store' \in V2Stores /\ store'.from = store.from
                     /\ store.rows \subseteq store'.rows
                     /\ serve.mode = "legacy" => store' = store
          BY <1>1, <3>3 DEF Receive, DirTypes, Inboxes, V2Stores
        <3>4. QED BY <1>6, <3>1, <3>2, <3>3
      <2>2. serve'.mode = serve.mode /\ serve'.at \in {serve.at, "down"}
        BY <1>1, <1>6 DEF Checkpoint, ServeStops, Receive, DirTypes, ServeTypes
      <2>3. serve.at = "up" /\ (lock' = lock \/ (lock' = "free" /\ serve'.at = "down"))
        BY <1>1, <1>6 DEF Checkpoint, ServeStops, Receive, DirTypes, ServeTypes
      <2>4. UNCHANGED <<blobs, stage, migrate, backup, importer, saved, base, botched, left>>
        BY <1>6 DEF Checkpoint, ServeStops, Receive
      <2>5. lock = "serve" /\ migrate.at = "idle" /\ backup.at = "idle"
        BY <2>3 DEF DirInv, LockOK
      <2>6. store'.from = "none" => store' = NoStore
        BY <2>1, <2>3 DEF DirInv, StoreThere, DirTypes
      <2>7. DirTypes' BY <1>1, <2>1, <2>3, <2>4, <2>6 DEF DirTypes
      <2>8. LockOK' /\ StoreThere' /\ TargetOK' /\ StagedOK'
        BY <2>1, <2>2, <2>3, <2>4, <2>5 DEF DirInv, LockOK, StoreThere, TargetOK, StagedOK
      <2>9. PublishedWhole' BY <2>1, <2>4 DEF DirInv, PublishedWhole
      <2>10. QED BY <2>7, <2>8, <2>9 DEF DirInv
    <1>7. QED BY <1>2, <1>3, <1>4, <1>5, <1>6 DEF ServeStep

\* A step of a migration that touches nothing but its own place, its records of the
\* files, the stage and what is left.
LEMMA MigrateGoesOn ==
    ASSUME DirInv, UNCHANGED <<inbox, store, blobs, lock, serve, backup, importer, saved, botched>>,
           migrate.at # "idle", migrate' \in Migrations, migrate'.at # "idle",
           stage' \in Staged, left' \in Lefts, base' \subseteq Items,
           migrate'.at \in NotYet => store.from # "migrate",
           migrate'.at \in {"blobs", "synced"} => blobs = "migrate",
           migrate'.at = "undoBlobs" => store.from # "migrate" \/ botched,
           store.from = "migrate" /\ ~botched => base' \subseteq store.rows,
           StagedOK'
    PROVE  DirInv'
    BY DEF DirInv, DirTypes, LockOK, StoreThere, TargetOK, PublishedWhole

\* Going on without more.
LEMMA StepFits ==
    ASSUME migrate \in Migrations, NEW at \in MigrateSteps, GoesTo(at)
    PROVE  /\ migrate' \in Migrations /\ migrate'.at = at /\ migrate'.main = migrate.main
           /\ migrate'.wal = migrate.wal /\ migrate'.snapshot = migrate.snapshot
    BY DEF GoesTo, Migrations

\* Up to the gates.
LEMMA PrepareKeeps ==
    ASSUME DirInv, \/ MigrateStarts \/ ClearStage \/ HashDatabase \/ HashWal \/ CopySource
                   \/ BuildStage \/ ValidateStage
    PROVE  DirInv'
    <1>1. /\ DirTypes /\ migrate \in Migrations /\ inbox \in Inboxes /\ stage \in Staged
          /\ left \in Lefts /\ base \subseteq Items /\ NoStage \in Staged
          /\ Legacy \subseteq Items
      BY DEF DirInv, DirTypes, NoStage, Staged, Legacy, Inboxes
    <1>2. {"locked", "cleared", "half", "seen", "copied", "built", "valid", "cleanup"}
             \subseteq MigrateSteps
      BY DEF MigrateSteps
    <1>3. CASE MigrateStarts
      <2>1. migrate' \in Migrations /\ migrate'.at = "locked"
        BY <1>1, <1>2, <1>3, StepFits DEF MigrateStarts
      <2>2. /\ lock = "free" /\ lock' = "migrate"
            /\ UNCHANGED <<inbox, store, blobs, stage, serve, backup, importer, saved, base,
                           botched, left>>
        BY <1>3 DEF MigrateStarts
      <2>3. QED
        BY <1>1, <2>1, <2>2 DEF DirInv, DirTypes, LockOK, StoreThere, TargetOK, StagedOK, NotYet,
                                PublishedWhole
    <1>4. CASE ClearStage
      <2>1. /\ migrate' \in Migrations /\ migrate.at = "locked"
            /\ migrate'.at \in {"cleanup", "cleared"}
            /\ migrate'.at = "cleared" => store.from = "none"
        BY <1>1, <1>2, <1>4, StepFits DEF ClearStage, Canonical
      <2>2. StagedOK' BY <2>1 DEF StagedOK
      <2>3. /\ UNCHANGED <<inbox, store, blobs, lock, serve, backup, importer, saved, base,
                           botched, left>>
            /\ stage' = NoStage
        BY <1>4 DEF ClearStage
      <2>4. store.from = "migrate" /\ ~botched => base' \subseteq store.rows
        BY <2>3 DEF DirInv, PublishedWhole
      <2>5. QED BY <1>1, <2>1, <2>2, <2>3, <2>4, MigrateGoesOn DEF NotYet
    <1>5. CASE HashDatabase \/ HashWal \/ CopySource
      <2>1. /\ UNCHANGED <<inbox, store, blobs, stage, lock, serve, backup, importer, saved,
                           base, botched, left>>
            /\ migrate.at \in {"cleared", "half", "seen"}
        BY <1>5 DEF HashDatabase, HashWal, CopySource
      <2>2. /\ migrate' \in Migrations
            /\ migrate'.at \in {"half", "seen", "copied", "cleanup"}
            /\ migrate'.at = "copied" => migrate'.snapshot = migrate'.main \cup migrate'.wal
        <3>1. CASE HashDatabase BY <1>1, <1>2, <3>1 DEF HashDatabase, Migrations, Inboxes
        <3>2. CASE HashWal BY <1>1, <1>2, <3>2 DEF HashWal, Migrations, Inboxes
        <3>3. CASE CopySource /\ Unchanged
                   /\ migrate' = [migrate EXCEPT !.at = "copied",
                                                 !.snapshot = migrate.main \cup migrate.wal]
          BY <1>1, <1>2, <3>3 DEF Migrations
        <3>4. CASE CopySource /\ GoesTo("cleanup") BY <1>1, <1>2, <3>4, StepFits
        <3>5. QED BY <1>5, <3>1, <3>2, <3>3, <3>4 DEF CopySource
      <2>3. StagedOK' BY <2>2 DEF StagedOK
      <2>4. store.from = "migrate" /\ ~botched => base' \subseteq store.rows
        BY <2>1 DEF DirInv, PublishedWhole
      <2>5. store.from # "migrate" BY <2>1 DEF DirInv, TargetOK, NotYet
      <2>6. QED BY <1>1, <2>1, <2>2, <2>3, <2>4, <2>5, MigrateGoesOn
    <1>6. CASE BuildStage \/ ValidateStage
      <2>1. /\ UNCHANGED <<inbox, store, blobs, lock, serve, backup, importer, saved,
                           botched, left>>
            /\ migrate.at \in {"copied", "built"}
        BY <1>6 DEF BuildStage, ValidateStage
      <2>2. store.from # "migrate" BY <2>1 DEF DirInv, TargetOK, NotYet
      <2>3. CASE BuildStage
        <3>1. /\ migrate' \in Migrations /\ migrate'.at = "built" /\ migrate.at = "copied"
              /\ migrate'.main = migrate.main /\ migrate'.wal = migrate.wal
          BY <1>1, <1>2, <2>3, StepFits DEF BuildStage
        <3>2. stage' \in Staged /\ stage'.rows = migrate.snapshot /\ base' = base
          BY <1>1, <2>3 DEF BuildStage, Staged, Migrations
        <3>3. StagedOK' BY <3>1, <3>2 DEF DirInv, StagedOK
        <3>4. QED BY <1>1, <2>1, <2>2, <3>1, <3>2, <3>3, MigrateGoesOn
      <2>4. CASE ValidateStage
        <3>1. /\ migrate' \in Migrations /\ migrate.at = "built" /\ stage' = stage
              /\ \/ migrate'.at = "valid" /\ Unchanged /\ base' = Legacy
                 \/ migrate'.at = "cleanup" /\ base' = base
          BY <1>1, <1>2, <2>4, StepFits DEF ValidateStage
        <3>2. migrate'.at = "valid" => base' = stage.rows
          BY <3>1 DEF DirInv, StagedOK, Unchanged, Legacy
        <3>3. StagedOK' BY <3>1, <3>2 DEF StagedOK
        <3>4. base' \subseteq Items BY <1>1, <3>1
        <3>5. QED BY <1>1, <2>1, <2>2, <3>1, <3>3, <3>4, MigrateGoesOn
      <2>5. QED BY <1>6, <2>3, <2>4
    <1>7. QED BY <1>3, <1>4, <1>5, <1>6

\* The publication, and its way back.
LEMMA PublishKeeps ==
    ASSUME DirInv, \/ PublishBlobs \/ SyncBlobs \/ PublishStore \/ SyncStore
                   \/ RemoveStore \/ RemoveBlobs \/ MigrateEnds
    PROVE  DirInv'
    <1>1. /\ DirTypes /\ migrate \in Migrations /\ stage \in Staged
          /\ left \in Lefts /\ base \subseteq Items /\ NoStage \in Staged
          /\ IdleMigrate \in Migrations /\ IdleMigrate.at = "idle"
          /\ NoStore \in V2Stores /\ NoStore.from = "none"
      BY DEF DirInv, DirTypes, NoStage, Staged, IdleMigrate, Migrations, MigrateSteps, NoStore,
             V2Stores
    <1>2. {"blobs", "synced", "store", "undo", "undoBlobs", "cleanup"} \subseteq MigrateSteps
      BY DEF MigrateSteps
    <1>3. left' = left \/ Refusal => left' \in Lefts BY <1>1, LeftFits DEF Refusal
    <1>4. UNCHANGED <<inbox, serve, backup, importer, saved, base>>
      BY DEF PublishBlobs, SyncBlobs, PublishStore, SyncStore, RemoveStore, RemoveBlobs,
             MigrateEnds
    <1>5. migrate.at # "idle" /\ lock = "migrate" /\ serve.at = "down" /\ backup.at = "idle"
      BY DEF PublishBlobs, SyncBlobs, PublishStore, SyncStore, RemoveStore, RemoveBlobs,
             MigrateEnds, DirInv, LockOK
    <1>6. CASE PublishBlobs
      <2>1. /\ migrate' \in Migrations /\ migrate.at = "valid"
            /\ \/ /\ migrate'.at = "blobs" /\ blobs' = "migrate" /\ store.from = "none"
                  /\ stage' = [stage EXCEPT !.blobs = FALSE] /\ left' = left
               \/ /\ migrate'.at = "cleanup" /\ UNCHANGED <<blobs, stage>>
                  /\ (left' = left \/ Refusal)
            /\ UNCHANGED <<store, lock, botched>>
        BY <1>1, <1>2, <1>6, StepFits DEF PublishBlobs, Canonical
      <2>2. stage' \in Staged /\ stage'.rows = stage.rows BY <1>1, <2>1 DEF Staged
      <2>3. left' \in Lefts BY <1>3, <2>1
      <2>4. StagedOK' BY <1>4, <2>1, <2>2 DEF DirInv, StagedOK
      <2>5. QED
        BY <1>1, <1>4, <1>5, <2>1, <2>2, <2>3, <2>4 DEF DirInv, DirTypes, LockOK, StoreThere,
            TargetOK, NotYet, PublishedWhole
    <1>7. CASE SyncBlobs \/ SyncStore
      <2>1. /\ migrate' \in Migrations
            /\ \/ migrate.at = "blobs" /\ migrate'.at \in {"synced", "undoBlobs"}
               \/ migrate.at = "store" /\ migrate'.at \in {"cleanup", "undo"}
            /\ left' = left \/ Refusal
            /\ UNCHANGED <<store, blobs, stage, lock, botched>>
        BY <1>1, <1>2, <1>7, StepFits DEF SyncBlobs, SyncStore
      <2>2. left' \in Lefts BY <1>3, <2>1
      <2>3. StagedOK' BY <1>4, <2>1 DEF DirInv, StagedOK
      <2>4. QED
        BY <1>1, <1>4, <1>5, <2>1, <2>2, <2>3 DEF DirInv, DirTypes, LockOK, StoreThere,
            TargetOK, NotYet, PublishedWhole
    <1>8. CASE PublishStore
      <2>1. /\ migrate' \in Migrations /\ migrate.at = "synced"
            /\ \/ /\ store' = [from |-> "migrate", rows |-> stage.rows, full |-> TRUE]
                  /\ stage' = [stage EXCEPT !.store = FALSE]
                  /\ migrate'.at = "store" /\ left' = left
               \/ /\ UNCHANGED <<store, stage>> /\ migrate'.at = "undoBlobs" /\ Refusal
            /\ UNCHANGED <<blobs, lock, botched>>
        BY <1>1, <1>2, <1>8, StepFits DEF PublishStore
      <2>2. stage' \in Staged BY <1>1, <2>1 DEF Staged
      <2>3. left' \in Lefts BY <1>3, <2>1
      <2>4. StagedOK' BY <2>1 DEF StagedOK
      <2>5. CASE store' = [from |-> "migrate", rows |-> stage.rows, full |-> TRUE]
        <3>1. /\ store' \in V2Stores /\ store'.from = "migrate" /\ store'.rows = stage.rows
          BY <1>1, <2>5 DEF V2Stores, Staged
        <3>2. base \subseteq stage.rows /\ blobs = "migrate"
          BY <2>1 DEF DirInv, StagedOK, TargetOK
        <3>3. migrate'.at \in {"store", "undoBlobs"} BY <2>1
        <3>4. store.from # "migrate" BY <2>1 DEF DirInv, TargetOK, NotYet
        <3>5. migrate'.at = "store" BY <2>1, <3>1, <3>4
        <3>6. QED
          BY <1>1, <1>4, <1>5, <2>1, <2>2, <2>3, <2>4, <3>1, <3>2, <3>5
             DEF DirInv, DirTypes, LockOK, StoreThere, TargetOK, NotYet, PublishedWhole
      <2>6. CASE store' = store /\ migrate'.at = "undoBlobs"
        BY <1>1, <1>4, <1>5, <2>1, <2>2, <2>3, <2>4, <2>6
           DEF DirInv, DirTypes, LockOK, StoreThere, TargetOK, NotYet, PublishedWhole
      <2>7. QED BY <2>1, <2>5, <2>6
    <1>9. CASE RemoveStore
      <2>1. /\ migrate' \in Migrations /\ migrate.at = "undo" /\ migrate'.at = "undoBlobs"
            /\ \/ store' = NoStore /\ UNCHANGED <<left, botched>>
               \/ Refusal /\ botched' = TRUE /\ UNCHANGED store
            /\ UNCHANGED <<blobs, stage, lock>>
        BY <1>1, <1>2, <1>9, StepFits DEF RemoveStore
      <2>2. left' \in Lefts BY <1>3, <2>1
      <2>3. StagedOK' BY <2>1 DEF StagedOK
      <2>4. QED
        BY <1>1, <1>4, <1>5, <2>1, <2>2, <2>3
           DEF DirInv, DirTypes, LockOK, StoreThere, TargetOK, NotYet, PublishedWhole
    <1>10. CASE RemoveBlobs
      <2>1. /\ migrate' \in Migrations /\ migrate.at = "undoBlobs" /\ migrate'.at = "cleanup"
            /\ blobs' \in {"none", blobs} /\ (left' = left \/ Refusal)
            /\ UNCHANGED <<store, stage, lock, botched>>
        BY <1>1, <1>2, <1>10, StepFits DEF RemoveBlobs
      <2>2. left' \in Lefts BY <1>3, <2>1
      <2>3. StagedOK' BY <2>1 DEF StagedOK
      <2>4. store.from # "migrate" \/ botched BY <2>1 DEF DirInv, TargetOK
      <2>5. QED
        BY <1>1, <1>4, <1>5, <2>1, <2>2, <2>3, <2>4
           DEF DirInv, DirTypes, LockOK, StoreThere, TargetOK, NotYet, PublishedWhole
    <1>11. CASE MigrateEnds
      <2>1. /\ migrate' = IdleMigrate /\ stage' = NoStage /\ lock' = "free"
            /\ UNCHANGED <<store, blobs, botched, left>>
        BY <1>11 DEF MigrateEnds
      <2>2. StagedOK' BY <1>1, <2>1 DEF StagedOK
      <2>3. QED
        BY <1>1, <1>4, <1>5, <2>1, <2>2
           DEF DirInv, DirTypes, LockOK, StoreThere, TargetOK, NotYet, PublishedWhole
    <1>12. QED BY <1>6, <1>7, <1>8, <1>9, <1>10, <1>11

\* Backups only read, and imports only add.
LEMMA OthersKeep ==
    ASSUME DirInv, \/ BackupStep \/ ImportStep
                   \/ \E p \in {"serve", "migrate", "backup", "import"} : Kill(p)
                   \/ UNCHANGED dirVars
    PROVE  DirInv'
    <1>1. /\ DirTypes /\ Legacy \subseteq Items /\ inbox \in Inboxes /\ left \in Lefts
          /\ IdleMigrate \in Migrations /\ IdleMigrate.at = "idle"
      BY DEF DirInv, DirTypes, Legacy, Inboxes, IdleMigrate, Migrations, MigrateSteps
    <1>2. CASE BackupStep
      <2>1. /\ backup' \in Backups /\ saved' \in SavedType
            /\ UNCHANGED <<inbox, store, blobs, stage, serve, migrate, importer, base, botched,
                           left>>
            /\ \/ lock = "free" /\ lock' = "backup"
               \/ backup.at # "idle" /\ lock' = lock
               \/ backup.at # "idle" /\ lock' = "free" /\ backup'.at = "idle"
        <3>1. CASE BackupStarts
          BY <1>1, <3>1 DEF BackupStarts, DirTypes, Backups, SavedType
        <3>2. CASE VacuumInto BY <1>1, <3>2 DEF VacuumInto, DirTypes, Backups, SavedType
        <3>3. CASE CopyDatabase
          BY <1>1, <3>3 DEF CopyDatabase, DirTypes, Backups, SavedType, Inboxes
        <3>4. CASE CopyWal
          BY <1>1, <3>4 DEF CopyWal, DirTypes, Backups, SavedType, Inboxes
        <3>5. CASE WriteManifest BY <1>1, <3>5 DEF WriteManifest, DirTypes, Backups, SavedType
        <3>6. QED BY <1>2, <3>1, <3>2, <3>3, <3>4, <3>5 DEF BackupStep
      <2>2. QED
        BY <1>1, <2>1 DEF DirInv, DirTypes, LockOK, StoreThere, TargetOK, StagedOK,
                          PublishedWhole
    <1>3. CASE ImportStep
      <2>1. /\ inbox' \in Inboxes /\ importer' \in Importers /\ left' \in Lefts
            /\ store' \in V2Stores /\ store.rows \subseteq store'.rows
            /\ store'.from = "none" => store' = NoStore
            /\ store'.from = store.from \/ (store.from = "none" /\ store'.from = "serve")
            /\ UNCHANGED <<blobs, stage, lock, serve, migrate, backup, saved, base, botched>>
        <3>1. InboxClosed \in Inboxes BY <1>1 DEF InboxClosed, Inboxes
        <3>2. ASSUME NEW i \in Items, ImportWrites(i)
              PROVE  /\ inbox' \in Inboxes /\ importer' \in Importers
                     /\ left' \in Lefts /\ store' = store
                     /\ UNCHANGED <<blobs, stage, lock, serve, migrate, backup, saved, base,
                                    botched>>
          <4>1. left' \in Lefts BY <1>1, <3>2, LeftFits DEF ImportWrites
          <4>2. QED BY <1>1, <3>2, <4>1 DEF ImportWrites, Inboxes, Importers
        <3>3. ASSUME ImportLooks
              PROVE  /\ inbox' \in Inboxes /\ importer' \in Importers
                     /\ left' \in Lefts /\ store' = store
                     /\ UNCHANGED <<blobs, stage, lock, serve, migrate, backup, saved, base,
                                    botched>>
          BY <1>1, <3>1, <3>3 DEF ImportLooks, DirTypes, Importers
        <3>4. CASE SyncInto
          <4>1. /\ Provisioned \in V2Stores /\ Provisioned.from # "none"
                /\ Provisioned.from = store.from \/ (store.from = "none" /\ Provisioned.from = "serve")
                /\ store.rows \subseteq Provisioned.rows
            BY <1>1 DEF DirTypes, Provisioned, NoStore, V2Stores
          <4>2. importer.row \in Items BY <1>1 DEF DirTypes, Importers
          <4>3. StoreInUse \in BOOLEAN BY DEF StoreInUse
          <4>4. store' = [Provisioned EXCEPT !.rows = Provisioned.rows \cup {importer.row},
                                             !.full = Provisioned.full \/ ~StoreInUse]
            BY <3>4 DEF SyncInto
          <4>5. /\ store' \in V2Stores /\ store'.from = Provisioned.from
                /\ Provisioned.rows \subseteq store'.rows
            BY <4>1, <4>2, <4>3, <4>4 DEF V2Stores
          <4>6. importer' \in Importers BY <1>1, <3>4 DEF SyncInto, DirTypes, Importers
          <4>7. /\ inbox' \in Inboxes /\ left' \in Lefts
                /\ UNCHANGED <<blobs, stage, lock, serve, migrate, backup, saved, base, botched>>
            BY <1>1, <3>1, <3>4 DEF SyncInto
          <4>8. QED BY <4>1, <4>5, <4>6, <4>7
        <3>5. QED BY <1>1, <1>3, <3>2, <3>3, <3>4 DEF ImportStep, DirTypes
      <2>2. QED
        BY <1>1, <2>1 DEF DirInv, DirTypes, LockOK, StoreThere, TargetOK, StagedOK, NotYet,
                          PublishedWhole
    <1>4. ASSUME NEW p \in {"serve", "migrate", "backup", "import"}, Kill(p) PROVE DirInv'
      <2>1. /\ UNCHANGED <<inbox, store, blobs, stage, saved, base, botched>>
            /\ lock' = IF lock = p THEN "free" ELSE lock
        BY <1>4 DEF Kill
      <2>2. left' \in Lefts BY <1>1, <1>4, LeftFits DEF Kill
      <2>3. /\ serve' \in ServeTypes /\ serve'.mode = serve.mode
            /\ serve' = serve \/ serve'.at = "down"
            /\ migrate' \in Migrations /\ (migrate' = migrate \/ migrate'.at = "idle")
            /\ backup' \in Backups /\ (backup' = backup \/ backup'.at = "idle")
            /\ importer' \in Importers
            /\ p # "serve" => serve' = serve
            /\ p # "migrate" => migrate' = migrate
            /\ p # "backup" => backup' = backup
            /\ p = "serve" => serve'.at = "down"
            /\ p = "migrate" => migrate'.at = "idle"
            /\ p = "backup" => backup'.at = "idle"
        BY <1>1, <1>4 DEF Kill, DirTypes, ServeTypes, Backups, Importers
      <2>4. DirTypes' BY <1>1, <2>1, <2>2, <2>3 DEF DirTypes
      <2>5. LockOK' BY <2>1, <2>3 DEF DirInv, LockOK
      <2>6. StoreThere' /\ TargetOK' /\ StagedOK' /\ PublishedWhole'
        BY <2>1, <2>3 DEF DirInv, StoreThere, TargetOK, StagedOK, NotYet, PublishedWhole
      <2>7. QED BY <2>4, <2>5, <2>6 DEF DirInv
    <1>5. CASE UNCHANGED dirVars
      BY <1>5 DEF dirVars, DirInv, DirTypes, LockOK, StoreThere, TargetOK, StagedOK, PublishedWhole
    <1>6. QED BY <1>2, <1>3, <1>4, <1>5

\* The inductive invariant of the data directory, whatever is imported, refused or
\* killed, and however often: the lock, the target of a migration, its stage and what
\* it published.
THEOREM DirHolds == DirSpec => []DirInv
    <1>1. ASSUME DirInit PROVE DirInv
      <2>1. (CHOOSE i \in Items : TRUE) \in Items BY DirAssumption DEF DirAssumption
      <2>2. left \in Lefts
        BY <1>1, DirAssumption DEF DirAssumption, DirInit, Lefts
      <2>3. History \subseteq Items BY DirAssumption DEF DirAssumption
      <2>4. /\ inbox \in Inboxes /\ store \in V2Stores /\ stage \in Staged
            /\ saved \in SavedType
        BY <1>1, <2>3 DEF DirInit, Inboxes, V2Stores, NoStore, Staged, NoStage, SavedType
      <2>5. /\ serve \in ServeTypes /\ migrate \in Migrations /\ backup \in Backups
            /\ importer \in Importers
        BY <1>1, <2>1 DEF DirInit, ServeTypes, IdleMigrate, Migrations, MigrateSteps, Backups,
                          Importers
      <2>6. DirTypes BY <1>1, <2>2, <2>4, <2>5 DEF DirInit, DirTypes, NoStore
      <2>7. QED
        BY <1>1, <2>6 DEF DirInit, DirInv, LockOK, StoreThere, TargetOK, NotYet, StagedOK,
                          PublishedWhole, NoStore, IdleMigrate
    <1>2. DirInv /\ [DirNext]_dirVars => DirInv'
      BY ServeKeeps, PrepareKeeps, PublishKeeps, OthersKeep DEF DirNext, MigrateStep
    <1>3. QED BY <1>1, <1>2, PTL DEF DirSpec

\* A store that bears its final name after a migration has its blobs beside it and
\* every row of the inbox the migration was validated against
\* (publishStagedMigration's commit point).
THEOREM Published == DirSpec => []PublishedWhole
    <1>1. DirInv => PublishedWhole BY DEF DirInv
    <1>2. QED BY <1>1, DirHolds, PTL

-----------------------------------------------------------------------------
(* The terminal interface: one fetch of older history at a time.            *)

\* The fields of the model and of a command.
IsUi(u) == u = [active |-> u.active, gen |-> u.gen, river |-> u.river, list |-> u.list,
                rows |-> u.rows, of |-> u.of, threaded |-> u.threaded, kind |-> u.kind,
                channel |-> u.channel, loading |-> u.loading, localDone |-> u.localDone,
                phoneDone |-> u.phoneDone]
IsCmd(r) == r = [kind |-> r.kind, conv |-> r.conv, gen |-> r.gen, arg |-> r.arg, ans |-> r.ans,
                 at |-> r.at]
Fetching == {"older", "phone"}

\* A command was issued under this opening or an earlier one; a fetch of older
\* history is for a conversation.
FlightOK ==
    \A r \in flight : /\ IsCmd(r) /\ r.gen \in Nat /\ r.gen <= ui.gen
                      /\ r.kind \in Fetching => r.conv \in Convs
UiOK == IsUi(ui) /\ ui.gen \in Nat /\ ui.active \in Convs \cup {NoConv} /\ ui.loading \in BOOLEAN
OneFetch ==
    /\ ui.active # NoConv => (ui.loading = TRUE <=> Fetches # {})
    /\ \A r, q \in Fetches : r = q
FetchInv == UiOK /\ FlightOK /\ OneFetch

\* What is not a fetch for this opening may come and go.
LEMMA NoFetchMoves ==
    ASSUME FetchInv, UiOK', ui'.active = ui.active, ui'.gen = ui.gen, ui'.loading = ui.loading,
           NEW gone \in SUBSET flight, NEW come, flight' = (flight \ gone) \cup come,
           \A r \in gone : r \notin Fetches,
           \A r \in come : IsCmd(r) /\ r.kind \notin Fetching /\ r.gen \in Nat /\ r.gen <= ui.gen
    PROVE  FetchInv'
    <1>1. Fetches' = Fetches BY DEF Fetches, Current, Fetching
    <1>2. FlightOK' BY DEF FlightOK, FetchInv
    <1>3. OneFetch' BY <1>1 DEF OneFetch, FetchInv
    <1>4. QED BY <1>2, <1>3 DEF FetchInv

\* One command more, which is none.
LEMMA OneMore ==
    ASSUME FetchInv, UiOK', ui'.active = ui.active, ui'.gen = ui.gen, ui'.loading = ui.loading,
           NEW m, flight' = flight \cup {m}, IsCmd(m), m.kind \notin Fetching, m.gen = ui.gen
    PROVE  FetchInv'
    <1>1. ui.gen \in Nat BY DEF FetchInv, UiOK
    <1>2. Fetches' = Fetches BY DEF Fetches, Current, Fetching
    <1>3. FlightOK' BY <1>1 DEF FlightOK, FetchInv
    <1>4. OneFetch' BY <1>2 DEF OneFetch, FetchInv
    <1>5. QED BY <1>3, <1>4 DEF FetchInv

\* A new opening has no fetch.
LEMMA Reopened ==
    ASSUME FetchInv, UiOK', ui'.gen = ui.gen + 1, ui'.loading = FALSE,
           NEW come, flight' = flight \cup come,
           \A r \in come : IsCmd(r) /\ r.kind \notin Fetching /\ r.gen \in Nat /\ r.gen <= ui.gen + 1
    PROVE  FetchInv'
    <1>1. \A r \in flight : r.gen \in Nat /\ r.gen <= ui.gen BY DEF FetchInv, FlightOK
    <1>2. ui.gen \in Nat BY DEF FetchInv, UiOK
    <1>3. Fetches' = {} BY <1>1, <1>2 DEF Fetches, Current, Fetching
    <1>4. FlightOK' BY <1>1, <1>2 DEF FlightOK, FetchInv
    <1>5. OneFetch' BY <1>3 DEF OneFetch
    <1>6. QED BY <1>4, <1>5 DEF FetchInv

\* A fetch that begins where none is under way.
LEMMA FetchBegins ==
    ASSUME FetchInv, NEW u, IsUi(u), u.active = ui.active, u.gen = ui.gen, u.loading \in BOOLEAN,
           NEW others \in SUBSET flight, \A r \in others : r \notin Fetches, u.loading = FALSE,
           ui' = Loading(u), flight' = others \cup LoadCmds(u)
    PROVE  FetchInv'
    <1>1. UiOK' BY DEF Loading, FetchInv, UiOK, IsUi
    <1>2. ui'.active = ui.active /\ ui'.gen = ui.gen BY DEF Loading, IsUi
    <1>3. CASE MayLoad(u)
      <2>0. PICK k \in Fetching : \E x : LoadCmds(u) = {Cmd(k, u.active, x)}
        BY <1>3 DEF LoadCmds, Fetching
      <2>1. PICK x : LoadCmds(u) = {Cmd(k, u.active, x)} BY <2>0
      <2> DEFINE c == Cmd(k, u.active, x)
      <2>2. /\ IsCmd(c) /\ c.kind \in Fetching /\ c.conv = ui.active /\ c.gen = ui.gen
        BY <2>1 DEF Cmd, IsCmd
      <2>3. u.active # NoConv BY <1>3 DEF MayLoad
      <2>4. ui'.loading = TRUE BY <1>3 DEF Loading, IsUi
      <2> HIDE DEF c
      <2>5. flight' = others \cup {c} BY <2>1 DEF c
      <2>6. Fetches' = {c} BY <1>2, <2>2, <2>5 DEF Fetches, Current, Fetching
      <2>7. FlightOK' BY <1>2, <2>2, <2>3, <2>5 DEF FetchInv, FlightOK, UiOK
      <2>8. OneFetch' BY <2>4, <2>6 DEF OneFetch
      <2>9. QED BY <1>1, <2>7, <2>8 DEF FetchInv
    <1>4. CASE ~MayLoad(u)
      <2>1. LoadCmds(u) = {} /\ ui'.loading = FALSE BY <1>4 DEF LoadCmds, Loading, IsUi
      <2>2. Fetches' = {} BY <2>1, <1>2 DEF Fetches, Current
      <2>3. FlightOK' BY <2>1, <1>2 DEF FetchInv, FlightOK
      <2>4. OneFetch' BY <2>1, <2>2 DEF OneFetch
      <2>5. QED BY <1>1, <2>3, <2>4 DEF FetchInv
    <1>5. QED BY <1>3, <1>4

\* An answer comes to a command, or it fails: it stays what it is.
LEMMA AnswerKeeps ==
    ASSUME FetchInv, NEW r \in flight, NEW x, IsCmd(x),
           x.kind = r.kind, x.conv = r.conv, x.gen = r.gen,
           ui' = ui, flight' = (flight \ {r}) \cup {x}
    PROVE  FetchInv'
    <1>1. UiOK' BY DEF FetchInv, UiOK, IsUi
    <1>2. FlightOK' BY DEF FetchInv, FlightOK
    <1>3. CASE r \in Fetches
      <2>1. Fetches = {r} BY <1>3 DEF FetchInv, OneFetch
      <2>2. Fetches' = {x} BY <2>1, <1>3 DEF Fetches, Current
      <2>3. OneFetch' BY <2>1, <2>2 DEF FetchInv, OneFetch
      <2>4. QED BY <1>1, <1>2, <2>3 DEF FetchInv
    <1>4. CASE r \notin Fetches
      <2>1. Fetches' = Fetches BY <1>4 DEF Fetches, Current
      <2>2. OneFetch' BY <2>1 DEF FetchInv, OneFetch
      <2>3. QED BY <1>1, <1>2, <2>2 DEF FetchInv
    <1>5. QED BY <1>3, <1>4

\* A fetch ends, and no other begins.
LEMMA FetchEnds ==
    ASSUME FetchInv, UiOK', NEW r \in Fetches, ui'.active = ui.active, ui'.gen = ui.gen,
           ui'.loading = FALSE, flight' = flight \ {r}
    PROVE  FetchInv'
    <1>1. Fetches' = {} BY DEF Fetches, Current, FetchInv, OneFetch
    <1>2. FlightOK' BY DEF FetchInv, FlightOK
    <1>3. OneFetch' BY <1>1 DEF OneFetch
    <1>4. QED BY <1>2, <1>3 DEF FetchInv

\* Every command the interface starts by itself is under its present opening.
LEMMA CmdFacts ==
    ASSUME UiOK, NEW k, NEW c, NEW a
    PROVE  LET m == Cmd(k, c, a) IN IsCmd(m) /\ m.kind = k /\ m.conv = c /\ m.gen = ui.gen
    BY DEF Cmd, IsCmd

\* What opening sets.
LEMMA OpenedFacts ==
    ASSUME NEW c, NEW river
    PROVE  /\ Opened(c, river).active = c /\ Opened(c, river).gen = ui.gen + 1
           /\ Opened(c, river).loading = FALSE /\ IsUi(Opened(c, river))
    <1>1. /\ Opened(c, river).active = c /\ Opened(c, river).gen = ui.gen + 1
          /\ Opened(c, river).loading = FALSE
      BY DEF Opened
    <1>2. IsUi(Opened(c, river)) BY DEF Opened, IsUi
    <1>3. QED BY <1>1, <1>2

\* The keys.
LEMMA OpensKeep == ASSUME FetchInv, NEW c \in Convs, OpenConversation(c) PROVE FetchInv'
    <1>12. PICK across \in BOOLEAN : \E river :
            /\ ui' = Opened(c, river)
            /\ flight' = flight \cup ({[Refresh(c, {}) EXCEPT !.gen = ui.gen + 1]} \cup
                                       (IF across THEN {Cmd(RiverOf(c), NoConv, 0)} ELSE {}))
      BY DEF OpenConversation, Issue
    <1>1. PICK river :
            /\ ui' = Opened(c, river)
            /\ flight' = flight \cup ({[Refresh(c, {}) EXCEPT !.gen = ui.gen + 1]} \cup
                                       (IF across THEN {Cmd(RiverOf(c), NoConv, 0)} ELSE {}))
      BY <1>12
    <1> DEFINE fresh == [Refresh(c, {}) EXCEPT !.gen = ui.gen + 1]
               come == {fresh} \cup (IF across THEN {Cmd(RiverOf(c), NoConv, 0)} ELSE {})
    <1>2. IsUi(ui) /\ ui.gen \in Nat BY DEF FetchInv, UiOK
    <1>3. ui' = Opened(c, river) BY <1>1, Zenon
    <1>4. /\ ui'.active = c /\ ui'.gen = ui.gen + 1 /\ ui'.loading = FALSE /\ IsUi(ui')
      BY <1>3, OpenedFacts
    <1>11. ui'.gen \in Nat BY <1>2, <1>4
    <1>5. UiOK' BY <1>4, <1>11 DEF UiOK
    <1>10. fresh = [kind |-> "refresh", conv |-> c, gen |-> ui.gen + 1, arg |-> LoadedWindow({}),
                   ans |-> {}, at |-> "asked"]
      BY DEF Refresh, Cmd
    <1>6. IsCmd(fresh) /\ fresh.kind = "refresh" /\ fresh.gen = ui.gen + 1
      <2> HIDE DEF fresh
      <2>1. QED BY <1>10 DEF IsCmd
    <1>7. \A r \in come : IsCmd(r) /\ r.kind \notin Fetching /\ r.gen \in Nat /\ r.gen <= ui.gen + 1
      <2>1. /\ IsCmd(Cmd(RiverOf(c), NoConv, 0)) /\ Cmd(RiverOf(c), NoConv, 0).kind \notin Fetching
            /\ Cmd(RiverOf(c), NoConv, 0).gen = ui.gen
        BY DEF Cmd, IsCmd, RiverOf, Fetching
      <2> HIDE DEF fresh
      <2>2. QED BY <1>2, <1>6, <2>1 DEF Fetching
    <1>8. flight' = flight \cup come BY <1>1
    <1> HIDE DEF come, fresh
    <1>9. QED BY <1>4, <1>5, <1>7, <1>8, Reopened

\* No key of the reader breaks the invariant.
LEMMA KeysKeep == ASSUME FetchInv, PressKey PROVE FetchInv'
    <1> UiOK /\ IsUi(ui) /\ ui.gen \in Nat BY DEF FetchInv, UiOK
    <1>1. ASSUME NEW c \in Convs, OpenConversation(c) PROVE FetchInv' BY <1>1, OpensKeep
    <1>2. CASE CycleRiver
      <2>1. PICK r \in Rivers :
              /\ ui' = [ui EXCEPT !.river = r, !.active = NoConv, !.rows = {}, !.of = NoConv,
                                  !.kind = "none", !.threaded = FALSE, !.channel = {}]
              /\ flight' = flight \cup {Cmd(r, NoConv, 0)}
        BY <1>2 DEF CycleRiver, Issue
      <2>2. /\ ui'.active = NoConv /\ ui'.gen = ui.gen /\ ui'.loading = ui.loading /\ IsUi(ui')
        BY <2>1 DEF IsUi
      <2>3. UiOK' BY <2>2 DEF UiOK
      <2>4. IsCmd(Cmd(r, NoConv, 0)) /\ Cmd(r, NoConv, 0).kind \notin Fetching
            /\ Cmd(r, NoConv, 0).gen = ui.gen
        BY DEF Cmd, IsCmd, Rivers, Fetching
      <2>5. FlightOK' BY <2>1, <2>2, <2>4 DEF FetchInv, FlightOK
      <2>6. NoConv \notin Convs BY TuiConstants DEF TuiConstants
      <2>7. Fetches' = {} BY <2>2, <2>5, <2>6 DEF Fetches, Current, FlightOK, Fetching
      <2>8. OneFetch' BY <2>2, <2>7 DEF OneFetch
      <2>9. QED BY <2>3, <2>5, <2>8 DEF FetchInv
    <1>3. CASE ScrollUp
      <2>1. CASE SlackRiver /\ ~ui.threaded
        <3>1. ui' = ui /\ flight' = flight \cup {Cmd("slack_older", ui.active, 0)}
          BY <1>3, <2>1 DEF ScrollUp, Issue
        <3>2. /\ IsCmd(Cmd("slack_older", ui.active, 0)) /\ Cmd("slack_older", ui.active, 0).kind \notin Fetching
              /\ Cmd("slack_older", ui.active, 0).gen = ui.gen
          BY DEF Cmd, IsCmd, Fetching
        <3>3. UiOK' BY <3>1 DEF UiOK
        <3>4. QED BY <3>1, <3>2, <3>3, OneMore
      <2>2. CASE ~(SlackRiver /\ ~ui.threaded)
        <3>1. MayLoad(ui) /\ ui' = Loading(ui) /\ flight' = flight \cup LoadCmds(ui)
          BY <1>3, <2>2 DEF ScrollUp, Issue
        <3>2. ui.active # NoConv /\ ui.loading = FALSE BY <3>1 DEF MayLoad, UiOK
        <3>3. Fetches = {} BY <3>2 DEF FetchInv, OneFetch
        <3>4. QED BY <3>1, <3>2, <3>3, FetchBegins
      <2>3. QED BY <2>1, <2>2
    <1>4. CASE OpenThread
      <2>1. /\ ui' = [ui EXCEPT !.threaded = TRUE, !.channel = ui.rows, !.rows = {}, !.kind = "none"]
            /\ flight' = flight \cup {Cmd("thread", ui.active, 0)}
        BY <1>4 DEF OpenThread, Issue
      <2>2. /\ ui'.active = ui.active /\ ui'.gen = ui.gen /\ ui'.loading = ui.loading /\ IsUi(ui')
        BY <2>1 DEF IsUi
      <2>3. UiOK' BY <2>2 DEF UiOK
      <2>4. /\ IsCmd(Cmd("thread", ui.active, 0)) /\ Cmd("thread", ui.active, 0).kind \notin Fetching
            /\ Cmd("thread", ui.active, 0).gen = ui.gen
        BY DEF Cmd, IsCmd, Fetching
      <2>5. QED BY <2>1, <2>2, <2>3, <2>4, OneMore
    <1>5. CASE LeaveThread
      <2>1. /\ ui' = [ui EXCEPT !.threaded = FALSE, !.rows = ui.channel, !.kind = "channel",
                                !.channel = {}]
            /\ flight' = flight \cup {Refresh(ui.active, ui.channel)}
        BY <1>5 DEF LeaveThread, Issue
      <2>2. /\ ui'.active = ui.active /\ ui'.gen = ui.gen /\ ui'.loading = ui.loading /\ IsUi(ui')
        BY <2>1 DEF IsUi
      <2>3. UiOK' BY <2>2 DEF UiOK
      <2>4. /\ IsCmd(Refresh(ui.active, ui.channel)) /\ Refresh(ui.active, ui.channel).kind \notin Fetching
            /\ Refresh(ui.active, ui.channel).gen = ui.gen
        BY DEF Refresh, Cmd, IsCmd, Fetching
      <2>5. QED BY <2>1, <2>2, <2>3, <2>4, OneMore
    <1>6. CASE TypeText
      <2>1. ui' = ui /\ flight' = flight BY <1>6 DEF TypeText
      <2>2. QED BY <2>1 DEF FetchInv, UiOK, IsUi, FlightOK, OneFetch, Fetches, Current
    <1>7. CASE PressEnter
      <2>1. ui' = ui /\ flight' = flight \cup {Cmd("send", ui.active, box.text)}
        BY <1>7 DEF PressEnter, Issue
      <2>2. UiOK' BY <2>1 DEF UiOK
      <2>3. /\ IsCmd(Cmd("send", ui.active, box.text)) /\ Cmd("send", ui.active, box.text).kind \notin Fetching
            /\ Cmd("send", ui.active, box.text).gen = ui.gen
        BY DEF Cmd, IsCmd, Fetching
      <2>4. QED BY <2>1, <2>2, <2>3, OneMore
    <1>8. QED BY <1>1, <1>2, <1>3, <1>4, <1>5, <1>6, <1>7 DEF PressKey

\* The daemon's side of a request.
LEMMA RequestsKeep ==
    ASSUME FetchInv, NEW r \in flight, Answer(r) \/ AnswerPhone(r) \/ Fail(r) PROVE FetchInv'
    <1>1. PICK ans, at : ui' = ui /\ flight' = (flight \ {r}) \cup {[r EXCEPT !.at = at, !.ans = ans]}
      <2>1. CASE Answer(r) BY <2>1 DEF Answer
      <2>2. CASE AnswerPhone(r) BY <2>2 DEF AnswerPhone
      <2>3. CASE Fail(r)
        <3>1. ui' = ui /\ flight' = (flight \ {r}) \cup {[r EXCEPT !.at = "failed"]}
          BY <2>3 DEF Fail
        <3>2. IsCmd(r) BY DEF FetchInv, FlightOK
        <3>3. [r EXCEPT !.at = "failed"] = [r EXCEPT !.at = "failed", !.ans = r.ans]
          BY <3>2 DEF IsCmd
        <3>4. QED BY <3>1, <3>3
      <2>4. QED BY <2>1, <2>2, <2>3
    <1>2. IsCmd(r) BY DEF FetchInv, FlightOK
    <1>3. PICK x : x = [r EXCEPT !.at = at, !.ans = ans] /\ flight' = (flight \ {r}) \cup {x}
      BY <1>1
    <1>4. x.kind = r.kind /\ x.conv = r.conv /\ x.gen = r.gen /\ IsCmd(x)
      BY <1>2, <1>3 DEF IsCmd
    <1>5. QED BY <1>1, <1>3, <1>4, AnswerKeeps

\* An answer that changes nothing that is fetched, and one that is not looked at.
LEMMA Dropped ==
    ASSUME FetchInv, NEW r \in flight, r \notin Fetches, UiOK', ui'.active = ui.active,
           ui'.gen = ui.gen, ui'.loading = ui.loading, flight' = flight \ {r}
    PROVE  FetchInv'
    <1>1. Fetches' = Fetches BY DEF Fetches, Current
    <1>2. FlightOK' BY DEF FlightOK, FetchInv
    <1>3. OneFetch' BY <1>1 DEF OneFetch, FetchInv
    <1>4. QED BY <1>2, <1>3 DEF FetchInv

\* A page of older history: the fetch has ended, and may go on to the phone.
LEMMA PageArrives ==
    ASSUME FetchInv, NEW r \in Fetches, NEW u, IsUi(u), u.active = ui.active, u.gen = ui.gen,
           u.loading = FALSE, NEW more \in BOOLEAN,
           ui' = IF more THEN Loading(u) ELSE u,
           flight' = (flight \ {r}) \cup (IF more THEN LoadCmds(u) ELSE {})
    PROVE  FetchInv'
    <1>1. \A q \in flight \ {r} : q \notin Fetches BY DEF FetchInv, OneFetch
    <1>2. CASE more = TRUE
      <2>1. ui' = Loading(u) /\ flight' = (flight \ {r}) \cup LoadCmds(u) BY <1>2
      <2>2. flight \ {r} \in SUBSET flight OBVIOUS
      <2>3. QED BY <1>1, <2>1, <2>2, FetchBegins
    <1>3. CASE more = FALSE
      <2>1. ui' = u /\ flight' = flight \ {r} BY <1>3
      <2>2. UiOK' BY <2>1 DEF FetchInv, UiOK
      <2>3. QED BY <2>1, <2>2, FetchEnds
    <1>4. QED BY <1>2, <1>3

\* Nor does an answer, of this opening or an earlier one.
LEMMA AnswersKeep == ASSUME FetchInv, NEW r \in flight, Deliver(r) PROVE FetchInv'
    <1> UiOK /\ IsUi(ui) /\ ui.gen \in Nat BY DEF FetchInv, UiOK
    <1>1. ASSUME Ignored(r), ~Current(r) \/ r.kind \notin Fetching PROVE FetchInv'
      <2>1. ui' = ui /\ flight' = flight \ {r} BY <1>1 DEF Ignored, Handled
      <2>2. r \notin Fetches BY <1>1 DEF Fetches, Fetching
      <2>3. UiOK' BY <2>1 DEF UiOK
      <2>4. QED BY <2>1, <2>2, <2>3, Dropped
    <1>2. ASSUME r.kind \notin Fetching, flight' = flight \ {r},
                 ui'.active = ui.active, ui'.gen = ui.gen, ui'.loading = ui.loading, IsUi(ui')
          PROVE  FetchInv'
      <2>1. r \notin Fetches BY <1>2 DEF Fetches, Fetching
      <2>2. UiOK' BY <1>2 DEF UiOK
      <2>3. QED BY <1>2, <2>1, <2>2, Dropped
    <1>3. CASE ListArrives(r)
      <2>1. /\ r.kind \notin Fetching /\ flight' = flight \ {r}
            /\ ui' = [ui EXCEPT !.list = r.kind]
        BY <1>3 DEF ListArrives, Rivers, Fetching, Handled
      <2>2. ui'.active = ui.active /\ ui'.gen = ui.gen /\ ui'.loading = ui.loading /\ IsUi(ui')
        BY <2>1 DEF IsUi
      <2>3. QED BY <1>2, <2>1, <2>2
    <1>4. CASE RefreshArrives(r)
      <2>1. r.kind \notin Fetching BY <1>4 DEF RefreshArrives, Fetching
      <2>2. CASE Current(r)
        <3>1. /\ ui' = [ui EXCEPT !.rows = r.ans, !.of = r.conv, !.kind = "channel"]
              /\ flight' = flight \ {r}
          BY <1>4, <2>2 DEF RefreshArrives, Handled
        <3>2. ui'.active = ui.active /\ ui'.gen = ui.gen /\ ui'.loading = ui.loading /\ IsUi(ui')
          BY <3>1 DEF IsUi
        <3>3. QED BY <1>2, <2>1, <3>1, <3>2
      <2>3. CASE ~Current(r) BY <1>1, <1>4, <2>1, <2>3 DEF RefreshArrives
      <2>4. QED BY <2>2, <2>3
    <1>5. CASE SlackArrives(r)
      <2>1. r.kind \notin Fetching BY <1>5 DEF SlackArrives, Fetching
      <2>2. CASE Ignored(r) BY <1>1, <2>1, <2>2
      <2>3. CASE ~Ignored(r)
        <3>1. PICK k : /\ ui' = [ui EXCEPT !.rows = r.ans, !.of = r.conv, !.kind = k]
                       /\ flight' = flight \ {r}
          BY <1>5, <2>3 DEF SlackArrives, Handled
        <3>2. ui'.active = ui.active /\ ui'.gen = ui.gen /\ ui'.loading = ui.loading /\ IsUi(ui')
          BY <3>1 DEF IsUi
        <3>3. QED BY <1>2, <2>1, <3>1, <3>2
      <2>4. QED BY <2>2, <2>3
    <1>6. CASE OlderArrives(r)
      <2>1. CASE Current(r)
        <3> DEFINE merged == ui.rows \cup r.ans
                   dry    == merged = ui.rows
                   done   == dry \/ Cardinality(r.ans) < HistoryPage
                   page   == [ui EXCEPT !.loading = FALSE, !.rows = merged, !.of = r.conv,
                                        !.localDone = @ \/ dry \/ Cardinality(r.ans) < HistoryPage]
        <3>1. /\ ui' = IF dry THEN Loading(page) ELSE page
              /\ flight' = (flight \ {r}) \cup (IF dry THEN LoadCmds(page) ELSE {})
          BY <1>6, <2>1, Zenon DEF OlderArrives, Handled
        <3>2. PICK next : next = page OBVIOUS
        <3>3. \E rows, d : next = [ui EXCEPT !.loading = FALSE, !.rows = rows, !.of = r.conv,
                                             !.localDone = d]
          BY <3>2, Zenon
        <3>4. /\ IsUi(next) /\ next.active = ui.active /\ next.gen = ui.gen
              /\ next.loading = FALSE
          BY <3>3 DEF IsUi
        <3>5. r \in Fetches BY <1>6, <2>1 DEF OlderArrives, Fetches
        <3> DEFINE more == dry
        <3>6. more \in BOOLEAN OBVIOUS
        <3>7. /\ ui' = IF more THEN Loading(next) ELSE next
              /\ flight' = (flight \ {r}) \cup (IF more THEN LoadCmds(next) ELSE {})
          BY <3>1, <3>2, Zenon
        <3> HIDE DEF page, dry, merged, more
        <3>8. QED BY <3>4, <3>5, <3>6, <3>7, PageArrives
      <2>2. CASE ~Current(r) BY <1>1, <1>6, <2>2 DEF OlderArrives
      <2>3. QED BY <2>1, <2>2
    <1>7. CASE PhoneArrives(r)
      <2>1. CASE Current(r)
        <3> DEFINE end  == [ui EXCEPT !.loading = FALSE, !.phoneDone = @ \/ r.at = "ended"]
                   page == IF r.ans = {} THEN end ELSE [end EXCEPT !.localDone = FALSE]
                   more == ~(r.ans = {})
        <3>1. /\ ui' = IF r.ans = {} THEN page ELSE Loading(page)
              /\ flight' = (flight \ {r}) \cup (IF r.ans = {} THEN {} ELSE LoadCmds(page))
          BY <1>7, <2>1, Zenon DEF PhoneArrives, Handled
        <3>2. PICK ended : ended = end OBVIOUS
        <3>3. \E d : ended = [ui EXCEPT !.loading = FALSE, !.phoneDone = d]
          BY <3>2, Zenon
        <3>4. /\ IsUi(ended) /\ ended.active = ui.active /\ ended.gen = ui.gen
              /\ ended.loading = FALSE
          BY <3>3 DEF IsUi
        <3>5. PICK next : next = IF r.ans = {} THEN ended ELSE [ended EXCEPT !.localDone = FALSE]
          OBVIOUS
        <3>6. /\ IsUi(next) /\ next.active = ui.active /\ next.gen = ui.gen
              /\ next.loading = FALSE
          BY <3>4, <3>5 DEF IsUi
        <3>7. r \in Fetches BY <1>7, <2>1 DEF PhoneArrives, Fetches
        <3>8. more \in BOOLEAN OBVIOUS
        <3>9. next = page BY <3>2, <3>5, Zenon
        <3> HIDE DEF page, end
        <3>10. /\ ui' = IF more THEN Loading(next) ELSE next
               /\ flight' = (flight \ {r}) \cup (IF more THEN LoadCmds(next) ELSE {})
          BY <3>1, <3>9
        <3> HIDE DEF more
        <3>11. QED BY <3>6, <3>7, <3>8, <3>10, PageArrives
      <2>2. CASE ~Current(r) BY <1>1, <1>7, <2>2 DEF PhoneArrives
      <2>3. QED BY <2>1, <2>2
    <1>8. CASE SentArrives(r)
      <2>1. PICK m \in {Cmd("thread", r.conv, 0), Refresh(r.conv, ui.rows)} :
              ui' = ui /\ flight' = (flight \ {r}) \cup {m} /\ r.kind = "send"
        BY <1>8 DEF SentArrives, Handled
      <2>2. IsCmd(m) /\ m.kind \notin Fetching /\ m.gen = ui.gen
        BY DEF Refresh, Cmd, IsCmd, Fetching
      <2>3. UiOK' BY <2>1 DEF UiOK
      <2>4. Fetches' = Fetches BY <2>1, <2>2 DEF Fetches, Current, Fetching
      <2>5. FlightOK' BY <2>1, <2>2 DEF FetchInv, FlightOK
      <2>6. OneFetch' BY <2>1, <2>4 DEF FetchInv, OneFetch
      <2>7. QED BY <2>3, <2>5, <2>6 DEF FetchInv
    <1>9. CASE FailureArrives(r)
      <2>1. flight' = flight \ {r} BY <1>9 DEF FailureArrives, Handled
      <2>2. CASE r.kind \notin Fetching
        <3>1. ui' = ui BY <1>9, <2>2 DEF FailureArrives, Fetching
        <3>2. QED BY <1>2, <2>1, <2>2, <3>1
      <2>3. CASE r.kind \in Fetching /\ ~Current(r)
        <3>1. ui' = ui BY <1>9, <2>3 DEF FailureArrives, Fetching
        <3>2. r \notin Fetches BY <2>3 DEF Fetches
        <3>3. UiOK' BY <3>1 DEF UiOK
        <3>4. QED BY <2>1, <3>1, <3>2, <3>3, Dropped
      <2>4. CASE r.kind \in Fetching /\ Current(r)
        <3>1. ui' = [ui EXCEPT !.loading = FALSE] BY <1>9, <2>4 DEF FailureArrives, Fetching
        <3>2. ui'.active = ui.active /\ ui'.gen = ui.gen /\ ui'.loading = FALSE /\ IsUi(ui')
          BY <3>1 DEF IsUi
        <3>3. r \in Fetches BY <2>4 DEF Fetches, Fetching
        <3>4. UiOK' BY <3>2 DEF UiOK
        <3>5. QED BY <2>1, <3>2, <3>3, <3>4, FetchEnds
      <2>5. QED BY <2>2, <2>3, <2>4
    <1>10. QED
      BY <1>3, <1>4, <1>5, <1>6, <1>7, <1>8, <1>9 DEF Deliver

\* What the fetches under way are, whatever keys are pressed and in whichever order
\* answers come: none is left over from an earlier opening of the conversation.
THEOREM FetchHolds == TuiSpec => []FetchInv
    <1>1. ASSUME TuiInit PROVE FetchInv
      <2>1. UiOK BY <1>1 DEF TuiInit, UiOK, IsUi
      <2>2. PICK m : /\ flight = {m}
                     /\ m = [kind |-> "messages", conv |-> NoConv, gen |-> 0, arg |-> 0, ans |-> {},
                             at |-> "asked"]
        BY <1>1 DEF TuiInit
      <2>3. ui.gen = 0 /\ ui.active = NoConv BY <1>1 DEF TuiInit
      <2>4. IsCmd(m) /\ m.gen = 0 /\ m.kind \notin Fetching BY <2>2 DEF IsCmd, Fetching
      <2>5. FlightOK BY <2>2, <2>3, <2>4 DEF FlightOK
      <2>6. Fetches = {} BY <2>2, <2>4 DEF Fetches, Fetching
      <2>7. OneFetch BY <2>3, <2>6 DEF OneFetch
      <2>8. QED BY <2>1, <2>5, <2>7 DEF FetchInv
    <1>2. ASSUME FetchInv, [TuiNext]_tuiVars PROVE FetchInv'
      <2>1. CASE PressKey BY <1>2, <2>1, KeysKeep
      <2>2. ASSUME NEW c \in Convs, Arrive(c) \/ IngestStores(c) PROVE FetchInv'
        <3>1. UNCHANGED <<ui, flight>> BY <2>2 DEF Arrive, IngestStores
        <3>2. QED BY <1>2, <3>1 DEF FetchInv, UiOK, IsUi, FlightOK, OneFetch, Fetches, Current
      <2>3. CASE Replies
        <3>1. PICK r \in flight : Answer(r) \/ AnswerPhone(r) \/ Fail(r) \/ Deliver(r)
          BY <2>3 DEF Replies
        <3>2. QED BY <1>2, <3>1, RequestsKeep, AnswersKeep
      <2>4. CASE StreamEvent
        <3>1. PICK m \in {Cmd("thread", ui.active, 0), Refresh(ui.active, ui.rows)} :
                ui' = ui /\ flight' = flight \cup {m}
          BY <2>4 DEF StreamEvent, Issue
        <3>2. IsCmd(m) /\ m.kind \notin Fetching /\ m.gen = ui.gen
          BY DEF Refresh, Cmd, IsCmd, Fetching
        <3>3. UiOK' BY <1>2, <3>1 DEF FetchInv, UiOK
        <3>4. QED BY <1>2, <3>1, <3>2, <3>3, OneMore
      <2>5. CASE UNCHANGED tuiVars
        BY <1>2, <2>5 DEF tuiVars, FetchInv, UiOK, IsUi, FlightOK, OneFetch, Fetches, Current
      <2>6. QED BY <1>2, <2>1, <2>2, <2>3, <2>4, <2>5 DEF TuiNext
    <1>3. QED BY <1>1, <1>2, PTL DEF TuiSpec

\* The scroll never sticks and never fetches twice: "loading older" is shown exactly
\* while one fetch for this opening of the conversation is under way
\* (loadOlderHistory, handleOlderMessages, handlePhoneOlder).
THEOREM ScrollTracksFetch == TuiSpec => []OlderTracksFetch
    <1>1. ASSUME FetchInv PROVE OlderTracksFetch
      <2>1. ui.active # NoConv => (ui.loading <=> Fetches # {})
        BY <1>1 DEF FetchInv, OneFetch, UiOK
      <2>2. CASE Fetches = {} BY <2>1, <2>2, FS_EmptySet DEF OlderTracksFetch
      <2>3. CASE Fetches # {}
        <3>1. PICK r : Fetches = {r} BY <1>1, <2>3 DEF FetchInv, OneFetch
        <3>2. Cardinality(Fetches) = 1 BY <3>1, FS_Singleton
        <3>3. QED BY <2>1, <3>2 DEF OlderTracksFetch
      <2>4. QED BY <2>2, <2>3
    <1>2. QED BY <1>1, FetchHolds, PTL

-----------------------------------------------------------------------------
(* The processes of serve.                                                  *)

\* What a process may have to undo, by the height at which it was done, and the
\* heights of the stages.
Rank == [reads |-> 1, lock |-> 2, app |-> 3, stack |-> 4, google |-> 5, whatsapp |-> 6,
         signal |-> 7, slack |-> 8]
Deeds == {"reads", "lock", "app", "stack", "google", "whatsapp", "signal", "slack"}
Height == [shape |-> 1, lock |-> 2, app |-> 3, stack |-> 4, google |-> 5, whatsapp |-> 6,
           signal |-> 7, rivers |-> 8, runners |-> 9, loops |-> 10, http |-> 11, serving |-> 12]
Climbing == {"shape", "lock", "app", "stack", "google", "whatsapp", "signal", "rivers", "runners",
             "loops", "http", "serving"}
Whereabouts == Climbing \cup {"gone", "returning"}
Due(todo) == {todo[i] : i \in 1..Len(todo)}
Sorted(todo) == \A i, j \in 1..Len(todo) : i < j => Rank[todo[j]] < Rank[todo[i]]

ProcessType == [at : Whereabouts, shape : AllShapes, deferred : Seq(Deeds),
                phase : {"next", "stopping", "stopped"}]
ControlType == [have : SUBSET Accounts, starting : SUBSET Accounts, closed : SUBSET Accounts,
                gaveUp : SUBSET Accounts]
ProcessTypes ==
    /\ process \in [Daemons -> ProcessType] /\ control \in [Daemons -> ControlType]
    /\ live \in [Daemons -> SUBSET Units] /\ opened \in [Daemons -> SUBSET Stores]
    /\ lockedBy \in Daemons \cup {0} /\ v2mode \in V2Modes

\* One process, r, with what runs in it, what it has open, and its controls.
\* On its way up it has undone nothing, and has what each stage below left.
Climbs(r, todo) ==
    r.at \in Climbing =>
        /\ r.phase = "next" /\ \A y \in todo : Rank[y] < Height[r.at]
        /\ Height[r.at] > 2 /\ TakesLock(r.shape) => "lock" \in todo
        /\ Height[r.at] > 3 => "app" \in todo
        /\ Height[r.at] > 4 /\ Transports(r.shape) /\ v2mode # "off" => "stack" \in todo
        /\ Height[r.at] \in 4..10 => Transports(r.shape)
\* What is to be undone rests on what is undone after it, and what is still to be
\* undone is still there.
Rests(r, todo) ==
    /\ "app" \in todo /\ TakesLock(r.shape) => "lock" \in todo
    /\ todo \cap (Accounts \cup {"stack"}) # {} => "app" \in todo /\ Transports(r.shape)
    /\ todo \cap Accounts # {} /\ v2mode # "off" => "stack" \in todo
Stays(r, todo, l, o) ==
    /\ "app" \in todo => "legacy" \in o
    /\ "stack" \in todo => "v2" \in o
    /\ "whatsapp" \in todo => "session" \in o
    /\ "legacy" \in o => "app" \in todo \/ (r.at = "app" /\ "sweeps" \in l)
\* What runs belongs to something that is still to be undone; what nothing waits for
\* has its stores until the process returns.
Lasting == Loose \cup {"scheduler"}
HasStores(r, todo) ==
    "app" \in todo /\ (Transports(r.shape) /\ v2mode # "off" => "stack" \in todo)
Runs(r, todo, l, o, c) ==
    /\ "sweeps" \in l => r.at = "app" /\ TakesLock(r.shape) /\ "legacy" \in o
    /\ \A x \in Accounts \cap l : x \notin c.gaveUp => x \in todo
    /\ l \cap Runners # {} => "stack" \in todo
    /\ "scheduler" \in l => Transports(r.shape)
    /\ l \cap {"slack", "rivers"} # {} => TakesLock(r.shape)
    /\ l \cap Lasting # {} => r.at = "returning" \/ HasStores(r, todo)
    /\ c.gaveUp \subseteq c.closed
    /\ c.have \ c.closed \subseteq todo /\ "whatsapp" \notin c.gaveUp
\* Halfway through an undoing.
Halfway(r, l, c) ==
    r.phase # "next" =>
        /\ r.at = "returning" /\ r.deferred # <<>>
        /\ r.phase = "stopping" => Head(r.deferred) \in Accounts
        /\ Head(r.deferred) \in Accounts =>
              /\ Head(r.deferred) \in c.closed
              /\ r.phase = "stopped" => Head(r.deferred) \notin l \ c.gaveUp
Absents(r, l, o, c) ==
    r.at = "gone" => l = {} /\ o = {} /\ c.have = {} /\ r.deferred = <<>> /\ r.phase = "next"
Fits(r, l, o, c) ==
    /\ Sorted(r.deferred) /\ Climbs(r, Due(r.deferred)) /\ Rests(r, Due(r.deferred))
    /\ Stays(r, Due(r.deferred), l, o) /\ Runs(r, Due(r.deferred), l, o, c)
    /\ Halfway(r, l, c) /\ Absents(r, l, o, c)
FitsAt(p) == Fits(process[p], live[p], opened[p], control[p])
LockKept == \A p \in Daemons : "lock" \in Due(process[p].deferred) => lockedBy = p

ServeInv == ProcessTypes /\ (\A p \in Daemons : FitsAt(p)) /\ LockKept

\* One process steps; it goes on to a stage, or returns, with more to undo.
Moves(p, r, l, o, c) ==
    /\ process' = [process EXCEPT ![p] = r] /\ live' = [live EXCEPT ![p] = l]
    /\ opened' = [opened EXCEPT ![p] = o] /\ control' = [control EXCEPT ![p] = c]
    /\ v2mode' = v2mode
LockPasses(p, r) ==
    /\ lockedBy' \in Daemons \cup {0} /\ (lockedBy' = lockedBy \/ lockedBy \in {0, p})
    /\ "lock" \in Due(r.deferred) => lockedBy' = p
HeadsTo(p, undo, next) ==
    \/ Proceed(p, undo) /\ StageAfter(process[p].at, process[p].shape) = next
    \/ Return(p, undo) /\ next = "returning"
Became(p, at, e, phase, r) ==
    /\ process' = [process EXCEPT ![p] = r] /\ r.at = at /\ r.shape = process[p].shape
    /\ r.deferred = e /\ r.phase = phase
\* It may go on to a stage with something more to undo; and has.
MayAdd(r, x, next) ==
    /\ StageAfter(r.at, r.shape) = next /\ Rank[x] = Height[r.at] /\ Height[r.at] < Height[next]
    /\ Height[next] > 2 /\ TakesLock(r.shape) => Height[r.at] > 2 \/ x = "lock"
    /\ Height[next] > 3 => Height[r.at] > 3 \/ x = "app"
    /\ Height[next] > 4 =>
          Height[r.at] > 4 \/ ~Transports(r.shape) \/ v2mode = "off" \/ x = "stack"
    /\ Height[next] \in 4..10 => Transports(r.shape)
Added(p, x, next, q) ==
    /\ process' = [process EXCEPT ![p] = q] /\ q.at = next /\ q.shape = process[p].shape
    /\ Due(q.deferred) = Due(process[p].deferred) \cup {x} /\ Sorted(q.deferred)
    /\ Climbs(q, Due(q.deferred)) /\ q.phase = "next"

\* What is to be undone grows at its head.
LEMMA DueGrows ==
    ASSUME NEW d \in Seq(Deeds), NEW x \in Deeds
    PROVE  /\ <<x>> \o d \in Seq(Deeds) /\ <<x>> \o d # <<>> /\ Head(<<x>> \o d) = x
           /\ Due(<<x>> \o d) = Due(d) \cup {x}
           /\ Sorted(d) /\ (\A y \in Due(d) : Rank[y] < Rank[x]) => Sorted(<<x>> \o d)
  <1>1. PICK e : e = <<x>> \o d
    OBVIOUS
  <1>2. e \in Seq(Deeds) /\ Len(e) = Len(d) + 1 /\ e[1] = x /\ Len(d) \in Nat
        /\ \A i \in 1..Len(d) : e[i + 1] = d[i]
    BY <1>1
  <1>3. e # <<>> /\ Head(e) = x
    BY <1>2
  <1>4. Due(e) = Due(d) \cup {x}
    <2>1. ASSUME NEW i \in 1..Len(e) PROVE e[i] \in Due(d) \cup {x}
      <3>1. i = 1 \/ (i - 1 \in 1..Len(d) /\ e[i] = d[i - 1])
        BY <1>2
      <3> QED BY <1>2, <3>1 DEF Due
    <2>2. x \in Due(e)
      BY <1>2 DEF Due
    <2>3. ASSUME NEW i \in 1..Len(d) PROVE d[i] \in Due(e)
      <3>1. i + 1 \in 1..Len(e) /\ e[i + 1] = d[i]
        BY <1>2
      <3> QED BY <3>1 DEF Due
    <2> QED BY <2>1, <2>2, <2>3 DEF Due
  <1>5. ASSUME Sorted(d), \A y \in Due(d) : Rank[y] < Rank[x],
               NEW i \in 1..Len(e), NEW j \in 1..Len(e), i < j
        PROVE  Rank[e[j]] < Rank[e[i]]
    <2>1. j - 1 \in 1..Len(d) /\ e[j] = d[j - 1]
      BY <1>2, <1>5
    <2>2. CASE i = 1
      BY <1>2, <1>5, <2>1, <2>2 DEF Due
    <2>3. CASE i # 1
      <3>1. i - 1 \in 1..Len(d) /\ e[i] = d[i - 1] /\ i - 1 < j - 1
        BY <1>2, <1>5, <2>3
      <3> QED BY <1>5, <2>1, <3>1 DEF Sorted
    <2> QED BY <2>2, <2>3
  <1> QED BY <1>1, <1>2, <1>3, <1>4, <1>5 DEF Sorted

\* And shrinks there: the head stood highest.
LEMMA DueShrinks ==
    ASSUME NEW d \in Seq(Deeds), d # <<>>, Sorted(d)
    PROVE  /\ Tail(d) \in Seq(Deeds) /\ Sorted(Tail(d)) /\ Head(d) \in Deeds
           /\ Due(d) = Due(Tail(d)) \cup {Head(d)}
           /\ \A y \in Due(Tail(d)) : Rank[y] < Rank[Head(d)]
  <1>1. PICK e : e = Tail(d)
    OBVIOUS
  <1>2. e \in Seq(Deeds) /\ Len(d) = Len(e) + 1 /\ Len(e) \in Nat /\ Head(d) = d[1]
        /\ \A i \in 1..Len(e) : e[i] = d[i + 1]
    BY <1>1
  <1>3. Head(d) \in Deeds
    BY <1>2
  <1>4. Sorted(e)
    BY <1>2 DEF Sorted
  <1>5. Due(d) = Due(e) \cup {d[1]}
    <2>1. ASSUME NEW i \in 1..Len(d) PROVE d[i] \in Due(e) \cup {d[1]}
      <3>1. i = 1 \/ (i - 1 \in 1..Len(e) /\ d[i] = e[i - 1])
        BY <1>2
      <3> QED BY <3>1 DEF Due
    <2>2. d[1] \in Due(d)
      BY <1>2 DEF Due
    <2>3. ASSUME NEW i \in 1..Len(e) PROVE e[i] \in Due(d)
      <3>1. i + 1 \in 1..Len(d) /\ d[i + 1] = e[i]
        BY <1>2
      <3> QED BY <3>1 DEF Due
    <2> QED BY <2>1, <2>2, <2>3 DEF Due
  <1>6. ASSUME NEW i \in 1..Len(e) PROVE Rank[e[i]] < Rank[d[1]]
    <2>1. i + 1 \in 1..Len(d) /\ 1 \in 1..Len(d) /\ 1 < i + 1 /\ e[i] = d[i + 1]
      BY <1>2
    <2> QED BY <2>1 DEF Sorted
  <1>7. \A y \in Due(e) : Rank[y] < Rank[d[1]]
    BY <1>6 DEF Due
  <1> QED BY <1>1, <1>2, <1>3, <1>4, <1>5, <1>7

LEMMA DueAdded ==
    ASSUME NEW d \in Seq(Deeds), Sorted(d), NEW x \in Deeds, \A y \in Due(d) : Rank[y] < Rank[x]
    PROVE  \E e \in Seq(Deeds) : /\ e = <<x>> \o d /\ e # <<>> /\ Head(e) = x
                                 /\ Due(e) = Due(d) \cup {x} /\ Sorted(e)
  BY DueGrows

LEMMA DueNothing == Due(<<>>) = {} /\ Sorted(<<>>) /\ <<>> \in Seq(Deeds)
  BY DEF Due, Sorted
LEMMA AddNothing == \A d \in Seq(Deeds) : <<>> \o d = d
  OBVIOUS

\* Heights and ranks.
LEMMA Ranks ==
    /\ Rank["reads"] = 1 /\ Rank["lock"] = 2 /\ Rank["app"] = 3 /\ Rank["stack"] = 4
    /\ Rank["google"] = 5 /\ Rank["whatsapp"] = 6 /\ Rank["signal"] = 7 /\ Rank["slack"] = 8
  BY DEF Rank
LEMMA Heights ==
    /\ Height["shape"] = 1 /\ Height["lock"] = 2 /\ Height["app"] = 3 /\ Height["stack"] = 4
    /\ Height["google"] = 5 /\ Height["whatsapp"] = 6 /\ Height["signal"] = 7
    /\ Height["rivers"] = 8 /\ Height["runners"] = 9 /\ Height["loops"] = 10
    /\ Height["http"] = 11 /\ Height["serving"] = 12
  BY DEF Height

\* The stages, and the first one of those that a shape does not pass over.
LEMMA StagesAre ==
    /\ DOMAIN Stages = 1..12 /\ Len(Stages) = 12
    /\ Stages[1] = "shape" /\ Stages[2] = "lock" /\ Stages[3] = "app" /\ Stages[4] = "stack"
    /\ Stages[5] = "google" /\ Stages[6] = "whatsapp" /\ Stages[7] = "signal"
    /\ Stages[8] = "rivers" /\ Stages[9] = "runners" /\ Stages[10] = "loops"
    /\ Stages[11] = "http" /\ Stages[12] = "serving"
  BY DEF Stages
LEMMA StagesDiffer == \A i, j \in 1..12 : Stages[i] = Stages[j] => i = j
  <1> SUFFICES ASSUME NEW i \in 1..12, NEW j \in 1..12, Stages[i] = Stages[j] PROVE i = j
    OBVIOUS
  <1>1. i \in {1, 2, 3, 4, 5, 6, 7, 8, 9, 10, 11, 12} /\ j \in {1, 2, 3, 4, 5, 6, 7, 8, 9, 10, 11, 12}
    OBVIOUS
  <1> QED BY <1>1, StagesAre

LEMMA NextStage ==
    ASSUME NEW i \in 1..12, NEW j \in (i + 1)..12, NEW shape,
           Stages[j] \notin Passes(shape),
           \A n \in (i + 1)..(j - 1) : Stages[n] \in Passes(shape)
    PROVE  StageAfter(Stages[i], shape) = Stages[j]
  <1>1. (CHOOSE k \in DOMAIN Stages : Stages[k] = Stages[i]) = i
    <2>1. \E k \in DOMAIN Stages : Stages[k] = Stages[i]
      BY StagesAre
    <2>2. (CHOOSE k \in DOMAIN Stages : Stages[k] = Stages[i]) \in DOMAIN Stages
          /\ Stages[CHOOSE k \in DOMAIN Stages : Stages[k] = Stages[i]] = Stages[i]
      BY <2>1
    <2> QED BY <2>2, StagesAre, StagesDiffer
  <1> DEFINE OK(k) == /\ Stages[k] \notin Passes(shape)
                      /\ \A n \in (i + 1)..(k - 1) : Stages[n] \in Passes(shape)
  <1>2. OK(j)
    OBVIOUS
  <1>3. \A k \in (i + 1)..12 : OK(k) => k = j
    <2> SUFFICES ASSUME NEW k \in (i + 1)..12, OK(k), k # j PROVE FALSE
      OBVIOUS
    <2>1. k < j \/ j < k
      OBVIOUS
    <2>2. k < j => k \in (i + 1)..(j - 1)
      OBVIOUS
    <2>3. j < k => j \in (i + 1)..(k - 1)
      OBVIOUS
    <2> QED BY <2>1, <2>2, <2>3
  <1>4. (CHOOSE k \in (i + 1)..12 : OK(k)) = j
    <2> HIDE DEF OK
    <2>1. (CHOOSE k \in (i + 1)..12 : OK(k)) \in (i + 1)..12 /\ OK(CHOOSE k \in (i + 1)..12 : OK(k))
      BY <1>2
    <2> QED BY <1>3, <2>1
  <1>5. Len(Stages) = 12
    BY StagesAre
  <1> QED BY <1>1, <1>4, <1>5, Zenon DEF StageAfter

\* What a shape passes over, and so where it goes on.
LEMMA PassedOver ==
    ASSUME NEW shape \in AllShapes
    PROVE  /\ "app" \notin Passes(shape) /\ "serving" \notin Passes(shape)
           /\ "lock" \in Passes(shape) <=> ~TakesLock(shape)
           /\ "http" \in Passes(shape) <=> shape \in {"stdio", "client"}
           /\ \A s \in {"stack", "google", "whatsapp", "signal", "rivers", "runners", "loops"} :
                 s \in Passes(shape) <=> ~Transports(shape)
  BY DEF Passes
LEMMA StageTable ==
    ASSUME NEW shape \in AllShapes
    PROVE  /\ TakesLock(shape) => StageAfter("shape", shape) = "lock"
           /\ ~TakesLock(shape) => StageAfter("shape", shape) = "app"
           /\ StageAfter("lock", shape) = "app"
           /\ Transports(shape) => StageAfter("app", shape) = "stack"
           /\ ~Transports(shape) => StageAfter("app", shape) \in {"http", "serving"}
           /\ Transports(shape) => /\ StageAfter("stack", shape) = "google"
                                   /\ StageAfter("google", shape) = "whatsapp"
                                   /\ StageAfter("whatsapp", shape) = "signal"
                                   /\ StageAfter("signal", shape) = "rivers"
                                   /\ StageAfter("rivers", shape) = "runners"
                                   /\ StageAfter("runners", shape) = "loops"
                                   /\ StageAfter("loops", shape) \in {"http", "serving"}
           /\ StageAfter("http", shape) = "serving"
  <1>1. ASSUME NEW i \in 1..11, Stages[i + 1] \notin Passes(shape)
        PROVE  StageAfter(Stages[i], shape) = Stages[i + 1]
    <2>1. PICK j : j = i + 1
      OBVIOUS
    <2>2. i \in 1..12 /\ j \in (i + 1)..12 /\ (i + 1)..(j - 1) = {} /\ Stages[j] \notin Passes(shape)
      BY <1>1, <2>1
    <2>3. StageAfter(Stages[i], shape) = Stages[j]
      BY <2>2, NextStage
    <2> QED BY <2>1, <2>3
  <1>2. ASSUME ~TakesLock(shape) PROVE StageAfter("shape", shape) = "app"
    <2>1. \A n \in (1 + 1)..(3 - 1) : Stages[n] \in Passes(shape)
      BY <1>2, PassedOver, StagesAre
    <2>2. Stages[3] \notin Passes(shape) /\ 1 \in 1..12 /\ 3 \in (1 + 1)..12
      BY PassedOver, StagesAre
    <2>3. StageAfter(Stages[1], shape) = Stages[3]
      BY <2>1, <2>2, NextStage
    <2> QED BY <2>3, StagesAre
  <1>3. StageAfter("lock", shape) = "app" /\ StageAfter("http", shape) = "serving"
    BY <1>1, PassedOver, StagesAre
  <1>4. ASSUME Transports(shape)
        PROVE  /\ StageAfter("app", shape) = "stack"
               /\ StageAfter("stack", shape) = "google"
               /\ StageAfter("google", shape) = "whatsapp"
               /\ StageAfter("whatsapp", shape) = "signal"
               /\ StageAfter("signal", shape) = "rivers"
               /\ StageAfter("rivers", shape) = "runners"
               /\ StageAfter("runners", shape) = "loops"
    <2>1. \A i \in {3, 4, 5, 6, 7, 8, 9} : Stages[i + 1] \notin Passes(shape)
      BY <1>4, PassedOver, StagesAre
    <2>2. \A i \in {3, 4, 5, 6, 7, 8, 9} : StageAfter(Stages[i], shape) = Stages[i + 1]
      BY <1>1, <2>1
    <2> QED BY <2>2, StagesAre
  <1>5. ASSUME NEW i \in {3, 10}, \A n \in (i + 1)..10 : Stages[n] \in Passes(shape)
        PROVE  StageAfter(Stages[i], shape) \in {"http", "serving"}
    <2>1. CASE shape \notin {"stdio", "client"}
      <3>1. Stages[11] \notin Passes(shape) /\ i \in 1..12 /\ 11 \in (i + 1)..12
            /\ \A n \in (i + 1)..(11 - 1) : Stages[n] \in Passes(shape)
        BY <1>5, <2>1, PassedOver, StagesAre
      <3>2. StageAfter(Stages[i], shape) = Stages[11]
        BY <3>1, NextStage
      <3> QED BY <3>2, StagesAre
    <2>2. CASE shape \in {"stdio", "client"}
      <3>1. Stages[12] \notin Passes(shape) /\ i \in 1..12 /\ 12 \in (i + 1)..12
        BY <1>5, PassedOver, StagesAre
      <3>2. Stages[11] \in Passes(shape)
        BY <2>2, PassedOver, StagesAre
      <3>3. \A n \in (i + 1)..(12 - 1) : Stages[n] \in Passes(shape)
        BY <1>5, <3>2
      <3>4. StageAfter(Stages[i], shape) = Stages[12]
        BY <3>1, <3>3, NextStage
      <3> QED BY <3>4, StagesAre
    <2> QED BY <2>1, <2>2
  <1>6. ASSUME ~Transports(shape) PROVE StageAfter("app", shape) \in {"http", "serving"}
    <2>1. \A n \in (3 + 1)..10 : Stages[n] \in Passes(shape)
      BY <1>6, PassedOver, StagesAre
    <2> QED BY <1>5, <2>1, StagesAre
  <1>7. StageAfter("loops", shape) \in {"http", "serving"}
    <2>1. \A n \in (10 + 1)..10 : Stages[n] \in Passes(shape)
      OBVIOUS
    <2> QED BY <1>5, <2>1, StagesAre
  <1>8. TakesLock(shape) => StageAfter("shape", shape) = "lock"
    BY <1>1, PassedOver, StagesAre
  <1> QED BY <1>2, <1>3, <1>4, <1>6, <1>7, <1>8

\* A step of one process.  The mode is never changed, and the lock passes only
\* from and to the process that takes the step.
LEMMA OneSteps ==
    ASSUME ServeInv, NEW p \in Daemons, NEW r \in ProcessType, NEW l \in SUBSET Units,
           NEW o \in SUBSET Stores, NEW c \in ControlType,
           Moves(p, r, l, o, c), Fits(r, l, o, c), LockPasses(p, r)
    PROVE  ServeInv'
  <1>1. /\ process'[p] = r /\ live'[p] = l /\ opened'[p] = o /\ control'[p] = c
        /\ \A q \in Daemons : q # p => /\ process'[q] = process[q] /\ live'[q] = live[q]
                                       /\ opened'[q] = opened[q] /\ control'[q] = control[q]
    BY DEF ServeInv, ProcessTypes, Moves
  <1>2. ProcessTypes'
    BY DEF ServeInv, ProcessTypes, Moves, LockPasses
  <1>3. ASSUME NEW q \in Daemons PROVE FitsAt(q)'
    <2>1. FitsAt(q)' <=> Fits(process'[q], live'[q], opened'[q], control'[q])
      BY DEF Moves, FitsAt, Fits, Climbs, Rests, Stays, Runs, HasStores, Halfway, Absents
    <2>2. q # p => FitsAt(q)
      BY DEF ServeInv
    <2> QED BY <1>1, <2>1, <2>2 DEF FitsAt
  <1>4. LockKept'
    <2>1. 0 \notin Daemons
      BY DEF Daemons
    <2> SUFFICES ASSUME NEW q \in Daemons, "lock" \in Due(process'[q].deferred) PROVE lockedBy' = q
      BY DEF LockKept, Due
    <2>2. CASE q = p
      BY <1>1, <2>2 DEF LockPasses
    <2>3. CASE q # p
      BY <1>1, <2>1, <2>3 DEF ServeInv, LockKept, LockPasses
    <2> QED BY <2>2, <2>3
  <1> QED BY <1>2, <1>3, <1>4 DEF ServeInv

\* A process as it is.
LEMMA ProcessAsIs ==
    ASSUME ServeInv, NEW p \in Daemons
    PROVE  /\ process[p] \in ProcessType /\ live[p] \in SUBSET Units /\ opened[p] \in SUBSET Stores
           /\ control[p] \in ControlType /\ Fits(process[p], live[p], opened[p], control[p])
           /\ live = [live EXCEPT ![p] = live[p]] /\ opened = [opened EXCEPT ![p] = opened[p]]
           /\ control = [control EXCEPT ![p] = control[p]]
           /\ process = [process EXCEPT ![p] = process[p]]
  BY DEF ServeInv, ProcessTypes, FitsAt

LEMMA ProcessFields ==
    ASSUME NEW r \in ProcessType
    PROVE  /\ r = [at |-> r.at, shape |-> r.shape, deferred |-> r.deferred, phase |-> r.phase]
           /\ r.deferred \in Seq(Deeds) /\ r.shape \in AllShapes /\ r.at \in Whereabouts
           /\ r.phase \in {"next", "stopping", "stopped"} /\ Due(r.deferred) \subseteq Deeds
  BY DEF ProcessType, Due
LEMMA ControlFields ==
    ASSUME NEW c \in ControlType
    PROVE  /\ c = [have |-> c.have, starting |-> c.starting, closed |-> c.closed, gaveUp |-> c.gaveUp]
           /\ c.have \subseteq Accounts /\ c.starting \subseteq Accounts /\ c.closed \subseteq Accounts
           /\ c.gaveUp \subseteq Accounts
  BY DEF ControlType

\* It goes on, or returns.
LEMMA Proceeds ==
    ASSUME ServeInv, NEW p \in Daemons, NEW undo, NEW e \in Seq(Deeds),
           undo \o process[p].deferred = e, NEW next \in Whereabouts,
           HeadsTo(p, undo, next)
    PROVE  \E r \in ProcessType : Became(p, next, e, process[p].phase, r)
  <1>1. PICK me \in ProcessType : me = process[p]
    BY ProcessAsIs
  <1>2. me = [at |-> me.at, shape |-> me.shape, deferred |-> me.deferred, phase |-> me.phase]
    BY ProcessFields
  <1>3. PICK r : r = [me EXCEPT !.at = next, !.deferred = e]
    OBVIOUS
  <1>4. r = [at |-> next, shape |-> me.shape, deferred |-> e, phase |-> me.phase]
    BY <1>2, <1>3
  <1>5. r \in ProcessType
    BY <1>4 DEF ProcessType
  <1>6. process' = [process EXCEPT ![p].at = next, ![p].deferred = e]
    BY DEF HeadsTo, Proceed, Return
  <1>7. process' = [process EXCEPT ![p] = r]
    <2>1. process \in [Daemons -> ProcessType]
      BY DEF ServeInv, ProcessTypes
    <2> QED BY <1>1, <1>3, <1>6, <2>1
  <1> QED BY <1>1, <1>4, <1>5, <1>7 DEF Became

\* It changes the phase, or has undone what stood highest.
LEMMA Undoes ==
    ASSUME ServeInv, NEW p \in Daemons, NEW e \in Seq(Deeds),
           NEW phase \in {"next", "stopping", "stopped"},
           \/ Undone(p) /\ phase = "next" /\ e = Tail(process[p].deferred)
           \/ Enter(p, phase) /\ e = process[p].deferred
    PROVE  \E r \in ProcessType : Became(p, process[p].at, e, phase, r)
  <1>1. PICK me \in ProcessType : me = process[p]
    BY ProcessAsIs
  <1>2. me = [at |-> me.at, shape |-> me.shape, deferred |-> me.deferred, phase |-> me.phase]
    BY ProcessFields
  <1>3. PICK r : r = [me EXCEPT !.deferred = e, !.phase = phase]
    OBVIOUS
  <1>4. r = [at |-> me.at, shape |-> me.shape, deferred |-> e, phase |-> phase]
    BY <1>2, <1>3
  <1>5. r \in ProcessType
    BY <1>4, ProcessFields DEF ProcessType
  <1>6. process \in [Daemons -> ProcessType]
    BY DEF ServeInv, ProcessTypes
  <1>7. process' = [process EXCEPT ![p] = r]
    <2>1. CASE Undone(p) /\ phase = "next" /\ e = Tail(process[p].deferred)
      <3>1. process' = [process EXCEPT ![p].deferred = e, ![p].phase = phase]
        BY <2>1 DEF Undone
      <3> QED BY <1>1, <1>3, <1>6, <3>1
    <2>2. CASE Enter(p, phase) /\ e = process[p].deferred
      <3>1. PICK q : q = [me EXCEPT !.phase = phase]
        OBVIOUS
      <3>2. q = [at |-> me.at, shape |-> me.shape, deferred |-> me.deferred, phase |-> phase]
        BY <1>2, <3>1
      <3>3. q = r
        BY <1>1, <1>4, <2>2, <3>2
      <3>4. process' = [process EXCEPT ![p].phase = phase]
        BY <2>2 DEF Enter
      <3> QED BY <1>1, <1>6, <3>1, <3>3, <3>4
    <2> QED BY <2>1, <2>2
  <1> QED BY <1>1, <1>4, <1>5, <1>7 DEF Became

\* On the way up, with nothing added to what is to be undone: the next stage is
\* higher, and what it needs is there.
LEMMA GoesUp ==
    ASSUME NEW r \in ProcessType, NEW q \in ProcessType, NEW l \in SUBSET Units,
           NEW o \in SUBSET Stores, NEW c \in ControlType, Fits(r, l, o, c), r.at \in Climbing,
           q.shape = r.shape, q.phase = r.phase, q.deferred = r.deferred,
           q.at = "returning" \/
              (/\ q.at \in Climbing /\ Height[r.at] < Height[q.at]
               /\ Height[q.at] > 2 /\ TakesLock(r.shape) => Height[r.at] > 2
               /\ Height[q.at] > 3 => Height[r.at] > 3
               /\ Height[q.at] > 4 => Height[r.at] > 4 \/ ~Transports(r.shape) \/ v2mode = "off"
               /\ Height[q.at] \in 4..10 => Transports(r.shape)),
           r.at = "app" => "sweeps" \notin l
    PROVE  Fits(q, l, o, c)
  <1>1. PICK todo : todo = Due(r.deferred)
    OBVIOUS
  <1>2. todo \subseteq Deeds
    BY <1>1, ProcessFields
  <1>3. Climbs(q, todo)
    <2>1. \A s \in Climbing : Height[s] \in 1..12
      BY Heights DEF Climbing
    <2>2. \A y \in todo : Rank[y] \in 1..8
      BY <1>2, Ranks DEF Deeds
    <2> QED BY <1>1, <2>1, <2>2 DEF Fits, Climbs, Climbing
  <1>4. Rests(q, todo) /\ Stays(q, todo, l, o) /\ Runs(q, todo, l, o, c)
    BY <1>1 DEF Fits, Rests, Stays, Runs, HasStores, Climbing
  <1>5. Halfway(q, l, c) /\ Absents(q, l, o, c)
    BY DEF Fits, Halfway, Absents, Climbs, Climbing
  <1> QED BY <1>1, <1>3, <1>4, <1>5 DEF Fits

\* The shape is chosen.
LEMMA ChooseShapeFits ==
    ASSUME ServeInv, NEW p \in Daemons, ChooseShape(p)
    PROVE  ServeInv'
  <1>1. PICK r \in ProcessType : r = process[p]
    BY ProcessAsIs
  <1>2. r.at = "shape" /\ live' = live /\ control' = control /\ lockedBy' = lockedBy
        /\ v2mode' = v2mode
    BY <1>1 DEF ChooseShape, At, Same
  <1>3. PICK l \in SUBSET Units, o \in SUBSET Stores, c \in ControlType :
          l = live[p] /\ o = opened[p] /\ c = control[p] /\ Fits(r, l, o, c)
    BY <1>1, ProcessAsIs
  <1>4. Due(r.deferred) = {} /\ r.phase = "next" /\ r.deferred \in Seq(Deeds) /\ r.shape \in AllShapes
    <2>1. Climbs(r, Due(r.deferred)) /\ r.at \in Climbing
      BY <1>2, <1>3 DEF Fits, Climbing
    <2>2. \A y \in Deeds : Rank[y] \in 1..8
      BY Ranks DEF Deeds
    <2>3. Height[r.at] = 1
      BY <1>2, Heights
    <2>4. r.phase = "next" /\ \A y \in Due(r.deferred) : Rank[y] < 1
      BY <2>1, <2>3 DEF Climbs
    <2>5. Due(r.deferred) \subseteq Deeds
      BY ProcessFields
    <2> QED BY <2>2, <2>4, <2>5, ProcessFields
  <1>5. lockedBy \in Daemons \cup {0}
    BY DEF ServeInv, ProcessTypes
  <1>6. PICK up : up = StageAfter("shape", r.shape)
    OBVIOUS
  <1>7. up = IF TakesLock(r.shape) THEN "lock" ELSE "app"
    BY <1>4, <1>6, StageTable
  <1>8. CASE opened' = opened /\ (Proceed(p, <<>>) \/ Return(p, <<>>))
    <2>1. PICK next \in {up, "returning"} :
            HeadsTo(p, <<>>, next)
      BY <1>1, <1>2, <1>6, <1>8 DEF HeadsTo
    <2>2. next \in Whereabouts
      BY <1>7, <2>1 DEF Whereabouts, Climbing
    <2>3. <<>> \o process[p].deferred = r.deferred
      BY <1>1, <1>4
    <2>10. PICK q \in ProcessType : Became(p, next, r.deferred, process[p].phase, q)
      BY <1>4, <2>1, <2>2, <2>3, Proceeds
    <2>4. /\ process' = [process EXCEPT ![p] = q] /\ q.at = next /\ q.shape = r.shape
          /\ q.deferred = r.deferred /\ q.phase = r.phase
      BY <1>1, <2>10 DEF Became
    <2>5. q.at \in Climbing =>
              /\ Height[r.at] < Height[q.at]
              /\ Height[q.at] > 2 /\ TakesLock(r.shape) => Height[r.at] > 2
              /\ ~(Height[q.at] > 3) /\ ~(Height[q.at] \in 4..10)
      BY <1>2, <1>7, <2>1, <2>4, Heights DEF Climbing
    <2>6. q.at = "returning" \/ q.at \in Climbing
      BY <1>7, <2>1, <2>4 DEF Climbing
    <2>7. r.at \in Climbing /\ (q.at \in Climbing => Height[q.at] \in 1..12)
      BY <1>2, Heights DEF Climbing
    <2>8. Fits(q, l, o, c)
      BY <1>2, <1>3, <2>4, <2>5, <2>6, <2>7, GoesUp
    <2>9. "lock" \notin Due(q.deferred)
      BY <1>4, <2>4
    <2>11. Moves(p, q, l, o, c)
      BY <1>2, <1>3, <1>8, <2>4, ProcessAsIs DEF Moves
    <2>12. LockPasses(p, q)
      BY <1>2, <1>5, <2>9 DEF LockPasses
    <2> QED BY <2>8, <2>11, <2>12, OneSteps
  <1>9. CASE r.shape = "client" /\ Proceed(p, <<"reads">>) /\ opened' = [opened EXCEPT ![p] = @ \cup {"v2"}]
    <2>0. Sorted(r.deferred) /\ "reads" \in Deeds
      BY <1>3 DEF Fits, Deeds
    <2>1. PICK e \in Seq(Deeds) :
            /\ e = <<"reads">> \o r.deferred /\ e # <<>> /\ Head(e) = "reads"
            /\ Due(e) = Due(r.deferred) \cup {"reads"} /\ Sorted(e)
      <3>1. \A y \in Due(r.deferred) : Rank[y] < Rank["reads"]
        BY <1>4
      <3> QED BY <1>4, <2>0, <3>1, DueAdded
    <2>12. Due(e) = {"reads"}
      BY <1>4, <2>1
    <2>2. up = "app" /\ up \in Whereabouts /\ ~TakesLock(r.shape) /\ ~Transports(r.shape)
      BY <1>7, <1>9 DEF TakesLock, Transports, Whereabouts, Climbing
    <2>8. HeadsTo(p, <<"reads">>, up) /\ <<"reads">> \o process[p].deferred = e
      BY <1>1, <1>2, <1>6, <1>9, <2>1 DEF HeadsTo
    <2>9. PICK q \in ProcessType : Became(p, up, e, process[p].phase, q)
      BY <2>2, <2>8, Proceeds
    <2>3. /\ process' = [process EXCEPT ![p] = q] /\ q.at = up /\ q.shape = r.shape
          /\ q.deferred = e /\ q.phase = r.phase
      BY <1>1, <2>9 DEF Became
    <2>4. PICK o2 \in SUBSET Stores : o2 = o \cup {"v2"}
      BY DEF Stores
    <2>5. opened' = [opened EXCEPT ![p] = o2]
      BY <1>3, <1>9, <2>4
    <2>6. Fits(q, l, o2, c)
      <3>1. Climbs(q, {"reads"})
        BY <1>4, <2>2, <2>3, Ranks, Heights DEF Climbs
      <3>2. Rests(q, {"reads"})
        BY DEF Rests, Accounts
      <3>3. "sweeps" \notin l /\ "legacy" \notin o
        BY <1>2, <1>3, <1>4 DEF Fits, Runs, Stays
      <3>4. Stays(q, {"reads"}, l, o2)
        BY <2>4, <3>3 DEF Stays
      <3>7. l \cap Lasting = {} /\ l \cap Runners = {} /\ Accounts \cap l \subseteq c.gaveUp
        <4>1. r.at = "shape"
          BY <1>1, <1>2 DEF ChooseShape, At
        <4>2. ~HasStores(r, Due(r.deferred))
          BY <1>4 DEF HasStores
        <4>3. Runs(r, Due(r.deferred), l, o, c)
          BY <1>3 DEF Fits
        <4> QED BY <1>4, <4>1, <4>2, <4>3 DEF Runs
      <3>8. /\ "scheduler" \in l => Transports(r.shape)
            /\ l \cap {"slack", "rivers"} # {} => TakesLock(r.shape)
            /\ c.gaveUp \subseteq c.closed /\ c.have \ c.closed \subseteq {"reads"}
            /\ "whatsapp" \notin c.gaveUp
        BY <1>3, <1>4 DEF Fits, Runs
      <3>5. Runs(q, {"reads"}, l, o2, c)
        BY <2>3, <3>3, <3>7, <3>8 DEF Runs
      <3>6. Halfway(q, l, c) /\ Absents(q, l, o2, c)
        BY <1>4, <2>2, <2>3 DEF Halfway, Absents
      <3> QED BY <2>1, <2>12, <2>3, <3>1, <3>2, <3>4, <3>5, <3>6 DEF Fits
    <2>7. "lock" \notin Due(q.deferred)
      BY <2>12, <2>3
    <2>10. Moves(p, q, l, o2, c)
      BY <1>2, <1>3, <2>3, <2>5, ProcessAsIs DEF Moves
    <2>11. LockPasses(p, q)
      BY <1>2, <1>5, <2>7 DEF LockPasses
    <2> QED BY <2>6, <2>10, <2>11, OneSteps
  <1> QED BY <1>1, <1>8, <1>9 DEF ChooseShape

\* A stage that a process may go on to from a lower one, adding nothing to undo.
Above(r, next) ==
    next = "returning" \/
       (/\ next \in Climbing /\ Height[r.at] < Height[next]
        /\ Height[next] > 2 /\ TakesLock(r.shape) => Height[r.at] > 2
        /\ Height[next] > 3 => Height[r.at] > 3
        /\ Height[next] > 4 => Height[r.at] > 4 \/ ~Transports(r.shape) \/ v2mode = "off"
        /\ Height[next] \in 4..10 => Transports(r.shape))

\* It goes on or returns, adding nothing to undo; something more may run.
LEMMA GoesOnWith ==
    ASSUME ServeInv, NEW p \in Daemons, NEW next \in Whereabouts, process[p].at \in Climbing,
           HeadsTo(p, <<>>, next), Above(process[p], next),
           process[p].at = "app" => "sweeps" \notin live[p],
           UNCHANGED <<opened, control, lockedBy, v2mode>>,
           NEW more \in SUBSET (Loose \cup Runners \cup {"scheduler"}),
           live' = [live EXCEPT ![p] = @ \cup more],
           more \cap Runners # {} => "stack" \in Due(process[p].deferred),
           "scheduler" \in more => Transports(process[p].shape),
           more \cap {"slack", "rivers"} = {},
           more \cap Lasting # {} => HasStores(process[p], Due(process[p].deferred))
    PROVE  ServeInv'
  <1>1. PICK r \in ProcessType : r = process[p]
    BY ProcessAsIs
  <1>2. PICK l \in SUBSET Units, o \in SUBSET Stores, c \in ControlType :
          l = live[p] /\ o = opened[p] /\ c = control[p] /\ Fits(r, l, o, c)
    BY <1>1, ProcessAsIs
  <1>3. r.deferred \in Seq(Deeds) /\ <<>> \o process[p].deferred = r.deferred
    BY <1>1, ProcessFields
  <1>4. PICK q \in ProcessType : Became(p, next, r.deferred, process[p].phase, q)
    BY <1>3, Proceeds
  <1>5. /\ process' = [process EXCEPT ![p] = q] /\ q.at = next /\ q.shape = r.shape
        /\ q.deferred = r.deferred /\ q.phase = r.phase
    BY <1>1, <1>4 DEF Became
  <1>6. Fits(q, l, o, c)
    BY <1>1, <1>2, <1>5, GoesUp DEF Above
  <1>7. PICK l2 \in SUBSET Units : l2 = l \cup more
    BY DEF Units
  <1>8. Fits(q, l2, o, c)
    <2>1. more \cap (Accounts \cup {"sweeps"}) = {}
      BY DEF Loose, Runners, Accounts
    <2>2. PICK todo : todo = Due(q.deferred)
      OBVIOUS
    <2>3. Stays(q, todo, l2, o)
      BY <1>6, <1>7, <2>2 DEF Fits, Stays
    <2>4. Runs(q, todo, l, o, c)
      BY <1>6, <2>2 DEF Fits
    <2>5. Runs(q, todo, l2, o, c)
      <3>1. Accounts \cap l2 = Accounts \cap l /\ ("sweeps" \in l2 => "sweeps" \in l)
        BY <1>7, <2>1
      <3>2. l2 \cap Runners # {} => "stack" \in todo
        BY <1>1, <1>5, <1>7, <2>2, <2>4 DEF Runs
      <3>3. "scheduler" \in l2 => Transports(q.shape)
        BY <1>1, <1>5, <1>7, <2>4 DEF Runs
      <3>4. l2 \cap {"slack", "rivers"} = l \cap {"slack", "rivers"}
        BY <1>7
      <3>5. l2 \cap Lasting # {} => q.at = "returning" \/ HasStores(q, todo)
        BY <1>1, <1>5, <1>7, <2>2, <2>4 DEF Runs, HasStores
      <3> QED BY <2>4, <3>1, <3>2, <3>3, <3>4, <3>5 DEF Runs
    <2>6. q.phase = "next" /\ q.at # "gone"
      BY <1>1, <1>2, <1>5 DEF Fits, Climbs, Above, Climbing
    <2>7. Halfway(q, l2, c) /\ Absents(q, l2, o, c)
      BY <2>6 DEF Halfway, Absents
    <2> QED BY <1>6, <2>2, <2>3, <2>5, <2>7 DEF Fits
  <1>9. Moves(p, q, l2, o, c)
    BY <1>2, <1>5, <1>7, ProcessAsIs DEF Moves
  <1>10. LockPasses(p, q)
    <2>1. "lock" \in Due(r.deferred) => lockedBy = p
      BY <1>1 DEF ServeInv, LockKept
    <2>2. lockedBy \in Daemons \cup {0}
      BY DEF ServeInv, ProcessTypes
    <2> QED BY <1>5, <2>1, <2>2 DEF LockPasses
  <1> QED BY <1>8, <1>9, <1>10, OneSteps

\* The same with nothing more running.
LEMMA GoesOn ==
    ASSUME ServeInv, NEW p \in Daemons, NEW next \in Whereabouts, process[p].at \in Climbing,
           HeadsTo(p, <<>>, next), Above(process[p], next),
           process[p].at = "app" => "sweeps" \notin live[p],
           UNCHANGED <<live, opened, control, lockedBy, v2mode>>
    PROVE  ServeInv'
  <1>1. PICK more \in SUBSET (Loose \cup Runners \cup {"scheduler"}) : more = {}
    OBVIOUS
  <1>2. live' = [live EXCEPT ![p] = @ \cup more]
    <2>1. live' = [live EXCEPT ![p] = live[p]]
      BY ProcessAsIs
    <2>2. live[p] \cup more = live[p]
      BY <1>1
    <2> QED BY <2>1, <2>2
  <1> QED BY <1>1, <1>2, GoesOnWith

\* It goes on with something to undo, for which its stage is named.
LEMMA Adds ==
    ASSUME ServeInv, NEW p \in Daemons, NEW next \in Climbing, NEW x \in Deeds,
           process[p].at \in Climbing, Proceed(p, <<x>>), MayAdd(process[p], x, next)
    PROVE  \E q \in ProcessType : Added(p, x, next, q)
  <1>1. PICK r \in ProcessType : r = process[p]
    BY ProcessAsIs
  <1>2. Sorted(r.deferred) /\ Climbs(r, Due(r.deferred)) /\ r.deferred \in Seq(Deeds)
    BY <1>1, ProcessAsIs, ProcessFields DEF Fits
  <1>3. r.phase = "next" /\ \A y \in Due(r.deferred) : Rank[y] < Rank[x]
    BY <1>1, <1>2 DEF Climbs, MayAdd
  <1>4. PICK e \in Seq(Deeds) : /\ e = <<x>> \o r.deferred
                                /\ Due(e) = Due(r.deferred) \cup {x} /\ Sorted(e)
    BY <1>2, <1>3, DueAdded
  <1>5. HeadsTo(p, <<x>>, next) /\ <<x>> \o process[p].deferred = e /\ next \in Whereabouts
    BY <1>1, <1>4 DEF HeadsTo, Whereabouts, MayAdd
  <1>6. PICK q \in ProcessType : Became(p, next, e, process[p].phase, q)
    BY <1>5, Proceeds
  <1>7. /\ process' = [process EXCEPT ![p] = q] /\ q.at = next /\ q.shape = r.shape
        /\ q.deferred = e /\ q.phase = "next"
    BY <1>1, <1>3, <1>6 DEF Became
  <1>8. PICK todo : todo = Due(r.deferred)
    OBVIOUS
  <1>9. Climbs(q, todo \cup {x})
    <2>1. \A s \in Climbing : Height[s] \in 1..12
      BY Heights DEF Climbing
    <2>2. \A y \in Deeds : Rank[y] \in 1..8
      BY Ranks DEF Deeds
    <2>3. todo \subseteq Deeds
      BY <1>8, ProcessFields
    <2>4. \A y \in todo \cup {x} : Rank[y] < Height[next]
      <3>1. Rank[x] < Height[next] /\ Rank[x] \in 1..8 /\ Height[next] \in 1..12
        BY <2>1, <2>2 DEF MayAdd
      <3>2. \A y \in todo : Rank[y] < Rank[x] /\ Rank[y] \in 1..8
        BY <1>3, <1>8, <2>2, <2>3
      <3> QED BY <3>1, <3>2
    <2>5. Climbs(r, todo) /\ r.at \in Climbing
      BY <1>1, <1>2, <1>8
    <2> QED BY <1>1, <1>7, <2>4, <2>5 DEF Climbs, MayAdd
  <1> QED BY <1>1, <1>4, <1>7, <1>8, <1>9 DEF Added

\* It fits, if it may rest, what it has stays and what runs may run.
LEMMA AddedFits ==
    ASSUME NEW p \in Daemons, NEW x, NEW next \in Climbing, NEW q \in ProcessType,
           Added(p, x, next, q),
           NEW l, NEW o, NEW c, NEW todo, todo = Due(process[p].deferred),
           Rests(q, todo \cup {x}), Stays(q, todo \cup {x}, l, o), Runs(q, todo \cup {x}, l, o, c)
    PROVE  Fits(q, l, o, c)
  <1>1. Halfway(q, l, c) /\ Absents(q, l, o, c)
    BY DEF Added, Halfway, Absents, Climbing
  <1> QED BY <1>1 DEF Fits, Added

\* What a step leaves alone of the stores, of the lock and of what runs.
LEMMA LockIs ==
    ASSUME ServeInv, NEW p \in Daemons
    PROVE  /\ lockedBy \in Daemons \cup {0} /\ 0 \notin Daemons
           /\ "lock" \in Due(process[p].deferred) => lockedBy = p
  BY DEF ServeInv, ProcessTypes, LockKept, Daemons

\* The lock is taken, or held by another.
LEMMA AcquireLockFits ==
    ASSUME ServeInv, NEW p \in Daemons, AcquireLock(p)
    PROVE  ServeInv'
  <1>1. PICK r \in ProcessType, l \in SUBSET Units, o \in SUBSET Stores, c \in ControlType :
          r = process[p] /\ l = live[p] /\ o = opened[p] /\ c = control[p] /\ Fits(r, l, o, c)
    BY ProcessAsIs
  <1>2. r.at = "lock" /\ UNCHANGED <<live, opened, control, v2mode>>
    BY <1>1 DEF AcquireLock, At, Same
  <1>3. Height[r.at] = 2 /\ r.at \in Climbing /\ r.shape \in AllShapes
    BY <1>2, Heights, ProcessFields DEF Climbing
  <1>4. CASE lockedBy = 0 /\ lockedBy' = p /\ Proceed(p, <<"lock">>)
    <2>1. StageAfter(r.at, r.shape) = "app" /\ "app" \in Climbing /\ "lock" \in Deeds
          /\ Rank["lock"] = 2 /\ Height["app"] = 3
      BY <1>2, <1>3, StageTable, Ranks, Heights DEF Climbing, Deeds
    <2>9. MayAdd(process[p], "lock", "app")
      BY <1>1, <1>2, <1>3, <2>1, Heights DEF MayAdd
    <2>10. PICK q \in ProcessType : Added(p, "lock", "app", q)
      BY <1>1, <1>3, <1>4, <2>1, <2>9, Adds
    <2>2. process' = [process EXCEPT ![p] = q] /\ q.at = "app" /\ q.shape = r.shape
      BY <1>1, <2>10 DEF Added
    <2>3. PICK todo : todo = Due(r.deferred)
      OBVIOUS
    <2>4. Rests(r, todo) /\ Stays(r, todo, l, o) /\ Runs(r, todo, l, o, c)
      BY <1>1, <2>3 DEF Fits
    <2>5. Rests(q, todo \cup {"lock"}) /\ Stays(q, todo \cup {"lock"}, l, o)
          /\ Runs(q, todo \cup {"lock"}, l, o, c)
      BY <1>1, <1>2, <2>2, <2>4 DEF Rests, Stays, Runs, HasStores, Accounts
    <2>6. Fits(q, l, o, c)
      BY <1>1, <2>1, <2>3, <2>5, <2>10, AddedFits
    <2>7. Moves(p, q, l, o, c)
      BY <1>1, <1>2, <2>2, ProcessAsIs DEF Moves
    <2>8. LockPasses(p, q)
      BY <1>4 DEF LockPasses
    <2> QED BY <2>6, <2>7, <2>8, OneSteps
  <1>5. CASE Return(p, <<>>) /\ UNCHANGED lockedBy
    <2>1. HeadsTo(p, <<>>, "returning") /\ "returning" \in Whereabouts /\ Above(process[p], "returning")
      BY <1>5 DEF HeadsTo, Whereabouts, Above
    <2> QED BY <1>1, <1>2, <1>3, <1>5, <2>1, GoesOn
  <1> QED BY <1>4, <1>5 DEF AcquireLock

\* The stores are opened and swept.
LEMMA OpenStoresFits ==
    ASSUME ServeInv, NEW p \in Daemons, OpenStores(p) \/ Swept(p)
    PROVE  ServeInv'
  <1>1. PICK r \in ProcessType, l \in SUBSET Units, o \in SUBSET Stores, c \in ControlType :
          r = process[p] /\ l = live[p] /\ o = opened[p] /\ c = control[p] /\ Fits(r, l, o, c)
    BY ProcessAsIs
  <1>2. r.at = "app" /\ UNCHANGED <<control, v2mode, lockedBy>>
    BY <1>1 DEF OpenStores, Swept, At, Same
  <1>3. Height[r.at] = 3 /\ r.at \in Climbing /\ r.shape \in AllShapes /\ r.at \in Whereabouts
    BY <1>2, Heights, ProcessFields DEF Climbing
  <1>4. PICK todo : todo = Due(r.deferred)
    OBVIOUS
  <1>5. Climbs(r, todo) /\ Rests(r, todo) /\ Stays(r, todo, l, o) /\ Runs(r, todo, l, o, c)
        /\ Halfway(r, l, c)
    BY <1>1, <1>4 DEF Fits
  <1>6. TakesLock(r.shape) => "lock" \in todo
    BY <1>3, <1>5 DEF Climbs
  <1>7. \A y \in todo : y \notin {"app", "stack"} \cup Accounts
    <2>1. \A y \in todo : Rank[y] < 3
      BY <1>3, <1>5 DEF Climbs
    <2> QED BY <2>1, Ranks DEF Accounts
  <1>8. lockedBy \in Daemons \cup {0} /\ ("lock" \in todo => lockedBy = p)
    BY <1>1, <1>4, LockIs
  \* It has its store, and goes on.
  <1>9. ASSUME Proceed(p, <<"app">>), NEW l2 \in SUBSET Units, NEW o2 \in SUBSET Stores,
               live' = [live EXCEPT ![p] = l2], opened' = [opened EXCEPT ![p] = o2],
               l2 \subseteq l \ {"sweeps"}, o2 = o \cup {"legacy"}
        PROVE  ServeInv'
    <2>1. PICK next \in Climbing : next = StageAfter(r.at, r.shape)
      BY <1>2, <1>3, StageTable DEF Climbing
    <2>2. Height[next] > 3 /\ (Height[next] \in 4..10 => Transports(r.shape))
          /\ (Height[next] > 4 => ~Transports(r.shape)) /\ "app" \in Deeds /\ Rank["app"] = 3
      BY <1>2, <1>3, <2>1, StageTable, Heights, Ranks DEF Deeds
    <2>10. MayAdd(process[p], "app", next)
      BY <1>1, <1>2, <1>3, <2>1, <2>2, Heights DEF MayAdd
    <2>11. PICK q \in ProcessType : Added(p, "app", next, q)
      BY <1>1, <1>3, <1>9, <2>2, <2>10, Adds
    <2>3. /\ process' = [process EXCEPT ![p] = q] /\ q.at = next /\ q.shape = r.shape
          /\ Due(q.deferred) = todo \cup {"app"}
      BY <1>1, <1>4, <2>11 DEF Added
    <2>4. Rests(q, todo \cup {"app"})
      BY <1>1, <1>5, <1>6, <1>7, <2>3 DEF Rests, Accounts
    <2>5. Stays(q, todo \cup {"app"}, l2, o2)
      BY <1>5, <1>7, <1>9 DEF Stays, Accounts
    <2>6. Runs(q, todo \cup {"app"}, l2, o2, c)
      BY <1>1, <1>2, <1>5, <1>7, <1>9, <2>3 DEF Runs, HasStores
    <2>7. Fits(q, l2, o2, c)
      BY <1>1, <1>4, <2>4, <2>5, <2>6, <2>11, AddedFits
    <2>8. Moves(p, q, l2, o2, c)
      BY <1>1, <1>2, <1>9, <2>3, ProcessAsIs DEF Moves
    <2>9. LockPasses(p, q)
      BY <1>1, <1>2, <1>4, <1>8, <2>3 DEF LockPasses
    <2> QED BY <2>7, <2>8, <2>9, OneSteps
  <1>10. CASE Swept(p)
    <2>1. PICK l2 \in SUBSET Units : l2 = l \ {"sweeps"}
      OBVIOUS
    <2>2. "sweeps" \in l
      BY <1>1, <1>10 DEF Swept
    <2>3. "legacy" \in o /\ o = o \cup {"legacy"}
      BY <1>5, <2>2 DEF Runs
    <2>4. live' = [live EXCEPT ![p] = l2] /\ opened' = [opened EXCEPT ![p] = o] /\ Proceed(p, <<"app">>)
      BY <1>1, <1>10, <2>1, ProcessAsIs DEF Swept, Same
    <2> QED BY <1>9, <2>1, <2>3, <2>4
  <1>11. ASSUME OpenStores(p), opened' = [opened EXCEPT ![p] = @ \cup {"legacy"}],
                IF process[p].shape \in {"client", "demo"} THEN Proceed(p, <<"app">>) /\ UNCHANGED live
                ELSE live' = [live EXCEPT ![p] = @ \cup {"sweeps"}] /\ UNCHANGED process
         PROVE  ServeInv'
    <2>1. PICK o2 \in SUBSET Stores : o2 = o \cup {"legacy"}
      BY DEF Stores
    <2>2. opened' = [opened EXCEPT ![p] = o2] /\ "sweeps" \notin l
      BY <1>1, <1>11, <2>1 DEF OpenStores
    <2>3. CASE Proceed(p, <<"app">>) /\ UNCHANGED live
      <3>1. live' = [live EXCEPT ![p] = l] /\ l \subseteq l \ {"sweeps"}
        BY <1>1, <2>2, <2>3, ProcessAsIs
      <3> QED BY <1>9, <2>1, <2>2, <2>3, <3>1
    <2>4. CASE r.shape \notin {"client", "demo"} /\ live' = [live EXCEPT ![p] = @ \cup {"sweeps"}]
               /\ UNCHANGED process
      <3>1. PICK l2 \in SUBSET Units : l2 = l \cup {"sweeps"}
        BY DEF Units
      <3>2. TakesLock(r.shape)
        BY <1>3, <2>4 DEF TakesLock, AllShapes
      <3>3. Stays(r, todo, l2, o2)
        BY <1>2, <1>5, <1>7, <2>1, <3>1 DEF Stays
      <3>4. Runs(r, todo, l2, o2, c)
        BY <1>2, <1>5, <2>1, <3>1, <3>2 DEF Runs, Accounts, Runners, Lasting, Loose
      <3>5. Halfway(r, l2, c) /\ Absents(r, l2, o2, c)
        BY <1>2, <1>3, <1>5 DEF Halfway, Absents, Climbs
      <3>6. Fits(r, l2, o2, c)
        BY <1>1, <1>4, <1>5, <3>3, <3>4, <3>5 DEF Fits
      <3>7. Moves(p, r, l2, o2, c)
        BY <1>1, <1>2, <2>2, <2>4, <3>1, ProcessAsIs DEF Moves
      <3>8. LockPasses(p, r)
        BY <1>2, <1>4, <1>8 DEF LockPasses
      <3> QED BY <3>6, <3>7, <3>8, OneSteps
    <2> QED BY <1>1, <1>11, <2>3, <2>4
  <1>12. CASE OpenStores(p) /\ Return(p, <<>>) /\ UNCHANGED <<opened, live>>
    <2>1. HeadsTo(p, <<>>, "returning") /\ "returning" \in Whereabouts /\ Above(process[p], "returning")
      BY <1>12 DEF HeadsTo, Whereabouts, Above
    <2>2. "sweeps" \notin live[p]
      BY <1>12 DEF OpenStores
    <2> QED BY <1>1, <1>2, <1>3, <1>12, <2>1, <2>2, GoesOn
  <1> QED BY <1>10, <1>11, <1>12 DEF OpenStores

\* The v2 store, with the stack on it.
LEMMA OpenStackFits ==
    ASSUME ServeInv, NEW p \in Daemons, OpenStack(p)
    PROVE  ServeInv'
  <1>1. PICK r \in ProcessType, l \in SUBSET Units, o \in SUBSET Stores, c \in ControlType :
          r = process[p] /\ l = live[p] /\ o = opened[p] /\ c = control[p] /\ Fits(r, l, o, c)
    BY ProcessAsIs
  <1>2. r.at = "stack" /\ UNCHANGED <<live, control, v2mode, lockedBy>>
    BY <1>1 DEF OpenStack, At, Same
  <1>3. Height[r.at] = 4 /\ r.at \in Climbing /\ r.shape \in AllShapes /\ r.at # "app"
    BY <1>2, Heights, ProcessFields DEF Climbing
  <1>4. PICK todo : todo = Due(r.deferred)
    OBVIOUS
  <1>5. Climbs(r, todo) /\ Rests(r, todo) /\ Stays(r, todo, l, o) /\ Runs(r, todo, l, o, c)
    BY <1>1, <1>4 DEF Fits
  <1>6. Transports(r.shape) /\ "app" \in todo
    BY <1>3, <1>5 DEF Climbs
  <1>7. StageAfter(r.at, r.shape) = "google" /\ "google" \in Climbing /\ "google" \in Whereabouts
        /\ Height["google"] = 5 /\ Rank["stack"] = 4 /\ "stack" \in Deeds
    BY <1>2, <1>3, <1>6, StageTable, Heights, Ranks DEF Climbing, Deeds, Whereabouts
  <1>8. CASE v2mode = "off" /\ Proceed(p, <<>>) /\ UNCHANGED opened
    <2>1. HeadsTo(p, <<>>, "google") /\ Above(process[p], "google")
      BY <1>1, <1>3, <1>6, <1>7, <1>8 DEF HeadsTo, Above
    <2> QED BY <1>1, <1>2, <1>3, <1>7, <1>8, <2>1, GoesOn
  <1>9. CASE Return(p, <<>>) /\ UNCHANGED opened
    <2>1. HeadsTo(p, <<>>, "returning") /\ "returning" \in Whereabouts /\ Above(process[p], "returning")
      BY <1>9 DEF HeadsTo, Whereabouts, Above
    <2> QED BY <1>1, <1>2, <1>3, <1>9, <2>1, GoesOn
  <1>10. CASE opened' = [opened EXCEPT ![p] = @ \cup {"v2"}] /\ Proceed(p, <<"stack">>)
    <2>1. MayAdd(process[p], "stack", "google")
      BY <1>1, <1>3, <1>6, <1>7 DEF MayAdd
    <2>2. PICK q \in ProcessType : Added(p, "stack", "google", q)
      BY <1>1, <1>3, <1>7, <1>10, <2>1, Adds
    <2>3. /\ process' = [process EXCEPT ![p] = q] /\ q.at = "google" /\ q.shape = r.shape
          /\ Due(q.deferred) = todo \cup {"stack"}
      BY <1>1, <1>4, <2>2 DEF Added
    <2>4. PICK o2 \in SUBSET Stores : o2 = o \cup {"v2"}
      BY DEF Stores
    <2>5. Rests(q, todo \cup {"stack"})
      BY <1>1, <1>5, <1>6, <2>3 DEF Rests
    <2>6. Stays(q, todo \cup {"stack"}, l, o2)
      BY <1>5, <1>6, <2>4 DEF Stays
    <2>7. Runs(q, todo \cup {"stack"}, l, o2, c)
      BY <1>2, <1>5, <2>3 DEF Runs, HasStores
    <2>8. Fits(q, l, o2, c)
      BY <1>1, <1>4, <1>7, <2>2, <2>5, <2>6, <2>7, AddedFits
    <2>9. Moves(p, q, l, o2, c)
      BY <1>1, <1>2, <1>10, <2>3, <2>4, ProcessAsIs DEF Moves
    <2>10. LockPasses(p, q)
      BY <1>1, <1>2, <1>4, <2>3, LockIs DEF LockPasses
    <2> QED BY <2>8, <2>9, <2>10, OneSteps
  <1> QED BY <1>8, <1>9, <1>10 DEF OpenStack

\* An account gets its control, or is done without.
LEMMA TakeControlFits ==
    ASSUME ServeInv, NEW p \in Daemons, NEW x \in Accounts, TakeControl(p, x)
    PROVE  ServeInv'
  <1>1. PICK r \in ProcessType, l \in SUBSET Units, o \in SUBSET Stores, c \in ControlType :
          r = process[p] /\ l = live[p] /\ o = opened[p] /\ c = control[p] /\ Fits(r, l, o, c)
    BY ProcessAsIs
  <1>2. r.at = x /\ UNCHANGED <<live, v2mode, lockedBy>>
    BY <1>1 DEF TakeControl, At, Same
  <1>3. Height[r.at] \in 5..7 /\ r.at \in Climbing /\ r.shape \in AllShapes /\ r.at # "app"
        /\ Rank[x] = Height[r.at] /\ x \in Deeds
    BY <1>2, Heights, Ranks, ProcessFields DEF Climbing, Accounts, Deeds
  <1>4. PICK todo : todo = Due(r.deferred)
    OBVIOUS
  <1>5. Climbs(r, todo) /\ Rests(r, todo) /\ Stays(r, todo, l, o) /\ Runs(r, todo, l, o, c)
    BY <1>1, <1>4 DEF Fits
  <1>6. Transports(r.shape) /\ "app" \in todo /\ (v2mode # "off" => "stack" \in todo)
    BY <1>3, <1>5 DEF Climbs
  <1>7. PICK next \in Climbing : next = StageAfter(r.at, r.shape) /\ Height[next] = Height[r.at] + 1
                                 /\ next \in Whereabouts
    BY <1>2, <1>3, <1>6, StageTable, Heights DEF Climbing, Accounts, Whereabouts
  <1>8. CASE UNCHANGED <<opened, control>> /\ Proceed(p, <<>>)
    <2>1. HeadsTo(p, <<>>, next) /\ Above(process[p], next)
      BY <1>1, <1>3, <1>6, <1>7, <1>8 DEF HeadsTo, Above
    <2> QED BY <1>1, <1>2, <1>3, <1>7, <1>8, <2>1, GoesOn
  \* The bridge that was opened is App.Close's to close.
  <1>10. CASE OpensBridge(p, x) /\ Return(p, <<>>) /\ UNCHANGED control
    <2>1. HeadsTo(p, <<>>, "returning") /\ "returning" \in Whereabouts
          /\ r.deferred \in Seq(Deeds) /\ <<>> \o process[p].deferred = r.deferred
      BY <1>1, <1>10, ProcessFields DEF HeadsTo, Whereabouts
    <2>2. PICK q \in ProcessType : Became(p, "returning", r.deferred, process[p].phase, q)
      BY <2>1, Proceeds
    <2>3. /\ process' = [process EXCEPT ![p] = q] /\ q.at = "returning" /\ q.shape = r.shape
          /\ q.deferred = r.deferred /\ q.phase = r.phase /\ r.phase = "next"
      BY <1>1, <1>3, <1>5, <2>2 DEF Became, Climbs
    <2>4. PICK o2 \in SUBSET Stores : o2 = IF x = "whatsapp" THEN o \cup {"session"} ELSE o
      BY DEF Stores
    <2>5. opened' = [opened EXCEPT ![p] = o2]
      BY <1>1, <1>10, <2>4, ProcessAsIs DEF OpensBridge
    <2>6. Climbs(q, todo) /\ Rests(q, todo) /\ Halfway(q, l, c) /\ Absents(q, l, o2, c)
      BY <1>5, <2>3 DEF Climbs, Climbing, Rests, Halfway, Absents
    <2>7. Stays(q, todo, l, o2)
      BY <1>3, <1>5, <2>4 DEF Stays
    <2>8. Runs(q, todo, l, o2, c)
      BY <1>3, <1>5, <2>3 DEF Runs
    <2>9. Fits(q, l, o2, c)
      BY <1>1, <1>4, <2>3, <2>6, <2>7, <2>8 DEF Fits
    <2>10. Moves(p, q, l, o2, c)
      BY <1>1, <1>2, <1>10, <2>3, <2>5, ProcessAsIs DEF Moves
    <2>11. LockPasses(p, q)
      BY <1>1, <1>2, <1>4, <2>3, LockIs DEF LockPasses
    <2> QED BY <2>9, <2>10, <2>11, OneSteps
  <1>9. CASE /\ OpensBridge(p, x)
             /\ \E paired \in BOOLEAN :
                   control' = [control EXCEPT ![p].have = @ \cup {x},
                                              ![p].starting = IF paired THEN @ \cup {x} ELSE @]
             /\ Proceed(p, <<x>>)
    <2>1. MayAdd(process[p], x, next)
      BY <1>1, <1>3, <1>6, <1>7 DEF MayAdd
    <2>2. PICK q \in ProcessType : Added(p, x, next, q)
      BY <1>1, <1>3, <1>9, <2>1, Adds
    <2>3. /\ process' = [process EXCEPT ![p] = q] /\ q.at = next /\ q.shape = r.shape
          /\ Due(q.deferred) = todo \cup {x}
      BY <1>1, <1>4, <2>2 DEF Added
    <2>4. PICK o2 \in SUBSET Stores : o2 = IF x = "whatsapp" THEN o \cup {"session"} ELSE o
      BY DEF Stores
    <2>5. opened' = [opened EXCEPT ![p] = o2]
      BY <1>1, <1>9, <2>4, ProcessAsIs DEF OpensBridge
    <2>6. PICK started \in SUBSET Accounts :
            control' = [control EXCEPT ![p].have = @ \cup {x}, ![p].starting = started]
      <3>1. PICK paired \in BOOLEAN :
              control' = [control EXCEPT ![p].have = @ \cup {x},
                                         ![p].starting = IF paired THEN @ \cup {x} ELSE @]
        BY <1>9
      <3>2. PICK s : s = IF paired THEN c.starting \cup {x} ELSE c.starting
        OBVIOUS
      <3>3. s \in SUBSET Accounts
        BY <3>2, ControlFields
      <3> QED BY <1>1, <3>1, <3>2, <3>3
    <2>7. PICK had \in SUBSET Accounts : had = c.have \cup {x}
      BY ControlFields
    <2>8. PICK c2 : c2 = [c EXCEPT !.have = had, !.starting = started]
      OBVIOUS
    <2>9. c2 = [have |-> had, starting |-> started, closed |-> c.closed, gaveUp |-> c.gaveUp]
      <3>1. c = [have |-> c.have, starting |-> c.starting, closed |-> c.closed, gaveUp |-> c.gaveUp]
        BY ControlFields
      <3> QED BY <2>8, <3>1
    <2>10. c2 \in ControlType
      BY <2>9, ControlFields DEF ControlType
    <2>11. control' = [control EXCEPT ![p] = c2]
      <3>1. control \in [Daemons -> ControlType]
        BY DEF ServeInv, ProcessTypes
      <3> QED BY <1>1, <2>6, <2>7, <2>8, <3>1
    <2>12. Rests(q, todo \cup {x})
      BY <1>1, <1>5, <1>6, <2>3 DEF Rests, Accounts
    <2>13. Stays(q, todo \cup {x}, l, o2)
      BY <1>5, <1>6, <2>4 DEF Stays, Accounts
    <2>14. Runs(q, todo \cup {x}, l, o2, c2)
      <3>1. "sweeps" \notin l
        BY <1>3, <1>5 DEF Runs
      <3>2. c2.closed = c.closed /\ c2.gaveUp = c.gaveUp /\ c2.have = c.have \cup {x}
        BY <2>7, <2>9
      <3>3. r.at # "returning" /\ r.shape = q.shape
        BY <1>3, <2>3 DEF Climbing
      <3>4. Runs(r, todo, l, o, c) /\ (todo \subseteq todo \cup {x})
        BY <1>5
      <3>5. /\ l \cap Lasting # {} => HasStores(q, todo \cup {x})
            /\ \A y \in Accounts \cap l : y \notin c.gaveUp => y \in todo \cup {x}
        BY <3>3, <3>4 DEF Runs, HasStores
      <3>6. /\ l \cap Runners # {} => "stack" \in todo \cup {x}
            /\ "scheduler" \in l => Transports(q.shape)
            /\ l \cap {"slack", "rivers"} # {} => TakesLock(q.shape)
            /\ c.gaveUp \subseteq c.closed /\ c.have \ c.closed \subseteq todo
            /\ "whatsapp" \notin c.gaveUp
        BY <3>3, <3>4 DEF Runs
      <3> QED BY <3>1, <3>2, <3>5, <3>6 DEF Runs
    <2>15. Fits(q, l, o2, c2)
      BY <1>1, <1>4, <2>2, <2>12, <2>13, <2>14, AddedFits
    <2>16. Moves(p, q, l, o2, c2)
      BY <1>1, <1>2, <2>3, <2>5, <2>11, ProcessAsIs DEF Moves
    <2>17. LockPasses(p, q)
      BY <1>1, <1>2, <1>4, <2>3, LockIs DEF LockPasses, Accounts
    <2> QED BY <2>10, <2>15, <2>16, <2>17, OneSteps
  <1> QED BY <1>8, <1>9, <1>10 DEF TakeControl

\* The rivers.
LEMMA StartRiversFits ==
    ASSUME ServeInv, NEW p \in Daemons, StartRivers(p)
    PROVE  ServeInv'
  <1>1. PICK r \in ProcessType, l \in SUBSET Units, o \in SUBSET Stores, c \in ControlType :
          r = process[p] /\ l = live[p] /\ o = opened[p] /\ c = control[p] /\ Fits(r, l, o, c)
    BY ProcessAsIs
  <1>2. r.at = "rivers" /\ UNCHANGED <<opened, control, v2mode, lockedBy>>
        /\ live' = [live EXCEPT ![p] = @ \cup {"slack", "rivers"}] /\ Proceed(p, <<"slack">>)
    BY <1>1 DEF StartRivers, At, Same
  <1>3. Height[r.at] = 8 /\ r.at \in Climbing /\ r.shape \in AllShapes
        /\ Rank["slack"] = 8 /\ "slack" \in Deeds
    BY <1>2, Heights, Ranks, ProcessFields DEF Climbing, Deeds
  <1>4. PICK todo : todo = Due(r.deferred)
    OBVIOUS
  <1>5. Climbs(r, todo) /\ Rests(r, todo) /\ Stays(r, todo, l, o) /\ Runs(r, todo, l, o, c)
    BY <1>1, <1>4 DEF Fits
  <1>6. Transports(r.shape)
    BY <1>3, <1>5 DEF Climbs
  <1>7. StageAfter(r.at, r.shape) = "runners" /\ "runners" \in Climbing /\ Height["runners"] = 9
    BY <1>2, <1>3, <1>6, StageTable, Heights DEF Climbing
  <1>8. MayAdd(process[p], "slack", "runners")
    BY <1>1, <1>3, <1>6, <1>7 DEF MayAdd
  <1>9. PICK q \in ProcessType : Added(p, "slack", "runners", q)
    BY <1>1, <1>2, <1>3, <1>7, <1>8, Adds
  <1>10. /\ process' = [process EXCEPT ![p] = q] /\ q.at = "runners" /\ q.shape = r.shape
         /\ Due(q.deferred) = todo \cup {"slack"}
    BY <1>1, <1>4, <1>9 DEF Added
  <1>11. PICK l2 \in SUBSET Units : l2 = l \cup {"slack", "rivers"}
    BY DEF Units, Loose
  <1>12. Rests(q, todo \cup {"slack"})
    BY <1>5, <1>10 DEF Rests, Accounts
  <1>13. Stays(q, todo \cup {"slack"}, l2, o)
    BY <1>2, <1>5 DEF Stays
  <1>14. Runs(q, todo \cup {"slack"}, l2, o, c)
    <2>1. "sweeps" \notin l2 /\ l2 \cap Runners = l \cap Runners /\ Accounts \cap l2 = Accounts \cap l
          /\ ("scheduler" \in l2 => "scheduler" \in l)
      BY <1>2, <1>5, <1>11 DEF Runs, Accounts, Runners
    <2>2. TakesLock(q.shape) /\ HasStores(q, todo \cup {"slack"})
      BY <1>3, <1>5, <1>6, <1>10 DEF Climbs, HasStores, Transports, TakesLock
    <2> QED BY <1>5, <1>10, <2>1, <2>2 DEF Runs
  <1>15. Fits(q, l2, o, c)
    BY <1>1, <1>4, <1>7, <1>9, <1>12, <1>13, <1>14, AddedFits
  <1>16. Moves(p, q, l2, o, c)
    BY <1>1, <1>2, <1>10, <1>11, ProcessAsIs DEF Moves
  <1>17. LockPasses(p, q)
    BY <1>1, <1>2, <1>4, <1>10, LockIs DEF LockPasses
  <1> QED BY <1>15, <1>16, <1>17, OneSteps

\* What runs beside the accounts, and the server.
LEMMA StartOthersFit ==
    ASSUME ServeInv, NEW p \in Daemons,
           StartRunners(p) \/ StartLoops(p) \/ Listen(p) \/ Interrupt(p)
    PROVE  ServeInv'
  <1>1. PICK r \in ProcessType, l \in SUBSET Units, o \in SUBSET Stores, c \in ControlType :
          r = process[p] /\ l = live[p] /\ o = opened[p] /\ c = control[p] /\ Fits(r, l, o, c)
    BY ProcessAsIs
  <1>2. r.at \in {"runners", "loops", "http", "serving"}
        /\ UNCHANGED <<opened, control, v2mode, lockedBy>>
    BY <1>1 DEF StartRunners, StartLoops, Listen, Interrupt, At, Same
  <1>3. Height[r.at] \in 9..12 /\ r.at \in Climbing /\ r.shape \in AllShapes /\ r.at # "app"
    BY <1>2, Heights, ProcessFields DEF Climbing
  <1>4. PICK todo : todo = Due(r.deferred)
    OBVIOUS
  <1>5. Climbs(r, todo)
    BY <1>1, <1>4 DEF Fits
  <1>6. /\ Height[r.at] < 11 => Transports(r.shape)
        /\ Height[r.at] < 11 /\ v2mode # "off" => "stack" \in todo
        /\ HasStores(process[p], Due(process[p].deferred))
    BY <1>1, <1>3, <1>4, <1>5 DEF Climbs, HasStores
  <1>7. ASSUME Return(p, <<>>), UNCHANGED live PROVE ServeInv'
    <2>1. HeadsTo(p, <<>>, "returning") /\ "returning" \in Whereabouts /\ Above(process[p], "returning")
      BY <1>7 DEF HeadsTo, Whereabouts, Above
    <2> QED BY <1>1, <1>2, <1>3, <1>7, <2>1, GoesOn
  <1>8. CASE StartRunners(p)
    <2>1. r.at = "runners" /\ Height[r.at] = 9 /\ Proceed(p, <<>>)
      BY <1>1, <1>8, Heights DEF StartRunners, At
    <2>2. StageAfter(r.at, r.shape) = "loops" /\ "loops" \in Whereabouts /\ "loops" \in Climbing
          /\ Height["loops"] = 10
      BY <1>3, <1>6, <2>1, StageTable, Heights DEF Whereabouts, Climbing
    <2>3. PICK some : some = CASE v2mode = "off" -> {}
                               [] v2mode = "primary" -> Runners \ {"projector"}
                               [] OTHER -> Runners
      OBVIOUS
    <2>4. (v2mode = "off" => some = {}) /\ some \subseteq Runners
      BY <2>3
    <2>5. live' = [live EXCEPT ![p] = @ \cup some]
      BY <1>8, <2>3, Zenon DEF StartRunners
    <2>6. HeadsTo(p, <<>>, "loops") /\ Above(process[p], "loops")
      BY <1>1, <1>3, <1>6, <2>1, <2>2 DEF HeadsTo, Above
    <2>7. some \in SUBSET (Loose \cup Runners \cup {"scheduler"}) /\ "scheduler" \notin some
          /\ some \cap {"slack", "rivers"} = {}
      BY <2>4 DEF Runners
    <2>8. some \cap Runners # {} => "stack" \in Due(process[p].deferred)
      BY <1>1, <1>4, <1>6, <2>1, <2>4
    <2> QED BY <1>1, <1>2, <1>3, <1>6, <2>2, <2>5, <2>6, <2>7, <2>8, GoesOnWith
  <1>9. CASE StartLoops(p)
    <2>1. r.at = "loops" /\ Height[r.at] = 10 /\ Proceed(p, <<>>)
      BY <1>1, <1>9, Heights DEF StartLoops, At
    <2>2. PICK next \in {"http", "serving"} : next = StageAfter(r.at, r.shape)
      BY <1>3, <1>6, <2>1, StageTable
    <2>3. next \in Whereabouts /\ next \in Climbing /\ Height[next] \in 11..12
      BY <2>2, Heights DEF Whereabouts, Climbing
    <2>4. PICK some : some = {"sync"} \cup IF v2mode = "primary" THEN {} ELSE {"scheduler"}
      OBVIOUS
    <2>5. live' = [live EXCEPT ![p] = @ \cup some]
      <3>1. live' = [live EXCEPT ![p] = @ \cup ({"sync"} \cup IF v2mode = "primary" THEN {} ELSE {"scheduler"})]
        BY <1>9 DEF StartLoops
      <3> QED BY <2>4, <3>1
    <2>6. HeadsTo(p, <<>>, next) /\ Above(process[p], next)
      BY <1>1, <1>3, <1>6, <2>1, <2>2, <2>3 DEF HeadsTo, Above
    <2>7. some \in SUBSET (Loose \cup Runners \cup {"scheduler"}) /\ some \cap Runners = {}
          /\ some \cap {"slack", "rivers"} = {}
      BY <2>4 DEF Runners, Loose
    <2>8. Transports(process[p].shape)
      BY <1>1, <1>6, <2>1
    <2> QED BY <1>1, <1>2, <1>3, <1>6, <2>3, <2>5, <2>6, <2>7, <2>8, GoesOnWith
  <1>10. CASE Listen(p) /\ live' = [live EXCEPT ![p] = @ \cup {"http"}] /\ Proceed(p, <<>>)
    <2>1. r.at = "http" /\ Height[r.at] = 11
      BY <1>1, <1>10, Heights DEF Listen, At
    <2>2. StageAfter(r.at, r.shape) = "serving" /\ "serving" \in Whereabouts /\ "serving" \in Climbing
          /\ Height["serving"] = 12
      BY <1>3, <2>1, StageTable, Heights DEF Whereabouts, Climbing
    <2>3. PICK some : some = {"http"}
      OBVIOUS
    <2>4. live' = [live EXCEPT ![p] = @ \cup some]
      BY <1>10, <2>3
    <2>5. HeadsTo(p, <<>>, "serving") /\ Above(process[p], "serving")
      BY <1>1, <1>3, <1>10, <2>1, <2>2 DEF HeadsTo, Above
    <2>6. some \in SUBSET (Loose \cup Runners \cup {"scheduler"}) /\ some \cap Runners = {}
          /\ "scheduler" \notin some /\ some \cap {"slack", "rivers"} = {}
      BY <2>3 DEF Runners, Loose
    <2> QED BY <1>1, <1>2, <1>3, <1>6, <2>2, <2>4, <2>5, <2>6, GoesOnWith
  <1>11. CASE Listen(p) /\ Return(p, <<>>) /\ UNCHANGED live
    BY <1>7, <1>11
  <1>12. CASE Interrupt(p)
    BY <1>7, <1>12 DEF Interrupt, Same
  <1> QED BY <1>8, <1>9, <1>10, <1>11, <1>12 DEF Listen

\* The generations of the accounts.
LEMMA GenerationsFit ==
    ASSUME ServeInv, NEW p \in Daemons, NEW x \in Accounts,
           Generate(p, x) \/ GenerationEnds(p, x) \/ Started(p, x)
    PROVE  ServeInv'
  <1>1. PICK r \in ProcessType, l \in SUBSET Units, o \in SUBSET Stores, c \in ControlType :
          r = process[p] /\ l = live[p] /\ o = opened[p] /\ c = control[p] /\ Fits(r, l, o, c)
    BY ProcessAsIs
  <1>2. UNCHANGED <<process, opened, v2mode, lockedBy>>
    BY DEF Generate, GenerationEnds, Started
  <1>3. PICK todo : todo = Due(r.deferred)
    OBVIOUS
  <1>4. /\ Sorted(r.deferred) /\ Climbs(r, todo) /\ Rests(r, todo) /\ Stays(r, todo, l, o)
        /\ Runs(r, todo, l, o, c) /\ Halfway(r, l, c) /\ Absents(r, l, o, c)
    BY <1>1, <1>3 DEF Fits
  <1>5. LockPasses(p, r)
    BY <1>1, <1>2, LockIs DEF LockPasses
  <1>6. x \notin Runners \cup Lasting \cup {"sweeps"} /\ "backfill" \notin Accounts \cup Runners
    BY DEF Accounts, Runners, Lasting, Loose
  <1>7. CASE Generate(p, x)
    <2>1. PICK l2 \in SUBSET Units : l2 = l \cup {x}
      BY DEF Units
    <2>2. x \in c.have \ c.closed /\ x \in todo /\ control' = control
          /\ live' = [live EXCEPT ![p] = l2]
      BY <1>1, <1>4, <1>7, <2>1 DEF Generate, Runs
    <2>3. Stays(r, todo, l2, o) /\ Runs(r, todo, l2, o, c)
      BY <1>4, <1>6, <2>1, <2>2 DEF Stays, Runs, Lasting, Loose
    <2>4. Halfway(r, l2, c)
      BY <1>4, <2>1, <2>2 DEF Halfway
    <2>5. Absents(r, l2, o, c)
      BY <1>4, <2>2 DEF Absents
    <2>6. Fits(r, l2, o, c)
      BY <1>3, <1>4, <2>3, <2>4, <2>5 DEF Fits
    <2>7. Moves(p, r, l2, o, c)
      BY <1>1, <1>2, <2>2, ProcessAsIs DEF Moves
    <2> QED BY <1>5, <2>6, <2>7, OneSteps
  <1>8. CASE GenerationEnds(p, x)
    <2>1. PICK l2 \in SUBSET Units : l2 = l \ {x}
      OBVIOUS
    <2>2. control' = control /\ live' = [live EXCEPT ![p] = l2]
      BY <1>1, <1>8, <2>1 DEF GenerationEnds
    <2>3. Stays(r, todo, l2, o) /\ Runs(r, todo, l2, o, c)
      BY <1>4, <1>6, <2>1 DEF Stays, Runs, Lasting, Loose
    <2>4. Halfway(r, l2, c) /\ Absents(r, l2, o, c)
      BY <1>4, <2>1 DEF Halfway, Absents
    <2>5. Fits(r, l2, o, c)
      BY <1>3, <1>4, <2>3, <2>4 DEF Fits
    <2>6. Moves(p, r, l2, o, c)
      BY <1>1, <1>2, <2>2, ProcessAsIs DEF Moves
    <2> QED BY <1>5, <2>5, <2>6, OneSteps
  <1>9. CASE Started(p, x)
    <2>1. PICK more \in SUBSET {"backfill"} : live' = [live EXCEPT ![p] = @ \cup more]
                                              /\ (more # {} => l # {} /\ x \in l \ c.closed)
      <3>1. CASE live' = [live EXCEPT ![p] = @ \cup {"backfill"}] /\ x \in live[p] \ control[p].closed
        BY <1>1, <3>1
      <3>2. CASE live' = live
        <4>1. live[p] \cup {} = live[p]
          OBVIOUS
        <4>2. live' = [live EXCEPT ![p] = live[p] \cup {}]
          BY <3>2, <4>1, ProcessAsIs
        <4> QED BY <4>2
      <3> QED BY <1>9, <3>1, <3>2 DEF Started
    <2>2. PICK l2 \in SUBSET Units : l2 = l \cup more
      BY DEF Units, Loose
    <2>3. PICK begun \in SUBSET Accounts : begun = c.starting \ {x}
      BY ControlFields
    <2>4. PICK c2 : c2 = [c EXCEPT !.starting = begun]
      OBVIOUS
    <2>5. c2 = [have |-> c.have, starting |-> begun, closed |-> c.closed, gaveUp |-> c.gaveUp]
      <3>1. c = [have |-> c.have, starting |-> c.starting, closed |-> c.closed, gaveUp |-> c.gaveUp]
        BY ControlFields
      <3> QED BY <2>4, <3>1
    <2>6. c2 \in ControlType
      BY <2>5, ControlFields DEF ControlType
    <2>7. control' = [control EXCEPT ![p] = c2]
      <3>1. control \in [Daemons -> ControlType]
        BY DEF ServeInv, ProcessTypes
      <3>2. control' = [control EXCEPT ![p].starting = begun]
        BY <1>1, <1>9, <2>3 DEF Started
      <3> QED BY <1>1, <2>4, <3>1, <3>2
    <2>8. c2.have = c.have /\ c2.closed = c.closed /\ c2.gaveUp = c.gaveUp
      BY <2>5
    <2>9. Stays(r, todo, l2, o)
      BY <1>4, <2>2 DEF Stays
    <2>10. Runs(r, todo, l2, o, c2)
      <3>1. l2 \cap Runners = l \cap Runners /\ Accounts \cap l2 = Accounts \cap l
            /\ ("scheduler" \in l2 => "scheduler" \in l) /\ ("sweeps" \in l2 => "sweeps" \in l)
            /\ l2 \cap {"slack", "rivers"} = l \cap {"slack", "rivers"}
        BY <1>6, <2>2
      <3>2. more # {} => HasStores(r, todo)
        <4>1. more # {} => x \in todo \cap Accounts
          BY <1>4, <2>1 DEF Runs
        <4> QED BY <1>4, <4>1 DEF Rests, HasStores
      <3>3. l2 \cap Lasting # {} => r.at = "returning" \/ HasStores(r, todo)
        BY <1>4, <2>2, <3>2 DEF Runs
      <3> QED BY <1>4, <2>8, <3>1, <3>3 DEF Runs
    <2>11. Halfway(r, l2, c2)
      <3>1. "backfill" \notin Accounts
        BY <1>6
      <3> QED BY <1>4, <2>2, <2>8, <3>1 DEF Halfway
    <2>12. Absents(r, l2, o, c2)
      BY <1>4, <2>1, <2>2, <2>8 DEF Absents
    <2>13. Fits(r, l2, o, c2)
      BY <1>3, <1>4, <2>9, <2>10, <2>11, <2>12 DEF Fits
    <2>14. Moves(p, r, l2, o, c2)
      BY <1>1, <1>2, <2>1, <2>2, <2>7, ProcessAsIs DEF Moves
    <2> QED BY <1>5, <2>6, <2>13, <2>14, OneSteps
  <1> QED BY <1>7, <1>8, <1>9

\* Slack clients and bridges that the server brings up.
LEMMA BringUpFits ==
    ASSUME ServeInv, NEW p \in Daemons, BringUp(p)
    PROVE  ServeInv'
  <1>1. PICK r \in ProcessType, l \in SUBSET Units, o \in SUBSET Stores, c \in ControlType :
          r = process[p] /\ l = live[p] /\ o = opened[p] /\ c = control[p] /\ Fits(r, l, o, c)
    BY ProcessAsIs
  <1>2. PICK u \in {"slack", "rivers"} : live' = [live EXCEPT ![p] = @ \cup {u}]
    BY DEF BringUp
  <1>3. UNCHANGED <<process, opened, control, v2mode, lockedBy>> /\ "http" \in l
        /\ r.shape \in {"daemon", "headless"}
    BY <1>1 DEF BringUp
  <1>4. PICK todo : todo = Due(r.deferred)
    OBVIOUS
  <1>5. /\ Sorted(r.deferred) /\ Climbs(r, todo) /\ Rests(r, todo) /\ Stays(r, todo, l, o)
        /\ Runs(r, todo, l, o, c) /\ Halfway(r, l, c) /\ Absents(r, l, o, c)
    BY <1>1, <1>4 DEF Fits
  <1>6. PICK l2 \in SUBSET Units : l2 = l \cup {u}
    BY DEF Units, Loose
  <1>7. Runs(r, todo, l2, o, c)
    <2>1. /\ l2 \cap Runners = l \cap Runners /\ Accounts \cap l2 = Accounts \cap l
          /\ ("scheduler" \in l2 => "scheduler" \in l) /\ ("sweeps" \in l2 => "sweeps" \in l)
      BY <1>6 DEF Accounts, Runners
    <2>2. TakesLock(r.shape)
      BY <1>3 DEF TakesLock
    <2>3. l \cap Lasting # {}
      BY <1>3 DEF Lasting, Loose
    <2> QED BY <1>5, <2>1, <2>2, <2>3 DEF Runs
  <1>8. Stays(r, todo, l2, o) /\ Halfway(r, l2, c) /\ Absents(r, l2, o, c)
    <2>1. u \notin Accounts /\ u # "sweeps"
      BY DEF Accounts
    <2> QED BY <1>3, <1>5, <1>6, <2>1 DEF Stays, Halfway, Absents
  <1>9. Fits(r, l2, o, c)
    BY <1>4, <1>5, <1>7, <1>8 DEF Fits
  <1>10. Moves(p, r, l2, o, c)
    BY <1>1, <1>2, <1>3, <1>6, ProcessAsIs DEF Moves
  <1>11. LockPasses(p, r)
    BY <1>1, <1>3, LockIs DEF LockPasses
  <1> QED BY <1>9, <1>10, <1>11, OneSteps

\* Undoing: what stands highest goes, and with it what rests on nothing else.
LEMMA Unstacks ==
    ASSUME ServeInv, NEW p \in Daemons, NEW x \in Deeds, Undoing(p, x)
    PROVE  /\ process[p].at = "returning" /\ process[p].deferred # <<>>
           /\ Head(process[p].deferred) = x
           /\ Tail(process[p].deferred) \in Seq(Deeds) /\ Sorted(Tail(process[p].deferred))
           /\ Due(process[p].deferred) = Due(Tail(process[p].deferred)) \cup {x}
           /\ \A y \in Due(Tail(process[p].deferred)) : y \in Deeds /\ Rank[y] < Rank[x]
  <1>1. PICK d \in Seq(Deeds) : d = process[p].deferred /\ Sorted(d)
    BY ProcessAsIs, ProcessFields DEF Fits
  <1>2. d # <<>> /\ Head(d) = x /\ process[p].at = "returning"
    BY <1>1 DEF Undoing, At
  <1>3. /\ Tail(d) \in Seq(Deeds) /\ Sorted(Tail(d))
        /\ Due(d) = Due(Tail(d)) \cup {Head(d)}
        /\ \A y \in Due(Tail(d)) : Rank[y] < Rank[Head(d)]
    BY <1>1, <1>2, DueShrinks
  <1>4. \A y \in Due(Tail(d)) : y \in Deeds
    BY <1>3 DEF Due
  <1> QED BY <1>1, <1>2, <1>3, <1>4

\* What is left has its rest.
LEMMA RestsStill ==
    ASSUME NEW r, NEW q, NEW rest, NEW x \in Deeds, Rests(r, rest \cup {x}), q.shape = r.shape,
           \A y \in rest : y \in Deeds /\ Rank[y] < Rank[x]
    PROVE  Rests(q, rest)
  <1>1. CASE x \in {"reads", "lock"}
    <2>1. rest \cap (Accounts \cup {"stack", "app"}) = {}
      BY <1>1, Ranks DEF Accounts
    <2> QED BY <2>1 DEF Rests
  <1>2. CASE x = "app"
    <2>1. rest \cap (Accounts \cup {"stack", "app"}) = {}
      BY <1>2, Ranks DEF Accounts
    <2> QED BY <2>1 DEF Rests
  <1>3. CASE x = "stack"
    <2>1. rest \cap (Accounts \cup {"stack"}) = {}
      BY <1>3, Ranks DEF Accounts
    <2> QED BY <1>3, <2>1 DEF Rests
  <1>4. CASE x \in Accounts \cup {"slack"}
    BY <1>4 DEF Rests, Accounts
  <1> QED BY <1>1, <1>2, <1>3, <1>4 DEF Deeds, Accounts

\* The step of an undoing that takes away the highest.
LEMMA UndoneFits ==
    ASSUME ServeInv, NEW p \in Daemons, NEW x \in Deeds, Undoing(p, x), Undone(p),
           NEW l \in SUBSET Units, NEW o \in SUBSET Stores, NEW rest,
           rest = Due(Tail(process[p].deferred)),
           live' = [live EXCEPT ![p] = l], opened' = [opened EXCEPT ![p] = o],
           UNCHANGED <<control, v2mode>>,
           x # "lock" => lockedBy' = lockedBy, x = "lock" => lockedBy' = 0,
           \A r : r.at = "returning" /\ r.shape = process[p].shape
                  => Stays(r, rest, l, o) /\ Runs(r, rest, l, o, control[p])
    PROVE  ServeInv'
  <1>1. PICK r \in ProcessType : r = process[p]
    BY ProcessAsIs
  <1>2. PICK e \in Seq(Deeds) : e = Tail(process[p].deferred) /\ Sorted(e) /\ rest = Due(e)
    BY Unstacks
  <1>3. /\ Due(r.deferred) = rest \cup {x} /\ r.at = "returning"
        /\ \A y \in rest : y \in Deeds /\ Rank[y] < Rank[x]
    BY <1>1, Unstacks
  <1>4. PICK q \in ProcessType : Became(p, process[p].at, e, "next", q)
    BY <1>2, Undoes
  <1>5. /\ process' = [process EXCEPT ![p] = q] /\ q.at = "returning" /\ q.shape = r.shape
        /\ q.deferred = e /\ q.phase = "next"
    BY <1>1, <1>3, <1>4 DEF Became
  <1>6. Rests(r, rest \cup {x})
    BY <1>1, <1>3, ProcessAsIs DEF Fits
  <1>7. Rests(q, rest)
    BY <1>3, <1>5, <1>6, RestsStill
  <1>8. Stays(q, rest, l, o) /\ Runs(q, rest, l, o, control[p])
    BY <1>1, <1>5
  <1>9. Climbs(q, rest) /\ Halfway(q, l, control[p]) /\ Absents(q, l, o, control[p])
    BY <1>5 DEF Climbs, Climbing, Halfway, Absents
  <1>10. Fits(q, l, o, control[p])
    BY <1>2, <1>5, <1>7, <1>8, <1>9 DEF Fits
  <1>11. Moves(p, q, l, o, control[p])
    BY <1>5, ProcessAsIs DEF Moves
  <1>12. LockPasses(p, q)
    <2>1. x = "lock" => lockedBy = p /\ "lock" \notin rest
      BY <1>1, <1>3, LockIs, Ranks
    <2>2. "lock" \in rest => lockedBy = p
      BY <1>1, <1>3, LockIs
    <2> QED BY <1>2, <1>5, <2>1, <2>2, LockIs DEF LockPasses
  <1>13. control[p] \in ControlType
    BY ProcessAsIs
  <1> QED BY <1>10, <1>11, <1>12, <1>13, OneSteps

\* Rivers, the stack or a client's reads, the store, and the lock are undone.
LEMMA UndoFits ==
    ASSUME ServeInv, NEW p \in Daemons,
           UndoSlack(p) \/ UndoStack(p) \/ CloseStore(p) \/ ReleaseLock(p)
    PROVE  ServeInv'
  <1>1. PICK r \in ProcessType, l \in SUBSET Units, o \in SUBSET Stores, c \in ControlType :
          r = process[p] /\ l = live[p] /\ o = opened[p] /\ c = control[p] /\ Fits(r, l, o, c)
    BY ProcessAsIs
  <1>2. UNCHANGED <<control, v2mode>> /\ Undone(p)
    BY DEF UndoSlack, UndoStack, CloseStore, ReleaseLock, Same
  <1>3. PICK x \in Deeds : /\ Undoing(p, x)
                           /\ \/ x = "slack" /\ UndoSlack(p)
                              \/ x \in {"stack", "reads"} /\ UndoStack(p)
                              \/ x = "app" /\ CloseStore(p)
                              \/ x = "lock" /\ ReleaseLock(p)
    BY DEF UndoSlack, UndoStack, CloseStore, ReleaseLock, Deeds
  <1>4. PICK rest : rest = Due(Tail(process[p].deferred))
    OBVIOUS
  <1>5. /\ Due(r.deferred) = rest \cup {x} /\ r.at = "returning"
        /\ \A y \in rest : y \in Deeds /\ Rank[y] < Rank[x]
    BY <1>1, <1>3, <1>4, Unstacks
  <1>6. Rests(r, rest \cup {x}) /\ Stays(r, rest \cup {x}, l, o) /\ Runs(r, rest \cup {x}, l, o, c)
    BY <1>1, <1>5 DEF Fits
  <1>7. "sweeps" \notin l
    BY <1>5, <1>6 DEF Runs
  <1>11. c.have \subseteq Accounts /\ x \in {"slack", "lock", "stack", "reads", "app"}
         /\ x \notin Accounts
    BY <1>3, ControlFields DEF Accounts
  <1>8. CASE x \in {"slack", "lock"}
    <2>1. UNCHANGED <<live, opened>> /\ (x = "slack" => lockedBy' = lockedBy) /\ (x = "lock" => lockedBy' = 0)
      BY <1>3, <1>8 DEF UndoSlack, UndoStack, CloseStore, ReleaseLock, Same
    <2>2. live' = [live EXCEPT ![p] = l] /\ opened' = [opened EXCEPT ![p] = o]
      BY <1>1, <2>1, ProcessAsIs
    <2>3. ASSUME NEW q, q.at = "returning", q.shape = r.shape
          PROVE  Stays(q, rest, l, o) /\ Runs(q, rest, l, o, c)
      <3>1. Stays(q, rest, l, o)
        BY <1>5, <1>6, <1>7, <1>8 DEF Stays
      <3>2. Runs(q, rest, l, o, c)
        BY <1>6, <1>7, <1>11, <1>8, <2>3 DEF Runs
      <3> QED BY <3>1, <3>2
    <2> QED BY <1>1, <1>2, <1>3, <1>4, <1>8, <2>1, <2>2, <2>3, UndoneFits
  <1>9. CASE x \in {"stack", "reads"}
    <2>1. lockedBy' = lockedBy /\ UndoStack(p)
      BY <1>3, <1>9 DEF UndoSlack, UndoStack, CloseStore, ReleaseLock, Same
    <2>2. PICK l2 \in SUBSET Units, o2 \in SUBSET Stores : l2 = l \ Runners /\ o2 = o \ {"v2"}
      OBVIOUS
    <2>3. live' = [live EXCEPT ![p] = l2] /\ opened' = [opened EXCEPT ![p] = o2]
      BY <1>1, <2>1, <2>2 DEF UndoStack
    <2>4. rest \cap (Accounts \cup {"stack"}) = {}
      BY <1>5, <1>9, Ranks DEF Accounts
    <2>5. "whatsapp" \notin rest /\ "stack" \notin rest
      BY <2>4 DEF Accounts
    <2>6. ASSUME NEW q, q.at = "returning", q.shape = r.shape
          PROVE  Stays(q, rest, l2, o2) /\ Runs(q, rest, l2, o2, c)
      <3>1. Stays(q, rest, l2, o2)
        BY <1>5, <1>6, <1>7, <1>9, <2>2, <2>5 DEF Stays
      <3>2. Runs(q, rest, l2, o2, c)
        BY <1>6, <1>7, <1>11, <1>9, <2>2, <2>6 DEF Runs
      <3> QED BY <3>1, <3>2
    <2> QED BY <1>1, <1>2, <1>3, <1>4, <1>9, <2>1, <2>3, <2>6, UndoneFits
  <1>10. CASE x = "app"
    <2>1. UNCHANGED <<live, lockedBy>> /\ CloseStore(p)
      BY <1>3, <1>10 DEF UndoSlack, UndoStack, CloseStore, ReleaseLock, Same
    <2>2. PICK o2 \in SUBSET Stores : o2 = o \ {"legacy"}
      OBVIOUS
    <2>3. live' = [live EXCEPT ![p] = l] /\ opened' = [opened EXCEPT ![p] = o2]
      BY <1>1, <2>1, <2>2, ProcessAsIs DEF CloseStore
    <2>4. rest \cap (Accounts \cup {"stack", "app"}) = {}
      BY <1>5, <1>10, Ranks DEF Accounts
    <2>5. "whatsapp" \notin rest /\ "stack" \notin rest /\ "app" \notin rest
      BY <2>4 DEF Accounts
    <2>6. ASSUME NEW q, q.at = "returning", q.shape = r.shape
          PROVE  Stays(q, rest, l, o2) /\ Runs(q, rest, l, o2, c)
      <3>1. Stays(q, rest, l, o2)
        BY <2>2, <2>5 DEF Stays
      <3>2. Runs(q, rest, l, o2, c)
        BY <1>6, <1>7, <1>11, <1>10, <2>6 DEF Runs
      <3> QED BY <3>1, <3>2
    <2> QED BY <1>1, <1>2, <1>3, <1>4, <1>10, <2>1, <2>3, <2>6, UndoneFits
  <1> QED BY <1>3, <1>8, <1>9, <1>10

\* A control is closed, its generation waited for, then its startup.
LEMMA CloseControlFits ==
    ASSUME ServeInv, NEW p \in Daemons, NEW x \in Accounts,
           CloseControl(p, x) \/ AwaitGeneration(p, x) \/ AwaitStartup(p, x)
    PROVE  ServeInv'
  <1>1. PICK r \in ProcessType, l \in SUBSET Units, o \in SUBSET Stores, c \in ControlType :
          r = process[p] /\ l = live[p] /\ o = opened[p] /\ c = control[p] /\ Fits(r, l, o, c)
    BY ProcessAsIs
  <1>2. UNCHANGED <<live, opened, v2mode, lockedBy>> /\ Undoing(p, x) /\ x \in Deeds
    BY DEF CloseControl, AwaitGeneration, AwaitStartup, Same, Accounts, Deeds
  <1>3. PICK todo : todo = Due(r.deferred)
    OBVIOUS
  <1>4. /\ Sorted(r.deferred) /\ Rests(r, todo) /\ Stays(r, todo, l, o) /\ Runs(r, todo, l, o, c)
        /\ Halfway(r, l, c)
    BY <1>1, <1>3 DEF Fits
  <1>5. r.at = "returning" /\ r.deferred # <<>> /\ Head(r.deferred) = x /\ r.deferred \in Seq(Deeds)
        /\ x \in todo
    BY <1>1, <1>2, <1>3, Unstacks, ProcessFields
  \* The controls and the phase are all that changes.
  <1>6. ASSUME NEW phase \in {"stopping", "stopped"}, Enter(p, phase), NEW c2 \in ControlType,
               control' = [control EXCEPT ![p] = c2], Runs(r, todo, l, o, c2), x \in c2.closed,
               phase = "stopped" => x \notin l \ c2.gaveUp
        PROVE  ServeInv'
    <2>1. PICK q \in ProcessType : Became(p, process[p].at, r.deferred, phase, q)
      BY <1>1, <1>5, <1>6, Undoes
    <2>2. /\ process' = [process EXCEPT ![p] = q] /\ q.at = "returning" /\ q.shape = r.shape
          /\ q.deferred = r.deferred /\ q.phase = phase
      BY <1>1, <1>5, <2>1 DEF Became
    <2>3. Climbs(q, todo) /\ Rests(q, todo) /\ Stays(q, todo, l, o)
      BY <1>4, <1>5, <2>2 DEF Climbs, Climbing, Rests, Stays
    <2>4. Runs(q, todo, l, o, c2)
      BY <1>5, <1>6, <2>2 DEF Runs
    <2>5. Halfway(q, l, c2) /\ Absents(q, l, o, c2)
      BY <1>5, <1>6, <2>2 DEF Halfway, Absents
    <2>6. Fits(q, l, o, c2)
      BY <1>3, <1>4, <2>2, <2>3, <2>4, <2>5 DEF Fits
    <2>7. Moves(p, q, l, o, c2)
      BY <1>1, <1>2, <1>6, <2>2, ProcessAsIs DEF Moves
    <2>8. LockPasses(p, q)
      BY <1>1, <1>2, <2>2, LockIs DEF LockPasses
    <2> QED BY <2>6, <2>7, <2>8, OneSteps
  <1>7. CASE CloseControl(p, x)
    <2>1. PICK shut \in SUBSET Accounts : shut = c.closed \cup {x}
      BY ControlFields
    <2>2. PICK c2 : c2 = [c EXCEPT !.closed = shut]
      OBVIOUS
    <2>3. c2 = [have |-> c.have, starting |-> c.starting, closed |-> shut, gaveUp |-> c.gaveUp]
      <3>1. c = [have |-> c.have, starting |-> c.starting, closed |-> c.closed, gaveUp |-> c.gaveUp]
        BY ControlFields
      <3> QED BY <2>2, <3>1
    <2>4. c2 \in ControlType
      BY <2>3, ControlFields DEF ControlType
    <2>5. control' = [control EXCEPT ![p] = c2]
      <3>1. control \in [Daemons -> ControlType]
        BY DEF ServeInv, ProcessTypes
      <3>2. control' = [control EXCEPT ![p].closed = shut]
        BY <1>1, <1>7, <2>1 DEF CloseControl
      <3> QED BY <1>1, <2>2, <3>1, <3>2
    <2>6. c2.have = c.have /\ c2.closed = c.closed \cup {x} /\ c2.gaveUp = c.gaveUp
      BY <2>1, <2>3
    <2>7. Runs(r, todo, l, o, c2)
      BY <1>4, <2>6 DEF Runs
    <2>8. Enter(p, "stopping")
      BY <1>7 DEF CloseControl
    <2> QED BY <1>6, <2>4, <2>5, <2>6, <2>7, <2>8
  <1>8. CASE AwaitGeneration(p, x)
    <2>1. Enter(p, "stopped") /\ r.phase = "stopping"
      BY <1>1, <1>8 DEF AwaitGeneration, InPhase
    <2>2. x \in c.closed
      BY <1>4, <1>5, <2>1 DEF Halfway
    <2>3. CASE x \notin live[p] /\ UNCHANGED control
      <3>1. control' = [control EXCEPT ![p] = c]
        BY <1>1, <2>3, ProcessAsIs
      <3> QED BY <1>1, <1>4, <1>6, <2>1, <2>2, <2>3, <3>1
    <2>4. CASE ~MustEnd(x) /\ control' = [control EXCEPT ![p].gaveUp = @ \cup {x}]
      <3>1. PICK up \in SUBSET Accounts : up = c.gaveUp \cup {x}
        BY ControlFields
      <3>2. PICK c2 : c2 = [c EXCEPT !.gaveUp = up]
        OBVIOUS
      <3>3. c2 = [have |-> c.have, starting |-> c.starting, closed |-> c.closed, gaveUp |-> up]
        <4>1. c = [have |-> c.have, starting |-> c.starting, closed |-> c.closed, gaveUp |-> c.gaveUp]
          BY ControlFields
        <4> QED BY <3>2, <4>1
      <3>4. c2 \in ControlType
        BY <3>3, ControlFields DEF ControlType
      <3>5. control' = [control EXCEPT ![p] = c2]
        <4>1. control \in [Daemons -> ControlType]
          BY DEF ServeInv, ProcessTypes
        <4>2. control' = [control EXCEPT ![p].gaveUp = up]
          BY <1>1, <2>4, <3>1
        <4> QED BY <1>1, <3>2, <4>1, <4>2
      <3>6. c2.have = c.have /\ c2.closed = c.closed /\ c2.gaveUp = c.gaveUp \cup {x}
        BY <3>1, <3>3
      <3>7. x # "whatsapp"
        BY <2>4 DEF MustEnd
      <3>8. Runs(r, todo, l, o, c2)
        BY <1>4, <2>2, <3>6, <3>7 DEF Runs
      <3> QED BY <1>6, <2>1, <2>2, <3>4, <3>5, <3>6, <3>8
    <2> QED BY <1>8, <2>3, <2>4 DEF AwaitGeneration
  <1>9. CASE AwaitStartup(p, x)
    <2>1. r.phase = "stopped" /\ Undone(p) /\ UNCHANGED control
      BY <1>1, <1>9 DEF AwaitStartup, InPhase, Same
    <2>2. x \in c.closed /\ x \notin l \ c.gaveUp
      BY <1>4, <1>5, <2>1 DEF Halfway
    <2>3. PICK rest : rest = Due(Tail(process[p].deferred))
      OBVIOUS
    <2>4. todo = rest \cup {x} /\ \A y \in rest : y \in Deeds /\ Rank[y] < Rank[x]
      BY <1>1, <1>2, <1>3, <2>3, Unstacks
    <2>5. x \notin rest
      BY <1>2, <2>4, Ranks DEF Deeds
    <2>6. ASSUME NEW q, q.at = "returning", q.shape = r.shape
          PROVE  Stays(q, rest, l, o) /\ Runs(q, rest, l, o, c)
      <3>1. Stays(q, rest, l, o)
        BY <1>4, <1>5, <2>4 DEF Stays, Accounts
      <3>2. Runs(q, rest, l, o, c)
        <4>1. "sweeps" \notin l /\ x # "stack"
          BY <1>4, <1>5 DEF Runs, Accounts
        <4> QED BY <1>4, <2>2, <2>4, <2>6, <4>1 DEF Runs
      <3> QED BY <3>1, <3>2
    <2>7. live' = [live EXCEPT ![p] = l] /\ opened' = [opened EXCEPT ![p] = o]
      BY <1>1, <1>2, ProcessAsIs
    <2>8. x # "lock"
      BY DEF Accounts
    <2>9. UNCHANGED <<control, v2mode>> /\ lockedBy' = lockedBy
      BY <1>2, <2>1
    <2>10. \A q : q.at = "returning" /\ q.shape = process[p].shape
                  => Stays(q, rest, l, o) /\ Runs(q, rest, l, o, control[p])
      BY <1>1, <2>6
    <2>11. x \in Deeds /\ Undoing(p, x) /\ Undone(p)
      BY <1>2, <2>1
    <2> QED BY <2>3, <2>7, <2>8, <2>9, <2>10, <2>11, UndoneFits
  <1> QED BY <1>7, <1>8, <1>9

\* The bridges are closed, with their session stores.
LEMMA CloseBridgesFits ==
    ASSUME ServeInv, NEW p \in Daemons, CloseBridges(p)
    PROVE  ServeInv'
  <1>1. PICK r \in ProcessType, l \in SUBSET Units, o \in SUBSET Stores, c \in ControlType :
          r = process[p] /\ l = live[p] /\ o = opened[p] /\ c = control[p] /\ Fits(r, l, o, c)
    BY ProcessAsIs
  <1>2. UNCHANGED <<control, v2mode, lockedBy>> /\ Undoing(p, "app") /\ "app" \in Deeds
        /\ Enter(p, "stopped")
    BY DEF CloseBridges, Same, Deeds
  <1>3. PICK todo : todo = Due(r.deferred)
    OBVIOUS
  <1>4. /\ Sorted(r.deferred) /\ Rests(r, todo) /\ Stays(r, todo, l, o) /\ Runs(r, todo, l, o, c)
    BY <1>1, <1>3 DEF Fits
  <1>5. r.at = "returning" /\ r.deferred # <<>> /\ Head(r.deferred) = "app" /\ r.deferred \in Seq(Deeds)
        /\ "whatsapp" \notin todo
    BY <1>1, <1>2, <1>3, Unstacks, ProcessFields, Ranks
  <1>16. PICK ended \in SUBSET {"rivers"} : live' = [live EXCEPT ![p] = @ \ ended]
    BY DEF CloseBridges
  <1>6. PICK l2 \in SUBSET Units, o2 \in SUBSET Stores : l2 = l \ ended /\ o2 = o \ {"session"}
    OBVIOUS
  <1>7. live' = [live EXCEPT ![p] = l2] /\ opened' = [opened EXCEPT ![p] = o2]
    BY <1>1, <1>6, <1>16 DEF CloseBridges
  <1>8. PICK q \in ProcessType : Became(p, process[p].at, r.deferred, "stopped", q)
    BY <1>1, <1>2, <1>5, Undoes
  <1>9. /\ process' = [process EXCEPT ![p] = q] /\ q.at = "returning" /\ q.shape = r.shape
        /\ q.deferred = r.deferred /\ q.phase = "stopped"
    BY <1>1, <1>5, <1>8 DEF Became
  <1>10. Climbs(q, todo) /\ Rests(q, todo) /\ Stays(q, todo, l2, o2)
    BY <1>4, <1>5, <1>6, <1>9 DEF Climbs, Climbing, Rests, Stays
  <1>11. Runs(q, todo, l2, o2, c)
    BY <1>4, <1>5, <1>6, <1>9 DEF Runs
  <1>12. Halfway(q, l2, c) /\ Absents(q, l2, o2, c)
    BY <1>5, <1>9 DEF Halfway, Absents, Accounts
  <1>13. Fits(q, l2, o2, c)
    BY <1>3, <1>4, <1>9, <1>10, <1>11, <1>12 DEF Fits
  <1>14. Moves(p, q, l2, o2, c)
    BY <1>1, <1>2, <1>7, <1>9, ProcessAsIs DEF Moves
  <1>15. LockPasses(p, q)
    BY <1>1, <1>2, <1>9, LockIs DEF LockPasses
  <1> QED BY <1>13, <1>14, <1>15, OneSteps

\* A process that is not there.
LEMMA GoneFits ==
    /\ Gone \in ProcessType /\ NoControl \in ControlType /\ Gone.at = "gone" /\ Gone.phase = "next"
    /\ Gone.deferred = <<>> /\ Fits(Gone, {}, {}, NoControl)
  <1>1. Gone \in ProcessType /\ NoControl \in ControlType
    BY DueNothing DEF Gone, NoControl, ProcessType, ControlType, Whereabouts, AllShapes
  <1>2. Gone.at = "gone" /\ Gone.phase = "next" /\ Gone.deferred = <<>> /\ NoControl.have = {}
        /\ NoControl.gaveUp = {}
    BY DEF Gone, NoControl
  <1>3. Climbs(Gone, {}) /\ Rests(Gone, {}) /\ Stays(Gone, {}, {}, {}) /\ Runs(Gone, {}, {}, {}, NoControl)
    BY <1>2 DEF Climbs, Climbing, Rests, Stays, Runs
  <1>4. Halfway(Gone, {}, NoControl) /\ Absents(Gone, {}, {}, NoControl)
    BY <1>2 DEF Halfway, Absents
  <1> QED BY <1>1, <1>2, <1>3, <1>4, DueNothing DEF Fits

\* It is launched in some shape; it ends, or is killed.
LEMMA LaunchFits ==
    ASSUME ServeInv, NEW p \in Daemons, Launch(p)
    PROVE  ServeInv'
  <1>1. PICK r \in ProcessType, l \in SUBSET Units, o \in SUBSET Stores, c \in ControlType :
          r = process[p] /\ l = live[p] /\ o = opened[p] /\ c = control[p] /\ Fits(r, l, o, c)
    BY ProcessAsIs
  <1>2. r.at = "gone" /\ UNCHANGED <<live, opened, control, v2mode, lockedBy>>
    BY <1>1 DEF Launch, At
  <1>3. l = {} /\ o = {} /\ c.have = {} /\ Runs(r, Due(r.deferred), l, o, c)
    BY <1>1, <1>2 DEF Fits, Absents
  <1>4. PICK shape \in AllShapes :
          process' = [process EXCEPT ![p] = [Gone EXCEPT !.at = "shape", !.shape = shape]]
    BY ServeAssumption DEF Launch
  <1>5. PICK q : q = [Gone EXCEPT !.at = "shape", !.shape = shape]
    OBVIOUS
  <1>6. q = [at |-> "shape", shape |-> shape, deferred |-> <<>>, phase |-> "next"]
    BY <1>5 DEF Gone
  <1>7. q \in ProcessType
    BY <1>6, DueNothing DEF ProcessType, Whereabouts, Climbing
  <1>8. q.at = "shape" /\ q.deferred = <<>> /\ q.phase = "next"
    BY <1>6
  <1>9. Climbs(q, {})
    BY <1>8, Heights DEF Climbs
  <1>10. Rests(q, {}) /\ Stays(q, {}, l, o) /\ Runs(q, {}, l, o, c)
    BY <1>3 DEF Rests, Stays, Runs
  <1>11. Halfway(q, l, c) /\ Absents(q, l, o, c)
    BY <1>8 DEF Halfway, Absents
  <1>12. Fits(q, l, o, c)
    BY <1>8, <1>9, <1>10, <1>11, DueNothing DEF Fits
  <1>13. Moves(p, q, l, o, c)
    BY <1>1, <1>2, <1>4, <1>5, ProcessAsIs DEF Moves
  <1>14. LockPasses(p, q)
    BY <1>2, <1>8, LockIs, DueNothing DEF LockPasses
  <1> QED BY <1>7, <1>12, <1>13, <1>14, OneSteps
LEMMA VanishFits ==
    ASSUME ServeInv, NEW p \in Daemons, Vanish(p)
    PROVE  ServeInv'
  <1>1. Moves(p, Gone, {}, {}, NoControl)
    BY DEF Moves, Vanish
  <1>2. LockPasses(p, Gone)
    BY LockIs, GoneFits, DueNothing DEF LockPasses, Vanish
  <1>3. {} \in SUBSET Units /\ {} \in SUBSET Stores
    OBVIOUS
  <1> QED BY <1>1, <1>2, <1>3, GoneFits, OneSteps

\* The invariant is there from the start, and every step keeps it.
LEMMA ServeStart == ServeInit => ServeInv
  <1> SUFFICES ASSUME ServeInit PROVE ServeInv
    OBVIOUS
  <1>1. /\ process = [p \in Daemons |-> Gone] /\ live = [p \in Daemons |-> {}]
        /\ opened = [p \in Daemons |-> {}] /\ control = [p \in Daemons |-> NoControl]
        /\ lockedBy = 0 /\ v2mode \in V2Modes
    BY DEF ServeInit
  <1>2. ProcessTypes
    BY <1>1, GoneFits DEF ProcessTypes
  <1>3. \A p \in Daemons : FitsAt(p)
    BY <1>1, GoneFits DEF FitsAt
  <1>4. LockKept
    BY <1>1, GoneFits, DueNothing DEF LockKept
  <1> QED BY <1>2, <1>3, <1>4 DEF ServeInv

LEMMA ServeKept == ServeInv /\ [ServeNext]_serveVars => ServeInv'
  <1> SUFFICES ASSUME ServeInv, [ServeNext]_serveVars PROVE ServeInv'
    OBVIOUS
  <1>1. CASE UNCHANGED serveVars
    BY <1>1 DEF serveVars, ServeInv, ProcessTypes, FitsAt, Fits, Climbs, Rests, Stays, Runs, HasStores, Halfway,
                Absents, LockKept
  <1>2. ASSUME NEW p \in Daemons,
               \/ Launch(p) \/ ChooseShape(p) \/ AcquireLock(p) \/ OpenStores(p) \/ Swept(p)
               \/ OpenStack(p) \/ StartRivers(p)
        PROVE  ServeInv'
    BY <1>2, LaunchFits, ChooseShapeFits, AcquireLockFits, OpenStoresFits, OpenStackFits, StartRiversFits
  <1>3. ASSUME NEW p \in Daemons,
               \/ StartRunners(p) \/ StartLoops(p) \/ Listen(p) \/ Interrupt(p) \/ BringUp(p)
               \/ UndoSlack(p) \/ UndoStack(p) \/ CloseBridges(p) \/ CloseStore(p) \/ ReleaseLock(p)
        PROVE  ServeInv'
    BY <1>3, StartOthersFit, BringUpFits, UndoFits, CloseBridgesFits
  <1>4. ASSUME NEW p \in Daemons, NEW x \in Accounts,
               \/ TakeControl(p, x) \/ Generate(p, x) \/ GenerationEnds(p, x) \/ Started(p, x)
               \/ CloseControl(p, x) \/ AwaitGeneration(p, x) \/ AwaitStartup(p, x)
        PROVE  ServeInv'
    BY <1>4, TakeControlFits, GenerationsFit, CloseControlFits
  <1>5. ASSUME NEW p \in Daemons, Exit(p) \/ Killed(p) PROVE ServeInv'
    BY <1>5, VanishFits DEF Exit, Killed
  <1> QED BY <1>1, <1>2, <1>3, <1>4, <1>5 DEF ServeNext

\* Whoever owns the data holds the lock, and what the deferred calls wait for has its
\* stores.
LEMMA SoundFromInv == ServeInv => DaemonIsSound
  <1> SUFFICES ASSUME ServeInv, NEW p \in Daemons, NEW u \in live[p]
               PROVE  /\ u \in Owning(p) => lockedBy = p
                      /\ u \notin Forsaken(p) \cup Unawaited(p) => Needs(p, u) \subseteq opened[p]
    BY DEF DaemonIsSound, OwnerHoldsLock, StoresOutliveUsers
  <1>1. PICK r \in ProcessType, l \in SUBSET Units, o \in SUBSET Stores, c \in ControlType :
          r = process[p] /\ l = live[p] /\ o = opened[p] /\ c = control[p] /\ Fits(r, l, o, c)
    BY ProcessAsIs
  <1>2. PICK todo : todo = Due(r.deferred)
    OBVIOUS
  <1>3. Climbs(r, todo) /\ Rests(r, todo) /\ Stays(r, todo, l, o) /\ Runs(r, todo, l, o, c)
    BY <1>1, <1>2 DEF Fits
  <1>4. ("lock" \in todo => lockedBy = p) /\ (Transports(r.shape) => TakesLock(r.shape))
    BY <1>1, <1>2, LockIs DEF Transports, TakesLock
  <1>5. "app" \in todo /\ TakesLock(r.shape) => lockedBy = p
    BY <1>3, <1>4 DEF Rests
  <1>6. r.at = "app" /\ TakesLock(r.shape) => lockedBy = p
    BY <1>3, <1>4, Heights DEF Climbs, Climbing
  \* It has the stores that it needs if the legacy store is open, and the v2 store as well
  \* where there is one.
  <1>11. ASSUME "legacy" \in o, u = "whatsapp" => "session" \in o,
                u # "sweeps" => (Transports(r.shape) /\ v2mode # "off" => "v2" \in o)
         PROVE  Needs(p, u) \subseteq opened[p]
    BY <1>1, <1>11 DEF Needs
  <1>7. CASE u \in Accounts
    <2>1. Forsaken(p) = c.gaveUp \ {"whatsapp"} /\ "whatsapp" \notin c.gaveUp /\ u \in l
      BY <1>1, <1>3 DEF Forsaken, Runs
    <2>2. u \in Owning(p) => u \notin Forsaken(p)
      BY DEF Owning
    <2>3. ASSUME u \notin Forsaken(p)
          PROVE  /\ u \in todo /\ lockedBy = p /\ "legacy" \in o
                 /\ (v2mode # "off" => "v2" \in o) /\ (u = "whatsapp" => "session" \in o)
      <3>1. u \in todo
        BY <1>3, <1>7, <2>1, <2>3 DEF Runs
      <3>2. "app" \in todo /\ Transports(r.shape) /\ (v2mode # "off" => "stack" \in todo)
        BY <1>3, <1>7, <3>1 DEF Rests
      <3> QED BY <1>3, <1>4, <1>5, <3>1, <3>2 DEF Stays
    <2> QED BY <1>11, <2>2, <2>3
  <1>8. CASE u \in Runners
    <2>1. "stack" \in todo
      BY <1>1, <1>3, <1>8 DEF Runs
    <2>2. "app" \in todo /\ Transports(r.shape)
      BY <1>3, <2>1 DEF Rests
    <2>3. lockedBy = p /\ "legacy" \in o /\ "v2" \in o
      BY <1>3, <1>4, <1>5, <2>1, <2>2 DEF Stays
    <2>4. u # "whatsapp"
      BY <1>8 DEF Runners
    <2> QED BY <1>11, <2>3, <2>4
  <1>9. CASE u = "sweeps"
    <2>1. r.at = "app" /\ TakesLock(r.shape) /\ "legacy" \in o
      BY <1>1, <1>3, <1>9 DEF Runs
    <2> QED BY <1>6, <1>9, <1>11, <2>1
  <1>10. CASE u \in Lasting
    <2>1. u \notin Accounts \cup Runners \cup {"sweeps"}
      BY <1>10 DEF Lasting, Accounts, Runners, Loose
    <2>2. ASSUME u \in Owning(p) PROVE lockedBy = p
      <3>1. u \in {"scheduler", "slack", "rivers"} /\ "legacy" \in o
        BY <1>1, <2>1, <2>2 DEF Owning
      <3>2. TakesLock(r.shape)
        BY <1>1, <1>3, <1>4, <3>1 DEF Runs
      <3>3. "app" \in todo \/ r.at = "app"
        BY <1>3, <3>1 DEF Stays
      <3> QED BY <1>5, <1>6, <3>2, <3>3
    <2>3. ASSUME u \notin Unawaited(p) PROVE Needs(p, u) \subseteq opened[p]
      <3>1. r.at # "returning"
        BY <1>1, <1>10, <2>3 DEF Unawaited, At, Lasting
      <3>2. HasStores(r, todo)
        BY <1>1, <1>3, <1>10, <3>1 DEF Runs
      <3>3. "legacy" \in o /\ (Transports(r.shape) /\ v2mode # "off" => "v2" \in o)
        BY <1>3, <3>2 DEF Stays, HasStores
      <3>4. u # "whatsapp"
        BY <2>1 DEF Accounts
      <3> QED BY <1>11, <3>3, <3>4
    <2> QED BY <2>2, <2>3
  <1> QED BY <1>7, <1>8, <1>9, <1>10, ProcessAsIs DEF Units, Lasting

\* What holds of every process of serve, from its first step to its end (RunServe,
\* runServeMCPClient).
THEOREM ServeHolds == ServeSpec => []ServeInv
  <1> QED BY ServeStart, ServeKept, PTL DEF ServeSpec

\* The processes of serve: whatever stage a start is cut short at, one process at
\* a time works for a data directory, and it holds the lock; and a process that is
\* not returning has the stores that anything in it works on, one that is returning
\* those of the accounts, the runners and the sweeps (RunServe, runServeMCPClient).
THEOREM DaemonSound == ServeSpec => []DaemonIsSound
  <1> QED BY ServeHolds, SoundFromInv, PTL
=============================================================================
