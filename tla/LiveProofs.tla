----------------------------- MODULE LiveProofs -----------------------------
(* What holds of the live links for every value of the constants.  The      *)
(* WhatsApp bridge: a ban's deadline that was saved is on disk wherever its *)
(* event has got to, from which follows that a deadline the supervisor was  *)
(* told of is never lost.  The controls of Signal and WhatsApp: a replaced  *)
(* supervisor has ended and the stoppers share the current one, so that one *)
(* at a time can be using the account.  The Signal poller: every end it     *)
(* reports is founded in what it saw.  The adapters' calls: what the caller *)
(* is told is true of the recipient.  The marks of a message: the newest    *)
(* report applied is what is shown.  The receive pipeline of Signal: an     *)
(* acknowledged line is in a file or in a hand that does not let go of it,  *)
(* and a message shows its edit.                                            *)
EXTENDS WhatsAppLink, AccountControl, SignalPoller, AdapterSend, Marks, SignalReceive,
        TLAPS, FiniteSetTheorems, SequenceTheorems, WellFoundedInduction

-----------------------------------------------------------------------------
(* The WhatsApp bridge: the deadline of a ban.                              *)

Dispatches == [at : {"idle", "check", "apply", "recheck", "tell", "inside"},
               client : LinkClients \cup {0}, event : Events, until : 0 .. MaxTime,
               saved : BOOLEAN, paired : BOOLEAN]
LifeRuns == [at : {"none", "running", "joining", "waiting"}, admitting : BOOLEAN,
             dial : {"check", "lock", "dialing", "done"}, finish : EndKinds, ready : BOOLEAN]
Attempts == [at : {"none", "prepare", "connect", "wait", "ending"}, method : {"qr", "phone"},
             box : Seq(Dispatches), canceled : BOOLEAN]
Bans == [memory : 0 .. MaxTime, disk : 0 .. MaxTime, now : 0 .. MaxTime]

CallTypes ==
    /\ dispatch \in [Handlers -> Dispatches]
    /\ lifeRun \in LifeRuns
    /\ attempt \in Attempts
    /\ ban \in Bans
    /\ told \in 0 .. MaxTime

\* A ban that was persisted is in the database wherever its event has got to:
\* with a handler that has looked, or in an attempt's channel.
Persisted(d) == d.event = "banned" /\ d.saved => d.until <= ban.disk
Looked == {"apply", "recheck", "tell", "inside"}
EventsPersisted == \A h \in Handlers : dispatch[h].at \in Looked => Persisted(dispatch[h])
BoxPersisted == \A k \in 1 .. Len(attempt.box) : Persisted(attempt.box[k])

BanInv == CallTypes /\ EventsPersisted /\ BoxPersisted /\ CallbacksJoined /\ BanIsKept


\* The first end of a generation is an end like any other.
LEMMA FinishedFits ==
    ASSUME lifeRun \in LifeRuns, NEW kind \in EndKinds
    PROVE  Finished(kind) \in LifeRuns /\ Finished(kind).at = lifeRun.at
    BY DEF Finished, LifeRuns

\* How a generation can end, and the record of one that has.
LEMMA EndKindsFit ==
    /\ {"none", "stop", "transient", "reauth", "limited", "misconfigured"} = EndKinds
    /\ \A d : EndOf(d) \in EndKinds
    BY DEF EndKinds, EndOf

\* A dial goes on within its record.
LEMMA DialFits ==
    ASSUME NEW r \in LifeRuns, NEW s \in {"check", "lock", "dialing", "done"}
    PROVE  [r EXCEPT !.dial = s] \in LifeRuns /\ [r EXCEPT !.dial = s].at = r.at
    BY DEF LifeRuns

\* A generation's own steps: it ends only when no callback is left in it.
RunStep ==
    \/ StartRun \/ DialCheck \/ DialLock \/ Dialed \/ ReportSend \/ StopGeneration
    \/ Coordinate \/ Disconnect \/ Join

\* The steps of a generation keep its record and leave everything else alone; it is
\* over only when none of its callbacks is inside.
LEMMA RunStepTypes ==
    ASSUME CallTypes, RunStep
    PROVE  /\ lifeRun' \in LifeRuns
           /\ lifeRun.at # "none" /\ lifeRun'.at = "none" =>
                 \A h \in Handlers : dispatch[h].at # "inside"
           /\ UNCHANGED <<ban, dispatch, attempt, told>>
    <1>1. lifeRun \in LifeRuns BY DEF CallTypes
    <1>2. ASSUME NEW kind \in EndKinds
          PROVE  Finished(kind) \in LifeRuns /\ Finished(kind).at = lifeRun.at
      BY <1>1, FinishedFits
    <1>3. UNCHANGED <<ban, dispatch, attempt, told>>
      BY DEF RunStep, StartRun, DialCheck, DialLock, Dialed, ReportSend, StopGeneration,
             Coordinate, Disconnect, Join
    <1>4. NoLifeRun \in LifeRuns BY DEF NoLifeRun, LifeRuns, EndKinds
    <1>5. CASE StartRun
      <2>1. /\ lifeRun.at = "none"
            /\ lifeRun' = [NoLifeRun EXCEPT !.at = "running", !.admitting = TRUE,
                                            !.dial = "check"]
        BY <1>5 DEF StartRun
      <2>2. lifeRun' \in LifeRuns BY <1>4, <2>1 DEF LifeRuns
      <2>3. QED BY <1>3, <2>1, <2>2
    <1>6. CASE DialCheck \/ DialLock \/ Dialed
      <2> DEFINE Attempted == {"limited", "reauth", "transient"}
                 Dialings == {"check", "lock", "dialing", "done"}
      <2>1. Attempted \subseteq EndKinds BY DEF EndKinds
      <2>2. \E r \in {lifeRun} \cup {Finished(kind) : kind \in Attempted}, s \in Dialings :
               lifeRun' = [r EXCEPT !.dial = s]
        <3>1. CASE DialCheck BY <3>1 DEF DialCheck
        <3>2. CASE DialLock BY <3>2 DEF DialLock
        <3>3. CASE Dialed BY <3>3 DEF Dialed
        <3>4. QED BY <1>6, <3>1, <3>2, <3>3
      <2>3. PICK r \in {lifeRun} \cup {Finished(kind) : kind \in Attempted}, s \in Dialings :
               lifeRun' = [r EXCEPT !.dial = s]
        BY <2>2
      <2>4. r \in LifeRuns /\ r.at = lifeRun.at BY <1>1, <1>2, <2>1
      <2>5. lifeRun' \in LifeRuns /\ lifeRun'.at = lifeRun.at BY <2>3, <2>4, DialFits
      <2>6. QED BY <1>3, <2>5
    <1>7. CASE ReportSend \/ StopGeneration
      <2>1. "stop" \in EndKinds /\ "transient" \in EndKinds BY DEF EndKinds
      <2>2. QED BY <1>2, <1>3, <1>7, <2>1 DEF ReportSend, StopGeneration
    <1>8. CASE Coordinate \/ Disconnect
      <2>1. \A s \in {"joining", "waiting"} :
               [lifeRun EXCEPT !.at = s] \in LifeRuns /\ [lifeRun EXCEPT !.at = s].at = s
        BY <1>1 DEF LifeRuns
      <2>2. QED BY <1>3, <1>8, <2>1 DEF Coordinate, Disconnect
    <1>9. CASE Join BY <1>3, <1>4, <1>9 DEF Join
    <1>10. QED BY <1>5, <1>6, <1>7, <1>8, <1>9 DEF RunStep

\* A generation's steps touch neither deadlines nor events.
LEMMA RunStepKeeps == ASSUME BanInv, RunStep PROVE BanInv'
    <1>1. CallTypes BY DEF BanInv
    <1>2. /\ lifeRun' \in LifeRuns
          /\ lifeRun.at # "none" /\ lifeRun'.at = "none" =>
                \A h \in Handlers : dispatch[h].at # "inside"
          /\ UNCHANGED <<ban, dispatch, attempt, told>>
      BY <1>1, RunStepTypes
    <1>3. CallTypes' BY <1>1, <1>2 DEF CallTypes
    <1>4. EventsPersisted' BY <1>2 DEF BanInv, EventsPersisted, Persisted
    <1>5. BoxPersisted' BY <1>2 DEF BanInv, BoxPersisted, Persisted
    <1>6. CallbacksJoined' BY <1>2 DEF BanInv, CallbacksJoined
    <1>7. BanIsKept' BY <1>2 DEF BanInv, BanIsKept
    <1>8. QED BY <1>3, <1>4, <1>5, <1>6, <1>7 DEF BanInv

\* A pairing attempt's steps take events from its channel, in order, and nothing
\* else of a ban is changed by them.
PairStep ==
    \/ \E method \in {"qr", "phone"} : StartPair(method)
    \/ PreparePair \/ ConnectPair \/ QRItem \/ PairCanceled \/ EndPair

\* A pairing touches neither the ban nor the generation.
LEMMA PairStepKeeps == ASSUME BanInv, PairStep PROVE BanInv'
    <1>1. attempt \in Attempts BY DEF BanInv, CallTypes
    <1>2. UNCHANGED <<ban, dispatch, lifeRun, told>>
      BY DEF PairStep, StartPair, PreparePair, ConnectPair, QRItem, PairCanceled, EndPair
    <1>3. NoAttempt \in Attempts /\ NoAttempt.box = <<>>
      BY DEF NoAttempt, Attempts
    <1>4. /\ attempt' \in Attempts
          /\ attempt'.box \in {attempt.box, <<>>}
      <2>1. \A s \in {"connect", "wait", "ending"} :
               [attempt EXCEPT !.at = s] \in Attempts /\ [attempt EXCEPT !.at = s].box = attempt.box
        BY <1>1 DEF Attempts
      <2>2. CASE \E method \in {"qr", "phone"} : StartPair(method)
        <3>1. \E method \in {"qr", "phone"} :
                 attempt' = [NoAttempt EXCEPT !.at = "prepare", !.method = method]
          BY <2>2 DEF StartPair
        <3>2. QED BY <1>3, <3>1 DEF Attempts
      <2>3. CASE PreparePair BY <2>1, <2>3 DEF PreparePair, PairGoes
      <2>4. CASE ConnectPair BY <2>1, <2>4 DEF ConnectPair, PairGoes
      <2>5. CASE QRItem \/ PairCanceled BY <1>1, <2>1, <2>5 DEF QRItem, PairCanceled, PairGoes
      <2>6. CASE EndPair BY <1>3, <2>6 DEF EndPair
      <2>7. QED BY <2>2, <2>3, <2>4, <2>5, <2>6 DEF PairStep
    <1>5. CallTypes' BY <1>2, <1>4 DEF BanInv, CallTypes
    <1>6. EventsPersisted' BY <1>2 DEF BanInv, EventsPersisted, Persisted
    <1>7. BoxPersisted' BY <1>2, <1>4 DEF BanInv, BoxPersisted, Persisted
    <1>8. CallbacksJoined' /\ BanIsKept' BY <1>2 DEF BanInv, CallbacksJoined, BanIsKept
    <1>9. QED BY <1>5, <1>6, <1>7, <1>8 DEF BanInv

\* What an attempt takes from its channel it may tell: the deadline is on disk.
LEMMA PairEventKeeps == ASSUME BanInv, PairEvent PROVE BanInv'
    <1> DEFINE d == Head(attempt.box)
    <1>1. attempt \in Attempts /\ attempt.box \in Seq(Dispatches) /\ attempt.box # <<>>
      BY DEF BanInv, CallTypes, PairEvent, Attempts
    <1>2. UNCHANGED <<ban, dispatch, lifeRun>> BY DEF PairEvent
    <1>3. /\ d = attempt.box[1] /\ d \in Dispatches /\ 1 \in 1 .. Len(attempt.box)
          /\ Tail(attempt.box) \in Seq(Dispatches)
          /\ \A k \in 1 .. Len(Tail(attempt.box)) :
                k + 1 \in 1 .. Len(attempt.box) /\ Tail(attempt.box)[k] = attempt.box[k + 1]
      BY <1>1
    <1>4. /\ attempt' \in Attempts /\ attempt'.box = Tail(attempt.box)
      <2>1. \E s \in {attempt.at, "ending"} :
               attempt' = [attempt EXCEPT !.box = Tail(attempt.box), !.at = s]
        BY DEF PairEvent
      <2>2. QED BY <1>1, <1>3, <2>1 DEF Attempts
    <1>5. told' = IF d.event = "banned" /\ d.saved THEN d.until ELSE told BY DEF PairEvent
    <1>6. Persisted(d) BY <1>3 DEF BanInv, BoxPersisted
    <1>7. CallTypes'
      <2>1. d.until \in 0 .. MaxTime BY <1>3 DEF Dispatches
      <2>2. QED BY <1>2, <1>4, <1>5, <2>1 DEF BanInv, CallTypes
    <1>8. EventsPersisted' BY <1>2 DEF BanInv, EventsPersisted, Persisted
    <1>9. BoxPersisted' BY <1>2, <1>3, <1>4 DEF BanInv, BoxPersisted, Persisted
    <1>10. CallbacksJoined' BY <1>2 DEF BanInv, CallbacksJoined
    <1>11. BanIsKept' BY <1>2, <1>5, <1>6 DEF BanInv, BanIsKept, Persisted
    <1>12. QED BY <1>7, <1>8, <1>9, <1>10, <1>11 DEF BanInv

\* An event is looked at, applied, looked at again.
LEMMA EmitKeeps ==
    ASSUME BanInv, LinkConstants, NEW h \in Handlers, NEW c \in LinkClients, NEW event \in Events,
           Emit(h, c, event)
    PROVE  BanInv'
    <1>1. UNCHANGED <<ban, lifeRun, attempt, told>> BY DEF Emit
    <1>2. dispatch \in [Handlers -> Dispatches] /\ ban \in Bans BY DEF BanInv, CallTypes
    <1>3. MaxTime \in Nat /\ ban.now \in 0 .. MaxTime BY <1>2 DEF LinkConstants, Bans
    <1>4. PICK length \in IF event = "banned" THEN 1 .. MaxTime - ban.now ELSE {0} :
             dispatch' = [dispatch EXCEPT ![h] = [NoDispatch EXCEPT !.at = "check", !.client = c,
                                                   !.event = event, !.until = ban.now + length]]
      BY DEF Emit
    <1>5. ban.now + length \in 0 .. MaxTime BY <1>3
    <1> DEFINE new == [NoDispatch EXCEPT !.at = "check", !.client = c, !.event = event,
                                         !.until = ban.now + length]
    <1>6. new \in Dispatches /\ new.at = "check" BY <1>5 DEF NoDispatch, Dispatches
    <1> HIDE DEF new
    <1>7. dispatch'[h] = new /\ \A g \in Handlers \ {h} : dispatch'[g] = dispatch[g]
      BY <1>2, <1>4 DEF new
    <1>8. dispatch' \in [Handlers -> Dispatches] BY <1>2, <1>4, <1>6 DEF new
    <1>9. CallTypes' BY <1>1, <1>8 DEF BanInv, CallTypes
    <1>10. EventsPersisted'
      BY <1>1, <1>6, <1>7 DEF BanInv, EventsPersisted, Persisted, Looked
    <1>11. BoxPersisted' BY <1>1 DEF BanInv, BoxPersisted, Persisted
    <1>12. CallbacksJoined' BY <1>1, <1>6, <1>7 DEF BanInv, CallbacksJoined
    <1>13. BanIsKept' BY <1>1 DEF BanInv, BanIsKept
    <1>14. QED BY <1>9, <1>10, <1>11, <1>12, <1>13 DEF BanInv

\* One handler moves on with an event that is no less persisted than before.
LEMMA HandlerMoves ==
    ASSUME BanInv, NEW h \in Handlers, NEW new \in Dispatches,
           dispatch' = [dispatch EXCEPT ![h] = new],
           UNCHANGED <<ban, attempt>>,
           new.at \in Looked => Persisted(new),
           new.at = "inside" => lifeRun.at # "none",
           lifeRun' \in LifeRuns, lifeRun'.at = lifeRun.at,
           told' \in 0 .. MaxTime, told' <= ban.disk
    PROVE  BanInv'
    <1>1. dispatch \in [Handlers -> Dispatches] BY DEF BanInv, CallTypes
    <1>2. dispatch'[h] = new /\ \A g \in Handlers \ {h} : dispatch'[g] = dispatch[g] BY <1>1
    <1>3. dispatch' \in [Handlers -> Dispatches] BY <1>1
    <1>4. CallTypes' BY <1>3 DEF BanInv, CallTypes
    <1>5. EventsPersisted' BY <1>2 DEF BanInv, EventsPersisted, Persisted
    <1>6. BoxPersisted' BY DEF BanInv, BoxPersisted, Persisted
    <1>7. CallbacksJoined' BY <1>2 DEF BanInv, CallbacksJoined
    <1>8. BanIsKept' BY DEF BanInv, BanIsKept
    <1>9. QED BY <1>4, <1>5, <1>6, <1>7, <1>8 DEF BanInv

\* A dispatcher with nothing in hand.
LEMMA NoDispatchFits == NoDispatch \in Dispatches /\ NoDispatch.at = "idle"
    <1>1. 0 \in 0 .. MaxTime BY LinkConstants DEF LinkConstants
    <1>2. QED BY <1>1 DEF NoDispatch, Dispatches, Events

\* The later deadline counts; what the database took is in memory too.
LEMMA KeptFits ==
    ASSUME ban \in Bans, LinkConstants, NEW until \in 0 .. MaxTime, ban.disk <= ban.memory,
           NEW saved \in BOOLEAN,
           ban' = IF saved THEN [Kept(ban, until) EXCEPT !.disk = Larger(@, Kept(ban, until).memory)]
                  ELSE Kept(ban, until)
    PROVE  /\ ban' \in Bans /\ ban'.disk <= ban'.memory /\ ban.disk <= ban'.disk
           /\ Kept(ban, until).memory \in 0 .. MaxTime
           /\ saved => Kept(ban, until).memory <= ban'.disk
    <1> DEFINE kept == Kept(ban, until)
    <1>1. /\ MaxTime \in Nat /\ ban.memory \in 0 .. MaxTime /\ ban.disk \in 0 .. MaxTime
          /\ ban.now \in 0 .. MaxTime
      BY DEF LinkConstants, Bans
    <1>2. kept = [ban EXCEPT !.memory = Larger(ban.memory, until)] BY DEF Kept
    <1>3. /\ Larger(ban.memory, until) \in 0 .. MaxTime
          /\ ban.memory <= Larger(ban.memory, until)
      BY <1>1 DEF Larger
    <1>4. /\ kept \in Bans /\ kept.memory = Larger(ban.memory, until) /\ kept.disk = ban.disk
          /\ kept.memory \in 0 .. MaxTime
      BY <1>2, <1>3 DEF Bans
    <1> HIDE DEF kept
    <1>5. ban.disk <= kept.memory /\ kept.disk <= kept.memory BY <1>1, <1>3, <1>4
    <1>6. Larger(kept.disk, kept.memory) = kept.memory BY <1>1, <1>4, <1>5 DEF Larger
    <1>7. CASE saved
      <2>1. ban' = [kept EXCEPT !.disk = kept.memory] BY <1>6, <1>7 DEF kept
      <2>2. ban' \in Bans /\ ban'.disk = kept.memory /\ ban'.memory = kept.memory
        BY <1>4, <2>1 DEF Bans
      <2>3. kept.memory <= kept.memory BY <1>4
      <2>4. QED BY <1>4, <1>5, <2>2, <2>3 DEF kept
    <1>8. CASE ~saved
      <2>1. ban' = kept BY <1>8 DEF kept
      <2>2. ban.disk <= ban.disk BY <1>1
      <2>3. QED BY <1>4, <1>5, <1>8, <2>1, <2>2 DEF kept
    <1>9. QED BY <1>7, <1>8

\* handleClientEvent's first look: a ban is put on disk before it goes anywhere.
LEMMA CheckKeeps ==
    ASSUME BanInv, LinkConstants, NEW h \in Handlers, Check(h) PROVE BanInv'
    <1> DEFINE d == dispatch[h]
    <1>1. /\ UNCHANGED <<lifeRun, attempt, told>> /\ d.at = "check" BY DEF Check
    <1>2. /\ d \in Dispatches /\ ban \in Bans /\ lifeRun \in LifeRuns /\ told \in 0 .. MaxTime
          /\ told <= ban.disk /\ ban.disk <= ban.memory /\ dispatch \in [Handlers -> Dispatches]
      BY DEF BanInv, CallTypes, BanIsKept
    <1>3. CASE dispatch' = [dispatch EXCEPT ![h] = NoDispatch] /\ UNCHANGED ban
      <2>1. ~(NoDispatch.at \in Looked) /\ NoDispatch.at # "inside"
        BY NoDispatchFits DEF Looked
      <2>2. QED BY <1>1, <1>2, <1>3, <2>1, NoDispatchFits, HandlerMoves
    <1>4. CASE /\ d.event # "banned"
               /\ dispatch' = [dispatch EXCEPT ![h].at = "apply"] /\ UNCHANGED ban
      <2> DEFINE new == [d EXCEPT !.at = "apply"]
      <2>1. new \in Dispatches /\ new.at = "apply" /\ new.event = d.event
        BY <1>2 DEF Dispatches
      <2>2. dispatch' = [dispatch EXCEPT ![h] = new] BY <1>2, <1>4
      <2>3. Persisted(new) BY <1>4, <2>1 DEF Persisted
      <2> HIDE DEF new
      <2>4. QED BY <1>1, <1>2, <1>4, <2>1, <2>2, <2>3, HandlerMoves
    <1>5. CASE /\ d.event = "banned"
               /\ \E saved \in BOOLEAN :
                    /\ ban' = IF saved THEN [Kept(ban, d.until) EXCEPT
                                               !.disk = Larger(@, Kept(ban, d.until).memory)]
                              ELSE Kept(ban, d.until)
                    /\ dispatch' = [dispatch EXCEPT ![h].at = "apply",
                                                    ![h].until = Kept(ban, d.until).memory,
                                                    ![h].saved = saved]
      <2>1. PICK saved \in BOOLEAN :
               /\ ban' = IF saved THEN [Kept(ban, d.until) EXCEPT
                                          !.disk = Larger(@, Kept(ban, d.until).memory)]
                         ELSE Kept(ban, d.until)
               /\ dispatch' = [dispatch EXCEPT ![h].at = "apply",
                                               ![h].until = Kept(ban, d.until).memory,
                                               ![h].saved = saved]
        BY <1>5
      <2>2. d.until \in 0 .. MaxTime BY <1>2 DEF Dispatches
      <2> DEFINE until == Kept(ban, d.until).memory
                 new == [d EXCEPT !.at = "apply", !.until = until, !.saved = saved]
      <2>3. /\ ban' \in Bans /\ ban'.disk <= ban'.memory /\ ban.disk <= ban'.disk
            /\ until \in 0 .. MaxTime
            /\ saved => until <= ban'.disk
        BY <1>2, <2>1, <2>2, KeptFits
      <2> HIDE DEF until
      <2>4. /\ new \in Dispatches /\ new.at = "apply" /\ new.until = until /\ new.saved = saved
        BY <1>2, <2>3 DEF Dispatches
      <2>5. dispatch' = [dispatch EXCEPT ![h] = new] BY <1>2, <2>1 DEF until
      <2> HIDE DEF new
      <2>6. /\ dispatch'[h] = new /\ \A g \in Handlers \ {h} : dispatch'[g] = dispatch[g]
            /\ dispatch' \in [Handlers -> Dispatches]
        BY <1>2, <2>4, <2>5
      <2>7. CallTypes' BY <1>1, <2>3, <2>6 DEF BanInv, CallTypes
      <2>8. \A e \in Dispatches : Persisted(e) => Persisted(e)'
        <3>1. TAKE e \in Dispatches
        <3>2. e.until \in 0 .. MaxTime BY DEF Dispatches
        <3>3. QED BY <1>2, <2>3, <3>2 DEF Persisted, Bans
      <2>9. EventsPersisted'
        <3>1. dispatch'[h].event = "banned" /\ dispatch'[h].saved => dispatch'[h].until <= ban'.disk
          BY <2>3, <2>4, <2>6
        <3>2. \A g \in Handlers \ {h} : dispatch[g].at \in Looked => Persisted(dispatch[g])'
          <4>1. TAKE g \in Handlers \ {h}
          <4>2. HAVE dispatch[g].at \in Looked
          <4>3. dispatch[g] \in Dispatches /\ Persisted(dispatch[g])
            BY <1>2, <4>2 DEF BanInv, EventsPersisted
          <4>4. dispatch'[g] = dispatch[g] BY <2>6
          <4>5. QED BY <1>2, <2>3, <4>3, <4>4 DEF Persisted, Bans, Dispatches
        <3>3. QED BY <2>6, <3>1, <3>2 DEF EventsPersisted, Persisted
      <2>10. BoxPersisted'
        <3>1. attempt.box \in Seq(Dispatches) BY DEF BanInv, CallTypes, Attempts
        <3>2. \A k \in 1 .. Len(attempt.box) : attempt.box[k] \in Dispatches BY <3>1
        <3>3. QED BY <1>1, <2>8, <3>2 DEF BanInv, BoxPersisted
      <2>11. CallbacksJoined' BY <1>1, <2>4, <2>6 DEF BanInv, CallbacksJoined
      <2>12. BanIsKept' BY <1>1, <1>2, <2>3 DEF BanIsKept, Bans
      <2>13. QED BY <2>7, <2>9, <2>10, <2>11, <2>12 DEF BanInv
    <1>6. QED BY <1>3, <1>4, <1>5 DEF Check

\* applyEvent and the second look carry the event on as it is.
LEMMA LookKeeps ==
    ASSUME BanInv, NEW h \in Handlers, Apply(h) \/ Recheck(h) PROVE BanInv'
    <1> DEFINE d == dispatch[h]
    <1>1. UNCHANGED <<ban, lifeRun, attempt, told>> /\ d.at \in Looked
      BY DEF Apply, Recheck, Looked
    <1>2. /\ d \in Dispatches /\ lifeRun \in LifeRuns /\ told \in 0 .. MaxTime
          /\ told <= ban.disk /\ dispatch \in [Handlers -> Dispatches] /\ Persisted(d)
      BY <1>1 DEF BanInv, CallTypes, BanIsKept, EventsPersisted
    <1>3. \E new \in Dispatches :
             /\ dispatch' = [dispatch EXCEPT ![h] = new]
             /\ new.at \in Looked => Persisted(new)
             /\ new.at # "inside"
      <2>1. CASE Apply(h)
        <3> DEFINE new == [d EXCEPT !.at = "recheck"]
        <3>1. /\ new \in Dispatches /\ new.at = "recheck"
              /\ new.event = d.event /\ new.saved = d.saved /\ new.until = d.until
          BY <1>2 DEF Dispatches
        <3>2. dispatch' = [dispatch EXCEPT ![h] = new] BY <1>2, <2>1 DEF Apply
        <3> HIDE DEF new
        <3>3. Persisted(new) BY <1>2, <3>1 DEF Persisted
        <3>4. QED BY <3>1, <3>2, <3>3
      <2>2. CASE Recheck(h) /\ d.client # Me
        <3>1. dispatch' = [dispatch EXCEPT ![h] = NoDispatch] BY <2>2 DEF Recheck
        <3>2. ~(NoDispatch.at \in Looked) /\ NoDispatch.at # "inside"
          BY NoDispatchFits DEF Looked
        <3>3. QED BY <3>1, <3>2, NoDispatchFits
      <2>3. CASE Recheck(h) /\ d.client = Me
        <3> DEFINE new == [d EXCEPT !.at = "tell", !.paired = device[d.client] = "yes"]
        <3>1. /\ new \in Dispatches /\ new.at = "tell"
              /\ new.event = d.event /\ new.saved = d.saved /\ new.until = d.until
          BY <1>2 DEF Dispatches
        <3>2. dispatch' = [dispatch EXCEPT ![h] = new] BY <1>2, <2>3 DEF Recheck
        <3> HIDE DEF new
        <3>3. Persisted(new) BY <1>2, <3>1 DEF Persisted
        <3>4. QED BY <3>1, <3>2, <3>3
      <2>4. QED BY <2>1, <2>2, <2>3
    <1>4. PICK new \in Dispatches :
             /\ dispatch' = [dispatch EXCEPT ![h] = new]
             /\ new.at \in Looked => Persisted(new)
             /\ new.at # "inside"
      BY <1>3
    <1>5. QED BY <1>1, <1>2, <1>4, HandlerMoves

\* handleLifecycleEvent: the attempt's channel gets a copy.
LEMMA TellKeeps == ASSUME BanInv, NEW h \in Handlers, Tell(h) PROVE BanInv'
    <1> DEFINE d == dispatch[h]
               item == [d EXCEPT !.at = "idle", !.client = 0]
               inside == [d EXCEPT !.at = "inside"]
    <1>1. UNCHANGED <<ban, lifeRun, told>> /\ d.at = "tell" /\ d.at \in Looked
      BY DEF Tell, Looked
    <1>2. /\ d \in Dispatches /\ attempt \in Attempts /\ lifeRun \in LifeRuns
          /\ dispatch \in [Handlers -> Dispatches] /\ Persisted(d)
          /\ attempt.box \in Seq(Dispatches)
      BY <1>1 DEF BanInv, CallTypes, EventsPersisted, Attempts
    <1>3. /\ item \in Dispatches /\ Persisted(item)
          /\ item.event = d.event /\ item.saved = d.saved /\ item.until = d.until
      BY <1>2 DEF Dispatches, Persisted
    <1>4. /\ inside \in Dispatches /\ Persisted(inside) /\ inside.at = "inside"
          /\ inside.event = d.event /\ inside.saved = d.saved /\ inside.until = d.until
      BY <1>2 DEF Dispatches, Persisted
    <1>5. \/ attempt' = attempt
          \/ attempt' = [attempt EXCEPT !.box = Append(attempt.box, item)]
      BY DEF Tell
    <1>6. \/ dispatch' = [dispatch EXCEPT ![h] = inside] /\ lifeRun.at # "none"
          \/ dispatch' = [dispatch EXCEPT ![h] = NoDispatch]
      BY DEF Tell
    <1> HIDE DEF item, inside
    <1>7. attempt' \in Attempts /\ BoxPersisted'
      <2>1. CASE attempt' = attempt
        BY <1>1, <1>2, <2>1 DEF BanInv, BoxPersisted, Persisted
      <2>2. CASE attempt' = [attempt EXCEPT !.box = Append(attempt.box, item)]
        <3>1. /\ Append(attempt.box, item) \in Seq(Dispatches)
              /\ \A k \in 1 .. Len(Append(attempt.box, item)) :
                    \/ k \in 1 .. Len(attempt.box)
                       /\ Append(attempt.box, item)[k] = attempt.box[k]
                    \/ Append(attempt.box, item)[k] = item
          BY <1>2, <1>3
        <3>2. attempt' \in Attempts /\ attempt'.box = Append(attempt.box, item)
          BY <1>2, <2>2, <3>1 DEF Attempts
        <3>3. \A k \in 1 .. Len(attempt'.box) : Persisted(attempt'.box[k])
          BY <1>3, <3>1, <3>2 DEF BanInv, BoxPersisted
        <3>4. QED BY <1>1, <3>2, <3>3 DEF BoxPersisted, Persisted
      <2>3. QED BY <1>5, <2>1, <2>2
    <1>8. /\ dispatch' \in [Handlers -> Dispatches]
          /\ \A g \in Handlers :
                \/ dispatch'[g] = dispatch[g]
                \/ dispatch'[g] = inside /\ lifeRun.at # "none"
                \/ dispatch'[g] = NoDispatch
      BY <1>2, <1>4, <1>6, NoDispatchFits
    <1>9. CallTypes' BY <1>1, <1>7, <1>8 DEF BanInv, CallTypes
    <1>10. EventsPersisted'
      <2>1. ~(NoDispatch.at \in Looked) BY NoDispatchFits DEF Looked
      <2>2. \A g \in Handlers : dispatch'[g].at \in Looked => Persisted(dispatch'[g])
        BY <1>4, <1>8, <2>1 DEF BanInv, EventsPersisted
      <2>3. QED BY <1>1, <2>2 DEF EventsPersisted, Persisted
    <1>11. CallbacksJoined' BY <1>1, <1>8, NoDispatchFits DEF BanInv, CallbacksJoined
    <1>12. BanIsKept' BY <1>1 DEF BanInv, BanIsKept
    <1>13. QED BY <1>7, <1>9, <1>10, <1>11, <1>12 DEF BanInv

\* run.handleEvent tells only of a ban that was saved.
LEMMA InsideKeeps == ASSUME BanInv, NEW h \in Handlers, Inside(h) PROVE BanInv'
    <1> DEFINE d == dispatch[h]
    <1>1. UNCHANGED <<ban, attempt>> /\ d.at = "inside" /\ d.at \in Looked
      BY DEF Inside, Looked
    <1>2. /\ d \in Dispatches /\ lifeRun \in LifeRuns /\ told \in 0 .. MaxTime
          /\ told <= ban.disk /\ Persisted(d)
      BY <1>1 DEF BanInv, CallTypes, BanIsKept, EventsPersisted
    <1>3. lifeRun' \in LifeRuns /\ lifeRun'.at = lifeRun.at
      <2>1. [lifeRun EXCEPT !.ready = TRUE] \in LifeRuns
            /\ [lifeRun EXCEPT !.ready = TRUE].at = lifeRun.at
        BY <1>2 DEF LifeRuns
      <2>2. Finished(EndOf(d)) \in LifeRuns /\ Finished(EndOf(d)).at = lifeRun.at
        BY <1>2, EndKindsFit, FinishedFits
      <2>3. QED BY <2>1, <2>2 DEF Inside
    <1>4. told' \in 0 .. MaxTime /\ told' <= ban.disk
      <2>1. told' = IF EndOf(d) = "limited" /\ lifeRun.finish = "none" THEN d.until ELSE told
        BY DEF Inside
      <2>2. EndOf(d) = "limited" => d.saved /\ d.event = "banned" BY DEF EndOf
      <2>3. d.until \in 0 .. MaxTime BY <1>2 DEF Dispatches
      <2>4. QED BY <1>2, <2>1, <2>2, <2>3 DEF Persisted
    <1>5. dispatch' = [dispatch EXCEPT ![h] = NoDispatch] BY DEF Inside
    <1>6. ~(NoDispatch.at \in Looked) /\ NoDispatch.at # "inside" BY NoDispatchFits DEF Looked
    <1>7. QED BY <1>1, <1>3, <1>4, <1>5, <1>6, NoDispatchFits, HandlerMoves

\* Unpairing leaves deadlines and events alone.
LEMMA LeaveKeeps == ASSUME BanInv, Leave \/ Logout \/ Reset PROVE BanInv'
    <1>1. UNCHANGED <<ban, dispatch, told>> BY DEF Leave, Logout, Reset
    <1>2. lifeRun \in LifeRuns /\ attempt \in Attempts BY DEF BanInv, CallTypes
    <1>3. lifeRun' \in LifeRuns /\ lifeRun'.at = lifeRun.at
      <2>1. Finished("stop") \in LifeRuns /\ Finished("stop").at = lifeRun.at
        BY <1>2, EndKindsFit, FinishedFits
      <2>2. QED BY <1>2, <2>1 DEF Leave, Logout, Reset
    <1>4. attempt' \in Attempts /\ attempt'.box = attempt.box
      <2>1. \A b \in BOOLEAN : /\ [attempt EXCEPT !.canceled = b] \in Attempts
                               /\ [attempt EXCEPT !.canceled = b].box = attempt.box
        BY <1>2 DEF Attempts
      <2>2. QED BY <1>2, <2>1 DEF Leave, Logout, Reset
    <1>5. CallTypes' BY <1>1, <1>3, <1>4 DEF BanInv, CallTypes
    <1>6. EventsPersisted' BY <1>1 DEF BanInv, EventsPersisted, Persisted
    <1>7. BoxPersisted' BY <1>1, <1>4 DEF BanInv, BoxPersisted, Persisted
    <1>8. CallbacksJoined' BY <1>1, <1>3 DEF BanInv, CallbacksJoined
    <1>9. BanIsKept' BY <1>1 DEF BanInv, BanIsKept
    <1>10. QED BY <1>5, <1>6, <1>7, <1>8, <1>9 DEF BanInv

\* New reads the deadline back; whatever was under way is gone.
LEMMA RestartKeeps == ASSUME BanInv, LinkConstants, Restart PROVE BanInv'
    <1>1. /\ ban' = [ban EXCEPT !.memory = ban.disk] /\ lifeRun' = NoLifeRun
          /\ attempt' = NoAttempt /\ dispatch' = [h \in Handlers |-> NoDispatch]
          /\ told' = told
      BY DEF Restart
    <1>2. /\ ban \in Bans /\ told \in 0 .. MaxTime /\ told <= ban.disk
          /\ ban.disk \in 0 .. MaxTime /\ MaxTime \in Nat
      BY DEF BanInv, CallTypes, BanIsKept, Bans, LinkConstants
    <1>3. ban' \in Bans /\ ban'.disk = ban.disk /\ ban'.memory = ban.disk /\ ban'.now = ban.now
      BY <1>1, <1>2 DEF Bans
    <1>4. NoLifeRun \in LifeRuns /\ NoAttempt \in Attempts /\ NoAttempt.box = <<>>
      BY DEF NoLifeRun, LifeRuns, EndKinds, NoAttempt, Attempts
    <1>5. CallTypes' BY <1>1, <1>2, <1>3, <1>4, NoDispatchFits DEF CallTypes
    <1>6. EventsPersisted' BY <1>1, NoDispatchFits DEF EventsPersisted, Looked
    <1>7. BoxPersisted' BY <1>1, <1>4 DEF BoxPersisted
    <1>8. CallbacksJoined' BY <1>1, NoDispatchFits DEF CallbacksJoined
    <1>9. BanIsKept' BY <1>1, <1>2, <1>3 DEF BanIsKept
    <1>10. QED BY <1>5, <1>6, <1>7, <1>8, <1>9 DEF BanInv

\* The clock, and the step that changes nothing.
LEMMA LinkTickKeeps ==
    ASSUME BanInv, LinkConstants, LinkTick \/ UNCHANGED linkVars PROVE BanInv'
    <1>1. UNCHANGED <<lifeRun, attempt, dispatch, told>> BY DEF LinkTick, linkVars
    <1>2. ban' \in Bans /\ ban'.disk = ban.disk /\ ban'.memory = ban.memory
      <2>1. ban \in Bans /\ MaxTime \in Nat /\ ban.now \in 0 .. MaxTime
        BY DEF BanInv, CallTypes, Bans, LinkConstants
      <2>2. CASE LinkTick
        <3>1. ban.now + 1 \in 0 .. MaxTime BY <2>1, <2>2 DEF LinkTick
        <3>2. ban' = [ban EXCEPT !.now = ban.now + 1] BY <2>2 DEF LinkTick
        <3>3. QED BY <2>1, <3>1, <3>2 DEF Bans
      <2>3. CASE UNCHANGED linkVars BY <2>1, <2>3 DEF linkVars
      <2>4. QED BY <2>2, <2>3
    <1>3. CallTypes' BY <1>1, <1>2 DEF BanInv, CallTypes
    <1>4. EventsPersisted' BY <1>1, <1>2 DEF BanInv, EventsPersisted, Persisted
    <1>5. BoxPersisted' BY <1>1, <1>2 DEF BanInv, BoxPersisted, Persisted
    <1>6. CallbacksJoined' /\ BanIsKept' BY <1>1, <1>2 DEF BanInv, CallbacksJoined, BanIsKept
    <1>7. QED BY <1>3, <1>4, <1>5, <1>6 DEF BanInv

\* Every step of the bridge keeps the invariant.
LEMMA LinkStep == ASSUME LinkConstants, BanInv, [LinkNext]_linkVars PROVE BanInv'
    <1>1. CASE \E h \in Handlers, c \in LinkClients, event \in Events : Emit(h, c, event)
      BY <1>1, EmitKeeps
    <1>2. CASE Dispatching BY <1>2, CheckKeeps, LookKeeps, TellKeeps, InsideKeeps DEF Dispatching
    <1>3. CASE RunStep BY <1>3, RunStepKeeps
    <1>4. CASE PairStep BY <1>4, PairStepKeeps
    <1>5. CASE PairEvent BY <1>5, PairEventKeeps
    <1>6. CASE Leave \/ Logout \/ Reset BY <1>6, LeaveKeeps
    <1>7. CASE Restart BY <1>7, RestartKeeps
    <1>8. CASE LinkTick \/ UNCHANGED linkVars BY <1>8, LinkTickKeeps
    <1>9. QED BY <1>1, <1>2, <1>3, <1>4, <1>5, <1>6, <1>7, <1>8
             DEF LinkNext, Dial, EndRun, RunStep, PairStep

\* The inductive invariant holds of the bridge: a saved deadline is in the database
\* wherever its event has got to (persistTemporaryBan, handleLifecycleEvent).
THEOREM LinkHolds == LinkSpec => []BanInv
    <1>1. ASSUME LinkInit PROVE BanInv
      <2>1. MaxTime \in Nat BY LinkConstants DEF LinkConstants
      <2>2. /\ NoLifeRun \in LifeRuns /\ NoAttempt \in Attempts /\ NoAttempt.box = <<>>
            /\ ~(NoDispatch.at \in Looked)
        BY NoDispatchFits DEF NoLifeRun, LifeRuns, EndKinds, NoAttempt, Attempts, Looked
      <2>3. CallTypes BY <1>1, <2>1, <2>2, NoDispatchFits DEF LinkInit, CallTypes, Bans
      <2>4. EventsPersisted /\ BoxPersisted
        BY <1>1, <2>2 DEF LinkInit, EventsPersisted, BoxPersisted
      <2>5. CallbacksJoined /\ BanIsKept
        BY <1>1, NoDispatchFits DEF LinkInit, CallbacksJoined, BanIsKept
      <2>6. QED BY <2>3, <2>4, <2>5 DEF BanInv
    <1>2. BanInv /\ [LinkNext]_linkVars => BanInv' BY LinkConstants, LinkStep
    <1>3. QED BY <1>1, <1>2, PTL DEF LinkSpec

\* A ban the supervisor was told of holds in this process and in the next one: a
\* shorter ban, a failing write or a restart never undoes it (persistTemporaryBan).
THEOREM BanSurvives == LinkSpec => []BanIsKept
    <1>1. BanInv => BanIsKept BY DEF BanInv
    <1>2. QED BY <1>1, LinkHolds, PTL

\* A generation that is over has no callback of it left running (run.coordinate).
THEOREM CallbacksAreJoined == LinkSpec => []CallbacksJoined
    <1>1. BanInv => CallbacksJoined BY DEF BanInv
    <1>2. QED BY <1>1, LinkHolds, PTL

-----------------------------------------------------------------------------
(* The controls of Signal and WhatsApp: one supervisor at a time.           *)

Places == {"idle", "connect", "look", "act", "retest", "watch", "replace", "unpair", "stop",
           "wait", "erase", "begin"}
CallTasks == [op : {"none", "connect", "unpair", "stop", "retest"}, at : Places, sup : Sups,
              saw : SupStates]
Controls == [supervisor : Sups, stopped : BOOLEAN, stopping : BOOLEAN, closed : BOOLEAN,
             unpairing : BOOLEAN, pairing : {"none", "active", "failed"}, canceled : BOOLEAN,
             queued : BOOLEAN]

\* The calls' types; none of them is where only Google's go.
CallersOK ==
    /\ platform \in {"signal", "whatsapp"}
    /\ control \in Controls
    /\ sup \in [Sups -> SupStates]
    /\ task \in [Tasks -> CallTasks]
    /\ awaiting \subseteq Sups

Current == control.supervisor
\* A caller that has stopped the supervisor and not yet freed the control.
Stopper(t) == task[t].at \in {"wait", "erase"}

\* A supervisor that was replaced has ended, so that whoever still holds it
\* starts nothing with it.
ReplacedOver == \A s \in Sups \ {Current} : sup[s] \in {"unbuilt", "ended"}

\* The control's own supervisor: over when it says it is stopped, and on its way
\* out once the shutdown was asked for.
CurrentOK ==
    /\ sup[Current] # "unbuilt"
    /\ control.closed => sup[Current] \in {"draining", "ended"}
    /\ control.stopped /\ ~control.closed => sup[Current] = "ended"

\* Whoever stops holds the control's current supervisor, and until the shutdown
\* is the only one.
StoppersOK ==
    /\ \A t \in Tasks :
          /\ Stopper(t) => task[t].sup = Current /\ (control.stopping \/ control.closed)
          /\ task[t].at = "erase" => sup[Current] = "ended"
          /\ task[t].op = "stop" /\ task[t].at # "stop" => task[t].at = "wait" /\ control.closed
    /\ \A t, r \in Tasks : Stopper(t) /\ Stopper(r) => t = r \/ control.closed

\* A stop that timed out keeps the control stopping, and nobody else stops.
AwaitedOK ==
    /\ \A s \in awaiting : sup[s] # "unbuilt"
    /\ Current \in awaiting =>
          control.closed \/ (control.stopping /\ \A t \in Tasks : ~Stopper(t))

\* A goroutine without a call does nothing, and only Signal's park is retested.
OpsOK == \A t \in Tasks :
    /\ task[t].op = "none" => task[t].at = "idle"
    /\ task[t].op = "retest" => platform = "signal"

OwnInv == CallersOK /\ OpsOK /\ ReplacedOver /\ CurrentOK /\ StoppersOK /\ AwaitedOK
ControlInv == platform # "google" => OwnInv

\* A set of numbers that is not empty has a least; so a free slot is found where
\* there is one.
LEMMA Least ==
    ASSUME NEW T \in SUBSET Nat, T # {}
    PROVE  \E x \in T : \A y \in T : x <= y
    <1>1. PICK x \in T : \A y \in T : ~ (<<y, x>> \in OpToRel(<, Nat))
      BY NatLessThanWellFounded, WFMin
    <1>2. \A y \in T : ~(y < x) BY <1>1 DEF OpToRel
    <1>3. QED BY <1>2

\* The slot a new supervisor takes is free.
LEMMA NextIsFree == ASSUME CanBuild PROVE Next1 \in Sups /\ sup[Next1] = "unbuilt"
    <1> DEFINE Free == {s \in Sups : sup[s] = "unbuilt"}
    <1>1. Free \in SUBSET Nat /\ Free # {} BY DEF CanBuild, Sups
    <1>2. PICK s \in Free : \A r \in Free : s <= r BY <1>1, Least
    <1>3. \E q \in Sups : sup[q] = "unbuilt" /\ \A r \in Sups : sup[r] = "unbuilt" => q <= r
      BY <1>2
    <1>4. QED BY <1>3 DEF Next1

\* Steps that neither stop nor free the control, and change supervisors only as
\* they change themselves.
Lawful(s) ==
    sup'[s] = sup[s] \/ /\ sup[s] \notin {"unbuilt", "ended"}
                        /\ sup'[s] # "unbuilt"
                        /\ sup[s] = "draining" => sup'[s] = "ended"
\* Such a step, of one caller or of none, keeps the invariant.
LEMMA QuietKeeps ==
    ASSUME OwnInv, UNCHANGED <<platform, control, awaiting>>,
           sup' \in [Sups -> SupStates], \A s \in Sups : Lawful(s),
           task' \in [Tasks -> CallTasks],
           \A t \in Tasks :
              \/ task'[t] = task[t]
              \/ /\ task'[t].at \notin {"wait", "erase"}
                 /\ task'[t].op = "stop" => task'[t].at = "stop",
           OpsOK'
    PROVE  OwnInv'
    <1>1. Current' = Current /\ Current \in Sups
      BY DEF Current, OwnInv, CallersOK, Controls
    <1>2. CallersOK' BY DEF OwnInv, CallersOK
    <1>3. ReplacedOver' BY <1>1 DEF OwnInv, ReplacedOver, Lawful
    <1>4. CurrentOK' BY <1>1 DEF OwnInv, CurrentOK, Lawful
    <1>5. StoppersOK'
      <2>1. \A t \in Tasks : Stopper(t)' => Stopper(t) /\ task'[t] = task[t]
        BY DEF Stopper
      <2>2. sup[Current] = "ended" => sup'[Current] = "ended" BY <1>1 DEF Lawful
      <2>3. QED BY <1>1, <2>1, <2>2 DEF OwnInv, StoppersOK, Stopper
    <1>6. AwaitedOK'
      <2>1. \A t \in Tasks : Stopper(t)' => Stopper(t) BY DEF Stopper
      <2>2. \A s \in awaiting : sup'[s] # "unbuilt"
        BY DEF OwnInv, AwaitedOK, Lawful, CallersOK
      <2>3. QED BY <1>1, <2>1, <2>2 DEF OwnInv, AwaitedOK
    <1>7. QED BY <1>2, <1>3, <1>4, <1>5, <1>6 DEF OwnInv

\* What starts, retries or pairs does nothing to a supervisor that is over, and
\* what stops leaves the others alone.
LEMMA SupOperations ==
    ASSUME sup \in [Sups -> SupStates], NEW s \in Sups
    PROVE  /\ \A next \in {Started(s), Retried(s), Pairing(s)} :
                 /\ next \in [Sups -> SupStates]
                 /\ \A r \in Sups : \/ next[r] = sup[r]
                                    \/ /\ sup[r] \notin {"unbuilt", "ended", "draining"}
                                       /\ next[r] # "unbuilt"
           /\ Stopped(s) \in [Sups -> SupStates]
           /\ Stopped(s)[s] \in {"draining", "ended"}
           /\ sup[s] = "ended" => Stopped(s)[s] = "ended"
           /\ \A r \in Sups \ {s} : Stopped(s)[r] = sup[r]
    <1>1. {"live", "pairing", "draining", "ended"} \subseteq SupStates BY DEF SupStates
    <1>2. ASSUME NEW x \in SupStates
          PROVE  /\ [sup EXCEPT ![s] = x] \in [Sups -> SupStates]
                 /\ [sup EXCEPT ![s] = x][s] = x
                 /\ \A r \in Sups \ {s} : [sup EXCEPT ![s] = x][r] = sup[r]
      OBVIOUS
    <1>3. Started(s) \in {sup, [sup EXCEPT ![s] = "live"]}
          /\ (Started(s) # sup => sup[s] = "fresh")
      BY DEF Started
    <1>4. Retried(s) \in {sup, [sup EXCEPT ![s] = "live"]}
          /\ (Retried(s) # sup => sup[s] \in {"blocked", "unreadable"})
      BY DEF Retried, Blocked
    <1>5. Pairing(s) \in {sup, [sup EXCEPT ![s] = "pairing"]}
          /\ (Pairing(s) # sup => sup[s] = "unpaired")
      BY DEF Pairing
    <1>6. Stopped(s) \in {sup, [sup EXCEPT ![s] = "draining"], [sup EXCEPT ![s] = "ended"]}
          /\ (Stopped(s) = sup => sup[s] \in {"draining", "ended"})
          /\ (sup[s] = "ended" => Stopped(s) = sup)
      <2>1. CASE sup[s] = "ended" BY <2>1 DEF Stopped, Owner
      <2>2. CASE Owner(s)
        <3>1. sup[s] # "ended" BY <2>2 DEF Owner
        <3>2. Stopped(s) = [sup EXCEPT ![s] = "draining"] BY <2>2, <3>1 DEF Stopped
        <3>3. Stopped(s)[s] = "draining" BY <1>1, <1>2, <3>2
        <3>4. QED BY <3>1, <3>2, <3>3
      <2>3. CASE sup[s] # "ended" /\ ~Owner(s)
        <3>1. Stopped(s) = [sup EXCEPT ![s] = "ended"] BY <2>3 DEF Stopped
        <3>2. Stopped(s)[s] = "ended" BY <1>1, <1>2, <3>1
        <3>3. QED BY <2>3, <3>1, <3>2
      <2>4. QED BY <2>1, <2>2, <2>3
    <1>7. ASSUME NEW next \in {Started(s), Retried(s), Pairing(s)}
          PROVE  /\ next \in [Sups -> SupStates]
                 /\ \A r \in Sups : \/ next[r] = sup[r]
                                    \/ /\ sup[r] \notin {"unbuilt", "ended", "draining"}
                                       /\ next[r] # "unbuilt"
      <2>1. \/ next = sup
            \/ /\ next \in {[sup EXCEPT ![s] = "live"], [sup EXCEPT ![s] = "pairing"]}
               /\ sup[s] \in {"fresh", "blocked", "unreadable", "unpaired"}
        BY <1>3, <1>4, <1>5
      <2>2. QED BY <1>1, <1>2, <2>1
    <1>8. QED BY <1>1, <1>2, <1>6, <1>7

\* A caller's goroutine goes on somewhere else, or ends.
LEMMA NoTaskFits ==
    /\ NoTask \in CallTasks /\ NoTask.at = "idle" /\ NoTask.op = "none"
    /\ 1 \in Sups /\ "fresh" \in SupStates
    <1>1. 1 \in Sups BY ControlConstants DEF ControlConstants, Sups
    <1>2. QED BY <1>1 DEF NoTask, CallTasks, Places, SupStates

TaskGoes(t, at, s) ==
    /\ task' \in [Tasks -> CallTasks]
    /\ task'[t].at = at /\ task'[t].op = task[t].op /\ task'[t].sup = s
    /\ \A r \in Tasks \ {t} : task'[r] = task[r]
\* The three ways a goroutine goes on: with its supervisor, with another, having
\* seen a state.
LEMMA GoesOn ==
    ASSUME CallersOK, NEW t \in Tasks, NEW at \in Places, task' = [task EXCEPT ![t].at = at]
    PROVE  TaskGoes(t, at, task[t].sup)
    <1> DEFINE new == [task[t] EXCEPT !.at = at]
    <1>1. task \in [Tasks -> CallTasks] /\ task[t] \in CallTasks BY DEF CallersOK
    <1>2. /\ new \in CallTasks /\ new.at = at /\ new.op = task[t].op
          /\ new.sup = task[t].sup
      BY <1>1 DEF CallTasks
    <1>3. task' = [task EXCEPT ![t] = new] BY <1>1
    <1> HIDE DEF new
    <1>4. QED BY <1>1, <1>2, <1>3 DEF TaskGoes
\* With another supervisor.
LEMMA GoesOnWith ==
    ASSUME CallersOK, NEW t \in Tasks, NEW at \in Places, NEW s \in Sups,
           task' = [task EXCEPT ![t].at = at, ![t].sup = s]
    PROVE  TaskGoes(t, at, s)
    <1> DEFINE new == [task[t] EXCEPT !.at = at, !.sup = s]
    <1>1. task \in [Tasks -> CallTasks] /\ task[t] \in CallTasks BY DEF CallersOK
    <1>2. new \in CallTasks /\ new.at = at /\ new.op = task[t].op /\ new.sup = s
      BY <1>1 DEF CallTasks
    <1>3. task' = [task EXCEPT ![t] = new] BY <1>1
    <1> HIDE DEF new
    <1>4. QED BY <1>1, <1>2, <1>3 DEF TaskGoes
\* Having seen a state.
LEMMA GoesOnSeeing ==
    ASSUME CallersOK, NEW t \in Tasks, NEW at \in Places, NEW saw \in SupStates,
           task' = [task EXCEPT ![t].at = at, ![t].saw = saw]
    PROVE  TaskGoes(t, at, task[t].sup)
    <1> DEFINE new == [task[t] EXCEPT !.at = at, !.saw = saw]
    <1>1. task \in [Tasks -> CallTasks] /\ task[t] \in CallTasks BY DEF CallersOK
    <1>2. /\ new \in CallTasks /\ new.at = at /\ new.op = task[t].op
          /\ new.sup = task[t].sup
      BY <1>1 DEF CallTasks
    <1>3. task' = [task EXCEPT ![t] = new] BY <1>1
    <1> HIDE DEF new
    <1>4. QED BY <1>1, <1>2, <1>3 DEF TaskGoes
TaskEnds(t) ==
    /\ task' \in [Tasks -> CallTasks]
    /\ task'[t] = NoTask /\ task'[t].at = "idle" /\ task'[t].op = "none"
    /\ \A r \in Tasks \ {t} : task'[r] = task[r]
\* And the way it ends.
LEMMA EndsThere ==
    ASSUME CallersOK, NEW t \in Tasks, task' = [task EXCEPT ![t] = NoTask]
    PROVE  TaskEnds(t)
    BY NoTaskFits DEF CallersOK, TaskEnds

\* What a goroutine was called for it keeps until it ends.
LEMMA OpsKept ==
    ASSUME OpsOK, NEW t \in Tasks, platform' = platform, task[t].at # "idle",
           (\E at, s : TaskGoes(t, at, s)) \/ TaskEnds(t)
    PROVE  OpsOK'
    BY DEF OpsOK, TaskGoes, TaskEnds

\* One caller goes on and stops nothing.
LEMMA CallerGoesOn ==
    ASSUME OwnInv, NEW t \in Tasks, UNCHANGED <<platform, control, awaiting>>,
           sup' \in [Sups -> SupStates], \A s \in Sups : Lawful(s),
           task[t].at \notin {"idle", "wait"}, task[t].op # "stop",
           \/ task' = [task EXCEPT ![t] = NoTask]
           \/ \E at \in Places \ {"wait", "erase"} :
                 \/ task' = [task EXCEPT ![t].at = at]
                 \/ \E s \in Sups : task' = [task EXCEPT ![t].at = at, ![t].sup = s]
                 \/ \E saw \in SupStates : task' = [task EXCEPT ![t].at = at, ![t].saw = saw]
    PROVE  OwnInv'
    <1>1. CallersOK /\ OpsOK BY DEF OwnInv
    <1>2. TaskEnds(t) \/ \E at \in Places \ {"wait", "erase"}, s \in Sups : TaskGoes(t, at, s)
      <2>1. task[t].sup \in Sups BY <1>1 DEF CallersOK, CallTasks
      <2>2. CASE task' = [task EXCEPT ![t] = NoTask] BY <1>1, <2>2, EndsThere
      <2>3. ASSUME NEW at \in Places \ {"wait", "erase"}, task' = [task EXCEPT ![t].at = at]
            PROVE  TaskGoes(t, at, task[t].sup)
        BY <1>1, <2>3, GoesOn
      <2>4. ASSUME NEW at \in Places \ {"wait", "erase"}, NEW s \in Sups,
                   task' = [task EXCEPT ![t].at = at, ![t].sup = s]
            PROVE  TaskGoes(t, at, s)
        BY <1>1, <2>4, GoesOnWith
      <2>5. ASSUME NEW at \in Places \ {"wait", "erase"}, NEW saw \in SupStates,
                   task' = [task EXCEPT ![t].at = at, ![t].saw = saw]
            PROVE  TaskGoes(t, at, task[t].sup)
        BY <1>1, <2>5, GoesOnSeeing
      <2>6. QED BY <2>1, <2>2, <2>3, <2>4, <2>5
    <1>3. OpsOK' BY <1>1, <1>2, OpsKept
    <1>4. /\ task' \in [Tasks -> CallTasks]
          /\ \A r \in Tasks \ {t} : task'[r] = task[r]
          /\ task'[t].at \notin {"wait", "erase"} /\ task'[t].op # "stop"
      BY <1>2 DEF TaskEnds, TaskGoes
    <1>5. \A r \in Tasks : \/ task'[r] = task[r]
                           \/ /\ task'[r].at \notin {"wait", "erase"}
                              /\ task'[r].op = "stop" => task'[r].at = "stop"
      BY <1>4
    <1>6. QED BY <1>3, <1>4, <1>5, QuietKeeps

\* The steps of a call that stop nothing.
LEMMA CallerSteps ==
    ASSUME OwnInv, NEW t \in Tasks,
           Look(t) \/ Act(t) \/ RetestLook(t) \/ Watch(t) \/ UnpairRefused(t) \/ Begin(t)
    PROVE  OwnInv'
    <1>1. /\ task[t] \in CallTasks /\ task[t].sup \in Sups /\ sup \in [Sups -> SupStates]
          /\ platform \in {"signal", "whatsapp"}
      BY DEF OwnInv, CallersOK, CallTasks
    <1>2. task[t].op = "stop" => task[t].at \in {"stop", "wait"} BY DEF OwnInv, StoppersOK
    <1>3. UNCHANGED <<platform, awaiting>>
      BY DEF Look, Act, RetestLook, Watch, UnpairRefused, Begin, Idle
    <1>4. task[t].op # "stop" /\ task[t].at \notin {"idle", "wait"}
      BY <1>2 DEF Look, Act, RetestLook, Watch, UnpairRefused, Begin, At
    <1>5. {"act", "watch", "replace", "connect"} \subseteq Places \ {"wait", "erase"}
      BY DEF Places
    <1>6. UNCHANGED sup => sup' \in [Sups -> SupStates] /\ \A s \in Sups : Lawful(s)
      BY <1>1 DEF Lawful
    <1>7. CASE Look(t)
      <2>1. \E saw \in SupStates : task' = [task EXCEPT ![t].at = "act", ![t].saw = saw]
        BY <1>1, <1>7 DEF Look
      <2>2. UNCHANGED <<control, sup>> BY <1>7 DEF Look
      <2>3. QED BY <1>3, <1>4, <1>5, <1>6, <2>1, <2>2, CallerGoesOn
    <1>8. CASE Act(t)
      <2>1. \/ task' = [task EXCEPT ![t] = NoTask]
            \/ \E at \in Places \ {"wait", "erase"} : task' = [task EXCEPT ![t].at = at]
        BY <1>5, <1>8 DEF Act, Ends, Goto
      <2>2. control' = control BY <1>8 DEF Act
      <2>3. sup' \in {sup, Started(task[t].sup), Retried(task[t].sup), Pairing(task[t].sup)}
        BY <1>8 DEF Act
      <2>4. sup' \in [Sups -> SupStates] /\ \A s \in Sups : Lawful(s)
        BY <1>1, <2>3, SupOperations DEF Lawful
      <2>5. QED BY <1>3, <1>4, <2>1, <2>2, <2>4, CallerGoesOn
    <1>9. CASE RetestLook(t) \/ UnpairRefused(t) \/ Watch(t)
      <2>1. \/ task' = [task EXCEPT ![t] = NoTask]
            \/ task' = [task EXCEPT ![t].at = "connect"]
        BY <1>9 DEF RetestLook, UnpairRefused, Watch, Ends, Goto
      <2>2. UNCHANGED <<control, sup>> BY <1>9 DEF RetestLook, UnpairRefused, Watch
      <2>3. QED BY <1>3, <1>4, <1>5, <1>6, <2>1, <2>2, CallerGoesOn
    <1>10. CASE Begin(t)
      <2>1. task[t].op \in {"none", "connect", "unpair", "stop", "retest"}
        BY <1>1 DEF CallTasks
      <2>2. task' = [task EXCEPT ![t] = NoTask] /\ control' = control
        BY <1>10, <2>1 DEF Begin, Ends
      <2>3. sup' = Started(task[t].sup) BY <1>10 DEF Begin
      <2>4. sup' \in [Sups -> SupStates] /\ \A s \in Sups : Lawful(s)
        BY <1>1, <2>3, SupOperations DEF Lawful
      <2>5. QED BY <1>3, <1>4, <2>2, <2>4, CallerGoesOn
    <1>11. QED BY <1>7, <1>8, <1>9, <1>10

\* What happens by itself, and a call that arrives.
LEMMA ControlTurns ==
    ASSUME OwnInv,
           \/ \E s \in Sups : SupervisorMoves(s) \/ StopCompletes(s)
           \/ WatchStep
           \/ \E t \in Tasks : \E op \in Calls[platform] : Call(t, op)
           \/ UNCHANGED controlVars
    PROVE  OwnInv'
    <1>1. sup \in [Sups -> SupStates] /\ task \in [Tasks -> CallTasks]
      BY DEF OwnInv, CallersOK
    <1>2. ASSUME UNCHANGED <<platform, control, awaiting, task>>,
                 sup' \in [Sups -> SupStates], \A s \in Sups : Lawful(s)
          PROVE  OwnInv'
      <2>1. OpsOK' BY <1>2 DEF OwnInv, OpsOK
      <2>2. QED BY <1>1, <1>2, <2>1, QuietKeeps
    <1>3. UNCHANGED sup => sup' \in [Sups -> SupStates] /\ \A s \in Sups : Lawful(s)
      BY <1>1 DEF Lawful
    <1>4. ASSUME NEW s \in Sups, SupervisorMoves(s) \/ StopCompletes(s) PROVE OwnInv'
      <2>1. UNCHANGED <<platform, control, awaiting, task>>
        BY <1>4 DEF SupervisorMoves, StopCompletes
      <2>2. \E x \in SupStates :
               /\ sup' = [sup EXCEPT ![s] = x]
               /\ \/ sup[s] \in {"live", "pairing"} /\ x # "unbuilt"
                  \/ sup[s] = "draining" /\ x = "ended"
        BY <1>4 DEF SupervisorMoves, StopCompletes, SupStates
      <2>3. sup' \in [Sups -> SupStates] /\ \A r \in Sups : Lawful(r)
        BY <1>1, <2>2 DEF Lawful
      <2>4. QED BY <1>2, <2>1, <2>3
    <1>5. ASSUME WatchStep PROVE OwnInv'
      <2>1. UNCHANGED <<platform, control, awaiting, task>> BY <1>5 DEF WatchStep
      <2>2. sup' = sup \/ (sup' = [sup EXCEPT ![watch] = "live"] /\ sup[watch] = "fresh")
        BY <1>5 DEF WatchStep, Started
      <2>3. "live" \in SupStates BY DEF SupStates
      <2>4. sup' \in [Sups -> SupStates] /\ \A r \in Sups : Lawful(r)
        BY <1>1, <2>2, <2>3 DEF Lawful
      <2>5. QED BY <1>2, <2>1, <2>4
    <1>6. ASSUME NEW t \in Tasks, NEW op \in Calls[platform], Call(t, op) PROVE OwnInv'
      <2>1. platform \in {"signal", "whatsapp"} BY DEF OwnInv, CallersOK
      <2>2. op \in {"connect", "unpair", "stop", "retest"} BY <2>1 DEF Calls
      <2>3. UNCHANGED <<platform, control, awaiting, sup>> BY <1>6, <2>2 DEF Call
      <2> DEFINE new == [NoTask EXCEPT !.op = op, !.at = op]
      <2>4. task' = [task EXCEPT ![t] = new] BY <1>6, <2>2 DEF Call
      <2>5. new \in CallTasks /\ new.at = op /\ new.op = op
        BY <2>2, NoTaskFits DEF CallTasks, Places
      <2> HIDE DEF new
      <2>6. /\ task' \in [Tasks -> CallTasks]
            /\ \A r \in Tasks : \/ task'[r] = task[r]
                                \/ /\ task'[r].at \notin {"wait", "erase"}
                                   /\ task'[r].op = "stop" => task'[r].at = "stop"
        BY <1>1, <2>2, <2>4, <2>5
      <2>7. OpsOK'
        <3>1. op = "retest" => platform = "signal" BY <1>6, <2>1 DEF Calls
        <3>2. \A r \in Tasks \ {t} : task'[r] = task[r] BY <1>1, <2>4
        <3>3. task'[t].op = op BY <1>1, <2>4, <2>5
        <3>4. QED BY <2>2, <2>3, <3>1, <3>2, <3>3 DEF OwnInv, OpsOK
      <2>8. QED BY <1>3, <2>3, <2>6, <2>7, QuietKeeps
    <1>7. ASSUME UNCHANGED controlVars PROVE OwnInv'
      BY <1>2, <1>3, <1>7 DEF controlVars
    <1>8. QED BY <1>4, <1>5, <1>6, <1>7

\* A caller stops the current supervisor: nobody else is stopping it, or it is the
\* shutdown.
LEMMA StopKeeps ==
    ASSUME OwnInv, NEW t \in Tasks, Replace(t) \/ UnpairOrStop(t), task'[t].at = "wait"
    PROVE  OwnInv'
    <1>1. /\ CallersOK /\ control \in Controls /\ sup \in [Sups -> SupStates]
          /\ task \in [Tasks -> CallTasks] /\ Current \in Sups
          /\ platform \in {"signal", "whatsapp"}
      BY DEF OwnInv, CallersOK, Controls, Current
    <1>2. /\ "wait" \in Places /\ "fresh" \in SupStates /\ {"wait", "idle", "connect"} \subseteq Places
      BY DEF Places, SupStates
    <1>3. /\ TaskGoes(t, "wait", Current) /\ task[t].at # "idle"
          /\ sup' = Stopped(Current)
          /\ UNCHANGED <<platform, awaiting>>
          /\ task[t].op = "stop" => control'.closed = TRUE
          /\ \/ control' = [control EXCEPT !.stopping = TRUE] /\ ~control.closed /\ ~control.stopping
             \/ control' = [control EXCEPT !.stopping = TRUE, !.closed = TRUE]
      <2>1. CASE Replace(t)
        <3>1. NoTask.at # "wait" BY DEF NoTask
        <3>2. /\ ~Refused /\ control.supervisor = task[t].sup
              /\ control' = [control EXCEPT !.stopping = TRUE]
              /\ sup' = Stopped(task[t].sup)
              /\ task' = [task EXCEPT ![t].at = "wait"]
          <4>1. [task EXCEPT ![t] = NoTask][t].at # "wait" BY <1>1, <3>1
          <4>2. [task EXCEPT ![t].at = "connect"][t].at # "wait"
            <5>1. task[t] \in CallTasks BY <1>1
            <5>2. [task[t] EXCEPT !.at = "connect"].at = "connect" BY <5>1 DEF CallTasks
            <5>3. QED BY <1>1, <5>2
          <4>3. QED BY <2>1, <4>1, <4>2 DEF Replace, Ends, Goto
        <3>3. task[t].op # "stop" BY <2>1 DEF Replace, At, OwnInv, StoppersOK
        <3>4. UNCHANGED <<platform, awaiting>> BY <2>1 DEF Replace, Idle
        <3>5. TaskGoes(t, "wait", Current) BY <1>1, <1>2, <3>2, GoesOn DEF Current
        <3>6. task[t].at # "idle" BY <2>1 DEF Replace, At
        <3>7. QED BY <3>2, <3>3, <3>4, <3>5, <3>6 DEF Refused, Current
      <2>2. CASE UnpairOrStop(t)
        <3>1. task' = [task EXCEPT ![t].at = "wait", ![t].sup = Current]
          BY <2>2 DEF UnpairOrStop, Current
        <3>2. TaskGoes(t, "wait", Current) /\ task[t].at # "idle"
          BY <1>1, <1>2, <2>2, <3>1, GoesOnWith DEF UnpairOrStop, At
        <3>3. sup' = Stopped(Current) /\ UNCHANGED <<platform, awaiting>>
          BY <2>2 DEF UnpairOrStop, Idle, Current
        <3>4. CASE task[t].at = "stop"
          <4>1. control' = [control EXCEPT !.stopping = TRUE, !.closed = TRUE]
            BY <2>2, <3>4 DEF UnpairOrStop, At
          <4>2. control'.closed = TRUE BY <1>1, <4>1 DEF Controls
          <4>3. QED BY <3>2, <3>3, <4>1, <4>2
        <3>5. CASE task[t].at # "stop"
          <4>1. /\ task[t].at = "unpair" /\ ~Refused
                /\ control' = [control EXCEPT !.stopping = TRUE, !.closed = control.closed]
            BY <2>2, <3>5 DEF UnpairOrStop, At
          <4>2. control' = [control EXCEPT !.stopping = TRUE] BY <1>1, <4>1 DEF Controls
          <4>3. task[t].op # "stop" BY <4>1 DEF OwnInv, StoppersOK
          <4>4. QED BY <3>2, <3>3, <4>1, <4>2, <4>3 DEF Refused
        <3>6. QED BY <3>4, <3>5
      <2>3. QED BY <2>1, <2>2
    <1> USE DEF TaskGoes
    <1>4. /\ control' \in Controls /\ control'.supervisor = control.supervisor
          /\ control'.stopped = control.stopped /\ control'.stopping = TRUE
          /\ control'.closed = TRUE \/ /\ control'.closed = control.closed
                                       /\ ~control.closed /\ ~control.stopping
      BY <1>1, <1>3 DEF Controls
    <1>5. Current' = Current BY <1>4 DEF Current
    <1>6. /\ sup' \in [Sups -> SupStates] /\ sup'[Current] \in {"draining", "ended"}
          /\ sup[Current] = "ended" => sup'[Current] = "ended"
          /\ \A r \in Sups \ {Current} : sup'[r] = sup[r]
      BY <1>1, <1>3, SupOperations
    <1>7. CallersOK' BY <1>1, <1>3, <1>4, <1>6 DEF CallersOK
    <1>8. ReplacedOver' BY <1>5, <1>6 DEF OwnInv, ReplacedOver
    <1>9. CurrentOK' BY <1>4, <1>5, <1>6 DEF OwnInv, CurrentOK
    <1>10. StoppersOK'
      <2>1. ~control.closed /\ ~control.stopping => \A r \in Tasks : ~Stopper(r)
        BY DEF OwnInv, StoppersOK
      <2>2. \A r \in Tasks \ {t} : Stopper(r)' <=> Stopper(r) BY <1>3 DEF Stopper
      <2>3. \A r \in Tasks : Stopper(r)' => task'[r].sup = Current'
        BY <1>3, <1>5, <2>2 DEF OwnInv, StoppersOK
      <2>4. \A r \in Tasks : task'[r].at = "erase" => sup'[Current'] = "ended"
        BY <1>3, <1>5, <1>6 DEF OwnInv, StoppersOK
      <2>5. \A r \in Tasks : task'[r].op = "stop" /\ task'[r].at # "stop" =>
                task'[r].at = "wait" /\ control'.closed
        BY <1>3, <1>4 DEF OwnInv, StoppersOK
      <2>6. \A q, r \in Tasks : Stopper(q)' /\ Stopper(r)' => q = r \/ control'.closed
        BY <1>4, <2>1, <2>2
      <2>7. QED BY <1>4, <2>3, <2>4, <2>5, <2>6 DEF StoppersOK
    <1>11. AwaitedOK' BY <1>3, <1>4, <1>5, <1>6 DEF OwnInv, AwaitedOK, CallersOK
    <1>12. OpsOK' BY <1>3, OpsKept DEF OwnInv
    <1>13. QED BY <1>7, <1>8, <1>9, <1>10, <1>11, <1>12 DEF OwnInv

\* A control gets a new supervisor: the old one has ended and nobody is stopping.
LEMMA BuildKeeps ==
    ASSUME OwnInv, CanBuild, UNCHANGED <<platform, awaiting>>,
           sup' = [sup EXCEPT ![Next1] = Initial],
           sup[Current] = "ended", ~control.closed,
           control' \in Controls, Current' = Next1, ~control'.stopped, ~control'.closed,
           task' \in [Tasks -> CallTasks],
           \A r \in Tasks : ~Stopper(r)' /\ (task'[r].op = "stop" => task'[r].at = "stop"),
           OpsOK'
    PROVE  OwnInv'
    <1>1. Next1 \in Sups /\ sup[Next1] = "unbuilt" BY NextIsFree
    <1>2. Initial \in {"unpaired", "fresh"} /\ Initial \in SupStates BY DEF Initial, SupStates
    <1>3. sup \in [Sups -> SupStates] BY DEF OwnInv, CallersOK
    <1>4. /\ sup' \in [Sups -> SupStates] /\ sup'[Next1] \in {"unpaired", "fresh"}
          /\ \A s \in Sups \ {Next1} : sup'[s] = sup[s]
      BY <1>1, <1>2, <1>3
    <1>5. CallersOK' BY <1>4 DEF OwnInv, CallersOK
    <1>6. ReplacedOver' BY <1>1, <1>4 DEF OwnInv, ReplacedOver
    <1>7. CurrentOK' BY <1>4 DEF CurrentOK
    <1>8. StoppersOK' BY DEF StoppersOK, Stopper
    <1>9. AwaitedOK'
      <2>1. awaiting \subseteq Sups /\ Next1 \notin awaiting
        BY <1>1 DEF OwnInv, CallersOK, AwaitedOK
      <2>2. QED BY <1>4, <2>1 DEF OwnInv, AwaitedOK
    <1>10. QED BY <1>5, <1>6, <1>7, <1>8, <1>9 DEF OwnInv

\* The first hold of a connect.
LEMMA ConnectKeeps == ASSUME OwnInv, NEW t \in Tasks, Connect(t) PROVE OwnInv'
    <1>1. /\ CallersOK /\ control \in Controls /\ sup \in [Sups -> SupStates]
          /\ task \in [Tasks -> CallTasks] /\ Current \in Sups
          /\ platform \in {"signal", "whatsapp"}
      BY DEF OwnInv, CallersOK, Controls, Current
    <1>2. /\ task[t].at = "connect" /\ task[t].op # "stop" /\ ~Stopper(t)
          /\ task[t].at \notin {"idle", "wait"}
      BY DEF Connect, At, OwnInv, StoppersOK, Stopper
    <1>3. UNCHANGED <<platform, awaiting>> BY DEF Connect, Idle
    <1>4. "look" \in Places \ {"wait", "erase"} /\ "fresh" \in SupStates BY DEF Places, SupStates
    <1>5. CASE /\ UNCHANGED <<control, sup>>
               /\ \/ task' = [task EXCEPT ![t] = NoTask]
                  \/ \E s \in Sups : task' = [task EXCEPT ![t].at = "look", ![t].sup = s]
      <2>1. \A s \in Sups : Lawful(s) BY <1>5 DEF Lawful
      <2>2. sup' \in [Sups -> SupStates] BY <1>1, <1>5
      <2>3. QED BY <1>2, <1>3, <1>4, <1>5, <2>1, <2>2, CallerGoesOn
    <1>6. CASE /\ ~Refused /\ control.stopped /\ CanBuild
               /\ sup' = [sup EXCEPT ![Next1] = Initial]
               /\ control' = [control EXCEPT !.supervisor = Next1, !.stopped = FALSE]
               /\ task' = [task EXCEPT ![t].at = "look", ![t].sup = Next1]
      <2>1. ~control.closed /\ ~control.stopping BY <1>6 DEF Refused
      <2>2. sup[Current] = "ended" BY <1>6, <2>1 DEF OwnInv, CurrentOK
      <2>3. Next1 \in Sups BY <1>6, NextIsFree
      <2>4. /\ control' \in Controls /\ Current' = Next1 /\ ~control'.stopped
            /\ ~control'.closed
        BY <1>1, <1>6, <2>1, <2>3 DEF Controls, Current
      <2>5. TaskGoes(t, "look", Next1) BY <1>1, <1>4, <1>6, <2>3, GoesOnWith
      <2>6. \A r \in Tasks : ~Stopper(r) /\ (task[r].op = "stop" => task[r].at = "stop")
        BY <2>1 DEF OwnInv, StoppersOK
      <2>7. \A r \in Tasks : ~Stopper(r)' /\ (task'[r].op = "stop" => task'[r].at = "stop")
        BY <1>2, <2>5, <2>6 DEF Stopper, TaskGoes
      <2>8. OpsOK' BY <1>2, <1>3, <2>5, OpsKept DEF OwnInv
      <2>9. task' \in [Tasks -> CallTasks] BY <2>5 DEF TaskGoes
      <2>10. QED BY <1>3, <1>6, <2>1, <2>2, <2>4, <2>7, <2>8, <2>9, BuildKeeps
    <1>7. QED
      <2>1. platform # "google" /\ control.supervisor \in Sups BY <1>1 DEF Current
      <2>2. QED BY <1>5, <1>6, <2>1 DEF Connect, Ends

\* A replacement that finds another supervisor, or is refused.
LEMMA ReplaceLeavesOff ==
    ASSUME OwnInv, NEW t \in Tasks, Replace(t), task'[t].at # "wait" PROVE OwnInv'
    <1>1. /\ CallersOK /\ sup \in [Sups -> SupStates] /\ task \in [Tasks -> CallTasks]
          /\ task[t].op # "stop" /\ task[t].at \notin {"idle", "wait"}
          /\ task[t] \in CallTasks
      BY DEF OwnInv, CallersOK, StoppersOK, Replace, At
    <1>2. UNCHANGED <<platform, awaiting>> BY DEF Replace, Idle
    <1>3. "connect" \in Places \ {"wait", "erase"} BY DEF Places
    <1>4. [task EXCEPT ![t].at = "wait"][t].at = "wait"
      <2>1. [task[t] EXCEPT !.at = "wait"].at = "wait" BY <1>1 DEF CallTasks
      <2>2. QED BY <1>1, <2>1
    <1>5. /\ UNCHANGED <<control, sup>>
          /\ \/ task' = [task EXCEPT ![t] = NoTask]
             \/ task' = [task EXCEPT ![t].at = "connect"]
      BY <1>4 DEF Replace, Ends, Goto
    <1>6. sup' \in [Sups -> SupStates] /\ \A s \in Sups : Lawful(s) BY <1>1, <1>5 DEF Lawful
    <1>7. QED BY <1>1, <1>2, <1>3, <1>5, <1>6, CallerGoesOn

\* A caller lets go of the control, or gives up waiting.
LEMMA FreeKeeps ==
    ASSUME OwnInv, UNCHANGED <<platform, sup>>,
           control' \in Controls, Current' = Current, control'.closed = control.closed,
           control'.stopped /\ ~control.closed => sup[Current] = "ended",
           task' \in [Tasks -> CallTasks], awaiting' \subseteq Sups,
           \A r \in Tasks : Stopper(r)' =>
              Stopper(r) /\ task'[r].sup = task[r].sup /\ (control'.stopping \/ control.closed),
           \A r \in Tasks : task'[r].at = "erase" => sup[Current] = "ended",
           \A r \in Tasks : task'[r].op = "stop" /\ task'[r].at # "stop" =>
              task'[r].at = "wait" /\ control.closed,
           \A s \in awaiting' : sup[s] # "unbuilt",
           Current \in awaiting' =>
              control.closed \/ (control'.stopping /\ \A r \in Tasks : ~Stopper(r)'),
           OpsOK'
    PROVE  OwnInv'
    <1>1. CallersOK' BY DEF OwnInv, CallersOK
    <1>2. ReplacedOver' /\ CurrentOK' BY DEF OwnInv, ReplacedOver, CurrentOK
    <1>3. StoppersOK' BY DEF OwnInv, StoppersOK
    <1>4. AwaitedOK' BY DEF OwnInv, AwaitedOK
    <1>5. QED BY <1>1, <1>2, <1>3, <1>4 DEF OwnInv

\* Who stops, what it stops and what the others do meanwhile.
LEMMA StopperFacts ==
    ASSUME OwnInv, NEW t \in Tasks, Stopper(t)
    PROVE  /\ task[t].sup = Current /\ Current \in Sups
           /\ control.stopping \/ control.closed
           /\ \A r \in Tasks \ {t} : Stopper(r) => control.closed
           /\ Current \in awaiting => control.closed
           /\ task[t].op = "stop" => control.closed
    <1>1. /\ \A r \in Tasks : Stopper(t) /\ Stopper(r) => t = r \/ control.closed
          /\ task[t].sup = Current /\ (control.stopping \/ control.closed)
      BY DEF OwnInv, StoppersOK
    <1>2. Current \in Sups BY DEF OwnInv, CallersOK, Controls, Current
    <1>3. Current \in awaiting => control.closed BY DEF OwnInv, AwaitedOK
    <1>4. task[t].op = "stop" => control.closed BY DEF OwnInv, StoppersOK, Stopper
    <1>5. QED BY <1>1, <1>2, <1>3, <1>4

\* A caller that stopped the supervisor ends, with the control freed or not.
LEMMA StopperEnds ==
    ASSUME OwnInv, NEW t \in Tasks, Stopper(t), sup[Current] = "ended",
           UNCHANGED <<platform, sup, awaiting>>,
           \/ control' = [control EXCEPT !.stopped = TRUE, !.stopping = FALSE]
           \/ control' = [control EXCEPT !.stopping = FALSE],
           \/ task' = [task EXCEPT ![t] = NoTask]
           \/ task' = [task EXCEPT ![t].at = "connect"] /\ task[t].op # "stop"
    PROVE  OwnInv'
    <1>1. /\ CallersOK /\ control \in Controls /\ task \in [Tasks -> CallTasks]
          /\ awaiting \subseteq Sups
      BY DEF OwnInv, CallersOK
    <1>2. /\ control' \in Controls /\ Current' = Current /\ control'.closed = control.closed
      BY <1>1 DEF Controls, Current
    <1>3. (\E at, s : TaskGoes(t, at, s)) \/ TaskEnds(t)
      <2>1. "connect" \in Places BY DEF Places
      <2>2. QED BY <1>1, <2>1, GoesOn, EndsThere
    <1>4. /\ task' \in [Tasks -> CallTasks]
          /\ \A r \in Tasks \ {t} : task'[r] = task[r]
          /\ task'[t].at \in {"idle", "connect"} /\ task'[t].op # "stop"
      <2>1. "connect" \in Places BY DEF Places
      <2>2. CASE task' = [task EXCEPT ![t] = NoTask] BY <1>1, <2>2, EndsThere DEF TaskEnds
      <2>3. CASE task' = [task EXCEPT ![t].at = "connect"] /\ task[t].op # "stop"
        BY <1>1, <2>1, <2>3, GoesOn DEF TaskGoes
      <2>4. QED BY <2>2, <2>3
    <1>5. /\ \A r \in Tasks \ {t} : Stopper(r) => control.closed
          /\ Current \in awaiting => control.closed
      BY StopperFacts
    <1>6. \A r \in Tasks : Stopper(r)' =>
             Stopper(r) /\ task'[r].sup = task[r].sup /\ (control'.stopping \/ control.closed)
      BY <1>4, <1>5 DEF Stopper
    <1>7. \A r \in Tasks : task'[r].op = "stop" /\ task'[r].at # "stop" =>
             task'[r].at = "wait" /\ control.closed
      BY <1>4 DEF OwnInv, StoppersOK
    <1>8. \A s \in awaiting : sup[s] # "unbuilt" BY DEF OwnInv, AwaitedOK
    <1>9. OpsOK' BY <1>3, OpsKept DEF OwnInv, Stopper
    <1>10. QED BY <1>1, <1>2, <1>4, <1>5, <1>6, <1>7, <1>8, <1>9, FreeKeeps

\* Supervisor.Stop returned.
LEMMA JoinedKeeps == ASSUME OwnInv, NEW t \in Tasks, Joined(t) PROVE OwnInv'
    <1>1. /\ CallersOK /\ control \in Controls /\ sup \in [Sups -> SupStates]
          /\ task \in [Tasks -> CallTasks] /\ task[t] \in CallTasks
          /\ platform \in {"signal", "whatsapp"} /\ awaiting \subseteq Sups
      BY DEF OwnInv, CallersOK
    <1>2. task[t].at = "wait" /\ Stopper(t) /\ sup[task[t].sup] = "ended"
      BY DEF Joined, At, Stopper
    <1>3. /\ task[t].sup = Current /\ Current \in Sups /\ sup[Current] = "ended"
          /\ control.stopping \/ control.closed
          /\ \A r \in Tasks \ {t} : Stopper(r) => control.closed
          /\ Current \in awaiting => control.closed
          /\ task[t].op = "stop" => control.closed
      BY <1>2, StopperFacts
    <1>4. UNCHANGED <<platform, awaiting>> BY DEF Joined, Idle
    <1>5. {"erase", "begin"} \subseteq Places BY DEF Places
    <1> DEFINE freed == [control EXCEPT !.stopped = TRUE, !.stopping = FALSE]
    <1>6. CASE /\ control' \in {freed, [control EXCEPT !.stopping = FALSE]}
               /\ \/ Ends(t)
                  \/ Goto(t, "connect") /\ task[t].op # "stop"
               /\ UNCHANGED sup
      BY <1>2, <1>3, <1>4, <1>6, StopperEnds DEF Ends, Goto
    <1>7. CASE /\ task[t].op = "unpair" /\ Goto(t, "erase") /\ UNCHANGED <<control, sup>>
      <2>1. TaskGoes(t, "erase", task[t].sup) BY <1>1, <1>5, <1>7, GoesOn DEF Goto
      <2>2. Current' = Current BY <1>7 DEF Current
      <2>3. \A r \in Tasks : Stopper(r)' => Stopper(r) /\ task'[r].sup = task[r].sup
        BY <1>2, <2>1 DEF Stopper, TaskGoes
      <2>4. \A r \in Tasks : Stopper(r)' => control'.stopping \/ control.closed
        BY <1>7, <2>3 DEF OwnInv, StoppersOK
      <2>5. \A r \in Tasks : task'[r].op = "stop" /\ task'[r].at # "stop" =>
               task'[r].at = "wait" /\ control.closed
        BY <1>7, <2>1 DEF OwnInv, StoppersOK, TaskGoes
      <2>6. \A s \in awaiting : sup[s] # "unbuilt" BY DEF OwnInv, AwaitedOK
      <2>7. /\ control' \in Controls /\ control'.closed = control.closed
            /\ control'.stopped /\ ~control.closed => sup[Current] = "ended"
            /\ Current \in awaiting' => control.closed
        BY <1>1, <1>3, <1>4, <1>7
      <2>8. UNCHANGED <<platform, sup>> /\ awaiting' \subseteq Sups /\ awaiting' = awaiting
        BY <1>1, <1>4, <1>7
      <2>9. OpsOK' BY <1>2, <2>1, <2>8, OpsKept DEF OwnInv
      <2>10. task' \in [Tasks -> CallTasks] BY <2>1 DEF TaskGoes
      <2>11. QED BY <1>3, <2>2, <2>3, <2>4, <2>5, <2>6, <2>7, <2>8, <2>9, <2>10, FreeKeeps
    <1>8. CASE /\ task[t].op \in {"connect", "retest"} /\ ~control.closed /\ CanBuild
               /\ control' = [control EXCEPT !.supervisor = Next1, !.stopped = FALSE,
                                             !.stopping = FALSE]
               /\ sup' = [sup EXCEPT ![Next1] = Initial]
               /\ task' = [task EXCEPT ![t].at = "begin", ![t].sup = Next1]
      <2>1. Next1 \in Sups BY <1>8, NextIsFree
      <2>2. control' \in Controls /\ Current' = Next1 /\ ~control'.stopped /\ ~control'.closed
        BY <1>1, <1>8, <2>1 DEF Controls, Current
      <2>3. TaskGoes(t, "begin", Next1) BY <1>1, <1>5, <1>8, <2>1, GoesOnWith
      <2>4. \A r \in Tasks : ~Stopper(r)' /\ (task'[r].op = "stop" => task'[r].at = "stop")
        BY <1>3, <1>8, <2>3 DEF OwnInv, StoppersOK, Stopper, TaskGoes
      <2>5. OpsOK' BY <1>2, <1>4, <2>3, OpsKept DEF OwnInv
      <2>6. task' \in [Tasks -> CallTasks] BY <2>3 DEF TaskGoes
      <2>7. QED BY <1>3, <1>4, <1>8, <2>2, <2>4, <2>5, <2>6, BuildKeeps
    <1>9. QED
      <2>1. task[t].op \in {"none", "connect", "unpair", "stop", "retest"} BY <1>1 DEF CallTasks
      <2>2. CASE task[t].op = "stop" BY <1>6, <2>2 DEF Joined
      <2>3. CASE task[t].op = "unpair" BY <1>1, <1>7, <2>3 DEF Joined
      <2>4. CASE platform = "whatsapp" /\ task[t].op = "connect" BY <1>6, <2>4 DEF Joined
      <2>5. CASE platform = "signal" /\ task[t].op \in {"connect", "retest"}
        BY <1>6, <1>8, <2>5 DEF Joined
      <2>6. task[t].op # "none" /\ (task[t].op = "retest" => platform = "signal")
        BY <1>2 DEF OwnInv, OpsOK
      <2>7. QED BY <1>1, <2>1, <2>2, <2>3, <2>4, <2>5, <2>6

\* Supervisor.Stop timed out: a goroutine waits on, or the shutdown gives up.
LEMMA TimesOutKeeps == ASSUME OwnInv, NEW t \in Tasks, StopTimesOut(t) PROVE OwnInv'
    <1>1. /\ CallersOK /\ control \in Controls /\ task \in [Tasks -> CallTasks]
          /\ platform \in {"signal", "whatsapp"} /\ awaiting \subseteq Sups
      BY DEF OwnInv, CallersOK
    <1>2. task[t].at = "wait" /\ Stopper(t) /\ sup[task[t].sup] = "draining"
      BY DEF StopTimesOut, At, Stopper
    <1>3. /\ task[t].sup = Current /\ Current \in Sups
          /\ control.stopping \/ control.closed
          /\ \A r \in Tasks \ {t} : Stopper(r) => control.closed
          /\ task[t].op = "stop" => control.closed
      BY <1>2, StopperFacts
    <1>4. task' = [task EXCEPT ![t] = NoTask]
      <2>1. platform # "google" /\ task[t].op # "cookies"
        BY <1>1 DEF CallTasks
      <2>2. QED BY <2>1 DEF StopTimesOut, Ends
    <1>5. TaskEnds(t) BY <1>1, <1>4, EndsThere
    <1>6. OpsOK' BY <1>2, <1>5, OpsKept DEF OwnInv, StopTimesOut, Idle
    <1>7. UNCHANGED <<platform, sup>> BY DEF StopTimesOut, Idle
    <1>8. \/ /\ control' = control /\ awaiting' = awaiting \cup {Current}
          \/ /\ control' \in {control, [control EXCEPT !.stopped = TRUE, !.stopping = FALSE]}
             /\ awaiting' = awaiting /\ control.closed
      BY <1>3 DEF StopTimesOut
    <1>9. /\ control' \in Controls /\ Current' = Current /\ control'.closed = control.closed
          /\ control' = control \/ control.closed
      BY <1>1, <1>8 DEF Controls, Current
    <1>10. /\ task' \in [Tasks -> CallTasks] /\ task'[t].at = "idle" /\ task'[t].op = "none"
           /\ \A r \in Tasks \ {t} : task'[r] = task[r]
      BY <1>5 DEF TaskEnds
    <1>11. control'.stopped /\ ~control.closed => sup[Current] = "ended"
      BY <1>9 DEF OwnInv, CurrentOK
    <1>12. \A r \in Tasks : Stopper(r)' => Stopper(r) /\ r # t /\ task'[r] = task[r]
      BY <1>10 DEF Stopper
    <1>13. \A r \in Tasks : task'[r].at = "erase" => sup[Current] = "ended"
      BY <1>10 DEF OwnInv, StoppersOK
    <1>14. \A r \in Tasks : task'[r].op = "stop" /\ task'[r].at # "stop" =>
              task'[r].at = "wait" /\ control.closed
      BY <1>10 DEF OwnInv, StoppersOK
    <1>15. awaiting' \subseteq Sups /\ \A s \in awaiting' : sup[s] # "unbuilt"
      BY <1>1, <1>2, <1>3, <1>8 DEF OwnInv, AwaitedOK
    <1>16. control.closed \/ (control'.stopping /\ \A r \in Tasks : ~Stopper(r)')
      BY <1>3, <1>9, <1>12
    <1>17. QED BY <1>3, <1>6, <1>7, <1>9, <1>10, <1>11, <1>12, <1>13, <1>14, <1>15, <1>16,
                  FreeKeeps

\* The stop that had timed out is over (awaitStoppedSupervisor).
LEMMA AwaitedKeeps == ASSUME OwnInv, NEW s \in Sups, AwaitStopped(s) PROVE OwnInv'
    <1>1. control \in Controls /\ task \in [Tasks -> CallTasks] /\ awaiting \subseteq Sups
      BY DEF OwnInv, CallersOK
    <1>2. /\ s \in awaiting /\ sup[s] = "ended" /\ awaiting' = awaiting \ {s}
          /\ UNCHANGED <<platform, sup, task>>
      BY DEF AwaitStopped
    <1>3. Current \in awaiting =>
             control.closed \/ (control.stopping /\ \A r \in Tasks : ~Stopper(r))
      BY DEF OwnInv, AwaitedOK
    <1>4. \/ /\ control' = [control EXCEPT !.stopped = TRUE, !.stopping = FALSE]
             /\ s = Current /\ ~control.closed
          \/ control' = control
      BY DEF AwaitStopped, Current
    <1>5. control' \in Controls /\ Current' = Current /\ control'.closed = control.closed
      BY <1>1, <1>4 DEF Controls, Current
    <1>6. control'.stopped /\ ~control.closed => sup[Current] = "ended"
      BY <1>2, <1>4 DEF OwnInv, CurrentOK
    <1>7. \A r \in Tasks : Stopper(r)' =>
             Stopper(r) /\ task'[r].sup = task[r].sup /\ (control'.stopping \/ control.closed)
      BY <1>2, <1>3, <1>4 DEF Stopper, OwnInv, StoppersOK
    <1>8. \A r \in Tasks : Stopper(r)' <=> Stopper(r) BY <1>2 DEF Stopper
    <1>9. \A r \in Tasks :
             /\ task'[r].at = "erase" => sup[Current] = "ended"
             /\ task'[r].op = "stop" /\ task'[r].at # "stop" =>
                   task'[r].at = "wait" /\ control.closed
      BY <1>2 DEF OwnInv, StoppersOK
    <1>10. awaiting' \subseteq Sups /\ \A r \in awaiting' : sup[r] # "unbuilt"
      BY <1>1, <1>2 DEF OwnInv, AwaitedOK
    <1>11. Current \in awaiting' =>
              control.closed \/ (control'.stopping /\ \A r \in Tasks : ~Stopper(r)')
      BY <1>2, <1>3, <1>4, <1>8
    <1>12. OpsOK' BY <1>2 DEF OwnInv, OpsOK
    <1>13. QED BY <1>1, <1>2, <1>5, <1>6, <1>7, <1>9, <1>10, <1>11, <1>12, FreeKeeps

\* The account's state is deleted, and the control is free again.
LEMMA EraseKeeps == ASSUME OwnInv, NEW t \in Tasks, Erase(t) PROVE OwnInv'
    <1>1. task[t].at = "erase" /\ Stopper(t) BY DEF Erase, At, Stopper
    <1>2. platform # "google" BY DEF OwnInv, CallersOK
    <1>3. sup[Current] = "ended" BY <1>1 DEF OwnInv, StoppersOK
    <1>4. /\ control' = [control EXCEPT !.stopped = TRUE, !.stopping = FALSE]
          /\ task' = [task EXCEPT ![t] = NoTask]
          /\ UNCHANGED <<platform, sup, awaiting>>
      BY <1>2 DEF Erase, Ends, Idle
    <1>5. QED BY <1>1, <1>3, <1>4, StopperEnds

\* Signal and WhatsApp have none of Google's steps.
LEMMA NoGoogleStep ==
    ASSUME OwnInv, NEW t \in Tasks
    PROVE  ~ (\/ Park(t) \/ GoogleUnpair(t) \/ JoinPairing(t) \/ GooglePair(t) \/ Parked(t)
              \/ StartFromSession(t) \/ Online(t) \/ Fallback(t) \/ Gaia(t) \/ Failed(t))
    <1>1. task[t] \in CallTasks /\ platform # "google" BY DEF OwnInv, CallersOK
    <1>2. task[t].at \in Places BY <1>1 DEF CallTasks
    <1>3. task[t].at \notin {"park", "join_pairing", "pair", "parked", "start", "online",
                             "fallback", "gaia", "failed"}
      BY <1>2 DEF Places
    <1>4. QED BY <1>1, <1>3 DEF Park, GoogleUnpair, JoinPairing, GooglePair, Parked,
                                StartFromSession, Online, Fallback, Gaia, Failed, At

\* A stop puts its caller to wait.
LEMMA StopsWait ==
    ASSUME OwnInv, NEW t \in Tasks, UnpairOrStop(t)
    PROVE  task'[t].at = "wait"
    <1>1. CallersOK /\ control.supervisor \in Sups BY DEF OwnInv, CallersOK, Controls
    <1>2. "wait" \in Places BY DEF Places
    <1>3. task' = [task EXCEPT ![t].at = "wait", ![t].sup = control.supervisor]
      BY DEF UnpairOrStop
    <1>4. TaskGoes(t, "wait", control.supervisor) BY <1>1, <1>2, <1>3, GoesOnWith
    <1>5. QED BY <1>4 DEF TaskGoes

\* Every step of Signal and WhatsApp keeps the invariant, and none changes the
\* platform.
LEMMA ControlStep == ASSUME ControlInv, [ControlNext]_controlVars PROVE ControlInv'
    <1>1. platform' = platform
      <2>1. ASSUME NEW t \in Tasks, TaskStep(t) PROVE platform' = platform
        BY <2>1 DEF TaskStep, Connect, Look, Act, RetestLook, Watch, Replace, UnpairOrStop,
                    UnpairRefused, Park, Joined, Erase, Begin, GoogleUnpair, JoinPairing,
                    GooglePair, Parked, StartFromSession, Online, Fallback, Gaia, Failed, Idle
      <2>2. ASSUME NEW t \in Tasks, StopTimesOut(t) \/ \E op \in Calls[platform] : Call(t, op)
            PROVE  platform' = platform
        BY <2>2 DEF StopTimesOut, Call, Idle
      <2>3. ASSUME NEW s \in Sups, SupervisorMoves(s) \/ StopCompletes(s) \/ AwaitStopped(s)
            PROVE  platform' = platform
        BY <2>3 DEF SupervisorMoves, StopCompletes, AwaitStopped
      <2>4. WatchStep \/ UNCHANGED controlVars => platform' = platform
        BY DEF WatchStep, controlVars
      <2>5. QED BY <2>1, <2>2, <2>3, <2>4 DEF ControlNext
    <1>2. SUFFICES ASSUME platform # "google" PROVE OwnInv' BY <1>1 DEF ControlInv
    <1>3. OwnInv BY <1>2 DEF ControlInv
    <1>4. ASSUME NEW t \in Tasks, TaskStep(t) PROVE OwnInv'
      <2>1. CASE Look(t) \/ Act(t) \/ RetestLook(t) \/ Watch(t) \/ UnpairRefused(t) \/ Begin(t)
        BY <1>3, <2>1, CallerSteps
      <2>2. CASE Replace(t) BY <1>3, <2>2, StopKeeps, ReplaceLeavesOff
      <2>3. CASE UnpairOrStop(t) BY <1>3, <2>3, StopsWait, StopKeeps
      <2>4. CASE Connect(t) BY <1>3, <2>4, ConnectKeeps
      <2>5. CASE Joined(t) BY <1>3, <2>5, JoinedKeeps
      <2>6. CASE Erase(t) BY <1>3, <2>6, EraseKeeps
      <2>7. QED BY <1>3, <1>4, <2>1, <2>2, <2>3, <2>4, <2>5, <2>6, NoGoogleStep DEF TaskStep
    <1>5. ASSUME NEW t \in Tasks, StopTimesOut(t) PROVE OwnInv'
      BY <1>3, <1>5, TimesOutKeeps
    <1>6. ASSUME NEW s \in Sups, AwaitStopped(s) PROVE OwnInv' BY <1>3, <1>6, AwaitedKeeps
    <1>7. QED BY <1>3, <1>4, <1>5, <1>6, ControlTurns DEF ControlNext

\* The inductive invariant holds of every control but Google's, whatever the
\* platforms, the number of callers and the bounds.
THEOREM ControlHolds == ControlSpec => []ControlInv
    <1>1. ASSUME ControlInit PROVE ControlInv
      <2>1. SUFFICES ASSUME platform # "google" PROVE OwnInv BY DEF ControlInv
      <2>2. platform \in {"signal", "whatsapp"}
        BY <1>1, <2>1, ControlConstants DEF ControlInit, ControlConstants
      <2>3. NoTask \in CallTasks /\ NoTask.at = "idle" /\ NoTask.op = "none" /\ 1 \in Sups
        BY NoTaskFits
      <2>4. /\ control \in Controls /\ control.supervisor = 1
            /\ control.closed = FALSE /\ control.stopped = FALSE
        BY <1>1, <2>3 DEF ControlInit, Controls
      <2>5. /\ sup \in [Sups -> SupStates] /\ sup[1] \in {"fresh", "unpaired"}
            /\ \A s \in Sups \ {1} : sup[s] = "unbuilt"
        BY <1>1, <2>3 DEF ControlInit, SupStates
      <2>6. /\ task \in [Tasks -> CallTasks] /\ awaiting = {}
            /\ \A t \in Tasks : task[t].at = "idle" /\ task[t].op = "none"
        BY <1>1, <2>3 DEF ControlInit
      <2>7. CallersOK BY <2>2, <2>4, <2>5, <2>6 DEF CallersOK
      <2>8. OpsOK /\ ReplacedOver /\ CurrentOK
        BY <2>4, <2>5, <2>6 DEF OpsOK, ReplacedOver, CurrentOK, Current
      <2>9. StoppersOK /\ AwaitedOK BY <2>6 DEF StoppersOK, AwaitedOK, Stopper
      <2>10. QED BY <2>7, <2>8, <2>9 DEF OwnInv
    <1>2. ControlInv /\ [ControlNext]_controlVars => ControlInv' BY ControlStep
    <1>3. QED BY <1>1, <1>2, PTL DEF ControlSpec

\* Only the control's own supervisor can be using the account.
LEMMA OthersAreOver ==
    ASSUME OwnInv
    PROVE  /\ \A s \in Sups \ {Current} : sup[s] \notin {"live", "pairing", "draining"}
           /\ Owners \subseteq {Current}
    <1>1. \A s \in Sups \ {Current} : sup[s] \in {"unbuilt", "ended"}
      BY DEF OwnInv, ReplacedOver
    <1>2. \A s \in Sups \ {Current} : sup[s] \notin {"live", "pairing", "draining"}
      BY <1>1
    <1>3. \A s \in Sups : Owner(s) => s = Current BY <1>2 DEF Owner
    <1>4. QED BY <1>2, <1>3 DEF Owners

\* Signal and WhatsApp: whatever is clicked while a stop, an unpairing, a restart
\* or the shutdown is under way, at most one supervisor can be using the account.
THEOREM OneOwnerHolds == ControlSpec => []OneOwner
    <1>1. ControlInv => OneOwner
      <2>1. SUFFICES ASSUME OwnInv PROVE Cardinality(Owners) <= 1
        BY DEF ControlInv, OneOwner
      <2>2. IsFiniteSet({Current}) /\ Cardinality({Current}) = 1 BY FS_Singleton
      <2>3. /\ Cardinality(Owners) \in Nat
            /\ Cardinality(Owners) <= Cardinality({Current})
        BY <2>1, <2>2, OthersAreOver, FS_Subset, FS_CardinalityType
      <2>4. QED BY <2>2, <2>3
    <1>2. QED BY <1>1, ControlHolds, PTL

\* Signal and WhatsApp: while the account's state is being deleted no supervisor,
\* old or new, is alive; and once the shutdown's Stop is over none is started any
\* more (StopAndUnpair, Stop).
THEOREM ErasedAndClosed == ControlSpec => [](UnpairAlone /\ ShutdownIsFinal)
    <1>1. ControlInv => UnpairAlone /\ ShutdownIsFinal
      <2>1. SUFFICES ASSUME platform # "google", OwnInv PROVE UnpairAlone /\ ShutdownIsFinal
        BY DEF ControlInv, UnpairAlone, ShutdownIsFinal
      <2>2. UnpairAlone
        <3>1. SUFFICES ASSUME NEW t \in Tasks, task[t].at = "erase" PROVE Owners = {}
          BY DEF UnpairAlone, At
        <3>2. sup[Current] = "ended" BY <2>1, <3>1 DEF OwnInv, StoppersOK
        <3>3. Current \notin Owners BY <3>2 DEF Owners, Owner
        <3>4. QED BY <2>1, <3>3, OthersAreOver
      <2>3. ShutdownIsFinal
        <3>1. SUFFICES ASSUME control.closed, NEW s \in Sups
                       PROVE  sup[s] \notin {"live", "pairing"}
          BY DEF ShutdownIsFinal
        <3>2. sup[Current] \in {"draining", "ended"} BY <2>1, <3>1 DEF OwnInv, CurrentOK
        <3>3. sup[Current] \notin {"live", "pairing"} BY <3>2
        <3>4. QED BY <2>1, <3>1, <3>3, OthersAreOver
      <2>4. QED BY <2>2, <2>3
    <1>2. QED BY <1>1, ControlHolds, PTL

-----------------------------------------------------------------------------
(* The poller of Signal.                                                    *)

Exits == [kind : Kinds, why : Reasons]
SendEnd == Exit("transient", "send")
PollerAt == {"off", "link", "version", "probe", "receive", "done"}

StatusType ==
    [known : BOOLEAN, connected : BOOLEAN, connecting : BOOLEAN, pairing : BOOLEAN,
     needsReauth : BOOLEAN, upgradeRequired : BOOLEAN, streak : Nat]
LoopType ==
    [at : PollerAt, probes : Nat, fails : Nat, poison : Nat, invalid : Nat, exit : Exits]
RunType ==
    [at : {"none", "running", "joining"}, admitting : BOOLEAN, finish : BOOLEAN,
     ctxDone : BOOLEAN, requested : Exits, terminal : Exits, resolved : BOOLEAN]
EvidenceType == [unseen : Nat, agreeing : Nat, refusals : Nat]

PollTypes ==
    /\ status \in StatusType /\ linked \in BOOLEAN
    /\ loop \in LoopType /\ run \in RunType
    /\ sender \in {"idle", "checked", "admitted"}
    /\ outcome \in Exits /\ evidence \in EvidenceType

\* The goroutine lives as long as the run, and no report is admitted without one.
OneLifeOK ==
    /\ (loop.at = "off") = (run.at = "none")
    /\ sender = "admitted" => run.at # "none"

\* The flags speak of the goroutine while it works; they name a park only once
\* it has ended, and then the one it ended with.
FlagsOK ==
    /\ status.connected => loop.at = "receive"
    /\ status.connecting => loop.at \in {"link", "version", "probe"}
    /\ status.pairing => loop.at = "link"
    /\ loop.at \in {"link", "version", "probe", "receive"} =>
           ~status.needsReauth /\ ~status.upgradeRequired
    /\ loop.at = "done" =>
           /\ (status.needsReauth <=> loop.exit.kind = "reauth")
           /\ (status.upgradeRequired <=> loop.exit.kind = "upgrade")
    /\ run.at = "none" =>
           /\ (status.needsReauth <=> outcome.kind = "reauth")
           /\ (status.upgradeRequired <=> outcome.kind = "upgrade")

\* What ends a run is the poller's exit, a failing send, or nothing; the poller
\* itself never ends by a send.
EndsOK ==
    /\ loop.exit.why # "send"
    /\ run.requested \in {Nothing, SendEnd}
    /\ run.at = "joining" =>
           IF run.resolved THEN loop.at = "done" /\ run.terminal = loop.exit
           ELSE run.terminal \in {Nothing, SendEnd}

Founded(e) ==
    /\ e.why = "refused" => evidence.refusals >= InvalidLimit
    /\ e.why = "unreadable" => evidence.unseen >= StreakLimit

\* The counters of the loop and of the bridge are covered by what happened, and
\* so are the parks made of them.
EvidenceOK ==
    /\ status.streak <= evidence.unseen
    /\ loop.at \in {"link", "version", "probe"} => loop.invalid = 0
    /\ loop.at = "receive" => loop.invalid <= evidence.refusals
    /\ loop.at = "done" => Founded(loop.exit)
    /\ run.at = "none" => Founded(outcome)

PollInv == PollTypes /\ OneLifeOK /\ FlagsOK /\ EndsOK /\ EvidenceOK

\* The poller's limits are at least one.
LEMMA LimitsPositive ==
    /\ FailureLimit \in Nat \ {0} /\ PoisonLimit \in Nat \ {0} /\ InvalidLimit \in Nat \ {0}
    /\ StreakLimit \in Nat \ {0} /\ ProbeAttempts \in Nat \ {0}
  BY PollerConstants

\* The ends the code makes are ends.
LEMMA EndTypes ==
    /\ Nothing \in Exits /\ SendEnd \in Exits /\ Exit("unpaired", "link") \in Exits
    /\ Exit("upgrade", "version") \in Exits /\ Exit("transient", "probe") \in Exits
    /\ Exit("reauth", "no_account") \in Exits /\ Exit("reauth", "unreadable") \in Exits
    /\ Exit("transient", "empty") \in Exits /\ Exit("reauth", "refused") \in Exits
    /\ Exit("upgrade", "poison") \in Exits /\ Exit("transient", "failures") \in Exits
    /\ Exit("transient", "panic") \in Exits
  BY DEF Nothing, SendEnd, Exit, Exits, Kinds, Reasons

\* A loop that is off and a generation that never ran are of their types.
LEMMA LoopRunNone ==
    /\ NoLoop \in LoopType /\ NoLoop.at = "off" /\ NoLoop.exit = Nothing /\ NoLoop.invalid = 0
    /\ NoRun \in RunType /\ NoRun.at = "none" /\ NoRun.requested = Nothing
  BY EndTypes DEF NoLoop, LoopType, PollerAt, NoRun, RunType

\* In the beginning nothing runs and nothing is requested.
LEMMA PollStart == PollerInit => PollInv
  <1> SUFFICES ASSUME PollerInit PROVE PollInv
    OBVIOUS
  <1>1. /\ Fresh \in StatusType /\ ~Fresh.connected /\ ~Fresh.connecting /\ ~Fresh.pairing
        /\ ~Fresh.needsReauth /\ ~Fresh.upgradeRequired /\ Fresh.streak = 0
    BY DEF Fresh, StatusType
  <1>2. PollTypes /\ OneLifeOK /\ EndsOK
    BY <1>1, EndTypes, LoopRunNone DEF PollerInit, PollTypes, EvidenceType, OneLifeOK, EndsOK, Nothing
  <1>3. FlagsOK
    BY <1>1, LoopRunNone DEF PollerInit, FlagsOK, Nothing
  <1>4. EvidenceOK
    BY <1>1, LoopRunNone DEF PollerInit, EvidenceOK, Founded, Nothing
  <1> QED BY <1>2, <1>3, <1>4 DEF PollInv

\* What the flags are once lowered, and the goroutine once it has ended.
LEMMA LowerIs ==
    ASSUME NEW s \in StatusType
    PROVE  /\ Lower(s) \in StatusType
           /\ ~Lower(s).connected /\ ~Lower(s).connecting /\ Lower(s).pairing = s.pairing
           /\ Lower(s).needsReauth = s.needsReauth
           /\ Lower(s).upgradeRequired = s.upgradeRequired /\ Lower(s).streak = s.streak
  BY DEF Lower, StatusType

\* What ending the loop leaves of it.
LEMMA EndedLoop ==
    ASSUME PollTypes, NEW e \in Exits, NEW flags, LoopEnds(e, flags)
    PROVE  loop' \in LoopType /\ loop'.at = "done" /\ loop'.exit = e /\ status' = flags
  <1>1. loop' = [loop EXCEPT !.at = "done", !.exit = e] /\ loop \in LoopType /\ status' = flags
    BY DEF LoopEnds, PollTypes
  <1> QED BY <1>1 DEF LoopType, PollerAt

\* The goroutine ends: enough is that its flags say how, and that a park it ends
\* with is founded.
LEMMA EndKeeps ==
    ASSUME PollInv, NEW e \in Exits, NEW flags, LoopEnds(e, flags),
           e.why # "send", loop.at \notin {"off", "done"},
           flags \in StatusType, ~flags.connected, ~flags.connecting, ~flags.pairing,
           flags.needsReauth <=> (e.kind = "reauth"),
           flags.upgradeRequired <=> (e.kind = "upgrade"),
           linked' \in BOOLEAN, evidence' \in EvidenceType,
           flags.streak <= evidence'.unseen,
           e.why = "refused" => evidence'.refusals >= InvalidLimit,
           e.why = "unreadable" => evidence'.unseen >= StreakLimit,
           UNCHANGED <<run, sender, outcome>>
    PROVE  PollInv'
  <1>1. loop' \in LoopType /\ loop'.at = "done" /\ loop'.exit = e /\ status' = flags
    BY EndedLoop DEF PollInv
  <1>2. PollTypes'
    BY <1>1 DEF PollInv, PollTypes
  <1>3. run.at # "none"
    BY DEF PollInv, OneLifeOK
  <1>4. OneLifeOK' /\ FlagsOK'
    BY <1>1, <1>3 DEF PollInv, OneLifeOK, FlagsOK
  <1>5. EndsOK'
    BY <1>1 DEF PollInv, EndsOK
  <1>6. EvidenceOK'
    BY <1>1, <1>3 DEF EvidenceOK, Founded
  <1> QED BY <1>2, <1>4, <1>5, <1>6 DEF PollInv

\* It goes on: enough is that its flags are those of its place, and that its
\* counts are covered.
LEMMA WorkKeeps ==
    ASSUME PollInv, loop.at \notin {"off", "done"},
           loop' \in LoopType, loop'.at \in {"version", "probe", "receive"},
           loop'.exit = loop.exit,
           loop'.at # "receive" => loop'.invalid = 0,
           loop'.at = "receive" => loop'.invalid <= evidence'.refusals,
           status' \in StatusType,
           status'.connected => loop'.at = "receive",
           status'.connecting => loop'.at # "receive",
           ~status'.pairing, ~status'.needsReauth, ~status'.upgradeRequired,
           linked' \in BOOLEAN, evidence' \in EvidenceType,
           status'.streak <= evidence'.unseen,
           UNCHANGED <<run, sender, outcome>>
    PROVE  PollInv'
  <1>1. PollTypes'
    BY DEF PollInv, PollTypes
  <1>2. run.at # "none"
    BY DEF PollInv, OneLifeOK
  <1>3. OneLifeOK' /\ FlagsOK'
    BY <1>2 DEF PollInv, OneLifeOK, FlagsOK
  <1>4. EndsOK'
    BY DEF PollInv, EndsOK
  <1>5. EvidenceOK'
    BY <1>2 DEF EvidenceOK, Founded
  <1> QED BY <1>1, <1>3, <1>4, <1>5 DEF PollInv

\* A new generation has no exit and nothing requested, and lowers the flags.
LEMMA StartStays == PollInv /\ StartGeneration => PollInv'
  <1> SUFFICES ASSUME PollInv, StartGeneration PROVE PollInv'
    OBVIOUS
  <1>1. PICK account \in BOOLEAN :
           /\ account = (status.known \/ linked)
           /\ status' = [status EXCEPT !.known = account, !.connecting = TRUE,
                            !.pairing = ~account, !.needsReauth = FALSE, !.upgradeRequired = FALSE]
           /\ loop' = [NoLoop EXCEPT !.at = IF account THEN "version" ELSE "link"]
    BY DEF StartGeneration
  <1>2. /\ run.at = "none" /\ ~status.connected
        /\ run' = [NoRun EXCEPT !.at = "running", !.admitting = TRUE]
        /\ UNCHANGED <<linked, sender, outcome, evidence>>
    BY DEF StartGeneration
  <1>3. /\ status' \in StatusType /\ ~status'.connected /\ status'.connecting
        /\ (status'.pairing <=> ~account) /\ ~status'.needsReauth /\ ~status'.upgradeRequired
        /\ status'.streak = status.streak
    <2>1. status \in StatusType
      BY DEF PollInv, PollTypes
    <2> QED BY <1>1, <1>2, <2>1 DEF StatusType
  <1>4. /\ loop' \in LoopType /\ loop'.at = IF account THEN "version" ELSE "link"
        /\ loop'.invalid = 0 /\ loop'.exit = Nothing
    BY <1>1, EndTypes DEF NoLoop, LoopType, PollerAt
  <1>5. run' \in RunType /\ run'.at = "running" /\ run'.requested = Nothing
    BY <1>2, EndTypes DEF NoRun, RunType
  <1>6. PollTypes'
    BY <1>2, <1>3, <1>4, <1>5 DEF PollInv, PollTypes
  <1>7. OneLifeOK' /\ FlagsOK'
    BY <1>3, <1>4, <1>5 DEF OneLifeOK, FlagsOK
  <1>8. EndsOK'
    BY <1>4, <1>5 DEF EndsOK, Nothing
  <1>9. EvidenceOK'
    BY <1>2, <1>3, <1>4, <1>5 DEF PollInv, EvidenceOK
  <1> QED BY <1>6, <1>7, <1>8, <1>9 DEF PollInv

\* What a working goroutine knows of the flags.
LEMMA AtWork ==
    ASSUME PollInv, loop.at \in {"link", "version", "probe", "receive"}
    PROVE  /\ status \in StatusType /\ loop \in LoopType /\ linked \in BOOLEAN
           /\ evidence \in EvidenceType
           /\ ~status.needsReauth /\ ~status.upgradeRequired
           /\ loop.at # "link" => ~status.pairing
           /\ loop.at = "receive" => ~status.connecting
           /\ loop.at # "receive" => ~status.connected
           /\ status.streak <= evidence.unseen
  BY DEF PollInv, PollTypes, FlagsOK, EvidenceOK

\* The flags as they were, lowered, are those of an end that is no park.
LEMMA LoweredAtWork ==
    ASSUME PollInv, loop.at \in {"version", "probe", "receive"}
    PROVE  /\ Lower(status) \in StatusType
           /\ ~Lower(status).connected /\ ~Lower(status).connecting /\ ~Lower(status).pairing
           /\ ~Lower(status).needsReauth /\ ~Lower(status).upgradeRequired
           /\ Lower(status).streak = status.streak
           /\ status.streak <= evidence.unseen /\ evidence \in EvidenceType /\ linked \in BOOLEAN
  BY LowerIs, AtWork

\* A link gives an account and the loop goes on, or the loop ends as unpaired.
LEMMA LinkStays == PollInv /\ LinkEnds => PollInv'
  <1> SUFFICES ASSUME PollInv, LinkEnds PROVE PollInv'
    OBVIOUS
  <1>1. loop.at = "link" /\ UNCHANGED <<run, sender, outcome, starts, evidence>>
    BY DEF LinkEnds
  <1>2. PICK flags : flags = [Lower(status) EXCEPT !.pairing = FALSE]
    OBVIOUS
  <1>3. PICK low : low = Lower(status)
    OBVIOUS
  <1>4. /\ low \in StatusType /\ ~low.connected /\ ~low.connecting
        /\ ~low.needsReauth /\ ~low.upgradeRequired /\ low.streak <= evidence.unseen
        /\ loop \in LoopType /\ evidence \in EvidenceType /\ linked \in BOOLEAN
    BY <1>1, <1>3, LowerIs, AtWork
  <1>5. /\ flags \in StatusType /\ ~flags.connected /\ ~flags.connecting /\ ~flags.pairing
        /\ ~flags.needsReauth /\ ~flags.upgradeRequired /\ flags.streak = low.streak
    BY <1>2, <1>3, <1>4 DEF StatusType
  <1>6. CASE linked' = TRUE /\ loop' = [loop EXCEPT !.at = "version"]
             /\ status' = [flags EXCEPT !.known = TRUE]
    <2>1. /\ status' \in StatusType /\ ~status'.connected /\ ~status'.connecting
          /\ ~status'.pairing /\ ~status'.needsReauth /\ ~status'.upgradeRequired
          /\ status'.streak = low.streak
      BY <1>5, <1>6 DEF StatusType
    <2>2. /\ loop' \in LoopType /\ loop'.at = "version" /\ loop'.exit = loop.exit
          /\ loop'.invalid = loop.invalid
      BY <1>4, <1>6 DEF LoopType, PollerAt
    <2>3. loop.invalid = 0
      BY <1>1 DEF PollInv, EvidenceOK
    <2> QED BY <1>1, <1>4, <1>6, <2>1, <2>2, <2>3, WorkKeeps
  <1>7. CASE LoopEnds(IF Canceled THEN Nothing ELSE Exit("unpaired", "link"), flags)
             /\ UNCHANGED linked
    <2>1. PICK e : e = IF Canceled THEN Nothing ELSE Exit("unpaired", "link")
      OBVIOUS
    <2>2. e \in Exits /\ e.kind \in {"none", "unpaired"} /\ e.why \in {"none", "link"}
      BY <2>1, EndTypes DEF Nothing, Exit
    <2>3. LoopEnds(e, flags)
      BY <1>7, <2>1
    <2> QED BY <1>1, <1>4, <1>5, <1>7, <2>2, <2>3, EndKeeps
  <1> QED BY <1>2, <1>6, <1>7 DEF LinkEnds

\* The version gate lets the loop go on, or ends it with an upgrade.
LEMMA VersionStays == PollInv /\ VersionGate => PollInv'
  <1> SUFFICES ASSUME PollInv, VersionGate PROVE PollInv'
    OBVIOUS
  <1>1. loop.at = "version" /\ UNCHANGED <<linked, run, sender, outcome, starts, evidence>>
    BY DEF VersionGate
  <1>2. CASE LoopEnds(Nothing, Lower(status))
    BY <1>1, <1>2, EndTypes, LoweredAtWork, EndKeeps DEF Nothing
  <1>3. CASE loop' = [loop EXCEPT !.at = "probe"] /\ UNCHANGED status
    <2>1. loop \in LoopType /\ loop.invalid = 0
      BY <1>1, AtWork DEF PollInv, EvidenceOK
    <2>2. /\ loop' \in LoopType /\ loop'.at = "probe" /\ loop'.exit = loop.exit
          /\ loop'.invalid = 0
      BY <1>3, <2>1 DEF LoopType, PollerAt
    <2> QED BY <1>1, <1>3, <2>2, AtWork, WorkKeeps
  <1>4. CASE LoopEnds(Exit("upgrade", "version"),
                      [Lower(status) EXCEPT !.needsReauth = FALSE, !.upgradeRequired = TRUE])
    <2>1. PICK low : low = Lower(status)
      OBVIOUS
    <2>2. PICK flags : flags = [low EXCEPT !.needsReauth = FALSE, !.upgradeRequired = TRUE]
      OBVIOUS
    <2>3. /\ flags \in StatusType /\ ~flags.connected /\ ~flags.connecting /\ ~flags.pairing
          /\ ~flags.needsReauth /\ flags.upgradeRequired /\ flags.streak <= evidence.unseen
      BY <1>1, <2>1, <2>2, LoweredAtWork DEF StatusType
    <2>4. PICK e : e = Exit("upgrade", "version")
      OBVIOUS
    <2>5. e \in Exits /\ e.kind = "upgrade" /\ e.why = "version"
      BY <2>4, EndTypes DEF Exit
    <2>6. LoopEnds(e, flags) /\ linked' \in BOOLEAN /\ evidence' \in EvidenceType
      BY <1>1, <1>4, <2>1, <2>2, <2>4, LoweredAtWork
    <2> QED BY <1>1, <2>3, <2>5, <2>6, EndKeeps
  <1> QED BY <1>2, <1>3, <1>4 DEF VersionGate

\* A probe that failed for good: how it is classified.
LEMMA UnseenStays ==
    ASSUME NEW result \in {"empty", "error"}, PollInv, loop.at = "probe", Unseen(result),
           UNCHANGED <<linked, run, sender, outcome, starts>>
    PROVE  PollInv'
  <1>1. PICK low : low = [Lower(status) EXCEPT !.upgradeRequired = FALSE]
    OBVIOUS
  <1>2. PICK down : down = Lower(status)
    OBVIOUS
  <1>3. /\ low \in StatusType /\ ~low.connected /\ ~low.connecting /\ ~low.pairing
        /\ ~low.upgradeRequired /\ low.streak = status.streak
    BY <1>1, <1>2, LoweredAtWork DEF StatusType
  <1>4. /\ evidence \in EvidenceType /\ linked \in BOOLEAN /\ linked' \in BOOLEAN
        /\ status.streak \in Nat /\ status.streak <= evidence.unseen
    BY LoweredAtWork, AtWork DEF StatusType
  <1>5. CASE result = "error"
    <2>1. PICK flags : flags = [low EXCEPT !.needsReauth = FALSE]
      OBVIOUS
    <2>2. /\ flags \in StatusType /\ ~flags.connected /\ ~flags.connecting /\ ~flags.pairing
          /\ ~flags.needsReauth /\ ~flags.upgradeRequired /\ flags.streak = status.streak
      BY <1>3, <2>1 DEF StatusType
    <2>3. PICK e : e = Exit("transient", "probe")
      OBVIOUS
    <2>4. e \in Exits /\ e.kind = "transient" /\ e.why = "probe"
      BY <2>3, EndTypes DEF Exit
    <2>5. LoopEnds(e, flags) /\ evidence' = [evidence EXCEPT !.agreeing = 0]
      BY <1>1, <1>5, <2>1, <2>3 DEF Unseen
    <2>6. evidence' \in EvidenceType /\ evidence'.unseen = evidence.unseen
      BY <1>4, <2>5 DEF EvidenceType
    <2> QED BY <1>4, <2>2, <2>4, <2>5, <2>6, EndKeeps
  <1>6. CASE result = "empty" /\ ~linked
    <2>1. PICK flags : flags = [low EXCEPT !.needsReauth = TRUE]
      OBVIOUS
    <2>2. /\ flags \in StatusType /\ ~flags.connected /\ ~flags.connecting /\ ~flags.pairing
          /\ flags.needsReauth /\ ~flags.upgradeRequired /\ flags.streak = status.streak
      BY <1>3, <2>1 DEF StatusType
    <2>3. PICK e : e = Exit("reauth", "no_account")
      OBVIOUS
    <2>4. e \in Exits /\ e.kind = "reauth" /\ e.why = "no_account"
      BY <2>3, EndTypes DEF Exit
    <2>5. LoopEnds(e, flags) /\ evidence' = [evidence EXCEPT !.agreeing = 0]
      BY <1>1, <1>6, <2>1, <2>3 DEF Unseen
    <2>6. evidence' \in EvidenceType /\ evidence'.unseen = evidence.unseen
      BY <1>4, <2>5 DEF EvidenceType
    <2> QED BY <1>4, <2>2, <2>4, <2>5, <2>6, EndKeeps
  <1>7. CASE result = "empty" /\ linked
    <2>1. PICK streak : streak = status.streak + 1
      OBVIOUS
    <2>2. streak \in Nat /\ streak <= evidence.unseen + 1
      BY <1>4, <2>1 DEF EvidenceType
    <2>3. PICK parks \in BOOLEAN :
             (parks <=> streak >= StreakLimit) /\ parks = (streak >= StreakLimit)
      <3>1. CASE streak >= StreakLimit
        <4> WITNESS TRUE \in BOOLEAN
        <4> QED BY <3>1
      <3>2. CASE ~(streak >= StreakLimit)
        <4>1. (streak >= StreakLimit) = FALSE
          BY <3>2, <2>2, LimitsPositive, Z3
        <4> WITNESS FALSE \in BOOLEAN
        <4> QED BY <4>1, Zenon
      <3> QED BY <3>1, <3>2
    <2>4. PICK flags : flags = [low EXCEPT !.needsReauth = parks, !.streak = streak]
      OBVIOUS
    <2>5. /\ flags \in StatusType /\ ~flags.connected /\ ~flags.connecting /\ ~flags.pairing
          /\ (flags.needsReauth <=> parks) /\ ~flags.upgradeRequired /\ flags.streak = streak
      BY <1>3, <2>2, <2>3, <2>4 DEF StatusType
    <2>6. PICK e : e = IF parks THEN Exit("reauth", "unreadable") ELSE Exit("transient", "empty")
      OBVIOUS
    <2>7. /\ e \in Exits /\ (e.kind = "reauth" <=> parks) /\ e.kind # "upgrade"
          /\ e.why \in {"unreadable", "empty"} /\ (e.why = "unreadable" <=> parks)
      BY <2>3, <2>6, EndTypes DEF Exit
    <2>8. LoopEnds(e, flags)
      <3>1. LoopEnds(IF streak >= StreakLimit THEN Exit("reauth", "unreadable")
                     ELSE Exit("transient", "empty"),
                     [low EXCEPT !.needsReauth = streak >= StreakLimit, !.streak = streak])
        BY <1>1, <1>7, <2>1 DEF Unseen
      <3>2. flags = [low EXCEPT !.needsReauth = streak >= StreakLimit, !.streak = streak]
        BY <2>3, <2>4
      <3>3. e = IF streak >= StreakLimit THEN Exit("reauth", "unreadable")
                ELSE Exit("transient", "empty")
        BY <2>3, <2>6
      <3> QED BY <3>1, <3>2, <3>3
    <2>9. evidence' \in EvidenceType /\ evidence'.unseen = evidence.unseen + 1
      <3>1. evidence' = [evidence EXCEPT !.unseen = @ + 1, !.agreeing = @ + 1]
        BY <1>7 DEF Unseen
      <3>2. evidence.unseen \in Nat /\ evidence.agreeing \in Nat
        BY <1>4 DEF EvidenceType
      <3>3. PICK n, m \in Nat : n = evidence.unseen + 1 /\ m = evidence.agreeing + 1
        BY <3>2
      <3>4. evidence' = [evidence EXCEPT !.unseen = n, !.agreeing = m]
        BY <3>1, <3>3
      <3> QED BY <1>4, <3>3, <3>4 DEF EvidenceType
    <2>10. flags.streak <= evidence'.unseen
      BY <2>2, <2>5, <2>9
    <2>11. e.why = "unreadable" => evidence'.unseen >= StreakLimit
      BY <2>2, <2>3, <2>7, <2>9, <1>4, LimitsPositive DEF EvidenceType
    <2> QED BY <1>4, <2>5, <2>7, <2>8, <2>9, <2>10, <2>11, EndKeeps
  <1> QED BY <1>4, <1>5, <1>6, <1>7

\* A probe that sees the account clears the evidence; the last that does not founds the end.
LEMMA ProbeStays ==
    ASSUME NEW result \in {"seen", "empty", "error"}, PollInv, ProbeAccount(result)
    PROVE  PollInv'
  <1>1. loop.at = "probe" /\ UNCHANGED <<linked, run, sender, outcome, starts>>
    BY DEF ProbeAccount
  <1>2. loop \in LoopType /\ loop.invalid = 0
    BY <1>1, AtWork DEF PollInv, EvidenceOK
  <1>3. CASE LoopEnds(Nothing, Lower(status)) /\ UNCHANGED evidence
    BY <1>1, <1>3, EndTypes, LoweredAtWork, EndKeeps DEF Nothing
  <1>4. CASE /\ loop' = [loop EXCEPT !.at = "receive"]
             /\ status' = [status EXCEPT !.connected = TRUE, !.connecting = FALSE,
                              !.needsReauth = FALSE, !.upgradeRequired = FALSE, !.streak = 0]
             /\ evidence' = [unseen |-> 0, agreeing |-> 0, refusals |-> 0]
    <2>1. /\ status' \in StatusType /\ ~status'.connecting /\ status'.pairing = status.pairing
          /\ ~status'.needsReauth /\ ~status'.upgradeRequired /\ status'.streak = 0
      <3>1. status \in StatusType
        BY <1>1, AtWork
      <3> QED BY <1>4, <3>1 DEF StatusType
    <2>2. /\ loop' \in LoopType /\ loop'.at = "receive" /\ loop'.exit = loop.exit
          /\ loop'.invalid = 0
      BY <1>2, <1>4 DEF LoopType, PollerAt
    <2>3. evidence' \in EvidenceType /\ evidence'.unseen = 0 /\ evidence'.refusals = 0
      BY <1>4 DEF EvidenceType
    <2> QED BY <1>1, <2>1, <2>2, <2>3, AtWork, WorkKeeps
  <1>5. CASE loop' = [loop EXCEPT !.probes = loop.probes + 1] /\ UNCHANGED <<status, evidence>>
    <2>1. /\ loop' \in LoopType /\ loop'.at = "probe" /\ loop'.exit = loop.exit
          /\ loop'.invalid = 0
      BY <1>1, <1>2, <1>5 DEF LoopType, PollerAt
    <2> QED BY <1>1, <1>5, <2>1, AtWork, WorkKeeps
  <1>6. CASE result # "seen" /\ Unseen(result)
    BY <1>1, <1>6, UnseenStays
  <1> QED BY <1>3, <1>4, <1>5, <1>6 DEF ProbeAccount

\* A refused poll adds to the evidence, and the poll that reaches a limit founds the end.
LEMMA PollStays ==
    ASSUME NEW result \in {"ok", "refused", "poison", "error"}, PollInv, PollOnce(result)
    PROVE  PollInv'
  <1>1. loop.at = "receive" /\ UNCHANGED <<linked, run, sender, outcome, starts>>
    BY DEF PollOnce
  <1>2. /\ evidence \in EvidenceType /\ status \in StatusType /\ loop \in LoopType
        /\ linked' \in BOOLEAN /\ status.streak <= evidence.unseen
        /\ loop.invalid \in Nat /\ loop.invalid <= evidence.refusals
        /\ evidence.refusals \in Nat /\ evidence.unseen \in Nat
    BY <1>1, AtWork DEF PollInv, EvidenceOK, EvidenceType, LoopType
  <1>3. PICK refusals : refusals = IF ~Canceled /\ result = "refused"
                                   THEN evidence.refusals + 1 ELSE 0
    OBVIOUS
  <1>4. refusals \in Nat
    BY <1>2, <1>3
  <1>5. /\ evidence' \in EvidenceType /\ evidence'.refusals = refusals
        /\ evidence'.unseen = evidence.unseen
    <2>1. evidence' = [evidence EXCEPT !.refusals = refusals]
      BY <1>3 DEF PollOnce
    <2> QED BY <1>2, <1>4, <2>1 DEF EvidenceType
  <1>6. CASE Canceled
    <2>1. PICK flags : flags = [status EXCEPT !.connected = FALSE]
      OBVIOUS
    <2>2. /\ flags \in StatusType /\ ~flags.connected /\ flags.connecting = status.connecting
          /\ flags.pairing = status.pairing /\ flags.needsReauth = status.needsReauth
          /\ flags.upgradeRequired = status.upgradeRequired /\ flags.streak = status.streak
      BY <1>2, <2>1 DEF StatusType
    <2>3. LoopEnds(Nothing, flags)
      BY <1>6, <2>1 DEF PollOnce
    <2>4. Nothing \in Exits /\ Nothing.kind = "none" /\ Nothing.why = "none"
      BY EndTypes DEF Nothing
    <2> QED BY <1>1, <1>2, <1>5, <2>2, <2>3, <2>4, AtWork, EndKeeps
  <1>7. CASE ~Canceled
    <2>1. Receive(result)
      BY <1>7 DEF PollOnce
    <2>2. PICK misses : misses = Misses(result)
      OBVIOUS
    <2>3. misses \in Nat /\ misses <= refusals
      BY <1>2, <1>3, <1>7, <2>2 DEF Misses
    <2>4. CASE \E n, p \in Nat :
                  /\ loop' = [loop EXCEPT !.fails = n, !.poison = p, !.invalid = misses]
                  /\ UNCHANGED status
      <3>1. PICK n, p \in Nat :
                  /\ loop' = [loop EXCEPT !.fails = n, !.poison = p, !.invalid = misses]
                  /\ UNCHANGED status
        BY <2>4
      <3>2. /\ loop' \in LoopType /\ loop'.at = "receive" /\ loop'.exit = loop.exit
            /\ loop'.invalid = misses
        BY <1>1, <1>2, <2>3, <3>1 DEF LoopType
      <3> QED BY <1>1, <1>2, <1>5, <2>3, <3>1, <3>2, AtWork, WorkKeeps
    <2>5. CASE /\ result = "refused" /\ misses >= InvalidLimit
               /\ LoopEnds(Exit("reauth", "refused"), [Lower(status) EXCEPT !.needsReauth = TRUE])
      <3>1. PICK low : low = Lower(status)
        OBVIOUS
      <3>2. PICK flags : flags = [low EXCEPT !.needsReauth = TRUE]
        OBVIOUS
      <3>3. /\ flags \in StatusType /\ ~flags.connected /\ ~flags.connecting /\ ~flags.pairing
            /\ flags.needsReauth /\ ~flags.upgradeRequired /\ flags.streak <= evidence.unseen
        BY <1>1, <3>1, <3>2, LoweredAtWork DEF StatusType
      <3>4. PICK e : e = Exit("reauth", "refused")
        OBVIOUS
      <3>5. e \in Exits /\ e.kind = "reauth" /\ e.why = "refused"
        BY <3>4, EndTypes DEF Exit
      <3>6. LoopEnds(e, flags)
        BY <2>5, <3>1, <3>2, <3>4
      <3>7. evidence'.refusals >= InvalidLimit
        BY <1>4, <1>5, <2>3, <2>5, LimitsPositive
      <3> QED BY <1>1, <1>2, <1>5, <3>3, <3>5, <3>6, <3>7, EndKeeps
    <2>6. CASE LoopEnds(Exit("upgrade", "poison"),
                        [Lower(status) EXCEPT !.needsReauth = FALSE, !.upgradeRequired = TRUE])
      <3>1. PICK low : low = Lower(status)
        OBVIOUS
      <3>2. PICK flags : flags = [low EXCEPT !.needsReauth = FALSE, !.upgradeRequired = TRUE]
        OBVIOUS
      <3>3. /\ flags \in StatusType /\ ~flags.connected /\ ~flags.connecting /\ ~flags.pairing
            /\ ~flags.needsReauth /\ flags.upgradeRequired /\ flags.streak <= evidence.unseen
        BY <1>1, <3>1, <3>2, LoweredAtWork DEF StatusType
      <3>4. PICK e : e = Exit("upgrade", "poison")
        OBVIOUS
      <3>5. e \in Exits /\ e.kind = "upgrade" /\ e.why = "poison"
        BY <3>4, EndTypes DEF Exit
      <3>6. LoopEnds(e, flags)
        BY <2>6, <3>1, <3>2, <3>4
      <3> QED BY <1>1, <1>2, <1>5, <3>3, <3>5, <3>6, EndKeeps
    <2>7. CASE LoopEnds(Exit("transient", "failures"), Lower(status))
      <3>1. PICK e : e = Exit("transient", "failures")
        OBVIOUS
      <3>2. e \in Exits /\ e.kind = "transient" /\ e.why = "failures"
        BY <3>1, EndTypes DEF Exit
      <3>3. LoopEnds(e, Lower(status))
        BY <2>7, <3>1
      <3> QED BY <1>1, <1>2, <1>5, <3>2, <3>3, LoweredAtWork, EndKeeps
    <2>8. CASE \E n, p \in Nat :
                  /\ loop' = [loop EXCEPT !.fails = n, !.poison = p, !.invalid = misses]
                  /\ UNCHANGED status
      BY <2>4, <2>8
    <2>9. /\ 0 \in Nat /\ loop.fails + 1 \in Nat
          /\ (IF result = "poison" THEN loop.poison + 1 ELSE 0) \in Nat
      BY <1>2 DEF LoopType
    <2> QED BY <2>1, <2>2, <2>4, <2>5, <2>6, <2>7, <2>9 DEF Receive
  <1> QED BY <1>6, <1>7

\* A panic ends the loop with an end that any loop may have.
LEMMA PanicStays == PollInv /\ Panic => PollInv'
  <1> SUFFICES ASSUME PollInv, Panic PROVE PollInv'
    OBVIOUS
  <1>1. PICK e : e = Exit("transient", "panic")
    OBVIOUS
  <1>2. e \in Exits /\ e.kind = "transient" /\ e.why = "panic"
    BY <1>1, EndTypes DEF Exit
  <1>3. /\ loop.at = "receive" /\ LoopEnds(e, Lower(status))
        /\ UNCHANGED <<linked, run, sender, outcome, starts, evidence>>
    BY <1>1 DEF Panic
  <1> QED BY <1>2, <1>3, LoweredAtWork, EndKeeps

\* What a user, another program or a failing send does to the run, and what
\* coordinate makes of it, leaves the goroutine and the status alone.
LEMMA RunStays ==
    PollInv /\ (StopRun \/ CancelRun \/ ReportError \/ AdmitReport \/ FinishReport
                  \/ SelectEnd \/ RelinkElsewhere)
      => PollInv'
  <1> SUFFICES ASSUME PollInv, StopRun \/ CancelRun \/ ReportError \/ AdmitReport \/ FinishReport
                                 \/ SelectEnd \/ RelinkElsewhere
               PROVE PollInv'
    OBVIOUS
  <1> USE DEF PollInv
  <1>1. UNCHANGED <<status, loop, outcome, evidence>> /\ linked' \in BOOLEAN
    BY DEF PollTypes, StopRun, CancelRun, ReportError, AdmitReport, FinishReport, SelectEnd,
       RelinkElsewhere
  <1>2. /\ run' \in RunType
        /\ (run'.at = "none") = (run.at = "none")
    <2>1. CASE StopRun \/ FinishReport
      BY <2>1, EndTypes DEF PollTypes, RunType, OneLifeOK, StopRun, FinishReport, Requested, Prefer, SendEnd
    <2>2. CASE SelectEnd
      <3>1. PICK resolved \in BOOLEAN, terminal \in {Nothing, run.requested, loop.exit} :
               run' = [run EXCEPT !.at = "joining", !.admitting = FALSE,
                                  !.terminal = terminal, !.resolved = resolved]
        BY <2>2 DEF SelectEnd
      <3>2. run \in RunType /\ terminal \in Exits /\ run.at = "running"
        BY <2>2, EndTypes DEF PollTypes, RunType, LoopType, SelectEnd
      <3> QED BY <3>1, <3>2 DEF RunType
    <2>3. CASE CancelRun \/ ReportError \/ AdmitReport \/ RelinkElsewhere
      BY <2>3 DEF PollTypes, RunType, CancelRun, ReportError, AdmitReport, RelinkElsewhere
    <2> QED BY <2>1, <2>2, <2>3
  <1>3. sender' \in {"idle", "checked", "admitted"} /\ (sender' = "admitted" => run'.at # "none")
    BY <1>2 DEF PollTypes, OneLifeOK, StopRun, CancelRun, ReportError, AdmitReport, FinishReport,
       SelectEnd, RelinkElsewhere
  <1>4. EndsOK'
    <2>1. CASE StopRun \/ FinishReport
      BY <2>1, EndTypes DEF PollTypes, RunType, EndsOK, StopRun, FinishReport, Requested, Prefer, SendEnd
    <2>2. CASE SelectEnd
      BY <2>2, EndTypes DEF PollTypes, RunType, EndsOK, SelectEnd
    <2>3. CASE CancelRun \/ ReportError \/ AdmitReport \/ RelinkElsewhere
      BY <2>3 DEF PollTypes, RunType, EndsOK, CancelRun, ReportError, AdmitReport, RelinkElsewhere
    <2> QED BY <2>1, <2>2, <2>3
  <1>5. PollTypes'
    BY <1>1, <1>2, <1>3 DEF PollTypes
  <1>6. OneLifeOK' /\ FlagsOK' /\ EvidenceOK'
    BY <1>1, <1>2, <1>3 DEF OneLifeOK, FlagsOK, EvidenceOK, Founded
  <1> QED BY <1>4, <1>5, <1>6

\* The stronger of two ends is one of them, and a park or an upgrade of the
\* poller is stronger than a send.
LEMMA PreferIsOne ==
    ASSUME NEW a \in Exits, NEW b \in Exits
    PROVE  /\ Prefer(a, b) \in {a, b}
           /\ Rank(Prefer(a, b)) >= Rank(a) /\ Rank(Prefer(a, b)) >= Rank(b)
  BY DEF Prefer, Rank, Exits, Kinds

\* An end outranks only ends that ask for no more.
LEMMA RankOfKind ==
    ASSUME NEW a \in Exits, NEW b \in Exits, Rank(a) >= Rank(b)
    PROVE  /\ b.kind = "upgrade" => a.kind = "upgrade"
           /\ b.kind = "reauth" => a.kind \in {"reauth", "upgrade"}
  BY DEF Rank, Exits, Kinds

\* What Conclude makes of the ends: the poller's exit, unless that was weaker
\* than a send, in which case it was no park.
LEMMA ConcludedEnd ==
    ASSUME PollInv, Conclude
    PROVE  /\ outcome' \in {loop.exit, Nothing, SendEnd}
           /\ Rank(outcome') >= Rank(loop.exit)
  <1> USE DEF PollInv
  <1>1. /\ run.at = "joining" /\ loop.at = "done"
        /\ loop.exit \in Exits /\ run.terminal \in Exits /\ run.requested \in Exits
        /\ run.requested \in {Nothing, SendEnd}
        /\ run.resolved => run.terminal = loop.exit
        /\ ~run.resolved => run.terminal \in {Nothing, SendEnd}
    BY DEF Conclude, PollTypes, EndsOK, LoopType, RunType
  <1> DEFINE drained == IF run.resolved THEN run.terminal ELSE Prefer(run.terminal, loop.exit)
  <1>2. /\ drained \in Exits /\ drained \in {loop.exit, Nothing, SendEnd}
        /\ Rank(drained) >= Rank(loop.exit)
    <2>1. CASE run.resolved
      BY <2>1, <1>1 DEF Rank, Exits, Kinds
    <2>2. CASE ~run.resolved
      BY <2>2, <1>1, PreferIsOne
    <2> QED BY <2>1, <2>2
  <1>3. outcome' = Prefer(drained, run.requested)
    BY DEF Conclude
  <1> HIDE DEF drained
  <1>4. /\ outcome' \in {drained, run.requested} /\ Rank(outcome') >= Rank(drained)
    BY <1>1, <1>2, <1>3, PreferIsOne
  <1>5. \A e \in Exits : Rank(e) \in Nat
    BY DEF Rank, Exits, Kinds
  <1>6. outcome' \in Exits
    BY <1>1, <1>2, <1>4
  <1> QED BY <1>1, <1>2, <1>4, <1>5, <1>6

\* A failed send lowers the flags of a link that is not already ended.
LEMMA SendLowers ==
    ASSUME NEW s \in StatusType
    PROVE  /\ ApplySend(s) \in StatusType
           /\ ApplySend(s).streak = s.streak /\ ApplySend(s).pairing = s.pairing
           /\ ~s.needsReauth /\ ~s.upgradeRequired =>
                 /\ ~ApplySend(s).connected /\ ~ApplySend(s).connecting
                 /\ ~ApplySend(s).needsReauth /\ ~ApplySend(s).upgradeRequired
  <1>1. PICK low : low = Lower(s)
    OBVIOUS
  <1>2. PICK t : t = [low EXCEPT !.needsReauth = FALSE, !.upgradeRequired = FALSE]
    OBVIOUS
  <1>3. /\ t \in StatusType /\ t.streak = s.streak /\ t.pairing = s.pairing
        /\ ~t.connected /\ ~t.connecting /\ ~t.needsReauth /\ ~t.upgradeRequired
    BY <1>1, <1>2, LowerIs DEF StatusType
  <1>4. CASE s.upgradeRequired \/ s.needsReauth
    <2>1. ApplySend(s) = s
      BY <1>4 DEF ApplySend
    <2>2. ~(~s.needsReauth /\ ~s.upgradeRequired)
      BY <1>4, Zenon
    <2>3. /\ ApplySend(s) \in StatusType
          /\ ApplySend(s).streak = s.streak /\ ApplySend(s).pairing = s.pairing
      BY <2>1
    <2> QED BY <2>1, <2>2, <2>3, Zenon
  <1>5. CASE ~(s.upgradeRequired \/ s.needsReauth)
    <2>1. ApplySend(s) = t
      BY <1>1, <1>2, <1>5 DEF ApplySend
    <2> QED BY <1>3, <2>1
  <1> QED BY <1>4, <1>5

\* The generation ends with the strongest end requested.
LEMMA ConcludeStays == PollInv /\ Conclude => PollInv'
  <1> SUFFICES ASSUME PollInv, Conclude PROVE PollInv'
    OBVIOUS
  <1> USE DEF PollInv
  <1>1. /\ outcome' \in {loop.exit, Nothing, SendEnd} /\ outcome' \in Exits
        /\ Rank(outcome') >= Rank(loop.exit)
    BY ConcludedEnd, EndTypes DEF PollTypes, LoopType
  <1>2. /\ loop.at = "done" /\ run.at = "joining" /\ sender # "admitted"
        /\ run' = NoRun /\ loop' = NoLoop
        /\ status' = IF outcome'.why = "send" THEN ApplySend(status) ELSE status
        /\ UNCHANGED <<linked, sender, starts, evidence>>
    BY DEF Conclude
  <1>3. \/ outcome' = loop.exit
        \/ outcome'.kind \in {"none", "transient"} /\ loop.exit.kind \notin {"reauth", "upgrade"}
    <2>1. loop.exit \in Exits
      BY DEF PollInv, PollTypes, LoopType
    <2>2. CASE outcome' \in {Nothing, SendEnd}
      BY <1>1, <2>1, <2>2 DEF Rank, Nothing, SendEnd, Exit, Exits, Kinds
    <2> QED BY <1>1, <2>2
  <1>4. PollTypes'
    BY <1>1, <1>2, LoopRunNone, SendLowers DEF PollInv, PollTypes
  <1>5. OneLifeOK' /\ EndsOK'
    BY <1>2, LoopRunNone DEF OneLifeOK, EndsOK, Nothing
  <1>6. FlagsOK'
    <2>1. CASE outcome'.why = "send"
      <3>1. outcome'.kind = "transient" /\ loop.exit.kind \notin {"reauth", "upgrade"}
        BY <1>1, <1>3, <2>1 DEF PollInv, EndsOK, Nothing, SendEnd, Exit
      <3>2. ~status.needsReauth /\ ~status.upgradeRequired /\ status \in StatusType
        BY <1>2, <3>1 DEF PollInv, PollTypes, FlagsOK
      <3>3. /\ ~status'.connected /\ ~status'.connecting /\ ~status'.needsReauth
            /\ ~status'.upgradeRequired /\ status'.pairing = status.pairing
        BY <1>2, <2>1, <3>2, SendLowers
      <3> QED BY <1>2, <3>1, <3>3, LoopRunNone DEF PollInv, FlagsOK
    <2>2. CASE outcome'.why # "send"
      <3>1. outcome'.kind = "reauth" <=> loop.exit.kind = "reauth"
        BY <1>1, <1>3, <2>2 DEF Nothing, SendEnd, Exit
      <3>2. outcome'.kind = "upgrade" <=> loop.exit.kind = "upgrade"
        BY <1>1, <1>3, <2>2 DEF Nothing, SendEnd, Exit
      <3> QED BY <1>2, <2>2, <3>1, <3>2, LoopRunNone DEF PollInv, FlagsOK
    <2> QED BY <2>1, <2>2
  <1>7. EvidenceOK'
    <2>1. status'.streak = status.streak
      BY <1>2, SendLowers DEF PollInv, PollTypes
    <2>2. Founded(loop.exit) /\ status.streak <= evidence.unseen
      BY <1>2 DEF PollInv, EvidenceOK
    <2>3. /\ outcome'.why = "refused" => evidence'.refusals >= InvalidLimit
          /\ outcome'.why = "unreadable" => evidence'.unseen >= StreakLimit
      BY <1>1, <1>2, <2>2 DEF Founded, Nothing, SendEnd, Exit
    <2>4. evidence' = evidence /\ loop'.at = "off"
      BY <1>2, LoopRunNone
    <2>5. status'.streak <= evidence'.unseen
      BY <2>1, <2>2, <2>4
    <2> QED BY <2>3, <2>4, <2>5 DEF EvidenceOK, Founded
  <1> QED BY <1>4, <1>5, <1>6, <1>7

\* Unpairing starts afresh, and there is no run that it could disturb.
LEMMA UnpairStays == PollInv /\ Unpair => PollInv'
  <1> SUFFICES ASSUME PollInv, Unpair PROVE PollInv'
    OBVIOUS
  <1> USE DEF PollInv
  <1>1. /\ Fresh \in StatusType /\ ~Fresh.connected /\ ~Fresh.connecting /\ ~Fresh.pairing
        /\ ~Fresh.needsReauth /\ ~Fresh.upgradeRequired /\ Fresh.streak = 0
    BY DEF Fresh, StatusType
  <1>2. /\ run.at = "none" /\ linked' = FALSE /\ status' = Fresh /\ outcome' = Nothing
        /\ UNCHANGED <<loop, run, sender, starts, evidence>>
    BY DEF Unpair
  <1>3. PollTypes' /\ OneLifeOK' /\ EndsOK'
    BY <1>1, <1>2, EndTypes DEF PollTypes, OneLifeOK, EndsOK
  <1>4. FlagsOK'
    BY <1>1, <1>2 DEF FlagsOK, OneLifeOK, Nothing
  <1>5. EvidenceOK'
    BY <1>1, <1>2 DEF PollTypes, EvidenceType, OneLifeOK, EvidenceOK, Founded, Nothing
  <1> QED BY <1>3, <1>4, <1>5

\* The inductive invariant holds for any limits: the flags of the bridge follow
\* the poller goroutine, a run's end is the poller's or a failing send's, and the
\* counters of the parks are covered by what the server answered.
THEOREM PollHolds == PollerSpec => []PollInv
  <1>1. PollInv /\ [PollerNext]_pollerVars => PollInv'
    <2> SUFFICES ASSUME PollInv, [PollerNext]_pollerVars PROVE PollInv'
      OBVIOUS
    <2>1. CASE StartGeneration
      BY <2>1, StartStays
    <2>2. CASE LoopStep
      BY <2>2, LinkStays, VersionStays, ProbeStays, PollStays DEF LoopStep
    <2>3. CASE Panic
      BY <2>3, PanicStays
    <2>4. CASE Unpair
      BY <2>4, UnpairStays
    <2>5. CASE Conclude
      BY <2>5, ConcludeStays
    <2>6. CASE StopRun \/ CancelRun \/ ReportError \/ AdmitReport \/ FinishReport
                 \/ SelectEnd \/ RelinkElsewhere
      BY <2>6, RunStays
    <2>7. CASE UNCHANGED pollerVars
      BY <2>7 DEF pollerVars, PollInv, PollTypes, OneLifeOK, FlagsOK, EndsOK, EvidenceOK, Founded
    <2> QED BY <2>1, <2>2, <2>3, <2>4, <2>5, <2>6, <2>7 DEF PollerNext
  <1> QED BY <1>1, PollStart, PTL DEF PollerSpec

\* EndIsFounded for any limits (ApplyPollerFailure, runReceiveLoop,
\* classifyFailedAccountProbe): between two runs the status says how the last one
\* ended, and a park has the refusals or the unseen probes it is made of.
THEOREM EndFounded == PollerSpec => []EndIsFounded
  <1>1. PollInv => EndIsFounded
    <2> SUFFICES ASSUME PollInv, run.at = "none" PROVE EndIsFounded
      BY DEF EndIsFounded, StatusTellsOutcome, ParkIsEarned
    <2>1. status.needsReauth \in BOOLEAN /\ status.upgradeRequired \in BOOLEAN
      BY DEF PollInv, PollTypes, StatusType
    <2>2. status.needsReauth = (outcome.kind = "reauth")
      BY <2>1 DEF PollInv, FlagsOK
    <2>3. status.upgradeRequired = (outcome.kind = "upgrade")
      BY <2>1 DEF PollInv, FlagsOK
    <2> QED BY <2>2, <2>3 DEF PollInv, EvidenceOK, Founded, EndIsFounded, StatusTellsOutcome,
                               ParkIsEarned
  <1> QED BY <1>1, PollHolds, PTL

\* Without a run there is no loop, and no end of one.
IdleLoop == run.at = "none" => loop.exit = Nothing

\* Only Conclude leaves no run where there was one, and with no run nothing but
\* the outcome of an unpairing changes.
LEMMA NoRunLeft ==
    ASSUME PollInv, [PollerNext]_pollerVars, run'.at = "none", ~Conclude
    PROVE  /\ run.at = "none" /\ loop' = loop /\ run' = run
           /\ outcome' = outcome \/ outcome' = Nothing
  <1>1. run.at = "none"
    BY DEF PollInv, PollTypes, RunType, PollerNext, LoopStep, StartGeneration, LinkEnds,
       VersionGate, ProbeAccount, PollOnce, Panic, RelinkElsewhere, Unpair, StopRun, CancelRun,
       Requested, ReportError, AdmitReport, FinishReport, SelectEnd, pollerVars
  <1>2. loop.at = "off" /\ sender # "admitted"
    BY <1>1 DEF PollInv, OneLifeOK
  <1>3. ~StartGeneration
    <2>1. PICK r : r = [NoRun EXCEPT !.at = "running", !.admitting = TRUE]
      OBVIOUS
    <2>2. r.at = "running"
      BY <2>1 DEF NoRun
    <2>3. StartGeneration => run' = r
      BY <2>1 DEF StartGeneration
    <2> QED BY <2>2, <2>3
  <1>4. ~LoopStep /\ ~Panic
    BY <1>2 DEF LoopStep, LinkEnds, VersionGate, ProbeAccount, PollOnce, Panic
  <1>5. ~StopRun /\ ~CancelRun /\ ~FinishReport /\ ~SelectEnd
    BY <1>1, <1>2 DEF StopRun, CancelRun, FinishReport, SelectEnd
  <1>6. \/ RelinkElsewhere \/ Unpair \/ ReportError \/ AdmitReport \/ UNCHANGED pollerVars
    BY <1>3, <1>4, <1>5 DEF PollerNext
  <1> QED BY <1>1, <1>6 DEF RelinkElsewhere, Unpair, ReportError, AdmitReport, pollerVars

\* Without a run there is no end of a loop that could be lost.
LEMMA IdleHolds == PollerSpec => []IdleLoop
  <1>1. PollerInit => IdleLoop
    BY LoopRunNone DEF PollerInit, IdleLoop
  <1>2. PollInv /\ IdleLoop /\ [PollerNext]_pollerVars => IdleLoop'
    <2> SUFFICES ASSUME PollInv, IdleLoop, [PollerNext]_pollerVars, run'.at = "none"
                 PROVE  loop'.exit = Nothing
      BY DEF IdleLoop
    <2>1. CASE Conclude
      BY <2>1, LoopRunNone DEF Conclude
    <2>2. CASE ~Conclude
      BY <2>2, NoRunLeft DEF IdleLoop
    <2> QED BY <2>1, <2>2
  <1> QED BY <1>1, <1>2, PollHolds, PTL DEF PollerSpec

\* coordinate, requestFinish and the drain after the join lose no end the poller
\* came to for a weaker one.
THEOREM StrongestWins == PollerSpec => StrongestEndWins
  <1>1. PollInv /\ IdleLoop /\ [PollerNext]_pollerVars
          => [run'.at = "none" => Rank(outcome') >= Rank(loop.exit)]_<<run, outcome>>
    <2> SUFFICES ASSUME PollInv, IdleLoop, [PollerNext]_pollerVars, run'.at = "none",
                        ~(UNCHANGED <<run, outcome>>)
                 PROVE  Rank(outcome') >= Rank(loop.exit)
      OBVIOUS
    <2>1. CASE Conclude
      BY <2>1, ConcludedEnd
    <2>2. CASE ~Conclude
      <3>1. loop.exit = Nothing /\ outcome' = Nothing
        BY <2>2, NoRunLeft DEF IdleLoop
      <3>2. Rank(Nothing) = 0
        BY DEF Rank, Nothing
      <3> QED BY <3>1, <3>2
    <2> QED BY <2>1, <2>2
  <1> QED BY <1>1, PollHolds, IdleHolds, PTL DEF PollerSpec, StrongestEndWins

-----------------------------------------------------------------------------
(* One transport call.                                                      *)

AllNetworks == {"google", "whatsapp", "signal", "slack"}
KindsOf(n) == IF n \in {"google", "whatsapp"} THEN SendKinds ELSE SendKinds \ {"read"}

\* Which request of a route gives the recipient the message.
SendAt(n, kind) ==
    IF kind \in {"media", "captioned"} THEN IF n = "signal" THEN 2 ELSE 3
    ELSE IF n = "whatsapp" \/ (n = "google" /\ kind # "read") THEN 2 ELSE 1

States == {"queued", "called", "confirmed", "uncertain", "rejected"}
IntentType == [kind : SendKinds, state : States, calls : Nat, has : SUBSET {"send", "caption"}]

CallTypesOK ==
    /\ network \in AllNetworks
    /\ intent \in [Rows -> IntentType]
    /\ \A r \in Rows : intent[r].kind \in KindsOf(network)
    /\ \/ outgoing = NoCallOut
       \/ /\ outgoing \in [row : Rows, at : 1 .. 4]
          /\ outgoing.at <= Len(Routes[network][intent[outgoing.row].kind])

\* Whole(r) is all the recipient gets of r.
Whole(r) == {"send"} \cup (IF intent[r].kind = "captioned" /\ network = "google"
                           THEN {"caption"} ELSE {})

\* A row the dispatcher may send again has given nothing, unless giving it twice
\* changes nothing; one that is sent for good has given all.
HasOK == \A r \in Rows :
    /\ intent[r].kind \in Repeatable => intent[r].has \subseteq {"send"}
    /\ intent[r].state = "queued" /\ intent[r].kind \notin Repeatable => intent[r].has = {}
    /\ intent[r].state = "confirmed" => intent[r].has = Whole(r)

\* While a call is out its row has given what the requests so far give.
OutOK ==
    outgoing # NoCallOut =>
        LET r == outgoing.row
            gave == outgoing.at > SendAt(network, intent[r].kind)
        IN  /\ intent[r].kind \notin Repeatable =>
                  intent[r].has = IF gave THEN {"send"} ELSE {}
            /\ gave => "send" \in intent[r].has
            /\ intent[r].state = "called"

AnswerInv == CallTypesOK /\ HasOK /\ OutOK

\* What of a route matters: one request gives the message, a caption is the last
\* one and Google's, and what is certain not to have been a call comes before.
RouteOK(n, kind, R) ==
    /\ Len(R) \in 1 .. 4 /\ SendAt(n, kind) \in 1 .. Len(R)
    /\ \A k \in 1 .. Len(R) :
          /\ R[k] = "send" <=> k = SendAt(n, kind)
          /\ R[k] = "caption" => k > SendAt(n, kind) /\ kind = "captioned" /\ n = "google"
          /\ R[k] \in {"upload", "lookup", "client", "write"} => k < SendAt(n, kind)
    /\ \A k \in 1 .. Len(R) : R[k] = "caption" <=> k = 4 /\ kind = "captioned" /\ n = "google"
    /\ kind = "captioned" /\ n = "google" => Len(R) = 4

\* A sequence of requests that gives the message by its request number s, and a
\* caption by its fourth, if any.
GivesBy(R, s, captions) ==
    /\ Len(R) \in 1 .. 4 /\ s \in 1 .. Len(R) /\ (captions => Len(R) = 4 /\ s = 3)
    /\ \A k \in 1 .. Len(R) :
          /\ R[k] = "send" <=> k = s
          /\ R[k] = "caption" <=> k = 4 /\ captions
          /\ R[k] \in {"upload", "lookup", "client", "write"} => k < s

\* Each route gives the message by the request, and the caption by the last.
LEMMA Shapes ==
    /\ GivesBy(<<"lookup", "send">>, 2, FALSE)
    /\ GivesBy(<<"send">>, 1, FALSE)
    /\ GivesBy(<<"upload", "lookup", "send">>, 3, FALSE)
    /\ GivesBy(<<"upload", "lookup", "send", "caption">>, 3, TRUE)
    /\ GivesBy(<<"client", "send">>, 2, FALSE)
    /\ GivesBy(<<"client", "upload", "send">>, 3, FALSE)
    /\ GivesBy(<<"write", "send">>, 2, FALSE)
    /\ GivesBy(<<"url", "upload", "send", "info">>, 3, FALSE)
  <1>1. GivesBy(<<"lookup", "send">>, 2, FALSE)
    <2>1. PICK R : R = <<"lookup", "send">>
      OBVIOUS
    <2>2. Len(R) = 2 /\ R[1] = "lookup" /\ R[2] = "send"
      BY <2>1
    <2>3. \A k \in 1 .. Len(R) : k = 1 \/ k = 2
      BY <2>2
    <2> QED BY <2>1, <2>2, <2>3 DEF GivesBy
  <1>2. GivesBy(<<"send">>, 1, FALSE)
    <2>1. PICK R : R = <<"send">>
      OBVIOUS
    <2>2. Len(R) = 1 /\ R[1] = "send"
      BY <2>1
    <2>3. \A k \in 1 .. Len(R) : k = 1
      BY <2>2
    <2> QED BY <2>1, <2>2, <2>3 DEF GivesBy
  <1>3. GivesBy(<<"upload", "lookup", "send">>, 3, FALSE)
    <2>1. PICK R : R = <<"upload", "lookup", "send">>
      OBVIOUS
    <2>2. Len(R) = 3 /\ R[1] = "upload" /\ R[2] = "lookup" /\ R[3] = "send"
      BY <2>1
    <2>3. \A k \in 1 .. Len(R) : k = 1 \/ k = 2 \/ k = 3
      BY <2>2
    <2> QED BY <2>1, <2>2, <2>3 DEF GivesBy
  <1>4. GivesBy(<<"upload", "lookup", "send", "caption">>, 3, TRUE)
    <2>1. PICK R : R = <<"upload", "lookup", "send", "caption">>
      OBVIOUS
    <2>2. Len(R) = 4 /\ R[1] = "upload" /\ R[2] = "lookup" /\ R[3] = "send" /\ R[4] = "caption"
      BY <2>1
    <2>3. \A k \in 1 .. Len(R) : k = 1 \/ k = 2 \/ k = 3 \/ k = 4
      BY <2>2
    <2> QED BY <2>1, <2>2, <2>3 DEF GivesBy
  <1>5. GivesBy(<<"client", "send">>, 2, FALSE)
    <2>1. PICK R : R = <<"client", "send">>
      OBVIOUS
    <2>2. Len(R) = 2 /\ R[1] = "client" /\ R[2] = "send"
      BY <2>1
    <2>3. \A k \in 1 .. Len(R) : k = 1 \/ k = 2
      BY <2>2
    <2> QED BY <2>1, <2>2, <2>3 DEF GivesBy
  <1>6. GivesBy(<<"client", "upload", "send">>, 3, FALSE)
    <2>1. PICK R : R = <<"client", "upload", "send">>
      OBVIOUS
    <2>2. Len(R) = 3 /\ R[1] = "client" /\ R[2] = "upload" /\ R[3] = "send"
      BY <2>1
    <2>3. \A k \in 1 .. Len(R) : k = 1 \/ k = 2 \/ k = 3
      BY <2>2
    <2> QED BY <2>1, <2>2, <2>3 DEF GivesBy
  <1>7. GivesBy(<<"write", "send">>, 2, FALSE)
    <2>1. PICK R : R = <<"write", "send">>
      OBVIOUS
    <2>2. Len(R) = 2 /\ R[1] = "write" /\ R[2] = "send"
      BY <2>1
    <2>3. \A k \in 1 .. Len(R) : k = 1 \/ k = 2
      BY <2>2
    <2> QED BY <2>1, <2>2, <2>3 DEF GivesBy
  <1>8. GivesBy(<<"url", "upload", "send", "info">>, 3, FALSE)
    <2>1. PICK R : R = <<"url", "upload", "send", "info">>
      OBVIOUS
    <2>2. Len(R) = 4 /\ R[1] = "url" /\ R[2] = "upload" /\ R[3] = "send" /\ R[4] = "info"
      BY <2>1
    <2>3. \A k \in 1 .. Len(R) : k = 1 \/ k = 2 \/ k = 3 \/ k = 4
      BY <2>2
    <2> QED BY <2>1, <2>2, <2>3 DEF GivesBy
  <1> QED BY <1>1, <1>2, <1>3, <1>4, <1>5, <1>6, <1>7, <1>8

\* Google's captioned media is its media with a caption after it.
LEMMA CaptionIsLast == GivesBy(GoogleMedia \o <<"caption">>, 3, TRUE)
  <1> DEFINE Requests == {"upload", "lookup", "send", "caption"}
  <1>1. PICK media : media = GoogleMedia
    OBVIOUS
  <1>2. PICK caption : caption = <<"caption">>
    OBVIOUS
  <1>3. /\ media \in Seq(Requests) /\ caption \in Seq(Requests) /\ Len(media) = 3 /\ Len(caption) = 1
        /\ media[1] = "upload" /\ media[2] = "lookup" /\ media[3] = "send"
        /\ caption[1] = "caption"
    <2>1. media = <<"upload", "lookup", "send">>
      BY <1>1 DEF GoogleMedia
    <2>2. caption \in Seq(Requests) /\ Len(caption) = 1 /\ caption[1] = "caption"
      BY <1>2
    <2>3. media \in Seq(Requests)
      BY <2>1
    <2>4. Len(media) = 3 /\ media[1] = "upload" /\ media[2] = "lookup" /\ media[3] = "send"
      BY <2>1
    <2> QED BY <2>2, <2>3, <2>4
  <1> HIDE DEF Requests
  <1>4. PICK R : R = media \o caption
    OBVIOUS
  <1>5. /\ Len(R) = 4 /\ R[1] = "upload" /\ R[2] = "lookup" /\ R[3] = "send" /\ R[4] = "caption"
    <2>1. /\ Len(R) = Len(media) + Len(caption)
          /\ \A i \in 1 .. Len(media) + Len(caption) :
                R[i] = IF i <= Len(media) THEN media[i] ELSE caption[i - Len(media)]
      BY <1>3, <1>4, ConcatProperties
    <2> QED BY <1>3, <2>1
  <1>6. \A k \in 1 .. Len(R) : k = 1 \/ k = 2 \/ k = 3 \/ k = 4
    BY <1>5
  <1>7. GivesBy(R, 3, TRUE)
    BY <1>5, <1>6 DEF GivesBy
  <1> QED BY <1>1, <1>2, <1>4, <1>7

\* Every route of every platform is of that shape.
LEMMA RoutesAre ==
    ASSUME NEW n \in AllNetworks, NEW kind \in KindsOf(n)
    PROVE  RouteOK(n, kind, Routes[n][kind])
  <1>1. CASE n = "google"
    <2>1. RouteOK(n, "text", Routes[n]["text"])
      <3>1. Routes[n]["text"] = <<"lookup", "send">>
        BY <1>1 DEF Routes, GoogleText
      <3> QED BY <1>1, <3>1, Shapes DEF RouteOK, SendAt, GivesBy
    <2>2. RouteOK(n, "reaction", Routes[n]["reaction"])
      <3>1. Routes[n]["reaction"] = <<"lookup", "send">>
        BY <1>1 DEF Routes, GoogleReaction
      <3> QED BY <1>1, <3>1, Shapes DEF RouteOK, SendAt, GivesBy
    <2>3. RouteOK(n, "read", Routes[n]["read"])
      <3>1. Routes[n]["read"] = <<"send">>
        BY <1>1 DEF Routes, GoogleRead
      <3> QED BY <1>1, <3>1, Shapes DEF RouteOK, SendAt, GivesBy
    <2>4. RouteOK(n, "media", Routes[n]["media"])
      <3>1. Routes[n]["media"] = <<"upload", "lookup", "send">>
        BY <1>1 DEF Routes, GoogleMedia
      <3> QED BY <1>1, <3>1, Shapes DEF RouteOK, SendAt, GivesBy
    <2>5. RouteOK(n, "captioned", Routes[n]["captioned"])
      <3>1. Routes[n]["captioned"] = GoogleMedia \o <<"caption">>
        BY <1>1 DEF Routes, GoogleCaption
      <3> QED BY <1>1, <3>1, CaptionIsLast DEF RouteOK, SendAt, GivesBy
    <2> QED BY <1>1, <2>1, <2>2, <2>3, <2>4, <2>5 DEF KindsOf, SendKinds
  <1>2. CASE n = "whatsapp"
    <2>1. RouteOK(n, "text", Routes[n]["text"])
      <3>1. Routes[n]["text"] = <<"client", "send">>
        BY <1>2 DEF Routes, WhatsAppText
      <3> QED BY <1>2, <3>1, Shapes DEF RouteOK, SendAt, GivesBy
    <2>2. RouteOK(n, "reaction", Routes[n]["reaction"])
      <3>1. Routes[n]["reaction"] = <<"client", "send">>
        BY <1>2 DEF Routes, WhatsAppReaction
      <3> QED BY <1>2, <3>1, Shapes DEF RouteOK, SendAt, GivesBy
    <2>3. RouteOK(n, "read", Routes[n]["read"])
      <3>1. Routes[n]["read"] = <<"client", "send">>
        BY <1>2 DEF Routes, WhatsAppRead
      <3>2. GivesBy(<<"client", "send">>, 2, FALSE) /\ SendAt(n, "read") = 2
        <4>1. GivesBy(<<"client", "send">>, 2, FALSE)
          BY Shapes
        <4>2. SendAt(n, "read") = 2
          BY <1>2 DEF SendAt
        <4> QED BY <4>1, <4>2
      <3> QED BY <1>2, <3>1, <3>2 DEF RouteOK, GivesBy
    <2>4. RouteOK(n, "media", Routes[n]["media"])
      <3>1. Routes[n]["media"] = <<"client", "upload", "send">>
        BY <1>2 DEF Routes, WhatsAppMedia
      <3> QED BY <1>2, <3>1, Shapes DEF RouteOK, SendAt, GivesBy
    <2>5. RouteOK(n, "captioned", Routes[n]["captioned"])
      <3>1. Routes[n]["captioned"] = <<"client", "upload", "send">>
        BY <1>2 DEF Routes, WhatsAppMedia
      <3> QED BY <1>2, <3>1, Shapes DEF RouteOK, SendAt, GivesBy
    <2> QED BY <1>2, <2>1, <2>2, <2>3, <2>4, <2>5 DEF KindsOf, SendKinds
  <1>3. CASE n = "signal"
    <2>1. RouteOK(n, "text", Routes[n]["text"])
      <3>1. Routes[n]["text"] = <<"send">>
        BY <1>3 DEF Routes, SignalText
      <3> QED BY <1>3, <3>1, Shapes DEF RouteOK, SendAt, GivesBy
    <2>2. RouteOK(n, "reaction", Routes[n]["reaction"])
      <3>1. Routes[n]["reaction"] = <<"send">>
        BY <1>3 DEF Routes, SignalReaction
      <3> QED BY <1>3, <3>1, Shapes DEF RouteOK, SendAt, GivesBy
    <2>3. RouteOK(n, "media", Routes[n]["media"])
      <3>1. Routes[n]["media"] = <<"write", "send">>
        BY <1>3 DEF Routes, SignalMedia
      <3> QED BY <1>3, <3>1, Shapes DEF RouteOK, SendAt, GivesBy
    <2>4. RouteOK(n, "captioned", Routes[n]["captioned"])
      <3>1. Routes[n]["captioned"] = <<"write", "send">>
        BY <1>3 DEF Routes, SignalMedia
      <3> QED BY <1>3, <3>1, Shapes DEF RouteOK, SendAt, GivesBy
    <2> QED BY <1>3, <2>1, <2>2, <2>3, <2>4 DEF KindsOf, SendKinds
  <1>4. CASE n = "slack"
    <2>1. RouteOK(n, "text", Routes[n]["text"])
      <3>1. Routes[n]["text"] = <<"send">>
        BY <1>4 DEF Routes, SlackText
      <3> QED BY <1>4, <3>1, Shapes DEF RouteOK, SendAt, GivesBy
    <2>2. RouteOK(n, "reaction", Routes[n]["reaction"])
      <3>1. Routes[n]["reaction"] = <<"send">>
        BY <1>4 DEF Routes, SlackReaction
      <3> QED BY <1>4, <3>1, Shapes DEF RouteOK, SendAt, GivesBy
    <2>3. RouteOK(n, "media", Routes[n]["media"])
      <3>1. Routes[n]["media"] = <<"url", "upload", "send", "info">>
        BY <1>4 DEF Routes, SlackMedia
      <3> QED BY <1>4, <3>1, Shapes DEF RouteOK, SendAt, GivesBy
    <2>4. RouteOK(n, "captioned", Routes[n]["captioned"])
      <3>1. Routes[n]["captioned"] = <<"url", "upload", "send", "info">>
        BY <1>4 DEF Routes, SlackMedia
      <3> QED BY <1>4, <3>1, Shapes DEF RouteOK, SendAt, GivesBy
    <2> QED BY <1>4, <2>1, <2>2, <2>3, <2>4 DEF KindsOf, SendKinds
  <1> QED BY <1>1, <1>2, <1>3, <1>4 DEF AllNetworks

\* A platform has a route for each kind it can send.
LEMMA KindsAreDomains ==
    ASSUME NEW n \in AllNetworks
    PROVE  DOMAIN Routes[n] = KindsOf(n)
  BY DEF Routes, AllNetworks, KindsOf, SendKinds

\* What the requests of a call that is out may be.
LEMMA CallOut ==
    ASSUME AnswerInv, Waiting
    PROVE  /\ outgoing.row \in Rows /\ intent[outgoing.row] \in IntentType
           /\ KindOut \in KindsOf(network) /\ network \in AllNetworks
           /\ RouteOK(network, KindOut, Routes[network][KindOut])
           /\ outgoing.at \in 1 .. Len(Routes[network][KindOut])
           /\ Request = Routes[network][KindOut][outgoing.at]
           /\ outgoing # NoCallOut
  <1>1. /\ outgoing.row \in Rows /\ outgoing.at \in 1 .. 4
        /\ outgoing.at <= Len(Routes[network][intent[outgoing.row].kind])
    BY DEF AnswerInv, CallTypesOK, Waiting, NoCallOut
  <1>2. /\ intent[outgoing.row] \in IntentType /\ KindOut \in KindsOf(network)
        /\ network \in AllNetworks /\ KindOut = intent[outgoing.row].kind
    BY <1>1 DEF AnswerInv, CallTypesOK, KindOut
  <1>3. RouteOK(network, KindOut, Routes[network][KindOut])
    BY <1>2, RoutesAre
  <1>4. /\ Len(Routes[network][KindOut]) \in 1 .. 4 /\ outgoing # NoCallOut
        /\ Request = Routes[network][KindOut][outgoing.at]
    BY <1>3 DEF Request, Waiting, RouteOK
  <1> QED BY <1>1, <1>2, <1>3, <1>4

\* A verdict that lets a message be sent once more is certain, and it is certain
\* only of a call that gave nothing.
LEMMA CertainIsTrue ==
    ASSUME AnswerInv, Waiting, NEW reply \in Answers, NEW taken \in Taken(reply),
           Recorded(Judges(reply)) = "queued", KindOut \notin Repeatable
    PROVE  /\ outgoing.at <= SendAt(network, KindOut)
           /\ taken /\ Gives => FALSE
  <1>1. Judges(reply).certain = TRUE
    BY DEF Recorded
  <1> DEFINE R == Routes[network][KindOut]
  <1>2. /\ RouteOK(network, KindOut, R) /\ outgoing.at \in 1 .. Len(R)
        /\ Request = R[outgoing.at] /\ network \in AllNetworks /\ KindOut \in KindsOf(network)
        /\ SendAt(network, KindOut) \in Nat
    BY CallOut DEF RouteOK
  <1> HIDE DEF R
  <1>3. KindOut \in {"text", "media", "captioned"}
    BY <1>2 DEF KindsOf, SendKinds, Repeatable
  <1>4. \/ Request \in {"upload", "lookup", "client", "write"}
        \/ Request = "send" /\ reply \in {"refused", "allfailed"}
    <2>1. CASE network = "google"
      BY <1>1, <1>3, <2>1 DEF Judges, GoogleJudges, Judged
    <2>2. CASE network = "whatsapp"
      BY <1>1, <1>3, <2>2 DEF Judges, WhatsAppJudges, WhatsAppJudgesText, WhatsAppJudgesMedia,
         Judged, NotDispatched
    <2>3. CASE network = "signal"
      <3>1. reply = "allfailed" \/ Request = "write"
        BY <1>1, <1>3, <2>3 DEF Judges, SignalJudges, SignalJudgesText, SignalJudgesMedia,
           Judged, AllFailed
      <3>2. reply = "allfailed" => Request = "send"
        BY <2>3 DEF Answers
      <3> QED BY <3>1, <3>2
    <2>4. CASE network = "slack"
      BY <1>1, <1>3, <2>4 DEF Judges, SlackJudges, SlackJudgesText, SlackJudgesMedia, Judged
    <2> QED BY <1>2, <2>1, <2>2, <2>3, <2>4 DEF AllNetworks
  <1>5. CASE Request \in {"upload", "lookup", "client", "write"}
    <2>1. outgoing.at < SendAt(network, KindOut)
      BY <1>2, <1>5 DEF RouteOK
    <2>2. ~Gives
      BY <1>5 DEF Gives
    <2> QED BY <1>2, <2>1, <2>2 DEF RouteOK
  <1>6. CASE Request = "send" /\ reply \in {"refused", "allfailed"}
    <2>1. outgoing.at = SendAt(network, KindOut)
      BY <1>2, <1>6 DEF RouteOK
    <2>2. taken = FALSE
      BY <1>6 DEF Taken, Open
    <2> QED BY <1>2, <2>1, <2>2 DEF RouteOK
  <1> QED BY <1>4, <1>5, <1>6

\* A change of other things than the rows and the call.
LEMMA OthersStay == AnswerInv /\ UNCHANGED <<network, intent, outgoing>> => AnswerInv'
  BY DEF AnswerInv, CallTypesOK, HasOK, OutOK, Whole

\* A step that changes one row is judged by that row and the call.
LEMMA OneRow ==
    ASSUME AnswerInv, NEW r \in Rows, NEW u \in IntentType,
           intent' = [intent EXCEPT ![r] = u], u.kind = intent[r].kind,
           UNCHANGED network,
           u.kind \in Repeatable => u.has \subseteq {"send"},
           u.state = "queued" /\ u.kind \notin Repeatable => u.has = {},
           u.state = "confirmed" => u.has = Whole(r)
    PROVE  /\ network' \in AllNetworks /\ intent' \in [Rows -> IntentType]
           /\ \A q \in Rows : intent'[q].kind \in KindsOf(network')
           /\ HasOK' /\ intent'[r] = u
           /\ \A q \in Rows : intent'[q].kind = intent[q].kind
  <1>1. intent \in [Rows -> IntentType] /\ network \in AllNetworks
        /\ \A q \in Rows : intent[q].kind \in KindsOf(network)
    BY DEF AnswerInv, CallTypesOK
  <1>2. /\ intent' \in [Rows -> IntentType] /\ intent'[r] = u
        /\ \A q \in Rows : q # r => intent'[q] = intent[q]
    BY <1>1
  <1>3. \A q \in Rows : intent'[q].kind = intent[q].kind
    BY <1>2
  <1>4. \A q \in Rows : Whole(q)' = Whole(q)
    BY <1>3 DEF Whole
  <1>5. HasOK'
    <2> SUFFICES ASSUME NEW q \in Rows
                 PROVE  /\ intent'[q].kind \in Repeatable => intent'[q].has \subseteq {"send"}
                        /\ intent'[q].state = "queued" /\ intent'[q].kind \notin Repeatable
                              => intent'[q].has = {}
                        /\ intent'[q].state = "confirmed" => intent'[q].has = Whole(q)'
      BY DEF HasOK
    <2>1. CASE q = r
      BY <1>2, <1>4, <2>1
    <2>2. CASE q # r
      BY <1>2, <1>4, <2>2 DEF AnswerInv, HasOK
    <2> QED BY <2>1, <2>2
  <1> QED BY <1>1, <1>2, <1>3, <1>5

\* A call that begins has given nothing.
LEMMA CallStays ==
    ASSUME NEW r \in Rows, AnswerInv, CallAdapter(r)
    PROVE  AnswerInv'
  <1>1. /\ outgoing = NoCallOut /\ intent[r].state = "queued" /\ intent[r] \in IntentType
        /\ intent[r].calls \in Nat /\ intent \in [Rows -> IntentType]
        /\ network \in AllNetworks /\ intent[r].kind \in KindsOf(network)
        /\ UNCHANGED network
        /\ intent[r].kind \in Repeatable => intent[r].has \subseteq {"send"}
        /\ intent[r].kind \notin Repeatable => intent[r].has = {}
    BY DEF CallAdapter, AnswerInv, CallTypesOK, HasOK, IntentType
  <1>2. PICK n \in Nat : n = intent[r].calls + 1
    BY <1>1
  <1>3. CASE attached
    <2>1. PICK u : u = [intent[r] EXCEPT !.state = "called", !.calls = n]
      OBVIOUS
    <2>2. /\ u \in IntentType /\ u.kind = intent[r].kind /\ u.has = intent[r].has
          /\ u.state = "called"
      BY <1>1, <1>2, <2>1 DEF IntentType, States
    <2>3. intent' = [intent EXCEPT ![r] = u] /\ outgoing' = [row |-> r, at |-> 1]
      BY <1>1, <1>2, <1>3, <2>1 DEF CallAdapter
    <2>4. /\ network' \in AllNetworks /\ intent' \in [Rows -> IntentType]
          /\ \A q \in Rows : intent'[q].kind \in KindsOf(network')
          /\ HasOK' /\ intent'[r] = u
      BY <1>1, <2>2, <2>3, OneRow
    <2>5. RouteOK(network, intent[r].kind, Routes[network][intent[r].kind])
      BY <1>1, RoutesAre
    <2>6. CallTypesOK'
      BY <1>1, <2>2, <2>3, <2>4, <2>5 DEF CallTypesOK, RouteOK
    <2>7. OutOK'
      <3>1. ~(outgoing'.at > SendAt(network', intent'[r].kind)) /\ outgoing'.row = r
        BY <1>1, <2>2, <2>3, <2>4, <2>5 DEF RouteOK
      <3> QED BY <1>1, <2>2, <2>4, <3>1 DEF OutOK
    <2> QED BY <2>4, <2>6, <2>7 DEF AnswerInv
  <1>4. CASE ~attached
    <2>1. PICK u : u = [intent[r] EXCEPT !.calls = n]
      OBVIOUS
    <2>2. /\ u \in IntentType /\ u.kind = intent[r].kind /\ u.has = intent[r].has
          /\ u.state = "queued"
      BY <1>1, <1>2, <2>1 DEF IntentType
    <2>3. intent' = [intent EXCEPT ![r] = u] /\ outgoing' = NoCallOut
      BY <1>1, <1>2, <1>4, <2>1 DEF CallAdapter
    <2>4. /\ network' \in AllNetworks /\ intent' \in [Rows -> IntentType]
          /\ \A q \in Rows : intent'[q].kind \in KindsOf(network')
          /\ HasOK' /\ intent'[r] = u
      BY <1>1, <2>2, <2>3, OneRow
    <2> QED BY <2>3, <2>4 DEF AnswerInv, CallTypesOK, OutOK
  <1> QED BY <1>3, <1>4

\* A request that succeeds gives what it is for, and the last one confirms.
LEMMA SucceedsStays == AnswerInv /\ Succeeds => AnswerInv'
  <1> SUFFICES ASSUME AnswerInv, Succeeds PROVE AnswerInv'
    OBVIOUS
  <1>1. PICK r \in Rows : r = outgoing.row
    BY CallOut DEF Succeeds
  <1>2. PICK k : k = outgoing.at
    OBVIOUS
  <1> DEFINE kind == intent[r].kind
             R == Routes[network][kind]
  <1>3. /\ intent[r] \in IntentType /\ kind \in KindsOf(network) /\ network \in AllNetworks
        /\ RouteOK(network, kind, R) /\ k \in 1 .. Len(R) /\ Request = R[k]
        /\ outgoing # NoCallOut /\ intent \in [Rows -> IntentType] /\ KindOut = kind
        /\ UNCHANGED network
    BY <1>1, <1>2, CallOut DEF Succeeds, KindOut, AnswerInv, CallTypesOK
  <1>4. PICK has : has = IF Gives THEN intent[r].has \cup {Request} ELSE intent[r].has
    OBVIOUS
  <1>5. PICK s : s = SendAt(network, kind)
    OBVIOUS
  <1>6. /\ Len(R) \in 1 .. 4 /\ s \in 1 .. Len(R) /\ (R[k] = "send" <=> k = s)
        /\ (R[k] = "caption" <=> k = 4 /\ kind = "captioned" /\ network = "google")
        /\ (R[k] = "caption" => k > s)
        /\ (kind = "captioned" /\ network = "google" => Len(R) = 4)
    BY <1>3, <1>5 DEF RouteOK
  <1>7. /\ kind \notin Repeatable => intent[r].has = IF k > s THEN {"send"} ELSE {}
        /\ k > s => "send" \in intent[r].has
        /\ kind \in Repeatable => intent[r].has \subseteq {"send"}
        /\ intent[r].state = "called"
    BY <1>1, <1>2, <1>3, <1>5 DEF AnswerInv, OutOK, HasOK
  <1>8. Gives <=> R[k] = "send" \/ R[k] = "caption"
    BY <1>3 DEF Gives
  <1> HIDE DEF R
  <1>9. PICK n : n = Len(R)
    OBVIOUS
  <1>10. /\ n \in Nat /\ n <= 4 /\ k \in Nat /\ 1 <= k /\ k <= n
         /\ s \in Nat /\ 1 <= s /\ s <= n
    <2>1. /\ k \in 1 .. Len(R) /\ Len(R) \in 1 .. 4 /\ s \in 1 .. Len(R)
      BY <1>3, <1>6
    <2> QED BY <1>9, <2>1
  <1>11. /\ has \subseteq {"send", "caption"}
         /\ kind \in Repeatable => has \subseteq {"send"}
         /\ k >= s => "send" \in has
         /\ k < n /\ kind \notin Repeatable => has = IF k + 1 > s THEN {"send"} ELSE {}
         /\ k = n => has = Whole(r)
    <2>1. intent[r].has \subseteq {"send", "caption"}
      BY <1>3 DEF IntentType
    <2>2. CASE R[k] = "send"
      <3>1. k = s /\ has = intent[r].has \cup {"send"} /\ ~(k > s) /\ k + 1 > s
        BY <1>3, <1>4, <1>6, <1>8, <1>10, <2>2
      <3>2. /\ kind \notin Repeatable => has = {"send"}
            /\ kind \in Repeatable => has = {"send"}
        BY <1>7, <3>1
      <3>3. k = n => Whole(r) = {"send"}
        <4>1. s # 4
          BY <1>5 DEF SendAt
        <4>2. k = n => ~(kind = "captioned" /\ network = "google")
          BY <1>6, <1>9, <3>1, <4>1
        <4> QED BY <4>2 DEF Whole
      <3> QED BY <3>1, <3>2, <3>3
    <2>3. CASE R[k] = "caption"
      <3>1. /\ k = 4 /\ k > s /\ k = n /\ kind = "captioned" /\ network = "google"
            /\ has = intent[r].has \cup {"caption"}
        BY <1>3, <1>4, <1>6, <1>8, <1>9, <1>10, <2>3
      <3>2. kind \notin Repeatable /\ intent[r].has = {"send"}
        BY <1>7, <3>1 DEF Repeatable
      <3>3. Whole(r) = {"send", "caption"} /\ has = {"send", "caption"}
        BY <3>1, <3>2 DEF Whole
      <3> QED BY <3>1, <3>2, <3>3
    <2>4. CASE R[k] \notin {"send", "caption"}
      <3>1. has = intent[r].has /\ k # s /\ (k >= s <=> k > s) /\ (k + 1 > s <=> k > s)
        BY <1>3, <1>4, <1>6, <1>8, <1>10, <2>4
      <3>2. k = n => k > s /\ ~(kind = "captioned" /\ network = "google")
        BY <1>6, <1>9, <1>10, <2>4, <3>1
      <3>3. k = n => Whole(r) = {"send"} /\ has = {"send"}
        BY <1>7, <3>1, <3>2 DEF Whole
      <3> QED BY <1>7, <2>1, <3>1, <3>3
    <2> QED BY <2>2, <2>3, <2>4
  <1>12. CASE k = n
    <2>1. PICK u : u = [intent[r] EXCEPT !.has = has, !.state = "confirmed"]
      OBVIOUS
    <2>2. /\ u \in IntentType /\ u.kind = kind /\ u.has = has /\ u.state = "confirmed"
      BY <1>3, <1>11, <2>1 DEF IntentType, States
    <2>3. intent' = [intent EXCEPT ![r] = u] /\ outgoing' = NoCallOut
      <3>1. intent' = [intent EXCEPT ![r].has = has, ![r].state = "confirmed"]
            /\ outgoing' = NoCallOut
        BY <1>1, <1>2, <1>3, <1>4, <1>9, <1>12 DEF Succeeds, R
      <3> QED BY <1>3, <2>1, <3>1
    <2>4. /\ network' \in AllNetworks /\ intent' \in [Rows -> IntentType]
          /\ \A q \in Rows : intent'[q].kind \in KindsOf(network')
          /\ HasOK' /\ intent'[r] = u
      BY <1>3, <1>11, <1>12, <2>2, <2>3, OneRow
    <2> QED BY <2>3, <2>4 DEF AnswerInv, CallTypesOK, OutOK
  <1>13. CASE k # n
    <2>1. PICK u : u = [intent[r] EXCEPT !.has = has, !.state = "called"]
      OBVIOUS
    <2>2. /\ u \in IntentType /\ u.kind = kind /\ u.has = has /\ u.state = "called"
      BY <1>3, <1>11, <2>1 DEF IntentType, States
    <2>3. /\ intent' = [intent EXCEPT ![r] = u] /\ outgoing' = [outgoing EXCEPT !.at = k + 1]
      <3>1. /\ intent' = [intent EXCEPT ![r].has = has, ![r].state = "called"]
            /\ outgoing' = [outgoing EXCEPT !.at = k + 1]
        BY <1>1, <1>2, <1>3, <1>4, <1>7, <1>9, <1>13 DEF Succeeds, R
      <3> QED BY <1>3, <2>1, <3>1
    <2>4. /\ network' \in AllNetworks /\ intent' \in [Rows -> IntentType]
          /\ \A q \in Rows : intent'[q].kind \in KindsOf(network')
          /\ HasOK' /\ intent'[r] = u
      BY <1>3, <1>11, <2>2, <2>3, OneRow
    <2>5. /\ outgoing' \in [row : Rows, at : 1 .. 4] /\ outgoing'.row = r /\ outgoing'.at = k + 1
          /\ k + 1 <= Len(R)
      <3>1. outgoing \in [row : Rows, at : 1 .. 4]
        BY <1>3 DEF AnswerInv, CallTypesOK
      <3>2. k + 1 \in 1 .. 4 /\ k + 1 <= Len(R)
        BY <1>9, <1>10, <1>13
      <3> QED BY <1>1, <2>3, <3>1, <3>2
    <2>6. CallTypesOK'
      BY <1>3, <2>2, <2>4, <2>5 DEF CallTypesOK, R
    <2>7. OutOK'
      <3>1. SendAt(network', intent'[r].kind) = s
        BY <1>3, <1>5, <2>2, <2>4
      <3>2. k < n /\ k \in Nat /\ s \in Nat
        BY <1>9, <1>10, <1>13
      <3>3. k + 1 > s => k >= s
        BY <3>2
      <3> QED BY <1>11, <2>2, <2>4, <2>5, <3>1, <3>2, <3>3 DEF OutOK
    <2> QED BY <2>4, <2>6, <2>7 DEF AnswerInv
  <1> QED BY <1>12, <1>13

\* A failed call is rejected, queued again or left uncertain.
LEMMA VerdictTypes ==
    ASSUME NEW v
    PROVE  Recorded(v) \in {"rejected", "queued", "uncertain"}
  BY DEF Recorded

\* A call that fails: what it gave and what is recorded of it agree.
LEMMA FailStays ==
    ASSUME AnswerInv, Waiting, NEW reply, NEW taken \in BOOLEAN, FailsWith(reply, taken),
           Recorded(Judges(reply)) = "queued" /\ KindOut \notin Repeatable
              => outgoing.at <= SendAt(network, KindOut) /\ ~(taken /\ Gives)
    PROVE  AnswerInv'
  <1>1. PICK r \in Rows : r = outgoing.row
    BY CallOut
  <1>2. PICK k : k = outgoing.at
    OBVIOUS
  <1> DEFINE kind == intent[r].kind
             R == Routes[network][kind]
  <1>3. /\ intent[r] \in IntentType /\ kind \in KindsOf(network) /\ network \in AllNetworks
        /\ RouteOK(network, kind, R) /\ k \in 1 .. Len(R) /\ Request = R[k]
        /\ outgoing # NoCallOut /\ intent \in [Rows -> IntentType] /\ KindOut = kind
    BY <1>1, <1>2, CallOut DEF KindOut, AnswerInv, CallTypesOK
  <1>4. PICK has : has = IF taken /\ Gives THEN intent[r].has \cup {Request} ELSE intent[r].has
    OBVIOUS
  <1>5. PICK state : state = Recorded(Judges(reply))
    OBVIOUS
  <1>6. state \in {"rejected", "queued", "uncertain"}
    BY <1>5, VerdictTypes
  <1>7. /\ has \subseteq {"send", "caption"}
        /\ kind \in Repeatable => has \subseteq {"send"}
    <2>1. /\ intent[r].has \subseteq {"send", "caption"}
          /\ kind \in Repeatable => intent[r].has \subseteq {"send"}
      BY <1>3 DEF IntentType, AnswerInv, HasOK
    <2>2. Gives => Request \in {"send", "caption"}
      BY DEF Gives
    <2>3. kind \in Repeatable => Request # "caption"
      BY <1>3 DEF RouteOK, Repeatable
    <2> QED BY <1>4, <2>1, <2>2, <2>3
  <1>8. state = "queued" /\ kind \notin Repeatable => has = {}
    <2> SUFFICES ASSUME state = "queued", kind \notin Repeatable PROVE has = {}
      OBVIOUS
    <2>1. k <= SendAt(network, kind) /\ ~(taken /\ Gives)
      BY <1>2, <1>3, <1>5
    <2>2. SendAt(network, kind) \in Nat /\ k \in Nat
      BY <1>3 DEF RouteOK
    <2>3. ~(k > SendAt(network, kind))
      BY <2>1, <2>2
    <2>4. intent[r].has = {}
      BY <1>1, <1>2, <1>3, <2>3 DEF AnswerInv, OutOK
    <2> QED BY <1>4, <2>1, <2>4
  <1>9. PICK u : u = [intent[r] EXCEPT !.has = has, !.state = state]
    OBVIOUS
  <1>10. /\ u \in IntentType /\ u.kind = kind /\ u.has = has /\ u.state = state
    BY <1>3, <1>6, <1>7, <1>9 DEF IntentType, States
  <1>11. intent' = [intent EXCEPT ![r] = u] /\ outgoing' = NoCallOut /\ UNCHANGED network
    <2>1. /\ intent' = [intent EXCEPT ![r].has = has, ![r].state = state]
          /\ outgoing' = NoCallOut /\ UNCHANGED network
      <3>1. (IF taken /\ Gives THEN intent[r].has \cup {Request} ELSE intent[r].has) = has
        BY <1>4
      <3> QED BY <1>1, <1>3, <1>5, <3>1 DEF FailsWith
    <2> QED BY <1>3, <1>9, <2>1
  <1>12. /\ network' \in AllNetworks /\ intent' \in [Rows -> IntentType]
         /\ \A q \in Rows : intent'[q].kind \in KindsOf(network')
         /\ HasOK' /\ intent'[r] = u
    BY <1>6, <1>7, <1>8, <1>10, <1>11, OneRow
  <1> QED BY <1>11, <1>12 DEF AnswerInv, CallTypesOK, OutOK

\* A request that fails was taken or was not.
LEMMA TakenIsBoolean == \A reply : Taken(reply) \subseteq BOOLEAN
  BY DEF Taken

\* The inductive invariant holds for any rows and any of the four platforms: a
\* call gives the recipient what its requests so far give, and the adapters are
\* certain only of calls that gave nothing.
THEOREM AnswersHold == SendSpec => []AnswerInv
  <1>1. SendInit => AnswerInv
    <2> SUFFICES ASSUME SendInit PROVE AnswerInv
      OBVIOUS
    <2>1. network \in AllNetworks /\ outgoing = NoCallOut
      BY AdapterConstants DEF SendInit, AllNetworks
    <2>2. PICK kind \in [Rows -> DOMAIN Routes[network]] :
             intent = [r \in Rows |-> [kind |-> kind[r], state |-> "queued", calls |-> 0, has |-> {}]]
      BY DEF SendInit
    <2>3. \A r \in Rows : kind[r] \in KindsOf(network) /\ kind[r] \in SendKinds
      BY <2>1, <2>2, KindsAreDomains DEF KindsOf
    <2>4. \A r \in Rows : /\ intent[r] \in IntentType /\ intent[r].kind = kind[r]
                          /\ intent[r].state = "queued" /\ intent[r].has = {}
      BY <2>2, <2>3 DEF IntentType, States
    <2>5. intent \in [Rows -> IntentType]
      BY <2>2, <2>4
    <2> QED BY <2>1, <2>3, <2>4, <2>5 DEF AnswerInv, CallTypesOK, HasOK, OutOK
  <1>2. AnswerInv /\ [SendNext]_sendVars => AnswerInv'
    <2> SUFFICES ASSUME AnswerInv, [SendNext]_sendVars PROVE AnswerInv'
      OBVIOUS
    <2>1. CASE \E r \in Rows : CallAdapter(r)
      BY <2>1, CallStays
    <2>2. CASE Succeeds
      BY <2>2, SucceedsStays
    <2>3. CASE RequestFails
      <3>1. PICK reply \in Answers, taken \in BOOLEAN :
               taken \in Taken(reply) /\ FailsWith(reply, taken)
        BY <2>3, TakenIsBoolean DEF RequestFails
      <3>2. Waiting
        BY <2>3 DEF RequestFails
      <3> QED BY <3>1, <3>2, CertainIsTrue, FailStays
    <2>4. CASE CommandTooLate
      <3>1. /\ Waiting /\ network = "signal" /\ Request = "send" /\ FailsWith("lost", FALSE)
        BY <2>4 DEF CommandTooLate
      <3>2. KindOut \notin Repeatable => Recorded(Judges("lost")) # "queued"
        <4>1. KindOut \in KindsOf(network)
          BY <3>1, CallOut
        <4>2. KindOut \notin Repeatable => Judges("lost").certain = FALSE
          BY <3>1, <4>1 DEF KindsOf, SendKinds, Repeatable, Judges, SignalJudges, SignalJudgesText,
             SignalJudgesMedia, Judged, AllFailed
        <4> QED BY <4>2 DEF Recorded
      <3> QED BY <3>1, <3>2, FailStays
    <2>5. CASE \/ TakeLock \/ PollerLocks \/ TimeIsUp \/ LinkTurns \/ CredentialsTurn \/ RepairTurns
               \/ UNCHANGED sendVars
      BY <2>5, OthersStay DEF TakeLock, PollerLocks, TimeIsUp, LinkTurns, CredentialsTurn,
         RepairTurns, sendVars
    <2> QED BY <2>1, <2>2, <2>3, <2>4, <2>5 DEF SendNext
  <1> QED BY <1>1, <1>2, PTL DEF SendSpec

\* VerdictsAreTrue for any rows (recordSendError, classifyTransportError,
\* markSendNotDispatched, parseSignalSendResult): an adapter lets a message be sent
\* by itself once more only if the recipient has nothing of it, and calls it sent
\* only if they have all of it.
THEOREM VerdictsTrue == SendSpec => []VerdictsAreTrue
  <1>1. AnswerInv => VerdictsAreTrue
    BY DEF AnswerInv, HasOK, Whole, VerdictsAreTrue
  <1> QED BY <1>1, AnswersHold, PTL

-----------------------------------------------------------------------------
(* Marks.                                                                   *)

FrameKinds == {"message", "delete", "receipt", "reaction"}
FrameType ==
    [kind : FrameKinds, who : Reactors, emoji : Reaction, at : Nat \ {0},
     all : [Reactors -> Reaction]]
RecordType == [frame : FrameType, seq : Nat \ {0}]
\* An emoji a row keeps: one reacted with, or the one it was seeded with.
KeptEmoji == Reaction \cup {CHOOSE x \in Emojis : TRUE}
MarkRow == [on : BOOLEAN, emoji : KeptEmoji, at : Int, seq : Int]

IntentKeys == (Emojis \X {"add", "remove"}) \cup ({"read"} \X Nat)
MarkIntent == [key : IntentKeys, effect : Reaction, state : {"queued", "settled"}]

MarkTypes ==
    /\ river \in {"whole", "each"}
    /\ truth \in [Reactors -> Reaction] /\ phoneTime \in Nat \ {0}
    /\ wire \in Seq(FrameType) /\ recorded \in Seq(RecordType)
    /\ applied \subseteq 1 .. Len(recorded) /\ midway \in 0 .. Len(recorded)
    /\ marks \in [Reactors -> MarkRow] /\ fence \in Nat
    /\ readCursor \in [at : Nat, named : BOOLEAN]
    /\ intents \in Seq(MarkIntent)

\* A row that no report was applied to is from before; any other is the newest.
EachOK ==
    river = "each" =>
       \A who \in Reactors :
          /\ Reports(who) = {} => marks[who].at <= 0
          /\ Reports(who) # {} =>
                \E k \in Reports(who) :
                   /\ recorded[k].frame.at = marks[who].at
                   /\ Shown(who) = recorded[k].frame.emoji
          /\ \A j \in Reports(who) : recorded[j].frame.at <= marks[who].at

\* The newest list applied is the fence, and no row is newer.
WholeOK ==
    river = "whole" =>
       /\ \A who \in Reactors : marks[who].seq <= fence
       /\ applied = {} => fence = 0
       /\ applied # {} =>
             \E k \in applied :
                /\ recorded[k].seq = fence
                /\ \A who \in Reactors : Shown(who) = recorded[k].frame.all[who]
       /\ \A j \in applied : recorded[j].seq <= fence

MidwayIsWhole == midway # 0 => river = "whole"

MarksInv == MarkTypes /\ EachOK /\ WholeOK

\* A step that leaves the rows and the records applied to them keeps what they
\* say; records received meanwhile change nothing.
LEMMA RowsKept ==
    ASSUME MarksInv, UNCHANGED <<river, applied, marks, fence>>,
           Len(recorded') >= Len(recorded),
           \A k \in 1 .. Len(recorded) : recorded'[k] = recorded[k]
    PROVE  EachOK' /\ WholeOK'
  <1>1. applied \subseteq 1 .. Len(recorded)
    BY DEF MarksInv, MarkTypes
  <1>2. \A k \in applied : recorded'[k] = recorded[k]
    BY <1>1
  <1>3. \A who \in Reactors : Reports(who)' = Reports(who) /\ Shown(who)' = Shown(who)
    BY <1>2 DEF Reports, Shown
  <1>4. \A who : Reports(who) \subseteq applied
    BY DEF Reports
  <1>5. EachOK'
    BY <1>2, <1>3, <1>4 DEF MarksInv, EachOK
  <1>6. WholeOK'
    BY <1>2, <1>3 DEF MarksInv, WholeOK
  <1> QED BY <1>5, <1>6

\* In the beginning nothing is applied and every row is from before.
LEMMA MarksStart == MarksInit => MarksInv
  <1> SUFFICES ASSUME MarksInit PROVE MarksInv
    OBVIOUS
  <1>1. PICK e0 : e0 = CHOOSE x \in Emojis : TRUE
    OBVIOUS
  <1>2. e0 \in KeptEmoji /\ NoEmoji \in KeptEmoji
    BY <1>1 DEF KeptEmoji, Reaction
  <1>3. NoRow \in MarkRow /\ NoRow.at = -1 /\ NoRow.seq = -1
    BY <1>2 DEF NoRow, MarkRow
  <1>4. Seeded(e0) \in MarkRow /\ Seeded(e0).at = 0 /\ Seeded(e0).seq = 0
    BY <1>2 DEF Seeded, MarkRow
  <1>5. marks = [who \in Reactors |-> NoRow]
        \/ \E o \in Others : marks = [[who \in Reactors |-> NoRow] EXCEPT ![o] = Seeded(e0)]
    <2>1. PICK none : none = [who \in Reactors |-> NoRow]
      OBVIOUS
    <2>2. marks = none
          \/ \E o \in Others, e \in {CHOOSE x \in Emojis : TRUE} :
                marks = [none EXCEPT ![o] = Seeded(e)]
      BY <2>1, SMT DEF MarksInit
    <2>3. marks = none \/ \E o \in Others : marks = [none EXCEPT ![o] = Seeded(e0)]
      BY <1>1, <2>2
    <2> QED BY <2>1, <2>3, Zenon
  <1>6. /\ DOMAIN marks = Reactors
        /\ \A who \in Reactors : marks[who] = NoRow \/ marks[who] = Seeded(e0)
    BY <1>5
  <1>7. marks \in [Reactors -> MarkRow]
    <2>1. marks = [who \in Reactors |-> marks[who]]
      BY <1>5
    <2> QED BY <2>1, <1>3, <1>4, <1>6
  <1>8. recorded = <<>> /\ wire = <<>> /\ intents = <<>>
    BY DEF MarksInit
  <1>9. Len(recorded) = 0
    BY <1>8
  <1>10. MarkTypes
    <2>1. truth \in [Reactors -> Reaction]
      BY DEF MarksInit, Reaction
    <2>2. wire \in Seq(FrameType) /\ recorded \in Seq(RecordType) /\ intents \in Seq(MarkIntent)
      BY <1>8
    <2>3. /\ river \in {"whole", "each"} /\ phoneTime \in Nat \ {0}
          /\ applied = {} /\ midway = 0 /\ fence \in Nat
      BY DEF MarksInit
    <2>4. readCursor \in [at : Nat, named : BOOLEAN]
      BY DEF MarksInit
    <2> QED BY <2>1, <2>2, <2>3, <2>4, <1>7, <1>9 DEF MarkTypes
  <1>11. \A who \in Reactors : marks[who].at <= 0 /\ marks[who].seq <= 0
    BY <1>3, <1>4, <1>6
  <1>12. applied = {} /\ fence = 0 /\ \A who \in Reactors : Reports(who) = {}
    BY DEF MarksInit, Reports
  <1> QED BY <1>10, <1>11, <1>12 DEF MarksInv, EachOK, WholeOK

\* The frame a platform sends about a reactor is a frame.
LEMMA FrameTyped ==
    ASSUME NEW kind \in FrameKinds, NEW who \in Reactors, NEW all \in [Reactors -> Reaction],
           phoneTime' \in Nat \ {0}
    PROVE  Frame(kind, who, all) \in FrameType
  <1>1. [r \in Reactors |-> NoEmoji] \in [Reactors -> Reaction]
    BY DEF Reaction
  <1>2. all[who] \in Reaction
    OBVIOUS
  <1>3. (IF river = "whole" THEN all ELSE [r \in Reactors |-> NoEmoji]) \in [Reactors -> Reaction]
    BY <1>1
  <1> QED BY <1>2, <1>3 DEF Frame, FrameType

\* The platform's steps touch neither the store nor the records.
LEMMA OnWire ==
    ASSUME MarkTypes, NEW kind \in FrameKinds, NEW who \in Reactors,
           Tick, truth' \in [Reactors -> Reaction],
           PutOnWire(Frame(kind, who, truth')) \/ wire' = wire
    PROVE  phoneTime' \in Nat \ {0} /\ wire' \in Seq(FrameType)
  <1>1. phoneTime' \in Nat \ {0}
    BY DEF Tick, MarkTypes
  <1>2. Frame(kind, who, truth') \in FrameType
    BY <1>1, FrameTyped
  <1>3. PICK f \in FrameType : f = Frame(kind, who, truth')
    BY <1>2
  <1>4. wire' = Append(wire, f) \/ wire' = wire
    BY <1>3 DEF PutOnWire
  <1>5. wire \in Seq(FrameType)
    BY DEF MarkTypes
  <1>6. wire' \in Seq(FrameType)
    BY <1>4, <1>5
  <1> QED BY <1>1, <1>6

\* The user is one of those who react.
LEMMA OwnReacts == Own \in Reactors
  BY DEF Reactors

\* A queue with one more intent, or as it was.
LEMMA EnqueueTyped ==
    ASSUME NEW key \in IntentKeys, NEW effect \in Reaction, intents \in Seq(MarkIntent),
           Enqueue(key, effect)
    PROVE  intents' \in Seq(MarkIntent)
  <1>1. [key |-> key, effect |-> effect, state |-> "queued"] \in MarkIntent
    BY DEF MarkIntent
  <1> QED BY <1>1 DEF Enqueue

\* An intent settled is an intent.
LEMMA SettleTyped ==
    ASSUME NEW n, Queued(n), intents \in Seq(MarkIntent), SettleIntent(n)
    PROVE  intents' \in Seq(MarkIntent) /\ intents[n].effect \in Reaction
  <1>1. n \in 1 .. Len(intents) /\ intents[n] \in MarkIntent
    BY DEF Queued
  <1>2. [intents[n] EXCEPT !.state = "settled"] \in MarkIntent
    BY <1>1 DEF MarkIntent
  <1>3. intents' = [intents EXCEPT ![n] = [intents[n] EXCEPT !.state = "settled"]]
    BY DEF SettleIntent
  <1> QED BY <1>1, <1>2, <1>3 DEF MarkIntent

\* The cursor takes a position that is no older.
LEMMA CursorTyped ==
    ASSUME NEW at \in Nat, NEW named \in BOOLEAN, UpsertReadCursor(at, named),
           readCursor \in [at : Nat, named : BOOLEAN]
    PROVE  readCursor' \in [at : Nat, named : BOOLEAN] /\ readCursor'.at >= readCursor.at
  BY DEF UpsertReadCursor, NotOlder

\* What the platform does reaches the store only as records.
LEMMA PlatformMarks ==
    ASSUME MarksInv,
           \/ \E who \in Reactors, e \in Reaction : React(who, e)
           \/ \E kind \in {"message", "delete", "receipt"} : SendFrame(kind)
           \/ \E n \in 1 .. MaxPresses : DispatchReaction(n)
    PROVE  MarksInv' /\ readCursor' = readCursor
  <1>1. MarkTypes
    BY DEF MarksInv
  <1>2. UNCHANGED <<river, recorded, midway, storeVars>>
    BY DEF React, SendFrame, DispatchReaction
  <1>3. /\ truth' \in [Reactors -> Reaction] /\ phoneTime' \in Nat \ {0}
        /\ wire' \in Seq(FrameType) /\ intents' \in Seq(MarkIntent)
    <2>1. CASE \E who \in Reactors, e \in Reaction : React(who, e)
      <3>1. PICK who \in Reactors, e \in Reaction : React(who, e)
        BY <2>1
      <3>2. /\ Tick /\ truth' = [truth EXCEPT ![who] = e]
            /\ PutOnWire(Frame("reaction", who, truth')) /\ intents' = intents
        BY <3>1 DEF React, ReactsOnPlatform
      <3>3. truth' \in [Reactors -> Reaction]
        BY <3>2, <1>1 DEF MarkTypes
      <3>4. "reaction" \in FrameKinds
        BY DEF FrameKinds
      <3> QED BY <3>2, <3>3, <3>4, <1>1, OnWire DEF MarkTypes
    <2>2. CASE \E kind \in {"message", "delete", "receipt"} : SendFrame(kind)
      <3>1. PICK kind \in {"message", "delete", "receipt"} : SendFrame(kind)
        BY <2>2
      <3>2. /\ Tick /\ truth' = truth /\ intents' = intents
            /\ PutOnWire(Frame(kind, Own, truth))
        BY <3>1 DEF SendFrame
      <3>3. PutOnWire(Frame(kind, Own, truth'))
        BY <3>2
      <3>4. truth' \in [Reactors -> Reaction]
        BY <3>2, <1>1 DEF MarkTypes
      <3>5. kind \in FrameKinds
        BY DEF FrameKinds
      <3> QED BY <3>2, <3>3, <3>4, <3>5, <1>1, OnWire, OwnReacts DEF MarkTypes
    <2>3. CASE \E n \in 1 .. MaxPresses : DispatchReaction(n)
      <3>1. PICK n \in 1 .. MaxPresses : DispatchReaction(n)
        BY <2>3
      <3>2. /\ Tick /\ Queued(n) /\ SettleIntent(n)
            /\ truth' = [truth EXCEPT ![Own] = intents[n].effect]
            /\ PutOnWire(Frame("reaction", Own, truth')) \/ wire' = wire
        BY <3>1 DEF DispatchReaction, ReactsOnPlatform
      <3>3. intents' \in Seq(MarkIntent) /\ intents[n].effect \in Reaction
        BY <3>2, <1>1, SettleTyped DEF MarkTypes
      <3>4. truth' \in [Reactors -> Reaction]
        BY <3>2, <3>3, <1>1 DEF MarkTypes
      <3>5. "reaction" \in FrameKinds
        BY DEF FrameKinds
      <3> QED BY <3>2, <3>3, <3>4, <3>5, <1>1, OnWire, OwnReacts
    <2> QED BY <2>1, <2>2, <2>3
  <1>4. UNCHANGED <<marks, fence, applied, readCursor>>
    BY <1>2 DEF storeVars
  <1>5. MarkTypes'
    BY <1>1, <1>2, <1>3, <1>4 DEF MarkTypes
  <1>6. Len(recorded') >= Len(recorded) /\ \A k \in 1 .. Len(recorded) : recorded'[k] = recorded[k]
    BY <1>2, <1>1 DEF MarkTypes
  <1>7. EachOK' /\ WholeOK'
    BY <1>2, <1>4, <1>6, RowsKept
  <1> QED BY <1>4, <1>5, <1>7 DEF MarksInv

\* A frame received becomes a record after all others.
LEMMA ReceiveMarks ==
    ASSUME MarksInv, NEW k, ReceiveFrame(k)
    PROVE  MarksInv' /\ readCursor' = readCursor
  <1>1. MarkTypes /\ wire \in Seq(FrameType) /\ recorded \in Seq(RecordType)
    BY DEF MarksInv, MarkTypes
  <1>2. k \in 1 .. Len(wire) /\ wire[k] \in FrameType
    BY <1>1 DEF ReceiveFrame
  <1>3. PICK seq \in ReceivedNow :
          recorded' = Append(recorded, [frame |-> wire[k], seq |-> seq])
    BY DEF ReceiveFrame
  <1>4. seq \in Nat \ {0}
    <2>1. CASE recorded = <<>>
      BY <2>1 DEF ReceivedNow
    <2>2. CASE recorded # <<>>
      <3>1. recorded[Len(recorded)] \in RecordType
        BY <2>2, <1>1
      <3>2. recorded[Len(recorded)].seq \in Nat \ {0}
        BY <3>1 DEF RecordType
      <3> QED BY <2>2, <3>2 DEF ReceivedNow
    <2> QED BY <2>1, <2>2
  <1>5. [frame |-> wire[k], seq |-> seq] \in RecordType
    BY <1>2, <1>4 DEF RecordType
  <1>6. /\ recorded' \in Seq(RecordType) /\ Len(recorded') = Len(recorded) + 1
        /\ \A j \in 1 .. Len(recorded) : recorded'[j] = recorded[j]
    BY <1>1, <1>3, <1>5
  <1>7. wire' \in Seq(FrameType)
    <2>1. SubSeq(wire, 1, k - 1) \in Seq(FrameType)
      BY <1>1, <1>2
    <2>2. SubSeq(wire, k + 1, Len(wire)) \in Seq(FrameType)
      BY <1>1, <1>2
    <2>3. wire' = SubSeq(wire, 1, k - 1) \o SubSeq(wire, k + 1, Len(wire))
      BY DEF ReceiveFrame
    <2> QED BY <2>1, <2>2, <2>3
  <1>8. UNCHANGED <<river, truth, phoneTime, midway, marks, fence, applied, readCursor, intents>>
    BY DEF ReceiveFrame, storeVars
  <1>9. Len(recorded) \in Nat
    BY <1>1
  <1>10. MarkTypes'
    BY <1>1, <1>6, <1>7, <1>8, <1>9 DEF MarkTypes
  <1>11. EachOK' /\ WholeOK'
    BY <1>6, <1>8, <1>9, RowsKept
  <1> QED BY <1>8, <1>10, <1>11 DEF MarksInv

\* Steps that touch none of the rows: copies and messages written, crashes, the
\* cursor, the user's submissions and their outcomes.
LEMMA QuietMarks ==
    ASSUME MarksInv,
           \/ \E k \in 1 .. MaxRecords :
                 ProjectCopy(k) \/ WriteTarget(k) \/ AdvanceReadCursor(k)
           \/ MarkCrash \/ MarkConversationRead \/ MirrorReadCursor
           \/ \E e \in Emojis : Press(e)
           \/ \E at \in 1 .. MaxMarkTime : MarkRead(at)
           \/ \E n \in 1 .. MaxPresses : DispatchRest(n)
    PROVE  MarksInv' /\ readCursor'.at >= readCursor.at
  <1>1. MarkTypes
    BY DEF MarksInv
  <1> DEFINE CursorType == [at : Nat, named : BOOLEAN]
             Same == readCursor' = readCursor
  <1>2. readCursor \in CursorType /\ readCursor.at \in Nat /\ phoneTime \in Nat
        /\ recorded \in Seq(RecordType) /\ intents \in Seq(MarkIntent)
    BY <1>1 DEF MarkTypes
  <1>3. Same => readCursor' \in CursorType /\ readCursor'.at >= readCursor.at
    BY <1>2
  <1>4. UNCHANGED <<river, wireVars, recorded, marks, fence, applied>>
    BY DEF ProjectCopy, WriteTarget, AdvanceReadCursor, MarkCrash, Press, MarkConversationRead,
           MirrorReadCursor, MarkRead, DispatchRest, storeVars
  <1> DEFINE Fine == /\ midway' \in 0 .. Len(recorded) /\ intents' \in Seq(MarkIntent)
                     /\ readCursor' \in CursorType /\ readCursor'.at >= readCursor.at
  <1>5. midway' = midway /\ intents' = intents /\ readCursor' = readCursor => Fine
    BY <1>1, <1>3 DEF MarkTypes
  <1>6. midway' = midway => midway' \in 0 .. Len(recorded)
    BY <1>1 DEF MarkTypes
  <1>7. Fine
    <2>1. ASSUME NEW k \in 1 .. MaxRecords, ProjectCopy(k) PROVE Fine
      <3>1. k \in 1 .. Len(recorded) /\ midway' = k /\ intents' = intents
            /\ readCursor' = readCursor
        BY <2>1, <1>2 DEF ProjectCopy, Pending, storeVars
      <3> QED BY <3>1, <1>2, <1>3
    <2>2. ASSUME NEW k \in 1 .. MaxRecords, WriteTarget(k) PROVE Fine
      <3>1. midway' = midway /\ intents' = intents /\ readCursor' = readCursor
        BY <2>2 DEF WriteTarget, storeVars
      <3> QED BY <3>1, <1>5
    <2>3. ASSUME NEW k \in 1 .. MaxRecords, AdvanceReadCursor(k) PROVE Fine
      <3>1. /\ k \in 1 .. Len(recorded) /\ midway' = midway /\ intents' = intents
            /\ UpsertReadCursor(recorded[k].frame.at, target # "absent")
        BY <2>3, <1>2 DEF AdvanceReadCursor, Pending
      <3>2. recorded[k] \in RecordType
        BY <3>1, <1>2
      <3>3. recorded[k].frame.at \in Nat
        BY <3>2 DEF RecordType, FrameType
      <3>4. readCursor' \in CursorType /\ readCursor'.at >= readCursor.at
        BY <3>1, <3>3, <1>2, CursorTyped
      <3> QED BY <3>1, <3>4, <1>2, <1>6
    <2>4. CASE MarkCrash
      <3>1. midway' = 0 /\ intents' = intents /\ readCursor' = readCursor
        BY <2>4 DEF MarkCrash, storeVars
      <3>2. 0 \in 0 .. Len(recorded)
        BY <1>2
      <3> QED BY <3>1, <3>2, <1>2, <1>3
    <2>5. CASE MarkConversationRead
      <3>1. /\ midway' = midway /\ intents' = intents
            /\ UpsertReadCursor(phoneTime, target # "absent")
        BY <2>5 DEF MarkConversationRead
      <3>2. readCursor' \in CursorType /\ readCursor'.at >= readCursor.at
        BY <3>1, <1>2, CursorTyped
      <3> QED BY <3>1, <3>2, <1>2, <1>6
    <2>6. CASE MirrorReadCursor
      <3>1. midway' = midway /\ intents' = intents /\ UpsertReadCursor(phoneTime, FALSE)
        BY <2>6 DEF MirrorReadCursor
      <3>2. readCursor' \in CursorType /\ readCursor'.at >= readCursor.at
        BY <3>1, <1>2, CursorTyped
      <3> QED BY <3>1, <3>2, <1>2, <1>6
    <2>7. ASSUME NEW e \in Emojis, Press(e) PROVE Fine
      <3> DEFINE action == PaletteAction(e)
                 effect == IF action = "add" THEN e ELSE NoEmoji
      <3>1. /\ midway' = midway /\ readCursor' = readCursor
            /\ Enqueue(IntentKey(e, action), effect)
        BY <2>7 DEF Press, SendReaction, storeVars
      <3>2. IntentKey(e, action) \in IntentKeys /\ effect \in Reaction
        BY DEF IntentKey, IntentKeys, PaletteAction, Reaction
      <3>3. intents' \in Seq(MarkIntent)
        BY <3>1, <3>2, <1>2, EnqueueTyped
      <3> QED BY <3>1, <3>3, <1>3, <1>6
    <2>8. ASSUME NEW at \in 1 .. MaxMarkTime, MarkRead(at) PROVE Fine
      <3>1. /\ midway' = midway /\ Enqueue(<<"read", at>>, NoEmoji)
            /\ Same \/ UpsertReadCursor(at, TRUE)
        BY <2>8 DEF MarkRead
      <3>2. <<"read", at>> \in IntentKeys /\ NoEmoji \in Reaction /\ at \in Nat
        BY DEF IntentKeys, Reaction
      <3>3. intents' \in Seq(MarkIntent)
        BY <3>1, <3>2, <1>2, EnqueueTyped
      <3>4. readCursor' \in CursorType /\ readCursor'.at >= readCursor.at
        BY <3>1, <3>2, <1>2, <1>3, CursorTyped
      <3> QED BY <3>1, <3>3, <3>4, <1>6
    <2>9. ASSUME NEW n \in 1 .. MaxPresses, DispatchRest(n) PROVE Fine
      <3>1. /\ midway' = midway /\ readCursor' = readCursor /\ Queued(n) /\ SettleIntent(n)
        BY <2>9 DEF DispatchRest, storeVars
      <3>2. intents' \in Seq(MarkIntent)
        BY <3>1, <1>2, SettleTyped
      <3> QED BY <3>1, <3>2, <1>3, <1>6
    <2> HIDE DEF Fine
    <2> QED BY <2>1, <2>2, <2>3, <2>4, <2>5, <2>6, <2>7, <2>8, <2>9
  <1>8. UNCHANGED <<truth, phoneTime, wire>>
    BY <1>4 DEF wireVars
  <1>9. MarkTypes'
    BY <1>1, <1>4, <1>7, <1>8 DEF MarkTypes
  <1>10. Len(recorded') >= Len(recorded) /\ \A k \in 1 .. Len(recorded) : recorded'[k] = recorded[k]
    BY <1>2, <1>4
  <1>11. EachOK' /\ WholeOK'
    BY <1>4, <1>10, RowsKept
  <1> QED BY <1>7, <1>9, <1>11 DEF MarksInv

\* A full list that is not outdated becomes the fence, and every row shows it.
LEMMA ListMarks ==
    ASSUME MarksInv, ReplaceList, river = "whole"
    PROVE  MarksInv' /\ readCursor' = readCursor
  <1>1. MarkTypes /\ WholeOK
    BY DEF MarksInv
  <1>2. recorded \in Seq(RecordType) /\ marks \in [Reactors -> MarkRow] /\ fence \in Nat
        /\ midway \in 1 .. Len(recorded)
    BY <1>1 DEF MarkTypes, ReplaceList
  <1>3. PICK r \in RecordType : r = recorded[midway]
    BY <1>2
  <1>4. r.seq \in Nat \ {0} /\ r.frame.all \in [Reactors -> Reaction]
    BY DEF RecordType, FrameType
  <1>5. /\ UNCHANGED <<river, truth, phoneTime, wire, recorded, readCursor, intents>>
        /\ midway' = 0 /\ applied' = applied \cup {midway}
        /\ ReplaceEmbeddedReactions(r)
    BY <1>3 DEF ReplaceList, wireVars
  <1>6. 0 \in 0 .. Len(recorded) /\ applied' \subseteq 1 .. Len(recorded)
    BY <1>1, <1>2, <1>5 DEF MarkTypes
  <1>7. EachOK'
    BY <1>5 DEF EachOK
  <1>8. applied' # {} /\ midway \in applied'
    BY <1>5
  <1>9. CASE Outdated(r.seq)
    <2>1. UNCHANGED <<marks, fence>> /\ r.seq < fence
      BY <1>5, <1>9 DEF ReplaceEmbeddedReactions, Outdated
    <2>2. applied # {}
      BY <1>1, <1>4, <2>1 DEF WholeOK
    <2>3. PICK k \in applied : /\ recorded[k].seq = fence
                               /\ \A who \in Reactors : Shown(who) = recorded[k].frame.all[who]
      BY <1>1, <2>2 DEF WholeOK
    <2>4. k \in applied' /\ recorded'[k].seq = fence'
          /\ \A who \in Reactors : Shown(who)' = recorded'[k].frame.all[who]
      BY <1>5, <2>1, <2>3 DEF Shown
    <2>5. \A j \in applied' : recorded'[j].seq <= fence'
      <3>1. \A j \in applied : recorded[j].seq <= fence
        BY <1>1 DEF WholeOK
      <3>2. recorded[midway].seq <= fence
        BY <1>2, <1>3, <1>4, <2>1
      <3> QED BY <1>5, <2>1, <3>1, <3>2
    <2>6. \A who \in Reactors : marks'[who].seq <= fence'
      BY <1>1, <2>1 DEF WholeOK
    <2>7. WholeOK'
      BY <1>8, <2>4, <2>5, <2>6 DEF WholeOK
    <2>8. MarkTypes'
      BY <1>1, <1>5, <1>6, <2>1 DEF MarkTypes
    <2> QED BY <1>5, <1>7, <2>7, <2>8 DEF MarksInv
  <1>10. CASE ~Outdated(r.seq)
    <2>1. /\ fence' = r.seq /\ fence <= r.seq
          /\ marks' = [who \in Reactors |-> WithEntry(marks[who], r.frame.all[who], r.seq)]
      BY <1>2, <1>4, <1>5, <1>10 DEF ReplaceEmbeddedReactions, Outdated
    <2>2. ASSUME NEW who \in Reactors
          PROVE  /\ marks'[who] \in MarkRow /\ marks'[who].seq <= r.seq
                 /\ Shown(who)' = r.frame.all[who]
      <3>1. PICK row \in MarkRow : row = marks[who]
        BY <1>2
      <3>2. PICK e \in Reaction : e = r.frame.all[who]
        BY <1>4
      <3>3. row.seq <= fence /\ row.seq \in Int /\ row.on \in BOOLEAN /\ row.at \in Int
            /\ row.emoji \in KeptEmoji
        BY <1>1, <3>1, <2>2 DEF WholeOK, MarkRow
      <3>4. marks'[who] = WithEntry(row, e, r.seq)
        BY <2>1, <3>1, <3>2
      <3>5. phoneTime \in Int /\ e \in KeptEmoji
        BY <1>1 DEF MarkTypes, KeptEmoji
      <3>6. CASE e = NoEmoji /\ row.on
        <4>1. PICK q : q = [row EXCEPT !.on = FALSE, !.seq = r.seq]
          OBVIOUS
        <4>2. q = [on |-> FALSE, emoji |-> row.emoji, at |-> row.at, seq |-> r.seq]
          BY <4>1 DEF MarkRow
        <4>5. q \in MarkRow
          BY <4>2, <3>3, <1>4 DEF MarkRow
        <4>6. q.on = FALSE /\ q.seq = r.seq
          BY <4>2
        <4>3. marks'[who] = q
          BY <3>4, <3>6, <4>1 DEF WithEntry
        <4> QED BY <4>5, <4>6, <4>3, <3>2, <3>6, <1>4 DEF Shown
      <3>7. CASE e = NoEmoji /\ ~row.on
        <4>1. marks'[who] = row
          BY <3>4, <3>7 DEF WithEntry
        <4> QED BY <4>1, <3>2, <3>3, <3>7, <1>2, <1>4, <2>1 DEF Shown
      <3>8. CASE e # NoEmoji
        <4>1. marks'[who] = [on |-> TRUE, emoji |-> e, at |-> phoneTime, seq |-> r.seq]
          <5>1. ~(r.seq < row.seq)
            BY <3>3, <1>2, <1>4, <2>1
          <5> QED BY <3>4, <3>8, <5>1 DEF WithEntry
        <4>2. marks'[who] \in MarkRow
          BY <4>1, <3>5, <1>4 DEF MarkRow
        <4> QED BY <4>1, <4>2, <3>2, <1>4 DEF Shown
      <3> QED BY <3>6, <3>7, <3>8
    <2>3. marks' \in [Reactors -> MarkRow]
      <3>1. marks' = [who \in Reactors |-> marks'[who]]
        BY <2>1
      <3> QED BY <2>2, <3>1
    <2>4. \A j \in applied' : recorded'[j].seq <= fence'
      <3>1. ASSUME NEW j \in applied PROVE recorded[j].seq <= r.seq
        <4>1. recorded[j].seq <= fence /\ j \in 1 .. Len(recorded)
          BY <1>1 DEF WholeOK, MarkTypes
        <4>2. recorded[j] \in RecordType
          BY <4>1, <1>2
        <4>3. recorded[j].seq \in Int
          BY <4>2 DEF RecordType
        <4> QED BY <4>1, <4>3, <1>2, <1>4, <2>1
      <3>2. recorded[midway].seq <= r.seq
        BY <1>3, <1>4
      <3> QED BY <1>5, <2>1, <3>1, <3>2
    <2>5. recorded'[midway].seq = fence'
          /\ \A who \in Reactors : Shown(who)' = recorded'[midway].frame.all[who]
      BY <1>3, <1>5, <2>1, <2>2
    <2>6. WholeOK'
      BY <1>8, <2>1, <2>2, <2>4, <2>5 DEF WholeOK
    <2>7. fence' \in Nat
      BY <2>1, <1>4
    <2>8. MarkTypes'
      BY <1>1, <1>5, <1>6, <2>3, <2>7 DEF MarkTypes
    <2> QED BY <1>5, <1>7, <2>6, <2>8 DEF MarksInv
  <1> QED BY <1>9, <1>10

\* A report that is no older than its row becomes it; an older one, of a row
\* that a newer report made, changes nothing.
LEMMA DeltaMarks ==
    ASSUME MarksInv, NEW k, ApplyDelta(k)
    PROVE  MarksInv' /\ readCursor' = readCursor
  <1>1. MarkTypes /\ EachOK /\ WholeOK /\ river = "each"
    BY DEF MarksInv, ApplyDelta
  <1>2. /\ UNCHANGED <<river, truth, phoneTime, wire, recorded, midway, fence, readCursor, intents>>
        /\ k \in 1 .. Len(recorded)
        /\ \/ UNCHANGED <<marks, applied>>
           \/ ApplyReaction(recorded[k]) /\ applied' = applied \cup {k}
    BY <1>1 DEF ApplyDelta, wireVars, Pending, MarkTypes
  <1>3. CASE UNCHANGED <<marks, applied>>
    <2>1. Len(recorded') >= Len(recorded)
          /\ \A j \in 1 .. Len(recorded) : recorded'[j] = recorded[j]
      BY <1>1, <1>2 DEF MarkTypes
    <2>2. EachOK' /\ WholeOK'
      BY <1>2, <1>3, <2>1, RowsKept
    <2>3. MarkTypes'
      BY <1>1, <1>2, <1>3 DEF MarkTypes
    <2> QED BY <1>2, <2>2, <2>3 DEF MarksInv
  <1>4. CASE ApplyReaction(recorded[k]) /\ applied' = applied \cup {k}
    <2>1. recorded \in Seq(RecordType) /\ marks \in [Reactors -> MarkRow]
      BY <1>1 DEF MarkTypes
    <2>2. recorded[k] \in RecordType
      BY <1>2, <2>1
    <2>3. PICK f \in FrameType : f = recorded[k].frame
      BY <2>2 DEF RecordType
    <2>4. PICK seq \in Nat : seq = recorded[k].seq
      BY <2>2 DEF RecordType
    <2>5. f.who \in Reactors /\ f.emoji \in Reaction /\ f.at \in Nat \ {0}
      BY DEF FrameType
    <2>6. PICK row \in MarkRow : row = marks[f.who]
      BY <2>1, <2>5
    <2>7. row.at \in Int /\ row.emoji \in KeptEmoji
      BY DEF MarkRow
    <2>8. marks' = [marks EXCEPT ![f.who] = WithDelta(row, f, seq)]
      BY <1>4, <2>3, <2>4, <2>6 DEF ApplyReaction
    <2>9. PICK q : q = WithDelta(row, f, seq)
      OBVIOUS
    <2>10. marks'[f.who] = q /\ \A who \in Reactors : who # f.who => marks'[who] = marks[who]
      BY <2>1, <2>5, <2>8, <2>9
    <2>11. applied \subseteq 1 .. Len(recorded) /\ applied' \subseteq 1 .. Len(recorded)
      BY <1>1, <1>2, <1>4 DEF MarkTypes
    <2>12. \A who \in Reactors : who # f.who => Reports(who)' = Reports(who) /\ Shown(who)' = Shown(who)
      BY <1>2, <1>4, <2>3, <2>10 DEF Reports, Shown
    <2>13. Reports(f.who)' = Reports(f.who) \cup {k}
      BY <1>1, <1>2, <1>4, <2>3 DEF Reports
    <2>14. \A j \in Reports(f.who) : recorded[j].frame.at <= row.at /\ j \in applied
      BY <1>1, <2>5, <2>6 DEF EachOK, Reports
    <2>15. \A j \in applied : recorded[j].frame.at \in Int
      <3>1. \A j \in applied : recorded[j] \in RecordType
        BY <2>1, <2>11
      <3> QED BY <3>1 DEF RecordType, FrameType
    <2>16. CASE f.at >= row.at
      <3>1. q = [on |-> f.emoji # NoEmoji,
                 emoji |-> IF f.emoji = NoEmoji THEN row.emoji ELSE f.emoji,
                 at |-> f.at, seq |-> seq]
        BY <2>9, <2>16 DEF WithDelta, Supersedes
      <3>2. q \in MarkRow
        <4>1. (IF f.emoji = NoEmoji THEN row.emoji ELSE f.emoji) \in KeptEmoji
          BY <2>5, <2>7 DEF KeptEmoji
        <4> QED BY <3>1, <4>1, <2>5 DEF MarkRow
      <3>3. q.at = f.at /\ (q.on <=> f.emoji # NoEmoji) /\ (q.on => q.emoji = f.emoji)
        BY <3>1
      <3>4. marks' \in [Reactors -> MarkRow]
        BY <2>1, <2>8, <2>9, <3>2
      <3>5. Shown(f.who)' = f.emoji
        BY <2>10, <3>3 DEF Shown
      <3>6. \A j \in Reports(f.who)' : recorded[j].frame.at <= f.at
        BY <2>3, <2>5, <2>7, <2>13, <2>14, <2>15, <2>16
      <3>7. EachOK'
        <4>1. ASSUME NEW who \in Reactors
              PROVE  /\ Reports(who)' = {} => marks'[who].at <= 0
                     /\ Reports(who)' # {} =>
                           \E j \in Reports(who)' :
                              /\ recorded'[j].frame.at = marks'[who].at
                              /\ Shown(who)' = recorded'[j].frame.emoji
                     /\ \A j \in Reports(who)' : recorded'[j].frame.at <= marks'[who].at
          <5>1. CASE who = f.who
            <6>1. k \in Reports(who)' /\ recorded'[k].frame.at = marks'[who].at
                  /\ Shown(who)' = recorded'[k].frame.emoji
              BY <5>1, <1>2, <2>3, <2>10, <2>13, <3>3, <3>5
            <6>2. \A j \in Reports(who)' : recorded'[j].frame.at <= marks'[who].at
              BY <5>1, <1>2, <2>10, <3>3, <3>6
            <6> QED BY <6>1, <6>2
          <5>2. CASE who # f.who
            BY <5>2, <1>1, <1>2, <2>10, <2>12 DEF EachOK
          <5> QED BY <5>1, <5>2
        <4> QED BY <4>1 DEF EachOK
      <3>8. MarkTypes'
        BY <1>1, <1>2, <2>11, <3>4 DEF MarkTypes
      <3>9. WholeOK'
        BY <1>1, <1>2 DEF WholeOK
      <3> QED BY <1>2, <3>7, <3>8, <3>9 DEF MarksInv
    <2>17. CASE f.at < row.at
      <3>1. q = row
        BY <2>5, <2>7, <2>9, <2>17 DEF WithDelta, Supersedes
      <3>2. marks' = marks
        BY <2>1, <2>6, <2>8, <2>9, <3>1
      <3>3. Shown(f.who)' = Shown(f.who)
        BY <3>2 DEF Shown
      <3>4. Reports(f.who) # {}
        BY <1>1, <2>5, <2>6, <2>7, <2>17 DEF EachOK
      <3>5. EachOK'
        <4>1. ASSUME NEW who \in Reactors
              PROVE  /\ Reports(who)' = {} => marks'[who].at <= 0
                     /\ Reports(who)' # {} =>
                           \E j \in Reports(who)' :
                              /\ recorded'[j].frame.at = marks'[who].at
                              /\ Shown(who)' = recorded'[j].frame.emoji
                     /\ \A j \in Reports(who)' : recorded'[j].frame.at <= marks'[who].at
          <5>1. CASE who = f.who
            <6>1. PICK j \in Reports(who) : /\ recorded[j].frame.at = marks[who].at
                                            /\ Shown(who) = recorded[j].frame.emoji
              BY <5>1, <3>4, <1>1 DEF EachOK
            <6>2. j \in Reports(who)' /\ recorded'[j].frame.at = marks'[who].at
                  /\ Shown(who)' = recorded'[j].frame.emoji
              BY <5>1, <6>1, <1>2, <2>13, <3>2, <3>3
            <6>3. \A i \in Reports(who)' : recorded'[i].frame.at <= marks'[who].at
              BY <5>1, <1>2, <2>3, <2>5, <2>6, <2>7, <2>13, <2>14, <2>17, <3>2
            <6> QED BY <6>2, <6>3
          <5>2. CASE who # f.who
            BY <5>2, <1>1, <1>2, <2>10, <2>12 DEF EachOK
          <5> QED BY <5>1, <5>2
        <4> QED BY <4>1 DEF EachOK
      <3>6. MarkTypes'
        BY <1>1, <1>2, <2>11, <3>2 DEF MarkTypes
      <3>7. WholeOK'
        BY <1>1, <1>2 DEF WholeOK
      <3> QED BY <1>2, <3>5, <3>6, <3>7 DEF MarksInv
    <2> QED BY <2>5, <2>7, <2>16, <2>17
  <1> QED BY <1>2, <1>3, <1>4

\* Every step keeps the marks as the reports make them, and the read position.
LEMMA MarksStep ==
    ASSUME MarksInv, MidwayIsWhole, MarksNext
    PROVE  MarksInv' /\ readCursor'.at >= readCursor.at
  <1>1. readCursor.at \in Nat
    BY DEF MarksInv, MarkTypes
  <1>2. readCursor' = readCursor => readCursor'.at >= readCursor.at
    BY <1>1
  <1>3. ASSUME NEW k \in 1 .. MaxRecords, ReceiveFrame(k)
        PROVE  MarksInv' /\ readCursor' = readCursor
    BY <1>3, ReceiveMarks
  <1>4. ASSUME NEW k \in 1 .. MaxRecords, ApplyDelta(k)
        PROVE  MarksInv' /\ readCursor' = readCursor
    BY <1>4, DeltaMarks
  <1>5. CASE ReplaceList
    <2>1. river = "whole"
      BY <1>5 DEF ReplaceList, MidwayIsWhole
    <2> QED BY <2>1, <1>2, <1>5, ListMarks
  <1>6. CASE \/ \E who \in Reactors, e \in Reaction : React(who, e)
             \/ \E kind \in {"message", "delete", "receipt"} : SendFrame(kind)
             \/ \E n \in 1 .. MaxPresses : DispatchReaction(n)
    BY <1>2, <1>6, PlatformMarks
  <1>7. CASE \/ \E k \in 1 .. MaxRecords :
                   ProjectCopy(k) \/ WriteTarget(k) \/ AdvanceReadCursor(k)
             \/ MarkCrash \/ MarkConversationRead \/ MirrorReadCursor
             \/ \E e \in Emojis : Press(e)
             \/ \E at \in 1 .. MaxMarkTime : MarkRead(at)
             \/ \E n \in 1 .. MaxPresses : DispatchRest(n)
    BY <1>7, QuietMarks
  <1> QED BY <1>2, <1>3, <1>4, <1>5, <1>6, <1>7 DEF MarksNext

\* A step that changes nothing keeps the marks.
LEMMA MarksStutter ==
    ASSUME MarksInv, UNCHANGED markVars
    PROVE  MarksInv' /\ readCursor'.at >= readCursor.at
  <1>1. UNCHANGED <<river, truth, phoneTime, wire, recorded, midway, marks, fence, applied,
                    readCursor, intents>>
    BY DEF markVars
  <1>2. MarkTypes' /\ readCursor.at \in Nat
    BY <1>1 DEF MarksInv, MarkTypes
  <1>3. Len(recorded') >= Len(recorded) /\ \A k \in 1 .. Len(recorded) : recorded'[k] = recorded[k]
    BY <1>1 DEF MarksInv, MarkTypes
  <1>4. EachOK' /\ WholeOK'
    BY <1>1, <1>3, RowsKept
  <1> QED BY <1>1, <1>2, <1>4 DEF MarksInv

\* Only a platform of full lists has a copy whose list waits to be applied.
LEMMA MidwayHolds == MarksSpec => []MidwayIsWhole
  <1>1. MarksInit => MidwayIsWhole
    BY DEF MarksInit, MidwayIsWhole
  <1>2. MidwayIsWhole /\ [MarksNext]_markVars => MidwayIsWhole'
    BY DEF MidwayIsWhole, MarksNext, markVars, React, SendFrame, ReceiveFrame, ProjectCopy,
           InRiver, ApplyDelta, WriteTarget, AdvanceReadCursor, ReplaceList, MarkCrash, Press,
           MarkConversationRead, MirrorReadCursor, MarkRead, DispatchReaction, DispatchRest
  <1> QED BY <1>1, <1>2, PTL DEF MarksSpec

\* The rows say what the reports applied to them make them say: a row of single
\* reports is dated by the newest, and the rows of full lists are those of the
\* list whose sequence is the fence.
THEOREM MarksHold == MarksSpec => []MarksInv
  <1>1. MarksInv /\ MidwayIsWhole /\ [MarksNext]_markVars => MarksInv'
    BY MarksStep, MarksStutter
  <1> QED BY <1>1, MarksStart, MidwayHolds, PTL DEF MarksSpec

\* What each reactor is shown with is what the newest report applied says, in
\* whatever order, and however often, the ingest worker processed the records.
THEOREM MarksLatest == MarksSpec => []MarksAreLatest
  <1>1. MarksInv => MarksAreLatest
    <2> SUFFICES ASSUME MarksInv PROVE MarksAreLatest
      OBVIOUS
    <2>1. ASSUME NEW who \in Reactors, Reports(who) # {}
          PROVE  \E k \in Reports(who) :
                    /\ \A j \in Reports(who) : recorded[j].frame.at <= recorded[k].frame.at
                    /\ Shown(who) = recorded[k].frame.emoji
      <3>1. river = "each"
        BY <2>1 DEF Reports
      <3> QED BY <2>1, <3>1 DEF MarksInv, EachOK
    <2>2. ASSUME river = "whole", applied # {}
          PROVE  \E k \in applied :
                    /\ \A j \in applied : recorded[j].seq <= recorded[k].seq
                    /\ \A who \in Reactors : Shown(who) = recorded[k].frame.all[who]
      BY <2>2 DEF MarksInv, WholeOK
    <2> QED BY <2>1, <2>2 DEF MarksAreLatest
  <1> QED BY <1>1, MarksHold, PTL

\* The read position never moves back, whichever of the user's readings, the
\* receipts of other devices and the mirrored positions comes late.
THEOREM CursorAdvances == MarksSpec => CursorNeverBack
  <1>1. MarksInv /\ MidwayIsWhole /\ [MarksNext]_markVars => readCursor'.at >= readCursor.at
    BY MarksStep, MarksStutter
  <1> QED BY <1>1, MarksHold, MidwayHolds, PTL DEF MarksSpec, CursorNeverBack

-----------------------------------------------------------------------------
(* The receive pipeline of Signal.                                          *)

Working == {"line", "merge", "write", "tidy", "amend", "invent", "file"}
WorkerAt == Working \cup {"idle", "poll", "log", "drain", "lock", "unlink", "rewrite"}
WorkerType ==
    [at : WorkerAt, mode : {"live", "drain", "wait", "replay"}, todo : Seq(Lines),
     took : SUBSET Lines, kept : Seq(Lines), text : Text, slot : Slots \cup {NoText}]

StoreTypes ==
    /\ store \in [Messages -> [row : Text, alias : Text]] /\ muddled \subseteq Messages
ReceiveTypes ==
    /\ StoreTypes
    /\ server \subseteq Lines /\ handled \subseteq Lines
    /\ wal \in Seq(Lines) /\ recovery \in Seq(Lines)
    /\ worker \in [Workers -> WorkerType]
    /\ paired \in BOOLEAN /\ fate \in [Lines -> Fates]

\* A step is about a line of its kind, and amends a row or a placeholder.
StepFits(s, l, slot) ==
    /\ s \in {"merge", "write", "tidy"} => Kind[l] = "message"
    /\ s \in {"amend", "invent"} => Kind[l] = "edit"
    /\ s = "amend" => slot \in Slots

\* What a goroutine does fits the rules under which it does it.
FormOf(w) ==
    /\ worker[w].at = "idle" => worker[w] = Resting
    /\ worker[w].at \in Working \cup {"log"} => worker[w].todo # <<>>
    /\ worker[w].at \in {"poll", "log"} => w = Loop
    /\ worker[w].at = "log" => worker[w].took = ToSet(worker[w].todo)
    /\ worker[w].at \in {"unlink", "rewrite"} => worker[w].todo = <<>>
    /\ worker[w].at \in {"unlink", "file"} => worker[w].mode \in {"live", "drain"}
    /\ worker[w].at = "rewrite" => worker[w].mode = "replay"
    /\ worker[w].mode = "replay" => worker[w].at \in Working \cup {"rewrite"}
    /\ worker[w].at = "drain" => worker[w].mode = "drain"
    /\ worker[w].mode = "drain" => worker[w].at \in Working \cup {"drain", "unlink"}
    /\ worker[w].at = "lock" <=> worker[w].mode = "wait"
    /\ w \in Clients => worker[w].at = "idle" \/ worker[w].mode \in {"wait", "replay"}
    /\ w = Loop => worker[w].mode = "live"
    /\ StepFits(worker[w].at, Head(worker[w].todo), worker[w].slot)
FormOK == \A w \in Workers : FormOf(w)

\* The queue's mutex, and what is left when the account is removed.
AccountOK ==
    /\ \A v, w \in Workers : Replaying(v) /\ Replaying(w) => v = w
    /\ ~paired => /\ wal = <<>> /\ recovery = <<>>
                  /\ \A w \in {Loop} \cup Hosts : worker[w].at = "idle"

\* Where a line is that is safe.
Safe(l) == l \in handled \cup ToSet(wal) \cup ToSet(recovery) \/ fate[l] # "kept"

\* A line acknowledged is safe, or is in the loop's hands about to be logged.
AckedOK == \A l \in Lines \ server :
    Safe(l) \/ (worker[Loop].at = "log" /\ l \in InHand(Loop))

\* A goroutine that will remove the log has every line it took from it in its
\* hands, or it needs the log no more.
TookOK == \A w \in Workers :
    worker[w].at \in Working \cup {"unlink"} /\ worker[w].mode \in {"live", "drain"} =>
        \A l \in worker[w].took :
            l \in InHand(w) \cup handled \cup ToSet(recovery) \/ fate[l] # "kept"

\* A replay that will rewrite the queue has every line of it.
ReplayOK == \A w \in Workers :
    paired /\ Replaying(w) =>
        ToSet(recovery) \subseteq ToSet(worker[w].kept) \cup InHand(w) \cup handled

ReceiveInv == ReceiveTypes /\ FormOK /\ AccountOK /\ AckedOK /\ TookOK /\ ReplayOK


-----------------------------------------------------------------------------
(* What the store shows.                                                    *)

\* A goroutine is between its look at the store and the end of the line.
OnMessage(w) == worker[w].at \in {"merge", "write", "tidy", "amend", "invent"}
Line(w) == Head(worker[w].todo)
MessageOf(w) == Of[Line(w)]
Merged(w) ==
    IF store[MessageOf(w)].alias # NoText THEN store[MessageOf(w)].alias ELSE Line(w)

\* An edit amends its own message, or both are muddled.
TargetOf(w) ==
    worker[w].at = "amend" =>
        \/ worker[w].slot[2] = MessageOf(w)
        \/ {worker[w].slot[2], MessageOf(w)} \subseteq muddled

\* What a goroutine has read of a message still holds.
Stands(w) ==
    LET shown == store[MessageOf(w)] IN
    /\ worker[w].at \in {"merge", "write"} => shown.row = NoText /\ worker[w].text = Merged(w)
    /\ worker[w].at = "tidy" => shown.row = Merged(w)
    /\ worker[w].at = "amend" =>
          \/ worker[w].slot[1] = "row" /\ shown.row # NoText
          \/ worker[w].slot[1] = "alias" /\ shown.row = NoText /\ shown.alias # NoText
    /\ worker[w].at = "invent" => shown.row = NoText /\ shown.alias = NoText

\* What the store shows of a message.
Shows(m) ==
    /\ store[m].alias \in EditsOf(m) \cup {NoText}
    /\ \A l \in handled : Kind[l] = "message" /\ Of[l] = m =>
          store[m].row # NoText /\ store[m].alias = NoText
    /\ handled \cap EditsOf(m) # {} =>
          \/ store[m].row \in EditsOf(m)
          \/ store[m].row = NoText /\ store[m].alias \in EditsOf(m)

\* All this of the messages that are not muddled, each of which one goroutine at
\* most is at.
ThreadInv ==
    /\ \A w \in Workers : TargetOf(w)
    /\ \A v, w \in Workers :
          OnMessage(v) /\ OnMessage(w) /\ MessageOf(v) = MessageOf(w) =>
              v = w \/ MessageOf(w) \in muddled
    /\ \A w \in Workers : OnMessage(w) /\ MessageOf(w) \notin muddled => Stands(w)
    /\ \A m \in Messages \ muddled : Shows(m)

-----------------------------------------------------------------------------
(* Lines in a file or in a hand.                                            *)

\* The first line and the rest are all the lines.
LEMMA HeadAndTail ==
    ASSUME NEW s \in Seq(Lines), s # <<>>
    PROVE  Head(s) \in Lines /\ Tail(s) \in Seq(Lines) /\ ToSet(s) = {Head(s)} \cup ToSet(Tail(s))
  <1>1. Len(s) \in Nat /\ Len(s) > 0 /\ DOMAIN s = 1 .. Len(s)
    BY EmptySeq, LenProperties
  <1>2. /\ Head(s) = s[1] /\ Tail(s) \in Seq(Lines) /\ Len(Tail(s)) = Len(s) - 1
        /\ \A i \in 1 .. Len(s) - 1 : Tail(s)[i] = s[i + 1]
    BY <1>1, HeadTailProperties
  <1>3. DOMAIN Tail(s) = 1 .. Len(s) - 1
    BY <1>2, LenProperties
  <1>4. \A i \in 1 .. Len(s) : i = 1 \/ (i - 1 \in 1 .. Len(s) - 1 /\ s[i] = Tail(s)[i - 1])
    BY <1>1, <1>2
  <1>5. ASSUME NEW x \in ToSet(s) PROVE x \in {Head(s)} \cup ToSet(Tail(s))
    <2>1. PICK i \in 1 .. Len(s) : x = s[i]
      BY <1>1 DEF ToSet
    <2>2. CASE i = 1
      BY <1>2, <2>1, <2>2
    <2>3. CASE i # 1
      <3>1. i - 1 \in DOMAIN Tail(s) /\ x = Tail(s)[i - 1]
        BY <1>3, <1>4, <2>1, <2>3
      <3> QED BY <3>1 DEF ToSet
    <2> QED BY <2>2, <2>3
  <1>6. {Head(s)} \cup ToSet(Tail(s)) \subseteq ToSet(s)
    BY <1>1, <1>2, <1>3 DEF ToSet
  <1> QED BY <1>1, <1>2, <1>5, <1>6

\* A log with a batch after it has both.
LEMMA LogAndBatch ==
    ASSUME NEW s \in Seq(Lines), NEW t \in Seq(Lines)
    PROVE  s \o t \in Seq(Lines) /\ ToSet(s \o t) = ToSet(s) \cup ToSet(t)
  <1>1. Len(s) \in Nat /\ DOMAIN s = 1 .. Len(s) /\ Len(t) \in Nat /\ DOMAIN t = 1 .. Len(t)
    BY LenProperties
  <1> DEFINE u == s \o t
  <1>2. u \in Seq(Lines) /\ Len(u) = Len(s) + Len(t)
        /\ \A i \in 1 .. Len(s) + Len(t) : u[i] = IF i <= Len(s) THEN s[i] ELSE t[i - Len(s)]
    BY ConcatProperties
  <1>3. DOMAIN u = 1 .. Len(s) + Len(t)
    BY <1>2, LenProperties
  <1> HIDE DEF u
  <1>4. ASSUME NEW x \in ToSet(u) PROVE x \in ToSet(s) \cup ToSet(t)
    <2>1. PICK i \in 1 .. Len(s) + Len(t) : x = u[i]
      BY <1>3 DEF ToSet
    <2>2. CASE i <= Len(s)
      <3>1. i \in DOMAIN s /\ x = s[i]
        BY <1>1, <1>2, <2>1, <2>2
      <3> QED BY <3>1 DEF ToSet
    <2>3. CASE ~(i <= Len(s))
      <3>1. i - Len(s) \in DOMAIN t /\ x = t[i - Len(s)]
        BY <1>1, <1>2, <2>1, <2>3
      <3> QED BY <3>1 DEF ToSet
    <2> QED BY <2>2, <2>3
  <1>5. ToSet(s) \subseteq ToSet(u)
    BY <1>1, <1>2, <1>3 DEF ToSet
  <1>6. \A j \in 1 .. Len(t) : j + Len(s) \in 1 .. Len(s) + Len(t) /\ u[j + Len(s)] = t[j]
    BY <1>1, <1>2
  <1>7. ToSet(t) \subseteq ToSet(u)
    BY <1>1, <1>3, <1>6 DEF ToSet
  <1> QED BY <1>2, <1>4, <1>5, <1>7 DEF u

\* A line appended is the one line more.
LEMMA LineAppended ==
    ASSUME NEW s \in Seq(Lines), NEW l \in Lines
    PROVE  Append(s, l) \in Seq(Lines) /\ ToSet(Append(s, l)) = {l} \cup ToSet(s)
  <1>1. Len(s) \in Nat /\ DOMAIN s = 1 .. Len(s)
    BY LenProperties
  <1> DEFINE u == Append(s, l)
  <1>2. u \in Seq(Lines) /\ Len(u) = Len(s) + 1 /\ (\A i \in 1 .. Len(s) : u[i] = s[i])
        /\ u[Len(s) + 1] = l
    BY AppendProperties
  <1>3. DOMAIN u = 1 .. Len(s) + 1
    BY <1>2, LenProperties
  <1> HIDE DEF u
  <1>4. \A i \in 1 .. Len(s) + 1 : i \in 1 .. Len(s) \/ i = Len(s) + 1
    BY <1>1
  <1>5. ToSet(u) \subseteq {l} \cup ToSet(s)
    BY <1>1, <1>2, <1>3, <1>4 DEF ToSet
  <1>6. Len(s) + 1 \in 1 .. Len(s) + 1 /\ \A i \in 1 .. Len(s) : i \in 1 .. Len(s) + 1
    BY <1>1
  <1>7. {l} \cup ToSet(s) \subseteq ToSet(u)
    BY <1>1, <1>2, <1>3, <1>6 DEF ToSet
  <1> QED BY <1>2, <1>5, <1>7 DEF u

\* An empty file has no lines, and any file has lines only.
LEMMA LinesOf ==
    /\ ToSet(<<>>) = {} /\ <<>> \in Seq(Lines)
    /\ \A s \in Seq(Lines) : ToSet(s) \subseteq Lines
  <1>1. ToSet(<<>>) = {} /\ <<>> \in Seq(Lines)
    BY DEF ToSet
  <1>2. ASSUME NEW s \in Seq(Lines) PROVE ToSet(s) \subseteq Lines
    BY DEF ToSet
  <1> QED BY <1>1, <1>2

\* The first lines of a batch are lines of it.
LEMMA FirstLines ==
    ASSUME NEW s \in Seq(Lines), NEW n \in 0 .. Len(s)
    PROVE  SubSeq(s, 1, n) \in Seq(Lines)
  BY SubSeqProperties

-----------------------------------------------------------------------------
(* Where a line is.                                                         *)

\* A goroutine at rest.
LEMMA RestingWorker ==
    /\ Resting \in WorkerType /\ Resting.at = "idle" /\ Resting.mode = "live"
    /\ Resting.todo = <<>> /\ Resting.took = {} /\ Resting.kept = <<>>
  BY LinesOf DEF Resting, WorkerType, WorkerAt, Text

\* What a goroutine is at is its own.
LEMMA Untouched ==
    ASSUME NEW v, worker'[v] = worker[v]
    PROVE  /\ FormOf(v) => FormOf(v)'
           /\ InHand(v)' = InHand(v) /\ (Replaying(v)' <=> Replaying(v))
  BY DEF FormOf, InHand, Replaying

\* A line safe stays safe while nothing is removed.
LEMMA SafeStays ==
    ASSUME handled \subseteq handled', ToSet(wal) \subseteq ToSet(wal'),
           ToSet(recovery) \subseteq ToSet(recovery'),
           \A l \in Lines : fate[l] # "kept" => fate'[l] # "kept"
    PROVE  \A l \in Lines : Safe(l) => Safe(l)'
  BY DEF Safe

\* A goroutine that goes on with the line in its hand.
LEMMA LineGoesOn ==
    ASSUME ReceiveInv, NEW w \in Workers, worker[w].at \in Working,
           NEW s \in Working, NEW x \in Text, NEW y \in Slots \cup {NoText},
           worker' = [worker EXCEPT ![w] =
               [at |-> s, mode |-> worker[w].mode, todo |-> worker[w].todo,
                took |-> worker[w].took, kept |-> worker[w].kept, text |-> x, slot |-> y]],
           s = "file" => worker[w].mode \in {"live", "drain"},
           StepFits(s, Head(worker[w].todo), y),
           UNCHANGED <<server, wal, recovery, paired, handled, fate>>, StoreTypes'
    PROVE  ReceiveInv'
  <1> DEFINE me == worker[w]
             q == [at |-> s, mode |-> me.mode, todo |-> me.todo, took |-> me.took,
                   kept |-> me.kept, text |-> x, slot |-> y]
  <1>1. worker \in [Workers -> WorkerType] /\ ReceiveTypes /\ FormOK /\ AccountOK /\ AckedOK
        /\ TookOK /\ ReplayOK
    BY DEF ReceiveInv, ReceiveTypes
  <1>2. me \in WorkerType
    BY <1>1
  <1>3. q \in WorkerType
    BY <1>2 DEF WorkerType, WorkerAt
  <1>4. worker'[w] = q /\ \A v \in Workers : v # w => worker'[v] = worker[v]
    BY <1>1
  <1>5. worker' \in [Workers -> WorkerType]
    BY <1>1, <1>3
  <1>6. /\ worker'[w].at = s /\ worker'[w].mode = me.mode /\ worker'[w].todo = me.todo
        /\ worker'[w].took = me.took /\ worker'[w].kept = me.kept /\ worker'[w].slot = y
    BY <1>4
  <1> HIDE DEF q
  <1>7. FormOf(w)
    BY <1>1 DEF FormOK
  <1>8. FormOf(w)'
    <2>1. s \notin {"idle", "poll", "log", "unlink", "rewrite", "drain", "lock"}
          /\ me.at \notin {"idle", "poll", "log", "unlink", "rewrite", "drain", "lock"}
      BY DEF Working
    <2> QED BY <1>6, <1>7, <2>1 DEF FormOf
  <1>9. InHand(w)' = InHand(w) /\ (Replaying(w)' <=> Replaying(w))
    BY <1>6 DEF InHand, Replaying, Working
  <1>10. \A v \in Workers : InHand(v)' = InHand(v) /\ (Replaying(v)' <=> Replaying(v))
                            /\ worker'[v].took = worker[v].took /\ worker'[v].mode = worker[v].mode
                            /\ worker'[v].kept = worker[v].kept
    BY <1>4, <1>6, <1>9, Untouched
  <1>11. \A v \in Workers : worker'[v].at \in Working \cup {"unlink"}
                               => worker[v].at \in Working \cup {"unlink"}
    BY <1>4
  <1>12. FormOK'
    BY <1>1, <1>4, <1>8, Untouched DEF FormOK
  <1>13. \A v \in Workers : worker[v].at = "idle" => worker'[v].at = "idle"
    BY <1>4 DEF Working
  <1>14. Loop \in Workers /\ {Loop} \cup Hosts \subseteq Workers
    BY DEF Workers
  <1>15. AccountOK'
    BY <1>1, <1>10, <1>13, <1>14 DEF AccountOK
  <1>16. worker[Loop].at = "log" => worker'[Loop].at = "log"
    BY <1>4, <1>14 DEF Working
  <1>17. AckedOK'
    BY <1>1, <1>10, <1>14, <1>16 DEF AckedOK, Safe
  <1>18. TookOK'
    BY <1>1, <1>10, <1>11 DEF TookOK
  <1>19. ReplayOK'
    BY <1>1, <1>10 DEF ReplayOK
  <1>20. ReceiveTypes'
    BY <1>1, <1>5 DEF ReceiveTypes
  <1> QED BY <1>12, <1>15, <1>17, <1>18, <1>19, <1>20 DEF ReceiveInv

\* What being through with a line makes of a goroutine.
LEMMA NextShape ==
    ASSUME ReceiveInv, NEW w \in Workers, worker[w].at \in Working, NEW resolved \in BOOLEAN,
           NextLine(w, resolved)
    PROVE  /\ worker' \in [Workers -> WorkerType]
           /\ \A v \in Workers : v # w => worker'[v] = worker[v]
           /\ worker'[w].mode = worker[w].mode /\ worker'[w].took = worker[w].took
           /\ worker'[w].at \in {"line", "unlink", "rewrite"} /\ FormOf(w)'
           /\ Head(worker[w].todo) \in Lines /\ InHand(w) = {Head(worker[w].todo)} \cup InHand(w)'
           /\ ToSet(worker'[w].kept) = ToSet(worker[w].kept) \cup
                 (IF resolved \/ worker[w].mode # "replay" THEN {} ELSE {Head(worker[w].todo)})
  <1>1. worker \in [Workers -> WorkerType] /\ FormOf(w)
    BY DEF ReceiveInv, ReceiveTypes, FormOK
  <1>2. PICK me \in WorkerType : me = worker[w]
    BY <1>1
  <1>3. /\ me.mode \in {"live", "drain", "wait", "replay"} /\ me.todo \in Seq(Lines)
        /\ me.took \subseteq Lines /\ me.kept \in Seq(Lines)
    BY DEF WorkerType
  <1>4. me.todo # <<>> /\ me.at \in Working /\ me.at # "lock"
    BY <1>1, <1>2 DEF FormOf, Working
  <1>5. PICK l \in Lines : l = Head(me.todo)
    BY <1>3, <1>4, HeadAndTail
  <1>6. PICK left \in Seq(Lines) : left = Tail(me.todo)
    BY <1>3, <1>4, HeadAndTail
  <1>7. ToSet(me.todo) = {l} \cup ToSet(left)
    BY <1>3, <1>4, <1>5, <1>6, HeadAndTail
  <1>8. PICK s : s = IF left # <<>> THEN "line"
                     ELSE IF me.mode = "replay" THEN "rewrite" ELSE "unlink"
    OBVIOUS
  <1>9. PICK k : k = IF resolved \/ me.mode # "replay" THEN me.kept ELSE Append(me.kept, l)
    OBVIOUS
  <1>10. k \in Seq(Lines) /\ ToSet(k) = ToSet(me.kept) \cup
                               (IF resolved \/ me.mode # "replay" THEN {} ELSE {l})
    BY <1>3, <1>9, LineAppended
  <1>11. PICK q : q = [at |-> s, mode |-> me.mode, todo |-> left, took |-> me.took, kept |-> k,
                       text |-> NoText, slot |-> NoText]
    OBVIOUS
  <1>12. worker' = [worker EXCEPT ![w] = q]
    <2>1. worker' = [worker EXCEPT ![w] =
              [me EXCEPT !.at = s, !.todo = left,
                         !.kept = IF resolved \/ me.mode # "replay" THEN me.kept
                                  ELSE Append(me.kept, l),
                         !.text = NoText, !.slot = NoText]]
      BY <1>2, <1>5, <1>6, <1>8 DEF NextLine
    <2>2. me = [at |-> me.at, mode |-> me.mode, todo |-> me.todo, took |-> me.took,
                kept |-> me.kept, text |-> me.text, slot |-> me.slot]
      BY DEF WorkerType
    <2>3. PICK next : next = [me EXCEPT !.at = s, !.todo = left, !.kept = k,
                                        !.text = NoText, !.slot = NoText]
      OBVIOUS
    <2>4. next = [at |-> s, mode |-> me.mode, todo |-> left, took |-> me.took, kept |-> k,
                  text |-> NoText, slot |-> NoText]
      BY <2>3, <2>2
    <2> QED BY <2>1, <2>3, <2>4, <1>9, <1>11
  <1>13. s \in {"line", "unlink", "rewrite"}
    BY <1>8
  <1>14. q \in WorkerType
    BY <1>3, <1>10, <1>11, <1>13 DEF WorkerType, WorkerAt, Working, Text
  <1>15. worker'[w] = q /\ \A v \in Workers : v # w => worker'[v] = worker[v]
    BY <1>1, <1>12
  <1>16. worker' \in [Workers -> WorkerType]
    BY <1>1, <1>12, <1>14
  <1>17. q.at = s /\ q.mode = me.mode /\ q.todo = left /\ q.took = me.took /\ q.kept = k
    BY <1>11
  <1>18. FormOf(w)'
    <2>1. me.mode # "wait"
      BY <1>1, <1>2, <1>4 DEF FormOf
    <2>2. s = "line" => left # <<>>
      BY <1>8
    <2>3. s # "line" => left = <<>> /\ (s = "rewrite" <=> me.mode = "replay")
      BY <1>8
    <2>4. w \in Clients => me.mode = "replay"
      BY <1>1, <1>2, <1>4, <2>1 DEF FormOf, Working
    <2>5. w = Loop => me.mode = "live"
      BY <1>1, <1>2 DEF FormOf
    <2>6. "line" \in Working /\ "unlink" \notin Working /\ "rewrite" \notin Working
      BY DEF Working
    <2>7. \A x, y : StepFits(s, x, y)
      BY <1>13 DEF StepFits
    <2> QED BY <1>3, <1>13, <1>15, <1>17, <2>1, <2>2, <2>3, <2>4, <2>5, <2>6, <2>7 DEF FormOf
  <1>19. InHand(w) = {l} \cup InHand(w)'
    BY <1>2, <1>7, <1>15, <1>17 DEF InHand
  <1> QED BY <1>2, <1>5, <1>10, <1>13, <1>15, <1>16, <1>17, <1>18, <1>19

\* A goroutine that is through with the line in its hand: the line is handled, or
\* stays in the queue, or was filed in it.
LEMMA PassesOn ==
    ASSUME ReceiveInv, NEW w \in Workers, worker[w].at \in Working, NEW resolved \in BOOLEAN,
           NextLine(w, resolved), UNCHANGED <<server, wal, paired>>, StoreTypes',
           \/ /\ resolved /\ handled' = handled \cup {Head(worker[w].todo)}
              /\ UNCHANGED <<recovery, fate>>
           \/ /\ ~resolved /\ worker[w].mode = "replay" /\ UNCHANGED <<handled, recovery, fate>>
           \/ /\ ~resolved /\ worker[w].mode \in {"live", "drain"} /\ LockFree
              /\ handled' = handled
              /\ \/ recovery' = Append(recovery, Head(worker[w].todo)) /\ fate' = fate
                 \/ fate' = Marked({Head(worker[w].todo)}, "unfiled") /\ recovery' = recovery
    PROVE  ReceiveInv'
  <1>1. worker \in [Workers -> WorkerType] /\ ReceiveTypes /\ FormOK /\ AccountOK /\ AckedOK
        /\ TookOK /\ ReplayOK
    BY DEF ReceiveInv, ReceiveTypes
  <1>2. PICK l : l = Head(worker[w].todo)
    OBVIOUS
  <1>3. /\ worker' \in [Workers -> WorkerType]
        /\ \A v \in Workers : v # w => worker'[v] = worker[v]
        /\ worker'[w].mode = worker[w].mode /\ worker'[w].took = worker[w].took
        /\ worker'[w].at \in {"line", "unlink", "rewrite"} /\ FormOf(w)'
        /\ l \in Lines /\ InHand(w) = {l} \cup InHand(w)'
        /\ ToSet(worker'[w].kept) = ToSet(worker[w].kept) \cup
              (IF resolved \/ worker[w].mode # "replay" THEN {} ELSE {l})
    BY <1>2, NextShape
  <1>4. /\ recovery' \in Seq(Lines) /\ ToSet(recovery) \subseteq ToSet(recovery')
        /\ recovery' # recovery => ToSet(recovery') = {l} \cup ToSet(recovery) /\ LockFree
    BY <1>1, <1>2, <1>3, LineAppended DEF ReceiveTypes
  <1>5. /\ fate' \in [Lines -> Fates] /\ \A k \in Lines : fate[k] # "kept" => fate'[k] # "kept"
        /\ fate' # fate => fate'[l] # "kept"
    BY <1>1, <1>2, <1>3 DEF ReceiveTypes, Marked, Fates
  <1>6. handled \subseteq handled' /\ handled' \subseteq handled \cup {l} /\ handled' \subseteq Lines
    BY <1>1, <1>2, <1>3 DEF ReceiveTypes
  <1>7. \/ l \in handled'
        \/ l \in ToSet(recovery') \/ fate'[l] # "kept"
        \/ worker[w].mode = "replay" /\ l \in ToSet(worker'[w].kept)
    <2>1. recovery' = Append(recovery, l) => l \in ToSet(recovery')
      BY <1>1, <1>3, LineAppended DEF ReceiveTypes
    <2>2. fate' = Marked({l}, "unfiled") => fate'[l] # "kept"
      BY <1>3 DEF Marked
    <2> QED BY <1>2, <1>3, <2>1, <2>2
  <1>8. /\ \A v \in Workers : Replaying(v)' => Replaying(v)
        /\ worker[w].at # "idle" /\ worker[w].at # "log" /\ worker'[w].at # "idle"
    <2>1. worker[w].at # "idle" /\ worker[w].at # "log"
      BY DEF Working
    <2> QED BY <2>1, <1>3 DEF Replaying
  <1>9. FormOK'
    BY <1>1, <1>3, Untouched DEF FormOK
  <1>10. Loop \in Workers /\ {Loop} \cup Hosts \subseteq Workers
    BY DEF Workers
  <1>11. AccountOK'
    <2>1. ASSUME ~paired' PROVE /\ wal' = <<>> /\ recovery' = <<>>
                                /\ \A v \in {Loop} \cup Hosts : worker'[v].at = "idle"
      <3>1. ~paired /\ wal = <<>> /\ recovery = <<>> /\ w \notin {Loop} \cup Hosts
        BY <1>1, <1>8, <2>1 DEF AccountOK
      <3>2. w \in Clients /\ worker[w].mode = "replay"
        <4>1. FormOf(w)
          BY <1>1 DEF FormOK
        <4> QED BY <3>1, <1>8, <4>1 DEF FormOf, Workers, Working
      <3>3. recovery' = recovery
        BY <1>4, <1>8, <3>2 DEF LockFree, Replaying
      <3> QED BY <1>1, <1>3, <1>10, <3>1, <3>3 DEF AccountOK
    <2> QED BY <1>1, <1>8, <2>1 DEF AccountOK
  <1>12. AckedOK'
    <2>1. \A k \in Lines : Safe(k) => Safe(k)'
      BY <1>4, <1>5, <1>6, SafeStays
    <2>2. worker[Loop].at = "log" => worker'[Loop] = worker[Loop]
      BY <1>3, <1>8, <1>10
    <2>3. worker[Loop].at = "log" => InHand(Loop)' = InHand(Loop)
      BY <2>2, Untouched
    <2> QED BY <1>1, <2>1, <2>2, <2>3 DEF AckedOK
  <1>13. TookOK'
    <2>1. ASSUME NEW v \in Workers, worker'[v].at \in Working \cup {"unlink"},
                 worker'[v].mode \in {"live", "drain"}, NEW k \in worker'[v].took
          PROVE  k \in InHand(v)' \cup handled' \cup ToSet(recovery)' \/ fate'[k] # "kept"
      <3>1. k \in worker[v].took /\ worker[v].mode \in {"live", "drain"}
            /\ worker[v].at \in Working \cup {"unlink"}
        BY <1>3, <2>1
      <3>2. k \in Lines
        BY <1>1, <3>1 DEF WorkerType
      <3>3. k \in InHand(v) \cup handled \cup ToSet(recovery) \/ fate[k] # "kept"
        BY <1>1, <3>1 DEF TookOK
      <3>4. InHand(v) \subseteq {l} \cup InHand(v)'
        BY <1>3, Untouched
      <3>5. v # w => InHand(v)' = InHand(v)
        BY <1>3, Untouched
      <3> QED BY <1>3, <1>4, <1>5, <1>6, <1>7, <2>1, <3>2, <3>3, <3>4, <3>5
    <2> QED BY <2>1 DEF TookOK
  <1>14. ReplayOK'
    <2>1. ASSUME NEW v \in Workers, paired', Replaying(v)', NEW k \in ToSet(recovery')
          PROVE  k \in ToSet(worker'[v].kept) \cup InHand(v)' \cup handled'
      <3>1. Replaying(v) /\ paired
        BY <1>8, <2>1
      <3>2. recovery' = recovery
        BY <1>4, <3>1, <2>1 DEF LockFree
      <3>3. k \in ToSet(worker[v].kept) \cup InHand(v) \cup handled
        BY <1>1, <2>1, <3>1, <3>2 DEF ReplayOK
      <3>4. CASE v # w
        BY <1>3, <1>6, <3>3, <3>4, Untouched
      <3>5. CASE v = w
        <4>1. worker[w].mode = "replay"
          BY <3>1, <3>5 DEF Replaying
        <4>2. l \in handled' \/ l \in ToSet(worker'[w].kept)
          BY <1>2, <1>3, <4>1
        <4> QED BY <1>3, <1>6, <3>3, <3>5, <4>2
      <3> QED BY <3>4, <3>5
    <2> QED BY <2>1 DEF ReplayOK
  <1>15. ReceiveTypes'
    BY <1>1, <1>3, <1>4, <1>5, <1>6 DEF ReceiveTypes
  <1> QED BY <1>9, <1>11, <1>12, <1>13, <1>14, <1>15 DEF ReceiveInv

\* A goroutine that only changes its step, or its step and its text, goes on.
LEMMA OnlyGoes ==
    ASSUME ReceiveInv, NEW w \in Workers, worker[w].at \in Working, NEW s \in Working,
           \/ Goes(w, s)
           \/ \E x \in Text : Carries(w, s, x)
           \/ \E y \in Slots : worker' = [worker EXCEPT ![w].at = s, ![w].slot = y],
           s = "file" => worker[w].mode \in {"live", "drain"},
           s \in {"merge", "write", "tidy"} => Kind[Head(worker[w].todo)] = "message",
           s \in {"amend", "invent"} => Kind[Head(worker[w].todo)] = "edit",
           s = "amend" =>
               \E y \in Slots : worker' = [worker EXCEPT ![w].at = s, ![w].slot = y],
           UNCHANGED <<server, wal, recovery, paired, handled, fate>>, StoreTypes'
    PROVE  ReceiveInv'
  <1>1. worker \in [Workers -> WorkerType]
    BY DEF ReceiveInv, ReceiveTypes
  <1>2. PICK me \in WorkerType : me = worker[w]
    BY <1>1
  <1>3. me.text \in Text /\ me.slot \in Slots \cup {NoText}
    BY DEF WorkerType
  <1>4. me = [at |-> me.at, mode |-> me.mode, todo |-> me.todo, took |-> me.took,
              kept |-> me.kept, text |-> me.text, slot |-> me.slot]
    BY DEF WorkerType
  <1>5. \E x \in Text, y \in Slots \cup {NoText} :
            /\ s = "amend" => y \in Slots
            /\ worker' = [worker EXCEPT ![w] =
                   [at |-> s, mode |-> me.mode, todo |-> me.todo, took |-> me.took,
                    kept |-> me.kept, text |-> x, slot |-> y]]
    <2>1. CASE Goes(w, s) /\ s # "amend"
      <3>1. PICK q : q = [me EXCEPT !.at = s]
        OBVIOUS
      <3>2. q = [at |-> s, mode |-> me.mode, todo |-> me.todo, took |-> me.took,
                 kept |-> me.kept, text |-> me.text, slot |-> me.slot]
        BY <1>4, <3>1
      <3>3. worker' = [worker EXCEPT ![w] = q]
        BY <1>2, <2>1, <3>1 DEF Goes
      <3> QED BY <1>3, <2>1, <3>2, <3>3
    <2>2. CASE (\E x \in Text : Carries(w, s, x)) /\ s # "amend"
      <3>0. PICK x \in Text : Carries(w, s, x)
        BY <2>2
      <3>1. PICK q : q = [me EXCEPT !.at = s, !.text = x]
        OBVIOUS
      <3>2. q = [at |-> s, mode |-> me.mode, todo |-> me.todo, took |-> me.took,
                 kept |-> me.kept, text |-> x, slot |-> me.slot]
        BY <1>4, <3>1
      <3>3. worker' = [worker EXCEPT ![w] = q]
        BY <1>1, <1>2, <3>0, <3>1 DEF Carries
      <3> QED BY <1>3, <2>2, <3>2, <3>3
    <2>3. CASE \E y \in Slots : worker' = [worker EXCEPT ![w].at = s, ![w].slot = y]
      <3>0. PICK y \in Slots : worker' = [worker EXCEPT ![w].at = s, ![w].slot = y]
        BY <2>3
      <3>1. PICK q : q = [me EXCEPT !.at = s, !.slot = y]
        OBVIOUS
      <3>2. q = [at |-> s, mode |-> me.mode, todo |-> me.todo, took |-> me.took,
                 kept |-> me.kept, text |-> me.text, slot |-> y]
        BY <1>4, <3>1
      <3>3. worker' = [worker EXCEPT ![w] = q]
        BY <1>1, <1>2, <3>0, <3>1
      <3> QED BY <1>3, <3>2, <3>3
    <2> QED BY <2>1, <2>2, <2>3
  <1>6. \A y : (s = "amend" => y \in Slots) => StepFits(s, Head(worker[w].todo), y)
    BY DEF StepFits
  <1> QED BY <1>2, <1>5, <1>6, LineGoesOn

-----------------------------------------------------------------------------
(* Every step keeps every line.                                             *)

\* A line a goroutine handles is one it has.
LEMMA HandHasLine ==
    ASSUME ReceiveInv, NEW w \in Workers, worker[w].at \in Working
    PROVE  /\ worker[w].todo \in Seq(Lines) /\ worker[w].todo # <<>>
           /\ Head(worker[w].todo) \in Lines /\ Head(worker[w].todo) \in InHand(w)
           /\ worker[w].mode \in {"live", "drain", "replay"}
  <1>1. worker[w] \in WorkerType /\ FormOf(w)
    BY DEF ReceiveInv, ReceiveTypes, FormOK
  <1>2. worker[w].todo \in Seq(Lines) /\ worker[w].mode \in {"live", "drain", "wait", "replay"}
    BY <1>1 DEF WorkerType
  <1>3. worker[w].todo # <<>> /\ worker[w].mode # "wait"
    BY <1>1 DEF FormOf, Working
  <1> QED BY <1>2, <1>3, HeadAndTail DEF InHand

\* The message a line is about.
LEMMA AboutMessage ==
    \A l \in Lines : Kind[l] \in {"message", "edit"} => l \in DOMAIN Of /\ Of[l] \in Messages
  BY ReceiveConstants DEF Messages

\* A line refused by a goroutine in the middle of it goes to the queue or stays.
LEMMA RefuseStays ==
    ASSUME ReceiveInv, NEW w \in Workers, worker[w].at \in Working, Refuse(w),
           UNCHANGED <<server, wal, recovery, store, paired, handled, fate>>,
           muddled' \subseteq Messages
    PROVE  ReceiveInv'
  <1>1. StoreTypes'
    BY DEF ReceiveInv, ReceiveTypes, StoreTypes
  <1>2. worker[w].mode \in {"live", "drain", "replay"}
    BY HandHasLine
  <1>3. CASE AllowRecovery(worker[w].mode)
    <2>1. Goes(w, "file") /\ worker[w].mode \in {"live", "drain"} /\ "file" \in Working
      BY <1>2, <1>3 DEF Refuse, AllowRecovery, Working
    <2> QED BY <1>1, <2>1, OnlyGoes
  <1>4. CASE ~AllowRecovery(worker[w].mode)
    <2>1. NextLine(w, FALSE) /\ worker[w].mode = "replay"
      BY <1>2, <1>4 DEF Refuse, AllowRecovery
    <2> QED BY <1>1, <2>1, PassesOn
  <1> QED BY <1>3, <1>4

\* A line resolved is handled.
LEMMA ResolveStays ==
    ASSUME ReceiveInv, NEW w \in Workers, worker[w].at \in Working, Resolve(w),
           UNCHANGED <<server, wal, recovery, paired, fate>>, StoreTypes'
    PROVE  ReceiveInv'
  <1>1. NextLine(w, TRUE) /\ handled' = handled \cup {Head(worker[w].todo)}
    BY DEF Resolve
  <1> QED BY <1>1, PassesOn

\* Writing a row or a placeholder of a message keeps the store a store.
LEMMA StoreWritten ==
    ASSUME ReceiveInv, NEW m \in Messages, NEW f \in {"row", "alias"}, NEW x \in Text,
           store' = [store EXCEPT ![m][f] = x], muddled' \subseteq Messages
    PROVE  /\ StoreTypes' /\ store'[m][f] = x
           /\ \A g \in {"row", "alias"} : g # f => store'[m][g] = store[m][g]
           /\ \A n \in Messages : n # m => store'[n] = store[n]
  <1>1. store \in [Messages -> [row : Text, alias : Text]]
    BY DEF ReceiveInv, ReceiveTypes, StoreTypes
  <1>2. PICK old : old = store[m]
    OBVIOUS
  <1>3. old \in [row : Text, alias : Text]
    BY <1>1, <1>2
  <1>4. old = [row |-> old.row, alias |-> old.alias] /\ old.row \in Text /\ old.alias \in Text
    BY <1>3
  <1>5. PICK new : new = [old EXCEPT ![f] = x]
    OBVIOUS
  <1>6. store' = [store EXCEPT ![m] = new]
    BY <1>2, <1>5
  <1>7. CASE f = "row"
    <2>1. new = [row |-> x, alias |-> old.alias]
      BY <1>4, <1>5, <1>7
    <2>2. new \in [row : Text, alias : Text]
      BY <1>4, <2>1
    <2> QED BY <1>1, <1>2, <1>6, <1>7, <2>1, <2>2 DEF StoreTypes
  <1>8. CASE f = "alias"
    <2>1. new = [row |-> old.row, alias |-> x]
      BY <1>4, <1>5, <1>8
    <2>2. new \in [row : Text, alias : Text]
      BY <1>4, <2>1
    <2> QED BY <1>1, <1>2, <1>6, <1>8, <2>1, <2>2 DEF StoreTypes
  <1> QED BY <1>7, <1>8

\* What a goroutine at a line does to it keeps every line.
LEMMA LineStays ==
    ASSUME ReceiveInv, NEW w \in Workers,
           \/ SortLine(w) \/ StoreFails(w) \/ TakeMessage(w) \/ MergeAlias(w) \/ WriteMessage(w)
           \/ DeleteAlias(w) \/ TakeEdit(w) \/ AmendTarget(w) \/ InventAlias(w) \/ FileLine(w)
    PROVE  ReceiveInv'
  <1>1. worker[w].at \in Working
    BY DEF Working, SortLine, StoreFails, TakeMessage, MergeAlias, WriteMessage, DeleteAlias,
           TakeEdit, AmendTarget, InventAlias, FileLine
  <1>2. PICK l \in Lines : l = Head(worker[w].todo)
    BY <1>1, HandHasLine
  <1>3. worker[w] \in WorkerType /\ worker[w].mode \in {"live", "drain", "replay"}
        /\ StepFits(worker[w].at, l, worker[w].slot) /\ worker[w].text \in Text
    BY <1>1, <1>2, HandHasLine DEF ReceiveInv, ReceiveTypes, FormOK, FormOf, WorkerType
  <1>4. /\ store \in [Messages -> [row : Text, alias : Text]] /\ muddled \subseteq Messages
        /\ l \in Text /\ NoText \in Text /\ StoreTypes
    BY DEF ReceiveInv, ReceiveTypes, StoreTypes, Text
  <1>5. \A m \in Messages : store[m].row \in Text /\ store[m].alias \in Text
    BY <1>4
  <1>6. \A k : Clash(w, k) \subseteq Messages
    BY DEF Clash, About, Messages
  <1>7. Kind[l] \in {"message", "edit"} => Of[l] \in Messages
    BY AboutMessage
  <1> DEFINE Apart == UNCHANGED <<server, wal, recovery, paired, handled, fate>>
  <1>8. CASE SortLine(w)
    <2>1. CASE Refuse(w) /\ UNCHANGED handled
      BY <1>1, <1>4, <1>8, <2>1, RefuseStays DEF SortLine
    <2>2. CASE Resolve(w)
      <3>1. StoreTypes'
        BY <1>4, <1>8 DEF SortLine, StoreTypes
      <3> QED BY <1>1, <1>8, <2>2, <3>1, ResolveStays DEF SortLine
    <2> QED BY <1>8, <2>1, <2>2 DEF SortLine
  <1>9. CASE StoreFails(w)
    BY <1>1, <1>4, <1>9, RefuseStays DEF StoreFails
  <1>10. CASE TakeMessage(w)
    <2>1. Kind[l] = "message" /\ muddled' = muddled \cup Clash(w, l) /\ store' = store /\ Apart
          /\ Carries(w, "merge", IF store[Of[l]].alias # NoText THEN store[Of[l]].alias ELSE l)
      BY <1>2, <1>10 DEF TakeMessage
    <2>2. \E x \in Text : Carries(w, "merge", x)
      BY <1>4, <1>5, <1>7, <2>1
    <2>3. StoreTypes'
      BY <1>4, <1>6, <2>1 DEF StoreTypes
    <2>4. "merge" \in Working
      BY DEF Working
    <2> QED BY <1>1, <1>2, <2>1, <2>2, <2>3, <2>4, OnlyGoes
  <1>11. CASE MergeAlias(w)
    <2>1. worker[w].at = "merge" /\ UNCHANGED <<store, muddled>> /\ Apart
          /\ Carries(w, "write", IF store[Of[l]].alias # NoText THEN store[Of[l]].alias
                                 ELSE worker[w].text)
      BY <1>2, <1>11 DEF MergeAlias
    <2>2. Kind[l] = "message"
      BY <1>3, <2>1 DEF StepFits
    <2>3. \E x \in Text : Carries(w, "write", x)
      BY <1>3, <1>5, <1>7, <2>1, <2>2
    <2>4. StoreTypes' /\ "write" \in Working
      BY <1>4, <2>1 DEF StoreTypes, Working
    <2> QED BY <1>1, <1>2, <2>1, <2>2, <2>3, <2>4, OnlyGoes
  <1>12. CASE WriteMessage(w)
    <2>1. worker[w].at = "write" /\ muddled' = muddled /\ Apart /\ Goes(w, "tidy")
          /\ store' = [store EXCEPT ![Of[l]].row = worker[w].text]
      BY <1>2, <1>12 DEF WriteMessage
    <2>2. Kind[l] = "message"
      BY <1>3, <2>1 DEF StepFits
    <2>3. store' = [store EXCEPT ![Of[l]]["row"] = worker[w].text]
      BY <2>1
    <2>4. StoreTypes' /\ "tidy" \in Working
      BY <1>3, <1>4, <1>7, <2>1, <2>2, <2>3, StoreWritten DEF Working
    <2> QED BY <1>1, <1>2, <2>1, <2>2, <2>4, OnlyGoes
  <1>13. CASE DeleteAlias(w)
    <2>1. worker[w].at = "tidy" /\ Resolve(w) /\ UNCHANGED <<server, wal, recovery, paired, fate>>
          /\ \/ muddled' = muddled /\ store' = [store EXCEPT ![Of[l]].alias = NoText]
             \/ muddled' = muddled \cup {Of[l]} /\ store' = store
      BY <1>2, <1>13 DEF DeleteAlias
    <2>2. Of[l] \in Messages
      BY <1>3, <1>7, <2>1 DEF StepFits
    <2>3. StoreTypes'
      <3>1. CASE muddled' = muddled /\ store' = [store EXCEPT ![Of[l]].alias = NoText]
        <4>1. store' = [store EXCEPT ![Of[l]]["alias"] = NoText]
          BY <3>1
        <4> QED BY <1>4, <2>2, <3>1, <4>1, StoreWritten
      <3>2. CASE muddled' = muddled \cup {Of[l]} /\ store' = store
        BY <1>4, <2>2, <3>2 DEF StoreTypes
      <3> QED BY <2>1, <3>1, <3>2
    <2> QED BY <1>1, <2>1, <2>3, ResolveStays
  <1>14. CASE TakeEdit(w)
    <2>1. Kind[l] = "edit" /\ store' = store /\ Apart /\ Of[l] \in Messages
      BY <1>2, <1>7, <1>14 DEF TakeEdit
    <2>2. \A ms : Present(ms) \subseteq Slots
      BY DEF Present
    <2>3. Targets(Of[l]) \subseteq Slots
      BY <2>2 DEF Targets
    <2>4. CASE \E s \in Targets(Of[l]) :
                  /\ worker' = [worker EXCEPT ![w].at = "amend", ![w].slot = s]
                  /\ muddled' = muddled \cup Clash(w, l)
                                   \cup (IF s[2] = Of[l] THEN {} ELSE {Of[l], s[2]})
      <3>1. PICK s \in Targets(Of[l]) :
                  /\ worker' = [worker EXCEPT ![w].at = "amend", ![w].slot = s]
                  /\ muddled' = muddled \cup Clash(w, l)
                                   \cup (IF s[2] = Of[l] THEN {} ELSE {Of[l], s[2]})
        BY <2>4
      <3>2. s \in Slots /\ s[2] \in Messages
        BY <2>3 DEF Slots
      <3>3. StoreTypes' /\ "amend" \in Working
        BY <1>4, <1>6, <2>1, <3>1, <3>2 DEF StoreTypes, Working
      <3> QED BY <1>1, <1>2, <2>1, <3>1, <3>2, <3>3, OnlyGoes
    <2>5. CASE /\ IF AllowRecovery(worker[w].mode) THEN Refuse(w) ELSE Goes(w, "invent")
               /\ muddled' = muddled \cup Clash(w, l)
      <3>1. StoreTypes' /\ "invent" \in Working /\ muddled' \subseteq Messages
        BY <1>4, <1>6, <2>1, <2>5 DEF StoreTypes, Working
      <3>2. CASE Refuse(w)
        BY <1>1, <2>1, <3>1, <3>2, RefuseStays
      <3>3. CASE Goes(w, "invent")
        BY <1>1, <1>2, <2>1, <3>1, <3>3, OnlyGoes
      <3> QED BY <2>5, <3>2, <3>3
    <2> QED BY <1>2, <1>14, <2>4, <2>5 DEF TakeEdit
  <1>15. CASE AmendTarget(w)
    <2>1. PICK s \in Slots : s = worker[w].slot
      BY <1>3, <1>15 DEF AmendTarget, StepFits
    <2>2. /\ store' = [store EXCEPT ![s[2]][s[1]] = l] /\ muddled' = muddled /\ Resolve(w)
          /\ UNCHANGED <<server, wal, recovery, paired, fate>>
      BY <1>2, <1>15, <2>1 DEF AmendTarget
    <2>3. s[1] \in {"row", "alias"} /\ s[2] \in Messages
      BY DEF Slots
    <2>4. StoreTypes'
      BY <1>4, <2>2, <2>3, StoreWritten
    <2> QED BY <1>1, <2>2, <2>4, ResolveStays
  <1>16. CASE InventAlias(w)
    <2>1. /\ store' = [store EXCEPT ![Of[l]].alias = l] /\ muddled' = muddled /\ Resolve(w)
          /\ UNCHANGED <<server, wal, recovery, paired, fate>> /\ Kind[l] = "edit"
      BY <1>2, <1>3, <1>16 DEF InventAlias, StepFits
    <2>2. store' = [store EXCEPT ![Of[l]]["alias"] = l]
      BY <2>1
    <2>3. StoreTypes'
      BY <1>4, <1>7, <2>1, <2>2, StoreWritten
    <2> QED BY <1>1, <2>1, <2>3, ResolveStays
  <1>17. CASE FileLine(w)
    <2>1. /\ worker[w].at = "file" /\ LockFree /\ NextLine(w, FALSE)
          /\ UNCHANGED <<server, wal, store, paired, handled, muddled>>
          /\ \/ recovery' = Append(recovery, l) /\ fate' = fate
             \/ fate' = Marked({l}, "unfiled") /\ recovery' = recovery
      BY <1>2, <1>17 DEF FileLine
    <2>2. worker[w].mode \in {"live", "drain"}
      BY <2>1 DEF ReceiveInv, FormOK, FormOf
    <2>3. StoreTypes'
      BY <1>4, <2>1 DEF StoreTypes
    <2> QED BY <1>1, <1>2, <2>1, <2>2, <2>3, PassesOn
  <1> QED BY <1>8, <1>9, <1>10, <1>11, <1>12, <1>13, <1>14, <1>15, <1>16, <1>17

\* A goroutine that turns to something else than a line: it is in its form, lets
\* go of no line that it needs, and holds the queue's mutex only if no other does.
LEMMA TurnsTo ==
    ASSUME ReceiveInv, NEW w \in Workers, NEW q \in WorkerType,
           worker' = [worker EXCEPT ![w] = q], FormOf(w)',
           UNCHANGED <<server, wal, recovery, store, paired, handled, fate, muddled>>,
           worker[w].at # "log",
           q.mode = "replay" => /\ LockFree
                                /\ ToSet(recovery) \subseteq ToSet(q.kept) \cup ToSet(q.todo) \cup handled,
           q.at \in Working \cup {"unlink"} /\ q.mode \in {"live", "drain"} =>
               q.took \subseteq ToSet(q.todo),
           q.at # "idle" /\ ~paired => w \in Clients
    PROVE  ReceiveInv'
  <1>1. worker \in [Workers -> WorkerType] /\ ReceiveTypes /\ FormOK /\ AccountOK /\ AckedOK
        /\ TookOK /\ ReplayOK
    BY DEF ReceiveInv, ReceiveTypes
  <1>2. worker'[w] = q /\ (\A v \in Workers : v # w => worker'[v] = worker[v])
        /\ worker' \in [Workers -> WorkerType]
    BY <1>1
  <1>3. FormOK'
    BY <1>1, <1>2, Untouched DEF FormOK
  <1>4. Loop \in Workers /\ {Loop} \cup Hosts \subseteq Workers /\ Loop \notin Clients
        /\ Hosts \cap Clients = {}
    BY ReceiveConstants DEF Workers
  <1>5. \A v \in Workers : v # w => (Replaying(v)' <=> Replaying(v)) /\ InHand(v)' = InHand(v)
    BY <1>2, Untouched
  <1>6. AccountOK'
    <2>1. ASSUME NEW u \in Workers, NEW v \in Workers, Replaying(u)', Replaying(v)' PROVE u = v
      <3>1. CASE u # w /\ v # w
        BY <1>1, <1>5, <2>1, <3>1 DEF AccountOK
      <3>2. CASE u = w /\ v # w
        BY <1>2, <1>5, <2>1, <3>2 DEF LockFree, Replaying
      <3>3. CASE u # w /\ v = w
        BY <1>2, <1>5, <2>1, <3>3 DEF LockFree, Replaying
      <3> QED BY <3>1, <3>2, <3>3
    <2>2. ASSUME ~paired PROVE \A v \in {Loop} \cup Hosts : worker'[v].at = "idle"
      BY <1>1, <1>2, <1>4, <2>2 DEF AccountOK
    <2>3. ~paired => wal = <<>> /\ recovery = <<>>
      BY <1>1 DEF AccountOK
    <2> QED BY <2>1, <2>2, <2>3 DEF AccountOK
  <1>7. AckedOK'
    <2>1. \A l : Safe(l)' <=> Safe(l)
      BY DEF Safe
    <2>2. worker[Loop].at = "log" => worker'[Loop] = worker[Loop]
      BY <1>2, <1>4
    <2>3. worker[Loop].at = "log" => InHand(Loop)' = InHand(Loop)
      BY <2>2, Untouched
    <2> QED BY <1>1, <2>1, <2>2, <2>3 DEF AckedOK
  <1>8. TookOK'
    <2>1. InHand(w)' = ToSet(q.todo)
      BY <1>2 DEF InHand
    <2> QED BY <1>1, <1>2, <1>5, <2>1 DEF TookOK
  <1>9. ReplayOK'
    <2>1. InHand(w)' = ToSet(q.todo) /\ (Replaying(w)' => q.mode = "replay")
      BY <1>2 DEF InHand, Replaying
    <2> QED BY <1>1, <1>2, <1>5, <2>1 DEF ReplayOK
  <1>10. ReceiveTypes'
    BY <1>1, <1>2 DEF ReceiveTypes, StoreTypes
  <1> QED BY <1>3, <1>6, <1>7, <1>8, <1>9, <1>10 DEF ReceiveInv

\* The goroutines at rest, polling, waiting for the queue and about to drain.
LEMMA Turned ==
    /\ [Resting EXCEPT !.at = "poll"] \in WorkerType
    /\ [Resting EXCEPT !.at = "poll"].at = "poll" /\ [Resting EXCEPT !.at = "poll"].mode = "live"
    /\ [Resting EXCEPT !.at = "lock", !.mode = "wait"] \in WorkerType
    /\ [Resting EXCEPT !.at = "lock", !.mode = "wait"].at = "lock"
    /\ [Resting EXCEPT !.at = "lock", !.mode = "wait"].mode = "wait"
    /\ [Resting EXCEPT !.at = "drain", !.mode = "drain"] \in WorkerType
    /\ [Resting EXCEPT !.at = "drain", !.mode = "drain"].at = "drain"
    /\ [Resting EXCEPT !.at = "drain", !.mode = "drain"].mode = "drain"
  <1>1. /\ <<>> \in Seq(Lines) /\ {} \in SUBSET Lines /\ NoText \in Text
        /\ {"poll", "lock", "drain"} \subseteq WorkerAt
    BY LinesOf DEF Text, WorkerAt
  <1>2. PICK r : r = Resting
    OBVIOUS
  <1>3. r = [at |-> "idle", mode |-> "live", todo |-> <<>>, took |-> {},
             kept |-> <<>>, text |-> NoText, slot |-> NoText]
    BY <1>2 DEF Resting
  <1>4. PICK a : a = [r EXCEPT !.at = "poll"]
    OBVIOUS
  <1>5. PICK b : b = [r EXCEPT !.at = "lock", !.mode = "wait"]
    OBVIOUS
  <1>6. PICK c : c = [r EXCEPT !.at = "drain", !.mode = "drain"]
    OBVIOUS
  <1>7. a = [at |-> "poll", mode |-> "live", todo |-> <<>>, took |-> {},
             kept |-> <<>>, text |-> NoText, slot |-> NoText]
    BY <1>3, <1>4
  <1>8. b = [at |-> "lock", mode |-> "wait", todo |-> <<>>, took |-> {},
             kept |-> <<>>, text |-> NoText, slot |-> NoText]
    BY <1>3, <1>5
  <1>9. c = [at |-> "drain", mode |-> "drain", todo |-> <<>>, took |-> {},
             kept |-> <<>>, text |-> NoText, slot |-> NoText]
    BY <1>3, <1>6
  <1>10. a \in WorkerType /\ b \in WorkerType /\ c \in WorkerType
    BY <1>1, <1>7, <1>8, <1>9 DEF WorkerType
  <1> QED BY <1>2, <1>4, <1>5, <1>6, <1>7, <1>8, <1>9, <1>10

\* A goroutine that holds no line is in one of these forms.
LEMMA FreeForms ==
    ASSUME NEW w
    PROVE  /\ worker'[w] = Resting => FormOf(w)'
           /\ worker'[w] = [Resting EXCEPT !.at = "poll"] /\ w = Loop /\ w \notin Clients
                 => FormOf(w)'
           /\ worker'[w] = [Resting EXCEPT !.at = "lock", !.mode = "wait"] /\ w # Loop
                 => FormOf(w)'
           /\ worker'[w] = [Resting EXCEPT !.at = "drain", !.mode = "drain"] /\ w # Loop
              /\ w \notin Clients => FormOf(w)'
  <1>1. /\ "idle" \notin Working /\ "poll" \notin Working /\ "lock" \notin Working
        /\ "drain" \notin Working
    BY DEF Working
  <1>2. /\ \A x, y : StepFits("idle", x, y) /\ StepFits("poll", x, y)
        /\ \A x, y : StepFits("lock", x, y) /\ StepFits("drain", x, y)
    BY DEF StepFits
  <1>3. worker'[w] = Resting => FormOf(w)'
    BY <1>1, <1>2, RestingWorker DEF FormOf
  <1>4. worker'[w] = [Resting EXCEPT !.at = "poll"] /\ w = Loop /\ w \notin Clients => FormOf(w)'
    BY <1>1, <1>2, Turned DEF FormOf
  <1>5. worker'[w] = [Resting EXCEPT !.at = "lock", !.mode = "wait"] /\ w # Loop => FormOf(w)'
    BY <1>1, <1>2, Turned DEF FormOf
  <1>6. worker'[w] = [Resting EXCEPT !.at = "drain", !.mode = "drain"] /\ w # Loop
        /\ w \notin Clients => FormOf(w)'
    BY <1>1, <1>2, Turned DEF FormOf
  <1> QED BY <1>3, <1>4, <1>5, <1>6

\* The loop, the hosts and the clients are different goroutines.
LEMMA WorkersAre ==
    /\ Loop \in Workers /\ Loop \notin Clients /\ Loop \notin Hosts /\ Hosts \cap Clients = {}
    /\ Hosts \subseteq Workers /\ Clients \subseteq Workers
    /\ \A w \in Workers : w # Loop /\ w \notin Clients => w \in Hosts
  BY ReceiveConstants DEF Workers

\* In the beginning nothing is acknowledged.
LEMMA ReceiveStart == ReceiveInit => ReceiveInv
  <1> SUFFICES ASSUME ReceiveInit PROVE ReceiveInv
    OBVIOUS
  <1>1. \A w \in Workers : worker[w] = Resting
    BY DEF ReceiveInit
  <1>2. ReceiveTypes
    <2>1. worker \in [Workers -> WorkerType]
      BY RestingWorker DEF ReceiveInit
    <2>2. store \in [Messages -> [row : Text, alias : Text]]
      BY DEF ReceiveInit, Text
    <2>3. fate \in [Lines -> Fates]
      BY DEF ReceiveInit, Fates
    <2>4. /\ server = Lines /\ handled = {} /\ muddled = {} /\ paired = TRUE
          /\ wal = <<>> /\ recovery = <<>>
      BY DEF ReceiveInit
    <2> QED BY <2>1, <2>2, <2>3, <2>4, LinesOf DEF ReceiveTypes, StoreTypes
  <1>3. \A w \in Workers : FormOf(w) /\ ~Replaying(w) /\ worker[w].at = "idle"
    <2>1. "idle" \notin Working
      BY DEF Working
    <2> QED BY <1>1, <2>1, RestingWorker DEF FormOf, Replaying, StepFits
  <1>4. "idle" \notin Working
    BY DEF Working
  <1> QED BY <1>2, <1>3, <1>4 DEF ReceiveInv, FormOK, AccountOK, AckedOK, TookOK, ReplayOK,
                                  ReceiveInit

\* The loop begins to poll while its host begins to drain.
LEMMA StartStaysReceive ==
    ASSUME ReceiveInv, NEW h \in Hosts, StartLoop(h)
    PROVE  ReceiveInv'
  <1>1. worker \in [Workers -> WorkerType] /\ ReceiveTypes /\ FormOK /\ AccountOK /\ AckedOK
        /\ TookOK /\ ReplayOK
    BY DEF ReceiveInv, ReceiveTypes
  <1>2. /\ paired /\ worker[Loop].at = "idle"
        /\ UNCHANGED <<server, wal, recovery, store, paired, handled, fate, muddled>>
    BY DEF StartLoop
  <1>3. PICK a \in WorkerType : a = [Resting EXCEPT !.at = "poll"]
    BY Turned
  <1>4. PICK b \in WorkerType : b = [Resting EXCEPT !.at = "drain", !.mode = "drain"]
    BY Turned
  <1>5. worker' = [worker EXCEPT ![Loop] = a, ![h] = b]
    BY <1>3, <1>4 DEF StartLoop
  <1>6. h \in Workers /\ h # Loop /\ h \notin Clients
    BY WorkersAre
  <1>7. /\ worker'[Loop] = a /\ worker'[h] = b /\ worker' \in [Workers -> WorkerType]
        /\ \A v \in Workers : v # Loop /\ v # h => worker'[v] = worker[v]
    BY <1>1, <1>5, <1>6, WorkersAre
  <1>8. a.at = "poll" /\ a.mode = "live" /\ b.at = "drain" /\ b.mode = "drain"
    BY <1>3, <1>4, Turned
  <1>9. \A v \in Workers : FormOf(v)'
    BY <1>1, <1>3, <1>4, <1>6, <1>7, Untouched, FreeForms, WorkersAre DEF FormOK
  <1>10. ~Replaying(Loop)' /\ ~Replaying(h)'
    BY <1>7, <1>8 DEF Replaying
  <1>11. \A v \in Workers : v # Loop /\ v # h =>
            (Replaying(v)' <=> Replaying(v)) /\ InHand(v)' = InHand(v)
    BY <1>7, Untouched
  <1>12. AccountOK'
    BY <1>1, <1>2, <1>10, <1>11 DEF AccountOK
  <1>13. AckedOK'
    BY <1>1, <1>2 DEF AckedOK, Safe
  <1>14. TookOK'
    <2>1. "poll" \notin Working \cup {"unlink"} /\ "drain" \notin Working \cup {"unlink"}
      BY DEF Working
    <2> QED BY <1>1, <1>2, <1>7, <1>8, <1>11, <2>1 DEF TookOK
  <1>15. ReplayOK'
    BY <1>1, <1>2, <1>7, <1>10, <1>11 DEF ReplayOK
  <1>16. ReceiveTypes'
    BY <1>1, <1>2, <1>7 DEF ReceiveTypes, StoreTypes
  <1> QED BY <1>9, <1>12, <1>13, <1>14, <1>15, <1>16 DEF ReceiveInv, FormOK

\* A batch printed is in the loop's hands before it is logged; a batch whose poll
\* failed is nowhere, and known to be.
LEMMA PollKeeps ==
    ASSUME ReceiveInv, NEW batch \in Batches, Poll(batch) \/ DiscardBatch(batch)
    PROVE  ReceiveInv'
  <1>1. worker \in [Workers -> WorkerType] /\ ReceiveTypes /\ FormOK /\ AccountOK /\ AckedOK
        /\ TookOK /\ ReplayOK
    BY DEF ReceiveInv, ReceiveTypes
  <1>2. batch \in Seq(Lines) /\ batch # <<>>
    BY ReceiveConstants DEF Batches, SeqOf
  <1>3. ToSet(batch) \subseteq Lines
    BY <1>2, LinesOf
  <1>4. worker[Loop].at = "poll" /\ paired
    <2>1. worker[Loop].at = "poll"
      BY DEF Poll, DiscardBatch
    <2> QED BY <1>1, <2>1, WorkersAre DEF AccountOK
  <1>5. CASE Poll(batch)
    <2>1. PICK me \in WorkerType : me = worker[Loop]
      BY <1>1, WorkersAre
    <2>2. me = [at |-> me.at, mode |-> me.mode, todo |-> me.todo, took |-> me.took,
                kept |-> me.kept, text |-> me.text, slot |-> me.slot]
      BY DEF WorkerType
    <2>3. PICK q : q = [me EXCEPT !.at = "log", !.todo = batch, !.took = ToSet(batch)]
      OBVIOUS
    <2>4. q = [at |-> "log", mode |-> me.mode, todo |-> batch, took |-> ToSet(batch),
               kept |-> me.kept, text |-> me.text, slot |-> me.slot]
      BY <2>2, <2>3
    <2>5. q \in WorkerType
      BY <1>2, <1>3, <2>4 DEF WorkerType, WorkerAt
    <2>6. worker' = [worker EXCEPT ![Loop] = q]
      BY <1>1, <1>5, <2>1, <2>3, WorkersAre DEF Poll
    <2>7. worker'[Loop] = q /\ (\A v \in Workers : v # Loop => worker'[v] = worker[v])
          /\ worker' \in [Workers -> WorkerType]
      BY <1>1, <2>5, <2>6, WorkersAre
    <2>8. q.at = "log" /\ q.mode = "live" /\ q.todo = batch /\ q.took = ToSet(batch)
      <3>1. me.mode = "live"
        BY <1>1, <2>1, WorkersAre DEF FormOK, FormOf
      <3> QED BY <2>4, <3>1
    <2>9. server' = server \ ToSet(batch)
          /\ UNCHANGED <<wal, recovery, store, paired, handled, fate, muddled>>
      BY <1>5 DEF Poll
    <2>10. "log" \notin Working
      BY DEF Working
    <2>11. FormOf(Loop)'
      BY <1>2, <2>7, <2>8, <2>10, WorkersAre DEF FormOf, StepFits
    <2>12. FormOK'
      BY <1>1, <2>7, <2>11, Untouched DEF FormOK
    <2>13. ~Replaying(Loop)' /\ InHand(Loop)' = ToSet(batch)
           /\ \A v \in Workers : v # Loop =>
                 (Replaying(v)' <=> Replaying(v)) /\ InHand(v)' = InHand(v)
      BY <2>7, <2>8, Untouched DEF Replaying, InHand
    <2>14. AccountOK'
      BY <1>1, <1>4, <2>9, <2>13 DEF AccountOK
    <2>15. AckedOK'
      <3>1. \A l : Safe(l)' <=> Safe(l)
        BY <2>9 DEF Safe
      <3> QED BY <1>1, <1>4, <2>7, <2>8, <2>9, <2>13, <3>1 DEF AckedOK
    <2>16. TookOK'
      BY <1>1, <2>7, <2>8, <2>9, <2>10, <2>13 DEF TookOK
    <2>17. ReplayOK'
      BY <1>1, <2>7, <2>9, <2>13 DEF ReplayOK
    <2>18. ReceiveTypes'
      BY <1>1, <2>7, <2>9 DEF ReceiveTypes, StoreTypes
    <2> QED BY <2>12, <2>14, <2>15, <2>16, <2>17, <2>18 DEF ReceiveInv
  <1>6. CASE DiscardBatch(batch)
    <2>1. /\ UNCHANGED <<wal, recovery, store, worker, paired, handled, muddled>>
          /\ server' = server \ ToSet(batch) /\ fate' = Marked(ToSet(batch), "discarded")
      BY <1>6 DEF DiscardBatch
    <2>2. /\ fate' \in [Lines -> Fates] /\ (\A l \in ToSet(batch) : fate'[l] # "kept")
          /\ \A l \in Lines : fate[l] # "kept" => fate'[l] # "kept"
      BY <1>1, <1>3, <2>1 DEF ReceiveTypes, Marked, Fates
    <2>3. /\ \A v : InHand(v)' = InHand(v) /\ (Replaying(v)' <=> Replaying(v))
          /\ \A v : FormOf(v)' <=> FormOf(v)
      BY <2>1 DEF InHand, Replaying, FormOf
    <2>4. \A l \in Lines : Safe(l) => Safe(l)'
      BY <2>1, <2>2 DEF Safe
    <2>5. AckedOK'
      <3>1. \A l \in ToSet(batch) : Safe(l)'
        BY <2>2 DEF Safe
      <3> QED BY <1>1, <1>4, <2>1, <2>4, <3>1 DEF AckedOK
    <2>6. TookOK'
      <3>1. \A v \in Workers : worker[v].took \subseteq Lines
        BY <1>1 DEF WorkerType
      <3> QED BY <1>1, <2>1, <2>2, <2>3, <3>1 DEF TookOK
    <2>7. FormOK' /\ AccountOK' /\ ReplayOK'
      BY <1>1, <2>1, <2>3 DEF FormOK, AccountOK, ReplayOK
    <2>8. ReceiveTypes'
      BY <1>1, <2>1, <2>2 DEF ReceiveTypes, StoreTypes
    <2> QED BY <2>5, <2>6, <2>7, <2>8 DEF ReceiveInv
  <1> QED BY <1>5, <1>6

\* The batch is in the log, or known not to be.
LEMMA LogKeeps ==
    ASSUME ReceiveInv, LogBatch
    PROVE  ReceiveInv'
  <1>1. worker \in [Workers -> WorkerType] /\ ReceiveTypes /\ FormOK /\ AccountOK /\ AckedOK
        /\ TookOK /\ ReplayOK
    BY DEF ReceiveInv, ReceiveTypes
  <1>2. PICK me \in WorkerType : me = worker[Loop]
    BY <1>1, WorkersAre
  <1>3. me.todo \in Seq(Lines) /\ me.took \subseteq Lines
    BY DEF WorkerType
  <1>4. me.at = "log" /\ me.todo # <<>> /\ me.took = ToSet(me.todo) /\ me.mode = "live" /\ paired
    <2>1. me.at = "log"
      BY <1>2 DEF LogBatch
    <2> QED BY <1>1, <1>2, <2>1, WorkersAre DEF FormOK, FormOf, AccountOK
  <1>5. me = [at |-> me.at, mode |-> me.mode, todo |-> me.todo, took |-> me.took,
              kept |-> me.kept, text |-> me.text, slot |-> me.slot]
    BY DEF WorkerType
  <1>6. PICK q : q = [me EXCEPT !.at = "line"]
    OBVIOUS
  <1>7. q = [at |-> "line", mode |-> me.mode, todo |-> me.todo, took |-> me.took,
             kept |-> me.kept, text |-> me.text, slot |-> me.slot]
    BY <1>5, <1>6
  <1>8. q \in WorkerType
    BY <1>7 DEF WorkerType, WorkerAt, Working
  <1>9. worker' = [worker EXCEPT ![Loop] = q]
    BY <1>2, <1>6 DEF LogBatch, Goes
  <1>10. worker'[Loop] = q /\ (\A v \in Workers : v # Loop => worker'[v] = worker[v])
         /\ worker' \in [Workers -> WorkerType]
    BY <1>1, <1>8, <1>9, WorkersAre
  <1>11. q.at = "line" /\ q.mode = "live" /\ q.todo = me.todo /\ q.took = ToSet(me.todo)
    BY <1>4, <1>7
  <1>12. UNCHANGED <<server, recovery, store, paired, handled, muddled>>
    BY DEF LogBatch
  <1>13. /\ wal' \in Seq(Lines) /\ ToSet(wal) \subseteq ToSet(wal')
         /\ fate' \in [Lines -> Fates] /\ \A l \in Lines : fate[l] # "kept" => fate'[l] # "kept"
         /\ \A l \in ToSet(me.todo) : l \in ToSet(wal') \/ fate'[l] # "kept"
    <2>1. wal \in Seq(Lines) /\ ToSet(me.todo) \subseteq Lines
      BY <1>1, <1>3, LinesOf DEF ReceiveTypes
    <2>2. CASE wal' = wal \o me.todo /\ fate' = fate
      BY <1>1, <1>3, <2>1, <2>2, LogAndBatch DEF ReceiveTypes
    <2>3. CASE fate' = Marked(InHand(Loop), "unlogged") /\ wal' = wal
      <3>1. InHand(Loop) = ToSet(me.todo)
        BY <1>2 DEF InHand
      <3> QED BY <1>1, <2>1, <2>3, <3>1 DEF ReceiveTypes, Marked, Fates
    <2> QED BY <1>2, <2>2, <2>3 DEF LogBatch
  <1>14. FormOf(Loop)'
    BY <1>4, <1>10, <1>11, WorkersAre DEF FormOf, StepFits, Working
  <1>15. FormOK'
    BY <1>1, <1>10, <1>14, Untouched DEF FormOK
  <1>16. ~Replaying(Loop)' /\ InHand(Loop)' = ToSet(me.todo)
         /\ \A v \in Workers : v # Loop =>
               (Replaying(v)' <=> Replaying(v)) /\ InHand(v)' = InHand(v)
    BY <1>10, <1>11, Untouched DEF Replaying, InHand
  <1>17. AccountOK'
    BY <1>1, <1>4, <1>12, <1>16 DEF AccountOK
  <1>18. AckedOK'
    <2>1. \A l \in Lines : Safe(l) => Safe(l)'
      BY <1>12, <1>13, SafeStays
    <2>2. \A l \in ToSet(me.todo) : Safe(l)'
      BY <1>13 DEF Safe
    <2> QED BY <1>1, <1>2, <1>12, <2>1, <2>2 DEF AckedOK, InHand
  <1>19. TookOK'
    <2>1. \A v \in Workers : worker[v].took \subseteq Lines
      BY <1>1 DEF WorkerType
    <2> QED BY <1>1, <1>10, <1>11, <1>12, <1>13, <1>16, <2>1 DEF TookOK
  <1>20. ReplayOK'
    BY <1>1, <1>10, <1>12, <1>16 DEF ReplayOK
  <1>21. ReceiveTypes'
    BY <1>1, <1>10, <1>12, <1>13 DEF ReceiveTypes, StoreTypes
  <1> QED BY <1>15, <1>17, <1>18, <1>19, <1>20, <1>21 DEF ReceiveInv

\* The log is removed once all that was taken from it is handled or filed, and
\* what was logged meanwhile is known to be lost.
LEMMA UnlinkKeeps ==
    ASSUME ReceiveInv, NEW w \in Workers, Unlink(w)
    PROVE  ReceiveInv'
  <1>1. worker \in [Workers -> WorkerType] /\ ReceiveTypes /\ FormOK /\ AccountOK /\ AckedOK
        /\ TookOK /\ ReplayOK
    BY DEF ReceiveInv, ReceiveTypes
  <1>2. /\ worker[w].at = "unlink" /\ worker[w].todo = <<>> /\ worker[w].mode \in {"live", "drain"}
        /\ w \notin Clients /\ w \in {Loop} \cup Hosts /\ paired /\ InHand(w) = {}
    <2>1. worker[w].at = "unlink" /\ FormOf(w)
      BY <1>1 DEF Unlink, FormOK
    <2>2. w \notin Clients /\ w \in {Loop} \cup Hosts
      BY <2>1, WorkersAre DEF FormOf
    <2> QED BY <1>1, <2>1, <2>2, LinesOf DEF FormOf, AccountOK, InHand
  <1>3. PICK q \in WorkerType : q = IF w = Loop THEN [Resting EXCEPT !.at = "poll"]
                                    ELSE [Resting EXCEPT !.at = "lock", !.mode = "wait"]
    BY Turned
  <1>4. worker' = [worker EXCEPT ![w] = q]
    BY <1>3 DEF Unlink
  <1>5. worker'[w] = q /\ (\A v \in Workers : v # w => worker'[v] = worker[v])
        /\ worker' \in [Workers -> WorkerType]
    BY <1>1, <1>4
  <1>6. q.at \in {"poll", "lock"} /\ q.mode # "replay" /\ q.at \notin Working \cup {"unlink"}
    BY <1>3, Turned DEF Working
  <1>7. FormOf(w)'
    BY <1>2, <1>3, <1>5, FreeForms
  <1>8. FormOK'
    BY <1>1, <1>5, <1>7, Untouched DEF FormOK
  <1>9. /\ UNCHANGED <<server, recovery, store, paired, handled, muddled>> /\ wal' = <<>>
        /\ fate' = Marked({l \in ToSet(wal) \ worker[w].took :
                              l \notin handled \cup ToSet(recovery)}, "unlinked")
    BY DEF Unlink
  <1>10. /\ fate' \in [Lines -> Fates] /\ (\A l \in Lines : fate[l] # "kept" => fate'[l] # "kept")
         /\ \A l \in Lines \cap ToSet(wal) :
               l \in worker[w].took \cup handled \cup ToSet(recovery) \/ fate'[l] # "kept"
    BY <1>1, <1>9 DEF ReceiveTypes, Marked, Fates
  <1>11. ~Replaying(w)' /\ \A v \in Workers : v # w =>
               (Replaying(v)' <=> Replaying(v)) /\ InHand(v)' = InHand(v)
    BY <1>5, <1>6, Untouched DEF Replaying
  <1>12. AccountOK'
    BY <1>1, <1>2, <1>9, <1>11 DEF AccountOK
  <1>13. AckedOK'
    <2>1. \A l \in worker[w].took : l \in handled \cup ToSet(recovery) \/ fate[l] # "kept"
      BY <1>1, <1>2 DEF TookOK
    <2>2. \A l \in Lines : Safe(l) => Safe(l)'
      BY <1>9, <1>10, <2>1 DEF Safe
    <2>3. worker[Loop].at = "log" => worker'[Loop] = worker[Loop] /\ InHand(Loop)' = InHand(Loop)
      BY <1>2, <1>5, <1>11, WorkersAre
    <2> QED BY <1>1, <1>9, <2>2, <2>3 DEF AckedOK
  <1>14. TookOK'
    <2>1. \A v \in Workers : worker[v].took \subseteq Lines
      BY <1>1 DEF WorkerType
    <2> QED BY <1>1, <1>5, <1>6, <1>9, <1>10, <1>11, <2>1 DEF TookOK
  <1>15. ReplayOK'
    BY <1>1, <1>5, <1>9, <1>11 DEF ReplayOK
  <1>16. ReceiveTypes'
    BY <1>1, <1>5, <1>9, <1>10, LinesOf DEF ReceiveTypes, StoreTypes
  <1> QED BY <1>8, <1>12, <1>13, <1>14, <1>15, <1>16 DEF ReceiveInv

\* The host takes the whole log into its hand.
LEMMA ReadLogKeeps ==
    ASSUME ReceiveInv, NEW h \in Workers, ReadLog(h)
    PROVE  ReceiveInv'
  <1>1. worker \in [Workers -> WorkerType] /\ FormOf(h) /\ AccountOK /\ wal \in Seq(Lines)
    BY DEF ReceiveInv, ReceiveTypes, FormOK
  <1>2. UNCHANGED <<server, wal, recovery, store, paired, budget, handled, fate, muddled>>
    BY DEF ReadLog
  <1>3. PICK me \in WorkerType : me = worker[h]
    BY <1>1
  <1>4. me.at = "drain" /\ me.mode = "drain" /\ h # Loop /\ h \notin Clients
    BY <1>1, <1>3 DEF ReadLog, FormOf
  <1>5. paired
    BY <1>1, <1>3, <1>4, WorkersAre DEF AccountOK
  <1>6. CASE wal = <<>>
    <2>1. PICK q \in WorkerType : q = [Resting EXCEPT !.at = "lock", !.mode = "wait"]
      BY Turned
    <2>2. worker' = [worker EXCEPT ![h] = q] /\ q.at = "lock" /\ q.mode = "wait"
      BY <1>6, <2>1, Turned DEF ReadLog
    <2>3. worker'[h] = q
      BY <1>1, <2>2
    <2>4. FormOf(h)'
      BY <1>4, <2>1, <2>3, FreeForms
    <2> QED BY <1>2, <1>3, <1>4, <1>5, <2>2, <2>4, TurnsTo
  <1>7. CASE wal # <<>>
    <2>1. me = [at |-> me.at, mode |-> me.mode, todo |-> me.todo, took |-> me.took,
                kept |-> me.kept, text |-> me.text, slot |-> me.slot]
      BY DEF WorkerType
    <2>2. PICK q : q = [me EXCEPT !.at = "line", !.todo = wal, !.took = ToSet(wal)]
      OBVIOUS
    <2>3. q = [at |-> "line", mode |-> "drain", todo |-> wal, took |-> ToSet(wal),
               kept |-> me.kept, text |-> me.text, slot |-> me.slot]
      BY <1>4, <2>1, <2>2
    <2>4. q \in WorkerType
      <3>1. ToSet(wal) \subseteq Lines /\ wal \in Seq(Lines)
        BY <1>1, LinesOf
      <3> QED BY <2>3, <3>1 DEF WorkerType, WorkerAt, Working
    <2>5. worker' = [worker EXCEPT ![h] = q]
      BY <1>1, <1>3, <1>7, <2>2 DEF ReadLog
    <2>6. worker'[h] = q
      BY <1>1, <2>5
    <2>7. q.at = "line" /\ q.mode = "drain" /\ q.todo = wal /\ q.took = ToSet(wal)
      BY <2>3
    <2>8. FormOf(h)'
      BY <1>4, <1>7, <2>6, <2>7 DEF FormOf, StepFits, Working
    <2> QED BY <1>2, <1>3, <1>4, <1>5, <2>4, <2>5, <2>7, <2>8, TurnsTo
  <1> QED BY <1>6, <1>7

\* A caller waits for the queue, a goroutine at the queue takes all of it, and the
\* loop stops where it holds no line that is not logged.
LEMMA QueueKeeps ==
    ASSUME ReceiveInv, NEW w \in Workers,
           \/ AskReplay(w) /\ w \in Clients
           \/ ReadQueue(w)
           \/ StopLoop /\ w = Loop
    PROVE  ReceiveInv'
  <1>1. worker \in [Workers -> WorkerType] /\ FormOf(w) /\ AccountOK /\ recovery \in Seq(Lines)
    BY DEF ReceiveInv, ReceiveTypes, FormOK
  <1>2. UNCHANGED <<server, wal, recovery, store, paired, handled, fate, muddled>>
    BY DEF AskReplay, ReadQueue, StopLoop
  <1>3. CASE AskReplay(w) /\ w \in Clients
    <2>1. PICK q \in WorkerType : q = [Resting EXCEPT !.at = "lock", !.mode = "wait"]
      BY Turned
    <2>2. worker' = [worker EXCEPT ![w] = q] /\ q.at = "lock" /\ q.mode = "wait"
          /\ worker[w].at = "idle" /\ paired
      BY <1>3, <2>1, Turned DEF AskReplay
    <2>3. worker'[w] = q /\ w # Loop
      BY <1>1, <1>3, <2>2, WorkersAre
    <2>4. FormOf(w)'
      BY <2>1, <2>3, FreeForms
    <2>5. "lock" \notin Working
      BY DEF Working
    <2> QED BY <1>2, <2>2, <2>4, <2>5, TurnsTo
  <1>4. CASE StopLoop /\ w = Loop
    <2>1. PICK q \in WorkerType : q = Resting
      BY RestingWorker
    <2>2. worker' = [worker EXCEPT ![w] = q] /\ q.at = "idle" /\ q.mode = "live"
          /\ worker[w].at # "log"
      BY <1>4, <2>1, RestingWorker DEF StopLoop
    <2>3. worker'[w] = q
      BY <1>1, <2>2
    <2>4. FormOf(w)'
      BY <2>1, <2>3, FreeForms
    <2>5. "idle" \notin Working
      BY DEF Working
    <2> QED BY <1>2, <2>2, <2>4, <2>5, TurnsTo
  <1>5. CASE ReadQueue(w)
    <2>1. worker[w].at = "lock" /\ LockFree /\ worker[w].mode = "wait" /\ w # Loop
      BY <1>1, <1>5 DEF ReadQueue, FormOf
    <2>2. CASE recovery = <<>>
      <3>1. PICK q \in WorkerType : q = Resting
        BY RestingWorker
      <3>2. worker' = [worker EXCEPT ![w] = q] /\ q.at = "idle" /\ q.mode = "live"
        BY <1>5, <2>2, <3>1, RestingWorker DEF ReadQueue
      <3>3. worker'[w] = q
        BY <1>1, <3>2
      <3>4. FormOf(w)'
        BY <3>1, <3>3, FreeForms
      <3>5. "idle" \notin Working
        BY DEF Working
      <3> QED BY <1>2, <2>1, <3>2, <3>4, <3>5, TurnsTo
    <2>3. CASE recovery # <<>>
      <3>1. PICK r : r = Resting
        OBVIOUS
      <3>2. r = [at |-> "idle", mode |-> "live", todo |-> <<>>, took |-> {},
                 kept |-> <<>>, text |-> NoText, slot |-> NoText]
        BY <3>1 DEF Resting
      <3>3. PICK q : q = [r EXCEPT !.at = "line", !.mode = "replay", !.todo = recovery]
        OBVIOUS
      <3>4. q = [at |-> "line", mode |-> "replay", todo |-> recovery, took |-> {},
                 kept |-> <<>>, text |-> NoText, slot |-> NoText]
        BY <3>2, <3>3
      <3>5. q \in WorkerType
        BY <1>1, <3>4, LinesOf DEF WorkerType, WorkerAt, Working, Text
      <3>6. worker' = [worker EXCEPT ![w] = q]
        BY <1>5, <2>3, <3>1, <3>3 DEF ReadQueue
      <3>7. worker'[w] = q
        BY <1>1, <3>6
      <3>8. q.at = "line" /\ q.mode = "replay" /\ q.todo = recovery
        BY <3>4
      <3>9. FormOf(w)'
        BY <2>1, <2>3, <3>7, <3>8 DEF FormOf, StepFits, Working
      <3>10. paired
        BY <1>1, <2>3 DEF AccountOK
      <3> QED BY <1>2, <2>1, <3>5, <3>6, <3>8, <3>9, <3>10, TurnsTo
    <2> QED BY <2>2, <2>3
  <1> QED BY <1>3, <1>4, <1>5

\* A replay that rewrites the queue leaves out of it only what is handled.
LEMMA RewriteLeaves ==
    ASSUME ReceiveInv, NEW w \in Workers, RewriteQueue(w)
    PROVE  ToSet(recovery) \subseteq ToSet(recovery') \cup handled /\ Replaying(w)
           /\ worker[w].kept \in Seq(Lines)
  <1>1. worker \in [Workers -> WorkerType] /\ FormOf(w) /\ AccountOK /\ ReplayOK
    BY DEF ReceiveInv, ReceiveTypes, FormOK
  <1>2. worker[w].mode = "replay" /\ worker[w].at = "rewrite" /\ worker[w].todo = <<>>
    BY <1>1 DEF RewriteQueue, FormOf
  <1>3. Replaying(w) /\ InHand(w) = {}
    BY <1>2, LinesOf DEF Replaying, InHand
  <1>4. worker[w].kept \in Seq(Lines)
    BY <1>1 DEF WorkerType
  <1>5. CASE paired
    BY <1>1, <1>3, <1>4, <1>5 DEF RewriteQueue, ReplayOK
  <1>6. CASE ~paired
    BY <1>1, <1>3, <1>4, <1>6, LinesOf DEF AccountOK
  <1> QED BY <1>5, <1>6

\* The queue rewritten.
LEMMA RewriteKeeps ==
    ASSUME ReceiveInv, NEW w \in Workers, RewriteQueue(w)
    PROVE  ReceiveInv'
  <1>1. worker \in [Workers -> WorkerType] /\ ReceiveTypes /\ FormOK /\ AccountOK /\ AckedOK
        /\ TookOK /\ ReplayOK
    BY DEF ReceiveInv, ReceiveTypes
  <1>2. /\ UNCHANGED <<server, wal, store, paired, handled, fate, muddled>>
        /\ worker' = [worker EXCEPT ![w] = Resting] /\ worker[w].at = "rewrite"
        /\ recovery' = (IF paired THEN worker[w].kept ELSE <<>>) \/ recovery' = recovery
    BY DEF RewriteQueue
  <1>3. ToSet(recovery) \subseteq ToSet(recovery') \cup handled /\ Replaying(w)
        /\ worker[w].kept \in Seq(Lines)
    BY RewriteLeaves
  <1>4. worker'[w] = Resting /\ (\A v \in Workers : v # w => worker'[v] = worker[v])
        /\ worker' \in [Workers -> WorkerType]
    BY <1>1, <1>2, RestingWorker
  <1>5. recovery' \in Seq(Lines)
    BY <1>1, <1>2, <1>3, LinesOf DEF ReceiveTypes
  <1>6. FormOK'
    BY <1>1, <1>4, FreeForms, Untouched DEF FormOK
  <1>7. \A v \in Workers : ~Replaying(v)'
    <2>1. ~Replaying(w)'
      BY <1>4, RestingWorker DEF Replaying
    <2>2. \A v \in Workers : v # w => ~Replaying(v)
      BY <1>1, <1>3 DEF AccountOK
    <2> QED BY <1>4, <2>1, <2>2, Untouched
  <1>8. AccountOK'
    <2>1. \A v \in Workers : worker[v].at = "idle" => worker'[v].at = "idle"
      BY <1>4, RestingWorker
    <2>2. ~paired' => wal' = <<>> /\ recovery' = <<>>
      BY <1>1, <1>2 DEF AccountOK
    <2> QED BY <1>1, <1>2, <1>7, <2>1, <2>2, WorkersAre DEF AccountOK
  <1>9. \A l \in Lines : Safe(l) => Safe(l)'
    BY <1>2, <1>3 DEF Safe
  <1>10. AckedOK'
    <2>1. worker[Loop].at = "log" => worker'[Loop] = worker[Loop]
      BY <1>2, <1>4, WorkersAre
    <2>2. worker[Loop].at = "log" => InHand(Loop)' = InHand(Loop)
      BY <2>1, Untouched
    <2> QED BY <1>1, <1>2, <1>9, <2>1, <2>2 DEF AckedOK
  <1>11. TookOK'
    <2>1. "idle" \notin Working \cup {"unlink"}
      BY DEF Working
    <2>2. \A v \in Workers : v # w => InHand(v)' = InHand(v)
      BY <1>4, Untouched
    <2> QED BY <1>1, <1>2, <1>3, <1>4, <2>1, <2>2, RestingWorker DEF TookOK
  <1>12. ReplayOK'
    BY <1>7 DEF ReplayOK
  <1>13. ReceiveTypes'
    BY <1>1, <1>2, <1>4, <1>5 DEF ReceiveTypes, StoreTypes
  <1> QED BY <1>6, <1>8, <1>10, <1>11, <1>12, <1>13 DEF ReceiveInv

\* The process dies: what was being logged is in the log, or known not to be.
LEMMA CrashKeeps ==
    ASSUME ReceiveInv, Crash
    PROVE  ReceiveInv'
  <1>1. worker \in [Workers -> WorkerType] /\ ReceiveTypes /\ FormOK /\ AccountOK /\ AckedOK
        /\ TookOK /\ ReplayOK
    BY DEF ReceiveInv, ReceiveTypes
  <1>2. UNCHANGED <<server, recovery, store, paired, handled, muddled>>
        /\ worker' = [w \in Workers |-> Resting]
    BY DEF Crash
  <1>3. worker[Loop].todo \in Seq(Lines) /\ wal \in Seq(Lines)
    BY <1>1, WorkersAre DEF WorkerType, ReceiveTypes
  <1>4. Len(worker[Loop].todo) \in Nat
    BY <1>3, LenProperties
  <1>5. PICK n \in 0 .. (IF worker[Loop].at = "log" THEN Len(worker[Loop].todo) ELSE 0) :
         /\ wal' = wal \o SubSeq(worker[Loop].todo, 1, n)
         /\ fate' = Marked(IF worker[Loop].at = "log"
                           THEN InHand(Loop) \ ToSet(SubSeq(worker[Loop].todo, 1, n))
                           ELSE {}, "unlogged")
    BY DEF Crash
  <1>6. n \in 0 .. Len(worker[Loop].todo) /\ (worker[Loop].at # "log" => n = 0)
    BY <1>4
  <1>7. PICK part \in Seq(Lines) : part = SubSeq(worker[Loop].todo, 1, n)
    BY <1>3, <1>6, FirstLines
  <1>8. worker[Loop].at # "log" => part = <<>>
    <2>1. Len(SubSeq(worker[Loop].todo, 1, 0)) = 0
      BY <1>3, SubSeqProperties
    <2> QED BY <1>6, <1>7, <2>1, EmptySeq
  <1>9. wal' \in Seq(Lines) /\ ToSet(wal') = ToSet(wal) \cup ToSet(part)
    BY <1>3, <1>5, <1>7, LogAndBatch
  <1>10. /\ fate' \in [Lines -> Fates] /\ (\A l \in Lines : fate[l] # "kept" => fate'[l] # "kept")
         /\ worker[Loop].at = "log" => \A l \in Lines :
                l \in InHand(Loop) => l \in ToSet(wal') \/ fate'[l] # "kept"
    BY <1>1, <1>5, <1>7, <1>9 DEF ReceiveTypes, Marked, Fates
  <1>11. \A v \in Workers : worker'[v] = Resting
    BY <1>2
  <1>12. \A v \in Workers : FormOf(v)' /\ ~Replaying(v)'
    BY <1>11, FreeForms, RestingWorker DEF Replaying
  <1>13. AccountOK'
    <2>1. \A v \in {Loop} \cup Hosts : worker'[v].at = "idle"
      BY <1>11, RestingWorker, WorkersAre
    <2>2. ASSUME ~paired PROVE wal' = <<>> /\ recovery' = <<>>
      <3>1. wal = <<>> /\ recovery = <<>> /\ part = <<>>
        BY <1>1, <1>8, <2>2 DEF AccountOK
      <3>2. <<>> \o <<>> = <<>>
        BY LinesOf, ConcatEmptySeq
      <3> QED BY <1>2, <1>5, <1>7, <3>1, <3>2
    <2> QED BY <1>2, <1>12, <2>1, <2>2 DEF AccountOK
  <1>14. AckedOK'
    <2>1. \A l \in Lines : Safe(l) => Safe(l)'
      BY <1>2, <1>9, <1>10, SafeStays
    <2>2. \A l \in Lines : worker[Loop].at = "log" /\ l \in InHand(Loop) => Safe(l)'
      BY <1>10 DEF Safe
    <2> QED BY <1>1, <1>2, <2>1, <2>2 DEF AckedOK
  <1>15. TookOK'
    <2>1. "idle" \notin Working \cup {"unlink"}
      BY DEF Working
    <2> QED BY <1>11, <2>1, RestingWorker DEF TookOK
  <1>16. ReplayOK'
    BY <1>12 DEF ReplayOK
  <1>17. ReceiveTypes'
    <2>1. worker' \in [Workers -> WorkerType]
      BY <1>2, RestingWorker
    <2> QED BY <1>1, <1>2, <1>9, <1>10, <2>1 DEF ReceiveTypes, StoreTypes
  <1> QED BY <1>12, <1>13, <1>14, <1>15, <1>16, <1>17 DEF ReceiveInv, FormOK

\* The account is removed with its two files, and what was in them is known.
LEMMA RemoveKeeps ==
    ASSUME ReceiveInv, RemoveAccount
    PROVE  ReceiveInv'
  <1>1. worker \in [Workers -> WorkerType] /\ ReceiveTypes /\ FormOK /\ AccountOK /\ AckedOK
        /\ TookOK /\ ReplayOK
    BY DEF ReceiveInv, ReceiveTypes
  <1>2. /\ UNCHANGED <<server, store, worker, handled, muddled>> /\ paired' = FALSE
        /\ wal' = <<>> /\ recovery' = <<>>
        /\ fate' = Marked((ToSet(wal) \cup ToSet(recovery)) \ handled, "unpaired")
        /\ \A w \in {Loop} \cup Hosts : worker[w].at = "idle"
    BY DEF RemoveAccount
  <1>3. /\ fate' \in [Lines -> Fates] /\ (\A l \in Lines : fate[l] # "kept" => fate'[l] # "kept")
        /\ \A l \in Lines : l \in ToSet(wal) \cup ToSet(recovery)
                               => l \in handled \/ fate'[l] # "kept"
    BY <1>1, <1>2 DEF ReceiveTypes, Marked, Fates
  <1>4. \A v : (FormOf(v)' <=> FormOf(v)) /\ (Replaying(v)' <=> Replaying(v))
    BY <1>2 DEF FormOf, Replaying
  <1>5. FormOK' /\ AccountOK' /\ ReplayOK'
    BY <1>1, <1>2, <1>4 DEF FormOK, AccountOK, ReplayOK
  <1>6. AckedOK'
    <2>1. \A l \in Lines : Safe(l) => Safe(l)'
      BY <1>2, <1>3 DEF Safe
    <2> QED BY <1>1, <1>2, <2>1 DEF AckedOK
  <1>7. TookOK'
    <2>1. ASSUME NEW v \in Workers, worker[v].at \in Working \cup {"unlink"}
          PROVE  worker[v].mode \in {"wait", "replay"}
      <3>1. worker[v].at # "idle"
        BY <2>1 DEF Working
      <3> QED BY <1>1, <1>2, <3>1, WorkersAre DEF FormOK, FormOf
    <2> QED BY <1>2, <2>1 DEF TookOK
  <1>8. ReceiveTypes'
    BY <1>1, <1>2, <1>3, LinesOf DEF ReceiveTypes, StoreTypes
  <1> QED BY <1>5, <1>6, <1>7, <1>8 DEF ReceiveInv

\* No step drops a line.
LEMMA ReceiveStep == ReceiveInv /\ [ReceiveNext]_receiveVars => ReceiveInv'
  <1> SUFFICES ASSUME ReceiveInv, [ReceiveNext]_receiveVars PROVE ReceiveInv'
    OBVIOUS
  <1>1. ASSUME NEW h \in Hosts, StartLoop(h) PROVE ReceiveInv'
    BY <1>1, StartStaysReceive
  <1>2. ASSUME NEW b \in Batches, Poll(b) \/ DiscardBatch(b) PROVE ReceiveInv'
    BY <1>2, PollKeeps
  <1>3. CASE LogBatch
    BY <1>3, LogKeeps
  <1>4. ASSUME NEW w \in Workers, HostStep(w) \/ StoreFails(w) PROVE ReceiveInv'
    BY <1>4, LineStays, ReadLogKeeps, UnlinkKeeps, QueueKeeps, RewriteKeeps DEF HostStep
  <1>5. ASSUME NEW c \in Clients, AskReplay(c) PROVE ReceiveInv'
    BY <1>5, QueueKeeps, WorkersAre
  <1>6. CASE StopLoop
    BY <1>6, QueueKeeps, WorkersAre
  <1>7. CASE Crash
    BY <1>7, CrashKeeps
  <1>8. CASE RemoveAccount
    BY <1>8, RemoveKeeps
  <1>9. CASE UNCHANGED receiveVars
    <2>1. UNCHANGED <<server, wal, recovery, store, worker, paired, handled, fate, muddled>>
      BY <1>9 DEF receiveVars
    <2> QED BY <2>1 DEF ReceiveInv, ReceiveTypes, StoreTypes, FormOK, FormOf, AccountOK, AckedOK,
                        TookOK, ReplayOK, Safe, InHand, Replaying
  <1> QED BY <1>1, <1>2, <1>3, <1>4, <1>5, <1>6, <1>7, <1>8, <1>9 DEF ReceiveNext

\* What follows of a line that was acknowledged.
LEMMA ReceiveGives == ReceiveInv => NothingDropped
  <1> SUFFICES ASSUME ReceiveInv, NEW l \in Lines \ server
               PROVE  \/ l \in handled \cup ToSet(wal) \cup ToSet(recovery)
                      \/ \E w \in Workers : l \in InHand(w)
                      \/ fate[l] # "kept"
    BY DEF NothingDropped
  <1>1. Safe(l) \/ l \in InHand(Loop)
    BY DEF ReceiveInv, AckedOK
  <1> QED BY <1>1, WorkersAre DEF Safe

\* A step that takes a line out of the queue is a rewrite or the end of the account.
LEMMA QueueStep ==
    ReceiveInv /\ [ReceiveNext]_receiveVars =>
        \A l \in ToSet(recovery) \ ToSet(recovery') : l \in handled' \/ ~paired'
  <1> SUFFICES ASSUME ReceiveInv, [ReceiveNext]_receiveVars
               PROVE  ToSet(recovery) \subseteq ToSet(recovery') \cup handled' \/ ~paired'
    OBVIOUS
  <1>1. CASE recovery' = recovery
    BY <1>1
  <1>2. ASSUME NEW w \in Workers, FileLine(w)
        PROVE  ToSet(recovery) \subseteq ToSet(recovery')
    <2>1. worker[w].at \in Working
      BY <1>2 DEF FileLine, Working
    <2>2. Head(worker[w].todo) \in Lines /\ recovery \in Seq(Lines)
      BY <2>1, HandHasLine DEF ReceiveInv, ReceiveTypes
    <2> QED BY <1>2, <2>2, LineAppended DEF FileLine
  <1>3. ASSUME NEW w \in Workers, RewriteQueue(w)
        PROVE  ToSet(recovery) \subseteq ToSet(recovery') \cup handled'
    <2>1. handled' = handled
      BY <1>3 DEF RewriteQueue
    <2> QED BY <1>3, <2>1, RewriteLeaves
  <1>4. CASE RemoveAccount
    BY <1>4 DEF RemoveAccount
  <1>5. ASSUME NEW w \in Workers, HostStep(w) \/ StoreFails(w)
        PROVE  \/ recovery' = recovery
               \/ FileLine(w) \/ RewriteQueue(w)
    BY <1>5 DEF HostStep, ReadLog, SortLine, TakeMessage, MergeAlias, WriteMessage, DeleteAlias,
                TakeEdit, AmendTarget, InventAlias, Unlink, ReadQueue, StoreFails
  <1>6. \/ recovery' = recovery
        \/ RemoveAccount
        \/ \E w \in Workers : HostStep(w) \/ StoreFails(w)
    BY DEF ReceiveNext, StartLoop, Poll, DiscardBatch, LogBatch, AskReplay, StopLoop, Crash,
           receiveVars
  <1> QED BY <1>1, <1>2, <1>3, <1>4, <1>5, <1>6

\* The invariant of the receive pipeline (ReceiveNext): every acknowledged line is
\* handled, in a file, about to be logged by the loop, or known to be lost;
\* whoever will remove a file has in its hands what it took from it.
THEOREM ReceiveHolds == ReceiveSpec => []ReceiveInv
  BY ReceiveStart, ReceiveStep, PTL DEF ReceiveSpec

\* A line that signal-cli acknowledged is nowhere lost between the poll and its
\* row, and leaves the recovery queue only handled (handleReceiveOutput,
\* drainReceiveWAL, replayReceiveRecoveryQueue).
THEOREM LinesKept == ReceiveSpec => LinesAreKept
  <1>1. ReceiveInv /\ [ReceiveNext]_receiveVars
           => [\A l \in ToSet(recovery) \ ToSet(recovery') : l \in handled' \/ ~paired']_receiveVars
    BY QueueStep
  <1> QED BY <1>1, ReceiveGives, ReceiveHolds, PTL
          DEF ReceiveSpec, LinesAreKept, RecordsLeaveHandled

\* A line about a message, and its text.
LEMMA MessageOfLine ==
    ASSUME ReceiveInv, NEW w \in Workers, OnMessage(w)
    PROVE  /\ Line(w) \in Lines /\ Line(w) # NoText /\ Line(w) \in DOMAIN Of
           /\ Line(w) \in InHand(w) /\ MessageOf(w) \in Messages
           /\ worker[w].at \in Working /\ About(Line(w)) = {MessageOf(w)}
           /\ worker[w].at \in {"merge", "write", "tidy"} => Kind[Line(w)] = "message"
           /\ worker[w].at \in {"amend", "invent"} => Kind[Line(w)] = "edit"
           /\ worker[w].at = "amend" => worker[w].slot \in Slots
           /\ Merged(w) \in Text \ {NoText}
  <1>1. worker[w].at \in Working
    BY DEF OnMessage, Working
  <1>2. Line(w) \in Lines /\ Line(w) \in InHand(w)
    BY <1>1, HandHasLine DEF Line
  <1>3. StepFits(worker[w].at, Line(w), worker[w].slot)
    BY DEF ReceiveInv, FormOK, FormOf, Line
  <1>4. Kind[Line(w)] \in {"message", "edit"}
    BY <1>3 DEF StepFits, OnMessage
  <1>5. Line(w) \in DOMAIN Of /\ MessageOf(w) \in Messages
    BY <1>2, <1>4, AboutMessage DEF MessageOf
  <1>6. Line(w) # NoText /\ Line(w) \in Text
    BY <1>2, ReceiveConstants DEF Text
  <1>7. store[MessageOf(w)].alias \in Text
    BY <1>5 DEF ReceiveInv, ReceiveTypes, StoreTypes
  <1> QED BY <1>1, <1>2, <1>3, <1>5, <1>6, <1>7 DEF StepFits, About, Merged, MessageOf

\* A goroutine untouched has the same line, of which it has read the same.
LEMMA LineUntouched ==
    ASSUME NEW w, worker'[w] = worker[w]
    PROVE  /\ OnMessage(w)' <=> OnMessage(w)
           /\ Line(w)' = Line(w) /\ MessageOf(w)' = MessageOf(w)
           /\ muddled \subseteq muddled' => (TargetOf(w) => TargetOf(w)')
           /\ store'[MessageOf(w)] = store[MessageOf(w)] => (Stands(w) => Stands(w)')
  <1>1. /\ OnMessage(w)' <=> OnMessage(w)
        /\ Line(w)' = Line(w) /\ MessageOf(w)' = MessageOf(w)
    BY DEF OnMessage, Line, MessageOf
  <1>2. muddled \subseteq muddled' => (TargetOf(w) => TargetOf(w)')
    BY <1>1 DEF TargetOf
  <1>3. store'[MessageOf(w)] = store[MessageOf(w)] => Merged(w)' = Merged(w)
    BY <1>1 DEF Merged
  <1>4. store'[MessageOf(w)] = store[MessageOf(w)] => (Stands(w) => Stands(w)')
    BY <1>1, <1>3 DEF Stands
  <1> QED BY <1>1, <1>2, <1>4

\* A step in which no goroutine looks at the store or writes to it.
LEMMA ThreadUntouched ==
    ASSUME ReceiveInv, ThreadInv, store' = store, muddled \subseteq muddled',
           \A v \in Workers : OnMessage(v)' => worker'[v] = worker[v],
           handled \subseteq handled',
           \A l \in handled' \ handled : Kind[l] \notin {"message", "edit"}
    PROVE  ThreadInv'
  <1>1. \A v \in Workers : TargetOf(v)'
    <2>1. ASSUME NEW v \in Workers, ~OnMessage(v)' PROVE TargetOf(v)'
      BY <2>1 DEF TargetOf, OnMessage
    <2> QED BY <2>1, LineUntouched DEF ThreadInv
  <1>2. \A v, w \in Workers :
            OnMessage(v)' /\ OnMessage(w)' /\ MessageOf(v)' = MessageOf(w)' =>
                v = w \/ MessageOf(w)' \in muddled'
    BY LineUntouched DEF ThreadInv
  <1>3. \A w \in Workers : OnMessage(w)' /\ MessageOf(w)' \notin muddled' => Stands(w)'
    BY LineUntouched DEF ThreadInv
  <1>4. ASSUME NEW m \in Messages \ muddled' PROVE Shows(m)'
    <2>1. Shows(m)
      BY DEF ThreadInv
    <2>2. handled' \cap EditsOf(m) = handled \cap EditsOf(m)
      BY DEF EditsOf
    <2>3. \A l \in handled' : Kind[l] = "message" => l \in handled
      OBVIOUS
    <2> QED BY <2>1, <2>2, <2>3 DEF Shows
  <1> QED BY <1>1, <1>2, <1>3, <1>4 DEF ThreadInv

\* A step of one goroutine at one message: it is enough to look at that message.
LEMMA ThreadAt ==
    ASSUME ReceiveInv, ThreadInv, NEW w \in Workers, OnMessage(w),
           NEW m \in Messages, m = MessageOf(w),
           \A v \in Workers : v # w => worker'[v] = worker[v],
           OnMessage(w)' => MessageOf(w)' = m,
           \A n \in Messages : n # m /\ n \notin muddled => store'[n] = store[n],
           muddled \subseteq muddled', handled \subseteq handled',
           handled' \subseteq handled \cup {Line(w)},
           TargetOf(w)',
           OnMessage(w)' /\ m \notin muddled' => Stands(w)',
           m \notin muddled' => Shows(m)'
    PROVE  ThreadInv'
  <1>1. \A v \in Workers : TargetOf(v)'
    BY LineUntouched DEF ThreadInv
  <1>2. \A u, v \in Workers :
            OnMessage(u)' /\ OnMessage(v)' /\ MessageOf(u)' = MessageOf(v)' =>
                u = v \/ MessageOf(v)' \in muddled'
    BY LineUntouched DEF ThreadInv
  <1>3. ASSUME NEW v \in Workers, OnMessage(v)', MessageOf(v)' \notin muddled' PROVE Stands(v)'
    <2>1. CASE v = w
      BY <1>3, <2>1
    <2>2. CASE v # w
      <3>1. OnMessage(v) /\ MessageOf(v)' = MessageOf(v) /\ MessageOf(v) \notin muddled /\ Stands(v)
        BY <1>3, <2>2, LineUntouched DEF ThreadInv
      <3>2. MessageOf(v) # m
        BY <2>2, <3>1 DEF ThreadInv
      <3>3. MessageOf(v) \in Messages
        BY <3>1, MessageOfLine
      <3> QED BY <2>2, <3>1, <3>2, <3>3, LineUntouched
    <2> QED BY <2>1, <2>2
  <1>4. ASSUME NEW n \in Messages \ muddled' PROVE Shows(n)'
    <2>1. CASE n = m
      BY <2>1
    <2>2. CASE n # m
      <3>1. Shows(n) /\ store'[n] = store[n]
        BY <2>2 DEF ThreadInv
      <3>2. \A l \in handled' : Of[l] = n => l \in handled
        BY <2>2 DEF MessageOf
      <3>3. handled' \cap EditsOf(n) = handled \cap EditsOf(n)
        BY <3>2 DEF EditsOf
      <3> QED BY <3>1, <3>2, <3>3 DEF Shows
    <2> QED BY <2>1, <2>2
  <1> QED BY <1>1, <1>2, <1>3, <1>4 DEF ThreadInv

\* A goroutine that comes to a message nobody else is at, or muddles it.
LEMMA ThreadEntered ==
    ASSUME ReceiveInv, ThreadInv, ReceiveInv', NEW w \in Workers,
           worker[w].at \in Working, NEW l, l = Head(worker[w].todo), Kind[l] \in {"message", "edit"},
           \A v \in Workers : v # w => worker'[v] = worker[v],
           OnMessage(w)', Line(w)' = l, store' = store, handled' = handled,
           muddled \cup Clash(w, l) \subseteq muddled',
           TargetOf(w)', Of[l] \notin muddled' => Stands(w)'
    PROVE  ThreadInv'
  <1>1. l \in Lines /\ l \in DOMAIN Of /\ About(l) = {Of[l]} /\ MessageOf(w)' = Of[l]
    <2>1. l \in Lines
      BY HandHasLine
    <2> QED BY <2>1, AboutMessage DEF About, MessageOf
  <1>2. ASSUME NEW v \in Workers, v # w, OnMessage(v)', MessageOf(v)' = Of[l]
        PROVE  Of[l] \in muddled'
    <2>1. OnMessage(v) /\ MessageOf(v) = Of[l]
      BY <1>2, LineUntouched
    <2>2. Line(v) \in InHand(v) /\ Of[l] \in About(Line(v))
      BY <2>1, MessageOfLine
    <2>3. Of[l] \in Clash(w, l)
      BY <1>1, <1>2, <2>2 DEF Clash
    <2> QED BY <2>3
  <1>3. \A v \in Workers : TargetOf(v)'
    BY LineUntouched DEF ThreadInv
  <1>4. \A u, v \in Workers :
            OnMessage(u)' /\ OnMessage(v)' /\ MessageOf(u)' = MessageOf(v)' =>
                u = v \/ MessageOf(v)' \in muddled'
    <2>1. ASSUME NEW u \in Workers, NEW v \in Workers, u # w, v # w,
                 OnMessage(u)', OnMessage(v)', MessageOf(u)' = MessageOf(v)'
          PROVE  u = v \/ MessageOf(v)' \in muddled'
      BY <2>1, LineUntouched DEF ThreadInv
    <2> QED BY <1>1, <1>2, <2>1
  <1>5. \A v \in Workers : OnMessage(v)' /\ MessageOf(v)' \notin muddled' => Stands(v)'
    <2>1. ASSUME NEW v \in Workers, v # w, OnMessage(v)', MessageOf(v)' \notin muddled'
          PROVE  Stands(v)'
      BY <2>1, LineUntouched DEF ThreadInv
    <2> QED BY <1>1, <2>1
  <1>6. \A m \in Messages \ muddled' : Shows(m)'
    BY DEF ThreadInv, Shows
  <1> QED BY <1>3, <1>4, <1>5, <1>6 DEF ThreadInv

\* A placeholder written, or taken away.
LEMMA AliasWritten ==
    ASSUME ReceiveInv, NEW m \in Messages, NEW x \in Text,
           store' = [store EXCEPT ![m]["alias"] = x], muddled' \subseteq Messages
    PROVE  /\ store'[m].alias = x /\ store'[m].row = store[m].row
           /\ \A n \in Messages : n # m => store'[n] = store[n]
  BY StoreWritten

\* A line resolved is not looked at any more.
LEMMA WrittenBy ==
    ASSUME ReceiveInv, NEW w \in Workers, worker[w].at \in Working, Resolve(w)
    PROVE  /\ ~OnMessage(w)' /\ TargetOf(w)' /\ \A v \in Workers : v # w => worker'[v] = worker[v]
           /\ handled' = handled \cup {Line(w)}
  <1>1. NextLine(w, TRUE) /\ handled' = handled \cup {Head(worker[w].todo)}
    BY DEF Resolve
  <1>2. worker'[w].at \in {"line", "unlink", "rewrite"}
        /\ \A v \in Workers : v # w => worker'[v] = worker[v]
    BY <1>1, NextShape
  <1> QED BY <1>1, <1>2 DEF OnMessage, TargetOf, Line

\* What a goroutine that goes on has in its hand, has read and has found.
LEMMA GoneTo ==
    ASSUME ReceiveInv, NEW w \in Workers, NEW s, Goes(w, s)
    PROVE  /\ worker'[w].at = s /\ worker'[w].todo = worker[w].todo /\ Line(w)' = Line(w)
           /\ \A v \in Workers : v # w => worker'[v] = worker[v]
  <1>1. worker \in [Workers -> WorkerType]
    BY DEF ReceiveInv, ReceiveTypes
  <1>2. PICK me \in WorkerType : me = worker[w]
    BY <1>1
  <1>3. me = [at |-> me.at, mode |-> me.mode, todo |-> me.todo, took |-> me.took,
              kept |-> me.kept, text |-> me.text, slot |-> me.slot]
    BY DEF WorkerType
  <1>4. PICK q : q = [me EXCEPT !.at = s]
    OBVIOUS
  <1>5. q.at = s /\ q.todo = me.todo
    BY <1>3, <1>4
  <1>6. worker' = [worker EXCEPT ![w] = q]
    BY <1>2, <1>4 DEF Goes
  <1> QED BY <1>1, <1>2, <1>5, <1>6 DEF Line

\* The same with the text it carries.
LEMMA GoneCarrying ==
    ASSUME ReceiveInv, NEW w \in Workers, NEW s, NEW x, Carries(w, s, x)
    PROVE  /\ worker'[w].at = s /\ worker'[w].todo = worker[w].todo /\ Line(w)' = Line(w)
           /\ worker'[w].text = x
           /\ \A v \in Workers : v # w => worker'[v] = worker[v]
  <1>1. worker \in [Workers -> WorkerType]
    BY DEF ReceiveInv, ReceiveTypes
  <1>2. PICK me \in WorkerType : me = worker[w]
    BY <1>1
  <1>3. me = [at |-> me.at, mode |-> me.mode, todo |-> me.todo, took |-> me.took,
              kept |-> me.kept, text |-> me.text, slot |-> me.slot]
    BY DEF WorkerType
  <1>4. PICK q : q = [me EXCEPT !.at = s, !.text = x]
    OBVIOUS
  <1>5. q.at = s /\ q.todo = me.todo /\ q.text = x
    BY <1>3, <1>4
  <1>6. worker' = [worker EXCEPT ![w] = q]
    BY <1>1, <1>2, <1>4 DEF Carries
  <1> QED BY <1>1, <1>2, <1>5, <1>6 DEF Line

Aims(w, s, y) == worker' = [worker EXCEPT ![w].at = s, ![w].slot = y]

\* The same with what it will amend.
LEMMA GoneAiming ==
    ASSUME ReceiveInv, NEW w \in Workers, NEW s, NEW y, Aims(w, s, y)
    PROVE  /\ worker'[w].at = s /\ worker'[w].todo = worker[w].todo /\ Line(w)' = Line(w)
           /\ worker'[w].slot = y
           /\ \A v \in Workers : v # w => worker'[v] = worker[v]
  <1>1. worker \in [Workers -> WorkerType]
    BY DEF ReceiveInv, ReceiveTypes
  <1>2. PICK me \in WorkerType : me = worker[w]
    BY <1>1
  <1>3. me = [at |-> me.at, mode |-> me.mode, todo |-> me.todo, took |-> me.took,
              kept |-> me.kept, text |-> me.text, slot |-> me.slot]
    BY DEF WorkerType
  <1>4. PICK q : q = [me EXCEPT !.at = s, !.slot = y]
    OBVIOUS
  <1>5. q.at = s /\ q.todo = me.todo /\ q.slot = y
    BY <1>3, <1>4
  <1>6. worker' = [worker EXCEPT ![w] = q]
    BY <1>1, <1>2, <1>4 DEF Aims
  <1> QED BY <1>1, <1>2, <1>5, <1>6 DEF Line

\* A line refused is not looked at any more.
LEMMA RefusedLine ==
    ASSUME ReceiveInv, NEW w \in Workers, worker[w].at \in Working, Refuse(w)
    PROVE  \A v \in Workers : OnMessage(v)' => worker'[v] = worker[v]
  <1>1. worker \in [Workers -> WorkerType]
    BY DEF ReceiveInv, ReceiveTypes
  <1>2. worker'[w].at \in {"file", "line", "unlink", "rewrite"}
        /\ \A v \in Workers : v # w => worker'[v] = worker[v]
    <2>1. CASE Goes(w, "file")
      BY <2>1, GoneTo
    <2>2. CASE NextLine(w, FALSE)
      BY <2>2, NextShape
    <2> QED BY <2>1, <2>2 DEF Refuse
  <1> QED BY <1>2 DEF OnMessage

\* A message taken is not yet in the store, and its text is what will be shown.
LEMMA TakeMessageShows ==
    ASSUME ReceiveInv, ThreadInv, ReceiveInv', NEW w \in Workers, TakeMessage(w)
    PROVE  ThreadInv'
  <1>1. PICK l : l = Head(worker[w].todo)
    OBVIOUS
  <1>2. /\ worker[w].at = "line" /\ Kind[l] = "message" /\ store' = store /\ handled' = handled
        /\ muddled' = muddled \cup Clash(w, l)
        /\ Carries(w, "merge", IF store[Of[l]].alias # NoText THEN store[Of[l]].alias ELSE l)
    BY <1>1 DEF TakeMessage
  <1>3. PICK x : x = IF store[Of[l]].alias # NoText THEN store[Of[l]].alias ELSE l
    OBVIOUS
  <1>4. /\ worker'[w].at = "merge" /\ worker'[w].text = x /\ Line(w)' = Line(w)
        /\ \A v \in Workers : v # w => worker'[v] = worker[v]
    BY <1>2, <1>3, GoneCarrying
  <1>5. Line(w)' = l /\ OnMessage(w)' /\ TargetOf(w)'
    BY <1>1, <1>4 DEF Line, OnMessage, TargetOf
  <1>6. l \in Lines /\ l \in DOMAIN Of
    BY <1>1, <1>2, HandHasLine, AboutMessage DEF Working
  <1>7. Of[l] \notin muddled' => store[Of[l]].row = NoText
    BY <1>2, <1>6 DEF Clash, About
  <1>8. MessageOf(w)' = Of[l] /\ Merged(w)' = x
    BY <1>2, <1>3, <1>5 DEF MessageOf, Merged
  <1>9. Of[l] \notin muddled' => Stands(w)'
    BY <1>2, <1>4, <1>7, <1>8 DEF Stands
  <1>10. worker[w].at \in Working
    BY <1>2 DEF Working
  <1> QED BY <1>1, <1>2, <1>4, <1>5, <1>9, <1>10, ThreadEntered

\* An edit amends what it finds of its message, and invents what it does not find.
LEMMA TakeEditShows ==
    ASSUME ReceiveInv, ThreadInv, ReceiveInv', NEW w \in Workers, TakeEdit(w)
    PROVE  ThreadInv'
  <1>1. PICK l : l = Head(worker[w].todo)
    OBVIOUS
  <1>2. PICK m : m = Of[l]
    OBVIOUS
  <1>3. /\ worker[w].at = "line" /\ Kind[l] = "edit" /\ store' = store /\ handled' = handled
        /\ muddled \cup Clash(w, l) \subseteq muddled'
        /\ \/ \E s \in Targets(m) :
                /\ worker' = [worker EXCEPT ![w].at = "amend", ![w].slot = s]
                /\ muddled' = muddled \cup Clash(w, l) \cup (IF s[2] = m THEN {} ELSE {m, s[2]})
           \/ /\ Targets(m) = {}
              /\ IF AllowRecovery(worker[w].mode) THEN Refuse(w) ELSE Goes(w, "invent")
    BY <1>1, <1>2 DEF TakeEdit
  <1>4. worker[w].at \in Working /\ l \in Lines /\ m \in Messages
    BY <1>1, <1>2, <1>3, HandHasLine, AboutMessage DEF Working
  <1>5. <<"row", m>> \in Slots /\ <<"alias", m>> \in Slots
    BY <1>4 DEF Slots
  <1> DEFINE own == Present({m})
  <1>6. /\ <<"row", m>> \in own <=> store[m].row # NoText
        /\ <<"alias", m>> \in own <=> store[m].alias # NoText
    BY <1>5 DEF Present
  <1>7. \A s \in own : s \in Slots /\ s[2] = m /\ s[1] \in {"row", "alias"}
                       /\ (s = <<"row", m>> \/ s = <<"alias", m>>)
    BY DEF Present, Slots
  <1>8. /\ Targets(m) = (IF <<"row", m>> \in own THEN {<<"row", m>>}
                         ELSE IF own # {} THEN own ELSE Present(Near[m]))
        /\ \A s \in Present(Near[m]) : s[2] = m => s \in own
    BY DEF Targets, Present
  <1> HIDE DEF own
  <1>9. ASSUME NEW s \in Targets(m), worker' = [worker EXCEPT ![w].at = "amend", ![w].slot = s],
               muddled' = muddled \cup Clash(w, l) \cup (IF s[2] = m THEN {} ELSE {m, s[2]})
        PROVE  ThreadInv'
    <2>0. Aims(w, "amend", s)
      BY <1>9 DEF Aims
    <2>1. /\ worker'[w].at = "amend" /\ worker'[w].slot = s /\ Line(w)' = Line(w)
          /\ \A v \in Workers : v # w => worker'[v] = worker[v]
      BY <2>0, GoneAiming
    <2>2. Line(w)' = l /\ OnMessage(w)' /\ MessageOf(w)' = m
      BY <1>1, <1>2, <2>1 DEF Line, OnMessage, MessageOf
    <2>3. TargetOf(w)'
      BY <1>9, <2>1, <2>2 DEF TargetOf
    <2>4. ASSUME m \notin muddled' PROVE Stands(w)'
      <3>1. s[2] = m
        BY <1>9, <2>4
      <3>2. \/ s = <<"row", m>> /\ store[m].row # NoText
            \/ s = <<"alias", m>> /\ store[m].row = NoText /\ store[m].alias # NoText
        BY <1>6, <1>7, <1>8, <3>1
      <3> QED BY <1>3, <2>1, <2>2, <3>2 DEF Stands
    <2> QED BY <1>1, <1>2, <1>3, <1>4, <2>1, <2>2, <2>3, <2>4, ThreadEntered
  <1>10. ASSUME Targets(m) = {}, Goes(w, "invent") PROVE ThreadInv'
    <2>1. /\ worker'[w].at = "invent" /\ Line(w)' = Line(w)
          /\ \A v \in Workers : v # w => worker'[v] = worker[v]
      BY <1>10, GoneTo
    <2>2. Line(w)' = l /\ OnMessage(w)' /\ MessageOf(w)' = m /\ TargetOf(w)'
      BY <1>1, <1>2, <2>1 DEF Line, OnMessage, MessageOf, TargetOf
    <2>3. own = {}
      BY <1>8, <1>10
    <2>4. store[m].row = NoText /\ store[m].alias = NoText
      BY <1>6, <2>3
    <2>5. Stands(w)'
      BY <1>3, <2>1, <2>2, <2>4 DEF Stands
    <2> QED BY <1>1, <1>2, <1>3, <1>4, <2>1, <2>2, <2>5, ThreadEntered
  <1>11. ASSUME Refuse(w) PROVE ThreadInv'
    <2>1. \A v \in Workers : OnMessage(v)' => worker'[v] = worker[v]
      BY <1>4, <1>11, RefusedLine
    <2> QED BY <1>3, <2>1, ThreadUntouched
  <1> QED BY <1>3, <1>9, <1>10, <1>11

\* The text that wins is written where no row was.
LEMMA MergeShows ==
    ASSUME ReceiveInv, ThreadInv, NEW w \in Workers, MergeAlias(w) \/ WriteMessage(w)
    PROVE  ThreadInv'
  <1>1. OnMessage(w) /\ handled' = handled /\ muddled' = muddled
    BY DEF OnMessage, MergeAlias, WriteMessage
  <1>2. PICK m \in Messages : m = MessageOf(w)
    BY <1>1, MessageOfLine
  <1>3. PICK l : l = Line(w)
    OBVIOUS
  <1>4. m = Of[l] /\ l = Head(worker[w].todo) /\ l \in Lines
    BY <1>1, <1>2, <1>3, MessageOfLine DEF MessageOf, Line
  <1>5. m \notin muddled => Stands(w) /\ Shows(m)
    BY <1>1, <1>2 DEF ThreadInv
  <1>6. Merged(w) = (IF store[m].alias # NoText THEN store[m].alias ELSE l)
        /\ Merged(w) # NoText
    BY <1>1, <1>2, <1>3, MessageOfLine DEF Merged
  <1>7. CASE MergeAlias(w)
    <2>1. PICK x : x = IF store[m].alias # NoText THEN store[m].alias ELSE worker[w].text
      OBVIOUS
    <2>2. worker[w].at = "merge" /\ store' = store /\ Carries(w, "write", x)
      BY <1>4, <1>7, <2>1 DEF MergeAlias
    <2>3. /\ worker'[w].at = "write" /\ worker'[w].text = x /\ Line(w)' = l
          /\ \A v \in Workers : v # w => worker'[v] = worker[v]
      BY <1>3, <2>2, GoneCarrying
    <2>4. MessageOf(w)' = m /\ Merged(w)' = Merged(w) /\ TargetOf(w)'
      BY <1>4, <1>6, <2>2, <2>3 DEF MessageOf, Merged, TargetOf
    <2>5. ASSUME m \notin muddled PROVE Stands(w)' /\ Shows(m)'
      <3>1. store[m].row = NoText /\ worker[w].text = Merged(w)
        BY <1>2, <1>5, <2>2, <2>5 DEF Stands
      <3>2. x = Merged(w)
        BY <1>6, <2>1, <3>1
      <3>3. Stands(w)'
        BY <2>2, <2>3, <2>4, <3>1, <3>2 DEF Stands
      <3>4. Shows(m)'
        BY <1>1, <1>5, <2>2, <2>5 DEF Shows
      <3> QED BY <3>3, <3>4
    <2> QED BY <1>1, <1>2, <2>2, <2>3, <2>4, <2>5, ThreadAt
  <1>8. CASE WriteMessage(w)
    <2>1. worker[w].at = "write" /\ store' = [store EXCEPT ![m]["row"] = worker[w].text]
          /\ Goes(w, "tidy")
      BY <1>4, <1>8 DEF WriteMessage
    <2>2. /\ worker'[w].at = "tidy" /\ Line(w)' = l
          /\ \A v \in Workers : v # w => worker'[v] = worker[v]
      BY <1>3, <2>1, GoneTo
    <2>3. worker[w].text \in Text /\ muddled' \subseteq Messages
      BY <1>1 DEF ReceiveInv, ReceiveTypes, StoreTypes, WorkerType
    <2>4. /\ store'[m].row = worker[w].text /\ store'[m].alias = store[m].alias
          /\ \A n \in Messages : n # m => store'[n] = store[n]
      BY <2>1, <2>3, StoreWritten
    <2>5. MessageOf(w)' = m /\ Merged(w)' = Merged(w) /\ TargetOf(w)'
      BY <1>4, <1>6, <2>2, <2>4 DEF MessageOf, Merged, TargetOf
    <2>6. ASSUME m \notin muddled PROVE Stands(w)' /\ Shows(m)'
      <3>1. store[m].row = NoText /\ worker[w].text = Merged(w)
        BY <1>2, <1>5, <2>1, <2>6 DEF Stands
      <3>2. Stands(w)'
        BY <2>2, <2>4, <2>5, <3>1 DEF Stands
      <3>3. store'[m].row = (IF store[m].alias # NoText THEN store[m].alias ELSE l)
            /\ store'[m].row # NoText
        BY <1>6, <2>4, <3>1
      <3>4. NoText \notin EditsOf(m)
        BY ReceiveConstants DEF EditsOf
      <3>5. Shows(m)
        BY <1>5, <2>6
      <3>6. \A k \in handled : ~(Kind[k] = "message" /\ Of[k] = m)
        BY <3>1, <3>5 DEF Shows
      <3>7. handled \cap EditsOf(m) # {} => store'[m].row \in EditsOf(m)
        BY <3>1, <3>3, <3>4, <3>5 DEF Shows
      <3>8. store'[m].alias \in EditsOf(m) \cup {NoText}
        BY <2>4, <3>5 DEF Shows
      <3>9. Shows(m)'
        BY <1>1, <3>6, <3>7, <3>8 DEF Shows
      <3> QED BY <3>2, <3>9
    <2> QED BY <1>1, <1>2, <2>2, <2>4, <2>5, <2>6, ThreadAt
  <1> QED BY <1>7, <1>8

\* A message is handled once its placeholder is gone, or muddled if that fails.
LEMMA DeleteShows ==
    ASSUME ReceiveInv, ThreadInv, NEW w \in Workers, DeleteAlias(w)
    PROVE  ThreadInv'
  <1>1. OnMessage(w) /\ worker[w].at = "tidy" /\ Resolve(w)
    BY DEF OnMessage, DeleteAlias
  <1>2. PICK m \in Messages : m = MessageOf(w)
    BY <1>1, MessageOfLine
  <1>3. PICK l : l = Line(w)
    OBVIOUS
  <1>4. m = Of[l] /\ l = Head(worker[w].todo) /\ Kind[l] = "message" /\ worker[w].at \in Working
    BY <1>1, <1>2, <1>3, MessageOfLine DEF MessageOf, Line
  <1>5. /\ ~OnMessage(w)' /\ TargetOf(w)' /\ \A v \in Workers : v # w => worker'[v] = worker[v]
        /\ handled' = handled \cup {l}
    BY <1>1, <1>3, <1>4, WrittenBy
  <1>6. \/ store' = [store EXCEPT ![m]["alias"] = NoText] /\ muddled' = muddled
        \/ muddled' = muddled \cup {m} /\ store' = store
    BY <1>4 DEF DeleteAlias
  <1>7. \A n \in Messages : n # m => store'[n] = store[n]
    <2>1. ASSUME store' = [store EXCEPT ![m]["alias"] = NoText], muddled' = muddled
          PROVE  \A n \in Messages : n # m => store'[n] = store[n]
      <3>1. muddled' \subseteq Messages /\ NoText \in Text
        BY <2>1 DEF ReceiveInv, ReceiveTypes, StoreTypes, Text
      <3> QED BY <2>1, <3>1, AliasWritten
    <2> QED BY <1>6, <2>1
  <1>8. ASSUME m \notin muddled' PROVE Shows(m)'
    <2>1. Stands(w) /\ Shows(m) /\ store' = [store EXCEPT ![m]["alias"] = NoText]
          /\ muddled' = muddled
      BY <1>1, <1>2, <1>6, <1>8 DEF ThreadInv
    <2>2. muddled' \subseteq Messages /\ NoText \in Text
      BY <2>1 DEF ReceiveInv, ReceiveTypes, StoreTypes, Text
    <2>3. store'[m].alias = NoText /\ store'[m].row = store[m].row
      BY <2>1, <2>2, AliasWritten
    <2>4. store[m].row # NoText
      BY <1>1, <1>2, <2>1, MessageOfLine DEF Stands
    <2>5. handled' \cap EditsOf(m) = handled \cap EditsOf(m)
      BY <1>4, <1>5 DEF EditsOf
    <2> QED BY <2>1, <2>3, <2>4, <2>5 DEF Shows
  <1> QED BY <1>1, <1>2, <1>3, <1>5, <1>6, <1>7, <1>8, ThreadAt

\* An edit is handled once it is in the row, or in the placeholder of no row.
LEMMA EditShows ==
    ASSUME ReceiveInv, ThreadInv, NEW w \in Workers, AmendTarget(w) \/ InventAlias(w)
    PROVE  ThreadInv'
  <1>1. OnMessage(w) /\ worker[w].at \in {"amend", "invent"} /\ Resolve(w) /\ muddled' = muddled
    BY DEF OnMessage, AmendTarget, InventAlias
  <1>2. PICK m \in Messages : m = MessageOf(w)
    BY <1>1, MessageOfLine
  <1>3. PICK l : l = Line(w)
    OBVIOUS
  <1>4. /\ m = Of[l] /\ l = Head(worker[w].todo) /\ Kind[l] = "edit" /\ l \in Lines
        /\ l # NoText /\ l \in Text /\ worker[w].at \in Working
    BY <1>1, <1>2, <1>3, MessageOfLine DEF MessageOf, Line, Text
  <1>5. /\ ~OnMessage(w)' /\ TargetOf(w)' /\ \A v \in Workers : v # w => worker'[v] = worker[v]
        /\ handled' = handled \cup {l}
    BY <1>1, <1>3, <1>4, WrittenBy
  <1>6. l \in EditsOf(m) /\ NoText \notin EditsOf(m)
    BY <1>4, ReceiveConstants DEF EditsOf
  <1>7. m \notin muddled => Stands(w) /\ Shows(m)
    BY <1>1, <1>2 DEF ThreadInv
  <1>8. muddled' \subseteq Messages
    BY <1>1 DEF ReceiveInv, ReceiveTypes, StoreTypes
  <1>9. CASE AmendTarget(w)
    <2>1. worker[w].at = "amend"
      BY <1>9 DEF AmendTarget
    <2>2. PICK s \in Slots : s = worker[w].slot
      BY <1>1, <2>1, MessageOfLine
    <2>3. PICK f \in {"row", "alias"} : f = s[1]
      BY DEF Slots
    <2>4. PICK t \in Messages : t = s[2]
      BY DEF Slots
    <2>5. store' = [store EXCEPT ![t][f] = l]
      BY <1>4, <1>9, <2>2, <2>3, <2>4 DEF AmendTarget
    <2>6. t = m \/ (t \in muddled /\ m \in muddled)
      BY <1>2, <2>1, <2>2, <2>4 DEF ThreadInv, TargetOf
    <2>7. /\ store'[t][f] = l
          /\ \A g \in {"row", "alias"} : g # f => store'[t][g] = store[t][g]
          /\ \A n \in Messages : n # t => store'[n] = store[n]
      <3>0. store \in [Messages -> [row : Text, alias : Text]]
        BY DEF ReceiveInv, ReceiveTypes, StoreTypes
      <3>1. store'[t][f] = l
        <4>1. CASE f = "row"
          BY <2>5, <3>0, <4>1
        <4>2. CASE f = "alias"
          BY <2>5, <3>0, <4>2
        <4> QED BY <4>1, <4>2
      <3>2. \A g \in {"row", "alias"} : g # f => store'[t][g] = store[t][g]
        BY <1>4, <1>8, <2>5, StoreWritten
      <3>3. \A n \in Messages : n # t => store'[n] = store[n]
        BY <1>4, <1>8, <2>5, StoreWritten
      <3> QED BY <3>1, <3>2, <3>3
    <2>8. \A n \in Messages : n # m /\ n \notin muddled => store'[n] = store[n]
      BY <2>6, <2>7
    <2>9. ASSUME m \notin muddled PROVE Shows(m)'
      <3>1. t = m /\ Stands(w) /\ Shows(m)
        BY <1>7, <2>6, <2>9
      <3>2. CASE f = "row"
        <4>1. store'[m].row = l /\ store'[m].alias = store[m].alias
          BY <2>7, <3>1, <3>2
        <4>2. store[m].alias \in EditsOf(m) \cup {NoText}
          BY <3>1 DEF Shows
        <4>3. \A k \in handled' : Kind[k] = "message" /\ Of[k] = m => store[m].alias = NoText
          BY <1>4, <1>5, <3>1 DEF Shows
        <4>4. store'[m].row \in EditsOf(m) /\ store'[m].row # NoText
          BY <1>4, <1>6, <4>1
        <4>5. store'[m].alias \in EditsOf(m) \cup {NoText}
          BY <4>1, <4>2
        <4>6. \A k \in handled' : Kind[k] = "message" /\ Of[k] = m =>
                 store'[m].row # NoText /\ store'[m].alias = NoText
          BY <4>1, <4>3, <4>4
        <4> QED BY <4>4, <4>5, <4>6 DEF Shows
      <3>3. CASE f = "alias"
        <4>1. store'[m].alias = l /\ store'[m].row = store[m].row
          BY <2>7, <3>1, <3>3
        <4>2. store[m].row = NoText
          BY <1>2, <2>1, <2>2, <2>3, <3>1, <3>3 DEF Stands
        <4>3. \A k \in handled' : ~(Kind[k] = "message" /\ Of[k] = m)
          BY <1>4, <1>5, <3>1, <4>2 DEF Shows
        <4> QED BY <1>6, <4>1, <4>2, <4>3 DEF Shows
      <3> QED BY <3>2, <3>3
    <2> QED BY <1>1, <1>2, <1>3, <1>5, <2>8, <2>9, ThreadAt
  <1>10. CASE InventAlias(w)
    <2>1. worker[w].at = "invent" /\ store' = [store EXCEPT ![m]["alias"] = l]
      BY <1>4, <1>10 DEF InventAlias
    <2>2. /\ store'[m].alias = l /\ store'[m].row = store[m].row
          /\ \A n \in Messages : n # m => store'[n] = store[n]
      BY <1>4, <1>8, <2>1, AliasWritten
    <2>3. ASSUME m \notin muddled PROVE Shows(m)'
      <3>1. Stands(w) /\ Shows(m)
        BY <1>7, <2>3
      <3>2. store[m].row = NoText
        BY <1>2, <2>1, <3>1 DEF Stands
      <3>3. \A k \in handled' : ~(Kind[k] = "message" /\ Of[k] = m)
        BY <1>4, <1>5, <3>1, <3>2 DEF Shows
      <3> QED BY <1>6, <2>2, <3>2, <3>3 DEF Shows
    <2> QED BY <1>1, <1>2, <1>3, <1>5, <2>2, <2>3, ThreadAt
  <1> QED BY <1>9, <1>10

\* In the beginning nothing is shown.
LEMMA ThreadStart == ReceiveInit => ThreadInv
  <1> SUFFICES ASSUME ReceiveInit PROVE ThreadInv
    OBVIOUS
  <1>1. \A w \in Workers : ~OnMessage(w) /\ TargetOf(w)
    BY RestingWorker DEF ReceiveInit, OnMessage, TargetOf
  <1>2. \A m \in Messages : store[m].row = NoText /\ store[m].alias = NoText /\ handled = {}
    BY DEF ReceiveInit
  <1>3. \A m \in Messages : Shows(m)
    BY <1>2 DEF Shows
  <1> QED BY <1>1, <1>3 DEF ThreadInv

\* A goroutine that turns away from lines, or to the first one.
LEMMA TurnsAway ==
    ASSUME ReceiveInv, ThreadInv, NEW w \in Workers, NEW q, worker' = [worker EXCEPT ![w] = q],
           q.at \notin {"merge", "write", "tidy", "amend", "invent"},
           UNCHANGED <<store, handled, muddled>>
    PROVE  ThreadInv'
  <1>1. worker'[w] = q /\ \A v \in Workers : v # w => worker'[v] = worker[v]
    BY DEF ReceiveInv, ReceiveTypes
  <1>2. \A v \in Workers : OnMessage(v)' => worker'[v] = worker[v]
    BY <1>1 DEF OnMessage
  <1> QED BY <1>2, ThreadUntouched

\* What the goroutines do beside their lines leaves what the store shows.
LEMMA LoopShows ==
    ASSUME ReceiveInv, ThreadInv,
           \/ \E h \in Hosts : StartLoop(h)
           \/ \E b \in Batches : Poll(b) \/ DiscardBatch(b)
           \/ LogBatch \/ StopLoop \/ Crash \/ RemoveAccount
    PROVE  ThreadInv'
  <1>1. worker \in [Workers -> WorkerType] /\ UNCHANGED <<store, handled, muddled>>
    <2>1. UNCHANGED <<store, handled, muddled>>
      BY DEF StartLoop, Poll, DiscardBatch, LogBatch, StopLoop, Crash, RemoveAccount
    <2> QED BY <2>1 DEF ReceiveInv, ReceiveTypes
  <1>2. ASSUME NEW h \in Hosts, StartLoop(h) PROVE ThreadInv'
    <2>1. PICK a : a = [Resting EXCEPT !.at = "poll"] /\ a.at = "poll"
      BY Turned
    <2>2. PICK b : b = [Resting EXCEPT !.at = "drain", !.mode = "drain"] /\ b.at = "drain"
      BY Turned
    <2>3. worker' = [worker EXCEPT ![Loop] = a, ![h] = b]
      BY <1>2, <2>1, <2>2 DEF StartLoop
    <2>4. \A v \in Workers : worker'[v] = worker[v] \/ worker'[v].at \in {"poll", "drain"}
      BY <1>1, <2>1, <2>2, <2>3
    <2>5. \A v \in Workers : OnMessage(v)' => worker'[v] = worker[v]
      BY <2>4 DEF OnMessage
    <2> QED BY <1>1, <2>5, ThreadUntouched
  <1>3. ASSUME NEW b \in Batches, Poll(b) PROVE ThreadInv'
    <2>1. PICK me \in WorkerType : me = worker[Loop]
      BY <1>1, WorkersAre
    <2>2. PICK q : q = [me EXCEPT !.at = "log", !.todo = b, !.took = ToSet(b)]
      OBVIOUS
    <2>3. me = [at |-> me.at, mode |-> me.mode, todo |-> me.todo, took |-> me.took,
                kept |-> me.kept, text |-> me.text, slot |-> me.slot]
      BY DEF WorkerType
    <2>4. q.at = "log"
      <3>1. q = [at |-> "log", mode |-> me.mode, todo |-> b, took |-> ToSet(b),
                 kept |-> me.kept, text |-> me.text, slot |-> me.slot]
        BY <2>2, <2>3
      <3> QED BY <3>1
    <2>5. worker' = [worker EXCEPT ![Loop] = q]
      BY <1>1, <1>3, <2>1, <2>2, WorkersAre DEF Poll
    <2> QED BY <1>1, <2>4, <2>5, WorkersAre, TurnsAway
  <1>4. ASSUME worker' = worker PROVE ThreadInv'
    BY <1>1, <1>4, ThreadUntouched
  <1>5. CASE LogBatch
    <2>1. /\ worker'[Loop].at = "line"
          /\ \A v \in Workers : v # Loop => worker'[v] = worker[v]
      BY <1>5, WorkersAre, GoneTo DEF LogBatch
    <2>2. \A v \in Workers : OnMessage(v)' => worker'[v] = worker[v]
      BY <2>1 DEF OnMessage
    <2> QED BY <1>1, <2>2, ThreadUntouched
  <1>6. CASE StopLoop
    BY <1>1, <1>6, WorkersAre, RestingWorker, TurnsAway DEF StopLoop
  <1>7. CASE Crash
    <2>1. \A v \in Workers : ~OnMessage(v)'
      BY <1>7, RestingWorker DEF Crash, OnMessage
    <2> QED BY <1>1, <2>1, ThreadUntouched
  <1> QED BY <1>2, <1>3, <1>4, <1>5, <1>6, <1>7 DEF DiscardBatch, RemoveAccount

\* So do the look at a line's kind and the steps at the files.
LEMMA HostShows ==
    ASSUME ReceiveInv, ThreadInv, NEW w \in Workers,
           \/ ReadLog(w) \/ Unlink(w) \/ ReadQueue(w) \/ RewriteQueue(w) \/ AskReplay(w)
           \/ SortLine(w) \/ StoreFails(w) \/ FileLine(w)
    PROVE  ThreadInv'
  <1>1. worker \in [Workers -> WorkerType] /\ store' = store /\ muddled' = muddled
    BY DEF ReceiveInv, ReceiveTypes, ReadLog, Unlink, ReadQueue, RewriteQueue, AskReplay, SortLine,
           StoreFails, FileLine
  <1>2. PICK poll : poll = [Resting EXCEPT !.at = "poll"] /\ poll.at = "poll"
    BY Turned
  <1>3. PICK lock : lock = [Resting EXCEPT !.at = "lock", !.mode = "wait"] /\ lock.at = "lock"
    BY Turned
  <1>4. Resting.at = "idle"
    BY RestingWorker
  <1>5. CASE Unlink(w) \/ AskReplay(w) \/ RewriteQueue(w)
    <2>1. PICK q : worker' = [worker EXCEPT ![w] = q] /\ q.at \in {"poll", "lock", "idle"}
      BY <1>2, <1>3, <1>4, <1>5 DEF Unlink, AskReplay, RewriteQueue
    <2>2. handled' = handled
      BY <1>5 DEF Unlink, AskReplay, RewriteQueue
    <2> QED BY <1>1, <2>1, <2>2, TurnsAway
  <1>6. CASE ReadLog(w)
    <2>1. PICK me \in WorkerType : me = worker[w]
      BY <1>1
    <2>2. PICK q : q = [me EXCEPT !.at = "line", !.todo = wal, !.took = ToSet(wal)]
      OBVIOUS
    <2>3. me = [at |-> me.at, mode |-> me.mode, todo |-> me.todo, took |-> me.took,
                kept |-> me.kept, text |-> me.text, slot |-> me.slot]
      BY DEF WorkerType
    <2>4. q.at = "line"
      BY <2>2, <2>3
    <2>5. worker' = [worker EXCEPT ![w] = q] \/ worker' = [worker EXCEPT ![w] = lock]
      BY <1>1, <1>3, <1>6, <2>1, <2>2 DEF ReadLog
    <2>6. handled' = handled
      BY <1>6 DEF ReadLog
    <2> QED BY <1>1, <1>3, <2>4, <2>5, <2>6, TurnsAway
  <1>7. CASE ReadQueue(w)
    <2>1. PICK r : r = Resting
      OBVIOUS
    <2>2. r = [at |-> "idle", mode |-> "live", todo |-> <<>>, took |-> {},
               kept |-> <<>>, text |-> NoText, slot |-> NoText]
      BY <2>1 DEF Resting
    <2>3. PICK q : q = [r EXCEPT !.at = "line", !.mode = "replay", !.todo = recovery]
      OBVIOUS
    <2>4. q.at = "line"
      BY <2>2, <2>3
    <2>5. worker' = [worker EXCEPT ![w] = q] \/ worker' = [worker EXCEPT ![w] = Resting]
      BY <1>7, <2>1, <2>3 DEF ReadQueue
    <2>6. handled' = handled
      BY <1>7 DEF ReadQueue
    <2> QED BY <1>1, <1>4, <2>4, <2>5, <2>6, TurnsAway
  <1>8. CASE SortLine(w) \/ StoreFails(w) \/ FileLine(w)
    <2>1. worker[w].at \in Working
      BY <1>8 DEF SortLine, StoreFails, FileLine, Working
    <2>2. CASE Refuse(w) /\ handled' = handled
      BY <1>1, <2>1, <2>2, RefusedLine, ThreadUntouched
    <2>3. CASE FileLine(w)
      <3>1. NextLine(w, FALSE) /\ handled' = handled
        BY <2>3 DEF FileLine
      <3>2. worker'[w].at \in {"line", "unlink", "rewrite"}
            /\ \A v \in Workers : v # w => worker'[v] = worker[v]
        BY <2>1, <3>1, NextShape
      <3>3. \A v \in Workers : OnMessage(v)' => worker'[v] = worker[v]
        BY <3>2 DEF OnMessage
      <3> QED BY <1>1, <3>1, <3>3, ThreadUntouched
    <2>4. CASE SortLine(w) /\ Kind[Line(w)] = "other" /\ Resolve(w)
      <3>1. /\ ~OnMessage(w)' /\ \A v \in Workers : v # w => worker'[v] = worker[v]
            /\ handled' = handled \cup {Line(w)}
        BY <2>1, <2>4, WrittenBy
      <3> QED BY <1>1, <2>4, <3>1, ThreadUntouched
    <2> QED BY <1>8, <2>2, <2>3, <2>4 DEF SortLine, StoreFails, Line
  <1> QED BY <1>5, <1>6, <1>7, <1>8

\* No step of a goroutine undoes what another has shown.
LEMMA ThreadStep ==
    ReceiveInv /\ ReceiveInv' /\ ThreadInv /\ [ReceiveNext]_receiveVars => ThreadInv'
  <1> SUFFICES ASSUME ReceiveInv, ReceiveInv', ThreadInv, [ReceiveNext]_receiveVars
               PROVE  ThreadInv'
    OBVIOUS
  <1>1. ASSUME NEW w \in Workers, HostStep(w) \/ StoreFails(w) PROVE ThreadInv'
    BY <1>1, HostShows, TakeMessageShows, TakeEditShows, MergeShows, DeleteShows, EditShows
       DEF HostStep
  <1>2. ASSUME NEW c \in Clients, AskReplay(c) PROVE ThreadInv'
    BY <1>2, HostShows, WorkersAre
  <1>3. CASE UNCHANGED receiveVars
    BY <1>3, ThreadUntouched DEF receiveVars
  <1> QED BY <1>1, <1>2, <1>3, LoopShows DEF ReceiveNext

\* Once a message and an edit of it are handled, in whatever order, the row shows
\* an edit and no placeholder stands beside it (handleDataMessage,
\* handleEditMessage, materializeMissingSignalEdit).
THEOREM ThreadShows == ReceiveSpec => []ThreadShowsEdit
  <1>1. ReceiveInv /\ ThreadInv => ThreadShowsEdit
    <2> SUFFICES ASSUME ReceiveInv, ThreadInv, NEW l \in handled, Kind[l] = "message",
                        Of[l] \notin muddled
                 PROVE  /\ store[Of[l]].alias = NoText
                        /\ handled \cap EditsOf(Of[l]) # {} => store[Of[l]].row \in EditsOf(Of[l])
      BY DEF ThreadShowsEdit
    <2>1. Of[l] \in Messages
      BY AboutMessage DEF ReceiveInv, ReceiveTypes
    <2>2. Shows(Of[l])
      BY <2>1 DEF ThreadInv
    <2> QED BY <2>2 DEF Shows
  <1> QED BY <1>1, ThreadStart, ThreadStep, ReceiveHolds, PTL DEF ReceiveSpec
=============================================================================
