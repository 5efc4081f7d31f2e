----------------------------- MODULE GoogleSession -----------------------------
(* The Google connection of the daemon: generations of a client, each loaded *)
(* from session.json and installed in the application, whose callbacks run   *)
(* on several goroutines and save the session back; the browser's cookies    *)
(* that are written into the same file; sends that hold on to a client.      *)
EXTENDS Naturals, FiniteSets

CONSTANTS
    Threads,        \* goroutines of the client library and of senders
    MaxGens, MaxPushes, MaxCalled, MaxParks     \* bounds: generations, cookie jars of the browser,
                                                \* events and sends, parks that time out

ASSUME SessionAssumption ==
    MaxGens \in Nat /\ MaxPushes \in Nat /\ MaxCalled \in Nat /\ MaxParks \in Nat

VARIABLES
    file,        \* session.json: the browser's jar it descends from; 0: absent
    offered,     \* jars the browser has given so far
    push,        \* a rewrite of the file in progress: the jar, the file as read, who asked
    gens,        \* generations
    count,       \* of them
    current,     \* the adapter's run, and its reserved start slot
    app,         \* the generation and the client installed in the application
    status,      \* connected, authentication expired, needs repair
    thread,      \* goroutine -> its callback or call
    sup,         \* what the supervisor is about
    reconnect,   \* the goroutine that applies new cookies, and its 2 s of coalescing
    called, parks,    \* events and sends begun, parks timed out
    misjudged    \* history: a generation was ended by a failure of another's client

sessionVars == <<file, offered, push, gens, count, current, app, status, thread, sup, reconnect,
                 called, parks, misjudged>>

Gens == 1..MaxGens
Jars == 1..(MaxPushes + 1)
Places == {"none", "loaded", "listening", "closing", "gone"}
Endings == {"none", "stop", "transient", "expired", "blocked"}
Events == {"data", "refresh", "lost", "unauthorized", "logout", "panic"}
Fresh == [at |-> "none", jar |-> 0, saved |-> 0, admits |-> FALSE, ready |-> FALSE, ends |-> "none"]
Free == [at |-> "idle", g |-> 0, ev |-> "data", jar |-> 0]
NoPush == [jar |-> 0, read |-> FALSE, by |-> "browser"]

SessionTypeOK ==
    /\ file \in {0} \cup Jars /\ offered \in Jars
    /\ push \in [jar : {0} \cup Jars, read : BOOLEAN, by : {"browser", "repair"}]
    /\ gens \in [Gens -> [at : Places, jar : {0} \cup Jars, saved : {0} \cup Jars,
                          admits : BOOLEAN, ready : BOOLEAN, ends : Endings]]
    /\ count \in 0..MaxGens
    /\ current \in [run : 0..MaxGens, starting : BOOLEAN]
    /\ app \in [generation : 0..MaxGens, client : 0..MaxGens]
    /\ status \in [connected : BOOLEAN, expired : BOOLEAN, repair : BOOLEAN]
    /\ thread \in [Threads -> [at : {"idle", "ready", "publish", "save", "write", "handle", "finish", "call",
                                      "report"},
                               g : 0..MaxGens, ev : Events \cup {"send"}, jar : {0} \cup Jars]]
    /\ sup \in {"wants", "starts", "runs", "repairs", "blocked", "parking", "parked"}
    /\ reconnect \in [queued : BOOLEAN, recent : BOOLEAN]
    /\ called \in 0..MaxCalled /\ parks \in 0..MaxParks /\ misjudged \in BOOLEAN

SessionInit ==
    /\ file = 1 /\ offered = 1 /\ push = NoPush
    /\ gens = [g \in Gens |-> Fresh] /\ count = 0
    /\ current = [run |-> 0, starting |-> FALSE]
    /\ app = [generation |-> 0, client |-> 0]
    /\ status = [connected |-> FALSE, expired |-> FALSE, repair |-> FALSE]
    /\ thread = [t \in Threads |-> Free]
    /\ sup = "wants" /\ reconnect = [queued |-> FALSE, recent |-> FALSE]
    /\ called = 0 /\ parks = 0 /\ misjudged = FALSE

\* GoogleGeneration.current: what most callbacks ask first.
IsCurrent(g) == app = [generation |-> g, client |-> g]
\* Callbacks admitted to a run, which its end waits for.
Callbacks(g) == {t \in Threads : thread[t].at \notin {"idle", "call"} /\ thread[t].g = g}
\* A mutant: the end of a run does not wait for them.
NoCallbacks(g) == TRUE
Joined(g) == Callbacks(g) = {}

\* requestFinish: the first reason counts and closes admission.
Finishes(g, why) ==
    [gens EXCEPT ![g] = IF @.ends = "none" THEN [@ EXCEPT !.ends = why, !.admits = FALSE] ELSE @]
Lost(g) == IF IsCurrent(g) THEN [status EXCEPT !.connected = FALSE] ELSE status
AuthExpired(g) ==
    IF IsCurrent(g) THEN [status EXCEPT !.connected = FALSE, !.expired = TRUE] ELSE status
\* The credentials are refused: repaired if a refresh is at hand, else a case for the user.
Unauthorized(g) ==
    \E why \in {"expired", "blocked"} :
       /\ gens' = Finishes(g, why)
       /\ status' = [AuthExpired(g) EXCEPT !.repair = @ \/ why = "blocked"]

-----------------------------------------------------------------------------
(* Start and end of a run.                                                  *)

\* Start reserves the only slot; a run that has not ended yet refuses it.
StartGeneration ==
    /\ sup = "wants"
    /\ \/ /\ current.run # 0 \/ current.starting
          /\ sup' = "blocked"
          /\ UNCHANGED <<current, status, gens, count, app>>
       \/ /\ current = [run |-> 0, starting |-> FALSE] /\ file = 0
          /\ sup' = "blocked"
          /\ UNCHANGED <<current, status, gens, count, app>>
       \/ /\ current = [run |-> 0, starting |-> FALSE] /\ file # 0 /\ count < MaxGens
          /\ sup' = "starts"
          /\ current' = [current EXCEPT !.starting = TRUE]
          /\ count' = count + 1
          /\ gens' = [gens EXCEPT ![count + 1] = [Fresh EXCEPT !.at = "loaded", !.jar = file]]
          /\ UNCHANGED <<status, app>>
    /\ UNCHANGED <<file, offered, push, thread, reconnect, called, parks, misjudged>>
\* BeginGoogleGeneration, and the run that takes the slot: callbacks are admitted from here.
Install(g) ==
    /\ gens[g].at = "loaded" /\ current.starting
    /\ app' = [generation |-> g, client |-> g]
    /\ status' = [status EXCEPT !.connected = FALSE]
    /\ current' = [run |-> g, starting |-> FALSE]
    /\ gens' = [gens EXCEPT ![g].admits = TRUE]
    /\ UNCHANGED <<file, offered, push, count, thread, sup, reconnect, called, parks, misjudged>>
\* applyFailureStatus: a refusal that no refresh helps is a case for the user, whether the
\* credentials are expired or there are none.
FailureStatus(g, why) ==
    CASE why = "transient" -> {Lost(g)}
      [] why = "expired" -> {AuthExpired(g)}
      [] OTHER -> {[AuthExpired(g) EXCEPT !.repair = TRUE], [status EXCEPT !.repair = @ \/ file # 0]}
Connects(g) ==
    /\ gens[g].at = "loaded" /\ current.run = g
    /\ \/ /\ gens' = [gens EXCEPT ![g].at = "listening",
                                    ![g].ends = IF sup = "starts" \/ @ # "none" THEN @ ELSE "stop"]
          /\ UNCHANGED status
       \/ \E why \in {"transient", "expired", "blocked"} :
             /\ gens' = [gens EXCEPT ![g].at = "closing", ![g].admits = FALSE, ![g].ends = why]
             /\ status' \in FailureStatus(g, why)
    /\ sup' = IF sup = "starts" THEN "runs" ELSE sup
    /\ UNCHANGED <<file, offered, push, count, current, app, thread, reconnect, called, parks, misjudged>>

\* coordinate: the finish is taken, callbacks are joined, the client is given up, the
\* supervisor hears of it.
Closes(g) ==
    /\ gens[g].at = "listening" /\ gens[g].ends # "none"
    /\ gens' = [gens EXCEPT ![g].at = "closing", ![g].admits = FALSE]
    /\ UNCHANGED <<file, offered, push, count, current, app, status, thread, sup, reconnect, called,
                   parks, misjudged>>
AfterEnd(why) == CASE why = "transient" -> "wants" [] why = "expired" -> "repairs"
                   [] why = "blocked" -> "blocked" [] OTHER -> sup
Released(g) == IF app.generation = g THEN [status EXCEPT !.connected = FALSE] ELSE status
Releases(g) ==
    /\ gens[g].at = "closing" /\ Joined(g)
    /\ status' = Released(g)
    /\ app' = IF app.generation = g THEN [generation |-> 0, client |-> 0] ELSE app
    /\ current' = IF current.run = g THEN [current EXCEPT !.run = 0] ELSE current
    /\ gens' = [gens EXCEPT ![g].at = "gone"]
    /\ sup' = IF sup = "runs" THEN AfterEnd(gens[g].ends) ELSE sup
    /\ UNCHANGED <<file, offered, push, count, thread, reconnect, called, parks, misjudged>>

-----------------------------------------------------------------------------
(* Callbacks: handleEvent on the library's goroutines.                       *)

Admitted(t, g, ev) ==
    /\ thread[t] = Free /\ gens[g].admits /\ called < MaxCalled
    /\ called' = called + 1
    /\ thread' = [thread EXCEPT ![t] =
                     [at |-> IF ev = "data" THEN "ready" ELSE IF ev = "refresh" THEN "save" ELSE "handle",
                      g |-> g, ev |-> ev, jar |-> 0]]
    /\ UNCHANGED <<file, offered, push, gens, count, current, app, status, sup, reconnect, parks, misjudged>>
MovesOn(t, at) == thread' = [thread EXCEPT ![t].at = at]
\* Ready looks whether the generation is current, then publishes.
LooksReady(t) ==
    LET g == thread[t].g IN
    /\ thread[t].at = "ready"
    /\ MovesOn(t, IF ~gens[g].ready /\ IsCurrent(g) THEN "publish" ELSE "save")
    /\ gens' = [gens EXCEPT ![g].ready = TRUE]
    /\ UNCHANGED <<file, offered, push, count, current, app, status, sup, reconnect, called, parks, misjudged>>
PublishesReady(t) ==
    /\ thread[t].at = "publish"
    /\ status' = [connected |-> TRUE, expired |-> FALSE, repair |-> FALSE]
    /\ MovesOn(t, "save")
    /\ UNCHANGED <<file, offered, push, gens, count, current, app, sup, reconnect, called, parks, misjudged>>
\* maybePersistRotatedCookies and handleAuthRefresh: the client's own copy is written over
\* the file, by way of a temporary one.
SnapshotSession(t) ==
    LET g == thread[t].g IN
    /\ thread[t].at = "save"
    /\ IF thread[t].ev = "data" /\ gens[g].saved = gens[g].jar
       THEN thread' = [thread EXCEPT ![t] = Free]
       ELSE thread' = [thread EXCEPT ![t].at = "write", ![t].jar = gens[g].jar]
    /\ UNCHANGED <<file, offered, push, gens, count, current, app, status, sup, reconnect, called,
                   parks, misjudged>>
SaveSession(t) ==
    LET g == thread[t].g IN
    /\ thread[t].at = "write"
    /\ file' = thread[t].jar
    /\ gens' = [gens EXCEPT ![g].saved = thread[t].jar]
    /\ thread' = [thread EXCEPT ![t] = Free]
    /\ UNCHANGED <<offered, push, count, current, app, status, sup, reconnect, called, parks, misjudged>>
\* The legacy handler, then what the adapter makes of the event.
HandleEnd(t) ==
    LET g == thread[t].g
        ev == thread[t].ev
    IN
    /\ thread[t].at = "handle"
    /\ \/ /\ ev \in {"lost", "panic"}
          /\ status' = Lost(g) /\ gens' = Finishes(g, "transient")
       \/ /\ ev = "unauthorized"
          /\ Unauthorized(g)
    /\ thread' = [thread EXCEPT ![t] = Free]
    /\ UNCHANGED <<file, offered, push, count, current, app, sup, reconnect, called, parks, misjudged>>
\* SessionInvalid forgets the session and the client; then the run is ended.
ForgetSession(t) ==
    LET g == thread[t].g IN
    /\ thread[t].at = "handle" /\ thread[t].ev = "logout"
    /\ status' = Lost(g)
    /\ IF IsCurrent(g) THEN file' = 0 /\ app' = [app EXCEPT !.client = 0]
                       ELSE UNCHANGED <<file, app>>
    /\ MovesOn(t, "finish")
    /\ UNCHANGED <<offered, push, gens, count, current, sup, reconnect, called, parks, misjudged>>
FinishLogout(t) ==
    /\ thread[t].at = "finish"
    /\ gens' = Finishes(thread[t].g, "blocked")
    /\ thread' = [thread EXCEPT ![t] = Free]
    /\ UNCHANGED <<file, offered, push, count, current, app, status, sup, reconnect, called, parks,
                   misjudged>>

-----------------------------------------------------------------------------
(* Sends: a client is looked up once and used for several calls.             *)

BeginSend(t) ==
    /\ thread[t] = Free /\ status.connected /\ app.client # 0 /\ called < MaxCalled
    /\ called' = called + 1
    /\ thread' = [thread EXCEPT ![t] = [at |-> "call", g |-> app.client, ev |-> "send", jar |-> 0]]
    /\ UNCHANGED <<file, offered, push, gens, count, current, app, status, sup, reconnect, parks, misjudged>>
\* The call is taken or refused; a legacy send takes a success for the end of trouble.
SendReturns(t) ==
    /\ thread[t].at = "call"
    /\ thread' = [thread EXCEPT ![t] = Free]
    /\ \/ UNCHANGED status
       \/ status' = [status EXCEPT !.repair = FALSE]
    /\ UNCHANGED <<file, offered, push, gens, count, current, app, sup, reconnect, called, parks, misjudged>>
\* Or it fails for the credentials, which is reported to the run that is current by then.
\* A legacy send marks the application first, and reports only if it is the first to.
SendFails(t) ==
    LET r == current.run IN
    /\ thread[t].at = "call"
    /\ \E legacy \in BOOLEAN :
          /\ status' = IF legacy THEN [status EXCEPT !.connected = FALSE, !.expired = TRUE] ELSE status
          /\ IF r # 0 /\ gens[r].admits /\ (legacy => ~status.expired)
             THEN /\ thread' = [thread EXCEPT ![t].at = "report", ![t].g = r]
                  /\ misjudged' = (misjudged \/ r # thread[t].g)
             ELSE /\ thread' = [thread EXCEPT ![t] = Free]
                  /\ UNCHANGED misjudged
    /\ UNCHANGED <<file, offered, push, gens, count, current, app, sup, reconnect, called, parks>>
\* The phone has dropped this device: the account waits for the user.
SendFindsUnlinked(t) ==
    LET r == current.run IN
    /\ thread[t].at = "call" /\ ~status.repair
    /\ status' = [status EXCEPT !.repair = TRUE]
    /\ IF r # 0 /\ gens[r].admits
       THEN /\ gens' = Finishes(r, "blocked")
            /\ misjudged' = (misjudged \/ r # thread[t].g)
       ELSE UNCHANGED <<gens, misjudged>>
    /\ thread' = [thread EXCEPT ![t] = Free]
    /\ UNCHANGED <<file, offered, push, count, current, app, sup, reconnect, called, parks>>
ReportError(t) ==
    LET g == thread[t].g IN
    /\ thread[t].at = "report"
    /\ Unauthorized(g)
    /\ thread' = [thread EXCEPT ![t] = Free]
    /\ UNCHANGED <<file, offered, push, count, current, app, sup, reconnect, called, parks, misjudged>>

-----------------------------------------------------------------------------
(* The browser's cookies.                                                    *)

\* UpdateSessionCookies reads the file, then writes it with another jar.
ReadForUpdate(by) ==
    /\ ~push.read /\ file # 0
    /\ by = "browser" \/ (by = "repair" /\ sup = "repairs")
    /\ offered < MaxPushes + 1 /\ offered' = offered + 1
    /\ push' = [jar |-> offered + 1, read |-> TRUE, by |-> by]
    /\ UNCHANGED <<file, gens, count, current, app, status, thread, sup, reconnect, called, parks, misjudged>>
\* A push asks for a new generation, unless one is being prepared or was a moment ago; a
\* repair goes back to the supervisor.
WriteUpdate ==
    /\ push.read /\ file' = push.jar /\ push' = NoPush
    /\ IF push.by = "repair"
       THEN /\ sup' = (IF sup = "repairs" THEN "wants" ELSE sup)
            /\ status' = [status EXCEPT !.repair = FALSE]
            /\ UNCHANGED reconnect
       ELSE /\ reconnect' = IF reconnect.queued \/ reconnect.recent THEN reconnect
                            ELSE [queued |-> TRUE, recent |-> TRUE]
            /\ UNCHANGED <<sup, status>>
    /\ UNCHANGED <<offered, gens, count, current, app, thread, called, parks, misjudged>>
RepairFails ==
    /\ sup = "repairs" /\ push.by # "repair" /\ sup' = "blocked"
    /\ status' = [status EXCEPT !.repair = TRUE]
    /\ UNCHANGED <<file, offered, push, gens, count, current, app, thread, reconnect, called, parks, misjudged>>
CoalescingPasses ==
    /\ reconnect.recent /\ reconnect' = [reconnect EXCEPT !.recent = FALSE]
    /\ UNCHANGED <<file, offered, push, gens, count, current, app, status, thread, sup, called, parks, misjudged>>
\* The goroutine parks the supervisor: its run is stopped and joined.
Parks ==
    /\ reconnect.queued /\ sup # "parking"
    /\ sup' = "parking"
    /\ gens' = IF current.run # 0 THEN Finishes(current.run, "stop") ELSE gens
    /\ UNCHANGED <<file, offered, push, count, current, app, status, thread, reconnect, called, parks, misjudged>>
\* Joined, or given up after 30 s: a supervisor of its own is started in either case.
StartsFromSession ==
    /\ sup = "parking" /\ reconnect.queued
    /\ \/ current = [run |-> 0, starting |-> FALSE] /\ UNCHANGED parks
       \/ current.run # 0 /\ parks < MaxParks /\ parks' = parks + 1
    /\ sup' = IF file = 0 THEN "parked" ELSE "wants"
    /\ reconnect' = [reconnect EXCEPT !.queued = FALSE]
    /\ UNCHANGED <<file, offered, push, gens, count, current, app, status, thread, called, misjudged>>

\* The user asks for another attempt.
Reconnects ==
    /\ sup = "blocked" /\ called < MaxCalled /\ called' = called + 1
    /\ sup' = "wants"
    /\ UNCHANGED <<file, offered, push, gens, count, current, app, status, thread, reconnect, parks, misjudged>>

SessionNext ==
    \/ StartGeneration \/ Reconnects
    \/ \E g \in Gens : Install(g) \/ Connects(g) \/ Closes(g) \/ Releases(g)
    \/ \E t \in Threads :
          \/ \E g \in Gens, ev \in Events : Admitted(t, g, ev)
          \/ LooksReady(t) \/ PublishesReady(t) \/ SnapshotSession(t) \/ SaveSession(t)
          \/ HandleEnd(t) \/ ForgetSession(t) \/ FinishLogout(t) \/ BeginSend(t) \/ SendReturns(t)
          \/ SendFails(t) \/ SendFindsUnlinked(t) \/ ReportError(t)
    \/ \E by \in {"browser", "repair"} : ReadForUpdate(by)
    \/ WriteUpdate \/ RepairFails \/ CoalescingPasses \/ Parks \/ StartsFromSession
SessionSpec == SessionInit /\ [][SessionNext]_sessionVars

-----------------------------------------------------------------------------
\* The run of g has a reason to end, or is about to be given it by a logout.
Ending(g) ==
    gens[g].ends # "none" \/ \E t \in Threads : thread[t].at = "finish" /\ thread[t].g = g

\* The daemon says it is connected only while the generation that the application has is
\* the adapter's run, and that run has been ready. Its client is installed unless the run
\* is ending: a callback that found it current publishes after a logout took the client
\* (google_generation.go:71-79, 134-145). The end of a run leaves nothing published, and an
\* old run never takes the status or the client of the next.
ConnectedIsLive ==
    /\ status.connected => \E g \in Gens : current.run = g /\ app.generation = g /\ gens[g].ready
                                         /\ (app.client = g \/ Ending(g))
    /\ \A g \in Gens : gens[g].at \in {"none", "gone"} => app.generation # g /\ app.client # g
    /\ \A g \in Gens : gens[g].at \in {"listening", "closing"} => current.run = g

\* The client of the run is installed whenever the daemon says it is connected: not in the
\* window of a logout above.
ConnectedHasClient == status.connected => app.client # 0

\* Newer cookies of the browser are not replaced by those of a client loaded before.
NewestJarKept == [][file # 0 /\ file' # 0 => file' >= file]_sessionVars
\* What the server has logged out is not brought back by a save under way.
LoggedOutStaysOut == [][file = 0 => file' = 0]_sessionVars
\* A cookie write is never dropped: with nothing under way and the burst over, the run has
\* loaded the newest jar.
CookiesReachRun ==
    sup = "runs" /\ ~reconnect.queued /\ ~reconnect.recent /\ ~push.read /\ current.run # 0
    /\ gens[current.run].at = "listening" /\ gens[current.run].ends = "none"
        => gens[current.run].jar >= file
\* A run is ended by failures of its own client.
OwnFailureEnds == ~misjudged
=============================================================================
