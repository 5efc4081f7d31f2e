---------------------------- MODULE AccountControl ----------------------------
(* What stands between the user's buttons and a platform's Supervisor in    *)
(* the daemon: signalSupervisorControl, whatsappSupervisorControl and       *)
(* googleSupervisorControl (src/cmd/*_supervisor.go, src/cmd/google_pair.go).*)
(* A Supervisor's Stop is terminal, so a control replaces its supervisor:   *)
(* after an unpairing, after an expired pairing, after a new session file.  *)
(* Each caller is a goroutine that holds the control's mutex only between   *)
(* its calls; connecting, unpairing, pairing, cookie pushes, the park       *)
(* retest and the shutdown all run at once.                                 *)
(* A supervisor is abstract here (Supervisor.tla has the detail): where it  *)
(* stands, and whether a generation or a pairing of it is alive.            *)
EXTENDS Integers, FiniteSets

CONSTANTS
    Platforms,   \* the platforms whose controls are looked at
    Tasks,       \* slots for the goroutines that call a control
    MaxSups,     \* bound: supervisors ever built
    MaxCalls     \* bound: calls into the control

ASSUME ControlConstants ==
    /\ Platforms \subseteq {"signal", "whatsapp", "google"}
    /\ MaxSups \in Nat \ {0} /\ MaxCalls \in Nat

Sups == 1 .. MaxSups
\* "fresh" is StateStopped before the first Start; "unreadable" is the blocked
\* state with the fingerprint signal_account_unreadable, "blocked" any other.
SupStates == {"unbuilt", "fresh", "unpaired", "pairing", "live", "unreadable", "blocked",
              "draining", "ended"}
Calls == [signal   |-> {"connect", "unpair", "stop", "retest"},
          whatsapp |-> {"connect", "unpair", "stop"},
          google   |-> {"connect", "unpair", "stop", "pair", "cookies"}]

VARIABLES
    platform,   \* chosen at the start
    control,    \* the control's fields under its mutex
    sup,        \* supervisor -> state
    session,    \* the account's state on disk: "present", "absent"; Google's
                \* pairing moves it to "backup"
    task,       \* slot -> what its goroutine is doing
    watch,      \* WhatsApp's pair watcher: the supervisor it watches, or 0
    awaiting,   \* supervisors some awaitStoppedSupervisor waits for
    calls       \* calls so far

controlVars == <<platform, control, sup, session, task, watch, awaiting, calls>>

NoTask == [op |-> "none", at |-> "idle", sup |-> 1, saw |-> "unbuilt"]

ControlInit ==
    /\ platform \in Platforms
    /\ session \in {"present", "absent"}
    /\ control = [supervisor |-> 1, stopped |-> FALSE, stopping |-> FALSE, closed |-> FALSE,
                  unpairing |-> FALSE, pairing |-> "none", canceled |-> FALSE, queued |-> FALSE]
    /\ sup = [s \in Sups |-> IF s = 1 THEN IF platform = "whatsapp" /\ session = "absent"
                                           THEN "unpaired" ELSE "fresh"
                             ELSE "unbuilt"]
    /\ task = [t \in Tasks |-> NoTask]
    /\ watch = 0
    /\ awaiting = {}
    /\ calls = 0

-----------------------------------------------------------------------------
(* The supervisor, as its callers see it.                                   *)

\* It may be using the account: a generation, a pairing, or one that has been
\* told to stop and has not.
Owner(s) == sup[s] \in {"pairing", "live", "draining"}
Owners == {s \in Sups : Owner(s)}
Blocked(state) == state \in {"blocked", "unreadable"}

\* newSupervisor: Signal and Google begin stopped, WhatsApp as its session says.
Initial == IF platform = "whatsapp" /\ session # "present" THEN "unpaired" ELSE "fresh"
CanBuild == \E s \in Sups : sup[s] = "unbuilt"
Next1 == CHOOSE s \in Sups : sup[s] = "unbuilt" /\ \A r \in Sups : sup[r] = "unbuilt" => s <= r

\* Supervisor.Start, RetryBlocked and BeginPairing do nothing in any other state.
Started(s) == IF sup[s] = "fresh" THEN [sup EXCEPT ![s] = "live"] ELSE sup
Retried(s) == IF Blocked(sup[s]) THEN [sup EXCEPT ![s] = "live"] ELSE sup
Pairing(s) == IF sup[s] = "unpaired" THEN [sup EXCEPT ![s] = "pairing"] ELSE sup
\* Supervisor.Stop: terminal, and done once nothing of it is alive.
Stopped(s) ==
    CASE sup[s] = "ended" -> sup
      [] Owner(s)         -> [sup EXCEPT ![s] = "draining"]
      [] OTHER            -> [sup EXCEPT ![s] = "ended"]

\* What a supervisor does by itself: its generation parks, its pairing ends,
\* its account is logged out remotely; and the end of its stop.
SupervisorMoves(s) ==
    /\ \/ /\ sup[s] = "live"
          /\ \/ /\ sup' = [sup EXCEPT ![s] = "blocked"]
                /\ session' = session
             \/ /\ platform = "whatsapp"
                /\ sup' = [sup EXCEPT ![s] = "blocked"]
                /\ session' = "absent"
             \/ /\ platform = "signal"
                /\ \E state \in {"unreadable", "unpaired"} : sup' = [sup EXCEPT ![s] = state]
                /\ session' = session
       \/ /\ sup[s] = "pairing"
          /\ \/ sup' = [sup EXCEPT ![s] = "fresh"] /\ session' = "present"
             \/ /\ \E state \in {"unpaired", "blocked"} : sup' = [sup EXCEPT ![s] = state]
                /\ session' = session
    /\ UNCHANGED <<platform, control, task, watch, awaiting, calls>>

StopCompletes(s) ==
    /\ sup[s] = "draining"
    /\ sup' = [sup EXCEPT ![s] = "ended"]
    /\ UNCHANGED <<platform, control, session, task, watch, awaiting, calls>>

-----------------------------------------------------------------------------
(* One call: its goroutine and its steps between two holds of the mutex.    *)

At(t, at) == task[t].at = at
Goto(t, at) == task' = [task EXCEPT ![t].at = at]
Ends(t) == task' = [task EXCEPT ![t] = NoTask]
Idle == UNCHANGED <<platform, calls>>
\* The mutant of Refused forgets who is stopping.
RefusedWhenClosed == control.closed
Refused == control.closed \/ control.stopping

\* The first hold of Connect/Reconnect/activeSupervisor: refused while stopping
\* or closed; a stopped supervisor is replaced (Google only from a session).
Connect(t) ==
    /\ At(t, "connect")
    /\ IF Refused \/ (control.stopped /\ platform = "google" /\ session # "present")
       THEN Ends(t) /\ UNCHANGED <<control, sup>>
       ELSE IF control.stopped
       THEN /\ CanBuild
            /\ sup' = [sup EXCEPT ![Next1] = Initial]
            /\ control' = [control EXCEPT !.supervisor = Next1, !.stopped = FALSE]
            /\ task' = [task EXCEPT ![t].at = "look", ![t].sup = Next1]
       ELSE /\ task' = [task EXCEPT ![t].at = "look", ![t].sup = control.supervisor]
            /\ UNCHANGED <<control, sup>>
    /\ Idle /\ UNCHANGED <<session, watch, awaiting>>

\* Snapshot, outside the mutex.
Look(t) ==
    /\ At(t, "look")
    /\ task' = [task EXCEPT ![t].at = "act", ![t].saw = sup[task[t].sup]]
    /\ Idle /\ UNCHANGED <<control, sup, session, watch, awaiting>>

\* What Connect/Reconnect do with the state they saw.  A click while the
\* supervisor works is a no-op.
Act(t) ==
    LET s == task[t].sup
        saw == task[t].saw
    IN  /\ At(t, "act")
        /\ CASE saw = "fresh" /\ (platform # "whatsapp" \/ session = "present") ->
                  sup' = Started(s) /\ Ends(t)
             [] saw = "fresh" /\ platform = "whatsapp" /\ session # "present" ->
                  sup' = Pairing(s) /\ Goto(t, "watch")
             [] saw = "unpaired" /\ platform = "whatsapp" ->
                  sup' = Pairing(s) /\ Goto(t, "watch")
             [] saw = "unpaired" /\ platform = "signal" ->
                  Goto(t, "replace") /\ UNCHANGED sup
             [] Blocked(saw) /\ platform # "whatsapp" ->
                  sup' = Retried(s) /\ Ends(t)
             [] Blocked(saw) /\ platform = "whatsapp" /\ session = "absent" ->
                  Goto(t, "replace") /\ UNCHANGED sup
             [] OTHER -> Ends(t) /\ UNCHANGED sup
        /\ Idle /\ UNCHANGED <<control, session, watch, awaiting>>

\* maybeRetestPark: a look of its own, then Connect.
RetestLook(t) ==
    /\ At(t, "retest")
    /\ IF ~Refused /\ ~control.stopped /\ sup[control.supervisor] = "unreadable"
       THEN Goto(t, "connect") ELSE Ends(t)
    /\ Idle /\ UNCHANGED <<control, sup, session, watch, awaiting>>

\* startPairWatcher, after BeginPairing was accepted.
Watch(t) ==
    LET s == task[t].sup IN
    /\ At(t, "watch")
    /\ watch' = IF Refused \/ control.supervisor # s \/ watch # 0 \/ sup[s] # "pairing"
                THEN watch ELSE s
    /\ Ends(t)
    /\ Idle /\ UNCHANGED <<control, sup, session, awaiting>>

\* The watcher starts the supervisor once the pairing has installed a session,
\* and gives up in any other state but pairing, or when it is cancelled.
WatchStep ==
    /\ watch # 0
    /\ \/ sup[watch] = "fresh" /\ sup' = Started(watch) /\ watch' = 0
       \/ (sup[watch] # "pairing" \/ control.stopping) /\ watch' = 0 /\ UNCHANGED sup
    /\ UNCHANGED <<platform, control, session, task, awaiting, calls>>

\* restartUnpaired and rebuildUnpairedSupervisor claim the replacement.
Replace(t) ==
    LET s == task[t].sup IN
    /\ At(t, "replace")
    /\ IF Refused THEN Ends(t) /\ UNCHANGED <<control, sup>>
       ELSE IF control.supervisor # s
       THEN /\ IF platform = "whatsapp" THEN Goto(t, "connect") ELSE Ends(t)
            /\ UNCHANGED <<control, sup>>
       ELSE /\ control' = [control EXCEPT !.stopping = TRUE]
            /\ sup' = Stopped(s)
            /\ Goto(t, "wait")
    /\ Idle /\ UNCHANGED <<session, watch, awaiting>>

\* StopAndUnpair of Signal and WhatsApp; the shutdown's Stop of any control.
UnpairOrStop(t) ==
    LET s == control.supervisor IN
    /\ \/ At(t, "stop")
       \/ At(t, "unpair") /\ platform # "google" /\ ~Refused
    /\ control' = [control EXCEPT !.stopping = TRUE,
                       !.closed = IF At(t, "stop") THEN TRUE ELSE @]
    /\ sup' = Stopped(s)
    /\ task' = [task EXCEPT ![t].at = "wait", ![t].sup = s]
    /\ Idle /\ UNCHANGED <<session, watch, awaiting>>

UnpairRefused(t) ==
    /\ At(t, "unpair") /\ platform # "google" /\ Refused
    /\ Ends(t)
    /\ Idle /\ UNCHANGED <<control, sup, session, watch, awaiting>>

\* parkSupervisor, of Google's unpairing, pairing and cookie reconnect: an
\* already stopped supervisor is enough.  A refusal fails the unpairing and the
\* pairing; the cookie reconnect only logs it and goes on.
Park(t) ==
    LET s == control.supervisor
        failed == IF task[t].op = "cookies" THEN "start" ELSE "failed"
    IN  /\ At(t, "park")
        /\ IF Refused THEN Goto(t, failed) /\ UNCHANGED <<control, sup>>
           ELSE IF control.stopped THEN Goto(t, "parked") /\ UNCHANGED <<control, sup>>
           ELSE /\ control' = [control EXCEPT !.stopping = TRUE]
                /\ sup' = Stopped(s)
                /\ task' = [task EXCEPT ![t].at = "wait", ![t].sup = s]
        /\ Idle /\ UNCHANGED <<session, watch, awaiting>>

\* Supervisor.Stop returned: what follows depends on who called it.  WhatsApp
\* also joins its pair watcher.
Joined(t) ==
    LET s == task[t].sup
        freed == [control EXCEPT !.stopped = TRUE, !.stopping = FALSE]
    IN  /\ At(t, "wait") /\ sup[s] = "ended"
        /\ platform = "whatsapp" => watch = 0
        /\ CASE task[t].op = "stop" -> control' = freed /\ Ends(t) /\ UNCHANGED sup
             [] task[t].op = "unpair" /\ platform # "google" ->
                  Goto(t, "erase") /\ UNCHANGED <<control, sup>>
             [] platform = "google" /\ task[t].op \in {"unpair", "pair", "cookies"} ->
                  control' = freed /\ Goto(t, "parked") /\ UNCHANGED sup
             [] platform = "whatsapp" /\ task[t].op = "connect" ->
                  /\ control' = IF control.closed THEN [control EXCEPT !.stopping = FALSE] ELSE freed
                  /\ IF control.closed THEN Ends(t) ELSE Goto(t, "connect")
                  /\ UNCHANGED sup
             [] platform = "signal" /\ task[t].op \in {"connect", "retest"} ->
                  IF control.closed \/ ~CanBuild
                  THEN control' = freed /\ Ends(t) /\ UNCHANGED sup
                  ELSE /\ control' = [control EXCEPT !.supervisor = Next1, !.stopped = FALSE,
                                                     !.stopping = FALSE]
                       /\ sup' = [sup EXCEPT ![Next1] = Initial]
                       /\ task' = [task EXCEPT ![t].at = "begin", ![t].sup = Next1]
        /\ Idle /\ UNCHANGED <<session, watch, awaiting>>

\* Supervisor.Stop timed out: the call fails, a goroutine goes on waiting and
\* clears the flags later.  A shutdown gives up (and clears them at once, but
\* WhatsApp's).
StopTimesOut(t) ==
    LET s == task[t].sup IN
    /\ At(t, "wait") /\ sup[s] = "draining"
    /\ IF task[t].op = "stop"
       THEN /\ control' = IF platform = "whatsapp" THEN control
                          ELSE [control EXCEPT !.stopped = TRUE, !.stopping = FALSE]
            /\ Ends(t)
            /\ UNCHANGED awaiting
       ELSE /\ awaiting' = awaiting \cup {s}
            /\ CASE task[t].op = "cookies" -> Goto(t, "start")
                 [] platform = "google" /\ task[t].op \in {"pair", "unpair"} -> Goto(t, "failed")
                 [] OTHER -> Ends(t)
            /\ UNCHANGED control
    /\ Idle /\ UNCHANGED <<sup, session, watch>>

\* Mutant of AwaitStopped: the control stays stopping.
AwaitStoppedSilently(s) ==
    /\ s \in awaiting /\ sup[s] = "ended"
    /\ platform = "whatsapp" => watch = 0
    /\ awaiting' = awaiting \ {s}
    /\ control' = IF control.supervisor = s /\ ~control.closed
                  THEN [control EXCEPT !.stopped = TRUE] ELSE control
    /\ UNCHANGED <<platform, sup, session, task, watch, calls>>

\* awaitStoppedSupervisor
AwaitStopped(s) ==
    /\ s \in awaiting /\ sup[s] = "ended"
    /\ platform = "whatsapp" => watch = 0
    /\ awaiting' = awaiting \ {s}
    /\ control' = IF control.supervisor = s /\ ~control.closed
                  THEN [control EXCEPT !.stopped = TRUE, !.stopping = FALSE] ELSE control
    /\ UNCHANGED <<platform, sup, session, task, watch, calls>>

\* The state of the account is deleted; then the control is free again.
Erase(t) ==
    /\ At(t, "erase")
    /\ session' = "absent"
    /\ control' = IF platform = "google" THEN [control EXCEPT !.unpairing = FALSE]
                  ELSE [control EXCEPT !.stopped = TRUE, !.stopping = FALSE]
    /\ Ends(t)
    /\ Idle /\ UNCHANGED <<sup, watch, awaiting>>

\* The last Start of restartUnpaired and of startSupervisorFromSession.
Begin(t) ==
    /\ At(t, "begin")
    /\ sup' = Started(task[t].sup)
    /\ IF task[t].op = "pair" THEN Goto(t, "online") ELSE Ends(t)
    /\ control' = IF task[t].op = "cookies" THEN [control EXCEPT !.queued = FALSE] ELSE control
    /\ Idle /\ UNCHANGED <<session, watch, awaiting>>

-----------------------------------------------------------------------------
(* Google: pairing from pasted cookies, and the cookie bridge.              *)

\* StopAndUnpair: announces itself, cancels a pairing and waits for it.
GoogleUnpair(t) ==
    /\ platform = "google" /\ At(t, "unpair")
    /\ control' = [control EXCEPT !.unpairing = TRUE, !.canceled = TRUE]
    /\ Goto(t, "join_pairing")
    /\ Idle /\ UNCHANGED <<sup, session, watch, awaiting>>

JoinPairing(t) ==
    /\ At(t, "join_pairing")
    /\ \A r \in Tasks : task[r].op # "pair"
    /\ Goto(t, "park")
    /\ Idle /\ UNCHANGED <<control, sup, session, watch, awaiting>>

\* StartGoogleAccountPair: one pairing at a time, none during an unpairing.
GooglePair(t) ==
    /\ At(t, "pair")
    /\ IF control.closed \/ control.unpairing \/ control.pairing = "active"
       THEN Ends(t) /\ UNCHANGED control
       ELSE Goto(t, "park") /\ control' = [control EXCEPT !.pairing = "active", !.canceled = FALSE]
    /\ Idle /\ UNCHANGED <<sup, session, watch, awaiting>>

\* After parkSupervisor: an unpairing erases; a pairing first tries the cookies
\* in the session it has, and otherwise moves it aside and pairs anew; a cookie
\* reconnect starts.
Parked(t) ==
    /\ At(t, "parked")
    /\ CASE task[t].op = "unpair" -> Goto(t, "erase") /\ UNCHANGED session
         [] task[t].op = "cookies" -> Goto(t, "start") /\ UNCHANGED session
         [] task[t].op = "pair" /\ session = "present" -> Goto(t, "start") /\ UNCHANGED session
         [] task[t].op = "pair" /\ session # "present" -> Goto(t, "gaia") /\ UNCHANGED session
    /\ Idle /\ UNCHANGED <<control, sup, watch, awaiting>>

\* startSupervisorFromSession: it needs a session file and an open control,
\* and replaces whatever supervisor the control has.
StartFromSession(t) ==
    /\ At(t, "start")
    /\ IF session # "present" \/ control.closed
       THEN /\ Goto(t, IF task[t].op = "pair" /\ task[t].saw # "fresh" THEN "fallback" ELSE "failed")
            /\ UNCHANGED <<control, sup>>
       ELSE /\ CanBuild
            /\ sup' = [sup EXCEPT ![Next1] = "fresh"]
            /\ control' = [control EXCEPT !.supervisor = Next1, !.stopped = FALSE]
            /\ task' = [task EXCEPT ![t].at = "begin", ![t].sup = Next1]
    /\ Idle /\ UNCHANGED <<session, watch, awaiting>>

\* waitForGoogleOnline: done, or the pairing goes on with a new account link -
\* unless it had one already.
Online(t) ==
    /\ At(t, "online")
    /\ \/ /\ control' = [control EXCEPT !.pairing = "none"]
          /\ Ends(t)
       \/ /\ Goto(t, IF task[t].saw = "fresh" THEN "failed" ELSE "fallback")
          /\ UNCHANGED control
    /\ Idle /\ UNCHANGED <<sup, session, watch, awaiting>>

\* backupAndRemoveSession, then the emoji pairing: it saves a new session and
\* drops the backup, or restores the backup.
Fallback(t) ==
    /\ At(t, "fallback")
    /\ session' = IF session = "present" THEN "backup" ELSE session
    /\ Goto(t, "gaia")
    /\ Idle /\ UNCHANGED <<control, sup, watch, awaiting>>

Gaia(t) ==
    /\ At(t, "gaia")
    /\ \/ /\ ~control.canceled
          /\ session' = "present"
          /\ task' = [task EXCEPT ![t].at = "start", ![t].saw = "fresh"]
       \/ /\ session' = IF session = "backup" THEN "present" ELSE session
          /\ Goto(t, "failed")
    /\ Idle /\ UNCHANGED <<control, sup, watch, awaiting>>

\* A failed pairing may be tried again; a failed unpairing or cookie reconnect
\* only clears its own flag.
Failed(t) ==
    /\ At(t, "failed")
    /\ control' = CASE task[t].op = "pair"    -> [control EXCEPT !.pairing = "failed"]
                    [] task[t].op = "unpair"  -> [control EXCEPT !.unpairing = FALSE]
                    [] task[t].op = "cookies" -> [control EXCEPT !.queued = FALSE]
                    [] OTHER -> control
    /\ Ends(t)
    /\ Idle /\ UNCHANGED <<sup, session, watch, awaiting>>

-----------------------------------------------------------------------------
\* A call arrives.  One cookie reconnect is queued at a time; the retest is one
\* goroutine, which the shutdown ends; there is one shutdown.
Call(t, op) ==
    /\ task[t].op = "none" /\ calls < MaxCalls
    /\ calls' = calls + 1
    /\ op \in {"retest", "stop"} => ~control.closed /\ \A r \in Tasks : task[r].op # op
    /\ op = "cookies" => ~control.queued /\ session = "present"
    /\ task' = [task EXCEPT ![t] = [NoTask EXCEPT !.op = op,
                    !.at = IF op = "cookies" THEN "park" ELSE op]]
    /\ control' = IF op = "cookies" THEN [control EXCEPT !.queued = TRUE] ELSE control
    /\ UNCHANGED <<platform, sup, session, watch, awaiting>>

TaskStep(t) ==
    \/ Connect(t) \/ Look(t) \/ Act(t) \/ RetestLook(t) \/ Watch(t) \/ Replace(t)
    \/ UnpairOrStop(t) \/ UnpairRefused(t) \/ Park(t) \/ Joined(t)
    \/ Erase(t) \/ Begin(t) \/ GoogleUnpair(t) \/ JoinPairing(t) \/ GooglePair(t)
    \/ Parked(t) \/ StartFromSession(t) \/ Online(t) \/ Fallback(t) \/ Gaia(t) \/ Failed(t)

ControlNext ==
    \/ \E t \in Tasks : (\E op \in Calls[platform] : Call(t, op)) \/ TaskStep(t) \/ StopTimesOut(t)
    \/ \E s \in Sups : SupervisorMoves(s) \/ StopCompletes(s) \/ AwaitStopped(s)
    \/ WatchStep

\* Goroutines are scheduled, and a supervisor that was told to stop does
\* (Supervisor.tla, StopEnds).
ControlFairness ==
    /\ \A t \in Tasks : WF_controlVars(TaskStep(t))
    /\ \A s \in Sups : WF_controlVars(StopCompletes(s)) /\ WF_controlVars(AwaitStopped(s))
    /\ WF_controlVars(WatchStep)
ControlSpec == ControlInit /\ [][ControlNext]_controlVars /\ ControlFairness

-----------------------------------------------------------------------------
(* Properties.                                                              *)

ControlTypeOK ==
    /\ platform \in Platforms
    /\ control \in [supervisor : Sups, stopped : BOOLEAN, stopping : BOOLEAN,
                    closed : BOOLEAN, unpairing : BOOLEAN,
                    pairing : {"none", "active", "failed"}, canceled : BOOLEAN, queued : BOOLEAN]
    /\ sup \in [Sups -> SupStates]
    /\ sup[control.supervisor] # "unbuilt"
    /\ session \in {"present", "absent", "backup"}
    /\ watch \in {0} \cup Sups
    /\ awaiting \subseteq Sups

\* Signal and WhatsApp: whatever is clicked while a stop, an unpairing, a
\* restart or the shutdown is under way, at most one supervisor can be using
\* the account.
OneOwner == platform # "google" => Cardinality(Owners) <= 1

\* Signal and WhatsApp: while the account's state is being deleted no
\* supervisor, old or new, is alive.
UnpairAlone == platform # "google" => \A t \in Tasks : At(t, "erase") => Owners = {}

\* Once the shutdown's Stop is over nothing is started any more, although a
\* connect, a restart or the pair watcher may have been between two steps.
ShutdownIsFinal ==
    platform # "google" /\ control.closed /\ control.stopped =>
        \A s \in Sups : sup[s] \notin {"live", "pairing"}

\* Google: the session file is aside only while the new pairing it was moved
\* aside for is still trying.
SessionComesBack == session = "backup" => \E t \in Tasks : task[t].op = "pair" /\ At(t, "gaia")

\* Signal and WhatsApp: a control that refuses calls because it is stopping
\* stops refusing them, also after a stop that timed out, until the shutdown.
\* (Google's does not: its cookie reconnect goes on after a stop that timed out,
\* replaces the supervisor, and the goroutine that would clear the flag finds
\* another one.)
ControlComesBack ==
    platform # "google" /\ control.stopping ~> ~control.stopping \/ control.closed

\* What Reconnect's comment promises of a duplicate request, for Google: never a
\* second owner.
NoSecondOwner == Cardinality(Owners) <= 1

\* What the comment of StartParkRetest says: only the unreadable park is retried
\* without the user.
RetestOnlyUnreadable ==
    [][\A t \in Tasks : task[t].op = "retest" /\ At(t, "act") /\ sup' # sup
          => task[t].saw # "blocked"]_controlVars
=============================================================================
