----------------------------- MODULE Supervisor ------------------------------
(***************************************************************************)
(* The supervisor of one account's connection.  One goroutine, the loop,    *)
(* owns all decisions; it selects among commands, timer deadlines, results  *)
(* of workers (start, probe, repair, pairing) and signals of the run.       *)
(* Adapters start and stop connection generations and call back into a      *)
(* sink behind a generation fence.                                          *)
(*                                                                          *)
(* Time is kept only as far as it decides: whether the loop's timer is due, *)
(* whether the liveness deadline has passed, whether a ban still holds.     *)
(***************************************************************************)
EXTENDS Naturals, Sequences, FiniteSets

CONSTANTS
    HasRepairer, HasPairer,  \* collaborators the account was given
    MaxSame,                 \* Policy.MaxSameFingerprint
    MaxGenerations,          \* bound on connection generations
    MaxPairings              \* bound on pairing attempts

ASSUME SupervisorAssumption ==
    /\ HasRepairer \in BOOLEAN /\ HasPairer \in BOOLEAN
    /\ MaxSame \in Nat \ {0} /\ MaxGenerations \in Nat \ {0} /\ MaxPairings \in Nat

VARIABLES
    loop,        \* supervisorLoop and the snapshot it publishes
    closing,     \* Stop was called
    starter,     \* the worker in Lifecycle.Start and its result channel
    prober,      \* the worker in Run.Probe
    repairer,    \* the worker in RepairCredentials
    pairer,      \* the worker in Pair
    pairEvents,  \* its event channel
    runs,        \* generations -> what became of their run
    sig,         \* channels of the latest run
    forwarding,  \* generations with a callback inside the fence
    activity,    \* generations with queued activity
    log          \* history, see LogType

env  == <<starter, prober, repairer, pairer, pairEvents, runs, sig>>
vars == <<loop, closing, starter, prober, repairer, pairer, pairEvents, runs, sig,
          forwarding, activity, log>>

-----------------------------------------------------------------------------
(* State *)

Generations == 1..MaxGenerations
Classes     == {"transient", "limited", "credentials", "unpaired", "terminal"}
States      == {"unpaired", "stopped", "pairing", "connecting", "online", "degraded",
                "backoff", "repairing", "blocked", "stopping"}

\* timer, due: purpose of the timer and whether its deadline has passed.
\* silent: the liveness deadline has passed.  starting, late: startResults is
\* awaited, startTimedOut.  reply: a caller waits for the first attempt.  open:
\* the fence admits the generation.  canceled: so is its context.  run: the
\* generation whose run is installed; listens: its channels still selected.
\* same, count: the failure class met last and how often.  last: what an exit
\* from blocked needs of lastFailure.  banned: RetryAt is ahead of an unpaired account.
Timers      == {"none", "connect", "liveness", "backoff", "probe", "pair"}
Reasons     == {"none", "credentials", "pair", "other"}
ProbePlaces == {"none", "waiting", "late"}
PairPlaces  == {"none", "active", "expired"}
LoopPlaces  == {"running", "leaving", "joining", "stopped"}

LoopType ==
    [pc : LoopPlaces, state : States, gen : 0..MaxGenerations,
     timer : Timers, due : BOOLEAN,
     silent : BOOLEAN, starting : BOOLEAN, late : BOOLEAN, reply : BOOLEAN,
     open : BOOLEAN, canceled : BOOLEAN, run : 0..MaxGenerations,
     listens : SUBSET {"ready", "done"}, same : Classes \cup {"none"}, count : 0..MaxSame,
     last : Reasons, probe : ProbePlaces, repairing : BOOLEAN,
     pairing : PairPlaces, pairings : 0..MaxPairings, banned : BOOLEAN]

EventBound  == 2    \* pairing events in flight
Outcomes    == [run : BOOLEAN, err : Classes \cup {"none"}]
StarterType == [pc : {"idle", "calling", "returned", "sent"}, out : Outcomes]
NoOutcome   == [run |-> FALSE, err |-> "none"]
Idle        == [pc |-> "idle", out |-> NoOutcome]
NoSignals   == [ready |-> FALSE, done |-> "none"]

\* owed: credentials expired and were not repaired.  repairs: repairs begun by
\* the supervisor itself since anything else happened to the connection.
\* ban: the platform banned pairing; lapsed: the pairing had expired before.
LogType == [owed : BOOLEAN, repairs : Nat, ban : BOOLEAN, lapsed : BOOLEAN]

Init ==
    /\ \E state \in {"stopped", "unpaired"} : loop =
        [pc |-> "running", state |-> state, gen |-> 0, timer |-> "none", due |-> FALSE,
         silent |-> FALSE, starting |-> FALSE, late |-> FALSE, reply |-> FALSE,
         open |-> FALSE, canceled |-> FALSE, run |-> 0, listens |-> {}, same |-> "none",
         count |-> 0, last |-> "none", probe |-> "none", repairing |-> FALSE,
         pairing |-> "none", pairings |-> 0, banned |-> FALSE]
    /\ closing = FALSE /\ starter = Idle /\ prober = "none" /\ repairer = "none"
    /\ pairer = "none" /\ pairEvents = <<>>
    /\ runs = [g \in Generations |-> "none"] /\ sig = NoSignals
    /\ forwarding = {} /\ activity = {}
    /\ log = [owed |-> FALSE, repairs |-> 0, ban |-> FALSE, lapsed |-> FALSE]

\* Run.Stop is called for the run of generation g.
StopRun(g) == [runs EXCEPT ![g] = IF @ = "live" THEN "stopped" ELSE "twice"]

-----------------------------------------------------------------------------
(* What handlers make of the loop *)

NoTimer(l)    == [l EXCEPT !.timer = "none", !.due = FALSE]
Timer(l, t)   == [l EXCEPT !.timer = t, !.due = FALSE]
NoHistory(l)  == [l EXCEPT !.same = "none", !.count = 0, !.last = "none", !.banned = FALSE]
TimedOut      == loop.timer = "connect" /\ loop.due

\* clearGenerationContext.  It cancels the context before it closes the fence; one
\* step stands for both where the start worker has handed over its answer, as nobody
\* else acts on the context (Overdue and Closed are where it is still out).
NoContext(l) == [l EXCEPT !.canceled = TRUE, !.open = FALSE, !.listens = {}]

\* retireCurrent; Becomes stops the run.
Retired(l) == [NoContext(l) EXCEPT !.run = 0, !.probe = "none"]

\* startGeneration, which refuses while the supervisor is closing.
StartGeneration(l) ==
    IF closing \/ l.run # 0 \/ l.starting THEN l
    ELSE [Timer(l, "connect") EXCEPT
             !.gen = @ + 1, !.state = "connecting", !.silent = FALSE, !.banned = FALSE,
             !.starting = TRUE, !.late = FALSE, !.open = TRUE, !.canceled = FALSE]

\* handleConnectTimeout while the start is still out, up to the fence (CloseFence).
Overdue(l) == [NoTimer(l) EXCEPT !.late = TRUE, !.canceled = TRUE]

\* beginCredentialRepair
Repair(l) == [NoTimer(l) EXCEPT
    !.state = IF HasRepairer THEN "repairing" ELSE "blocked",
    !.repairing = HasRepairer, !.last = "credentials", !.banned = FALSE]

\* What a blocked account goes on with, by its last failure.
Resume(l) ==
    CASE l.last = "credentials" -> Repair(NoHistory(l))
      [] l.last = "pair"        -> [NoHistory(l) EXCEPT !.state = "unpaired"]
      [] OTHER                  -> [StartGeneration(NoHistory(l)) EXCEPT !.reply = ~closing]

\* recordFingerprint, with one fingerprint per class.
Counted(l, c) ==
    IF c = "transient" THEN l
    ELSE IF c = l.same THEN [l EXCEPT !.count = @ + 1]
    ELSE [l EXCEPT !.same = c, !.count = 1]

\* The failure opens the circuit.
Repeats(l, c) == c # "transient" /\ Counted(l, c).count >= MaxSame

\* Mutant of Waits: the retry is noted, but no timer set.
WaitsForever(l) == [l EXCEPT !.state = "backoff"]

\* Backoff, after a jittered delay or until RetryAt.
Waits(l) == [Timer(l, "backoff") EXCEPT !.state = "backoff"]

\* routeFailure
Route(l0, c) ==
    LET l == [l0 EXCEPT !.banned = FALSE, !.silent = FALSE,
                        !.last = IF c = "credentials" THEN c ELSE "other"]
        n == Counted(l, c)
    IN  CASE c = "unpaired" -> [NoHistory(l) EXCEPT !.last = "other", !.state = "unpaired"]
          [] c # "unpaired" /\ Repeats(l, c) -> [n EXCEPT !.state = "blocked"]
          [] c \in {"transient", "limited"} /\ ~Repeats(l, c) -> Waits(n)
          [] c = "credentials" /\ ~Repeats(l, c) -> Repair(n)
          [] c = "terminal" /\ ~Repeats(l, c)    -> [n EXCEPT !.state = "blocked"]

\* beginProbe
Probes(l) == [Timer(l, "probe") EXCEPT !.state = "degraded", !.probe = "waiting"]

\* expirePairing
ExpirePairing(l) ==
    [NoTimer(l) EXCEPT !.pairing = "expired", !.state = "unpaired", !.banned = FALSE]

\* The event "blocked": a ban until RetryAt.
Barred(l) == [ExpirePairing(l) EXCEPT !.banned = TRUE]

\* Mutant of Closed: contexts live on.
ClosedOnly(l) == [NoTimer(l) EXCEPT !.pc = "joining", !.state = "stopping"]

\* shutdown, up to the fence (Leave): every context is canceled.
Closed(l) == [NoTimer(l) EXCEPT !.pc = "leaving", !.state = "stopping", !.canceled = TRUE,
                                !.probe = "none"]

-----------------------------------------------------------------------------
(* Steps of the loop *)

\* The loop becomes l: workers it wants are started, channels it no longer
\* reads are gone.  Opening and closing the fence waits for callbacks inside.
Becomes(l) ==
    /\ loop' = l
    /\ l.open # loop.open \/ l.gen # loop.gen => forwarding = {}
    /\ starter' = IF ~l.starting THEN Idle
                  ELSE IF loop.starting THEN starter ELSE [Idle EXCEPT !.pc = "calling"]
    /\ prober' = IF l.probe = "none" THEN "none"
                 ELSE IF loop.probe = "none" THEN "calling" ELSE prober
    /\ repairer' = IF ~l.repairing THEN "none"
                   ELSE IF loop.repairing THEN repairer ELSE "calling"
    /\ pairer' = IF l.pairing = "none" THEN "none"
                 ELSE IF loop.pairing = "none" THEN "calling" ELSE pairer
    /\ sig' = IF l.gen = loop.gen THEN sig ELSE NoSignals

\* A run that the loop lets go of is stopped.
StopsOwn == runs' = IF loop.run = 0 THEN runs ELSE StopRun(loop.run)

\* Failures of class c are routed by l: what the history keeps of it.
Fails(l, c) ==
    /\ Becomes(Route(l, c))
    /\ log' = [log EXCEPT !.owed = c = "credentials",
                  !.repairs = IF Route(l, c).repairing THEN @ + 1
                              ELSE IF c \in {"transient", "credentials"} THEN @ ELSE 0]

\* The context is canceled and the fence still open: the loop waits to close it.
Fencing == loop.canceled /\ loop.open

\* One turn of the loop.  closing is looked at before each turn, except that a
\* Sync command goes on with the work that is ready.
Turn == loop.pc = "running" /\ ~Fencing

Callbacks == <<forwarding, activity>>
MayStart  == closing \/ loop.gen < MaxGenerations

\* Commands.  They are refused once the supervisor is closing.
UserStart ==
    /\ Turn /\ ~closing /\ loop.state = "stopped" /\ loop.pairing = "none" /\ MayStart
    /\ Becomes([StartGeneration(NoHistory(loop)) EXCEPT !.reply = TRUE])
    /\ log' = [log EXCEPT !.repairs = 0]
    /\ UNCHANGED <<closing, runs, pairEvents, Callbacks>>

\* RetryBlocked, or InputsChanged with a new fingerprint.
Unblock ==
    /\ Turn /\ ~closing /\ loop.state = "blocked" /\ MayStart
    /\ Becomes(Resume(loop))
    /\ log' = [log EXCEPT !.repairs = 0]
    /\ UNCHANGED <<closing, runs, pairEvents, Callbacks>>

BeginPairing ==
    /\ Turn /\ ~closing /\ HasPairer /\ loop.pairing = "none" /\ loop.pairings < MaxPairings
    /\ loop.state = "unpaired" /\ ~loop.banned
    /\ Becomes([NoTimer(loop) EXCEPT !.state = "pairing", !.pairing = "active",
                                     !.pairings = @ + 1])
    /\ log' = [log EXCEPT !.ban = FALSE, !.lapsed = FALSE]
    /\ UNCHANGED <<closing, runs, pairEvents, Callbacks>>

Stop ==
    /\ ~closing /\ closing' = TRUE
    /\ UNCHANGED <<loop, env, Callbacks, log>>

\* Mutant of Discards: the run of a late or failed start is forgotten.
DiscardsNone(out) == runs' = runs

\* The run that came with a late or failed start is stopped.
Discards(out) == runs' = IF out.run THEN StopRun(loop.gen) ELSE runs

HandleStartResult ==
    LET out == starter.out
        l   == [loop EXCEPT !.starting = FALSE, !.late = FALSE, !.reply = FALSE]
    IN  /\ Turn /\ loop.starting /\ starter.pc = "sent"
        /\ \/ /\ loop.late
              /\ Fails(NoContext(l), "transient") /\ Discards(out)
           \/ /\ ~loop.late /\ out.err # "none"
              /\ Fails(Retired(NoTimer(l)), out.err) /\ Discards(out)
           \/ /\ ~loop.late /\ out.err = "none" /\ ~out.run
              /\ Fails(NoContext(NoTimer(l)), "terminal") /\ UNCHANGED runs
           \/ /\ ~loop.late /\ out.err = "none" /\ out.run /\ TimedOut
              /\ Fails(Retired(NoTimer(l)), "transient") /\ Discards(out)
           \/ /\ ~loop.late /\ out.err = "none" /\ out.run /\ ~TimedOut
              /\ Becomes([l EXCEPT !.run = l.gen, !.listens = {"ready", "done"}])
              /\ UNCHANGED <<runs, log>>
        /\ UNCHANGED <<closing, pairEvents, Callbacks>>

\* handleRunDone: the run ended, or was due to be given up for its readiness.
RunIsOver ==
    /\ Fails(Retired(NoTimer(loop)), IF TimedOut THEN "transient" ELSE sig.done)
    /\ StopsOwn

HandleRunDone ==
    /\ Turn /\ "done" \in loop.listens /\ sig.done # "none"
    /\ RunIsOver
    /\ UNCHANGED <<closing, pairEvents, Callbacks>>

\* An end or a deadline that is there as well wins over readiness.
HandleReady ==
    /\ Turn /\ "ready" \in loop.listens /\ sig.ready
    /\ \/ /\ sig.done # "none" \/ TimedOut
          /\ RunIsOver
       \/ /\ sig.done = "none" /\ ~TimedOut
          /\ Becomes([Timer(loop, "liveness") EXCEPT
                         !.state = "online", !.silent = FALSE, !.listens = {"done"}])
          /\ UNCHANGED <<runs, log>>
    /\ UNCHANGED <<closing, pairEvents, Callbacks>>

\* Activity counts for the generation whose run is installed.  It re-arms the
\* liveness check of an account that is online.
HandleActivity ==
    /\ Turn
    /\ \E g \in activity :
        /\ activity' = activity \ {g}
        /\ IF g # loop.gen \/ loop.run = 0 THEN Becomes(loop) /\ UNCHANGED log
           ELSE /\ Becomes(LET l == NoHistory(loop)
                           IN  IF l.state = "online"
                               THEN [Timer(l, "liveness") EXCEPT !.silent = FALSE] ELSE l)
                /\ log' = [log EXCEPT !.repairs = 0]
    /\ UNCHANGED <<closing, runs, pairEvents, forwarding>>

HandleProbe ==
    /\ Turn /\ loop.probe # "none" /\ prober # "calling"
    /\ \/ /\ loop.probe = "late" \/ prober # "alive"
          /\ Fails(Retired(NoTimer(loop)),
                   IF loop.probe = "late" THEN "transient" ELSE prober)
          /\ StopsOwn
       \/ /\ loop.probe # "late" /\ prober = "alive"
          /\ Becomes([Timer(NoHistory(loop), "liveness") EXCEPT
                         !.state = "online", !.silent = FALSE, !.probe = "none"])
          /\ log' = [log EXCEPT !.repairs = 0]
          /\ UNCHANGED runs
    /\ UNCHANGED <<closing, pairEvents, Callbacks>>

HandleRepair ==
    /\ Turn /\ loop.repairing /\ repairer # "calling"
    /\ LET l == [loop EXCEPT !.repairing = FALSE]
       IN  \/ /\ repairer = "ok" /\ MayStart
              /\ Becomes(StartGeneration(l))
              /\ log' = [log EXCEPT !.owed = FALSE]
           \/ /\ repairer = "failed"
              /\ Becomes([l EXCEPT !.state = "blocked"]) /\ UNCHANGED log
    /\ UNCHANGED <<closing, runs, pairEvents, Callbacks>>

HandlePairEvent ==
    /\ Turn /\ loop.pairing # "none" /\ pairEvents # <<>>
    /\ Becomes(CASE loop.state # "pairing"        -> loop
                 [] loop.state = "pairing" /\ Head(pairEvents) = "blocked" -> Barred(loop)
                 [] loop.state = "pairing" /\ Head(pairEvents) = "code" -> Timer(loop, "pair"))
    /\ pairEvents' = Tail(pairEvents)
    /\ UNCHANGED <<closing, runs, Callbacks, log>>

PairLapses == loop.timer = "pair" /\ loop.due

\* A result that comes with the expiry, or after it, settles nothing.
HandlePairResult ==
    LET l == [NoTimer(IF PairLapses THEN ExpirePairing(loop) ELSE loop) EXCEPT
                 !.pairing = "none"]
    IN  /\ Turn /\ loop.pairing # "none" /\ pairer # "calling"
        /\ \/ /\ loop.pairing = "expired" \/ PairLapses
              /\ Becomes(l)
           \/ /\ loop.pairing = "active" /\ ~PairLapses
              /\ \/ pairer = "paired" /\ Becomes([l EXCEPT !.state = "stopped"])
                 \/ /\ pairer \in {"limited", "other"}
                    /\ Becomes([l EXCEPT !.state = "unpaired", !.last = "other",
                                         !.banned = pairer = "limited"])
                 \/ /\ pairer = "terminal"
                    /\ \E o \in {"pair", "other"} :
                          Becomes([l EXCEPT !.state = "blocked", !.last = o])
        /\ pairEvents' = <<>>
        /\ log' = [log EXCEPT !.lapsed = @ \/ PairLapses]
        /\ UNCHANGED <<closing, runs, Callbacks>>

\* enforceDueDeadline, by the purpose of the timer.
Due(t) == Turn /\ loop.timer = t /\ loop.due

ConnectDeadline ==
    /\ Due("connect")
    /\ \/ /\ loop.starting
          /\ Becomes(Overdue(loop)) /\ UNCHANGED <<runs, log>>
       \/ /\ ~loop.starting
          /\ Fails(Retired(NoTimer(loop)), "transient") /\ StopsOwn
    /\ UNCHANGED <<closing, pairEvents, Callbacks>>

\* The deadline of a start that is out goes on once the callbacks inside are over.
CloseFence ==
    /\ loop.pc = "running" /\ Fencing
    /\ Becomes([loop EXCEPT !.open = FALSE])
    /\ UNCHANGED <<closing, runs, pairEvents, Callbacks, log>>

LivenessCheck ==
    /\ Due("liveness")
    /\ Becomes(IF loop.silent THEN Probes(loop) ELSE Timer(loop, "liveness"))
    /\ UNCHANGED <<closing, runs, pairEvents, Callbacks, log>>

BackoffOver ==
    /\ Due("backoff") /\ MayStart
    /\ Becomes(StartGeneration(NoTimer(loop)))
    /\ UNCHANGED <<closing, runs, pairEvents, Callbacks, log>>

ProbeDeadline ==
    /\ Due("probe")
    /\ Becomes([NoTimer(loop) EXCEPT !.probe = "late"])
    /\ UNCHANGED <<closing, runs, pairEvents, Callbacks, log>>

PairExpiry ==
    /\ Due("pair")
    /\ Becomes(ExpirePairing(loop))
    /\ log' = [log EXCEPT !.lapsed = TRUE]
    /\ UNCHANGED <<closing, runs, pairEvents, Callbacks>>

Shutdown ==
    /\ Turn /\ closing
    /\ Becomes(Closed(loop))
    /\ UNCHANGED <<closing, runs, pairEvents, Callbacks, log>>

\* retireCurrent: the fence, and then the run.
Leave ==
    /\ loop.pc = "leaving"
    /\ Becomes([Retired(loop) EXCEPT !.pc = "joining"]) /\ StopsOwn
    /\ UNCHANGED <<closing, pairEvents, Callbacks, log>>

\* workers.Wait, and the end of the loop.
Join ==
    /\ loop.pc = "joining"
    /\ starter.pc \in {"idle", "sent"} /\ repairer # "calling" /\ pairer # "calling"
    /\ Becomes([loop EXCEPT !.pc = "stopped", !.state = "stopped", !.reply = FALSE,
                            !.repairing = FALSE, !.pairing = "none"])
    /\ pairEvents' = <<>>
    /\ UNCHANGED <<closing, runs, Callbacks, log>>

-----------------------------------------------------------------------------
(* Workers, runs, callbacks and time *)

\* Lifecycle.Start answers: a run, an error, both or neither.
StartReturns ==
    /\ starter.pc = "calling"
    /\ \E out \in Outcomes :
        /\ starter' = [pc |-> "returned", out |-> out]
        /\ runs' = IF out.run THEN [runs EXCEPT ![loop.gen] = "live"] ELSE runs
    /\ UNCHANGED <<loop, closing, prober, repairer, pairer, pairEvents, sig, Callbacks, log>>

\* The worker hands the answer over, or stops a run that comes too late: also while
\* the loop waits at the fence for a callback of that run.
StarterSends ==
    /\ starter.pc = "returned"
    /\ IF loop.canceled /\ starter.out.run
       THEN /\ starter' = [pc |-> "sent", out |->
                [run |-> FALSE,
                 err |-> IF starter.out.err = "none" THEN "transient" ELSE starter.out.err]]
            /\ runs' = StopRun(loop.gen)
       ELSE starter' = [starter EXCEPT !.pc = "sent"] /\ UNCHANGED runs
    /\ UNCHANGED <<loop, closing, prober, repairer, pairer, pairEvents, sig, Callbacks, log>>

ProbeReturns ==
    /\ prober = "calling" /\ prober' \in Classes \cup {"alive"}
    /\ UNCHANGED <<loop, closing, starter, repairer, pairer, pairEvents, runs, sig, Callbacks, log>>

RepairReturns ==
    /\ repairer = "calling" /\ repairer' \in {"ok", "failed"}
    /\ UNCHANGED <<loop, closing, starter, prober, pairer, pairEvents, runs, sig, Callbacks, log>>

\* A code with its expiry, or the news of a ban.
PairEmits ==
    /\ pairer = "calling" /\ loop.pairing = "active" /\ loop.pc = "running"
    /\ ~log.ban /\ Len(pairEvents) < EventBound
    /\ \E e \in {"code", "blocked"} :
        /\ pairEvents' = Append(pairEvents, e)
        /\ log' = [log EXCEPT !.ban = e = "blocked"]
    /\ UNCHANGED <<loop, closing, starter, prober, repairer, pairer, runs, sig, Callbacks>>

\* A ban that was announced is also the result; a canceled pairing meets no new one.
PairReturns ==
    /\ pairer = "calling"
    /\ pairer' \in IF log.ban THEN {"limited"} ELSE {"paired", "limited", "terminal", "other"}
    /\ pairer' = "limited" => log.ban \/ loop.pairing = "active"
    /\ log' = [log EXCEPT !.ban = pairer' = "limited"]
    /\ UNCHANGED <<loop, closing, starter, prober, repairer, pairEvents, runs, sig, Callbacks>>

RunReady ==
    /\ loop.gen # 0 /\ runs[loop.gen] = "live" /\ ~sig.ready
    /\ sig' = [sig EXCEPT !.ready = TRUE]
    /\ UNCHANGED <<loop, closing, starter, prober, repairer, pairer, pairEvents, runs, Callbacks, log>>

RunEnds ==
    /\ loop.gen # 0 /\ runs[loop.gen] = "live" /\ sig.done = "none"
    /\ \E c \in Classes : sig' = [sig EXCEPT !.done = c]
    /\ UNCHANGED <<loop, closing, starter, prober, repairer, pairer, pairEvents, runs, Callbacks, log>>

\* An adapter's callback passes the fence; others are turned away.
BeginForward ==
    /\ loop.open /\ forwarding' = forwarding \cup {loop.gen}
    /\ UNCHANGED <<loop, closing, env, activity, log>>

\* The sink has taken the record, or refused it.
EndForward ==
    /\ \E g \in forwarding :
        /\ forwarding' = forwarding \ {g}
        /\ activity' \in {activity, activity \cup {g}}
    /\ UNCHANGED <<loop, closing, env, log>>

\* A beat, which looks at the fence and then queues.
Beat ==
    /\ loop.open /\ activity' = activity \cup {loop.gen}
    /\ UNCHANGED <<loop, closing, env, forwarding, log>>

\* Time reaches the timer's deadline, perhaps the liveness deadline with it.
Elapse ==
    /\ loop.timer # "none" /\ ~loop.due
    /\ \E silent \in {loop.silent} \cup {loop.timer = "liveness"} :
          loop' = [loop EXCEPT !.due = TRUE, !.silent = silent]
    /\ UNCHANGED <<closing, env, Callbacks, log>>

LiftBan ==
    /\ log.ban \/ loop.banned
    /\ loop' = [loop EXCEPT !.banned = FALSE] /\ log' = [log EXCEPT !.ban = FALSE]
    /\ UNCHANGED <<closing, env, Callbacks>>

Deadlines == ConnectDeadline \/ CloseFence \/ LivenessCheck \/ BackoffOver \/ ProbeDeadline \/ PairExpiry

Next ==
    \/ UserStart \/ Unblock \/ BeginPairing \/ Stop
    \/ HandleStartResult \/ HandleReady \/ HandleRunDone \/ HandleActivity \/ HandleProbe
    \/ HandleRepair \/ HandlePairEvent \/ HandlePairResult
    \/ Deadlines \/ Shutdown \/ Leave \/ Join
    \/ StartReturns \/ StarterSends \/ ProbeReturns \/ RepairReturns
    \/ PairEmits \/ PairReturns \/ RunReady \/ RunEnds
    \/ BeginForward \/ EndForward \/ Beat \/ Elapse \/ LiftBan

\* A worker whose context is canceled returns; other workers owe nothing.  Steps
\* that close the fence are strongly fair: a goroutine that waits for the write
\* lock keeps new readers out.
Fairness ==
    /\ SF_vars(HandleStartResult) /\ SF_vars(HandleProbe) /\ SF_vars(ConnectDeadline)
    /\ SF_vars(CloseFence \/ Leave) /\ WF_vars(Shutdown) /\ WF_vars(Join)
    /\ WF_vars(LivenessCheck) /\ WF_vars(ProbeDeadline) /\ WF_vars(Elapse)
    /\ WF_vars(StarterSends) /\ WF_vars(EndForward)
    /\ WF_vars(loop.canceled /\ StartReturns)
    /\ WF_vars(loop.probe = "late" /\ ProbeReturns)
    /\ WF_vars(loop.pc \in {"leaving", "joining"} /\ RepairReturns)
    /\ WF_vars(loop.pc \in {"leaving", "joining"} /\ PairReturns)

SupSpec  == Init /\ [][Next]_vars
FairSpec == SupSpec /\ Fairness

-----------------------------------------------------------------------------
(* Properties *)

\* The loop, its workers and its channels keep their types; no failure class is
\* counted past the point where recordFingerprint opens the circuit.
SupTypeOK ==
    /\ loop \in LoopType /\ closing \in BOOLEAN /\ starter \in StarterType
    /\ prober \in Classes \cup {"none", "calling", "alive"}
    /\ repairer \in {"none", "calling", "ok", "failed"}
    /\ pairer \in {"none", "calling", "paired", "limited", "terminal", "other"}
    /\ pairEvents \in Seq({"code", "blocked"}) /\ Len(pairEvents) <= EventBound
    /\ runs \in [Generations -> {"none", "live", "stopped", "twice"}]
    /\ sig \in [ready : BOOLEAN, done : Classes \cup {"none"}]
    /\ forwarding \subseteq Generations /\ activity \subseteq Generations
    /\ log \in LogType

\* While the loop runs, every run an adapter ever handed over is the installed
\* one, still on its way to the loop, or has been stopped exactly once: late
\* starts, starts beside an error, retirements and shutdowns lose none
\* (handleStartResult, retireCurrent, the start worker).
RunsAccounted ==
    \A g \in Generations :
        /\ runs[g] # "twice"
        /\ loop.pc \in {"running", "leaving"} /\ runs[g] = "live" =>
              \/ loop.run = g
              \/ /\ loop.gen = g /\ loop.starting
                 /\ starter.pc \in {"returned", "sent"} /\ starter.out.run

\* A state in which the account waits has something under way that ends it: a
\* timer, a worker or a run.  A caller who waits for the first attempt waits
\* for a start that is out (startAndDeferReply, replaceTimer, beginProbe).
NothingStranded ==
    loop.pc = "running" /\ ~closing =>
        /\ loop.reply => loop.starting
        /\ CASE loop.state = "connecting" ->
                   \/ loop.starting /\ (loop.late \/ loop.timer = "connect")
                   \/ loop.run # 0 /\ loop.timer = "connect"
             [] loop.state = "online"    -> loop.run # 0 /\ loop.timer = "liveness"
             [] loop.state = "degraded"  ->
                   loop.run # 0 /\ loop.probe # "none" /\ (loop.probe = "late" \/ loop.timer = "probe")
             [] loop.state = "backoff"   -> loop.run = 0 /\ ~loop.starting /\ loop.timer = "backoff"
             [] loop.state = "repairing" -> loop.run = 0 /\ loop.repairing
             [] loop.state = "pairing"   -> loop.run = 0 /\ loop.pairing = "active"
             [] OTHER -> loop.run = 0 /\ ~loop.starting /\ loop.timer = "none"

\* Callbacks are over before the loop stops the run they are of, and none enter
\* afterwards (generationFence): who is inside is of the latest generation, whose fence
\* is open, and whose run is not stopped yet, or was stopped by its own start worker as
\* it came after the cancel that precedes the closing of the fence.
NoLateRecord ==
    \A g \in forwarding :
        /\ g = loop.gen /\ loop.open /\ (loop.starting \/ loop.run = g)
        /\ runs[g] = "stopped" => Fencing /\ loop.starting

\* After credentials expired, the account connects again only once they were
\* repaired, whichever way the user or a timer pushes (RetryBlocked's promise:
\* "never bypassed by reconnect").
RepairNotBypassed ==
    log.owed => loop.state \in {"repairing", "blocked", "stopping", "stopped"}

\* No pairing begins while a ban of the previous one holds, whichever of its
\* event and its result was taken first; unless the code had expired before,
\* which the user may retry at once (handlePairEvent, handlePairResult).
BanRespected ==
    [][ loop.state = "unpaired" /\ loop'.state = "pairing" => ~log.ban \/ log.lapsed ]_vars

\* An ineffective repair is tried fewer than MaxSameFingerprint times in a row,
\* also when connectivity failures come between (recordFingerprint).
RepairBudget == log.repairs < MaxSame

\* A caller of Start gets the outcome of the first attempt, even from an adapter
\* that returns only when canceled.
StartAnswered == loop.reply ~> ~loop.reply

\* Stop ends: the workers return and the loop ends.
StopEnds == closing ~> loop.pc = "stopped"

\* A run that stays silent past its liveness deadline is found alive again or
\* given up, also when its probe hangs.
SilenceEnds == (loop.run # 0 /\ loop.silent) ~> (loop.run = 0 \/ ~loop.silent)

\* Neither a stop nor a silent run is waited out for ever (supervisor.go:1392
\* shutdown, beginProbe).
LoopGetsOn == StopEnds /\ SilenceEnds

\* Stop returns only after the current generation was joined; see the findings.
StopJoins == loop.pc = "stopped" => \A g \in Generations : runs[g] # "live"
=============================================================================
