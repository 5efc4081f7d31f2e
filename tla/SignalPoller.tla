----------------------------- MODULE SignalPoller -----------------------------
(* One Signal generation: the poller goroutine of                           *)
(* src/internal/signallive/client.go (StartPoller: link flow, version gate, *)
(* account probe, receive loop and the way each of its failures is          *)
(* classified) and the run of src/internal/bridgeadapters/signal/signal.go  *)
(* that joins it, while a failing send may retire the same generation       *)
(* (ReportError).  What is decided here is whether the bridge reconnects by *)
(* itself (transient) or parks until the user acts (reauth, upgrade,        *)
(* unpaired), and which status the interface shows.                         *)
EXTENDS Integers, FiniteSets

CONSTANTS
    FailureLimit,    \* receiveFailureLimit
    PoisonLimit,     \* receivePoisonLimit
    InvalidLimit,    \* receiveAccountInvalidLimit
    StreakLimit,     \* accountUnreadableStreakLimit
    ProbeAttempts,   \* the probe and its retries in one generation
    MaxStarts        \* bound: generations

ASSUME PollerConstants ==
    /\ {FailureLimit, PoisonLimit, InvalidLimit, StreakLimit, ProbeAttempts} \subseteq Nat \ {0}
    /\ MaxStarts \in Nat

Kinds == {"none", "transient", "unpaired", "reauth", "upgrade"}
Reasons == {"none", "link", "version", "probe", "no_account", "empty", "unreadable",
            "refused", "poison", "failures", "panic", "send"}

VARIABLES
    status,    \* the flags of Bridge under b.mu, whether it knows an account
               \* (known), and probeEmptyStreak
    linked,    \* what signal-cli has: accounts.json lists an account
    loop,      \* the poller goroutine
    run,       \* the adapter's current run
    sender,    \* a goroutine in ReportError
    outcome,   \* what Run.Done said last
    starts,    \* generations so far
    evidence   \* history: what the parks are based on

pollerVars == <<status, linked, loop, run, sender, outcome, starts, evidence>>

Nothing == [kind |-> "none", why |-> "none"]
NoLoop == [at |-> "off", probes |-> 0, fails |-> 0, poison |-> 0, invalid |-> 0,
           exit |-> Nothing]
NoRun == [at |-> "none", admitting |-> FALSE, finish |-> FALSE, ctxDone |-> FALSE,
          requested |-> Nothing, terminal |-> Nothing, resolved |-> FALSE]

Fresh == [known |-> FALSE, connected |-> FALSE, connecting |-> FALSE, pairing |-> FALSE,
          needsReauth |-> FALSE, upgradeRequired |-> FALSE, streak |-> 0]

PollerInit ==
    /\ status = Fresh
    /\ linked \in BOOLEAN
    /\ loop = NoLoop
    /\ run = NoRun
    /\ sender = "idle"
    /\ outcome = Nothing
    /\ starts = 0
    /\ evidence = [unseen |-> 0, agreeing |-> 0, refusals |-> 0]

-----------------------------------------------------------------------------
(* How two ends of one run compare.                                         *)

Exit(kind, why) == [kind |-> kind, why |-> why]

\* terminalRank
Rank(e) == CASE e.kind = "none" -> 0 [] e.kind = "transient" -> 1
             [] e.kind = "unpaired" -> 2 [] e.kind = "reauth" -> 3
             [] e.kind = "upgrade" -> 4

\* preferTerminal
Prefer(current, candidate) == IF Rank(candidate) > Rank(current) THEN candidate ELSE current

\* Mutant of Canceled: only the parent's cancellation is seen.
CanceledByParent == run.ctxDone

\* The context of the generation: cancelled by its parent or by Stop's join.
Canceled == run.ctxDone \/ run.at = "joining"

Lower(s) == [s EXCEPT !.connected = FALSE, !.connecting = FALSE]

\* The goroutine sends its exit on Done and ends.
LoopEnds(e, flags) ==
    /\ loop' = [loop EXCEPT !.at = "done", !.exit = e]
    /\ status' = flags

-----------------------------------------------------------------------------
(* Start.                                                                   *)

\* Adapter.Start with StartPoller: one generation at a time, and none while the
\* bridge's own flags say one is active.  Without an account, neither known nor
\* in accounts.json, it begins with the link flow.
StartGeneration ==
    /\ run.at = "none"
    /\ ~status.pairing /\ ~status.connecting /\ ~status.connected
    /\ starts < MaxStarts
    /\ starts' = starts + 1
    /\ LET account == status.known \/ linked IN
       /\ status' = [status EXCEPT !.known = account, !.connecting = TRUE, !.pairing = ~account,
                                   !.needsReauth = FALSE, !.upgradeRequired = FALSE]
       /\ loop' = [NoLoop EXCEPT !.at = IF account THEN "version" ELSE "link"]
    /\ run' = [NoRun EXCEPT !.at = "running", !.admitting = TRUE]
    /\ UNCHANGED <<linked, sender, outcome, evidence>>

\* runLinkPoller: a scanned code gives an account and the receive loop runs in
\* the same generation; anything else ends it as unpaired, or silently when
\* it was cancelled.
LinkEnds ==
    LET flags == [Lower(status) EXCEPT !.pairing = FALSE] IN
    /\ loop.at = "link"
    /\ \/ /\ ~Canceled
          /\ linked' = TRUE
          /\ loop' = [loop EXCEPT !.at = "version"]
          /\ status' = [flags EXCEPT !.known = TRUE]
       \/ /\ LoopEnds(IF Canceled THEN Nothing ELSE Exit("unpaired", "link"), flags)
          /\ UNCHANGED linked
    /\ UNCHANGED <<run, sender, outcome, starts, evidence>>

\* The version gate; a version that cannot be read passes.
VersionGate ==
    /\ loop.at = "version"
    /\ IF Canceled THEN LoopEnds(Nothing, Lower(status))
       ELSE \/ loop' = [loop EXCEPT !.at = "probe"] /\ UNCHANGED status
            \/ LoopEnds(Exit("upgrade", "version"),
                        [Lower(status) EXCEPT !.needsReauth = FALSE, !.upgradeRequired = TRUE])
    /\ UNCHANGED <<linked, run, sender, outcome, starts, evidence>>

\* classifyFailedAccountProbe, after the last attempt of a generation: a probe
\* that fails otherwise is transient; one that sees no account parks at once
\* when accounts.json lists none either, and after StreakLimit generations when
\* it does.
Unseen(result) ==
    LET streak == status.streak + 1
        flags == [Lower(status) EXCEPT !.upgradeRequired = FALSE]
    IN  CASE result = "error" ->
               /\ LoopEnds(Exit("transient", "probe"), [flags EXCEPT !.needsReauth = FALSE])
               /\ evidence' = [evidence EXCEPT !.agreeing = 0]
          [] result = "empty" /\ ~linked ->
               /\ LoopEnds(Exit("reauth", "no_account"), [flags EXCEPT !.needsReauth = TRUE])
               /\ evidence' = [evidence EXCEPT !.agreeing = 0]
          [] result = "empty" /\ linked ->
               /\ LoopEnds(IF streak >= StreakLimit THEN Exit("reauth", "unreadable")
                           ELSE Exit("transient", "empty"),
                           [flags EXCEPT !.needsReauth = streak >= StreakLimit,
                                         !.streak = streak])
               /\ evidence' = [evidence EXCEPT !.unseen = @ + 1, !.agreeing = @ + 1]

\* probeAccountWithRetry: only the last attempt's result is classified.
ProbeAccount(result) ==
    /\ loop.at = "probe"
    /\ IF Canceled THEN LoopEnds(Nothing, Lower(status)) /\ UNCHANGED evidence
       ELSE IF result = "seen"
       THEN /\ loop' = [loop EXCEPT !.at = "receive"]
            /\ status' = [status EXCEPT !.connected = TRUE, !.connecting = FALSE,
                             !.needsReauth = FALSE, !.upgradeRequired = FALSE, !.streak = 0]
            /\ evidence' = [unseen |-> 0, agreeing |-> 0, refusals |-> 0]
       ELSE IF loop.probes + 1 < ProbeAttempts
       THEN loop' = [loop EXCEPT !.probes = @ + 1] /\ UNCHANGED <<status, evidence>>
       ELSE Unseen(result)
    /\ UNCHANGED <<linked, run, sender, outcome, starts>>

\* The account disappears from accounts.json (another program unlinked it), or
\* comes back.
RelinkElsewhere ==
    /\ loop.at \in {"off", "probe"}
    /\ linked' = ~linked
    /\ UNCHANGED <<status, loop, run, sender, outcome, starts, evidence>>

-----------------------------------------------------------------------------
(* The receive loop.  A poll ends with output or idle ("ok"), with the      *)
(* server's refusal of the account ("refused"), with the crash of an old    *)
(* signal-cli on one message ("poison"), or with any other error.           *)

\* The count of refusals in a row; its mutant forgets the reset.
MissesEver(result) == IF result = "refused" THEN loop.invalid + 1 ELSE loop.invalid
Misses(result) == IF result = "refused" THEN loop.invalid + 1 ELSE 0

Receive(result) ==
    LET invalid == Misses(result)
        poison == IF result = "poison" THEN loop.poison + 1 ELSE 0
        fails == loop.fails + 1
    IN  CASE result = "ok" ->
               /\ loop' = [loop EXCEPT !.fails = 0, !.poison = 0, !.invalid = invalid]
               /\ UNCHANGED status
          [] result = "refused" /\ invalid < InvalidLimit ->
               /\ loop' = [loop EXCEPT !.fails = fails, !.poison = 0, !.invalid = invalid]
               /\ UNCHANGED status
          [] result = "refused" /\ invalid >= InvalidLimit ->
               LoopEnds(Exit("reauth", "refused"), [Lower(status) EXCEPT !.needsReauth = TRUE])
          [] result \in {"poison", "error"} /\ poison >= PoisonLimit ->
               LoopEnds(Exit("upgrade", "poison"),
                        [Lower(status) EXCEPT !.needsReauth = FALSE, !.upgradeRequired = TRUE])
          [] result \in {"poison", "error"} /\ poison < PoisonLimit /\ fails >= FailureLimit ->
               LoopEnds(Exit("transient", "failures"), Lower(status))
          [] OTHER ->
               /\ loop' = [loop EXCEPT !.fails = fails, !.poison = poison, !.invalid = invalid]
               /\ UNCHANGED status

\* runReceiveLoop looks at its context before and after every poll, so a
\* cancelled generation classifies nothing.
PollOnce(result) ==
    /\ loop.at = "receive"
    /\ IF Canceled THEN LoopEnds(Nothing, [status EXCEPT !.connected = FALSE])
       ELSE Receive(result)
    /\ evidence' = [evidence EXCEPT !.refusals =
                        IF ~Canceled /\ result = "refused" THEN @ + 1 ELSE 0]
    /\ UNCHANGED <<linked, run, sender, outcome, starts>>

\* A line whose handling panics: the deferred recover makes it transient.
Panic ==
    /\ loop.at = "receive"
    /\ LoopEnds(Exit("transient", "panic"), Lower(status))
    /\ UNCHANGED <<linked, run, sender, outcome, starts, evidence>>

-----------------------------------------------------------------------------
(* The adapter's run and what may end it.                                   *)

\* requestFinish
Requested(candidate) ==
    run' = [run EXCEPT !.admitting = FALSE, !.finish = TRUE,
                       !.requested = Prefer(@, candidate)]

\* run.Stop, and the cancellation of the generation's context.
StopRun ==
    /\ run.at = "running" /\ ~run.finish
    /\ Requested(Nothing)
    /\ UNCHANGED <<status, linked, loop, sender, outcome, starts, evidence>>

CancelRun ==
    /\ run.at = "running" /\ ~run.ctxDone
    /\ run' = [run EXCEPT !.ctxDone = TRUE]
    /\ UNCHANGED <<status, linked, loop, sender, outcome, starts, evidence>>

\* ReportError for a send the server refused: a status already parked keeps the
\* send out; then the run must still admit callbacks; then it is asked to end.
ReportError ==
    /\ sender = "idle"
    /\ ~status.upgradeRequired /\ ~status.needsReauth
    /\ run.at # "none"
    /\ sender' = "checked"
    /\ UNCHANGED <<status, linked, loop, run, outcome, starts, evidence>>

AdmitReport ==
    /\ sender = "checked"
    /\ sender' = IF run.at # "none" /\ run.admitting THEN "admitted" ELSE "idle"
    /\ UNCHANGED <<status, linked, loop, run, outcome, starts, evidence>>

FinishReport ==
    /\ sender = "admitted"
    /\ Requested(Exit("transient", "send"))
    /\ sender' = "idle"
    /\ UNCHANGED <<status, linked, loop, outcome, starts, evidence>>

\* coordinate picks one of the ready ends of the run, closes admission and asks
\* the poller to stop.
SelectEnd ==
    /\ run.at = "running"
    /\ \E resolved \in BOOLEAN, terminal \in {Nothing, run.requested, loop.exit} :
         /\ \/ loop.at = "done" /\ resolved /\ terminal = loop.exit
            \/ run.finish /\ ~resolved /\ terminal = run.requested
            \/ run.ctxDone /\ ~resolved /\ terminal = Nothing
         /\ run' = [run EXCEPT !.at = "joining", !.admitting = FALSE,
                               !.terminal = terminal, !.resolved = resolved]
    /\ UNCHANGED <<status, linked, loop, sender, outcome, starts, evidence>>

\* ApplyPollerFailure, for a run that a send ended.
ApplySend(s) ==
    IF s.upgradeRequired \/ s.needsReauth THEN s
    ELSE [Lower(s) EXCEPT !.needsReauth = FALSE, !.upgradeRequired = FALSE]

\* The poller has stopped and no callback is left: the poller's own exit and the
\* requested one are drained, and the strongest of all is the run's result.
Conclude ==
    LET drained == IF run.resolved THEN run.terminal ELSE Prefer(run.terminal, loop.exit)
        result == Prefer(drained, run.requested)
    IN  /\ run.at = "joining"
        /\ loop.at = "done"
        /\ sender # "admitted"
        /\ status' = IF result.why = "send" THEN ApplySend(status) ELSE status
        /\ outcome' = result
        /\ run' = NoRun
        /\ loop' = NoLoop
        /\ UNCHANGED <<linked, sender, starts, evidence>>

\* Adapter.Unpair refuses while a run is active; UnpairContext removes what
\* signal-cli has and clears the flags.
Unpair ==
    /\ run.at = "none"
    /\ linked' = FALSE
    /\ status' = Fresh
    /\ outcome' = Nothing
    /\ UNCHANGED <<loop, run, sender, starts, evidence>>

LoopStep ==
    \/ LinkEnds
    \/ VersionGate
    \/ \E result \in {"seen", "empty", "error"} : ProbeAccount(result)
    \/ \E result \in {"ok", "refused", "poison", "error"} : PollOnce(result)

PollerNext ==
    \/ StartGeneration
    \/ LoopStep
    \/ Panic \/ RelinkElsewhere \/ Unpair
    \/ StopRun \/ CancelRun
    \/ ReportError \/ AdmitReport \/ FinishReport
    \/ SelectEnd
    \/ Conclude

\* signal-cli calls run under deadlines and the goroutines are scheduled.
PollerFairness ==
    /\ WF_pollerVars(LoopStep)
    /\ WF_pollerVars(AdmitReport) /\ WF_pollerVars(FinishReport)
    /\ WF_pollerVars(SelectEnd) /\ WF_pollerVars(Conclude)
PollerSpec == PollerInit /\ [][PollerNext]_pollerVars /\ PollerFairness

-----------------------------------------------------------------------------
(* Properties.                                                              *)

PollerTypeOK ==
    /\ status \in [known : BOOLEAN, connected : BOOLEAN, connecting : BOOLEAN, pairing : BOOLEAN,
                   needsReauth : BOOLEAN, upgradeRequired : BOOLEAN, streak : Nat]
    /\ linked \in BOOLEAN
    /\ loop \in [at : {"off", "link", "version", "probe", "receive", "done"},
                 probes : 0 .. ProbeAttempts, fails : 0 .. FailureLimit,
                 poison : 0 .. PoisonLimit, invalid : 0 .. InvalidLimit,
                 exit : [kind : Kinds, why : Reasons]]
    /\ run.at \in {"none", "running", "joining"}
    /\ sender \in {"idle", "checked", "admitted"}
    /\ outcome \in [kind : Kinds, why : Reasons]

\* The flags never outlive the goroutine they speak of: with none running, the
\* bridge is not connected, connecting or pairing, so the next StartPoller is
\* not refused as an overlap.
FlagsEndWithLoop ==
    /\ loop.at \in {"off", "done"} =>
           ~status.connected /\ ~status.connecting /\ ~status.pairing
    /\ status.connected => loop.at = "receive"

\* The status the interface shows and the class the supervisor was given agree:
\* between two generations the bridge asks for a new link exactly when the last
\* run ended with reauth, and for an upgrade exactly when it ended with that,
\* although a send may have ended the same run.
StatusTellsOutcome ==
    run.at = "none" =>
        /\ status.needsReauth = (outcome.kind = "reauth")
        /\ status.upgradeRequired = (outcome.kind = "upgrade")

\* A park that asks the user to link again has its evidence: two refusals of the
\* server in a row, an account missing from accounts.json, or StreakLimit
\* generations that did not see the account since one last did.
ParkIsEarned ==
    run.at = "none" =>
        /\ outcome.why = "refused" => evidence.refusals >= InvalidLimit
        /\ outcome.why = "unreadable" => evidence.unseen >= StreakLimit

\* What a run left behind is what it ended with, and the evidence for it: the
\* status the interface shows, and the streaks (ApplyPollerFailure, runReceiveLoop).
EndIsFounded == StatusTellsOutcome /\ ParkIsEarned

\* The end the poller itself came to is never lost to a weaker one, whether
\* coordinate saw it first, last or only after its join.
StrongestEndWins == [][run'.at = "none" => Rank(outcome') >= Rank(loop.exit)]_<<run, outcome>>

\* A run that was told to end ends, and its result reaches the supervisor.
RunEnds == run.at = "running" /\ (run.finish \/ run.ctxDone) ~> run.at = "none"

\* What the comment of classifyFailedAccountProbe says: only StreakLimit
\* consecutive generations of the same disagreement park as unreadable.
UnreadableIsConsecutive ==
    run.at = "none" /\ outcome.why = "unreadable" => evidence.agreeing >= StreakLimit
=============================================================================
