---------------------------- MODULE WhatsAppLink ----------------------------
(* The WhatsApp bridge (src/internal/whatsapplive/client.go) under its      *)
(* lifecycle adapter (src/internal/bridgeadapters/whatsapp/whatsapp.go).    *)
(* whatsmeow calls the bridge's event handler from goroutines of its own;   *)
(* each call checks that its client is the current one, writes the bridge's *)
(* flags, checks again and tells the adapter, which hands the event to the  *)
(* generation or the pairing attempt that is active.  Meanwhile a worker    *)
(* dials, the coordinator joins, the control unpairs (which replaces the    *)
(* client), and the process may die: a temporary ban must outlive that.     *)
EXTENDS Integers, Sequences, FiniteSets

CONSTANTS
    Handlers,     \* whatsmeow's goroutines that dispatch events
    MaxClients,   \* bound: clients ever created
    MaxTime,      \* bound: the clock
    MaxEvents,    \* bound: events dispatched
    MaxRuns       \* bound: generations and pairing attempts

ASSUME LinkConstants ==
    /\ MaxClients \in Nat \ {0}
    /\ {MaxTime, MaxEvents, MaxRuns} \subseteq Nat

LinkClients == 1 .. MaxClients
Events == {"connected", "dropped", "logged_out", "banned", "pair_ok", "pair_error",
           "relogin"}
EndKinds == {"none", "stop", "transient", "reauth", "limited", "misconfigured"}

VARIABLES
    host,       \* the bridge's fields: client generation and flags
    socket,     \* client -> its websocket is up
    device,     \* client -> its store's identity: "no", "yes", "deleted"
    onDisk,     \* the session database holds a paired device
    ban,        \* deadline in memory, in the database, and the clock
    lifeRun,    \* the adapter's generation
    attempt,    \* the adapter's pairing attempt
    dispatch,   \* handler -> the event it is dispatching
    leaving,    \* StopAndUnpair: "no", "stopping", "reset"
    spent,      \* events, generations and attempts so far
    told        \* history: the latest ban deadline reported to the supervisor

linkVars == <<host, socket, device, onDisk, ban, lifeRun, attempt, dispatch,
              leaving, spent, told>>

NoDispatch == [at |-> "idle", client |-> 0, event |-> "dropped", until |-> 0,
               saved |-> TRUE, paired |-> FALSE]
NoLifeRun == [at |-> "none", admitting |-> FALSE, dial |-> "done", finish |-> "none",
              ready |-> FALSE]
NoAttempt == [at |-> "none", method |-> "qr", box |-> <<>>, canceled |-> FALSE]
LinkFlags(client) == [client |-> client, connected |-> FALSE, connecting |-> FALSE,
                   pairing |-> FALSE]

LinkInit ==
    /\ \E linked \in BOOLEAN :
          /\ onDisk = linked
          /\ device = [c \in LinkClients |-> IF c = 1 /\ linked THEN "yes" ELSE "no"]
    /\ host = LinkFlags(1)
    /\ socket = [c \in LinkClients |-> FALSE]
    /\ ban = [memory |-> 0, disk |-> 0, now |-> 0]
    /\ lifeRun = NoLifeRun
    /\ attempt = NoAttempt
    /\ dispatch = [h \in Handlers |-> NoDispatch]
    /\ leaving = "no"
    /\ spent = [events |-> 0, runs |-> 0]
    /\ told = 0

-----------------------------------------------------------------------------
(* The bridge.                                                              *)

Larger(a, b) == IF a > b THEN a ELSE b
Banned == ban.now < ban.memory
Me == host.client
IsPaired == device[Me] = "yes"
Quiet(flags) == [flags EXCEPT !.connected = FALSE, !.connecting = FALSE]

\* resetClientLocked: the old socket goes, and a new client is read from disk.
Renewed ==
    /\ Me < MaxClients
    /\ socket' = [socket EXCEPT ![Me] = FALSE]
    /\ device' = [device EXCEPT ![Me + 1] = IF onDisk THEN "yes" ELSE "no"]

\* recoverPersistedSessionLocked: a client whose store was deleted is replaced
\* before anything is tried with it.
Recover(next) ==
    IF device[Me] = "deleted" THEN Renewed /\ next = Me + 1
    ELSE UNCHANGED <<socket, device>> /\ next = Me

\* finishConnectError, and clearPairingState of the phone path.
DialFailed(cli) ==
    IF Me # cli THEN host
    ELSE [Quiet(host) EXCEPT !.pairing = @ /\ device[cli] = "yes"]

\* DisconnectTransport keeps the pairing flag of a client without identity.
Disconnected ==
    /\ socket' = [socket EXCEPT ![Me] = FALSE]
    /\ host' = [Quiet(host) EXCEPT !.pairing = @ /\ ~IsPaired]

\* What each event does to the flags of the bridge, whichever client sent it.
Applied(event) ==
    CASE event = "connected" /\ IsPaired ->
            [host EXCEPT !.connected = TRUE, !.connecting = FALSE, !.pairing = FALSE]
      [] event = "connected" /\ ~IsPaired -> [host EXCEPT !.connecting = FALSE]
      [] event \in {"dropped", "logged_out", "banned", "relogin"} ->
            [Quiet(host) EXCEPT !.pairing = @ /\ IsPaired]
      [] event = "pair_ok" -> [host EXCEPT !.pairing = FALSE]
      [] event = "pair_error" -> [Quiet(host) EXCEPT !.pairing = FALSE]

-----------------------------------------------------------------------------
(* Events.                                                                  *)

\* The client's side: what it can say depends on its socket and identity; some
\* of it ends the socket, and a logout deletes the identity.
Emit(h, c, event) ==
    /\ dispatch[h].at = "idle"
    /\ spent.events < MaxEvents
    /\ socket[c]
    /\ event \in {"pair_ok", "pair_error"} => device[c] = "no"
    /\ event \in {"logged_out", "relogin"} => device[c] = "yes"
    /\ spent' = [spent EXCEPT !.events = @ + 1]
    /\ socket' = [socket EXCEPT ![c] = event \in {"connected", "pair_ok", "pair_error",
                                                  "relogin"}]
    /\ device' = [device EXCEPT ![c] = IF event = "pair_ok" THEN "yes"
                                       ELSE IF event = "logged_out" THEN "deleted" ELSE @]
    /\ onDisk' = IF event = "pair_ok" THEN TRUE
                 ELSE IF event = "logged_out" THEN FALSE ELSE onDisk
    /\ \E length \in IF event = "banned" THEN 1 .. MaxTime - ban.now ELSE {0} :
          dispatch' = [dispatch EXCEPT ![h] = [NoDispatch EXCEPT !.at = "check", !.client = c,
                                                  !.event = event, !.until = ban.now + length]]
    /\ UNCHANGED <<host, ban, lifeRun, attempt, leaving, told>>

\* handleClientEvent's first look, and persistTemporaryBan: the later deadline
\* counts, in memory first; the database may refuse it.
\* Its mutant takes the deadline of the last ban.
KeptLast(b, until) == [b EXCEPT !.memory = until]
Kept(b, until) == [b EXCEPT !.memory = Larger(@, until)]
Check(h) ==
    LET d == dispatch[h] IN
    /\ d.at = "check"
    /\ IF d.client # Me THEN dispatch' = [dispatch EXCEPT ![h] = NoDispatch] /\ UNCHANGED ban
       ELSE IF d.event = "banned"
       THEN LET kept == Kept(ban, d.until) IN
            \E saved \in BOOLEAN :
              /\ ban' = IF saved THEN [kept EXCEPT !.disk = Larger(@, kept.memory)] ELSE kept
              /\ dispatch' = [dispatch EXCEPT ![h].at = "apply", ![h].until = kept.memory,
                                              ![h].saved = saved]
       ELSE dispatch' = [dispatch EXCEPT ![h].at = "apply"] /\ UNCHANGED ban
    /\ UNCHANGED <<host, socket, device, onDisk, lifeRun, attempt, leaving, spent, told>>

\* applyEvent
Apply(h) ==
    /\ dispatch[h].at = "apply"
    /\ host' = Applied(dispatch[h].event)
    /\ dispatch' = [dispatch EXCEPT ![h].at = "recheck"]
    /\ UNCHANGED <<socket, device, onDisk, ban, lifeRun, attempt, leaving, spent, told>>

\* The second look.
Recheck(h) ==
    LET d == dispatch[h] IN
    /\ d.at = "recheck"
    /\ dispatch' = [dispatch EXCEPT ![h] =
            IF d.client # Me THEN NoDispatch
            ELSE [d EXCEPT !.at = "tell", !.paired = device[d.client] = "yes"]]
    /\ UNCHANGED <<host, socket, device, onDisk, ban, lifeRun, attempt, leaving, spent, told>>

\* handleLifecycleEvent: into the attempt's channel, and into the generation if
\* it still admits callbacks.
Tell(h) ==
    LET d == dispatch[h] IN
    /\ d.at = "tell"
    /\ attempt' = IF attempt.at = "none" THEN attempt
                  ELSE [attempt EXCEPT !.box = Append(@, [d EXCEPT !.at = "idle", !.client = 0])]
    /\ dispatch' = [dispatch EXCEPT ![h] =
            IF lifeRun.at # "none" /\ lifeRun.admitting THEN [d EXCEPT !.at = "inside"]
            ELSE NoDispatch]
    /\ UNCHANGED <<host, socket, device, onDisk, ban, lifeRun, leaving, spent, told>>

\* classifyEvent
EndOf(d) ==
    CASE ~d.saved -> "misconfigured"
      [] d.saved /\ d.event \in {"dropped", "relogin"} -> "transient"
      [] d.saved /\ d.event = "logged_out" -> "reauth"
      [] d.saved /\ d.event = "banned" -> "limited"
      [] OTHER -> "none"

\* requestFinish: the first end counts.
Finished(kind) ==
    IF kind = "none" \/ lifeRun.finish # "none" THEN lifeRun
    ELSE [lifeRun EXCEPT !.finish = kind, !.admitting = FALSE]

\* run.handleEvent
Inside(h) ==
    LET d == dispatch[h] IN
    /\ d.at = "inside"
    /\ lifeRun' = IF d.event = "connected" /\ d.paired
                  THEN [lifeRun EXCEPT !.ready = TRUE] ELSE Finished(EndOf(d))
    /\ told' = IF EndOf(d) = "limited" /\ lifeRun.finish = "none" THEN d.until ELSE told
    /\ dispatch' = [dispatch EXCEPT ![h] = NoDispatch]
    /\ UNCHANGED <<host, socket, device, onDisk, ban, attempt, leaving, spent>>

-----------------------------------------------------------------------------
(* A generation.                                                            *)

\* Adapter.Start: not in a ban, not without an account, one owner at a time.
\* The control does not start anything while it unpairs.
CalledOff(run) == run.at # "running"
StartRun ==
    /\ leaving = "no"
    /\ spent.runs < MaxRuns
    /\ ~Banned
    /\ IsPaired
    /\ lifeRun.at = "none" /\ attempt.at = "none"
    /\ spent' = [spent EXCEPT !.runs = @ + 1]
    /\ lifeRun' = [NoLifeRun EXCEPT !.at = "running", !.admitting = TRUE, !.dial = "check"]
    /\ UNCHANGED <<host, socket, device, onDisk, ban, attempt, dispatch, leaving, told>>

\* The worker, ConnectPaired: a look at the context and the ban, ...
DialCheck ==
    /\ lifeRun.at # "none" /\ lifeRun.dial = "check"
    /\ lifeRun' = IF CalledOff(lifeRun) THEN [lifeRun EXCEPT !.dial = "done"]
                  ELSE IF Banned THEN [Finished("limited") EXCEPT !.dial = "done"]
                  ELSE [lifeRun EXCEPT !.dial = "lock"]
    /\ UNCHANGED <<host, socket, device, onDisk, ban, attempt, dispatch, leaving, spent, told>>

\* ... the flags under the mutex, ...
DialLock ==
    /\ lifeRun.at # "none" /\ lifeRun.dial = "lock"
    /\ \E next \in LinkClients :
         LET failed(kind) == [(IF CalledOff(lifeRun) THEN lifeRun ELSE Finished(kind))
                                 EXCEPT !.dial = "done"]
             renewed == [host EXCEPT !.client = next]
         IN  /\ Recover(next)
             /\ IF ~(IF next = Me THEN IsPaired ELSE onDisk)
                THEN lifeRun' = failed("reauth") /\ host' = renewed
                ELSE IF host.pairing \/ host.connecting \/ (next = Me /\ socket[Me])
                THEN lifeRun' = failed("transient") /\ host' = renewed
                ELSE /\ lifeRun' = [lifeRun EXCEPT !.dial = "dialing"]
                     /\ host' = [LinkFlags(next) EXCEPT !.connecting = TRUE]
    /\ UNCHANGED <<onDisk, ban, attempt, dispatch, leaving, spent, told>>

\* ... and the dial itself, which fails once the context is cancelled.
Dialed ==
    /\ lifeRun.at # "none" /\ lifeRun.dial = "dialing"
    /\ \/ /\ lifeRun.at = "running"
          /\ socket' = [socket EXCEPT ![Me] = TRUE]
          /\ lifeRun' = [lifeRun EXCEPT !.dial = "done"]
          /\ UNCHANGED host
       \/ /\ host' = DialFailed(Me)
          /\ lifeRun' = [(IF CalledOff(lifeRun) THEN lifeRun ELSE Finished("transient"))
                            EXCEPT !.dial = "done"]
          /\ UNCHANGED socket
    /\ UNCHANGED <<device, onDisk, ban, attempt, dispatch, leaving, spent, told>>

\* ReportError, after a failed send: only once the generation is ready.
ReportSend ==
    /\ lifeRun.at # "none" /\ lifeRun.admitting /\ lifeRun.ready
    /\ lifeRun' = Finished("transient")
    /\ UNCHANGED <<host, socket, device, onDisk, ban, attempt, dispatch, leaving, spent, told>>

\* The Supervisor stops the run.
StopGeneration ==
    /\ lifeRun.at = "running" /\ lifeRun.finish = "none"
    /\ lifeRun' = Finished("stop")
    /\ UNCHANGED <<host, socket, device, onDisk, ban, attempt, dispatch, leaving, spent, told>>

\* coordinate: closes admission and cancels, disconnects, and joins the worker
\* and the callbacks before it lets go of the run.
Coordinate ==
    /\ lifeRun.at = "running" /\ lifeRun.finish # "none"
    /\ lifeRun' = [lifeRun EXCEPT !.at = "joining"]
    /\ UNCHANGED <<host, socket, device, onDisk, ban, attempt, dispatch, leaving, spent, told>>

Disconnect ==
    /\ lifeRun.at = "joining"
    /\ lifeRun' = [lifeRun EXCEPT !.at = "waiting"]
    /\ Disconnected
    /\ UNCHANGED <<device, onDisk, ban, attempt, dispatch, leaving, spent, told>>

Join ==
    /\ lifeRun.at = "waiting" /\ lifeRun.dial = "done"
    /\ \A h \in Handlers : dispatch[h].at # "inside"
    /\ lifeRun' = NoLifeRun
    /\ UNCHANGED <<host, socket, device, onDisk, ban, attempt, dispatch, leaving, spent, told>>

-----------------------------------------------------------------------------
(* A pairing attempt.                                                       *)

\* Adapter.Pair, by QR code or by phone code.
StartPair(method) ==
    /\ leaving = "no"
    /\ spent.runs < MaxRuns
    /\ ~Banned
    /\ ~IsPaired
    /\ lifeRun.at = "none" /\ attempt.at = "none"
    /\ spent' = [spent EXCEPT !.runs = @ + 1]
    /\ attempt' = [NoAttempt EXCEPT !.at = "prepare", !.method = method]
    /\ UNCHANGED <<host, socket, device, onDisk, ban, lifeRun, dispatch, leaving, told>>

PairGoes(at) == attempt' = [attempt EXCEPT !.at = at]

\* PrepareQRPairing, and the first half of PairPhoneContext.
PreparePair ==
    /\ attempt.at = "prepare"
    /\ IF attempt.canceled \/ Banned THEN PairGoes("ending") /\ UNCHANGED <<host, socket, device>>
       ELSE \E next \in LinkClients :
         /\ Recover(next)
         /\ IF \/ host.pairing \/ host.connecting
               \/ IF next = Me THEN IsPaired \/ (socket[Me] /\ attempt.method = "qr") ELSE onDisk
            THEN PairGoes("ending") /\ host' = [host EXCEPT !.client = next]
            ELSE /\ PairGoes("connect")
                 /\ host' = [host EXCEPT !.client = next, !.pairing = TRUE, !.connecting = TRUE]
    /\ UNCHANGED <<onDisk, ban, lifeRun, dispatch, leaving, spent, told>>

\* ConnectPairing, which looks at the flags once more, and the dial of the phone
\* path, which does not; a phone code may be refused as well.
ConnectPair ==
    LET refused == attempt.method = "qr" /\ (Banned \/ IsPaired \/ ~host.pairing \/ socket[Me])
    IN  /\ attempt.at = "connect"
        /\ \/ /\ attempt.canceled \/ refused
              /\ PairGoes("ending")
              /\ host' = IF attempt.method = "phone" THEN DialFailed(Me) ELSE host
              /\ UNCHANGED socket
           \/ /\ ~attempt.canceled /\ ~refused
              /\ \/ PairGoes("wait") /\ socket' = [socket EXCEPT ![Me] = TRUE] /\ host' = host
                 \/ PairGoes("ending") /\ host' = DialFailed(Me) /\ UNCHANGED socket
        /\ UNCHANGED <<device, onDisk, ban, lifeRun, dispatch, leaving, spent, told>>

\* pairEventResult.  The success of the pairing itself is not the end: the
\* session still has to log in on the same socket.
EndsPair(d) ==
    \/ ~d.saved
    \/ d.event = "connected" /\ d.paired
    \/ d.event \in {"banned", "pair_error", "logged_out"}
    \/ d.event = "dropped" /\ ~d.paired
PairEvent ==
    LET d == Head(attempt.box) IN
    /\ attempt.at = "wait" /\ attempt.box # <<>>
    /\ attempt' = [attempt EXCEPT !.box = Tail(@), !.at = IF EndsPair(d) THEN "ending" ELSE @]
    /\ told' = IF d.event = "banned" /\ d.saved THEN d.until ELSE told
    /\ UNCHANGED <<host, socket, device, onDisk, ban, lifeRun, dispatch, leaving, spent>>

\* The QR channel's last item: ApplyQRItem clears the flags; only a failure ends
\* the attempt.
QRItem ==
    /\ attempt.at = "wait" /\ attempt.method = "qr"
    /\ host' = [host EXCEPT !.pairing = FALSE, !.connecting = FALSE]
    /\ \/ PairGoes("ending") /\ ~IsPaired
       \/ IsPaired /\ host' # host /\ UNCHANGED attempt
    /\ UNCHANGED <<socket, device, onDisk, ban, lifeRun, dispatch, leaving, spent, told>>

PairCanceled ==
    /\ attempt.at = "wait" /\ attempt.canceled
    /\ PairGoes("ending")
    /\ UNCHANGED <<host, socket, device, onDisk, ban, lifeRun, dispatch, leaving, spent, told>>

\* The deferred end of Pair.
EndPair ==
    /\ attempt.at = "ending"
    /\ Disconnected
    /\ attempt' = NoAttempt
    /\ UNCHANGED <<device, onDisk, ban, lifeRun, dispatch, leaving, spent, told>>

-----------------------------------------------------------------------------
(* Unpairing, the process and the clock.                                    *)

\* The control's StopAndUnpair stops what runs ...
Leave ==
    /\ leaving = "no"
    /\ leaving' = "stopping"
    /\ lifeRun' = IF lifeRun.at = "running" THEN Finished("stop") ELSE lifeRun
    /\ attempt' = [attempt EXCEPT !.canceled = attempt.at # "none"]
    /\ UNCHANGED <<host, socket, device, onDisk, ban, dispatch, spent, told>>

\* ... and calls Unpair, which logs the device out and deletes its store; each
\* of them may fail and is then only logged.
Logout ==
    /\ leaving = "stopping"
    /\ lifeRun.at = "none" /\ attempt.at = "none"
    /\ leaving' = "reset"
    /\ \/ /\ IsPaired
          /\ device' = [device EXCEPT ![Me] = "deleted"]
          /\ onDisk' = FALSE
       \/ UNCHANGED <<device, onDisk>>
    /\ UNCHANGED <<host, socket, ban, lifeRun, attempt, dispatch, spent, told>>

Reset ==
    /\ leaving = "reset"
    /\ Renewed
    /\ host' = LinkFlags(Me + 1)
    /\ leaving' = "no"
    /\ UNCHANGED <<onDisk, ban, lifeRun, attempt, dispatch, spent, told>>

\* The process dies and starts again: New reads the device and the deadline.
Restart ==
    /\ Renewed
    /\ host' = LinkFlags(Me + 1)
    /\ ban' = [ban EXCEPT !.memory = ban.disk]
    /\ lifeRun' = NoLifeRun
    /\ attempt' = NoAttempt
    /\ dispatch' = [h \in Handlers |-> NoDispatch]
    /\ leaving' = "no"
    /\ UNCHANGED <<onDisk, spent, told>>

LinkTick ==
    /\ ban.now < MaxTime
    /\ ban' = [ban EXCEPT !.now = @ + 1]
    /\ UNCHANGED <<host, socket, device, onDisk, lifeRun, attempt, dispatch, leaving, spent, told>>

Dispatching == \E h \in Handlers : Check(h) \/ Apply(h) \/ Recheck(h) \/ Tell(h) \/ Inside(h)
Dial == DialCheck \/ DialLock \/ Dialed
EndRun == Coordinate \/ Disconnect \/ Join

LinkNext ==
    \/ \E h \in Handlers, c \in LinkClients, event \in Events : Emit(h, c, event)
    \/ Dispatching
    \/ StartRun \/ Dial \/ ReportSend \/ StopGeneration \/ EndRun
    \/ \E method \in {"qr", "phone"} : StartPair(method)
    \/ PreparePair \/ ConnectPair \/ PairEvent \/ QRItem \/ PairCanceled \/ EndPair
    \/ Leave \/ Logout \/ Reset
    \/ Restart
    \/ LinkTick

\* Every goroutine that can go on does; the network, the user and the clock may
\* do nothing.
LinkFairness ==
    /\ WF_linkVars(Dispatching)
    /\ WF_linkVars(Dial)
    /\ WF_linkVars(EndRun)
LinkSpec == LinkInit /\ [][LinkNext]_linkVars /\ LinkFairness

-----------------------------------------------------------------------------
(* Properties.                                                              *)

LinkTypeOK ==
    /\ host \in [client : LinkClients, connected : BOOLEAN, connecting : BOOLEAN,
                 pairing : BOOLEAN]
    /\ socket \in [LinkClients -> BOOLEAN]
    /\ device \in [LinkClients -> {"no", "yes", "deleted"}]
    /\ onDisk \in BOOLEAN
    /\ ban \in [memory : 0 .. MaxTime, disk : 0 .. MaxTime, now : 0 .. MaxTime]
    /\ lifeRun \in [at : {"none", "running", "joining", "waiting"}, admitting : BOOLEAN,
                    dial : {"check", "lock", "dialing", "done"}, finish : EndKinds,
                    ready : BOOLEAN]
    /\ attempt.at \in {"none", "prepare", "connect", "wait", "ending"}
    /\ \A h \in Handlers :
          /\ dispatch[h].at \in {"idle", "check", "apply", "recheck", "tell", "inside"}
          /\ dispatch[h].event \in Events
    /\ leaving \in {"no", "stopping", "reset"}
    /\ told \in 0 .. MaxTime

\* A deadline the supervisor was told of holds in this process and in the next
\* one: it is in the database, and a shorter ban that follows cannot undo it.
BanIsKept == told <= ban.disk /\ ban.disk <= ban.memory

\* A connecting flag, which refuses the next attempt as "already in progress",
\* has an owner that will clear it, and no socket outlives its owner.  (The
\* pairing flag of an account that is not linked may: DisconnectTransport keeps
\* it, also when ConnectPairing gave up before its dial.)
FlagsHaveOwner ==
    lifeRun.at = "none" /\ attempt.at = "none" /\ leaving = "no" =>
        /\ ~host.connecting
        /\ host.pairing => ~IsPaired
        /\ \A c \in LinkClients : ~socket[c]

\* A generation that is over has no callback of it left running.
CallbacksJoined == lifeRun.at = "none" => \A h \in Handlers : dispatch[h].at # "inside"

\* A generation that was asked to end does end.
LinkRunEnds == lifeRun.finish # "none" ~> lifeRun.at = "none"

\* What the comment on Bridge.clientGeneration says: callbacks from a retired
\* client never affect the replacement.
RetiredNeverAffects ==
    [][\A h \in Handlers :
          dispatch[h].at = "apply" /\ dispatch'[h].at = "recheck" /\ dispatch[h].client # Me
              => host' = host]_<<host, dispatch>>
=============================================================================
