------------------------------ MODULE ServeRun ------------------------------
(* Processes of "om-tui serve" over one data directory: what each starts, in *)
(* which order, who may, and what its deferred calls end, however far it got *)
(* and whatever still runs.                                                  *)
EXTENDS Integers, FiniteSets, Sequences

CONSTANTS
    MaxLaunches,    \* processes, numbered as they are launched
    Shapes,         \* the serve shapes they are launched in
    V2Modes,        \* what resolveV2RuntimeMode may say: "off", "send", "primary"
    MaxServeFaults  \* steps that fail, stops that time out, processes killed

Daemons == 1..MaxLaunches
\* Shapes: the daemon, one without transports, one that serves one session of an
\* MCP host, with and without its transports, and the demonstration.
AllShapes == {"daemon", "headless", "stdio", "client", "demo"}
ASSUME ServeAssumption ==
    /\ Shapes \subseteq AllShapes /\ Shapes # {}
    /\ V2Modes \subseteq {"off", "send", "primary"} /\ V2Modes # {}
    /\ MaxLaunches \in Nat /\ MaxServeFaults \in Nat

Accounts == {"google", "whatsapp", "signal"}
\* What runs in a process: the generations of the accounts, the runners of the
\* v2 stack, and what nothing waits for - Slack clients, the bridges that no
\* control has (extra rivers, with session stores of their own), a backfill, the
\* sync loops, the server.
Runners == {"worker", "dispatcher", "projector"}
Loose == {"slack", "rivers", "backfill", "sync", "http"}
Units == Accounts \cup Runners \cup {"scheduler", "sweeps"} \cup Loose
Stores == {"legacy", "v2", "session"}

VARIABLES
    process,     \* each process: where it is, and what it has deferred
    live,        \* what runs in it
    opened,      \* which stores it has open
    control,     \* its account controls, those closed, and those given up on
    lockedBy,    \* who holds instance.lock
    v2mode, v2there,    \* the mode, and whether there is a v2 store
    launches, serveFaults
serveVars == <<process, live, opened, control, lockedBy, v2mode, v2there, launches, serveFaults>>

Gone == [at |-> "gone", shape |-> "daemon", deferred |-> <<>>, phase |-> "next"]
NoControl == [have |-> {}, starting |-> {}, closed |-> {}, gaveUp |-> {}]

ServeTypeOK ==
    /\ \A p \in Daemons : process[p].shape \in AllShapes
    /\ live \in [Daemons -> SUBSET Units] /\ opened \in [Daemons -> SUBSET Stores]
    /\ \A p \in Daemons : control[p].closed \subseteq control[p].have
    /\ lockedBy \in Daemons \cup {0} /\ v2mode \in V2Modes /\ v2there \in BOOLEAN

ServeInit ==
    /\ process = [p \in Daemons |-> Gone] /\ live = [p \in Daemons |-> {}]
    /\ opened = [p \in Daemons |-> {}] /\ control = [p \in Daemons |-> NoControl]
    /\ lockedBy = 0 /\ v2mode \in V2Modes /\ v2there \in BOOLEAN
    /\ launches = 0 /\ serveFaults = 0

ServeFault == serveFaults < MaxServeFaults /\ serveFaults' = serveFaults + 1

\* transportsEnabled.
Transports(shape) == shape \in {"daemon", "stdio"}
\* serveTakesInstanceLock; first a mutant: who has no transports takes no lock.
TakesLockIfTransports(shape) == shape \in {"daemon", "stdio"}
TakesLock(shape) == shape \in {"daemon", "headless", "stdio"}

\* The stages of RunServe, and those a shape passes over.
Stages == <<"shape", "lock", "app", "stack", "google", "whatsapp", "signal", "rivers", "runners",
            "loops", "http", "serving">>
Passes(shape) ==
    (IF Transports(shape) THEN {}
     ELSE {"stack", "google", "whatsapp", "signal", "rivers", "runners", "loops"})
    \cup (IF TakesLock(shape) THEN {} ELSE {"lock"})
    \cup (IF shape \in {"stdio", "client"} THEN {"http"} ELSE {})
StageAfter(stage, shape) ==
    LET i == CHOOSE k \in DOMAIN Stages : Stages[k] = stage
        j == CHOOSE k \in (i + 1)..Len(Stages) :
                /\ Stages[k] \notin Passes(shape)
                /\ \A n \in (i + 1)..(k - 1) : Stages[n] \in Passes(shape)
    IN Stages[j]

\* The process goes on, with or without something more to undo, or returns.
Proceed(p, undo) ==
    process' = [process EXCEPT ![p].at = StageAfter(@, process[p].shape),
                             ![p].deferred = undo \o @]
Return(p, undo) ==
    process' = [process EXCEPT ![p].at = "returning", ![p].deferred = undo \o @]
At(p, stage) == process[p].at = stage
Same(rest) == UNCHANGED <<v2mode, launches, rest>>

Launch(p) ==
    /\ At(p, "gone") /\ p = launches + 1 /\ launches' = p
    /\ \E shape \in Shapes :
        process' = [process EXCEPT ![p] = [Gone EXCEPT !.at = "shape", !.shape = shape]]
    /\ UNCHANGED <<live, opened, control, lockedBy, v2mode, v2there, serveFaults>>

\* runServeMCPClient reads what is there, and refuses to make what is not.
ChooseShape(p) ==
    /\ At(p, "shape")
    /\ \/ /\ process[p].shape # "client"
          /\ Proceed(p, <<>>) /\ UNCHANGED opened
       \/ /\ process[p].shape = "client" /\ (v2mode = "primary" => v2there)
          /\ IF v2mode = "primary"
             THEN Proceed(p, <<"reads">>) /\ opened' = [opened EXCEPT ![p] = @ \cup {"v2"}]
             ELSE Proceed(p, <<>>) /\ UNCHANGED opened
       \/ /\ process[p].shape = "client" /\ v2mode = "primary" /\ ~v2there
          /\ Return(p, <<>>) /\ UNCHANGED opened
    /\ Same(<<live, control, lockedBy, v2there, serveFaults>>)

AcquireLock(p) ==
    /\ At(p, "lock")
    /\ \/ lockedBy = 0 /\ lockedBy' = p /\ Proceed(p, <<"lock">>)
       \/ lockedBy # 0 /\ Return(p, <<>>) /\ UNCHANGED lockedBy
    /\ Same(<<live, opened, control, v2there, serveFaults>>)

\* app.New sweeps the store for repairs, app.NewClient does not.
OpenStores(p) ==
    /\ At(p, "app") /\ "sweeps" \notin live[p]
    /\ \/ /\ opened' = [opened EXCEPT ![p] = @ \cup {"legacy"}]
          /\ IF process[p].shape \in {"client", "demo"} THEN Proceed(p, <<"app">>) /\ UNCHANGED live
             ELSE live' = [live EXCEPT ![p] = @ \cup {"sweeps"}] /\ UNCHANGED process
          /\ UNCHANGED serveFaults
       \/ ServeFault /\ Return(p, <<>>) /\ UNCHANGED <<opened, live>>
    /\ Same(<<control, lockedBy, v2there>>)
Swept(p) ==
    /\ At(p, "app") /\ "sweeps" \in live[p]
    /\ live' = [live EXCEPT ![p] = @ \ {"sweeps"}]
    /\ Proceed(p, <<"app">>)
    /\ Same(<<opened, control, lockedBy, v2there, serveFaults>>)

\* newV2Stack; one that cannot be completed closes what it opened.
OpenStack(p) ==
    /\ At(p, "stack")
    /\ \/ /\ v2mode = "off" /\ Proceed(p, <<>>) /\ UNCHANGED <<opened, v2there, serveFaults>>
       \/ /\ v2mode # "off" /\ v2there' = TRUE
          /\ \/ /\ opened' = [opened EXCEPT ![p] = @ \cup {"v2"}]
                /\ Proceed(p, <<"stack">>) /\ UNCHANGED serveFaults
             \/ ServeFault /\ Return(p, <<>>) /\ UNCHANGED opened
    /\ Same(<<live, control, lockedBy>>)

\* An account gets its control; a paired one is started in the background.  A
\* WhatsApp or Signal bridge that cannot be had leaves the daemon without it; one
\* that was opened, and then gets no adapter or no supervisor, ends the start with
\* no control to undo.
OpensBridge(p, x) ==
    opened' = IF x = "whatsapp" THEN [opened EXCEPT ![p] = @ \cup {"session"}] ELSE opened
TakeControl(p, x) ==
    /\ At(p, x)
    /\ \/ /\ OpensBridge(p, x) /\ Proceed(p, <<x>>) /\ UNCHANGED serveFaults
          /\ \E paired \in BOOLEAN :
                control' = [control EXCEPT ![p].have = @ \cup {x},
                                           ![p].starting = IF paired THEN @ \cup {x} ELSE @]
       \/ ServeFault /\ x # "google" /\ Proceed(p, <<>>) /\ UNCHANGED <<opened, control>>
       \/ ServeFault /\ OpensBridge(p, x) /\ Return(p, <<>>) /\ UNCHANGED control
    /\ Same(<<live, lockedBy, v2there>>)

\* StartAllSlackRivers, StartExtraLiveRivers; then the stack's runners, of which
\* the projector serves the legacy store only; then what runs on its own.
StartRivers(p) ==
    /\ At(p, "rivers")
    /\ live' = [live EXCEPT ![p] = @ \cup {"slack", "rivers"}]
    /\ Proceed(p, <<"slack">>)
    /\ Same(<<opened, control, lockedBy, v2there, serveFaults>>)
StartRunners(p) ==
    /\ At(p, "runners")
    /\ live' = [live EXCEPT ![p] = @ \cup
            CASE v2mode = "off" -> {}
              [] v2mode = "primary" -> Runners \ {"projector"}
              [] OTHER -> Runners]
    /\ Proceed(p, <<>>)
    /\ Same(<<opened, control, lockedBy, v2there, serveFaults>>)
StartLoops(p) ==
    /\ At(p, "loops")
    /\ live' = [live EXCEPT ![p] =
            @ \cup {"sync"} \cup IF v2mode = "primary" THEN {} ELSE {"scheduler"}]
    /\ Proceed(p, <<>>)
    /\ Same(<<opened, control, lockedBy, v2there, serveFaults>>)
\* The port may be taken; reads that are to come from a stack which this shape has
\* not made are refused.
Listen(p) ==
    /\ At(p, "http")
    /\ \/ /\ v2mode = "primary" /\ ~Transports(process[p].shape)
          /\ Return(p, <<>>) /\ UNCHANGED <<live, serveFaults>>
       \/ /\ v2mode = "primary" => Transports(process[p].shape)
          /\ live' = [live EXCEPT ![p] = @ \cup {"http"}]
          /\ Proceed(p, <<>>) /\ UNCHANGED serveFaults
       \/ ServeFault /\ Return(p, <<>>) /\ UNCHANGED live
    /\ Same(<<opened, control, lockedBy, v2there>>)
\* The signal of a user, or the end of the session that a client serves.
Interrupt(p) ==
    /\ At(p, "serving") /\ Return(p, <<>>)
    /\ Same(<<live, opened, control, lockedBy, v2there, serveFaults>>)

(* --- meanwhile ------------------------------------------------------------- *)

\* A supervisor starts a generation, at startup, on a retry or because the
\* interface asks; one that was stopped starts none, and its generation ends.
\* (Connections that are lost and regained are Supervisor.tla's.)
Generate(p, x) ==
    /\ x \in control[p].have \ control[p].closed
    /\ live' = [live EXCEPT ![p] = @ \cup {x}]
    /\ UNCHANGED <<process, opened, control, lockedBy, v2mode, v2there, launches, serveFaults>>
GenerationEnds(p, x) ==
    /\ x \in live[p] \cap control[p].closed
    /\ live' = [live EXCEPT ![p] = @ \ {x}]
    /\ UNCHANGED <<process, opened, control, lockedBy, v2mode, v2there, launches, serveFaults>>
\* The startup of an account has ended; Google's goes over into the backfill if
\* it is online and was not canceled.
Started(p, x) ==
    /\ x \in control[p].starting
    /\ control' = [control EXCEPT ![p].starting = @ \ {x}]
    /\ live' = IF x = "google" /\ x \in live[p] \ control[p].closed
               THEN [live EXCEPT ![p] = @ \cup {"backfill"}] ELSE live
    /\ UNCHANGED <<process, opened, lockedBy, v2mode, v2there, launches, serveFaults>>

\* Whoever uses the server may bring up a Slack client, or a bridge that no control
\* has, as long as there is a server (the demonstration has a directory of its own).
BringUp(p) ==
    /\ "http" \in live[p] /\ process[p].shape \in {"daemon", "headless"}
    /\ \E u \in {"slack", "rivers"} : live' = [live EXCEPT ![p] = @ \cup {u}]
    /\ UNCHANGED <<process, opened, control, lockedBy, v2mode, v2there, launches, serveFaults>>

(* --- the way back ---------------------------------------------------------- *)

Undoing(p, what) ==
    At(p, "returning") /\ process[p].deferred # <<>> /\ Head(process[p].deferred) = what
Undone(p) == process' = [process EXCEPT ![p].deferred = Tail(@), ![p].phase = "next"]
InPhase(p, phase) == process[p].phase = phase
Enter(p, phase) == process' = [process EXCEPT ![p].phase = phase]

\* StopAllSlackRivers cancels the clients and waits for none.
UndoSlack(p) ==
    /\ Undoing(p, "slack") /\ Undone(p)
    /\ Same(<<live, opened, control, lockedBy, v2there, serveFaults>>)

\* A control is closed and its generation waited for: a while, or, of WhatsApp,
\* until it has ended; then its startup is waited for.
MustEnd(x) == x = "whatsapp"
CloseControl(p, x) ==
    /\ Undoing(p, x) /\ InPhase(p, "next") /\ Enter(p, "stopping")
    /\ control' = [control EXCEPT ![p].closed = @ \cup {x}]
    /\ Same(<<live, opened, lockedBy, v2there, serveFaults>>)
AwaitGeneration(p, x) ==
    /\ Undoing(p, x) /\ InPhase(p, "stopping") /\ Enter(p, "stopped")
    /\ \/ x \notin live[p] /\ UNCHANGED <<control, serveFaults>>
       \/ /\ x \in live[p] /\ ~MustEnd(x) /\ ServeFault
          /\ control' = [control EXCEPT ![p].gaveUp = @ \cup {x}]
    /\ Same(<<live, opened, lockedBy, v2there>>)
AwaitStartup(p, x) ==
    /\ Undoing(p, x) /\ InPhase(p, "stopped") /\ x \notin control[p].starting
    /\ Undone(p)
    /\ Same(<<live, opened, control, lockedBy, v2there, serveFaults>>)

\* stopV2Stack, also of a stack that was never started; the read store of a client.
UndoStack(p) ==
    /\ Undoing(p, "stack") \/ Undoing(p, "reads")
    /\ live' = [live EXCEPT ![p] = @ \ Runners]
    /\ opened' = [opened EXCEPT ![p] = @ \ {"v2"}]
    /\ Undone(p)
    /\ Same(<<control, lockedBy, v2there, serveFaults>>)

\* App.Close: the bridges with their session stores, then the store.  A Signal
\* river is waited for; what WhatsApp's is handling may go on.
CloseBridges(p) ==
    /\ Undoing(p, "app") /\ InPhase(p, "next") /\ Enter(p, "stopped")
    /\ \E ended \in SUBSET {"rivers"} : live' = [live EXCEPT ![p] = @ \ ended]
    /\ opened' = [opened EXCEPT ![p] = @ \ {"session"}]
    /\ Same(<<control, lockedBy, v2there, serveFaults>>)
CloseStore(p) ==
    /\ Undoing(p, "app") /\ InPhase(p, "stopped") /\ Undone(p)
    /\ opened' = [opened EXCEPT ![p] = @ \ {"legacy"}]
    /\ Same(<<live, control, lockedBy, v2there, serveFaults>>)
ReleaseLock(p) ==
    /\ Undoing(p, "lock") /\ Undone(p) /\ lockedBy' = 0
    /\ Same(<<live, opened, control, v2there, serveFaults>>)

\* The process ends, having returned, or killed - as by a signal that comes
\* before RunServe listens for one - and takes everything with it.
Vanish(p) ==
    /\ process' = [process EXCEPT ![p] = Gone] /\ live' = [live EXCEPT ![p] = {}]
    /\ opened' = [opened EXCEPT ![p] = {}] /\ control' = [control EXCEPT ![p] = NoControl]
    /\ lockedBy' = IF lockedBy = p THEN 0 ELSE lockedBy
    /\ UNCHANGED <<v2mode, v2there, launches>>
Exit(p) ==
    /\ At(p, "returning") /\ process[p].deferred = <<>>
    /\ Vanish(p) /\ UNCHANGED serveFaults
Killed(p) == ~At(p, "gone") /\ ServeFault /\ Vanish(p)

ServeNext ==
    \E p \in Daemons :
        \/ Launch(p) \/ ChooseShape(p) \/ AcquireLock(p) \/ OpenStores(p) \/ Swept(p) \/ OpenStack(p)
        \/ StartRivers(p) \/ StartRunners(p) \/ StartLoops(p) \/ Listen(p) \/ Interrupt(p)
        \/ \E x \in Accounts :
              \/ TakeControl(p, x) \/ Generate(p, x) \/ GenerationEnds(p, x) \/ Started(p, x)
              \/ CloseControl(p, x) \/ AwaitGeneration(p, x) \/ AwaitStartup(p, x)
        \/ BringUp(p) \/ UndoSlack(p) \/ UndoStack(p) \/ CloseBridges(p) \/ CloseStore(p) \/ ReleaseLock(p)
        \/ Exit(p) \/ Killed(p)
ServeSpec == ServeInit /\ [][ServeNext]_serveVars

(* --- properties ------------------------------------------------------------ *)

\* One process at a time connects, dispatches, schedules or repairs for a data
\* directory, and it is the one that holds its lock - but for a Google or
\* Signal generation that a bounded stop gave up on, and for a scheduler, a Slack
\* client or a river whose store is closed, which nothing has waited for: they last
\* until the process has exited (serveTakesInstanceLock, runServeMCPClient).
Forsaken(p) == control[p].gaveUp \ {"whatsapp"}
Owning(p) == (Accounts \cup Runners \cup {"sweeps"} \cup
              IF "legacy" \in opened[p] THEN {"scheduler", "slack", "rivers"} ELSE {}) \ Forsaken(p)
OwnerHoldsLock == \A p \in Daemons : live[p] \cap Owning(p) # {} => lockedBy = p

\* The stores that a unit works on: what is received goes to the v2 store by way of
\* the stack's sink, Slack's and the rivers' too (serve.go:489-524, 536-559).
Needs(p, u) ==
    {s \in Stores : \/ s = "legacy" /\ u \notin {"worker", "dispatcher"}
                    \/ s = "session" /\ u = "whatsapp"
                    \/ s = "v2" /\ u \notin {"sweeps", "scheduler", "sync"}
                       /\ v2mode # "off" /\ Transports(process[p].shape)}
\* What the deferred calls do not end before they close a store: Slack clients are
\* told to stop and not waited for, rivers are closed after the v2 store
\* (v2stack.go:443-447, app.go:931-938), and nothing ends the others.
Unawaited(p) == IF At(p, "returning") THEN Loose \cup {"scheduler"} ELSE {}
\* A process that is not returning has every store open that something in it works
\* on.  The deferred calls, from wherever RunServe returned, close no store under the
\* accounts, the runners and the sweeps: they run in the order that these need,
\* WhatsApp's generation and its session store among them (serve.go:371-383), unless a
\* bounded stop gave up.  Of what is unawaited they make sure of nothing.
StoresOutliveUsers ==
    \A p \in Daemons : \A u \in live[p] \ (Forsaken(p) \cup Unawaited(p)) : Needs(p, u) \subseteq opened[p]

\* Both, over every way a start is cut short.
DaemonIsSound == OwnerHoldsLock /\ StoresOutliveUsers

\* What is unawaited works on a store that is closed: the legacy store, or the v2
\* store, which rivers and Slack clients then fail to append to.  They get errors
\* until the process exits: neither of these holds.
LooseEndsAreTied == \A p \in Daemons : live[p] # {} => "legacy" \in opened[p]
RiversKeepStore ==
    \A p \in Daemons : \A u \in live[p] \cap {"rivers", "slack"} : Needs(p, u) \subseteq opened[p]
=============================================================================
