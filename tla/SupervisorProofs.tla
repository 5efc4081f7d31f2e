-------------------------- MODULE SupervisorProofs --------------------------
(* The supervisor of one account, for any bound on generations, pairings and   *)
(* repeated failures, with or without a repairer and a pairer, proved.         *)
EXTENDS Supervisor, TLAPS

-----------------------------------------------------------------------------
(* The invariant *)

\* What the loop may have under way in which state.  It says what each timer, worker
\* and channel implies; that a state has something under way is NothingStranded.
ShapeOK ==
    /\ loop.pc # "running" => loop.state \in {"stopping", "stopped"}
    /\ loop.pc = "running" =>
          /\ loop.run # 0 => loop.state \in {"connecting", "online", "degraded"}
          /\ loop.starting => loop.state = "connecting"
          /\ loop.late => loop.starting /\ loop.timer = "none"
          /\ loop.probe # "none" => loop.state = "degraded" /\ loop.run # 0
          /\ loop.listens # {} => loop.run # 0
          /\ "ready" \in loop.listens => loop.state = "connecting"
          /\ loop.repairing => loop.state = "repairing"
          /\ loop.pairing = "active" => loop.state = "pairing"
          /\ loop.pairing = "expired" => loop.state = "unpaired"
          /\ loop.state # "stopping"
          /\ CASE loop.timer = "connect"  -> loop.state = "connecting"
               [] loop.timer = "liveness" -> loop.state = "online" /\ loop.run # 0
               [] loop.timer = "backoff"  -> loop.state = "backoff"
               [] loop.timer = "probe"    -> loop.state = "degraded" /\ loop.probe # "none"
               [] loop.timer = "pair"     -> loop.state = "pairing" /\ loop.pairing = "active"
               [] OTHER -> TRUE

\* A failure is counted only while the circuit is closed.
CountOK == loop.pc = "running" => loop.count < MaxSame \/ loop.state = "blocked"

\* Where the runs of all generations are, whatever the loop is doing.
RunsOK ==
    /\ \A g \in Generations : g > loop.gen => runs[g] = "none"
    /\ \A g \in Generations : runs[g] # "twice"
    /\ loop.starting => loop.gen # 0 /\ loop.run = 0
    /\ starter.pc = "idle" <=> ~loop.starting
    /\ starter.pc = "calling" => runs[loop.gen] = "none"
    /\ starter.pc \in {"returned", "sent"} /\ starter.out.run => runs[loop.gen] = "live"
    /\ loop.run # 0 => loop.run = loop.gen /\ runs[loop.gen] = "live"
    /\ \A g \in Generations : runs[g] = "live" =>
          \/ loop.run = g
          \/ loop.gen = g /\ starter.pc \in {"returned", "sent"} /\ starter.out.run

\* The fence is open for the latest generation only while it may still run; from the
\* cancel to the closing, only its start worker may have stopped its run.
FenceOK ==
    /\ forwarding # {} => loop.open /\ forwarding \subseteq {loop.gen}
    /\ loop.open => loop.gen # 0 /\ (loop.starting \/ loop.run = loop.gen)
    /\ loop.open /\ runs[loop.gen] = "stopped" => Fencing /\ loop.starting
    /\ Fencing => loop.pc = "leaving" \/ (loop.pc = "running" /\ loop.late)

\* What expired credentials leave behind.
OwedOK ==
    log.owed /\ loop.pc = "running" =>
        loop.state \in {"repairing", "blocked"} /\ loop.last = "credentials"

\* Repairs are counted with the failures that called for them.
BudgetOK ==
    /\ log.repairs < MaxSame
    /\ log.repairs <= IF loop.same = "credentials" THEN loop.count ELSE 0

\* Where the news of a ban is.
BanOK ==
    log.ban /\ ~log.lapsed /\ loop.pc = "running" =>
        \/ loop.banned /\ loop.state = "unpaired"
        \/ /\ loop.pairing = "active"
           /\ \/ pairer = "limited"
              \/ pairer = "calling" /\ \E n \in DOMAIN pairEvents : pairEvents[n] = "blocked"

\* A probe that is awaited was sent.
ProbeOK == loop.probe # "none" => prober # "none"

SupInv ==
    /\ SupTypeOK /\ ShapeOK /\ CountOK /\ RunsOK /\ FenceOK /\ ProbeOK /\ OwedOK /\ BudgetOK
    /\ BanOK /\ NothingStranded

-----------------------------------------------------------------------------
(* What the helpers make of the loop *)

\* The fields that the routing of a failure leaves alone.
Kept(l, m) ==
    /\ m.pc = l.pc /\ m.gen = l.gen /\ m.starting = l.starting /\ m.late = l.late
    /\ m.reply = l.reply /\ m.open = l.open /\ m.canceled = l.canceled /\ m.run = l.run
    /\ m.listens = l.listens /\ m.probe = l.probe /\ m.pairing = l.pairing
    /\ m.pairings = l.pairings

\* The states, and what else a loop consists of, by name.
LEMMA Named ==
    /\ "unpaired" \in States /\ "stopped" \in States /\ "pairing" \in States
    /\ "connecting" \in States /\ "online" \in States /\ "degraded" \in States
    /\ "backoff" \in States /\ "repairing" \in States /\ "blocked" \in States
    /\ "stopping" \in States
    /\ "none" \in Timers /\ "connect" \in Timers /\ "liveness" \in Timers
    /\ "backoff" \in Timers /\ "probe" \in Timers /\ "pair" \in Timers
    /\ "none" \in Reasons /\ "credentials" \in Reasons /\ "pair" \in Reasons
    /\ "other" \in Reasons
    /\ "none" \in ProbePlaces /\ "waiting" \in ProbePlaces /\ "late" \in ProbePlaces
    /\ "none" \in PairPlaces /\ "active" \in PairPlaces /\ "expired" \in PairPlaces
    /\ "running" \in LoopPlaces /\ "leaving" \in LoopPlaces /\ "joining" \in LoopPlaces
    /\ "stopped" \in LoopPlaces
  BY DEF States, Timers, Reasons, ProbePlaces, PairPlaces, LoopPlaces

\* Beginning a repair makes a loop of a loop (beginCredentialRepair).
LEMMA RepairType ==
    ASSUME NEW l, NoTimer(l) \in LoopType
    PROVE  Repair(l) \in LoopType
  <1>3. "repairing" \in States /\ "blocked" \in States /\ "credentials" \in Reasons
        BY Named
  <1>1. CASE HasRepairer = TRUE
    <2>1. Repair(l) = [NoTimer(l) EXCEPT !.state = "repairing", !.repairing = TRUE,
                                         !.last = "credentials", !.banned = FALSE]
          BY <1>1 DEF Repair
    <2> QED BY <1>3, <2>1 DEF LoopType
  <1>2. CASE HasRepairer = FALSE
    <2>1. Repair(l) = [NoTimer(l) EXCEPT !.state = "blocked", !.repairing = FALSE,
                                         !.last = "credentials", !.banned = FALSE]
          BY <1>2 DEF Repair
    <2> QED BY <1>3, <2>1 DEF LoopType
  <1> QED BY <1>1, <1>2, SupervisorAssumption

\* Every helper makes a loop of a loop.
LEMMA HelperTypes ==
    ASSUME NEW l \in LoopType
    PROVE  /\ NoTimer(l) \in LoopType /\ NoHistory(l) \in LoopType
           /\ NoContext(l) \in LoopType /\ Retired(l) \in LoopType /\ Overdue(l) \in LoopType
           /\ Repair(l) \in LoopType /\ Waits(l) \in LoopType /\ Probes(l) \in LoopType
           /\ ExpirePairing(l) \in LoopType /\ Barred(l) \in LoopType
           /\ Timer(l, "liveness") \in LoopType /\ Timer(l, "pair") \in LoopType
           /\ Closed(l) \in LoopType
  <1>1. ASSUME NEW s \in Timers
        PROVE  [l EXCEPT !.timer = s, !.due = FALSE] \in LoopType
        BY DEF LoopType
  <1>2. NoTimer(l) \in LoopType /\ Timer(l, "liveness") \in LoopType /\ Timer(l, "pair") \in LoopType
        BY <1>1, Named DEF NoTimer, Timer
  <1>3. 0 \in 0..MaxSame /\ 0 \in 0..MaxGenerations
        BY SupervisorAssumption
  <1>4. NoHistory(l) \in LoopType
        BY <1>3, Named DEF NoHistory, LoopType
  <1>5. NoContext(l) \in LoopType
        BY DEF NoContext, LoopType
  <1>6. Retired(l) \in LoopType
        BY <1>3, Named DEF Retired, NoContext, LoopType
  <1>7. Overdue(l) \in LoopType
        BY Named DEF Overdue, NoTimer, LoopType
  <1>8. Repair(l) \in LoopType
        BY <1>2, RepairType
  <1>9. Waits(l) \in LoopType
        BY Named DEF Waits, Timer, LoopType
  <1>10. Probes(l) \in LoopType
        BY Named DEF Probes, Timer, LoopType
  <1>11. ExpirePairing(l) \in LoopType
        BY Named DEF ExpirePairing, NoTimer, LoopType
  <1>12. Barred(l) \in LoopType
        BY Named DEF Barred, ExpirePairing, NoTimer, LoopType
  <1>13. Closed(l) \in LoopType
        BY <1>3, Named DEF Closed, NoTimer, LoopType
  <1> QED BY <1>2, <1>4, <1>5, <1>6, <1>7, <1>8, <1>9, <1>10, <1>11, <1>12, <1>13

\* recordFingerprint counts one class at a time.
LEMMA CountedIs ==
    ASSUME NEW l \in LoopType, NEW c \in Classes, l.count < MaxSame
    PROVE  /\ Counted(l, c) \in LoopType /\ Kept(l, Counted(l, c))
           /\ Counted(l, c).state = l.state /\ Counted(l, c).timer = l.timer
           /\ Counted(l, c).last = l.last /\ Counted(l, c).repairing = l.repairing
           /\ Counted(l, c).banned = l.banned /\ Counted(l, c).silent = l.silent
           /\ Counted(l, c).due = l.due
           /\ c = "transient" => Counted(l, c).same = l.same /\ Counted(l, c).count = l.count
           /\ c # "transient" => /\ Counted(l, c).same = c
                                 /\ Counted(l, c).count = IF c = l.same THEN l.count + 1 ELSE 1
  <1>1. MaxSame \in Nat /\ l.count \in 0..MaxSame /\ l.count + 1 \in 0..MaxSame /\ 1 \in 0..MaxSame
        BY SupervisorAssumption DEF LoopType
  <1>2. CASE c = "transient"
        BY <1>2 DEF Counted, Kept
  <1>3. CASE c # "transient" /\ c = l.same
        BY <1>1, <1>3 DEF Counted, Kept, LoopType, Classes
  <1>4. CASE c # "transient" /\ c # l.same
        BY <1>1, <1>4 DEF Counted, Kept, LoopType, Classes
  <1> QED BY <1>2, <1>3, <1>4

\* routeFailure: the account waits for its credentials or for a retry, or rests.
LEMMA RouteType ==
    ASSUME NEW l \in LoopType, NEW c \in Classes, l.count < MaxSame
    PROVE  Route(l, c) \in LoopType
  <1> DEFINE k == [l EXCEPT !.banned = FALSE, !.silent = FALSE,
                            !.last = IF c = "credentials" THEN c ELSE "other"]
             n == Counted(k, c)
  <1>2. k \in LoopType /\ k.count = l.count
    <2>1. CASE c = "credentials"
      <3>1. k = [l EXCEPT !.banned = FALSE, !.silent = FALSE, !.last = "credentials"]
            BY <2>1
      <3> HIDE DEF k
      <3> QED BY <3>1, Named DEF LoopType
    <2>2. CASE c # "credentials"
      <3>1. k = [l EXCEPT !.banned = FALSE, !.silent = FALSE, !.last = "other"]
            BY <2>2
      <3> HIDE DEF k
      <3> QED BY <3>1, Named DEF LoopType
    <2> QED BY <2>1, <2>2
  <1>6. Route(l, c) = CASE c = "unpaired" -> [NoHistory(k) EXCEPT !.last = "other", !.state = "unpaired"]
          [] c # "unpaired" /\ Repeats(k, c) -> [n EXCEPT !.state = "blocked"]
          [] c \in {"transient", "limited"} /\ ~Repeats(k, c) -> Waits(n)
          [] c = "credentials" /\ ~Repeats(k, c) -> Repair(n)
          [] c = "terminal" /\ ~Repeats(k, c)    -> [n EXCEPT !.state = "blocked"]
        BY DEF Route
  <1> HIDE DEF k
  <1>3. n \in LoopType
        BY <1>2, CountedIs
  <1>4. ASSUME NEW x \in LoopType, NEW s \in States PROVE [x EXCEPT !.state = s] \in LoopType
        BY DEF LoopType
  <1>5. ASSUME NEW x \in LoopType
        PROVE  [x EXCEPT !.last = "other", !.state = "unpaired"] \in LoopType
        BY Named DEF LoopType
  <1> HIDE DEF n
  <1>7. NoHistory(k) \in LoopType /\ Waits(n) \in LoopType /\ Repair(n) \in LoopType
        BY <1>2, <1>3, HelperTypes
  <1>8. [n EXCEPT !.state = "blocked"] \in LoopType
        BY <1>3, <1>4, Named
  <1>9. [NoHistory(k) EXCEPT !.last = "other", !.state = "unpaired"] \in LoopType
        BY <1>5, <1>7
  <1> QED BY <1>6, <1>7, <1>8, <1>9 DEF Classes

\* ... and what becomes of its fields.
Routed(l, c, m) ==
    /\ Kept(l, m) /\ m.banned = FALSE
    /\ \/ m.state \in {"unpaired", "blocked"} /\ m.timer = "none" /\ m.repairing = FALSE
       \/ m.state = "backoff" /\ m.timer = "backoff" /\ m.repairing = FALSE
       \/ m.state = "repairing" /\ m.timer = "none" /\ m.repairing = TRUE
    /\ m.count < MaxSame \/ m.state = "blocked"
    /\ m.repairing = TRUE => c = "credentials" /\ m.count < MaxSame
    /\ c = "credentials" => /\ m.state \in {"repairing", "blocked"} /\ m.last = c
                            /\ m.same = c
                            /\ m.count = IF l.same = c THEN l.count + 1 ELSE 1
    /\ c = "transient" => m.same = l.same /\ m.count = l.count

\* What routeFailure makes of a loop that has no timer and no repair (routeFailure).
LEMMA RouteIs ==
    ASSUME NEW l \in LoopType, NEW c \in Classes, l.count < MaxSame,
           l.timer = "none", l.repairing = FALSE
    PROVE  Routed(l, c, Route(l, c))
  <1>m. PICK m : m = Route(l, c)
        OBVIOUS
  <1> SUFFICES Routed(l, c, m)
        BY <1>m
  <1> USE DEF Routed
  <1> DEFINE k == [l EXCEPT !.banned = FALSE, !.silent = FALSE,
                            !.last = IF c = "credentials" THEN c ELSE "other"]
             n == Counted(k, c)
  <1>k. k \in LoopType
    <2>1. CASE c = "credentials"
      <3>1. k = [l EXCEPT !.banned = FALSE, !.silent = FALSE, !.last = "credentials"]
            BY <2>1
      <3> HIDE DEF k
      <3> QED BY <3>1, Named DEF LoopType
    <2>2. CASE c # "credentials"
      <3>1. k = [l EXCEPT !.banned = FALSE, !.silent = FALSE, !.last = "other"]
            BY <2>2
      <3> HIDE DEF k
      <3> QED BY <3>1, Named DEF LoopType
    <2> QED BY <2>1, <2>2
  <1>1. /\ Kept(l, k) /\ k.count = l.count /\ k.same = l.same
        /\ k.timer = "none" /\ k.repairing = FALSE /\ k.banned = FALSE
        /\ k.last = IF c = "credentials" THEN c ELSE "other"
        BY DEF LoopType, Kept
  <1>2. MaxSame \in Nat /\ 0 < MaxSame
        BY SupervisorAssumption
  <1>z. 0 \in 0..MaxSame
        BY <1>2
  <1> HIDE DEF k
  <1>n. n \in LoopType
        BY <1>1, <1>k, CountedIs
  <1>3. /\ Kept(k, n) /\ n.timer = "none" /\ n.repairing = FALSE /\ n.banned = FALSE
        /\ n.last = k.last /\ n.count \in Nat
        /\ c = "transient" => n.same = l.same /\ n.count = l.count
        /\ c # "transient" => /\ n.same = c
                              /\ n.count = IF c = l.same THEN l.count + 1 ELSE 1
        BY <1>1, <1>k, CountedIs DEF LoopType
  <1> HIDE DEF n
  <1>4. CASE c = "unpaired"
    <2>1. m = [NoHistory(k) EXCEPT !.last = "other", !.state = "unpaired"]
          BY <1>m, <1>4 DEF Route, k
    <2>2. m = [k EXCEPT !.same = "none", !.count = 0, !.last = "other", !.banned = FALSE,
                        !.state = "unpaired"]
          BY <1>k, <2>1 DEF NoHistory, LoopType
    <2>3. /\ Kept(k, m) /\ m.state = "unpaired" /\ m.timer = k.timer /\ m.count = 0
          /\ m.repairing = k.repairing /\ m.banned = FALSE
          BY <1>k, <2>2 DEF LoopType, Kept
    <2> QED BY <1>1, <1>2, <1>4, <2>3 DEF Kept
  <1>5. CASE c # "unpaired" /\ Repeats(k, c)
    <2>1. m = [n EXCEPT !.state = "blocked"]
          BY <1>m, <1>5 DEF Route, k, n, Classes
    <2>2. Kept(n, m) /\ m.state = "blocked" /\ m.timer = n.timer
          /\ m.repairing = n.repairing /\ m.banned = n.banned /\ m.last = n.last
          /\ m.same = n.same /\ m.count = n.count
          BY <1>n, <2>1 DEF LoopType, Kept
    <2>3. c # "transient"
          BY <1>5 DEF Repeats
    <2> QED BY <1>1, <1>3, <2>2, <2>3 DEF Kept
  <1>6. CASE c \in {"transient", "limited"} /\ ~Repeats(k, c)
    <2>1. m = [n EXCEPT !.timer = "backoff", !.due = FALSE, !.state = "backoff"]
          BY <1>m, <1>6 DEF Route, k, n, Classes, Waits, Timer
    <2>2. Kept(n, m) /\ m.state = "backoff" /\ m.timer = "backoff"
          /\ m.repairing = n.repairing /\ m.banned = n.banned /\ m.last = n.last
          /\ m.same = n.same /\ m.count = n.count
          BY <1>n, <1>3, <2>1 DEF LoopType, Kept
    <2>3. n.count < MaxSame
          BY <1>2, <1>3, <1>6 DEF Repeats, n
    <2> QED BY <1>1, <1>3, <1>6, <2>2, <2>3 DEF Kept
  <1>7. CASE c = "credentials" /\ ~Repeats(k, c)
    <2>1. m = [n EXCEPT !.timer = "none", !.due = FALSE,
                        !.state = IF HasRepairer THEN "repairing" ELSE "blocked",
                        !.repairing = HasRepairer, !.last = "credentials", !.banned = FALSE]
          BY <1>m, <1>7 DEF Route, k, n, Repair, NoTimer
    <2>2. /\ Kept(n, m) /\ m.timer = "none"
          /\ m.state = IF HasRepairer THEN "repairing" ELSE "blocked"
          /\ m.repairing = HasRepairer /\ m.banned = FALSE /\ m.last = "credentials"
          /\ m.same = n.same /\ m.count = n.count
          BY <1>n, <1>3, <2>1 DEF LoopType, Kept
    <2>3. n.count < MaxSame
          BY <1>2, <1>3, <1>7 DEF Repeats, n
    <2> QED BY <1>1, <1>3, <1>7, <2>2, <2>3, SupervisorAssumption DEF Kept
  <1>8. CASE c = "terminal" /\ ~Repeats(k, c)
    <2>1. m = [n EXCEPT !.state = "blocked"]
          BY <1>m, <1>8 DEF Route, k, n
    <2>2. Kept(n, m) /\ m.state = "blocked" /\ m.timer = n.timer
          /\ m.repairing = n.repairing /\ m.banned = n.banned /\ m.last = n.last
          /\ m.same = n.same /\ m.count = n.count
          BY <1>n, <2>1 DEF LoopType, Kept
    <2> QED BY <1>1, <1>3, <1>8, <2>2 DEF Kept
  <1> QED BY <1>4, <1>5, <1>6, <1>7, <1>8 DEF Classes

-----------------------------------------------------------------------------
(* Turns of the loop that route a failure *)

\* A loop with nothing under way, of the generation that failed.
Quiet(l) ==
    /\ l.pc = "running" /\ l.gen = loop.gen /\ l.run = 0 /\ l.starting = FALSE /\ l.late = FALSE
    /\ l.listens = {} /\ l.probe = "none" /\ l.timer = "none" /\ l.repairing = FALSE
    /\ l.pairing = "none"

\* A failure of the connection: no run of any generation is alive afterwards.
LEMMA FailsInv ==
    ASSUME SupInv, loop.pc = "running", loop.state \in {"connecting", "online", "degraded"},
           NEW l \in LoopType, Quiet(l), l.open = FALSE, closing \/ l.reply = FALSE,
           l.same = loop.same, l.count = loop.count,
           NEW c \in Classes, Fails(l, c), UNCHANGED <<closing, pairEvents, Callbacks>>,
           runs' \in [Generations -> {"none", "stopped"}],
           \A g \in Generations : g > loop.gen => runs'[g] = "none"
    PROVE  SupInv'
  <1>m. PICK m : m = Route(l, c)
        OBVIOUS
  <1>1. /\ loop \in LoopType /\ l.count < MaxSame /\ loop.count \in Nat /\ log \in LogType
        /\ closing \in BOOLEAN /\ MaxSame \in Nat
        BY SupervisorAssumption DEF SupInv, CountOK, SupTypeOK, LoopType
  <1>2. m \in LoopType
        BY <1>1, <1>m, RouteType
  <1>q. l.timer = "none" /\ l.repairing = FALSE
        BY DEF Quiet
  <1>4. Routed(l, c, m)
        BY <1>1, <1>m, <1>q, RouteIs
  <1>r. /\ \/ m.state \in {"unpaired", "blocked"} /\ m.timer = "none" /\ m.repairing = FALSE
           \/ m.state = "backoff" /\ m.timer = "backoff" /\ m.repairing = FALSE
           \/ m.state = "repairing" /\ m.timer = "none" /\ m.repairing = TRUE
        /\ m.count < MaxSame \/ m.state = "blocked"
        BY <1>4 DEF Routed
  <1>5. /\ m.repairing = TRUE => c = "credentials" /\ m.count < MaxSame
        /\ c = "credentials" => /\ m.state \in {"repairing", "blocked"} /\ m.last = c
                                /\ m.same = c
                                /\ m.count = IF loop.same = c THEN loop.count + 1 ELSE 1
        /\ c = "transient" => m.same = loop.same /\ m.count = loop.count
        BY <1>4 DEF Routed
  <1>3. /\ m.pc = "running" /\ m.gen = loop.gen /\ m.starting = FALSE /\ m.late = FALSE
        /\ m.reply = l.reply /\ m.open = FALSE /\ m.run = 0 /\ m.listens = {}
        /\ m.probe = "none" /\ m.pairing = "none" /\ m.banned = FALSE
        BY <1>4 DEF Routed, Kept, Quiet
  <1>6. /\ loop' = m /\ starter' = Idle /\ prober' = "none" /\ pairer' = "none" /\ sig' = sig
        /\ repairer' \in {"none", repairer, "calling"}
        /\ log' = [log EXCEPT !.owed = c = "credentials",
                     !.repairs = IF m.repairing THEN @ + 1
                                 ELSE IF c \in {"transient", "credentials"} THEN @ ELSE 0]
        BY <1>m, <1>3 DEF Fails, Becomes
  <1>0. m.repairing \in BOOLEAN
        BY <1>2 DEF LoopType
  <1>7. /\ log' \in LogType /\ log'.owed = (c = "credentials")
        /\ log'.ban = log.ban /\ log'.lapsed = log.lapsed
        /\ log'.repairs = IF m.repairing = TRUE THEN log.repairs + 1
                           ELSE IF c \in {"transient", "credentials"} THEN log.repairs ELSE 0
    <2>1. /\ log'.owed = (c = "credentials") /\ log'.ban = log.ban /\ log'.lapsed = log.lapsed
          /\ log'.repairs = IF m.repairing = TRUE THEN log.repairs + 1
                             ELSE IF c \in {"transient", "credentials"} THEN log.repairs ELSE 0
          BY <1>0, <1>1, <1>6 DEF LogType
    <2>2. log.repairs \in Nat /\ log'.repairs \in Nat /\ log'.owed \in BOOLEAN
          BY <1>1, <2>1 DEF LogType
    <2>3. log' = [log EXCEPT !.owed = log'.owed, !.repairs = log'.repairs]
          BY <1>1, <1>6, <2>1 DEF LogType
    <2> QED BY <1>1, <2>1, <2>2, <2>3 DEF LogType
  <1>8. forwarding = {}
        BY <1>1, <1>m, <1>3 DEF Fails, Becomes, SupInv, FenceOK, LoopType
  <1>9. SupTypeOK'
        BY <1>2, <1>6, <1>7, Idle \in StarterType
        DEF SupInv, SupTypeOK, Callbacks, StarterType, Idle, NoOutcome, Outcomes
  <1>10. ShapeOK' /\ CountOK' /\ NothingStranded'
        BY <1>3, <1>r, <1>6 DEF ShapeOK, CountOK, NothingStranded
  <1>11. RunsOK' /\ FenceOK' /\ ProbeOK'
        BY <1>3, <1>6, <1>8 DEF RunsOK, FenceOK, Fencing, ProbeOK, Callbacks, Idle
  <1>12. OwedOK'
        BY <1>5, <1>6, <1>7 DEF OwedOK
  <1>13. BudgetOK'
    <2>1. /\ log.repairs \in Nat /\ log.repairs < MaxSame
          /\ log.repairs <= IF loop.same = "credentials" THEN loop.count ELSE 0
          BY <1>1 DEF SupInv, BudgetOK, LogType
    <2>2. CASE c = "credentials"
          BY <1>1, <1>5, <1>6, <1>7, <2>1, <2>2 DEF BudgetOK
    <2>3. CASE c = "transient"
          BY <1>1, <1>5, <1>6, <1>7, <2>1, <2>3 DEF BudgetOK
    <2>4. CASE c \notin {"credentials", "transient"}
      <3>1. log'.repairs = 0 /\ m.count \in Nat
            BY <1>2, <1>5, <1>7, <2>4 DEF LoopType
      <3> QED BY <1>1, <1>6, <3>1 DEF BudgetOK
    <2> QED BY <2>2, <2>3, <2>4
  <1>14. BanOK'
        BY <1>6, <1>7, <1>3 DEF SupInv, BanOK, ShapeOK
  <1> QED BY <1>9, <1>10, <1>11, <1>12, <1>13, <1>14 DEF SupInv

-----------------------------------------------------------------------------
(* Turns of the loop that begin a generation *)

\* startGeneration, when it does not refuse.
Started(l, m) ==
    /\ m.gen = l.gen + 1 /\ m.state = "connecting" /\ m.timer = "connect"
    /\ m.starting = TRUE /\ m.late = FALSE /\ m.open = TRUE /\ m.canceled = FALSE
    /\ m.banned = FALSE
    /\ m.pc = l.pc /\ m.run = l.run /\ m.listens = l.listens /\ m.same = l.same
    /\ m.count = l.count /\ m.probe = l.probe /\ m.repairing = l.repairing
    /\ m.pairing = l.pairing

\* A new generation, with its connect timer, is still a loop.
LEMMA StartGenerationType ==
    ASSUME NEW l \in LoopType, l.gen < MaxGenerations
    PROVE  [l EXCEPT !.timer = "connect", !.due = FALSE, !.gen = l.gen + 1,
                     !.state = "connecting", !.silent = FALSE] \in LoopType
  <1>1. /\ l.gen + 1 \in 0..MaxGenerations
        /\ "connecting" \in States /\ "connect" \in Timers
        BY SupervisorAssumption, Named DEF LoopType
  <1> QED BY <1>1 DEF LoopType

\* ... and so is one whose fence was opened for it.
LEMMA OpensType ==
    ASSUME NEW l \in LoopType
    PROVE  [l EXCEPT !.banned = FALSE, !.starting = TRUE, !.late = FALSE, !.open = TRUE,
                     !.canceled = FALSE] \in LoopType
  BY DEF LoopType

\* startGeneration begins the next generation unless the supervisor is closing.
LEMMA StartGenerationIs ==
    ASSUME NEW l \in LoopType, closing = FALSE, l.run = 0, l.starting = FALSE,
           l.gen < MaxGenerations, NEW b \in BOOLEAN
    PROVE  /\ StartGeneration(l) \in LoopType /\ Started(l, StartGeneration(l))
           /\ [StartGeneration(l) EXCEPT !.reply = b] \in LoopType
           /\ Started(l, [StartGeneration(l) EXCEPT !.reply = b])
  <1>1. PICK m : m = StartGeneration(l)
        OBVIOUS
  <1>2. m = [l EXCEPT !.timer = "connect", !.due = FALSE,
                !.gen = l.gen + 1, !.state = "connecting", !.silent = FALSE, !.banned = FALSE,
                !.starting = TRUE, !.late = FALSE, !.open = TRUE, !.canceled = FALSE]
        BY <1>1 DEF StartGeneration, Timer
  <1>3. PICK k \in LoopType : k = [l EXCEPT !.timer = "connect", !.due = FALSE,
                                   !.gen = l.gen + 1, !.state = "connecting", !.silent = FALSE]
        BY StartGenerationType
  <1>4. m \in LoopType
    <2>1. m = [k EXCEPT !.banned = FALSE, !.starting = TRUE, !.late = FALSE, !.open = TRUE,
                        !.canceled = FALSE]
          BY <1>2, <1>3
    <2> QED BY <2>1, OpensType
  <1>5. Started(l, m)
        BY <1>2 DEF LoopType, Started
  <1>6. [m EXCEPT !.reply = b] \in LoopType /\ Started(l, [m EXCEPT !.reply = b])
        BY <1>4, <1>5 DEF LoopType, Started
  <1> QED BY <1>1, <1>4, <1>5, <1>6

\* What Becomes makes of the workers and of the channels is well typed.
LEMMA BecomesType ==
    ASSUME SupTypeOK, NEW l \in LoopType, Becomes(l)
    PROVE  /\ loop' \in LoopType /\ starter' \in StarterType
           /\ prober' \in Classes \cup {"none", "calling", "alive"}
           /\ repairer' \in {"none", "calling", "ok", "failed"}
           /\ pairer' \in {"none", "calling", "paired", "limited", "terminal", "other"}
           /\ sig' \in [ready : BOOLEAN, done : Classes \cup {"none"}]
  BY DEF SupTypeOK, Becomes, StarterType, Idle, NoOutcome, Outcomes, NoSignals

\* A generation begins with no run of an earlier one alive.
LEMMA BeginInv ==
    ASSUME SupInv, loop.pc = "running", closing = FALSE,
           loop.state \in {"stopped", "blocked", "repairing", "backoff"},
           NEW l \in LoopType, Quiet(l), l.count < MaxSame, loop.gen < MaxGenerations,
           NEW m \in LoopType, Started(l, m), Becomes(m),
           UNCHANGED <<closing, runs, pairEvents, Callbacks>>,
           log' \in LogType, log'.ban = log.ban, log'.lapsed = log.lapsed, log'.owed = FALSE,
           \/ log'.repairs = 0
           \/ log'.repairs = log.repairs /\ l.same = loop.same /\ l.count = loop.count
    PROVE  SupInv'
  <1>1. /\ loop \in LoopType /\ loop.run = 0 /\ loop.starting = FALSE /\ loop.gen \in Nat
        /\ MaxSame \in Nat /\ 0 < MaxSame /\ m.count \in Nat
        BY SupervisorAssumption DEF SupInv, ShapeOK, SupTypeOK, LoopType
  <1>2. /\ loop' = m /\ m.pc = "running" /\ m.gen = loop.gen + 1 /\ m.state = "connecting"
        /\ m.timer = "connect" /\ m.starting = TRUE /\ m.late = FALSE /\ m.open = TRUE
        /\ m.canceled = FALSE /\ m.banned = FALSE /\ m.run = 0 /\ m.listens = {}
        /\ m.probe = "none" /\ m.repairing = FALSE /\ m.pairing = "none"
        /\ m.same = l.same /\ m.count = l.count
        BY DEF Started, Quiet, Becomes
  <1>3. forwarding = {} /\ starter'.pc = "calling"
        BY <1>1, <1>2 DEF Becomes, Idle
  <1>4. SupTypeOK'
        BY BecomesType DEF SupInv, SupTypeOK, Callbacks
  <1>5. ShapeOK' /\ CountOK' /\ NothingStranded' /\ ProbeOK'
        BY <1>2 DEF ShapeOK, CountOK, NothingStranded, ProbeOK
  <1>6. RunsOK'
    <2>1. loop.gen + 1 \in Generations
          BY <1>1, SupervisorAssumption DEF Generations
    <2>2. \A g \in Generations : runs[g] # "live"
          BY <1>1, SupervisorAssumption DEF SupInv, RunsOK, Generations
    <2>3. \A g \in Generations : g \in Nat
          BY SupervisorAssumption DEF Generations
    <2> QED BY <1>1, <1>2, <1>3, <2>1, <2>2, <2>3 DEF SupInv, RunsOK
  <1>7. FenceOK'
    <2>1. loop.gen + 1 \in Generations /\ loop.gen + 1 > loop.gen
          BY <1>1, SupervisorAssumption DEF Generations
    <2> QED BY <1>1, <1>2, <1>3, <2>1 DEF SupInv, RunsOK, FenceOK, Fencing, Callbacks
  <1>8. OwedOK'
        BY DEF OwedOK
  <1>9. BudgetOK'
        BY <1>1, <1>2 DEF SupInv, BudgetOK, LogType
  <1>10. BanOK'
        BY DEF SupInv, BanOK, ShapeOK
  <1> QED BY <1>4, <1>5, <1>6, <1>7, <1>8, <1>9, <1>10 DEF SupInv

-----------------------------------------------------------------------------
(* Other turns *)

\* A turn that leaves the generation, its run and its fence alone: the loop does not
\* wait at the fence, or goes on doing so.
LEMMA CalmRuns ==
    ASSUME SupInv, NEW l, Becomes(l), l.gen = loop.gen, l.run = loop.run,
           l.starting = loop.starting, l.open = loop.open, l.canceled = loop.canceled,
           (l.pc = loop.pc /\ l.late = loop.late) \/ loop.pc = "joining",
           UNCHANGED <<runs, forwarding>>
    PROVE  RunsOK' /\ FenceOK' /\ ProbeOK'
  <1>1. loop' = l /\ loop.starting \in BOOLEAN
        BY DEF Becomes, SupInv, SupTypeOK, LoopType
  <1>2. starter'.pc = starter.pc /\ (loop.starting => starter' = starter)
        BY <1>1 DEF SupInv, RunsOK, Becomes, Idle
  <1>3. ProbeOK'
        BY DEF SupInv, ProbeOK, Becomes
  <1>4. RunsOK'
        BY <1>1, <1>2 DEF SupInv, RunsOK
  <1>5. FenceOK'
        BY <1>1 DEF SupInv, FenceOK, Fencing
  <1> QED BY <1>3, <1>4, <1>5

\* An account that does not connect has nothing of a connection.
LEMMA AtRest ==
    ASSUME SupInv, loop.pc = "running",
           loop.state \in {"stopped", "blocked", "unpaired", "repairing", "backoff", "pairing"}
    PROVE  /\ loop.run = 0 /\ loop.starting = FALSE /\ loop.late = FALSE /\ loop.listens = {}
           /\ loop.probe = "none"
           /\ loop.state # "repairing" => loop.repairing = FALSE
           /\ loop.state \notin {"unpaired", "pairing"} => loop.pairing = "none"
           /\ loop.state \notin {"backoff", "pairing"} => loop.timer = "none"
           /\ closing = FALSE => loop.reply = FALSE
           /\ loop \in LoopType /\ loop.gen \in Nat /\ closing \in BOOLEAN
           /\ loop.state # "blocked" => loop.count < MaxSame
           /\ log \in LogType
  <1>1. /\ loop.starting \in BOOLEAN /\ loop.late \in BOOLEAN /\ loop.repairing \in BOOLEAN
        /\ loop.reply \in BOOLEAN
        /\ loop.timer \in Timers /\ loop.probe \in ProbePlaces /\ loop.pairing \in PairPlaces
        /\ loop \in LoopType /\ loop.gen \in Nat /\ closing \in BOOLEAN /\ log \in LogType
        BY SupervisorAssumption DEF SupInv, SupTypeOK, LoopType
  <1>2. ShapeOK /\ CountOK /\ NothingStranded
        BY DEF SupInv
  <1>3. /\ loop.run = 0 /\ loop.starting = FALSE /\ loop.late = FALSE /\ loop.listens = {}
        /\ loop.probe = "none"
        BY <1>1, <1>2 DEF ShapeOK
  <1>4. /\ loop.state # "repairing" => loop.repairing = FALSE
        /\ loop.state \notin {"unpaired", "pairing"} => loop.pairing = "none"
        BY <1>1, <1>2 DEF ShapeOK, PairPlaces
  <1>5. loop.state \notin {"backoff", "pairing"} => loop.timer = "none"
        BY <1>1, <1>2 DEF ShapeOK, Timers
  <1>6. /\ closing = FALSE => loop.reply = FALSE
        /\ loop.state # "blocked" => loop.count < MaxSame
        BY <1>1, <1>2, <1>3 DEF NothingStranded, CountOK
  <1> QED BY <1>1, <1>3, <1>4, <1>5, <1>6

\* A history that is forgotten.
LEMMA NoHistoryIs ==
    ASSUME NEW l \in LoopType, NEW m, m = NoHistory(l)
    PROVE  /\ m \in LoopType /\ Kept(l, m) /\ m.state = l.state /\ m.timer = l.timer
           /\ m.repairing = l.repairing /\ m.same = "none" /\ m.count = 0 /\ m.last = "none"
           /\ m.banned = FALSE /\ m.silent = l.silent /\ m.due = l.due
  <1>1. m \in LoopType
        BY HelperTypes
  <1> QED BY <1>1 DEF NoHistory, LoopType, Kept

\* An account at rest whose history is forgotten is ready for a generation.
LEMMA RestIsQuiet ==
    ASSUME SupInv, loop.pc = "running", loop.state \in {"stopped", "blocked"},
           loop.gen < MaxGenerations, NEW l, l = NoHistory(loop)
    PROVE  /\ l \in LoopType /\ Quiet(l) /\ l.count < MaxSame /\ l.gen < MaxGenerations
           /\ l.run = 0 /\ l.starting = FALSE /\ l.count = 0
  <1>1. /\ loop.run = 0 /\ loop.starting = FALSE /\ loop.late = FALSE /\ loop.listens = {}
        /\ loop.probe = "none" /\ loop.repairing = FALSE /\ loop.pairing = "none"
        /\ loop.timer = "none"
        BY AtRest
  <1>2. loop \in LoopType
        BY AtRest
  <1>3. /\ Kept(loop, l) /\ l.timer = loop.timer /\ l.repairing = loop.repairing
        /\ l.count = 0 /\ l \in LoopType
        BY <1>2, NoHistoryIs
  <1>4. MaxSame \in Nat /\ 0 < MaxSame
        BY SupervisorAssumption
  <1>5. Quiet(l)
        BY <1>1, <1>3 DEF Quiet, Kept
  <1> QED BY <1>1, <1>3, <1>4, <1>5 DEF Kept

\* Start, of an account that was stopped.
LEMMA UserStartInv ==
    ASSUME SupInv, UserStart
    PROVE  SupInv'
  <1>1. /\ loop.pc = "running" /\ closing = FALSE /\ loop.state = "stopped"
        /\ loop.gen < MaxGenerations
        BY DEF UserStart, Turn, MayStart, SupInv, SupTypeOK
  <1>2. PICK l : l = NoHistory(loop)
        OBVIOUS
  <1>3. /\ l \in LoopType /\ Quiet(l) /\ l.count < MaxSame /\ l.gen < MaxGenerations
        /\ l.run = 0 /\ l.starting = FALSE
        BY <1>1, <1>2, RestIsQuiet
  <1>4. PICK m : m = [StartGeneration(l) EXCEPT !.reply = TRUE]
        OBVIOUS
  <1>5. m \in LoopType /\ Started(l, m)
        BY <1>1, <1>3, <1>4, StartGenerationIs
  <1>6. /\ Becomes(m) /\ log' = [log EXCEPT !.repairs = 0]
        /\ UNCHANGED <<closing, runs, pairEvents, Callbacks>>
        BY <1>2, <1>4 DEF UserStart
  <1>7. /\ log' \in LogType /\ log'.ban = log.ban /\ log'.lapsed = log.lapsed
        /\ log'.owed = log.owed /\ log'.repairs = 0
        BY <1>6 DEF SupInv, SupTypeOK, LogType
  <1>8. log'.owed = FALSE
        BY <1>1, <1>7 DEF SupInv, OwedOK, SupTypeOK, LogType
  <1> QED BY <1>1, <1>3, <1>5, <1>6, <1>7, <1>8, BeginInv

\* The end of the wait before a retry.
LEMMA BackoffOverInv ==
    ASSUME SupInv, BackoffOver
    PROVE  SupInv'
  <1>1. loop.pc = "running" /\ loop.timer = "backoff" /\ loop.state = "backoff"
        BY DEF BackoffOver, Due, Turn, SupInv, ShapeOK
  <1>2. /\ loop.run = 0 /\ loop.starting = FALSE /\ loop.late = FALSE /\ loop.listens = {}
        /\ loop.probe = "none" /\ loop.repairing = FALSE /\ loop.pairing = "none"
        /\ loop \in LoopType /\ closing \in BOOLEAN /\ loop.count < MaxSame /\ log \in LogType
        BY <1>1, AtRest
  <1>3. PICK l : l = NoTimer(loop)
        OBVIOUS
  <1>4. l \in LoopType
        BY <1>2, <1>3, HelperTypes
  <1>5. /\ Kept(loop, l) /\ l.timer = "none" /\ l.repairing = FALSE /\ l.state = "backoff"
        /\ l.same = loop.same /\ l.count = loop.count /\ l.last = loop.last
        /\ l.banned = loop.banned
        BY <1>1, <1>2, <1>3 DEF NoTimer, LoopType, Kept
  <1>6. Quiet(l)
        BY <1>1, <1>2, <1>5 DEF Quiet, Kept
  <1>7. /\ Becomes(StartGeneration(l)) /\ UNCHANGED <<closing, runs, pairEvents, Callbacks, log>>
        /\ closing \/ loop.gen < MaxGenerations
        BY <1>3 DEF BackoffOver, MayStart
  <1>8. log.owed = FALSE
        BY <1>1, <1>2 DEF SupInv, OwedOK, LogType
  <1>9. CASE closing = FALSE
    <2>1. StartGeneration(l) \in LoopType /\ Started(l, StartGeneration(l))
          BY <1>2, <1>4, <1>5, <1>7, <1>9, StartGenerationIs DEF Kept
    <2> QED BY <1>1, <1>2, <1>4, <1>5, <1>6, <1>7, <1>8, <1>9, <2>1, BeginInv
  <1>10. CASE closing = TRUE
    <2>1. Becomes(l)
          BY <1>7, <1>10 DEF StartGeneration
    <2>2. loop' = l /\ UNCHANGED <<closing, runs, forwarding, activity, pairEvents, log>>
          BY <1>7, <2>1 DEF Becomes, Callbacks
    <2>3. SupTypeOK'
          BY <1>4, <2>1, <2>2, BecomesType DEF SupInv, SupTypeOK
    <2>4. RunsOK' /\ FenceOK' /\ ProbeOK'
          BY <1>5, <2>1, <2>2, CalmRuns DEF Kept
    <2>5. ShapeOK' /\ CountOK' /\ NothingStranded'
          BY <1>1, <1>2, <1>5, <1>10, <2>2 DEF Kept, ShapeOK, CountOK, NothingStranded
    <2>6. OwedOK' /\ BudgetOK'
          BY <1>5, <1>8, <2>2 DEF SupInv, OwedOK, BudgetOK
    <2>7. BanOK'
          BY <1>1, <1>2, <1>5, <2>2 DEF SupInv, BanOK, Kept
    <2> QED BY <2>3, <2>4, <2>5, <2>6, <2>7 DEF SupInv
  <1> QED BY <1>2, <1>9, <1>10

\* What such a turn leaves to show.
LEMMA CalmInv ==
    ASSUME SupInv, NEW l \in LoopType, Becomes(l), l.gen = loop.gen, l.run = loop.run,
           l.starting = loop.starting, l.open = loop.open, l.canceled = loop.canceled,
           (l.pc = loop.pc /\ l.late = loop.late) \/ loop.pc = "joining",
           UNCHANGED <<closing, runs, forwarding>>,
           activity' \subseteq activity,
           pairEvents' \in Seq({"code", "blocked"}), Len(pairEvents') <= EventBound,
           log' \in LogType
    PROVE  SupTypeOK' /\ RunsOK' /\ FenceOK' /\ ProbeOK' /\ loop' = l
  <1>1. RunsOK' /\ FenceOK' /\ ProbeOK'
        BY CalmRuns
  <1>2. SupTypeOK /\ activity' \subseteq Generations
        BY DEF SupInv, SupTypeOK
  <1>3. SupTypeOK'
        BY <1>2, BecomesType DEF SupTypeOK
  <1>4. loop' = l
        BY DEF Becomes
  <1> QED BY <1>1, <1>3, <1>4

\* The fields that setting a timer leaves alone.
SameBut(l, m) ==
    /\ Kept(l, m) /\ m.same = l.same /\ m.count = l.count /\ m.last = l.last
    /\ m.repairing = l.repairing

\* replaceTimer changes the timer only.
LEMMA TimerIs ==
    ASSUME NEW l \in LoopType, NEW t \in Timers, NEW m, m = Timer(l, t)
    PROVE  /\ m \in LoopType /\ SameBut(l, m) /\ m.state = l.state /\ m.timer = t
           /\ m.banned = l.banned
  BY DEF Timer, LoopType, SameBut, Kept

\* clearTimer changes the timer only.
LEMMA NoTimerIs ==
    ASSUME NEW l \in LoopType, NEW m, m = NoTimer(l)
    PROVE  /\ m \in LoopType /\ SameBut(l, m) /\ m.state = l.state /\ m.timer = "none"
           /\ m.banned = l.banned
  BY Named DEF NoTimer, LoopType, SameBut, Kept

\* beginCredentialRepair, of an account at rest whose history is forgotten.
LEMMA RepairIs ==
    ASSUME NEW l \in LoopType, NEW m, m = Repair(l)
    PROVE  /\ m \in LoopType /\ Kept(l, m) /\ m.same = l.same /\ m.count = l.count
           /\ m.state = IF HasRepairer THEN "repairing" ELSE "blocked"
           /\ m.repairing = HasRepairer /\ m.timer = "none" /\ m.last = "credentials"
           /\ m.banned = FALSE
  <1>1. PICK k : k = NoTimer(l)
        OBVIOUS
  <1>2. k \in LoopType /\ SameBut(l, k) /\ k.timer = "none"
        BY <1>1, NoTimerIs
  <1>3. m = [k EXCEPT !.state = IF HasRepairer THEN "repairing" ELSE "blocked",
                      !.repairing = HasRepairer, !.last = "credentials", !.banned = FALSE]
        BY <1>1 DEF Repair
  <1>4. m \in LoopType
        BY HelperTypes
  <1>5. /\ Kept(k, m) /\ m.same = k.same /\ m.count = k.count
        /\ m.state = IF HasRepairer THEN "repairing" ELSE "blocked"
        /\ m.repairing = HasRepairer /\ m.timer = k.timer /\ m.last = "credentials"
        /\ m.banned = FALSE
        BY <1>2, <1>3 DEF LoopType, Kept
  <1> QED BY <1>2, <1>4, <1>5 DEF SameBut, Kept

\* RetryBlocked and InputsChanged.
LEMMA UnblockInv ==
    ASSUME SupInv, Unblock
    PROVE  SupInv'
  <1>1. /\ loop.pc = "running" /\ closing = FALSE /\ loop.state = "blocked"
        /\ loop.gen < MaxGenerations
        BY DEF Unblock, Turn, MayStart, SupInv, SupTypeOK
  <1>2. PICK l : l = NoHistory(loop)
        OBVIOUS
  <1>3. /\ l \in LoopType /\ Quiet(l) /\ l.count < MaxSame /\ l.gen < MaxGenerations
        /\ l.run = 0 /\ l.starting = FALSE /\ l.count = 0
        BY <1>1, <1>2, RestIsQuiet
  <1>4. /\ loop.run = 0 /\ loop.starting = FALSE /\ loop.late = FALSE /\ loop.listens = {}
        /\ loop.probe = "none" /\ loop.pairing = "none"
        /\ loop.timer = "none" /\ loop.reply = FALSE /\ loop \in LoopType /\ log \in LogType
        BY <1>1, AtRest
  <1>5. /\ Kept(loop, l) /\ l.timer = "none" /\ l.banned = FALSE /\ l.repairing = FALSE
        /\ l.state = "blocked" /\ l.same = "none"
        BY <1>1, <1>2, <1>4, AtRest, NoHistoryIs
  <1>6. /\ Becomes(Resume(loop)) /\ log' = [log EXCEPT !.repairs = 0]
        /\ UNCHANGED <<closing, runs, pairEvents, Callbacks>>
        BY DEF Unblock
  <1>7. /\ log' \in LogType /\ log'.ban = log.ban /\ log'.lapsed = log.lapsed
        /\ log'.owed = log.owed /\ log'.repairs = 0
        BY <1>4, <1>6 DEF LogType
  <1>8. log'.owed = TRUE => loop.last = "credentials"
        BY <1>1, <1>7 DEF SupInv, OwedOK
  <1>9. log'.ban = TRUE => log'.lapsed = TRUE
        BY <1>1, <1>4, <1>7 DEF SupInv, BanOK, LogType
  <1>10. MaxSame \in Nat /\ 0 < MaxSame /\ HasRepairer \in BOOLEAN
        BY SupervisorAssumption
  <1>11. CASE loop.last = "credentials"
    <2>1. PICK m : m = Repair(l)
          OBVIOUS
    <2>2. /\ m \in LoopType /\ Kept(l, m) /\ m.same = l.same /\ m.count = l.count
          /\ m.state = IF HasRepairer THEN "repairing" ELSE "blocked"
          /\ m.repairing = HasRepairer /\ m.timer = "none" /\ m.last = "credentials"
          /\ m.banned = FALSE
          BY <1>3, <2>1, RepairIs
    <2>3. Becomes(m)
          BY <1>2, <1>6, <1>11, <2>1 DEF Resume
    <2>4. SupTypeOK' /\ RunsOK' /\ FenceOK' /\ ProbeOK' /\ loop' = m
      <3>1. UNCHANGED <<closing, runs, forwarding>> /\ activity' \subseteq activity
            /\ pairEvents' \in Seq({"code", "blocked"}) /\ Len(pairEvents') <= EventBound
            BY <1>6 DEF Callbacks, SupInv, SupTypeOK
      <3>2. /\ m.gen = loop.gen /\ m.run = loop.run /\ m.starting = loop.starting
            /\ m.open = loop.open /\ m.canceled = loop.canceled
            /\ m.pc = loop.pc /\ m.late = loop.late
            BY <1>5, <2>2 DEF Kept
      <3> QED BY <1>7, <2>2, <2>3, <3>1, <3>2, CalmInv
    <2>5. ShapeOK' /\ CountOK' /\ NothingStranded'
          BY <1>1, <1>3, <1>4, <1>5, <1>6, <1>10, <2>2, <2>4
          DEF Kept, ShapeOK, CountOK, NothingStranded
    <2>6. OwedOK' /\ BudgetOK' /\ BanOK'
          BY <1>3, <1>7, <1>9, <1>10, <2>2, <2>4 DEF OwedOK, BudgetOK, BanOK
    <2> QED BY <2>4, <2>5, <2>6 DEF SupInv
  <1>12. CASE loop.last = "pair"
    <2>1. PICK m : m = [l EXCEPT !.state = "unpaired"]
          OBVIOUS
    <2>2. m \in LoopType
          BY <1>3, <2>1, Named DEF LoopType
    <2>3. /\ SameBut(l, m) /\ m.state = "unpaired" /\ m.timer = "none" /\ m.banned = FALSE
          BY <1>3, <1>5, <2>1 DEF LoopType, SameBut, Kept
    <2>4. Becomes(m)
          BY <1>2, <1>6, <1>12, <2>1 DEF Resume
    <2>5. SupTypeOK' /\ RunsOK' /\ FenceOK' /\ ProbeOK' /\ loop' = m
      <3>1. UNCHANGED <<closing, runs, forwarding>> /\ activity' \subseteq activity
            /\ pairEvents' \in Seq({"code", "blocked"}) /\ Len(pairEvents') <= EventBound
            BY <1>6 DEF Callbacks, SupInv, SupTypeOK
      <3>2. /\ m.gen = loop.gen /\ m.run = loop.run /\ m.starting = loop.starting
            /\ m.open = loop.open /\ m.canceled = loop.canceled
            /\ m.pc = loop.pc /\ m.late = loop.late
            BY <1>5, <2>3 DEF Kept, SameBut
      <3> QED BY <1>7, <2>2, <2>4, <3>1, <3>2, CalmInv
    <2>6. ShapeOK' /\ CountOK' /\ NothingStranded'
          BY <1>1, <1>3, <1>4, <1>5, <1>6, <1>10, <2>3, <2>5
          DEF Kept, SameBut, ShapeOK, CountOK, NothingStranded
    <2>8. log'.owed = FALSE
          BY <1>7, <1>8, <1>12 DEF LogType
    <2>7. OwedOK' /\ BudgetOK' /\ BanOK'
          BY <1>3, <1>7, <1>9, <1>10, <2>3, <2>5, <2>8 DEF SameBut, OwedOK, BudgetOK, BanOK
    <2> QED BY <2>5, <2>6, <2>7 DEF SupInv
  <1>13. CASE loop.last \notin {"credentials", "pair"}
    <2>1. PICK m : m = [StartGeneration(l) EXCEPT !.reply = TRUE]
          OBVIOUS
    <2>2. m \in LoopType /\ Started(l, m)
          BY <1>1, <1>3, <2>1, StartGenerationIs
    <2>3. Becomes(m)
          BY <1>1, <1>2, <1>6, <1>13, <2>1 DEF Resume
    <2>4. log'.owed = FALSE
          BY <1>7, <1>8, <1>13 DEF LogType
    <2> QED BY <1>1, <1>3, <1>6, <1>7, <2>2, <2>3, <2>4, BeginInv
  <1> QED BY <1>11, <1>12, <1>13

\* A connection that stands or is being made owes nothing.
LEMMA Connected ==
    ASSUME SupInv, loop.pc = "running", loop.state \in {"connecting", "online", "degraded"}
    PROVE  /\ loop.repairing = FALSE /\ loop.pairing = "none"
           /\ log.owed = FALSE /\ (log.ban = TRUE => log.lapsed = TRUE)
           /\ loop.run # 0 => loop.starting = FALSE
           /\ loop.starting = FALSE => loop.late = FALSE
           /\ closing = FALSE /\ loop.starting = FALSE => loop.reply = FALSE
           /\ loop \in LoopType /\ loop.gen \in Nat /\ closing \in BOOLEAN
           /\ loop.count < MaxSame /\ log \in LogType
  <1>1. /\ loop.starting \in BOOLEAN /\ loop.late \in BOOLEAN /\ loop.repairing \in BOOLEAN
        /\ loop.reply \in BOOLEAN /\ loop.pairing \in PairPlaces
        /\ log.owed \in BOOLEAN /\ log.ban \in BOOLEAN /\ log.lapsed \in BOOLEAN
        /\ loop \in LoopType /\ loop.gen \in Nat /\ closing \in BOOLEAN /\ log \in LogType
        BY SupervisorAssumption DEF SupInv, SupTypeOK, LoopType, LogType
  <1>2. ShapeOK /\ CountOK /\ NothingStranded /\ RunsOK /\ OwedOK /\ BanOK
        BY DEF SupInv
  <1>3. loop.repairing = FALSE /\ loop.pairing = "none"
        BY <1>1, <1>2 DEF ShapeOK, PairPlaces
  <1>4. log.owed = FALSE /\ (log.ban = TRUE => log.lapsed = TRUE)
        BY <1>1, <1>2, <1>3 DEF OwedOK, BanOK
  <1>5. /\ loop.run # 0 => loop.starting = FALSE
        /\ loop.starting = FALSE => loop.late = FALSE
        BY <1>1, <1>2 DEF ShapeOK, RunsOK
  <1>6. /\ closing = FALSE /\ loop.starting = FALSE => loop.reply = FALSE
        /\ loop.count < MaxSame
        BY <1>1, <1>2 DEF NothingStranded, CountOK
  <1> QED BY <1>1, <1>3, <1>4, <1>5, <1>6

\* The loop, once its connection is given up.
GivenUp(k, l) ==
    /\ l.pc = k.pc /\ l.gen = k.gen /\ l.run = 0
    /\ l.starting = k.starting /\ l.late = k.late /\ l.listens = {} /\ l.probe = "none"
    /\ l.timer = "none" /\ l.repairing = k.repairing /\ l.pairing = k.pairing
    /\ l.open = FALSE /\ l.canceled = TRUE /\ l.reply = k.reply /\ l.same = k.same
    /\ l.count = k.count /\ l.state = k.state /\ l.last = k.last /\ l.banned = k.banned

\* retireCurrent lets go of the run and shuts the fence.
LEMMA GivenUpIs ==
    ASSUME NEW k \in LoopType, NEW l, l = Retired(NoTimer(k))
    PROVE  l \in LoopType /\ GivenUp(k, l)
  <1>1. PICK n : n = NoTimer(k)
        OBVIOUS
  <1>2. /\ n \in LoopType /\ SameBut(k, n) /\ n.state = k.state /\ n.timer = "none"
        /\ n.banned = k.banned
        BY <1>1, NoTimerIs
  <1>3. l = [n EXCEPT !.canceled = TRUE, !.open = FALSE, !.listens = {}, !.run = 0,
                      !.probe = "none"]
        BY <1>1, <1>2 DEF Retired, NoContext, LoopType
  <1>5. l \in LoopType
        BY <1>1, <1>2, HelperTypes
  <1>6. /\ l.pc = n.pc /\ l.gen = n.gen /\ l.run = 0
        /\ l.starting = n.starting /\ l.late = n.late /\ l.listens = {} /\ l.probe = "none"
        /\ l.timer = n.timer /\ l.repairing = n.repairing /\ l.pairing = n.pairing
        /\ l.open = FALSE /\ l.canceled = TRUE /\ l.reply = n.reply /\ l.same = n.same
        /\ l.count = n.count /\ l.state = n.state /\ l.last = n.last
        /\ l.banned = n.banned
        BY <1>2, <1>3 DEF LoopType
  <1> QED BY <1>2, <1>5, <1>6 DEF SameBut, Kept, GivenUp

\* A connection that ends: its run is stopped, and the failure routed.
LEMMA EndsInv ==
    ASSUME SupInv, loop.pc = "running", loop.state \in {"connecting", "online", "degraded"},
           loop.starting = FALSE, NEW c \in Classes, Fails(Retired(NoTimer(loop)), c), StopsOwn,
           UNCHANGED <<closing, pairEvents, Callbacks>>
    PROVE  SupInv'
  <1>1. PICK l : l = Retired(NoTimer(loop))
        OBVIOUS
  <1>2. /\ loop.repairing = FALSE /\ loop.pairing = "none" /\ loop.late = FALSE
        /\ closing \/ loop.reply = FALSE
        /\ loop \in LoopType
        BY Connected
  <1>3. l \in LoopType /\ GivenUp(loop, l)
        BY <1>1, <1>2, GivenUpIs
  <1>4. /\ Quiet(l) /\ l.open = FALSE /\ l.reply = loop.reply /\ l.same = loop.same
        /\ l.count = loop.count
        BY <1>2, <1>3 DEF Quiet, GivenUp
  <1>5. /\ runs' \in [Generations -> {"none", "stopped"}]
        /\ \A g \in Generations : g > loop.gen => runs'[g] = "none"
    <2>1. /\ runs \in [Generations -> {"none", "live", "stopped", "twice"}]
          /\ \A g \in Generations : runs[g] # "twice" /\ (g > loop.gen => runs[g] = "none")
          /\ \A g \in Generations : runs[g] = "live" => loop.run = g
          /\ loop.run # 0 => loop.run = loop.gen /\ runs[loop.run] = "live"
      <3>1. starter.pc = "idle"
            BY DEF SupInv, RunsOK
      <3> QED BY <3>1 DEF SupInv, SupTypeOK, RunsOK
    <2>2. loop.gen \in Nat /\ \A g \in Generations : g \in Nat \ {0}
          BY <1>2, SupervisorAssumption DEF Generations, LoopType
    <2>3. CASE loop.run = 0
          BY <2>1, <2>2, <2>3 DEF StopsOwn
    <2>4. CASE loop.run # 0
      <3>1. runs' = [runs EXCEPT ![loop.run] = "stopped"]
            BY <2>1, <2>4 DEF StopsOwn, StopRun
      <3>2. loop.run \in Generations
            BY <1>2, <2>4, SupervisorAssumption DEF LoopType, Generations
      <3> QED BY <2>1, <2>2, <3>1, <3>2
    <2> QED BY <2>3, <2>4
  <1>6. Fails(l, c)
        BY <1>1
  <1> QED BY <1>2, <1>3, <1>4, <1>5, <1>6, FailsInv

\* TimedOut is a connect deadline, of an account that connects.
LEMMA TimedOutClass ==
    ASSUME SupInv, loop.pc = "running"
    PROVE  /\ TimedOut => loop.state = "connecting"
           /\ sig.done # "none" => sig.done \in Classes
           /\ "transient" \in Classes /\ "terminal" \in Classes
  BY DEF SupInv, SupTypeOK, ShapeOK, TimedOut, Classes

\* The end of a run keeps the invariant (handleRunDone).
LEMMA RunIsOverInv ==
    ASSUME SupInv, loop.pc = "running", loop.run # 0, RunIsOver,
           sig.done # "none" \/ TimedOut, UNCHANGED <<closing, pairEvents, Callbacks>>
    PROVE  SupInv'
  <1>1. loop.state \in {"connecting", "online", "degraded"} /\ loop.starting = FALSE
    <2>1. loop.state \in {"connecting", "online", "degraded"}
          BY DEF SupInv, ShapeOK
    <2> QED BY <2>1, Connected
  <1>2. PICK c : c = IF TimedOut THEN "transient" ELSE sig.done
        OBVIOUS
  <1>3. c \in Classes
        BY <1>2, TimedOutClass
  <1>4. Fails(Retired(NoTimer(loop)), c) /\ StopsOwn
        BY <1>2 DEF RunIsOver
  <1> QED BY <1>1, <1>3, <1>4, EndsInv

\* ... also when the end is what the loop selects.
LEMMA HandleRunDoneInv ==
    ASSUME SupInv, HandleRunDone
    PROVE  SupInv'
  <1>1. loop.pc = "running" /\ loop.run # 0
        BY DEF HandleRunDone, Turn, SupInv, ShapeOK
  <1> QED BY <1>1, RunIsOverInv DEF HandleRunDone

\* A connect deadline, of a start that is out or of a run that is not ready
\* (handleConnectTimeout).
LEMMA ConnectDeadlineInv ==
    ASSUME SupInv, ConnectDeadline
    PROVE  SupInv'
  <1>1. loop.pc = "running" /\ loop.timer = "connect" /\ loop.state = "connecting"
        BY DEF ConnectDeadline, Due, Turn, SupInv, ShapeOK
  <1>2. /\ loop.repairing = FALSE /\ loop.pairing = "none" /\ log.owed = FALSE
        /\ (log.ban = TRUE => log.lapsed = TRUE) /\ loop \in LoopType
        /\ closing \in BOOLEAN /\ loop.count < MaxSame /\ log \in LogType
        /\ loop.starting \in BOOLEAN
        BY <1>1, Connected DEF LoopType
  <1>3. UNCHANGED <<closing, pairEvents, Callbacks>>
        BY DEF ConnectDeadline
  <1>4. CASE loop.starting = FALSE
    <2>1. Fails(Retired(NoTimer(loop)), "transient") /\ StopsOwn
          BY <1>4 DEF ConnectDeadline
    <2> QED BY <1>1, <1>3, <1>4, <2>1, EndsInv, TimedOutClass
  <1>5. CASE loop.starting = TRUE
    <2>1. Becomes(Overdue(loop)) /\ UNCHANGED <<runs, log>>
          BY <1>5 DEF ConnectDeadline
    <2>2. PICK k : k = NoTimer(loop)
          OBVIOUS
    <2>3. k \in LoopType /\ SameBut(loop, k) /\ k.state = loop.state /\ k.timer = "none"
          BY <1>2, <2>2, NoTimerIs
    <2>4. PICK m : m = Overdue(loop)
          OBVIOUS
    <2>5. m = [k EXCEPT !.late = TRUE, !.canceled = TRUE]
          BY <2>2, <2>4 DEF Overdue
    <2>6. m \in LoopType
          BY <2>3, <2>5 DEF LoopType
    <2>7. /\ m.pc = k.pc /\ m.gen = k.gen /\ m.run = k.run /\ m.starting = k.starting
          /\ m.late = TRUE /\ m.listens = k.listens /\ m.probe = k.probe /\ m.timer = k.timer
          /\ m.repairing = k.repairing /\ m.pairing = k.pairing /\ m.open = k.open
          /\ m.canceled = TRUE /\ m.reply = k.reply /\ m.same = k.same /\ m.count = k.count
          /\ m.state = k.state /\ m.last = k.last
          BY <2>3, <2>5 DEF LoopType
    <2>8. /\ m.pc = "running" /\ m.gen = loop.gen /\ m.run = loop.run /\ m.starting = TRUE
          /\ m.late = TRUE /\ m.listens = loop.listens /\ m.probe = loop.probe
          /\ m.timer = "none" /\ m.repairing = FALSE /\ m.pairing = "none" /\ m.open = loop.open
          /\ m.canceled = TRUE /\ m.reply = loop.reply /\ m.same = loop.same
          /\ m.count = loop.count /\ m.state = "connecting" /\ m.last = loop.last
          BY <1>1, <1>2, <1>5, <2>3, <2>7 DEF SameBut, Kept
    <2>9. loop' = m /\ starter' = starter /\ Becomes(m) /\ UNCHANGED runs
          BY <1>5, <2>1, <2>4, <2>8 DEF Becomes
    <2>10. forwarding' = forwarding /\ activity' = activity
          BY <1>3 DEF Callbacks
    <2>11. SupTypeOK'
          BY <1>3, <2>1, <2>6, <2>9, <2>10, BecomesType DEF SupInv, SupTypeOK
    <2>12. RunsOK'
          BY <1>5, <2>8, <2>9 DEF SupInv, RunsOK
    <2>13. FenceOK' /\ ProbeOK'
      <3>1. FenceOK'
            BY <2>8, <2>9, <2>10 DEF SupInv, FenceOK, Fencing
      <3>2. ProbeOK'
            BY <2>8, <2>9 DEF SupInv, ProbeOK, Becomes
      <3> QED BY <3>1, <3>2
    <2>14. loop.probe = "none" /\ loop.run = 0 /\ loop.listens = {}
          BY <1>1, <1>5 DEF SupInv, ShapeOK, RunsOK
    <2>15. ShapeOK' /\ CountOK' /\ NothingStranded'
          BY <1>2, <2>8, <2>9, <2>14 DEF ShapeOK, CountOK, NothingStranded
    <2>16. OwedOK' /\ BudgetOK' /\ BanOK'
          BY <1>2, <2>1, <2>8, <2>9 DEF SupInv, OwedOK, BudgetOK, BanOK, LogType
    <2> QED BY <2>11, <2>12, <2>13, <2>15, <2>16 DEF SupInv
  <1> QED BY <1>2, <1>4, <1>5

\* A turn of a connection that goes on, with or without its history.
LEMMA GoesOnInv ==
    ASSUME SupInv, loop.pc = "running", loop.run # 0,
           NEW m \in LoopType, Becomes(m), m.pc = "running", m.gen = loop.gen, m.run = loop.run,
           m.starting = loop.starting, m.late = loop.late, m.open = loop.open,
           m.canceled = loop.canceled,
           m.reply = loop.reply, m.repairing = loop.repairing, m.pairing = loop.pairing,
           \/ m.state = "connecting" /\ loop.state = "connecting" /\ m.listens = loop.listens
              /\ m.timer = loop.timer /\ m.probe = loop.probe
           \/ m.state = "online" /\ m.timer = "liveness" /\ m.probe = "none" /\ m.listens \subseteq {"done"}
           \/ m.state = "degraded" /\ m.listens = loop.listens /\ loop.state # "connecting"
              /\ \/ m.timer = "probe" /\ m.probe = "waiting"
                 \/ m.timer = "none" /\ m.probe = "late"
                 \/ m.timer = loop.timer /\ m.probe = loop.probe /\ loop.state = "degraded",
           UNCHANGED <<closing, runs, pairEvents, forwarding>>, activity' \subseteq activity,
           \/ log' = log /\ m.same = loop.same /\ m.count = loop.count
           \/ log' = [log EXCEPT !.repairs = 0] /\ m.count = 0
    PROVE  SupInv'
  <1>1. loop.state \in {"connecting", "online", "degraded"}
        BY DEF SupInv, ShapeOK
  <1>2. /\ loop.repairing = FALSE /\ loop.pairing = "none" /\ log.owed = FALSE
        /\ (log.ban = TRUE => log.lapsed = TRUE)
        /\ loop.starting = FALSE /\ loop.late = FALSE
        /\ closing = FALSE => loop.reply = FALSE
        /\ closing \in BOOLEAN /\ loop.count < MaxSame /\ log \in LogType
        BY <1>1, Connected
  <1>3. MaxSame \in Nat /\ 0 < MaxSame
        BY SupervisorAssumption
  <1>4. /\ log' \in LogType /\ log'.owed = FALSE /\ log'.ban = log.ban
        /\ log'.lapsed = log.lapsed
        /\ \/ log'.repairs = log.repairs /\ m.same = loop.same /\ m.count = loop.count
           \/ log'.repairs = 0 /\ m.count = 0
        BY <1>2 DEF LogType
  <1>5. SupTypeOK' /\ RunsOK' /\ FenceOK' /\ ProbeOK' /\ loop' = m
    <2>1. pairEvents' \in Seq({"code", "blocked"}) /\ Len(pairEvents') <= EventBound
          BY DEF SupInv, SupTypeOK
    <2> QED BY <1>4, <2>1, CalmInv
  <1>6. ShapeOK'
        BY <1>2, <1>5 DEF SupInv, ShapeOK
  <1>7. CountOK'
        BY <1>2, <1>3, <1>4, <1>5 DEF CountOK
  <1>8. NothingStranded'
        BY <1>2, <1>5 DEF SupInv, NothingStranded
  <1>9. OwedOK' /\ BanOK'
        BY <1>2, <1>4, <1>5 DEF OwedOK, BanOK, LogType
  <1>10. BudgetOK'
        BY <1>3, <1>4, <1>5 DEF SupInv, BudgetOK
  <1> QED BY <1>5, <1>6, <1>7, <1>8, <1>9, <1>10 DEF SupInv

\* Readiness, unless an end or the deadline is there as well (handleReady).
LEMMA HandleReadyInv ==
    ASSUME SupInv, HandleReady
    PROVE  SupInv'
  <1>1. loop.pc = "running" /\ loop.run # 0 /\ "ready" \in loop.listens
        /\ loop.state = "connecting"
        BY DEF HandleReady, Turn, SupInv, ShapeOK
  <1>2. UNCHANGED <<closing, pairEvents, Callbacks>>
        BY DEF HandleReady
  <1>3. CASE sig.done # "none" \/ TimedOut
    <2>1. RunIsOver
          BY <1>3 DEF HandleReady
    <2> QED BY <1>1, <1>2, <1>3, <2>1, RunIsOverInv
  <1>4. CASE ~(sig.done # "none" \/ TimedOut)
    <2>1. PICK k : k = Timer(loop, "liveness")
          OBVIOUS
    <2>2. loop \in LoopType
          BY DEF SupInv, SupTypeOK
    <2>3. k \in LoopType /\ SameBut(loop, k) /\ k.timer = "liveness"
          BY <2>1, <2>2, TimerIs, Named
    <2>4. PICK m : m = [k EXCEPT !.state = "online", !.silent = FALSE, !.listens = {"done"}]
          OBVIOUS
    <2>5. m \in LoopType
          BY <2>3, <2>4, Named DEF LoopType
    <2>6. /\ m.pc = k.pc /\ m.gen = k.gen /\ m.run = k.run /\ m.starting = k.starting
          /\ m.late = k.late /\ m.open = k.open /\ m.canceled = k.canceled
          /\ m.reply = k.reply /\ m.repairing = k.repairing /\ m.pairing = k.pairing
          /\ m.state = "online" /\ m.timer = "liveness" /\ m.probe = k.probe
          /\ m.listens = {"done"} /\ m.same = k.same /\ m.count = k.count
          BY <2>3, <2>4 DEF LoopType
    <2>7. loop.probe = "none"
          BY <1>1, <2>2 DEF SupInv, ShapeOK
    <2>8. Becomes(m) /\ UNCHANGED <<runs, log>>
          BY <1>4, <2>1, <2>4 DEF HandleReady
    <2>9. m.pc = "running" /\ m.gen = loop.gen /\ m.run = loop.run
           /\ m.starting = loop.starting /\ m.late = loop.late /\ m.open = loop.open
           /\ m.canceled = loop.canceled /\ m.reply = loop.reply
           /\ m.repairing = loop.repairing /\ m.pairing = loop.pairing
           /\ m.state = "online" /\ m.timer = "liveness" /\ m.probe = "none"
           /\ m.listens \subseteq {"done"} /\ m.same = loop.same /\ m.count = loop.count
          BY <1>1, <2>3, <2>6, <2>7 DEF SameBut, Kept
    <2>10. UNCHANGED <<closing, runs, pairEvents, forwarding>> /\ activity' \subseteq activity
           /\ log' = log
          BY <1>2, <2>8 DEF Callbacks
    <2> QED BY <1>1, <2>5, <2>8, <2>9, <2>10, GoesOnInv
  <1> QED BY <1>3, <1>4

\* The liveness deadline: a probe, or another wait (beginProbe).
LEMMA LivenessCheckInv ==
    ASSUME SupInv, LivenessCheck
    PROVE  SupInv'
  <1>1. /\ loop.pc = "running" /\ loop.run # 0 /\ loop.state = "online" /\ loop.timer = "liveness"
        BY DEF LivenessCheck, Due, Turn, SupInv, ShapeOK
  <1>2. /\ UNCHANGED <<closing, runs, pairEvents, forwarding>> /\ activity' \subseteq activity
        /\ log' = log
        BY DEF LivenessCheck, Callbacks
  <1>3. loop \in LoopType /\ loop.silent \in BOOLEAN
        BY DEF SupInv, SupTypeOK, LoopType
  <1>4. "ready" \notin loop.listens /\ loop.probe = "none" /\ loop.listens \subseteq {"ready", "done"}
        BY <1>1 DEF SupInv, ShapeOK, SupTypeOK, LoopType
  <1>5. CASE loop.silent = TRUE
    <2>1. PICK k : k = Timer(loop, "probe")
          OBVIOUS
    <2>2. k \in LoopType /\ SameBut(loop, k) /\ k.timer = "probe"
          BY <1>3, <2>1, TimerIs, Named
    <2>3. PICK m : m = [k EXCEPT !.state = "degraded", !.probe = "waiting"]
          OBVIOUS
    <2>4. m \in LoopType
          BY <2>2, <2>3, Named DEF LoopType
    <2>5. /\ m.pc = k.pc /\ m.gen = k.gen /\ m.run = k.run /\ m.starting = k.starting
          /\ m.late = k.late /\ m.open = k.open /\ m.canceled = k.canceled
          /\ m.reply = k.reply /\ m.repairing = k.repairing /\ m.pairing = k.pairing
          /\ m.state = "degraded" /\ m.timer = "probe" /\ m.probe = "waiting"
          /\ m.listens = k.listens /\ m.same = k.same /\ m.count = k.count
          BY <2>2, <2>3 DEF LoopType
    <2>6. Becomes(m)
          BY <1>5, <2>1, <2>3 DEF LivenessCheck, Probes
    <2>7. m.pc = "running" /\ m.gen = loop.gen /\ m.run = loop.run
           /\ m.starting = loop.starting /\ m.late = loop.late /\ m.open = loop.open
           /\ m.canceled = loop.canceled /\ m.reply = loop.reply
           /\ m.repairing = loop.repairing /\ m.pairing = loop.pairing
           /\ m.state = "degraded" /\ m.timer = "probe" /\ m.probe = "waiting"
           /\ m.listens = loop.listens /\ m.same = loop.same /\ m.count = loop.count
          BY <1>1, <2>2, <2>5 DEF SameBut, Kept
    <2>8. loop.state # "connecting"
          BY <1>1
    <2> QED BY <1>1, <1>2, <2>4, <2>6, <2>7, <2>8, GoesOnInv
  <1>6. CASE loop.silent = FALSE
    <2>1. PICK m : m = Timer(loop, "liveness")
          OBVIOUS
    <2>t. "liveness" \in Timers
          BY Named
    <2>2. /\ m \in LoopType /\ SameBut(loop, m) /\ m.timer = "liveness"
          /\ m.state = loop.state
          BY <1>3, <2>1, <2>t, TimerIs
    <2>3. Becomes(m)
          BY <1>6, <2>1 DEF LivenessCheck
    <2>4. m.pc = "running" /\ m.gen = loop.gen /\ m.run = loop.run
           /\ m.starting = loop.starting /\ m.late = loop.late /\ m.open = loop.open
           /\ m.canceled = loop.canceled /\ m.reply = loop.reply
           /\ m.repairing = loop.repairing /\ m.pairing = loop.pairing
           /\ m.state = "online" /\ m.timer = "liveness" /\ m.probe = "none"
           /\ m.listens \subseteq {"done"} /\ m.same = loop.same /\ m.count = loop.count
          BY <1>1, <1>4, <2>2 DEF SameBut, Kept
    <2> QED BY <1>1, <1>2, <2>2, <2>3, <2>4, GoesOnInv
  <1> QED BY <1>3, <1>5, <1>6

\* The deadline of a probe that has not answered (enforceDueDeadline).
LEMMA ProbeDeadlineInv ==
    ASSUME SupInv, ProbeDeadline
    PROVE  SupInv'
  <1>1. /\ loop.pc = "running" /\ loop.run # 0 /\ loop.state = "degraded" /\ loop.timer = "probe"
        BY DEF ProbeDeadline, Due, Turn, SupInv, ShapeOK
  <1>2. /\ UNCHANGED <<closing, runs, pairEvents, forwarding>> /\ activity' \subseteq activity
        /\ log' = log
        BY DEF ProbeDeadline, Callbacks
  <1>3. PICK k : k = NoTimer(loop)
        OBVIOUS
  <1>4. loop \in LoopType
        BY DEF SupInv, SupTypeOK
  <1>5. k \in LoopType /\ SameBut(loop, k) /\ k.timer = "none" /\ k.state = "degraded"
        BY <1>1, <1>3, <1>4, NoTimerIs
  <1>6. PICK m : m = [k EXCEPT !.probe = "late"]
        OBVIOUS
  <1>7. m \in LoopType
        BY <1>5, <1>6, Named DEF LoopType
  <1>8. /\ m.pc = k.pc /\ m.gen = k.gen /\ m.run = k.run /\ m.starting = k.starting
        /\ m.late = k.late /\ m.open = k.open /\ m.canceled = k.canceled
        /\ m.reply = k.reply /\ m.repairing = k.repairing /\ m.pairing = k.pairing
        /\ m.state = k.state /\ m.timer = k.timer /\ m.probe = "late"
        /\ m.listens = k.listens /\ m.same = k.same /\ m.count = k.count
        BY <1>5, <1>6 DEF LoopType
  <1>9. Becomes(m)
        BY <1>3, <1>6 DEF ProbeDeadline
  <1>10. m.pc = "running" /\ m.gen = loop.gen /\ m.run = loop.run
          /\ m.starting = loop.starting /\ m.late = loop.late /\ m.open = loop.open
          /\ m.canceled = loop.canceled /\ m.reply = loop.reply
          /\ m.repairing = loop.repairing /\ m.pairing = loop.pairing
          /\ m.state = "degraded" /\ m.timer = "none" /\ m.probe = "late"
          /\ m.listens = loop.listens /\ m.same = loop.same /\ m.count = loop.count
        BY <1>1, <1>5, <1>8 DEF SameBut, Kept
  <1>11. loop.state # "connecting"
         BY <1>1
  <1> QED BY <1>1, <1>2, <1>7, <1>9, <1>10, <1>11, GoesOnInv

\* Queued activity, of the installed run or of an earlier one (handleActivity).
LEMMA HandleActivityInv ==
    ASSUME SupInv, HandleActivity
    PROVE  SupInv'
  <1>1. loop.pc = "running" /\ loop \in LoopType /\ log \in LogType
        BY DEF HandleActivity, Turn, SupInv, SupTypeOK
  <1>2. /\ UNCHANGED <<closing, runs, pairEvents, forwarding>> /\ activity' \subseteq activity
        BY DEF HandleActivity
  <1>3. \/ Becomes(loop) /\ UNCHANGED log
        \/ /\ loop.run # 0
           /\ Becomes(LET l == NoHistory(loop)
                      IN  IF l.state = "online"
                          THEN [Timer(l, "liveness") EXCEPT !.silent = FALSE] ELSE l)
           /\ log' = [log EXCEPT !.repairs = 0]
        BY DEF HandleActivity
  <1>4. CASE Becomes(loop) /\ UNCHANGED log
    <2>1. SupTypeOK' /\ RunsOK' /\ FenceOK' /\ ProbeOK' /\ loop' = loop
      <3>1. pairEvents' \in Seq({"code", "blocked"}) /\ Len(pairEvents') <= EventBound
            BY <1>2 DEF SupInv, SupTypeOK
      <3> QED BY <1>1, <1>2, <1>4, <3>1, CalmInv
    <2>2. ShapeOK' /\ CountOK' /\ NothingStranded'
          BY <1>2, <2>1 DEF SupInv, ShapeOK, CountOK, NothingStranded
    <2>3. pairer' = pairer \/ loop.pairing = "none"
          BY <1>4 DEF Becomes
    <2>4. OwedOK' /\ BudgetOK' /\ BanOK'
          BY <1>2, <1>4, <2>1, <2>3 DEF SupInv, OwedOK, BudgetOK, BanOK
    <2> QED BY <2>1, <2>2, <2>4 DEF SupInv
  <1>5. CASE /\ loop.run # 0
             /\ Becomes(LET l == NoHistory(loop)
                        IN  IF l.state = "online"
                            THEN [Timer(l, "liveness") EXCEPT !.silent = FALSE] ELSE l)
             /\ log' = [log EXCEPT !.repairs = 0]
    <2>1. PICK l : l = NoHistory(loop)
          OBVIOUS
    <2>2. /\ l \in LoopType /\ Kept(loop, l) /\ l.state = loop.state /\ l.timer = loop.timer
          /\ l.repairing = loop.repairing /\ l.count = 0
          BY <1>1, <2>1, NoHistoryIs
    <2>3. loop.state \in {"connecting", "online", "degraded"}
          BY <1>1, <1>5 DEF SupInv, ShapeOK
    <2>4. /\ loop.state = "degraded" => loop.state # "connecting"
          /\ loop.state = "online" => loop.probe = "none" /\ "ready" \notin loop.listens
          /\ loop.listens \subseteq {"ready", "done"}
          BY <1>1 DEF SupInv, ShapeOK, LoopType
    <2>5. CASE loop.state = "online"
      <3>1. PICK k : k = Timer(l, "liveness")
            OBVIOUS
      <3>2. k \in LoopType /\ SameBut(l, k) /\ k.timer = "liveness" /\ k.state = "online"
            BY <2>2, <2>5, <3>1, TimerIs, Named
      <3>3. PICK m : m = [k EXCEPT !.silent = FALSE]
            OBVIOUS
      <3>4. m \in LoopType /\ SameBut(k, m) /\ m.timer = k.timer /\ m.state = k.state
            BY <3>2, <3>3 DEF LoopType, SameBut, Kept
      <3>5. Becomes(m)
            BY <1>5, <2>1, <2>2, <2>5, <3>1, <3>3
      <3>6. m.pc = "running" /\ m.gen = loop.gen /\ m.run = loop.run
             /\ m.starting = loop.starting /\ m.late = loop.late /\ m.open = loop.open
             /\ m.canceled = loop.canceled /\ m.reply = loop.reply
             /\ m.repairing = loop.repairing /\ m.pairing = loop.pairing
             /\ m.state = "online" /\ m.timer = "liveness" /\ m.probe = "none"
             /\ m.listens \subseteq {"done"} /\ m.count = 0
            BY <1>1, <2>2, <2>4, <2>5, <3>2, <3>4 DEF SameBut, Kept
      <3> QED BY <1>1, <1>2, <1>5, <3>4, <3>5, <3>6, GoesOnInv
    <2>6. CASE loop.state # "online"
      <3>1. Becomes(l)
            BY <1>5, <2>1, <2>2, <2>6
      <3>2. l.pc = "running" /\ l.gen = loop.gen /\ l.run = loop.run
             /\ l.starting = loop.starting /\ l.late = loop.late /\ l.open = loop.open
             /\ l.canceled = loop.canceled /\ l.reply = loop.reply
             /\ l.repairing = loop.repairing /\ l.pairing = loop.pairing
             /\ l.state = loop.state /\ l.timer = loop.timer /\ l.probe = loop.probe
             /\ l.listens = loop.listens /\ l.count = 0
            BY <1>1, <2>2 DEF Kept
      <3>3. CASE loop.state = "connecting"
            BY <1>1, <1>2, <1>5, <2>2, <3>1, <3>2, <3>3, GoesOnInv
      <3>4. CASE loop.state = "degraded"
            BY <1>1, <1>2, <1>5, <2>2, <3>1, <3>2, <3>4, GoesOnInv
      <3> QED BY <2>3, <2>6, <3>3, <3>4
    <2> QED BY <2>5, <2>6
  <1> QED BY <1>3, <1>4, <1>5

\* The answer to a probe (handleProbeResult).
LEMMA HandleProbeInv ==
    ASSUME SupInv, HandleProbe
    PROVE  SupInv'
  <1>1. /\ loop.pc = "running" /\ loop.probe # "none" /\ loop.run # 0
        /\ loop.state = "degraded" /\ loop \in LoopType
        BY DEF HandleProbe, Turn, SupInv, ShapeOK, SupTypeOK
  <1>2. prober \in Classes \cup {"alive"}
        BY <1>1 DEF HandleProbe, SupInv, SupTypeOK, ProbeOK
  <1>3. UNCHANGED <<closing, pairEvents, Callbacks>>
        BY DEF HandleProbe
  <1>4. CASE loop.probe = "late" \/ prober # "alive"
    <2>1. PICK c : c = IF loop.probe = "late" THEN "transient" ELSE prober
          OBVIOUS
    <2>2. c \in Classes
          BY <1>1, <1>2, <1>4, <2>1, TimedOutClass
    <2>3. Fails(Retired(NoTimer(loop)), c) /\ StopsOwn
          BY <1>4, <2>1 DEF HandleProbe
    <2>4. loop.starting = FALSE
          BY <1>1, Connected
    <2> QED BY <1>1, <1>3, <2>2, <2>3, <2>4, EndsInv
  <1>5. CASE ~(loop.probe = "late" \/ prober # "alive")
    <2>1. PICK l : l = NoHistory(loop)
          OBVIOUS
    <2>2. l \in LoopType /\ Kept(loop, l) /\ l.repairing = loop.repairing /\ l.count = 0
          BY <1>1, <2>1, NoHistoryIs
    <2>3. PICK k : k = Timer(l, "liveness")
          OBVIOUS
    <2>4. "liveness" \in Timers
          BY Named
    <2>5. k \in LoopType /\ SameBut(l, k) /\ k.timer = "liveness"
          BY <2>2, <2>3, <2>4, TimerIs
    <2>6. PICK m : m = [k EXCEPT !.state = "online", !.silent = FALSE, !.probe = "none"]
          OBVIOUS
    <2>7. m \in LoopType
          BY <2>5, <2>6, Named DEF LoopType
    <2>8. /\ m.pc = k.pc /\ m.gen = k.gen /\ m.run = k.run /\ m.starting = k.starting
          /\ m.late = k.late /\ m.open = k.open /\ m.canceled = k.canceled
          /\ m.reply = k.reply /\ m.repairing = k.repairing /\ m.pairing = k.pairing
          /\ m.state = "online" /\ m.timer = k.timer /\ m.probe = "none"
          /\ m.listens = k.listens /\ m.count = k.count
          BY <2>5, <2>6 DEF LoopType
    <2>9. loop.listens \subseteq {"done"}
          BY <1>1 DEF SupInv, ShapeOK, LoopType
    <2>10. m.pc = "running" /\ m.gen = loop.gen /\ m.run = loop.run
            /\ m.starting = loop.starting /\ m.late = loop.late /\ m.open = loop.open
            /\ m.canceled = loop.canceled /\ m.reply = loop.reply
            /\ m.repairing = loop.repairing /\ m.pairing = loop.pairing
            /\ m.state = "online" /\ m.timer = "liveness" /\ m.probe = "none"
            /\ m.listens \subseteq {"done"} /\ m.count = 0
          BY <1>1, <2>2, <2>5, <2>8, <2>9 DEF SameBut, Kept
    <2>11. /\ Becomes(m) /\ log' = [log EXCEPT !.repairs = 0] /\ UNCHANGED runs
          BY <1>5, <2>1, <2>3, <2>6 DEF HandleProbe
    <2>12. UNCHANGED <<closing, runs, pairEvents, forwarding>> /\ activity' \subseteq activity
          BY <1>3, <2>11 DEF Callbacks
    <2> QED BY <1>1, <2>7, <2>10, <2>11, <2>12, GoesOnInv
  <1> QED BY <1>4, <1>5

\* The loop, once its repairer has answered.
LEMMA AnsweredIs ==
    ASSUME NEW k \in LoopType, NEW m, m = [k EXCEPT !.repairing = FALSE]
    PROVE  /\ m \in LoopType /\ Kept(k, m) /\ m.same = k.same /\ m.count = k.count
           /\ m.last = k.last /\ m.repairing = FALSE /\ m.state = k.state
           /\ m.timer = k.timer /\ m.banned = k.banned
  BY DEF LoopType, Kept

\* The answer to a repair, which may find the supervisor closing (handleRepairResult).
LEMMA HandleRepairInv ==
    ASSUME SupInv, HandleRepair
    PROVE  SupInv'
  <1>1. loop.pc = "running" /\ loop.state = "repairing"
        BY DEF HandleRepair, Turn, SupInv, ShapeOK
  <1>2. /\ loop.run = 0 /\ loop.starting = FALSE /\ loop.late = FALSE /\ loop.listens = {}
        /\ loop.probe = "none" /\ loop.pairing = "none" /\ loop.timer = "none"
        /\ closing = FALSE => loop.reply = FALSE
        /\ loop \in LoopType /\ closing \in BOOLEAN /\ loop.count < MaxSame /\ log \in LogType
        BY <1>1, AtRest
  <1>3. PICK l : l = [loop EXCEPT !.repairing = FALSE]
        OBVIOUS
  <1>4. /\ l \in LoopType /\ Kept(loop, l) /\ l.same = loop.same /\ l.count = loop.count
        /\ l.last = loop.last /\ l.repairing = FALSE /\ l.state = loop.state
        /\ l.timer = loop.timer /\ l.banned = loop.banned
        BY <1>2, <1>3, AnsweredIs
  <1>5. Quiet(l)
        BY <1>1, <1>2, <1>4 DEF Quiet, Kept
  <1>6. UNCHANGED <<closing, runs, pairEvents, Callbacks>>
        BY DEF HandleRepair
  <1>7. /\ UNCHANGED <<closing, runs, forwarding>> /\ activity' \subseteq activity
        /\ pairEvents' \in Seq({"code", "blocked"}) /\ Len(pairEvents') <= EventBound
        BY <1>6 DEF Callbacks, SupInv, SupTypeOK
  <1>8. log.ban = TRUE => log.lapsed = TRUE
        BY <1>1, <1>2 DEF SupInv, BanOK, LogType
  <1>9. \/ /\ closing \/ loop.gen < MaxGenerations
           /\ Becomes(StartGeneration(l)) /\ log' = [log EXCEPT !.owed = FALSE]
        \/ Becomes([l EXCEPT !.state = "blocked"]) /\ UNCHANGED log
        BY <1>3 DEF HandleRepair, MayStart
  <1>10. CASE /\ closing \/ loop.gen < MaxGenerations
              /\ Becomes(StartGeneration(l)) /\ log' = [log EXCEPT !.owed = FALSE]
    <2>1. /\ log' \in LogType /\ log'.ban = log.ban /\ log'.lapsed = log.lapsed
          /\ log'.owed = FALSE /\ log'.repairs = log.repairs
          BY <1>2, <1>10 DEF LogType
    <2>2. CASE closing = FALSE
      <3>1. StartGeneration(l) \in LoopType /\ Started(l, StartGeneration(l))
            BY <1>2, <1>4, <1>10, <2>2, StartGenerationIs DEF Kept
      <3>2. l.count < MaxSame /\ loop.gen < MaxGenerations
            BY <1>2, <1>4, <1>10, <2>2
      <3>3. Becomes(StartGeneration(l))
            BY <1>10
      <3> QED BY <1>1, <1>4, <1>5, <1>6, <2>1, <2>2, <3>1, <3>2, <3>3, BeginInv
    <2>3. CASE closing = TRUE
      <3>1. Becomes(l)
            BY <1>10, <2>3 DEF StartGeneration
      <3>2. SupTypeOK' /\ RunsOK' /\ FenceOK' /\ ProbeOK' /\ loop' = l
            BY <1>4, <1>7, <2>1, <3>1, CalmInv DEF Kept
      <3>3. ShapeOK' /\ CountOK' /\ NothingStranded'
            BY <1>1, <1>2, <1>4, <1>7, <2>3, <3>2 DEF Kept, ShapeOK, CountOK, NothingStranded
      <3>4. OwedOK' /\ BudgetOK' /\ BanOK'
            BY <1>4, <1>8, <2>1, <3>2 DEF SupInv, OwedOK, BudgetOK, BanOK
      <3> QED BY <3>2, <3>3, <3>4 DEF SupInv
    <2> QED BY <1>2, <2>2, <2>3
  <1>11. CASE Becomes([l EXCEPT !.state = "blocked"]) /\ UNCHANGED log
    <2>1. PICK m : m = [l EXCEPT !.state = "blocked"]
          OBVIOUS
    <2>2. m \in LoopType
          BY <1>4, <2>1, Named DEF LoopType
    <2>3. /\ Kept(l, m) /\ m.same = l.same /\ m.count = l.count
          /\ m.last = l.last /\ m.repairing = FALSE /\ m.state = "blocked"
          /\ m.timer = l.timer /\ m.banned = l.banned
          BY <1>4, <2>1 DEF LoopType, Kept
    <2>4. SupTypeOK' /\ RunsOK' /\ FenceOK' /\ ProbeOK' /\ loop' = m
          BY <1>2, <1>4, <1>7, <1>11, <2>1, <2>2, <2>3, CalmInv DEF Kept
    <2>5. ShapeOK' /\ CountOK' /\ NothingStranded'
          BY <1>1, <1>2, <1>4, <1>7, <2>3, <2>4 DEF Kept, ShapeOK, CountOK, NothingStranded
    <2>6. OwedOK' /\ BudgetOK' /\ BanOK'
          BY <1>1, <1>4, <1>8, <1>11, <2>3, <2>4 DEF SupInv, OwedOK, BudgetOK, BanOK
    <2> QED BY <2>4, <2>5, <2>6 DEF SupInv
  <1> QED BY <1>9, <1>10, <1>11

-----------------------------------------------------------------------------
(* Turns of an account that pairs *)

\* What a turn of a pairing account leaves alone.
PairTurned(m) ==
    /\ m.pc = loop.pc /\ m.gen = loop.gen /\ m.run = loop.run /\ m.starting = loop.starting
    /\ m.late = loop.late /\ m.open = loop.open /\ m.canceled = loop.canceled
    /\ m.reply = loop.reply /\ m.repairing = loop.repairing /\ m.listens = loop.listens
    /\ m.probe = loop.probe /\ m.same = loop.same /\ m.count = loop.count

\* A turn of an account that pairs keeps what is not about bans.
LEMMA PairTurnInv ==
    ASSUME SupInv, loop.pc = "running", loop.state \in {"unpaired", "pairing"},
           NEW m \in LoopType, Becomes(m), PairTurned(m),
           \/ m.state = "pairing" /\ m.pairing = "active" /\ m.timer \in {"none", "pair"}
           \/ m.state = "unpaired" /\ m.pairing # "active" /\ m.timer = "none"
           \/ m.state \in {"stopped", "blocked"} /\ m.pairing = "none" /\ m.timer = "none",
           UNCHANGED <<closing, runs, Callbacks>>,
           pairEvents' \in Seq({"code", "blocked"}), Len(pairEvents') <= EventBound,
           log' \in LogType, log'.owed = log.owed, log'.repairs = log.repairs, BanOK'
    PROVE  SupInv'
  <1>1. /\ loop.run = 0 /\ loop.starting = FALSE /\ loop.late = FALSE /\ loop.listens = {}
        /\ loop.probe = "none" /\ loop.repairing = FALSE
        /\ closing = FALSE => loop.reply = FALSE
        /\ closing \in BOOLEAN /\ loop.count < MaxSame
        BY AtRest
  <1>2. SupTypeOK' /\ RunsOK' /\ FenceOK' /\ ProbeOK' /\ loop' = m
    <2>1. UNCHANGED <<closing, runs, forwarding>> /\ activity' \subseteq activity
          BY DEF Callbacks
    <2> QED BY <2>1, CalmInv DEF PairTurned
  <1>3. ShapeOK' /\ CountOK' /\ NothingStranded'
        BY <1>1, <1>2 DEF PairTurned, ShapeOK, CountOK, NothingStranded
  <1>4. OwedOK' /\ BudgetOK'
        BY <1>2 DEF PairTurned, SupInv, OwedOK, BudgetOK
  <1> QED BY <1>2, <1>3, <1>4 DEF SupInv

\* A pairing begins (beginPairing).
LEMMA BeginPairingInv ==
    ASSUME SupInv, BeginPairing
    PROVE  SupInv'
  <1>1. loop.pc = "running" /\ loop.state = "unpaired" /\ loop.pairings < MaxPairings
        BY DEF BeginPairing, Turn
  <1>2. loop \in LoopType /\ log \in LogType
        BY DEF SupInv, SupTypeOK
  <1>3. PICK k : k = NoTimer(loop)
        OBVIOUS
  <1>4. k \in LoopType /\ SameBut(loop, k) /\ k.timer = "none"
        BY <1>2, <1>3, NoTimerIs
  <1>5. PICK m : m = [k EXCEPT !.state = "pairing", !.pairing = "active",
                               !.pairings = k.pairings + 1]
        OBVIOUS
  <1>6. m \in LoopType
    <2>1. k.pairings + 1 \in 0..MaxPairings
          BY <1>1, <1>2, <1>4, SupervisorAssumption DEF SameBut, Kept, LoopType
    <2> QED BY <1>4, <1>5, <2>1, Named DEF LoopType
  <1>7. /\ m.pc = k.pc /\ m.gen = k.gen /\ m.run = k.run /\ m.starting = k.starting
        /\ m.late = k.late /\ m.open = k.open /\ m.canceled = k.canceled
        /\ m.reply = k.reply /\ m.repairing = k.repairing /\ m.listens = k.listens
        /\ m.probe = k.probe /\ m.same = k.same /\ m.count = k.count
        /\ m.state = "pairing" /\ m.pairing = "active" /\ m.timer = k.timer
        BY <1>4, <1>5 DEF LoopType
  <1>8. PairTurned(m) /\ m.state = "pairing" /\ m.pairing = "active" /\ m.timer = "none"
        BY <1>4, <1>7 DEF PairTurned, SameBut, Kept
  <1>9. /\ Becomes(m) /\ log' = [log EXCEPT !.ban = FALSE, !.lapsed = FALSE]
        /\ UNCHANGED <<closing, runs, pairEvents, Callbacks>>
        BY <1>3, <1>5 DEF BeginPairing
  <1>10. /\ log' \in LogType /\ log'.owed = log.owed /\ log'.repairs = log.repairs
         /\ log'.ban = FALSE
        BY <1>2, <1>9 DEF LogType
  <1>11. BanOK'
        BY <1>10 DEF BanOK
  <1>12. pairEvents' \in Seq({"code", "blocked"}) /\ Len(pairEvents') <= EventBound
        BY <1>9 DEF SupInv, SupTypeOK
  <1>13. UNCHANGED <<closing, runs, Callbacks>>
        BY <1>9
  <1> QED BY <1>1, <1>6, <1>8, <1>9, <1>10, <1>11, <1>12, <1>13, PairTurnInv

\* expirePairing
LEMMA ExpiredIs ==
    ASSUME loop \in LoopType, NEW m, m = ExpirePairing(loop)
    PROVE  /\ m \in LoopType /\ PairTurned(m) /\ m.state = "unpaired"
           /\ m.pairing = "expired" /\ m.timer = "none" /\ m.banned = FALSE
           /\ m.last = loop.last
  <1>3. PICK k : k = NoTimer(loop)
        OBVIOUS
  <1>4. k \in LoopType /\ SameBut(loop, k) /\ k.timer = "none"
        BY <1>3, NoTimerIs
  <1>5. m = [k EXCEPT !.pairing = "expired", !.state = "unpaired", !.banned = FALSE]
        BY <1>3 DEF ExpirePairing
  <1>6. m \in LoopType
        BY HelperTypes
  <1>7. /\ m.pc = k.pc /\ m.gen = k.gen /\ m.run = k.run /\ m.starting = k.starting
        /\ m.late = k.late /\ m.open = k.open /\ m.canceled = k.canceled
        /\ m.reply = k.reply /\ m.repairing = k.repairing /\ m.listens = k.listens
        /\ m.probe = k.probe /\ m.same = k.same /\ m.count = k.count
        /\ m.state = "unpaired" /\ m.pairing = "expired" /\ m.timer = k.timer
        /\ m.banned = FALSE /\ m.last = k.last
        BY <1>4, <1>5 DEF LoopType
  <1> QED BY <1>4, <1>6, <1>7 DEF PairTurned, SameBut, Kept

\* The code of a pairing expires (expirePairing).
LEMMA PairExpiryInv ==
    ASSUME SupInv, PairExpiry
    PROVE  SupInv'
  <1>1. loop.pc = "running" /\ loop.state = "pairing"
        BY DEF PairExpiry, Due, Turn, SupInv, ShapeOK
  <1>2. loop \in LoopType /\ log \in LogType
        BY DEF SupInv, SupTypeOK
  <1>3. PICK m : m = ExpirePairing(loop)
        OBVIOUS
  <1>4. /\ m \in LoopType /\ PairTurned(m) /\ m.state = "unpaired"
        /\ m.pairing = "expired" /\ m.timer = "none"
        BY <1>2, <1>3, ExpiredIs
  <1>5. /\ Becomes(m) /\ log' = [log EXCEPT !.lapsed = TRUE]
        /\ UNCHANGED <<closing, runs, pairEvents, Callbacks>>
        BY <1>3 DEF PairExpiry
  <1>6. /\ log' \in LogType /\ log'.owed = log.owed /\ log'.repairs = log.repairs
        /\ log'.lapsed = TRUE
        BY <1>2, <1>5 DEF LogType
  <1>7. BanOK'
        BY <1>6 DEF BanOK
  <1>8. /\ pairEvents' \in Seq({"code", "blocked"}) /\ Len(pairEvents') <= EventBound
        /\ UNCHANGED <<closing, runs, Callbacks>>
        BY <1>5 DEF SupInv, SupTypeOK
  <1> QED BY <1>1, <1>4, <1>5, <1>6, <1>7, <1>8, PairTurnInv

\* A code, or the news of a ban (handlePairEvent).
LEMMA HandlePairEventInv ==
    ASSUME SupInv, HandlePairEvent
    PROVE  SupInv'
  <1>1. /\ loop.pc = "running" /\ loop.pairing # "none" /\ pairEvents # <<>>
        /\ loop \in LoopType /\ log \in LogType
        /\ pairEvents \in Seq({"code", "blocked"}) /\ Len(pairEvents) <= EventBound
        BY DEF HandlePairEvent, Turn, SupInv, SupTypeOK
  <1>2. /\ loop.pairing = "active" => loop.state = "pairing"
        /\ loop.pairing = "expired" => loop.state = "unpaired"
        /\ loop.pairing \in {"active", "expired"}
        BY <1>1 DEF SupInv, ShapeOK, LoopType, PairPlaces
  <1>3. /\ pairEvents' = Tail(pairEvents) /\ UNCHANGED <<closing, runs, Callbacks, log>>
        BY DEF HandlePairEvent
  <1>4. /\ pairEvents' \in Seq({"code", "blocked"}) /\ Len(pairEvents') <= EventBound
        /\ Head(pairEvents) \in {"code", "blocked"}
        BY <1>1, <1>3 DEF EventBound
  <1>5. log' \in LogType /\ log'.owed = log.owed /\ log'.repairs = log.repairs
        BY <1>1, <1>3
  <1>6. UNCHANGED <<closing, runs, Callbacks>>
        BY <1>3
  <1>7. CASE loop.state # "pairing"
    <2>1. Becomes(loop)
          BY <1>7 DEF HandlePairEvent
    <2>2. loop.state = "unpaired" /\ loop.pairing = "expired" /\ loop.timer = "none"
          BY <1>1, <1>2, <1>7, AtRest
    <2>3. BanOK'
          BY <1>3, <2>1, <2>2 DEF SupInv, BanOK, Becomes
    <2> QED BY <1>1, <1>4, <1>5, <1>6, <2>1, <2>2, <2>3, PairTurnInv DEF PairTurned
  <1>8. CASE loop.state = "pairing" /\ Head(pairEvents) = "blocked"
    <2>1. PICK k : k = ExpirePairing(loop)
          OBVIOUS
    <2>2. /\ k \in LoopType /\ PairTurned(k) /\ k.state = "unpaired"
          /\ k.pairing = "expired" /\ k.timer = "none"
          BY <1>1, <2>1, ExpiredIs
    <2>3. PICK m : m = [k EXCEPT !.banned = TRUE]
          OBVIOUS
    <2>4. m \in LoopType
          BY <2>2, <2>3 DEF LoopType
    <2>5. /\ m.pc = k.pc /\ m.gen = k.gen /\ m.run = k.run /\ m.starting = k.starting
          /\ m.late = k.late /\ m.open = k.open /\ m.canceled = k.canceled
          /\ m.reply = k.reply /\ m.repairing = k.repairing /\ m.listens = k.listens
          /\ m.probe = k.probe /\ m.same = k.same /\ m.count = k.count
          /\ m.state = k.state /\ m.pairing = k.pairing /\ m.timer = k.timer
          /\ m.banned = TRUE
          BY <2>2, <2>3 DEF LoopType
    <2>6. /\ PairTurned(m) /\ m.state = "unpaired" /\ m.pairing = "expired"
          /\ m.timer = "none" /\ m.banned = TRUE
          BY <2>2, <2>5 DEF PairTurned
    <2>7. Becomes(m)
          BY <1>8, <2>1, <2>3 DEF HandlePairEvent, Barred
    <2>8. BanOK'
          BY <2>6, <2>7 DEF BanOK, Becomes
    <2> QED BY <1>1, <1>4, <1>5, <1>6, <1>8, <2>4, <2>6, <2>7, <2>8, PairTurnInv
  <1>9. CASE loop.state = "pairing" /\ Head(pairEvents) = "code"
    <2>1. PICK m : m = Timer(loop, "pair")
          OBVIOUS
    <2>2. m \in LoopType /\ SameBut(loop, m) /\ m.timer = "pair" /\ m.state = loop.state
      <3>1. "pair" \in Timers
            BY Named
      <3> QED BY <1>1, <2>1, <3>1, TimerIs
    <2>3. Becomes(m)
          BY <1>9, <2>1 DEF HandlePairEvent
    <2>4. PairTurned(m) /\ m.pairing = loop.pairing
          BY <2>2 DEF PairTurned, SameBut, Kept
    <2>5. loop.pairing = "active"
          BY <1>2, <1>9
    <2>6. loop' = m /\ pairer' = pairer
          BY <2>3, <2>4, <2>5 DEF Becomes
    <2>7. ASSUME NEW n \in DOMAIN pairEvents, pairEvents[n] = "blocked"
          PROVE  \E i \in DOMAIN pairEvents' : pairEvents'[i] = "blocked"
      <3>1. n \in 2..Len(pairEvents)
            BY <1>1, <1>9, <2>7
      <3>2. n - 1 \in DOMAIN pairEvents' /\ pairEvents'[n - 1] = pairEvents[n]
            BY <1>1, <1>3, <3>1
      <3> QED BY <2>7, <3>2
    <2>8. BanOK'
          BY <1>1, <1>3, <1>9, <2>4, <2>5, <2>6, <2>7 DEF SupInv, BanOK, PairTurned
    <2> QED BY <1>1, <1>4, <1>5, <1>6, <1>9, <2>2, <2>3, <2>4, <2>5, <2>8, PairTurnInv
  <1> QED BY <1>4, <1>7, <1>8, <1>9

\* The pairing is over, with the given state, reason and ban.
PairOver(k, s, b, m) ==
    /\ m \in LoopType /\ PairTurned(m) /\ m.state = s /\ m.pairing = "none"
    /\ m.timer = k.timer /\ m.banned = b

\* Its fields are those of a loop.
LEMMA PairOverIs ==
    ASSUME NEW k \in LoopType, PairTurned(k), NEW s \in States, NEW r \in Reasons, NEW b \in BOOLEAN,
           NEW m, m = [k EXCEPT !.pairing = "none", !.state = s, !.last = r, !.banned = b]
    PROVE  PairOver(k, s, b, m)
  <1>1. m \in LoopType
        BY Named DEF LoopType
  <1>2. /\ m.pc = k.pc /\ m.gen = k.gen /\ m.run = k.run /\ m.starting = k.starting
        /\ m.late = k.late /\ m.open = k.open /\ m.canceled = k.canceled
        /\ m.reply = k.reply /\ m.repairing = k.repairing /\ m.listens = k.listens
        /\ m.probe = k.probe /\ m.same = k.same /\ m.count = k.count
        /\ m.state = s /\ m.pairing = "none" /\ m.timer = k.timer /\ m.banned = b
        BY DEF LoopType
  <1> QED BY <1>1, <1>2 DEF PairTurned, PairOver

\* The result of a pairing, before or after its expiry (handlePairResult).
LEMMA HandlePairResultInv ==
    ASSUME SupInv, HandlePairResult
    PROVE  SupInv'
  <1>1. /\ loop.pc = "running" /\ loop.pairing \in {"active", "expired"}
        /\ loop \in LoopType /\ log \in LogType /\ pairer # "calling"
        BY DEF HandlePairResult, Turn, SupInv, SupTypeOK, LoopType, PairPlaces
  <1>2. /\ loop.pairing = "active" => loop.state = "pairing"
        /\ loop.pairing = "expired" => loop.state = "unpaired"
        BY <1>1 DEF SupInv, ShapeOK
  <1>3. /\ pairEvents' = <<>> /\ UNCHANGED <<closing, runs, Callbacks>>
        /\ log' = [log EXCEPT !.lapsed = log.lapsed \/ PairLapses]
        BY DEF HandlePairResult
  <1>4. pairEvents' \in Seq({"code", "blocked"}) /\ Len(pairEvents') <= EventBound
        BY <1>3 DEF EventBound
  <1>5. /\ log' \in LogType /\ log'.owed = log.owed /\ log'.repairs = log.repairs
        /\ log'.ban = log.ban /\ log'.lapsed = (log.lapsed \/ PairLapses)
        BY <1>1, <1>3 DEF LogType
  <1>e. PICK e : e = IF PairLapses THEN ExpirePairing(loop) ELSE loop
        OBVIOUS
  <1>6. /\ e \in LoopType
        /\ PairTurned(e) /\ e.state \in {"pairing", "unpaired"}
        /\ e.state = "unpaired" \/ (~PairLapses /\ e.state = loop.state)
        /\ ~PairLapses => e.banned = loop.banned
    <2>1. CASE PairLapses
      <3>1. e = ExpirePairing(loop)
            BY <1>e, <2>1
      <3>2. e \in LoopType /\ PairTurned(e) /\ e.state = "unpaired"
            BY <1>1, <3>1, ExpiredIs
      <3> QED BY <2>1, <3>2 DEF PairLapses
    <2>2. CASE ~PairLapses
      <3>1. e = loop
            BY <1>e, <2>2
      <3> QED BY <1>1, <1>2, <2>2, <3>1 DEF PairTurned
    <2> QED BY <2>1, <2>2
  <1>7. PICK k : k = NoTimer(e)
        OBVIOUS
  <1>8. k \in LoopType /\ SameBut(e, k) /\ k.state = e.state /\ k.timer = "none"
        /\ k.banned = e.banned /\ k.last = e.last
        BY <1>6, <1>7, NoTimerIs DEF SameBut
  <1>9. PairTurned(k)
        BY <1>6, <1>8 DEF SameBut, Kept, PairTurned
  <1>10. k.state \in States /\ k.last \in Reasons /\ k.banned \in BOOLEAN
         BY <1>8 DEF LoopType
  <1>11. PICK l : l = [k EXCEPT !.pairing = "none"]
         OBVIOUS
  <1>12. /\ loop.pairing = "expired" \/ PairLapses => Becomes(l)
         /\ loop.pairing = "active" /\ ~PairLapses =>
              \/ pairer = "paired" /\ Becomes([l EXCEPT !.state = "stopped"])
              \/ /\ pairer \in {"limited", "other"}
                 /\ Becomes([l EXCEPT !.state = "unpaired", !.last = "other",
                                      !.banned = pairer = "limited"])
              \/ /\ pairer = "terminal"
                 /\ \E o \in {"pair", "other"} :
                       Becomes([l EXCEPT !.state = "blocked", !.last = o])
         BY <1>e, <1>7, <1>11 DEF HandlePairResult
  <1>13. CASE loop.pairing = "expired" \/ PairLapses
    <2>1. l = [k EXCEPT !.pairing = "none", !.state = k.state, !.last = k.last,
                        !.banned = k.banned]
          BY <1>8, <1>11 DEF LoopType
    <2>6. PairOver(k, k.state, k.banned, l)
          BY <1>8, <1>9, <1>10, <2>1, PairOverIs
    <2>2. /\ l \in LoopType /\ PairTurned(l) /\ l.state = k.state /\ l.pairing = "none"
          /\ l.timer = k.timer /\ l.banned = k.banned
          BY <2>6 DEF PairOver
    <2>3. l.state = "unpaired" /\ l.timer = "none"
          BY <1>2, <1>6, <1>8, <1>13, <2>2
    <2>4. Becomes(l)
          BY <1>12, <1>13
    <2>5. BanOK'
      <3>1. CASE PairLapses
            BY <1>5, <3>1 DEF BanOK
      <3>2. CASE ~PairLapses
        <4>1. l.banned = loop.banned /\ loop.pairing = "expired"
              BY <1>6, <1>8, <1>13, <2>2, <3>2
        <4> QED BY <1>1, <1>5, <2>3, <2>4, <3>2, <4>1 DEF SupInv, BanOK, Becomes
      <3> QED BY <3>1, <3>2
    <2> QED BY <1>1, <1>2, <1>3, <1>4, <1>5, <2>2, <2>3, <2>4, <2>5, PairTurnInv
  <1>14. CASE loop.pairing = "active" /\ ~PairLapses
    <2>1. log.ban /\ ~log.lapsed => pairer = "limited"
          BY <1>1, <1>2, <1>14 DEF SupInv, BanOK
    <2>2. "stopped" \in States /\ "unpaired" \in States /\ "blocked" \in States
          /\ "pair" \in Reasons /\ "other" \in Reasons
          BY Named
    <2>3. ASSUME NEW s \in {"stopped", "unpaired", "blocked"}, NEW r \in Reasons, NEW b \in BOOLEAN,
                 Becomes([k EXCEPT !.pairing = "none", !.state = s, !.last = r, !.banned = b]),
                 (s = "unpaired" /\ b = TRUE) \/ pairer # "limited"
          PROVE  SupInv'
      <3>1. PICK m : m = [k EXCEPT !.pairing = "none", !.state = s, !.last = r, !.banned = b]
            OBVIOUS
      <3>2. s \in States
            BY <2>2, <2>3
      <3>7. PairOver(k, s, b, m)
            BY <1>8, <1>9, <2>3, <3>1, <3>2, PairOverIs
      <3>3. /\ m \in LoopType /\ PairTurned(m) /\ m.state = s /\ m.pairing = "none"
            /\ m.timer = k.timer /\ m.banned = b
            BY <3>7 DEF PairOver
      <3>4. Becomes(m)
            BY <2>3, <3>1
      <3>5. BanOK'
            BY <1>5, <1>14, <2>1, <2>3, <3>3, <3>4 DEF BanOK, Becomes
      <3>6. \/ m.state = "unpaired" /\ m.pairing # "active" /\ m.timer = "none"
            \/ m.state \in {"stopped", "blocked"} /\ m.pairing = "none" /\ m.timer = "none"
            BY <1>8, <3>3
      <3> QED BY <1>1, <1>2, <1>3, <1>4, <1>5, <3>3, <3>4, <3>5, <3>6, PairTurnInv
    <2>4. CASE pairer = "paired" /\ Becomes([l EXCEPT !.state = "stopped"])
      <3>1. [l EXCEPT !.state = "stopped"]
              = [k EXCEPT !.pairing = "none", !.state = "stopped", !.last = k.last,
                          !.banned = k.banned]
            BY <1>8, <1>11 DEF LoopType
      <3>2. Becomes([k EXCEPT !.pairing = "none", !.state = "stopped", !.last = k.last,
                              !.banned = k.banned])
            BY <2>4, <3>1
      <3>3. pairer # "limited"
            BY <2>4
      <3> QED BY <1>10, <2>3, <3>2, <3>3
    <2>5. CASE /\ pairer \in {"limited", "other"}
               /\ Becomes([l EXCEPT !.state = "unpaired", !.last = "other",
                                    !.banned = pairer = "limited"])
      <3>1. PICK b \in BOOLEAN : b = (pairer = "limited")
            OBVIOUS
      <3>2. [l EXCEPT !.state = "unpaired", !.last = "other", !.banned = pairer = "limited"]
              = [k EXCEPT !.pairing = "none", !.state = "unpaired", !.last = "other",
                          !.banned = b]
            BY <1>8, <1>11, <3>1 DEF LoopType
      <3>3. Becomes([k EXCEPT !.pairing = "none", !.state = "unpaired", !.last = "other",
                              !.banned = b])
            BY <2>5, <3>2
      <3>4. b = TRUE \/ pairer # "limited"
            BY <3>1
      <3> QED BY <2>2, <2>3, <3>1, <3>3, <3>4
    <2>6. CASE /\ pairer = "terminal"
               /\ \E o \in {"pair", "other"} :
                     Becomes([l EXCEPT !.state = "blocked", !.last = o])
      <3>1. PICK o \in {"pair", "other"} : Becomes([l EXCEPT !.state = "blocked", !.last = o])
            BY <2>6
      <3>2. [l EXCEPT !.state = "blocked", !.last = o]
              = [k EXCEPT !.pairing = "none", !.state = "blocked", !.last = o,
                          !.banned = k.banned]
            BY <1>8, <1>11 DEF LoopType
      <3>3. Becomes([k EXCEPT !.pairing = "none", !.state = "blocked", !.last = o,
                              !.banned = k.banned])
            BY <3>1, <3>2
      <3>4. pairer # "limited" /\ o \in Reasons
            BY <2>2, <2>6, <3>1
      <3> QED BY <1>10, <2>3, <3>3, <3>4
    <2> QED BY <1>12, <1>14, <2>4, <2>5, <2>6
  <1> QED BY <1>1, <1>13, <1>14

-----------------------------------------------------------------------------
(* The answer to a start, and the end of the loop *)

\* A start that is out, and has answered.
Answered(l) ==
    /\ l.pc = loop.pc /\ l.gen = loop.gen /\ l.run = loop.run /\ l.starting = FALSE
    /\ l.late = FALSE /\ l.reply = FALSE /\ l.open = loop.open /\ l.canceled = loop.canceled
    /\ l.listens = loop.listens /\ l.probe = loop.probe
    /\ l.repairing = loop.repairing /\ l.pairing = loop.pairing /\ l.same = loop.same
    /\ l.count = loop.count /\ l.state = loop.state /\ l.last = loop.last
    /\ l.banned = loop.banned

\* startGeneration is over, and its caller answered.
LEMMA StartAnsweredIs ==
    ASSUME loop \in LoopType,
           NEW l, l = [loop EXCEPT !.starting = FALSE, !.late = FALSE, !.reply = FALSE]
    PROVE  l \in LoopType /\ Answered(l) /\ l.timer = loop.timer
  BY DEF LoopType, Answered

\* ... and its generation is given up (clearGenerationContext).
LEMMA NoContextIs ==
    ASSUME NEW k \in LoopType, Answered(k), loop.run = 0, loop.probe = "none",
           NEW l, l = NoContext(k)
    PROVE  /\ l \in LoopType
           /\ l.pc = loop.pc /\ l.gen = loop.gen /\ l.run = 0 /\ l.starting = FALSE
           /\ l.late = FALSE /\ l.listens = {} /\ l.probe = "none" /\ l.timer = k.timer
           /\ l.repairing = loop.repairing /\ l.pairing = loop.pairing /\ l.open = FALSE
           /\ l.reply = FALSE /\ l.same = loop.same /\ l.count = loop.count
  BY DEF LoopType, NoContext, Answered

\* A start that failed, in whichever way: the run that came with it is stopped.
LEMMA StartFailsInv ==
    ASSUME SupInv, loop.pc = "running", loop.starting = TRUE, starter.pc = "sent",
           NEW l \in LoopType, Quiet(l), l.open = FALSE, l.reply = FALSE,
           l.same = loop.same, l.count = loop.count,
           NEW c \in Classes, Fails(l, c), UNCHANGED <<closing, pairEvents, Callbacks>>,
           runs' = IF starter.out.run = TRUE THEN StopRun(loop.gen) ELSE runs
    PROVE  SupInv'
  <1>1. loop.state \in {"connecting", "online", "degraded"}
        BY DEF SupInv, ShapeOK
  <1>2. /\ loop.gen \in Nat /\ loop.gen # 0 /\ loop.run = 0 /\ loop.gen \in Generations
        BY SupervisorAssumption DEF SupInv, SupTypeOK, RunsOK, LoopType, Generations
  <1>3. /\ runs \in [Generations -> {"none", "live", "stopped", "twice"}]
        /\ \A g \in Generations : runs[g] # "twice" /\ (g > loop.gen => runs[g] = "none")
        /\ starter.out.run = TRUE => runs[loop.gen] = "live"
        /\ \A g \in Generations : runs[g] = "live" => loop.gen = g /\ starter.out.run = TRUE
    <2>1. starter.out.run \in BOOLEAN
          BY DEF SupInv, SupTypeOK, StarterType, Outcomes
    <2>2. \A g \in Generations : g # 0
          BY SupervisorAssumption DEF Generations
    <2> QED BY <1>2, <2>1, <2>2 DEF SupInv, SupTypeOK, RunsOK
  <1>4. \A g \in Generations : g \in Nat
        BY SupervisorAssumption DEF Generations
  <1>5. /\ runs' \in [Generations -> {"none", "stopped"}]
        /\ \A g \in Generations : g > loop.gen => runs'[g] = "none"
    <2>1. CASE starter.out.run = TRUE
      <3>1. runs' = [runs EXCEPT ![loop.gen] = "stopped"]
            BY <1>3, <2>1 DEF StopRun
      <3> QED BY <1>2, <1>3, <1>4, <3>1
    <2>2. CASE starter.out.run # TRUE
          BY <1>3, <2>2
    <2> QED BY <2>1, <2>2
  <1> QED BY <1>1, <1>5, FailsInv

\* The five ways a start may end (handleStartResult).
LEMMA HandleStartResultInv ==
    ASSUME SupInv, HandleStartResult
    PROVE  SupInv'
  <1>1. /\ loop.pc = "running" /\ loop.starting = TRUE /\ starter.pc = "sent"
        /\ loop \in LoopType /\ log \in LogType /\ loop.late \in BOOLEAN
        /\ starter.out.run \in BOOLEAN /\ starter.out.err \in Classes \cup {"none"}
        BY DEF HandleStartResult, Turn, SupInv, SupTypeOK, LoopType, StarterType, Outcomes
  <1>2. /\ loop.run = 0 /\ loop.state = "connecting" /\ loop.listens = {}
        /\ loop.probe = "none" /\ loop.gen # 0
        /\ loop.late = TRUE => loop.timer = "none"
        BY <1>1 DEF SupInv, RunsOK, ShapeOK, LoopType, ProbePlaces
  <1>3. /\ loop.repairing = FALSE /\ loop.pairing = "none" /\ log.owed = FALSE
        /\ (log.ban = TRUE => log.lapsed = TRUE) /\ loop.count < MaxSame
        BY <1>1, <1>2, Connected
  <1>4. PICK l : l = [loop EXCEPT !.starting = FALSE, !.late = FALSE, !.reply = FALSE]
        OBVIOUS
  <1>5. l \in LoopType /\ Answered(l) /\ l.timer = loop.timer
        BY <1>1, <1>4, StartAnsweredIs
  <1>6. UNCHANGED <<closing, pairEvents, Callbacks>>
        BY DEF HandleStartResult
  <1>7. PICK k : k = NoTimer(l)
        OBVIOUS
  <1>8. k \in LoopType /\ Answered(k) /\ k.timer = "none"
    <2>1. k \in LoopType /\ SameBut(l, k) /\ k.state = l.state /\ k.timer = "none"
          /\ k.banned = l.banned
          BY <1>5, <1>7, NoTimerIs
    <2>2. Answered(k)
          BY <1>5, <2>1 DEF Answered, SameBut, Kept
    <2> QED BY <2>1, <2>2
  <1>9. \/ /\ loop.late = TRUE
           /\ Fails(NoContext(l), "transient") /\ Discards(starter.out)
        \/ /\ loop.late = FALSE /\ starter.out.err # "none"
           /\ Fails(Retired(k), starter.out.err) /\ Discards(starter.out)
        \/ /\ loop.late = FALSE /\ starter.out.err = "none" /\ starter.out.run = FALSE
           /\ Fails(NoContext(k), "terminal") /\ UNCHANGED runs
        \/ /\ loop.late = FALSE /\ starter.out.run = TRUE
           /\ Fails(Retired(k), "transient") /\ Discards(starter.out)
        \/ /\ loop.late = FALSE /\ starter.out.run = TRUE
           /\ Becomes([l EXCEPT !.run = l.gen, !.listens = {"ready", "done"}])
           /\ UNCHANGED <<runs, log>>
        BY <1>1, <1>4, <1>7 DEF HandleStartResult
  <1>10. Discards(starter.out) =>
            runs' = IF starter.out.run = TRUE THEN StopRun(loop.gen) ELSE runs
        BY <1>1 DEF Discards
  <1>11. ASSUME NEW m \in LoopType, GivenUp(l, m), NEW c \in Classes, Fails(m, c),
                Discards(starter.out)
         PROVE  SupInv'
    <2>1. /\ Quiet(m) /\ m.open = FALSE /\ m.reply = FALSE /\ m.same = loop.same
          /\ m.count = loop.count
          BY <1>1, <1>3, <1>5, <1>11 DEF GivenUp, Answered, Quiet
    <2> QED BY <1>1, <1>6, <1>10, <1>11, <2>1, StartFailsInv
  <1>12. ASSUME NEW n \in LoopType, Answered(n), n.timer = "none", NEW c \in Classes,
                Fails(NoContext(n), c),
                runs' = IF starter.out.run = TRUE THEN StopRun(loop.gen) ELSE runs
         PROVE  SupInv'
    <2>1. PICK m : m = NoContext(n)
          OBVIOUS
    <2>2. /\ m \in LoopType
          /\ m.pc = loop.pc /\ m.gen = loop.gen /\ m.run = 0 /\ m.starting = FALSE
          /\ m.late = FALSE /\ m.listens = {} /\ m.probe = "none" /\ m.timer = n.timer
          /\ m.repairing = loop.repairing /\ m.pairing = loop.pairing /\ m.open = FALSE
          /\ m.reply = FALSE /\ m.same = loop.same /\ m.count = loop.count
          BY <1>2, <1>12, <2>1, NoContextIs
    <2>3. Quiet(m)
          BY <1>1, <1>3, <1>12, <2>2 DEF Quiet
    <2>4. Fails(m, c)
          BY <1>12, <2>1
    <2> QED BY <1>1, <1>6, <1>12, <2>2, <2>3, <2>4, StartFailsInv
  <1>13. Retired(k) \in LoopType /\ GivenUp(l, Retired(k))
         BY <1>5, <1>7, GivenUpIs
  <1>14. CASE /\ loop.late = TRUE
              /\ Fails(NoContext(l), "transient") /\ Discards(starter.out)
         BY <1>2, <1>5, <1>10, <1>12, <1>14, TimedOutClass, <1>1
  <1>15. CASE /\ loop.late = FALSE /\ starter.out.err # "none"
              /\ Fails(Retired(k), starter.out.err) /\ Discards(starter.out)
         BY <1>1, <1>11, <1>13, <1>15
  <1>16. CASE /\ loop.late = FALSE /\ starter.out.err = "none" /\ starter.out.run = FALSE
              /\ Fails(NoContext(k), "terminal") /\ UNCHANGED runs
         BY <1>1, <1>8, <1>12, <1>16, TimedOutClass
  <1>17. CASE /\ loop.late = FALSE /\ starter.out.run = TRUE
              /\ Fails(Retired(k), "transient") /\ Discards(starter.out)
         BY <1>1, <1>11, <1>13, <1>17, TimedOutClass
  <1>18. CASE /\ loop.late = FALSE /\ starter.out.run = TRUE
              /\ Becomes([l EXCEPT !.run = l.gen, !.listens = {"ready", "done"}])
              /\ UNCHANGED <<runs, log>>
    <2>1. PICK m : m = [l EXCEPT !.run = l.gen, !.listens = {"ready", "done"}]
          OBVIOUS
    <2>2. m \in LoopType
          BY <1>5, <2>1 DEF LoopType
    <2>3. /\ m.pc = l.pc /\ m.gen = l.gen /\ m.run = l.gen /\ m.starting = l.starting
          /\ m.late = l.late /\ m.listens = {"ready", "done"} /\ m.probe = l.probe
          /\ m.timer = l.timer /\ m.repairing = l.repairing /\ m.pairing = l.pairing
          /\ m.open = l.open /\ m.canceled = l.canceled /\ m.reply = l.reply
          /\ m.same = l.same /\ m.count = l.count /\ m.state = l.state /\ m.last = l.last
          /\ m.banned = l.banned
          BY <1>5, <2>1 DEF LoopType
    <2>4. /\ m.pc = "running" /\ m.gen = loop.gen /\ m.run = loop.gen /\ m.starting = FALSE
          /\ m.late = FALSE /\ m.listens = {"ready", "done"} /\ m.probe = "none"
          /\ m.timer = loop.timer /\ m.repairing = FALSE /\ m.pairing = "none"
          /\ m.open = loop.open /\ m.canceled = loop.canceled /\ m.reply = FALSE
          /\ m.same = loop.same /\ m.count = loop.count /\ m.state = "connecting"
          BY <1>1, <1>2, <1>3, <1>5, <2>3 DEF Answered
    <2>5. Becomes(m) /\ UNCHANGED <<runs, log>>
          BY <1>18, <2>1
    <2>6. loop' = m /\ starter' = Idle /\ prober' = "none"
          BY <2>4, <2>5 DEF Becomes
    <2>7. SupTypeOK'
          BY <1>6, <2>2, <2>5, BecomesType DEF SupInv, SupTypeOK, Callbacks
    <2>8. RunsOK'
      <3>1. /\ runs[loop.gen] = "live"
            /\ \A g \in Generations : g > loop.gen => runs[g] = "none"
            /\ \A g \in Generations : runs[g] # "twice"
            /\ \A g \in Generations : runs[g] = "live" => loop.gen = g
        <4>1. \A g \in Generations : g # 0
              BY SupervisorAssumption DEF Generations
        <4> QED BY <1>1, <1>2, <1>18, <4>1 DEF SupInv, RunsOK
      <3>2. starter'.pc = "idle" /\ loop' = m /\ runs' = runs
            BY <2>5, <2>6 DEF Idle
      <3> QED BY <2>4, <3>1, <3>2, <1>2 DEF RunsOK
    <2>9. FenceOK' /\ ProbeOK'
          BY <1>1, <1>6, <1>18, <2>4, <2>5, <2>6 DEF SupInv, FenceOK, Fencing, ProbeOK, Callbacks
    <2>10. ShapeOK'
          BY <1>1, <1>2, <2>4, <2>6 DEF SupInv, ShapeOK
    <2>11. CountOK' /\ NothingStranded'
          BY <1>1, <1>2, <1>3, <1>6, <1>18, <2>4, <2>6 DEF SupInv, CountOK, NothingStranded
    <2>12. OwedOK' /\ BudgetOK' /\ BanOK'
          BY <1>1, <1>3, <2>4, <2>5, <2>6 DEF SupInv, OwedOK, BudgetOK, BanOK, LogType
    <2> QED BY <2>7, <2>8, <2>9, <2>10, <2>11, <2>12 DEF SupInv
  <1> QED BY <1>9, <1>14, <1>15, <1>16, <1>17, <1>18

\* Every context is canceled (shutdown).
LEMMA ShutdownInv ==
    ASSUME SupInv, Shutdown
    PROVE  SupInv'
  <1>1. /\ loop.pc = "running" /\ loop \in LoopType /\ loop.starting \in BOOLEAN
        /\ ~Fencing
        BY DEF Shutdown, Turn, SupInv, SupTypeOK, LoopType
  <1>2. PICK k : k = NoTimer(loop)
        OBVIOUS
  <1>3. k \in LoopType /\ SameBut(loop, k)
        BY <1>1, <1>2, NoTimerIs
  <1>4. PICK m : m = [k EXCEPT !.pc = "leaving", !.state = "stopping", !.canceled = TRUE,
                               !.probe = "none"]
        OBVIOUS
  <1>5. m \in LoopType
        BY <1>3, <1>4, Named DEF LoopType
  <1>6. /\ m.pc = "leaving" /\ m.state = "stopping" /\ m.gen = k.gen /\ m.run = k.run
        /\ m.starting = k.starting /\ m.probe = "none" /\ m.open = k.open /\ m.canceled = TRUE
        /\ m.same = k.same /\ m.count = k.count
        BY <1>3, <1>4 DEF LoopType
  <1>7. /\ m.pc = "leaving" /\ m.state = "stopping" /\ m.gen = loop.gen /\ m.run = loop.run
        /\ m.starting = loop.starting /\ m.probe = "none" /\ m.open = loop.open
        /\ m.canceled = TRUE /\ m.same = loop.same /\ m.count = loop.count
        BY <1>3, <1>6 DEF SameBut, Kept
  <1>8. Becomes(m) /\ UNCHANGED <<closing, runs, pairEvents, Callbacks, log>>
        BY <1>2, <1>4 DEF Shutdown, Closed
  <1>9. loop' = m /\ prober' = "none" /\ starter'.pc = starter.pc
        /\ (loop.starting = TRUE => starter' = starter)
        BY <1>1, <1>7, <1>8 DEF Becomes, SupInv, RunsOK, Idle
  <1>10. SupTypeOK'
        BY <1>5, <1>8, BecomesType DEF SupInv, SupTypeOK, Callbacks
  <1>11. RunsOK'
        BY <1>1, <1>7, <1>8, <1>9 DEF SupInv, RunsOK
  <1>12. FenceOK'
        BY <1>1, <1>7, <1>8, <1>9 DEF SupInv, FenceOK, Fencing, Callbacks
  <1> QED BY <1>7, <1>8, <1>9, <1>10, <1>11, <1>12
          DEF SupInv, ShapeOK, CountOK, ProbeOK, OwedOK, BudgetOK, BanOK, NothingStranded

\* The deadline of a start that is out closes the fence (handleConnectTimeout).
LEMMA CloseFenceInv ==
    ASSUME SupInv, CloseFence
    PROVE  SupInv'
  <1>1. /\ loop.pc = "running" /\ loop.late = TRUE /\ loop \in LoopType
        /\ loop.starting \in BOOLEAN /\ loop.open = TRUE
        BY DEF CloseFence, Fencing, SupInv, FenceOK, SupTypeOK, LoopType
  <1>2. loop.starting = TRUE /\ loop.state = "connecting"
        BY <1>1 DEF SupInv, ShapeOK
  <1>3. PICK m : m = [loop EXCEPT !.open = FALSE]
        OBVIOUS
  <1>4. /\ m \in LoopType /\ Becomes(m)
        /\ UNCHANGED <<closing, runs, pairEvents, Callbacks, log>>
        BY <1>1, <1>3 DEF CloseFence, LoopType
  <1>5. /\ m.pc = loop.pc /\ m.state = loop.state /\ m.gen = loop.gen /\ m.timer = loop.timer
        /\ m.starting = loop.starting /\ m.late = loop.late /\ m.reply = loop.reply
        /\ m.open = FALSE /\ m.run = loop.run /\ m.listens = loop.listens
        /\ m.same = loop.same /\ m.count = loop.count /\ m.last = loop.last
        /\ m.probe = loop.probe /\ m.repairing = loop.repairing /\ m.pairing = loop.pairing
        /\ m.banned = loop.banned
        BY <1>1, <1>3 DEF LoopType
  <1>6. /\ loop' = m /\ starter' = starter /\ forwarding = {}
        /\ loop.pairing # "none" => pairer' = pairer
        BY <1>1, <1>2, <1>4, <1>5 DEF Becomes
  <1>7. SupTypeOK'
        BY <1>4, BecomesType DEF SupInv, SupTypeOK, Callbacks
  <1>8. RunsOK'
        BY <1>4, <1>5, <1>6 DEF SupInv, RunsOK
  <1>9. FenceOK' /\ ProbeOK'
        BY <1>4, <1>5, <1>6 DEF SupInv, FenceOK, Fencing, ProbeOK, Callbacks, Becomes
  <1>10. ShapeOK' /\ CountOK' /\ NothingStranded'
        BY <1>4, <1>5, <1>6 DEF SupInv, ShapeOK, CountOK, NothingStranded
  <1>11. OwedOK' /\ BudgetOK' /\ BanOK'
        BY <1>1, <1>2, <1>4, <1>5, <1>6 DEF SupInv, ShapeOK, OwedOK, BudgetOK, BanOK
  <1> QED BY <1>7, <1>8, <1>9, <1>10, <1>11 DEF SupInv

\* The loop lets go of its run, and waits for its workers (retireCurrent).
LEMMA LeaveInv ==
    ASSUME SupInv, Leave
    PROVE  SupInv'
  <1>1. /\ loop.pc = "leaving" /\ loop \in LoopType
        /\ loop.starting \in BOOLEAN /\ loop.open \in BOOLEAN /\ loop.gen \in Nat
        BY SupervisorAssumption DEF Leave, SupInv, SupTypeOK, LoopType
  <1>2. PICK k : k = Retired(loop)
        OBVIOUS
  <1>3. /\ k \in LoopType /\ k.gen = loop.gen /\ k.run = 0 /\ k.starting = loop.starting
        /\ k.probe = "none" /\ k.open = FALSE /\ k.same = loop.same /\ k.count = loop.count
        /\ k.state = loop.state
    <2>1. k \in LoopType
          BY <1>1, <1>2, HelperTypes
    <2>2. k = [loop EXCEPT !.canceled = TRUE, !.open = FALSE, !.listens = {}, !.run = 0,
                           !.probe = "none"]
          BY <1>1, <1>2 DEF Retired, NoContext, LoopType
    <2> QED BY <1>1, <2>1, <2>2 DEF LoopType
  <1>4. PICK m : m = [k EXCEPT !.pc = "joining"]
        OBVIOUS
  <1>5. m \in LoopType
        BY <1>3, <1>4, Named DEF LoopType
  <1>6. /\ m.pc = "joining" /\ m.state = k.state /\ m.gen = k.gen /\ m.run = k.run
        /\ m.starting = k.starting /\ m.probe = k.probe /\ m.open = k.open
        /\ m.same = k.same /\ m.count = k.count
        BY <1>3, <1>4 DEF LoopType
  <1>7. /\ m.pc = "joining" /\ m.state = loop.state /\ m.gen = loop.gen /\ m.run = 0
        /\ m.starting = loop.starting /\ m.probe = "none" /\ m.open = FALSE
        /\ m.same = loop.same /\ m.count = loop.count
        BY <1>3, <1>6
  <1>8. /\ Becomes(m) /\ UNCHANGED <<closing, pairEvents, Callbacks, log>>
        /\ runs' = IF loop.run = 0 THEN runs ELSE StopRun(loop.run)
        BY <1>2, <1>4 DEF Leave, StopsOwn
  <1>9. loop' = m /\ prober' = "none" /\ starter'.pc = starter.pc
        /\ (loop.starting = TRUE => starter' = starter) /\ (loop.starting = FALSE => starter.pc = "idle")
        BY <1>1, <1>7, <1>8 DEF Becomes, SupInv, RunsOK, Idle
  <1>10. /\ runs \in [Generations -> {"none", "live", "stopped", "twice"}]
         /\ \A g \in Generations : runs[g] # "twice" /\ (g > loop.gen => runs[g] = "none")
         /\ loop.run # 0 => /\ loop.run = loop.gen /\ runs[loop.run] = "live"
                            /\ loop.run \in Generations /\ loop.starting = FALSE
    <2>1. loop.run # 0 => loop.run \in Generations
          BY <1>1, SupervisorAssumption DEF Generations, LoopType
    <2> QED BY <1>1, <2>1 DEF SupInv, SupTypeOK, RunsOK
  <1>11. FenceOK'
    <2>1. forwarding = {}
          BY <1>1, <1>7, <1>8 DEF Becomes, SupInv, FenceOK
    <2> QED BY <1>7, <1>8, <1>9, <2>1 DEF FenceOK, Fencing, Callbacks
  <1>12. ShapeOK' /\ CountOK' /\ ProbeOK' /\ OwedOK' /\ BudgetOK' /\ BanOK' /\ NothingStranded'
        BY <1>1, <1>7, <1>8, <1>9
        DEF SupInv, ShapeOK, CountOK, ProbeOK, OwedOK, BudgetOK, BanOK, NothingStranded
  <1>13. CASE loop.run = 0
    <2>1. runs' = runs
          BY <1>8, <1>13
    <2>2. SupTypeOK'
          BY <1>5, <1>8, <2>1, BecomesType DEF SupInv, SupTypeOK, Callbacks
    <2>3. RunsOK'
          BY <1>1, <1>7, <1>9, <1>13, <2>1 DEF SupInv, RunsOK
    <2> QED BY <2>2, <2>3, <1>11, <1>12 DEF SupInv
  <1>14. CASE loop.run # 0
    <2>1. runs' = [runs EXCEPT ![loop.run] = "stopped"]
          BY <1>8, <1>10, <1>14 DEF StopRun
    <2>2. runs' \in [Generations -> {"none", "live", "stopped", "twice"}]
          BY <1>10, <1>14, <2>1
    <2>3. SupTypeOK'
          BY <1>5, <1>8, <2>2, BecomesType DEF SupInv, SupTypeOK, Callbacks
    <2>4. RunsOK'
      <3>1. \A g \in Generations : g \in Nat
            BY SupervisorAssumption DEF Generations
      <3>2. starter'.pc = "idle" /\ m.starting = FALSE
            BY <1>7, <1>9, <1>10, <1>14
      <3> QED BY <1>1, <1>7, <1>9, <1>10, <1>14, <2>1, <3>1, <3>2 DEF SupInv, RunsOK
    <2> QED BY <2>3, <2>4, <1>11, <1>12 DEF SupInv
  <1> QED BY <1>13, <1>14

\* The workers have returned.
LEMMA JoinInv ==
    ASSUME SupInv, Join
    PROVE  SupInv'
  <1>1. loop \in LoopType /\ log \in LogType
        BY DEF SupInv, SupTypeOK
  <1>2. PICK m : m = [loop EXCEPT !.pc = "stopped", !.state = "stopped", !.reply = FALSE,
                                  !.repairing = FALSE, !.pairing = "none"]
        OBVIOUS
  <1>3. m \in LoopType
        BY <1>1, <1>2, Named DEF LoopType
  <1>4. /\ m.pc = "stopped" /\ m.state = "stopped" /\ m.gen = loop.gen /\ m.run = loop.run
        /\ m.starting = loop.starting /\ m.open = loop.open /\ m.canceled = loop.canceled
        /\ m.same = loop.same /\ m.count = loop.count /\ loop.pc = "joining"
        BY <1>1, <1>2 DEF LoopType, Join
  <1>5. /\ Becomes(m) /\ pairEvents' = <<>> /\ UNCHANGED <<closing, runs, Callbacks, log>>
        BY <1>2 DEF Join
  <1>6. /\ UNCHANGED <<closing, runs, forwarding>> /\ activity' \subseteq activity
        /\ pairEvents' \in Seq({"code", "blocked"}) /\ Len(pairEvents') <= EventBound
        /\ log' \in LogType
        BY <1>1, <1>5 DEF Callbacks, EventBound
  <1>7. SupTypeOK' /\ RunsOK' /\ FenceOK' /\ ProbeOK' /\ loop' = m
        BY <1>3, <1>4, <1>5, <1>6, CalmInv
  <1>8. ShapeOK' /\ CountOK' /\ OwedOK' /\ BudgetOK' /\ BanOK' /\ NothingStranded'
        BY <1>4, <1>5, <1>7
        DEF SupInv, ShapeOK, CountOK, OwedOK, BudgetOK, BanOK, NothingStranded
  <1> QED BY <1>7, <1>8 DEF SupInv

-----------------------------------------------------------------------------
(* Workers, runs, callbacks and time *)

\* Parts of the invariant that are about the loop and its history only.
LEMMA LoopKept ==
    ASSUME SupInv, UNCHANGED <<loop, closing, log>>
    PROVE  ShapeOK' /\ CountOK' /\ OwedOK' /\ BudgetOK' /\ NothingStranded'
  BY DEF SupInv, ShapeOK, CountOK, OwedOK, BudgetOK, NothingStranded

\* Stop only asks the loop to end.
LEMMA StopInv ==
    ASSUME SupInv, Stop
    PROVE  SupInv'
  BY DEF SupInv, Stop, env, Callbacks, SupTypeOK, ShapeOK, CountOK, RunsOK, FenceOK, Fencing, ProbeOK,
         OwedOK, BudgetOK, BanOK, NothingStranded

\* The adapter hands over a run, an error, both or neither.
LEMMA StartReturnsInv ==
    ASSUME SupInv, StartReturns
    PROVE  SupInv'
  <1>1. PICK out \in Outcomes :
            /\ starter.pc = "calling" /\ starter' = [pc |-> "returned", out |-> out]
            /\ runs' = IF out.run THEN [runs EXCEPT ![loop.gen] = "live"] ELSE runs
            /\ UNCHANGED <<loop, closing, prober, repairer, pairer, pairEvents, sig, Callbacks, log>>
        BY DEF StartReturns
  <1>2. /\ loop.starting = TRUE /\ loop.gen \in Generations /\ loop.run = 0
        /\ runs[loop.gen] = "none" /\ out.run \in BOOLEAN /\ starter' \in StarterType
        /\ runs \in [Generations -> {"none", "live", "stopped", "twice"}]
        BY <1>1, SupervisorAssumption
        DEF SupInv, SupTypeOK, RunsOK, LoopType, Generations, Outcomes, StarterType
  <1>3. runs' \in [Generations -> {"none", "live", "stopped", "twice"}]
        BY <1>1, <1>2
  <1>4. SupTypeOK'
        BY <1>1, <1>2, <1>3 DEF SupInv, SupTypeOK, Callbacks
  <1>5. RunsOK'
    <2>1. \A g \in Generations : g \in Nat /\ g # 0
          BY SupervisorAssumption DEF Generations
    <2>2. starter'.pc = "returned" /\ starter'.out.run = out.run
          BY <1>1
    <2> QED BY <1>1, <1>2, <2>1, <2>2 DEF SupInv, RunsOK
  <1>6. FenceOK' /\ ProbeOK' /\ BanOK'
        BY <1>1, <1>2 DEF SupInv, FenceOK, Fencing, ProbeOK, BanOK, Callbacks
  <1> QED BY <1>1, <1>4, <1>5, <1>6, LoopKept DEF SupInv

\* The worker that started a generation hands on what it got, or stops a run that
\* comes too late.
LEMMA StarterSendsInv ==
    ASSUME SupInv, StarterSends
    PROVE  SupInv'
  <1>1. /\ starter.pc = "returned" /\ starter \in StarterType
        /\ UNCHANGED <<loop, closing, prober, repairer, pairer, pairEvents, sig, Callbacks, log>>
        BY DEF StarterSends, SupInv, SupTypeOK
  <1>2. /\ loop.starting = TRUE /\ loop.gen \in Generations /\ loop.run = 0
        /\ starter.out.run = TRUE => runs[loop.gen] = "live"
        /\ \A g \in Generations : runs[g] = "live" => loop.gen = g /\ starter.out.run = TRUE
        /\ runs \in [Generations -> {"none", "live", "stopped", "twice"}]
        /\ starter.out.run \in BOOLEAN /\ loop.canceled \in BOOLEAN
    <2>1. \A g \in Generations : g # 0
          BY SupervisorAssumption DEF Generations
    <2> QED BY <1>1, <2>1, SupervisorAssumption
            DEF SupInv, SupTypeOK, RunsOK, LoopType, Generations, Outcomes, StarterType
  <1>3. CASE loop.canceled = TRUE /\ starter.out.run = TRUE
    <2>1. /\ starter' = [pc |-> "sent", out |->
                [run |-> FALSE,
                 err |-> IF starter.out.err = "none" THEN "transient" ELSE starter.out.err]]
          /\ runs' = [runs EXCEPT ![loop.gen] = "stopped"]
          BY <1>2, <1>3 DEF StarterSends, StopRun
    <2>2. starter' \in StarterType /\ starter'.pc = "sent" /\ starter'.out.run = FALSE
          BY <1>1, <2>1 DEF StarterType, Outcomes, Classes
    <2>3. SupTypeOK'
          BY <1>1, <1>2, <2>1, <2>2 DEF SupInv, SupTypeOK, Callbacks
    <2>4. RunsOK'
      <3>1. \A g \in Generations : g \in Nat
            BY SupervisorAssumption DEF Generations
      <3> QED BY <1>1, <1>2, <2>1, <2>2, <3>1 DEF SupInv, RunsOK
    <2>5. FenceOK' /\ ProbeOK' /\ BanOK'
          BY <1>1, <1>2, <1>3, <2>1 DEF SupInv, FenceOK, Fencing, ProbeOK, BanOK, Callbacks
    <2> QED BY <1>1, <2>3, <2>4, <2>5, LoopKept DEF SupInv
  <1>4. CASE ~(loop.canceled = TRUE /\ starter.out.run = TRUE)
    <2>1. starter' = [starter EXCEPT !.pc = "sent"] /\ runs' = runs
          BY <1>2, <1>4 DEF StarterSends
    <2>2. starter' \in StarterType /\ starter'.pc = "sent" /\ starter'.out = starter.out
          BY <1>1, <2>1 DEF StarterType
    <2>3. SupTypeOK'
          BY <1>1, <1>2, <2>1, <2>2 DEF SupInv, SupTypeOK, Callbacks
    <2>4. RunsOK'
          BY <1>1, <1>2, <2>1, <2>2 DEF SupInv, RunsOK
    <2>5. FenceOK' /\ ProbeOK' /\ BanOK'
          BY <1>1, <2>1 DEF SupInv, FenceOK, Fencing, ProbeOK, BanOK, Callbacks
    <2> QED BY <1>1, <2>3, <2>4, <2>5, LoopKept DEF SupInv
  <1> QED BY <1>3, <1>4

\* Answers of workers and signals of the run wait for the loop.
LEMMA WorkersInv ==
    ASSUME SupInv, ProbeReturns \/ RepairReturns \/ RunReady \/ RunEnds
    PROVE  SupInv'
  <1>1. CASE ProbeReturns
        BY <1>1 DEF ProbeReturns, SupInv, Callbacks, SupTypeOK, ShapeOK, CountOK, RunsOK, FenceOK, Fencing,
                    ProbeOK, OwedOK, BudgetOK, BanOK, NothingStranded, Classes
  <1>2. CASE RepairReturns
        BY <1>2 DEF RepairReturns, SupInv, Callbacks, SupTypeOK, ShapeOK, CountOK, RunsOK, FenceOK, Fencing,
                    ProbeOK, OwedOK, BudgetOK, BanOK, NothingStranded
  <1>3. CASE RunReady \/ RunEnds
    <2>1. sig' \in [ready : BOOLEAN, done : Classes \cup {"none"}]
      <3>1. sig \in [ready : BOOLEAN, done : Classes \cup {"none"}]
            BY DEF SupInv, SupTypeOK
      <3>2. CASE RunReady
            BY <3>1, <3>2 DEF RunReady
      <3>3. CASE RunEnds
            BY <3>1, <3>3 DEF RunEnds
      <3> QED BY <1>3, <3>2, <3>3
    <2>2. UNCHANGED <<loop, closing, starter, prober, repairer, pairer, pairEvents, runs,
                      forwarding, activity, log>>
          BY <1>3 DEF RunReady, RunEnds, Callbacks
    <2> QED BY <2>1, <2>2 DEF SupInv, SupTypeOK, ShapeOK, CountOK, RunsOK, FenceOK, Fencing, ProbeOK,
                              OwedOK, BudgetOK, BanOK, NothingStranded
  <1> QED BY <1>1, <1>2, <1>3

\* The open fence is that of a generation.
LEMMA OpenGeneration ==
    ASSUME SupInv, loop.open
    PROVE  loop.gen \in Generations
  BY SupervisorAssumption DEF SupInv, SupTypeOK, FenceOK, LoopType, Generations

\* Callbacks pass an open fence only.
LEMMA CallbacksInv ==
    ASSUME SupInv, BeginForward \/ EndForward \/ Beat
    PROVE  SupInv'
  <1>1. CASE BeginForward
        BY <1>1, OpenGeneration
        DEF BeginForward, SupInv, env, SupTypeOK, ShapeOK, CountOK, RunsOK, FenceOK, Fencing,
            ProbeOK, OwedOK, BudgetOK, BanOK, NothingStranded
  <1>2. CASE EndForward
        BY <1>2 DEF EndForward, SupInv, env, SupTypeOK, ShapeOK, CountOK, RunsOK, FenceOK, Fencing,
                    ProbeOK, OwedOK, BudgetOK, BanOK, NothingStranded
  <1>3. CASE Beat
        BY <1>3, OpenGeneration
        DEF Beat, SupInv, env, SupTypeOK, ShapeOK, CountOK, RunsOK, FenceOK, Fencing,
            ProbeOK, OwedOK, BudgetOK, BanOK, NothingStranded
  <1> QED BY <1>1, <1>2, <1>3

\* The pairing worker: a ban is announced, returned, or both.
LEMMA PairerInv ==
    ASSUME SupInv, PairEmits \/ PairReturns
    PROVE  SupInv'
  <1>1. log \in LogType /\ log.ban \in BOOLEAN
        BY DEF SupInv, SupTypeOK, LogType
  <1>2. CASE PairEmits
    <2>1. PICK e \in {"code", "blocked"} :
              pairEvents' = Append(pairEvents, e) /\ log' = [log EXCEPT !.ban = e = "blocked"]
          BY <1>2 DEF PairEmits
    <2>2. /\ pairer = "calling" /\ loop.pairing = "active" /\ log.ban = FALSE
          /\ Len(pairEvents) < EventBound /\ pairEvents \in Seq({"code", "blocked"})
          /\ UNCHANGED <<loop, closing, starter, prober, repairer, pairer, runs, sig, Callbacks>>
          BY <1>1, <1>2 DEF PairEmits, SupInv, SupTypeOK
    <2>3. /\ log' \in LogType /\ log'.ban = (e = "blocked") /\ log'.owed = log.owed
          /\ log'.repairs = log.repairs /\ log'.lapsed = log.lapsed
          BY <1>1, <2>1 DEF LogType
    <2>4. /\ pairEvents' \in Seq({"code", "blocked"}) /\ Len(pairEvents') <= EventBound
          /\ Len(pairEvents) + 1 \in DOMAIN pairEvents' /\ pairEvents'[Len(pairEvents) + 1] = e
          BY <2>1, <2>2 DEF EventBound
    <2>5. SupTypeOK'
          BY <2>2, <2>3, <2>4 DEF SupInv, SupTypeOK, Callbacks
    <2>6. BanOK'
          BY <2>2, <2>3, <2>4 DEF BanOK
    <2> QED BY <2>2, <2>3, <2>5, <2>6
            DEF SupInv, ShapeOK, CountOK, RunsOK, FenceOK, Fencing, ProbeOK, OwedOK, BudgetOK,
                NothingStranded, Callbacks
  <1>3. CASE PairReturns
    <2>1. /\ pairer = "calling"
          /\ log.ban = TRUE => pairer' = "limited"
          /\ pairer' \in {"paired", "limited", "terminal", "other"}
          /\ pairer' = "limited" => log.ban \/ loop.pairing = "active"
          /\ log' = [log EXCEPT !.ban = pairer' = "limited"]
          /\ UNCHANGED <<loop, closing, starter, prober, repairer, pairEvents, runs, sig, Callbacks>>
          BY <1>3 DEF PairReturns
    <2>2. /\ log' \in LogType /\ log'.ban = (pairer' = "limited") /\ log'.owed = log.owed
          /\ log'.repairs = log.repairs /\ log'.lapsed = log.lapsed
          BY <1>1, <2>1 DEF LogType
    <2>3. SupTypeOK'
          BY <2>1, <2>2 DEF SupInv, SupTypeOK, Callbacks
    <2>4. BanOK'
          BY <1>1, <2>1, <2>2 DEF SupInv, BanOK
    <2> QED BY <2>1, <2>2, <2>3, <2>4
            DEF SupInv, ShapeOK, CountOK, RunsOK, FenceOK, Fencing, ProbeOK, OwedOK, BudgetOK,
                NothingStranded, Callbacks
  <1> QED BY <1>2, <1>3

\* Steps of time change these fields of the loop only.
LEMMA TimeIs ==
    ASSUME loop \in LoopType, NEW b \in BOOLEAN, NEW d \in BOOLEAN, NEW s \in BOOLEAN,
           NEW m, m = [loop EXCEPT !.banned = b, !.due = d, !.silent = s]
    PROVE  /\ m \in LoopType /\ SameBut(loop, m) /\ m.state = loop.state
           /\ m.timer = loop.timer /\ m.banned = b
  BY DEF LoopType, SameBut, Kept

\* Time passes, and bans with it.
LEMMA ElapseInv ==
    ASSUME SupInv, Elapse \/ LiftBan
    PROVE  SupInv'
  <1>1. /\ loop \in LoopType /\ log \in LogType /\ loop.banned \in BOOLEAN
        /\ loop.due \in BOOLEAN /\ loop.silent \in BOOLEAN
        BY DEF SupInv, SupTypeOK, LoopType
  <1>2. PICK b \in BOOLEAN, d \in BOOLEAN, s \in BOOLEAN :
            /\ loop' = [loop EXCEPT !.banned = b, !.due = d, !.silent = s]
            /\ (b = loop.banned /\ log' = log) \/ log' = [log EXCEPT !.ban = FALSE]
            /\ UNCHANGED <<closing, env, Callbacks>>
    <2>1. CASE Elapse
      <3>1. PICK s \in {loop.silent} \cup {loop.timer = "liveness"} :
                loop' = [loop EXCEPT !.due = TRUE, !.silent = s]
            BY <2>1 DEF Elapse
      <3>2. loop' = [loop EXCEPT !.banned = loop.banned, !.due = TRUE, !.silent = s]
            BY <1>1, <3>1 DEF LoopType
      <3>3. s \in BOOLEAN
            BY <1>1, <3>1
      <3>4. UNCHANGED <<closing, env, Callbacks, log>>
            BY <2>1 DEF Elapse
      <3> QED BY <1>1, <3>2, <3>3, <3>4
    <2>2. CASE LiftBan
      <3>1. loop' = [loop EXCEPT !.banned = FALSE, !.due = loop.due, !.silent = loop.silent]
            BY <1>1, <2>2 DEF LiftBan, LoopType
      <3> QED BY <1>1, <2>2, <3>1 DEF LiftBan
    <2> QED BY <2>1, <2>2
  <1>3. PICK m : m = [loop EXCEPT !.banned = b, !.due = d, !.silent = s]
        OBVIOUS
  <1>4. /\ m \in LoopType /\ SameBut(loop, m) /\ m.state = loop.state
        /\ m.timer = loop.timer /\ m.banned = b
        BY <1>1, <1>3, TimeIs
  <1>5. /\ log' \in LogType /\ log'.owed = log.owed /\ log'.repairs = log.repairs
        /\ log'.lapsed = log.lapsed
        /\ (b = loop.banned /\ log'.ban = log.ban) \/ log'.ban = FALSE
        BY <1>1, <1>2 DEF LogType
  <1>6. loop' = m /\ UNCHANGED <<closing, starter, prober, repairer, pairer, pairEvents, runs, sig,
                                 forwarding, activity>>
        BY <1>2, <1>3 DEF env, Callbacks
  <1>7. /\ loop'.pc = loop.pc /\ loop'.state = loop.state /\ loop'.gen = loop.gen
        /\ loop'.timer = loop.timer /\ loop'.starting = loop.starting /\ loop'.late = loop.late
        /\ loop'.reply = loop.reply /\ loop'.open = loop.open /\ loop'.canceled = loop.canceled
        /\ loop'.run = loop.run /\ loop'.listens = loop.listens /\ loop'.same = loop.same
        /\ loop'.count = loop.count /\ loop'.last = loop.last /\ loop'.probe = loop.probe
        /\ loop'.repairing = loop.repairing /\ loop'.pairing = loop.pairing
        /\ loop'.banned = b
        BY <1>4, <1>6 DEF SameBut, Kept
  <1>8. SupTypeOK'
        BY <1>4, <1>5, <1>6 DEF SupInv, SupTypeOK
  <1>9. ShapeOK' /\ CountOK' /\ NothingStranded'
        BY <1>6, <1>7 DEF SupInv, ShapeOK, CountOK, NothingStranded
  <1>10. RunsOK' /\ FenceOK' /\ ProbeOK'
        BY <1>6, <1>7 DEF SupInv, RunsOK, FenceOK, Fencing, ProbeOK
  <1>11. OwedOK' /\ BudgetOK' /\ BanOK'
        BY <1>5, <1>6, <1>7 DEF SupInv, OwedOK, BudgetOK, BanOK
  <1> QED BY <1>8, <1>9, <1>10, <1>11 DEF SupInv

-----------------------------------------------------------------------------
(* The theorems *)

\* The invariant holds when the supervisor is made.
LEMMA InitInv == Init => SupInv
  <1> SUFFICES ASSUME Init PROVE SupInv
        OBVIOUS
  <1>1. PICK state \in {"stopped", "unpaired"} : loop =
            [pc |-> "running", state |-> state, gen |-> 0, timer |-> "none", due |-> FALSE,
             silent |-> FALSE, starting |-> FALSE, late |-> FALSE, reply |-> FALSE,
             open |-> FALSE, canceled |-> FALSE, run |-> 0, listens |-> {}, same |-> "none",
             count |-> 0, last |-> "none", probe |-> "none", repairing |-> FALSE,
             pairing |-> "none", pairings |-> 0, banned |-> FALSE]
        BY DEF Init
  <1>2. /\ 0 \in 0..MaxGenerations /\ 0 \in 0..MaxSame /\ 0 \in 0..MaxPairings
        /\ state \in States /\ MaxSame \in Nat /\ 0 < MaxSame
        BY SupervisorAssumption DEF States
  <1>3. loop \in LoopType
        BY <1>1, <1>2, Named DEF LoopType
  <1>4. /\ loop.pc = "running" /\ loop.state = state /\ loop.gen = 0 /\ loop.timer = "none"
        /\ loop.starting = FALSE /\ loop.late = FALSE /\ loop.reply = FALSE /\ loop.open = FALSE
        /\ loop.run = 0 /\ loop.listens = {} /\ loop.count = 0 /\ loop.probe = "none"
        /\ loop.repairing = FALSE /\ loop.pairing = "none"
        BY <1>1
  <1>5. /\ closing = FALSE /\ starter = Idle /\ prober = "none" /\ repairer = "none"
        /\ pairer = "none" /\ pairEvents = <<>>
        /\ runs = [g \in Generations |-> "none"] /\ sig = NoSignals
        /\ forwarding = {} /\ activity = {}
        /\ log = [owed |-> FALSE, repairs |-> 0, ban |-> FALSE, lapsed |-> FALSE]
        BY DEF Init
  <1>6. /\ log \in LogType /\ log.owed = FALSE /\ log.repairs = 0 /\ log.ban = FALSE
        BY <1>5 DEF LogType
  <1>7. SupTypeOK
    <2>1. starter \in StarterType /\ sig \in [ready : BOOLEAN, done : Classes \cup {"none"}]
          BY <1>5 DEF StarterType, Idle, NoOutcome, Outcomes, NoSignals
    <2>2. pairEvents \in Seq({"code", "blocked"}) /\ Len(pairEvents) <= EventBound
          BY <1>5 DEF EventBound
    <2>3. runs \in [Generations -> {"none", "live", "stopped", "twice"}]
          BY <1>5
    <2> QED BY <1>3, <1>5, <1>6, <2>1, <2>2, <2>3 DEF SupTypeOK
  <1>8. ShapeOK /\ CountOK /\ NothingStranded
        BY <1>2, <1>4 DEF ShapeOK, CountOK, NothingStranded
  <1>9. RunsOK /\ FenceOK /\ ProbeOK
        BY <1>4, <1>5 DEF RunsOK, FenceOK, Fencing, ProbeOK, Idle
  <1>10. OwedOK /\ BudgetOK /\ BanOK
        BY <1>2, <1>4, <1>6 DEF OwedOK, BudgetOK, BanOK
  <1> QED BY <1>7, <1>8, <1>9, <1>10 DEF SupInv

\* Every step keeps it.
LEMMA StepInv ==
    ASSUME SupInv, [Next]_vars
    PROVE  SupInv'
  <1>1. CASE UNCHANGED vars
        BY <1>1 DEF vars, SupInv, SupTypeOK, ShapeOK, CountOK, RunsOK, FenceOK, Fencing, ProbeOK,
                    OwedOK, BudgetOK, BanOK, NothingStranded
  <1>2. CASE UserStart \/ Unblock \/ BeginPairing \/ Stop
        BY <1>2, UserStartInv, UnblockInv, BeginPairingInv, StopInv
  <1>3. CASE \/ HandleStartResult \/ HandleReady \/ HandleRunDone \/ HandleActivity
             \/ HandleProbe \/ HandleRepair \/ HandlePairEvent \/ HandlePairResult
        BY <1>3, HandleStartResultInv, HandleReadyInv, HandleRunDoneInv, HandleActivityInv,
           HandleProbeInv, HandleRepairInv, HandlePairEventInv, HandlePairResultInv
  <1>4. CASE Deadlines \/ Shutdown \/ Leave \/ Join
        BY <1>4, ConnectDeadlineInv, CloseFenceInv, LivenessCheckInv, BackoffOverInv,
           ProbeDeadlineInv, PairExpiryInv, ShutdownInv, LeaveInv, JoinInv DEF Deadlines
  <1>5. CASE \/ StartReturns \/ StarterSends \/ ProbeReturns \/ RepairReturns
             \/ PairEmits \/ PairReturns \/ RunReady \/ RunEnds
             \/ BeginForward \/ EndForward \/ Beat \/ Elapse \/ LiftBan
        BY <1>5, StartReturnsInv, StarterSendsInv, WorkersInv, PairerInv, CallbacksInv, ElapseInv
  <1> QED BY <1>1, <1>2, <1>3, <1>4, <1>5 DEF Next

\* The loop, its workers and its channels keep their types, and everything that the
\* invariant says of a connection, a repair and a pairing holds in every reachable state.
THEOREM SupHolds == SupSpec => []SupInv
  <1>1. SupInv /\ [Next]_vars => SupInv'
        BY StepInv
  <1> QED BY <1>1, InitInv, PTL DEF SupSpec

\* recordFingerprint never counts past its bound, and generations, pairings and queued
\* pairing events stay within theirs.
THEOREM SupTypes == SupSpec => []SupTypeOK
  <1>1. SupInv => SupTypeOK
        BY DEF SupInv
  <1> QED BY <1>1, SupHolds, PTL

\* Every run an adapter handed over is installed, on its way to the loop, or was stopped
\* exactly once (handleStartResult, retireCurrent, the start worker).
THEOREM RunsAreAccounted == SupSpec => []RunsAccounted
  <1>1. SupInv => RunsAccounted
    <2> SUFFICES ASSUME SupInv PROVE RunsAccounted
          OBVIOUS
    <2>1. loop.starting = FALSE => starter.pc = "idle"
          BY DEF SupInv, RunsOK
    <2>2. loop.starting \in BOOLEAN
          BY DEF SupInv, SupTypeOK, LoopType
    <2> QED BY <2>1, <2>2 DEF SupInv, RunsOK, RunsAccounted
  <1> QED BY <1>1, SupHolds, PTL

\* An account that waits has a timer, a worker or a run under way that ends its wait, and
\* a caller that waits has a start that is out (replaceTimer, beginProbe, reply).
THEOREM NoneStranded == SupSpec => []NothingStranded
  <1>1. SupInv => NothingStranded
        BY DEF SupInv
  <1> QED BY <1>1, SupHolds, PTL

\* A callback inside the fence is of the latest generation, whose fence is open; its run
\* is stopped only if its own start worker did so between the cancel of the context and
\* the closing of the fence (generationFence, handleConnectTimeout, shutdown).
THEOREM FenceHolds == SupSpec => []NoLateRecord
  <1>1. SupInv => NoLateRecord
    <2> SUFFICES ASSUME SupInv, NEW g \in forwarding
                 PROVE  /\ g = loop.gen /\ loop.open /\ (loop.starting \/ loop.run = g)
                        /\ runs[g] = "stopped" => Fencing /\ loop.starting
          BY DEF NoLateRecord
    <2> QED BY DEF SupInv, FenceOK
  <1> QED BY <1>1, SupHolds, PTL

\* An account whose credentials expired connects again only after a repair
\* (routeFailure, unblock, handleRepair).
THEOREM RepairHolds == SupSpec => []RepairNotBypassed
  <1>1. SupInv => RepairNotBypassed
        BY DEF SupInv, OwedOK, ShapeOK, RepairNotBypassed
  <1> QED BY <1>1, SupHolds, PTL

\* Repairs in a row stay below MaxSameFingerprint (recordFingerprint).
THEOREM RepairsBounded == SupSpec => []RepairBudget
  <1>1. SupInv => RepairBudget
        BY DEF SupInv, BudgetOK, RepairBudget
  <1> QED BY <1>1, SupHolds, PTL

\* What may happen to an account that is unpaired: it begins to pair, or stays away from it.
LEMMA UnpairedStep ==
    ASSUME SupInv, [Next]_vars, loop.state = "unpaired"
    PROVE  BeginPairing \/ loop'.state # "pairing"
  <1>1. loop.pc = "running"
        BY DEF SupInv, ShapeOK
  <1>2. /\ loop.run = 0 /\ loop.starting = FALSE /\ loop.listens = {} /\ loop.probe = "none"
        /\ loop.repairing = FALSE /\ loop.timer = "none" /\ loop.pairing # "active"
        /\ loop \in LoopType
        BY <1>1, AtRest DEF SupInv, ShapeOK
  <1>3. CASE HandlePairResult
    <2>1. PICK k : k = NoTimer(loop)
          OBVIOUS
    <2>2. k \in LoopType /\ k.state = "unpaired"
          BY <1>2, <2>1, NoTimerIs
    <2>3. Becomes([k EXCEPT !.pairing = "none"])
          BY <1>2, <1>3, <2>1 DEF HandlePairResult, PairLapses
    <2>4. loop' = [k EXCEPT !.pairing = "none"]
          BY <2>3 DEF Becomes
    <2> QED BY <2>2, <2>4 DEF LoopType
  <1>4. CASE Shutdown
    <2>1. PICK k : k = NoTimer(loop)
          OBVIOUS
    <2>2. k \in LoopType
          BY <1>2, <2>1, NoTimerIs
    <2>3. loop' = [k EXCEPT !.pc = "leaving", !.state = "stopping", !.canceled = TRUE,
                            !.probe = "none"]
          BY <1>4, <2>1 DEF Shutdown, Becomes, Closed
    <2> QED BY <2>2, <2>3 DEF LoopType
  <1>5. CASE HandleActivity \/ HandlePairEvent
        BY <1>2, <1>5 DEF HandleActivity, HandlePairEvent, Becomes
  <1>6. CASE LiftBan
        BY <1>2, <1>6 DEF LiftBan, LoopType
  <1>7. CASE \/ UserStart \/ Unblock \/ HandleStartResult \/ HandleReady \/ HandleRunDone
             \/ HandleProbe \/ HandleRepair \/ Deadlines \/ Leave \/ Join \/ Elapse
    <2>1. ~Fencing
          BY <1>1, <1>2 DEF SupInv, ShapeOK, FenceOK
    <2> QED
        BY <1>1, <1>2, <1>7, <2>1
        DEF UserStart, Unblock, HandleStartResult, HandleReady, HandleRunDone, HandleProbe,
            HandleRepair, Deadlines, ConnectDeadline, CloseFence, LivenessCheck, BackoffOver,
            ProbeDeadline, PairExpiry, Due, Leave, Join, Elapse
  <1>8. CASE \/ Stop \/ StartReturns \/ StarterSends \/ ProbeReturns \/ RepairReturns
             \/ PairEmits \/ PairReturns \/ RunReady \/ RunEnds
             \/ BeginForward \/ EndForward \/ Beat \/ UNCHANGED vars
    <2>1. UNCHANGED loop
          BY <1>8
          DEF Stop, StartReturns, StarterSends, ProbeReturns, RepairReturns, PairEmits,
              PairReturns, RunReady, RunEnds, BeginForward, EndForward, Beat, vars
    <2> QED BY <2>1
  <1> QED BY <1>3, <1>4, <1>5, <1>6, <1>7, <1>8 DEF Next

\* No pairing begins while a ban of the one before holds, whichever of its event and its
\* result was taken first (handlePairEvent, handlePairResult, BeginPairing).
THEOREM BanHolds == SupSpec => BanRespected
  <1>1. SupInv /\ [Next]_vars =>
           [loop.state = "unpaired" /\ loop'.state = "pairing" => ~log.ban \/ log.lapsed]_vars
    <2> SUFFICES ASSUME SupInv, [Next]_vars, loop.state = "unpaired", loop'.state = "pairing"
                 PROVE  ~log.ban \/ log.lapsed
          OBVIOUS
    <2>1. BeginPairing
          BY UnpairedStep
    <2>2. loop.pc = "running" /\ loop.pairing = "none" /\ ~loop.banned
          BY <2>1 DEF BeginPairing, Turn
    <2> QED BY <2>2 DEF SupInv, BanOK
  <1> QED BY <1>1, SupHolds, PTL DEF SupSpec, BanRespected
=============================================================================
