---------------------------- MODULE IngestProofs ----------------------------
(* The inbox and its worker, for any frames, any contents, any capacity and    *)
(* any bounds on deliveries, refused statements and stops, proved.             *)
EXTENDS IngestInbox, FiniteSetTheorems, SequenceTheorems, TLAPS

-----------------------------------------------------------------------------
(* The invariant *)

Final == {"exhausted", "failed", "stopped"}

\* What befell a frame that excuses it from being completed.
Excused(f) == f \in log.quarantined \/ log.hit[f] \cap Final # {}

\* Where the worker is tells what it works on.
WorkOK ==
    /\ wk.pc \in {"apply", "quarantine"} => Cur \in Frames
    /\ wk.pc \notin {"apply", "quarantine"} =>
          Cur = NoFrame /\ wk.batch = <<>> /\ wk.replay = FALSE
    /\ wk.pc = "apply" =>
          /\ Decoded[Cur].valid /\ wk.pos \in Steps(Cur)
          /\ 1..(wk.pos - 1) \subseteq log.done[Cur]
    /\ wk.pc = "quarantine" => ~Decoded[Cur].valid \/ "failed" \in log.hit[Cur]

\* A row is marked by a step of its frame that marks it.
MarkOK == \A f \in Frames :
    /\ log.done[f] \subseteq Steps(f)
    /\ \A n \in log.done[f] :
          Plan(f)[n].op \in {"project", "mutate", "mark"} => inbox[f].status = "processed"

\* A frame that is marked and not complete is being applied, and its message is
\* stored as it should be: starting over finds it no stale replay.
HalfOK == \A f \in Frames :
    FirstIsWrittenOnce(f) /\ inbox[f].status = "processed" /\ ~Excused(f)
        /\ log.done[f] # Steps(f) =>
            /\ f = Cur /\ wk.pc = "apply"
            /\ \A n \in Steps(f) :
                  Plan(f)[n].op = "project" => store[Plan(f)[n].key] = Plan(f)[n].value

\* The worker of this kind will read the row of a frame, or be started again.
Covers(w, f) ==
    \/ w.pc \in {"off", "listing", "returned"}
    \/ w.canceled = TRUE
    \/ w.pc \in {"apply", "quarantine"} /\ w.replay = TRUE
    \/ w.pc \in {"apply", "quarantine"} /\ w.cur = f
    \/ w.pc \in {"apply", "quarantine"} /\ \E i \in 1..Len(w.batch) : w.batch[i] = f

\* A row that waits is listed, will be, or is announced.
WakeOK == \A f \in Pending :
    \/ log.hit[f] \cap {"exhausted", "failed", "unlisted"} # {}
    \/ [frame |-> f, replay |-> FALSE] \in notifying
    \/ queue # <<>>
    \/ Covers(wk, f)

IngestInv == IngestTypeOK /\ WorkOK /\ MarkOK /\ HalfOK /\ WakeOK /\ OnlyDefectsQuarantined

-----------------------------------------------------------------------------
(* What a frame does *)

KeyedSteps == [op : {"write", "project", "mutate"}, key : Keys, value : Values]
BareSteps  == [op : {"follow", "mark"}]
StepSet    == KeyedSteps \cup BareSteps

\* The messages of a frame, as Plan lays them out.
MessageSteps(m) == [i \in 1..(2 * Len(m)) |->
    IF i % 2 = 0 THEN [op |-> "follow"]
    ELSE [op    |-> IF i = 1 THEN "project" ELSE "write",
          key   |-> m[(i + 1) \div 2].key,
          value |-> m[(i + 1) \div 2].value]]

\* A row's writes are steps, each of the given kind.
LEMMA UpsertsFacts ==
    ASSUME NEW s \in Writes, NEW op \in {"write", "mutate"}
    PROVE  /\ Upserts(op, s) \in Seq(StepSet)
           /\ Len(Upserts(op, s)) = Len(s)
           /\ \A i \in 1..Len(s) : Upserts(op, s)[i].op = op
<1>1. \A i \in 1..Len(s) : s[i] \in [key : Keys, value : Values]
  BY ElementOfSeq DEF Writes
<1>2. \A i \in 1..Len(s) : [op |-> op, key |-> s[i].key, value |-> s[i].value] \in KeyedSteps
  BY <1>1 DEF KeyedSteps
<1>3. Len(s) \in Nat
  BY DEF Writes
<1>4. Upserts(op, s) \in [1..Len(s) -> StepSet]
  BY <1>2 DEF Upserts, StepSet
<1>5. Upserts(op, s) \in Seq(StepSet)
  BY <1>3, <1>4
<1> QED
  BY <1>3, <1>4, <1>5 DEF Upserts

\* The steps that touch no content.
LEMMA BareFacts ==
    ASSUME NEW n \in Nat, NEW op \in {"follow", "mark"}
    PROVE  /\ Bare(op, n) \in Seq(StepSet)
           /\ Len(Bare(op, n)) = n
           /\ \A i \in 1..n : Bare(op, n)[i].op = op
<1>1. [op |-> op] \in StepSet
  BY DEF StepSet, BareSteps
<1>2. Bare(op, n) \in [1..n -> StepSet]
  BY <1>1 DEF Bare
<1>3. Bare(op, n) \in Seq(StepSet)
  BY <1>2
<1> QED
  BY <1>2, <1>3 DEF Bare

\* Only the first of a frame's messages carries the row along, and a message
\* touches the row in no other way.
LEMMA MessageFacts ==
    ASSUME NEW m \in Writes
    PROVE  /\ MessageSteps(m) \in Seq(StepSet)
           /\ Len(MessageSteps(m)) = 2 * Len(m)
           /\ \A i \in 1..(2 * Len(m)) :
                 /\ i = 1 => MessageSteps(m)[i].op = "project"
                 /\ i # 1 => MessageSteps(m)[i].op \in {"write", "follow"}
<1>0. Len(m) \in Nat
  BY DEF Writes
<1>1. Len(m) \in Nat /\ \A i \in 1..Len(m) : m[i] \in [key : Keys, value : Values]
  BY <1>0, ElementOfSeq DEF Writes
<1>2. \A i \in 1..(2 * Len(m)) : i % 2 # 0 => (i + 1) \div 2 \in 1..Len(m)
  BY <1>1
<1>3. \A i \in 1..(2 * Len(m)) : MessageSteps(m)[i] \in StepSet
  <2> SUFFICES ASSUME NEW i \in 1..(2 * Len(m)) PROVE MessageSteps(m)[i] \in StepSet
    OBVIOUS
  <2>1. CASE i % 2 = 0
    BY <2>1 DEF MessageSteps, StepSet, BareSteps
  <2>2. CASE i % 2 # 0
    <3>1. m[(i + 1) \div 2] \in [key : Keys, value : Values]
      BY <1>1, <1>2, <2>2
    <3>2. MessageSteps(m)[i] \in KeyedSteps
      BY <3>1, <2>2 DEF MessageSteps, KeyedSteps
    <3> QED
      BY <3>2 DEF StepSet
  <2> QED
    BY <2>1, <2>2
<1>4. MessageSteps(m) \in [1..(2 * Len(m)) -> StepSet]
  BY <1>3 DEF MessageSteps
<1>5. 2 * Len(m) \in Nat
  BY <1>1
<1>6. MessageSteps(m) \in Seq(StepSet)
  BY <1>4, <1>5
<1>7. Len(MessageSteps(m)) = 2 * Len(m)
  BY <1>4, <1>5
<1> QED
  BY <1>6, <1>7 DEF MessageSteps

\* Two runs of steps, one after the other.
LEMMA Joined ==
    ASSUME NEW s \in Seq(StepSet), NEW t \in Seq(StepSet)
    PROVE  /\ s \o t \in Seq(StepSet)
           /\ Len(s \o t) = Len(s) + Len(t)
           /\ \A i \in 1..(Len(s) + Len(t)) : i <= Len(s) => (s \o t)[i] = s[i]
           /\ \A i \in 1..(Len(s) + Len(t)) : Len(s) < i => (s \o t)[i] = t[i - Len(s)]
<1>1. s \o t \in Seq(StepSet) /\ Len(s \o t) = Len(s) + Len(t)
  BY ConcatProperties
<1>2. \A i \in 1..(Len(s) + Len(t)) : (s \o t)[i] = IF i <= Len(s) THEN s[i] ELSE t[i - Len(s)]
  BY ConcatProperties
<1>3. \A i \in 1..(Len(s) + Len(t)) : i <= Len(s) => (s \o t)[i] = s[i]
  BY <1>2
<1>4. \A i \in 1..(Len(s) + Len(t)) : Len(s) < i => (s \o t)[i] = t[i - Len(s)]
  <2> SUFFICES ASSUME NEW i \in 1..(Len(s) + Len(t)), Len(s) < i PROVE (s \o t)[i] = t[i - Len(s)]
    OBVIOUS
  <2>1. ~(i <= Len(s))
    OBVIOUS
  <2> QED
    BY <2>1, <1>2
<1> QED
  BY <1>1, <1>3, <1>4

\* The transactions of a frame in order: it has one, each is a step, one of them
\* marks the row, and the step that carries the row along with the first message is
\* the only one of its kind and comes before any other that marks.
PlanIsSound(f) ==
    /\ Plan(f) \in Seq(StepSet)
    /\ Len(Plan(f)) \in Nat \ {0}
    /\ \E p \in Steps(f) : Plan(f)[p].op \in {"project", "mark"}
    /\ \A i, j \in Steps(f) :
          Plan(f)[i].op = "project" /\ Plan(f)[j].op \in {"project", "mutate", "mark"} =>
              i < j \/ i = j

\* Every frame's plan is sound (applyEvents' order of transactions).
LEMMA PlanFacts ==
    ASSUME NEW f \in Frames
    PROVE  PlanIsSound(f)
<1> DEFINE d == Decoded[f]
           n == Len(d.messages)
           C == Upserts("write", d.conversations)
           M == MessageSteps(d.messages)
           U == Upserts("mutate", d.mutations)
           X == Bare("follow", d.extras)
           K == Bare("mark", IF n = 0 THEN 1 ELSE 0)
           c == Len(d.conversations)
           u == Len(d.mutations)
           x == d.extras
           k == IF n = 0 THEN 1 ELSE 0
<1>1. /\ d.conversations \in Writes /\ d.messages \in Writes /\ d.mutations \in Writes
      /\ d.extras \in Nat
  BY IngestAssumption
<1>2. c \in Nat /\ n \in Nat /\ u \in Nat /\ x \in Nat /\ k \in Nat
  BY <1>1 DEF Writes
<1>3. Plan(f) = C \o M \o U \o X \o K
  BY DEF Plan, MessageSteps
<1>4. /\ C \in Seq(StepSet) /\ Len(C) = c
      /\ \A i \in 1..c : C[i].op = "write"
  BY <1>1, UpsertsFacts
<1>5. /\ M \in Seq(StepSet) /\ Len(M) = 2 * n
      /\ \A i \in 1..(2 * n) : /\ i = 1 => M[i].op = "project"
                               /\ i # 1 => M[i].op \in {"write", "follow"}
  BY <1>1, MessageFacts
<1>6. /\ U \in Seq(StepSet) /\ Len(U) = u
      /\ \A i \in 1..u : U[i].op = "mutate"
  BY <1>1, UpsertsFacts
<1>7. /\ X \in Seq(StepSet) /\ Len(X) = x
      /\ \A i \in 1..x : X[i].op = "follow"
  BY <1>1, BareFacts
<1>8. /\ K \in Seq(StepSet) /\ Len(K) = k
      /\ \A i \in 1..k : K[i].op = "mark"
  BY <1>2, BareFacts
<1>k. k = (IF n = 0 THEN 1 ELSE 0)
  OBVIOUS
<1> HIDE DEF d, C, M, U, X, K, n, c, u, x, k
<1>9. /\ C \o M \in Seq(StepSet) /\ Len(C \o M) = c + 2 * n
      /\ \A i \in 1..(c + 2 * n) : i <= c => (C \o M)[i] = C[i]
      /\ \A i \in 1..(c + 2 * n) : c < i => (C \o M)[i] = M[i - c]
  <2>1. /\ (C) \o M \in Seq(StepSet)
        /\ Len((C) \o M) = Len(C) + Len(M)
        /\ \A i \in 1..(Len(C) + Len(M)) : i <= Len(C) => ((C) \o M)[i] = (C)[i]
        /\ \A i \in 1..(Len(C) + Len(M)) : Len(C) < i => ((C) \o M)[i] = M[i - Len(C)]
    BY <1>4, <1>5, Joined
  <2> QED
    BY <2>1, <1>4, <1>5
<1>10. /\ C \o M \o U \in Seq(StepSet) /\ Len(C \o M \o U) = c + 2 * n + u
       /\ \A i \in 1..(c + 2 * n + u) : i <= c + 2 * n => (C \o M \o U)[i] = (C \o M)[i]
       /\ \A i \in 1..(c + 2 * n + u) :
             c + 2 * n < i => (C \o M \o U)[i] = U[i - (c + 2 * n)]
  <2>1. /\ (C \o M) \o U \in Seq(StepSet)
        /\ Len((C \o M) \o U) = Len(C \o M) + Len(U)
        /\ \A i \in 1..(Len(C \o M) + Len(U)) : i <= Len(C \o M) => ((C \o M) \o U)[i] = (C \o M)[i]
        /\ \A i \in 1..(Len(C \o M) + Len(U)) : Len(C \o M) < i => ((C \o M) \o U)[i] = U[i - Len(C \o M)]
    BY <1>9, <1>6, Joined
  <2> QED
    BY <2>1, <1>9, <1>6
<1>11. /\ C \o M \o U \o X \in Seq(StepSet) /\ Len(C \o M \o U \o X) = c + 2 * n + u + x
       /\ \A i \in 1..(c + 2 * n + u + x) :
             i <= c + 2 * n + u => (C \o M \o U \o X)[i] = (C \o M \o U)[i]
       /\ \A i \in 1..(c + 2 * n + u + x) :
             c + 2 * n + u < i => (C \o M \o U \o X)[i] = X[i - (c + 2 * n + u)]
  <2>1. /\ (C \o M \o U) \o X \in Seq(StepSet)
        /\ Len((C \o M \o U) \o X) = Len(C \o M \o U) + Len(X)
        /\ \A i \in 1..(Len(C \o M \o U) + Len(X)) : i <= Len(C \o M \o U) => ((C \o M \o U) \o X)[i] = (C \o M \o U)[i]
        /\ \A i \in 1..(Len(C \o M \o U) + Len(X)) : Len(C \o M \o U) < i => ((C \o M \o U) \o X)[i] = X[i - Len(C \o M \o U)]
    BY <1>10, <1>7, Joined
  <2> QED
    BY <2>1, <1>10, <1>7
<1>12. /\ Plan(f) \in Seq(StepSet) /\ Len(Plan(f)) = c + 2 * n + u + x + k
       /\ \A i \in 1..(c + 2 * n + u + x + k) :
             i <= c + 2 * n + u + x => Plan(f)[i] = (C \o M \o U \o X)[i]
       /\ \A i \in 1..(c + 2 * n + u + x + k) :
             c + 2 * n + u + x < i => Plan(f)[i] = K[i - (c + 2 * n + u + x)]
  <2>1. /\ (C \o M \o U \o X) \o K \in Seq(StepSet)
        /\ Len((C \o M \o U \o X) \o K) = Len(C \o M \o U \o X) + Len(K)
        /\ \A i \in 1..(Len(C \o M \o U \o X) + Len(K)) : i <= Len(C \o M \o U \o X) => ((C \o M \o U \o X) \o K)[i] = (C \o M \o U \o X)[i]
        /\ \A i \in 1..(Len(C \o M \o U \o X) + Len(K)) : Len(C \o M \o U \o X) < i => ((C \o M \o U \o X) \o K)[i] = K[i - Len(C \o M \o U \o X)]
    BY <1>11, <1>8, Joined
  <2> QED
    BY <2>1, <1>11, <1>8, <1>3
<1>13. Steps(f) = 1..(c + 2 * n + u + x + k)
  BY <1>12 DEF Steps
<1> DEFINE op(i) == Plan(f)[i].op
<1>14. \A i \in Steps(f) : i <= c => op(i) = "write"
  BY <1>2, <1>k, <1>4, <1>9, <1>10, <1>11, <1>12, <1>13
<1>15. \A i \in Steps(f) : c < i /\ i <= c + 2 * n =>
          /\ i = c + 1 => op(i) = "project"
          /\ i # c + 1 => op(i) \in {"write", "follow"}
  <2> SUFFICES ASSUME NEW i \in Steps(f), c < i, i <= c + 2 * n
               PROVE  /\ i = c + 1 => op(i) = "project"
                      /\ i # c + 1 => op(i) \in {"write", "follow"}
    OBVIOUS
  <2>1. Plan(f)[i] = M[i - c]
    <3>1. i \in 1..(c + 2 * n) /\ i \in 1..(c + 2 * n + u) /\ i \in 1..(c + 2 * n + u + x)
      BY <1>2, <1>13
    <3>0. /\ i \in 1..(c + 2 * n + u + x + k)
          /\ i <= c + 2 * n + u + x
      BY <1>2, <1>13
    <3>2. Plan(f)[i] = (C \o M \o U \o X)[i]
      BY <3>0, <1>12
    <3>a. i <= c + 2 * n + u
      BY <1>2, <1>13
    <3>3. (C \o M \o U \o X)[i] = (C \o M \o U)[i]
      BY <3>1, <3>a, <1>11
    <3>4. (C \o M \o U)[i] = (C \o M)[i]
      BY <3>1, <1>2, <1>10
    <3>5. (C \o M)[i] = M[i - c]
      BY <3>1, <1>2, <1>9
    <3> QED
      BY <3>2, <3>3, <3>4, <3>5
  <2>2. i - c \in 1..(2 * n) /\ (i = c + 1 <=> i - c = 1)
    BY <1>2, <1>k, <1>13
  <2> QED
    BY <2>1, <2>2, <1>5
<1>16. \A i \in Steps(f) : c + 2 * n < i /\ i <= c + 2 * n + u => op(i) = "mutate"
  <2> SUFFICES ASSUME NEW i \in Steps(f), c + 2 * n < i, i <= c + 2 * n + u
               PROVE  op(i) = "mutate"
    OBVIOUS
  <2>1. Plan(f)[i] = U[i - (c + 2 * n)]
    <3>1. i \in 1..(c + 2 * n + u) /\ i \in 1..(c + 2 * n + u + x)
      BY <1>2, <1>13
    <3>0. /\ i \in 1..(c + 2 * n + u + x + k)
          /\ i <= c + 2 * n + u + x
      BY <1>2, <1>13
    <3>2. Plan(f)[i] = (C \o M \o U \o X)[i]
      BY <3>0, <1>12
    <3>a. i <= c + 2 * n + u
      BY <1>2, <1>13
    <3>3. (C \o M \o U \o X)[i] = (C \o M \o U)[i]
      BY <3>1, <3>a, <1>11
    <3>4. (C \o M \o U)[i] = U[i - (c + 2 * n)]
      BY <3>1, <1>2, <1>10
    <3> QED
      BY <3>2, <3>3, <3>4
  <2> QED
    BY <2>1, <1>2, <1>6, <1>13
<1>17. \A i \in Steps(f) : c + 2 * n + u < i /\ i <= c + 2 * n + u + x => op(i) = "follow"
  <2> SUFFICES ASSUME NEW i \in Steps(f), c + 2 * n + u < i, i <= c + 2 * n + u + x
               PROVE  op(i) = "follow"
    OBVIOUS
  <2>1. Plan(f)[i] = X[i - (c + 2 * n + u)]
    <3>1. i \in 1..(c + 2 * n + u + x)
      BY <1>2, <1>13
    <3> QED
      BY <3>1, <1>2, <1>11, <1>12, <1>13
  <2> QED
    BY <2>1, <1>2, <1>7, <1>13
<1>18. \A i \in Steps(f) : c + 2 * n + u + x < i => n = 0 /\ op(i) = "mark"
  <2> SUFFICES ASSUME NEW i \in Steps(f), c + 2 * n + u + x < i
               PROVE  n = 0 /\ op(i) = "mark"
    OBVIOUS
  <2>1. Plan(f)[i] = K[i - (c + 2 * n + u + x)]
    BY <1>2, <1>k, <1>12, <1>13
  <2>2. i - (c + 2 * n + u + x) \in 1..k
    BY <1>2, <1>k, <1>13
  <2>3. n = 0
    BY <2>2, <1>2, <1>k
  <2>4. K[i - (c + 2 * n + u + x)].op = "mark"
    BY <2>2, <1>8
  <2> QED
    BY <2>1, <2>3, <2>4
<1>19. \A i \in Steps(f) : op(i) = "project" => i = c + 1 /\ n # 0
  BY <1>2, <1>k, <1>13, <1>14, <1>15, <1>16, <1>17, <1>18
<1>20. \A j \in Steps(f) : op(j) \in {"project", "mutate", "mark"} => c < j
  BY <1>2, <1>k, <1>13, <1>14
<1>21. Len(Plan(f)) \in Nat \ {0}
  BY <1>2, <1>k, <1>12
<1>22. \E p \in Steps(f) : op(p) \in {"project", "mark"}
  <2>1. CASE n # 0
    <3>1. c + 1 \in Steps(f)
      BY <1>2, <1>k, <1>13, <2>1
    <3> QED
      BY <3>1, <1>2, <1>15, <2>1
  <2>2. CASE n = 0
    <3>1. c + 2 * n + u + x + 1 \in Steps(f)
      BY <1>2, <1>k, <1>13, <2>2
    <3> QED
      BY <3>1, <1>2, <1>18, <2>2
  <2> QED
    BY <2>1, <2>2
<1>23. \A i, j \in Steps(f) :
          op(i) = "project" /\ op(j) \in {"project", "mutate", "mark"} => i < j \/ i = j
  BY <1>2, <1>k, <1>13, <1>19, <1>20
<1> QED
  BY <1>12, <1>21, <1>22, <1>23 DEF PlanIsSound

\* A step that writes names a key and a value.
LEMMA StepFacts ==
    ASSUME NEW f \in Frames, NEW n \in Steps(f)
    PROVE  /\ Plan(f)[n] \in StepSet
           /\ Plan(f)[n].op \in Ops
           /\ Plan(f)[n].op \in {"write", "project", "mutate"} =>
                 Plan(f)[n].key \in Keys /\ Plan(f)[n].value \in Values
<1>1. Plan(f) \in Seq(StepSet) /\ Len(Plan(f)) \in Nat
  BY PlanFacts DEF PlanIsSound
<1>2. Plan(f)[n] \in StepSet
  BY <1>1, ElementOfSeq DEF Steps
<1>3. \A s \in StepSet : /\ s.op \in Ops
                         /\ s.op \in {"write", "project", "mutate"} =>
                               s.key \in Keys /\ s.value \in Values
  BY DEF StepSet, KeyedSteps, BareSteps, Ops
<1> QED
  BY <1>2, <1>3

-----------------------------------------------------------------------------
(* What the worker turns to *)

\* What the invariant says of a worker that has just turned to a frame, or to none.
Placed(w) ==
    /\ w \in WorkerType
    /\ w.pc \in {"apply", "quarantine"} => w.cur \in Frames /\ w.pos = 1
    /\ w.pc = "apply" => Decoded[w.cur].valid
    /\ w.pc = "quarantine" => ~Decoded[w.cur].valid
    /\ w.pc \notin {"apply", "quarantine"} =>
          w.cur = NoFrame /\ w.batch = <<>> /\ w.replay = FALSE

\* A worker without a frame.
LEMMA GoToFacts ==
    ASSUME wk \in WorkerType, NEW place \in {"listing", "waiting", "returned"}
    PROVE  /\ Placed(GoTo(place))
           /\ GoTo(place).pc = place
           /\ GoTo(place).canceled = wk.canceled
           /\ GoTo(place).cur = NoFrame
<1>1. place \in Places
  BY DEF Places
<1>2. <<>> \in Seq(Frames)
  OBVIOUS
<1>3. GoTo(place) \in WorkerType
  BY <1>1, <1>2 DEF GoTo, WorkerType
<1>4. /\ GoTo(place).pc = place /\ GoTo(place).canceled = wk.canceled
      /\ GoTo(place).cur = NoFrame /\ GoTo(place).batch = <<>> /\ GoTo(place).replay = FALSE
  BY DEF GoTo, WorkerType
<1> QED
  BY <1>3, <1>4 DEF Placed

\* A worker that begins a frame.
LEMMA HandleFacts ==
    ASSUME wk \in WorkerType, NEW f \in Frames, NEW replay \in BOOLEAN, NEW rest \in Seq(Frames)
    PROVE  /\ Placed(Handle(f, replay, rest))
           /\ Handle(f, replay, rest).pc \in {"apply", "quarantine"}
           /\ Handle(f, replay, rest).canceled = wk.canceled
           /\ Handle(f, replay, rest).cur = f
           /\ Handle(f, replay, rest).replay = replay
           /\ Handle(f, replay, rest).batch = rest
<1> DEFINE place == IF Decoded[f].valid THEN "apply" ELSE "quarantine"
<1>1. place \in Places
  BY DEF Places
<1>2. Handle(f, replay, rest) \in WorkerType
  BY <1>1 DEF Handle, WorkerType
<1>3. /\ Handle(f, replay, rest).pc = place
      /\ Handle(f, replay, rest).canceled = wk.canceled
      /\ Handle(f, replay, rest).cur = f
      /\ Handle(f, replay, rest).replay = replay
      /\ Handle(f, replay, rest).batch = rest
      /\ Handle(f, replay, rest).pos = 1
  BY DEF Handle, WorkerType
<1> QED
  BY <1>2, <1>3 DEF Placed

\* A worker that begins the first of some frames has the others before it.
LEMMA HandleFirst ==
    ASSUME wk \in WorkerType, NEW q \in Seq(Frames), q # <<>>
    PROVE  LET h == Handle(Head(q), FALSE, Tail(q))
           IN  /\ Placed(h) /\ h.canceled = wk.canceled
               /\ h.pc \in {"apply", "quarantine"}
               /\ \A i \in 1..Len(q) :
                     h.cur = q[i] \/ \E j \in 1..Len(h.batch) : h.batch[j] = q[i]
<1> DEFINE first == Head(q)
           rest  == Tail(q)
<1>1. /\ first \in Frames /\ rest \in Seq(Frames) /\ Len(rest) = Len(q) - 1
      /\ \A i \in 1..Len(rest) : rest[i] = q[i + 1]
  BY HeadTailProperties
<1>2. first = q[1] /\ Len(q) \in Nat
  OBVIOUS
<1>3. FALSE \in BOOLEAN
  OBVIOUS
<1>4. first \in Frames /\ rest \in Seq(Frames)
  BY <1>1
<1> HIDE DEF first, rest
<1>5. /\ Placed(Handle(first, FALSE, rest))
      /\ Handle(first, FALSE, rest).pc \in {"apply", "quarantine"}
      /\ Handle(first, FALSE, rest).canceled = wk.canceled
      /\ Handle(first, FALSE, rest).cur = first
      /\ Handle(first, FALSE, rest).replay = FALSE
      /\ Handle(first, FALSE, rest).batch = rest
  BY <1>3, <1>4, HandleFacts, Zenon
<1>6. ASSUME NEW i \in 1..Len(q), first # q[i] PROVE \E j \in 1..Len(rest) : rest[j] = q[i]
  <2>1. i - 1 \in 1..Len(rest)
    BY <1>1, <1>2, <1>6
  <2>2. rest[i - 1] = q[i]
    BY <1>1, <2>1
  <2> QED
    BY <2>1, <2>2
<1> QED
  BY <1>5, <1>6 DEF first, rest

\* What follows a frame that has been handled: the worker keeps its cancelation,
\* and whatever it was to read beside that frame it is to read still.
LEMMA NextRecordFacts ==
    ASSUME wk \in WorkerType, wk.pc \in {"apply", "quarantine"}
    PROVE  /\ Placed(NextRecord)
           /\ NextRecord.canceled = wk.canceled
           /\ \A f \in Frames : Covers(wk, f) /\ f # Cur => Covers(NextRecord, f)
<1>1. CASE wk.replay = TRUE
  <2>1. NextRecord = GoTo("listing")
    BY <1>1 DEF NextRecord
  <2> QED
    BY <2>1, GoToFacts DEF Covers
<1>2. CASE wk.replay = FALSE /\ (wk.canceled = TRUE \/ wk.batch = <<>>)
  <2>1. NextRecord = GoTo("waiting")
    BY <1>2 DEF NextRecord
  <2>2. ASSUME NEW f \in Frames, Covers(wk, f), f # Cur PROVE wk.canceled = TRUE
    BY <1>2, <2>2 DEF Covers, Cur
  <2> QED
    BY <2>1, <2>2, GoToFacts DEF Covers
<1>3. CASE wk.replay = FALSE /\ wk.canceled = FALSE /\ wk.batch # <<>>
  <2>1. NextRecord = Handle(Head(wk.batch), FALSE, Tail(wk.batch))
    BY <1>3 DEF NextRecord
  <2>2. wk.batch \in Seq(Frames)
    BY DEF WorkerType
  <2>3. /\ Placed(NextRecord) /\ NextRecord.canceled = wk.canceled
        /\ NextRecord.pc \in {"apply", "quarantine"}
        /\ \A i \in 1..Len(wk.batch) :
              \/ NextRecord.cur = wk.batch[i]
              \/ \E j \in 1..Len(NextRecord.batch) : NextRecord.batch[j] = wk.batch[i]
    BY <2>1, <2>2, <1>3, HandleFirst
  <2>4. ASSUME NEW f \in Frames, Covers(wk, f), f # Cur PROVE Covers(NextRecord, f)
    <3>1. PICK i \in 1..Len(wk.batch) : wk.batch[i] = f
      BY <1>3, <2>4 DEF Covers, Cur
    <3> QED
      BY <2>3, <3>1 DEF Covers
  <2> QED
    BY <2>3, <2>4
<1> QED
  BY <1>1, <1>2, <1>3 DEF WorkerType

\* A snapshot is a sequence of frames that holds every row that waits.
LEMMA SnapshotFacts ==
    ASSUME NEW q \in Snapshots
    PROVE  /\ q \in Seq(Frames)
           /\ \A f \in Pending : \E i \in 1..Len(q) : q[i] = f
<1> DEFINE n == Cardinality(Pending)
<1>1. IsFiniteSet(Pending) /\ n \in Nat
  <2>1. Pending \in SUBSET Frames
    BY DEF Pending
  <2>2. IsFiniteSet(Pending)
    BY <2>1, IngestAssumption, FS_Subset
  <2> QED
    BY <2>2, FS_CardinalityType
<1>2. q \in [1..n -> Pending] /\ \A j, k \in DOMAIN q : j < k => q[j] # q[k]
  BY DEF Snapshots
<1> HIDE DEF n
<1>3. q \in Seq(Frames) /\ Len(q) = n
  <2>1. q \in [1..n -> Frames]
    BY <1>2 DEF Pending
  <2> QED
    BY <2>1, <1>1
<1>4. \A j, k \in 1..n : q[j] = q[k] => j = k
  <2> SUFFICES ASSUME NEW j \in 1..n, NEW k \in 1..n, q[j] = q[k] PROVE j = k
    OBVIOUS
  <2>1. ~(j < k) /\ ~(k < j)
    BY <1>2
  <2> QED
    BY <2>1, <1>1
<1>5. q \in Injection(1..n, Pending)
  BY <1>2, <1>4 DEF Injection, IsInjective
<1>6. Cardinality(1..n) = n
  <2>1. 1 \in Int /\ n \in Int
    BY <1>1
  <2>2. Cardinality(1..n) = IF 1 > n THEN 0 ELSE n - 1 + 1
    BY <2>1, FS_Interval
  <2> QED
    BY <2>2, <1>1
<1>7. q \in Surjection(1..n, Pending)
  BY <1>1, <1>5, <1>6, FS_Injection DEF n
<1> QED
  BY <1>3, <1>7 DEF Surjection

-----------------------------------------------------------------------------
(* Types *)

\* An empty inbox has its types, and a worker that has not begun is sound.
LEMMA TypesBegin ==
    Init => IngestTypeOK /\ Placed(wk)
<1> SUFFICES ASSUME Init PROVE IngestTypeOK /\ Placed(wk)
  OBVIOUS
<1>1. Off \in WorkerType /\ Placed(Off)
  <2>1. "off" \in Places /\ <<>> \in Seq(Frames)
    BY DEF Places
  <2>2. Off \in WorkerType
    BY <2>1 DEF Off, WorkerType
  <2> QED
    BY <2>2 DEF Placed, Off
<1>2. inbox \in [Frames -> RowType] /\ clock \in Nat /\ delivered \in [Frames -> Nat]
  BY DEF Init, RowType
<1>3. notifying \subseteq Item /\ queue \in Seq(Item)
  BY DEF Init
<1>4. store \in [Keys -> Values \cup {NoValue}] /\ faults \in Nat /\ stops \in Nat
  BY DEF Init
<1>5. log \in LogType
  BY DEF Init, LogType
<1> QED
  BY <1>1, <1>2, <1>3, <1>4, <1>5 DEF IngestTypeOK, Init

\* A worker that has just turned to a frame, or to none, is sound.
LEMMA PlacedWorks ==
    ASSUME Placed(wk')
    PROVE  WorkOK'
<1>1. CASE wk'.pc = "apply"
  <2>1. wk'.cur \in Frames /\ wk'.pos = 1 /\ Decoded[wk'.cur].valid
    BY <1>1 DEF Placed
  <2>2. 1 \in Steps(wk'.cur)
    BY <2>1, PlanFacts DEF PlanIsSound, Steps
  <2>3. 1..(wk'.pos - 1) = {}
    BY <2>1
  <2> QED
    BY <1>1, <2>1, <2>2, <2>3 DEF WorkOK, Cur
<1>2. CASE wk'.pc # "apply"
  BY <1>2 DEF Placed, WorkOK, Cur
<1> QED
  BY <1>1, <1>2

\* What a step leaves under the keys is content, or nothing.
LEMMA StoredFacts ==
    ASSUME IngestTypeOK, WorkOK, wk.pc = "apply"
    PROVE  Stored(Step, store) \in [Keys -> Values \cup {NoValue}]
<1>1. Step.op \in {"write", "project", "mutate"} => Step.key \in Keys /\ Step.value \in Values
  BY StepFacts DEF WorkOK, Step
<1>2. store \in [Keys -> Values \cup {NoValue}]
  BY DEF IngestTypeOK
<1> DEFINE s == Step
           new == [store EXCEPT ![s.key] = s.value]
<1>3. s.op \in {"write", "project", "mutate"} => new \in [Keys -> Values \cup {NoValue}]
  BY <1>1, <1>2
<1>4. Stored(s, store) \in {new, store}
  BY DEF Stored
<1>5. Stored(s, store) = store \/ s.op \in {"write", "project", "mutate"}
  BY DEF Stored
<1> QED
  BY <1>2, <1>3, <1>4, <1>5

\* What befell a frame is noted, and nothing else of the history changes.
LEMMA BefallsFacts ==
    ASSUME log \in LogType, NEW f \in Frames,
           NEW what \in {"exhausted", "failed", "stopped", "unlisted"}
    PROVE  /\ Befalls(f, what) \in LogType
           /\ Befalls(f, what).done = log.done
           /\ Befalls(f, what).quarantined = log.quarantined
           /\ \A g \in Frames :
                 Befalls(f, what).hit[g] = IF g = f THEN log.hit[f] \cup {what} ELSE log.hit[g]
  BY DEF Befalls, LogType

\* A transaction of a frame adds its step to the history of the frame.
LEMMA ApplyLog ==
    ASSUME IngestTypeOK, WorkOK, ApplyStep
    PROVE  /\ log' \in LogType
           /\ log'.hit = log.hit /\ log'.quarantined = log.quarantined
           /\ \A g \in Frames :
                 log'.done[g] = IF g = Cur THEN log.done[Cur] \cup {wk.pos} ELSE log.done[g]
<1> DEFINE r == IF wk.pos \in log.done[Cur] THEN log.replaced
                ELSE [k \in Keys |-> IF store'[k] = store[k] THEN log.replaced[k]
                                     ELSE (log.replaced[k] \cup {store[k]}) \ {store'[k], NoValue}]
<1>1. wk.pc = "apply" /\ Cur \in Frames /\ wk.pos \in Nat
  BY DEF ApplyStep, WorkOK, Steps, IngestTypeOK, WorkerType
<1>2. store \in [Keys -> Values \cup {NoValue}] /\ log \in LogType
  BY DEF IngestTypeOK
<1>3. r \in [Keys -> SUBSET Values]
  <2>1. log.replaced \in [Keys -> SUBSET Values]
    BY <1>2 DEF LogType
  <2>2. \A k \in Keys : (log.replaced[k] \cup {store[k]}) \ {store'[k], NoValue} \in SUBSET Values
    BY <2>1, <1>2
  <2>3. [k \in Keys |-> IF store'[k] = store[k] THEN log.replaced[k]
                        ELSE (log.replaced[k] \cup {store[k]}) \ {store'[k], NoValue}]
            \in [Keys -> SUBSET Values]
    BY <2>1, <2>2
  <2> QED
    BY <2>1, <2>3
<1>4. log' = [log EXCEPT !.done[Cur] = log.done[Cur] \cup {wk.pos}, !.replaced = r]
  BY <1>2 DEF ApplyStep, LogType
<1> HIDE DEF r
<1>5. log.done[Cur] \cup {wk.pos} \in SUBSET Nat
  BY <1>1, <1>2 DEF LogType
<1> QED
  BY <1>1, <1>2, <1>3, <1>4, <1>5 DEF LogType

\* A transaction that is not the last of its frame.
LEMMA ApplyAdvances ==
    ASSUME IngestTypeOK, WorkOK, ApplyStep, wk.pos < Len(Plan(Cur))
    PROVE  /\ wk' \in WorkerType
           /\ wk'.pc = "apply" /\ wk'.cur = Cur /\ wk'.pos = wk.pos + 1
           /\ wk'.batch = wk.batch /\ wk'.replay = wk.replay /\ wk'.canceled = wk.canceled
<1>1. wk \in WorkerType /\ wk.pc = "apply" /\ wk.pos + 1 \in Nat
  BY DEF ApplyStep, IngestTypeOK, WorkerType
<1>2. wk' = [wk EXCEPT !.pos = wk.pos + 1]
  BY <1>1 DEF ApplyStep, WorkerType
<1> QED
  BY <1>1, <1>2 DEF WorkerType, Cur

\* Every step keeps the types and the soundness of what the worker works on.
LEMMA TypesKept ==
    ASSUME IngestTypeOK, WorkOK, Next
    PROVE  IngestTypeOK' /\ WorkOK'
<1>0. wk \in WorkerType /\ log \in LogType /\ queue \in Seq(Item)
      /\ inbox \in [Frames -> RowType] /\ faults \in Nat /\ stops \in Nat
      /\ clock \in Nat /\ delivered \in [Frames -> Nat] /\ notifying \subseteq Item
  BY DEF IngestTypeOK
<1>1. wk.pc \in {"apply", "quarantine"} => Cur \in Frames
  BY DEF WorkOK
<1>2. \A s \in {"absent", "pending", "processed"} : \A f \in Frames :
          [inbox EXCEPT ![f].status = s] \in [Frames -> RowType]
  BY <1>0 DEF RowType
<1>3. CASE List
  <2>1. PICK q \in Snapshots :
            wk' = IF q = <<>> THEN GoTo("waiting") ELSE Handle(Head(q), FALSE, Tail(q))
    BY <1>3 DEF List
  <2>2. q \in Seq(Frames)
    BY SnapshotFacts
  <2>3. Placed(wk')
    <3>1. CASE q = <<>>
      BY <3>1, <2>1, <1>0, GoToFacts
    <3>2. CASE q # <<>>
      BY <1>0, <2>1, <2>2, <3>2, HandleFirst
    <3> QED
      BY <3>1, <3>2
  <2> QED
    BY <1>3, <2>3, PlacedWorks DEF List, IngestTypeOK, Placed
<1>4. CASE Receive
  <2>1. Head(queue) \in Item /\ Tail(queue) \in Seq(Item)
    BY <1>0, <1>4, HeadTailProperties DEF Receive
  <2>2. Head(queue).frame \in Frames /\ TRUE \in BOOLEAN /\ <<>> \in Seq(Frames)
    BY <2>1 DEF Item
  <2>3. Placed(Handle(Head(queue).frame, TRUE, <<>>))
    BY <2>2, <1>0, HandleFacts, Zenon
  <2>4. Placed(wk')
    BY <2>3, <1>0, <1>4, GoToFacts DEF Receive
  <2> QED
    BY <1>4, <2>1, <2>4, PlacedWorks DEF Receive, IngestTypeOK, Placed
<1>5. CASE ApplyStep
  <2>1. wk.pc = "apply" /\ wk.pos \in Steps(Cur) /\ Cur \in Frames
    BY <1>5 DEF ApplyStep, WorkOK
  <2>2. store' \in [Keys -> Values \cup {NoValue}]
    BY <1>5, <2>1, StoredFacts DEF ApplyStep
  <2>3. inbox' \in [Frames -> RowType]
    BY <1>0, <1>2, <1>5, <2>1 DEF ApplyStep
  <2>4. log' \in LogType
    BY <1>5, ApplyLog
  <2>5. wk' \in WorkerType /\ WorkOK'
    <3>1. CASE wk.pos < Len(Plan(Cur))
      <4>1. /\ wk' \in WorkerType
            /\ wk'.pc = "apply" /\ wk'.cur = Cur /\ wk'.pos = wk.pos + 1
        BY <1>5, <3>1, ApplyAdvances
      <4>2. Len(Plan(Cur)) \in Nat /\ wk.pos \in Nat \ {0} /\ wk.pos + 1 \in Steps(Cur)
        BY <2>1, <3>1, PlanFacts DEF PlanIsSound, Steps
      <4>3. 1..(wk.pos - 1) \subseteq log.done[Cur] /\ Decoded[Cur].valid
        BY <2>1 DEF WorkOK
      <4>4. log'.done[Cur] = log.done[Cur] \cup {wk.pos}
        BY <1>5, <2>1, ApplyLog
      <4>5. 1..(wk'.pos - 1) \subseteq log'.done[Cur]
        BY <4>1, <4>2, <4>3, <4>4
      <4> QED
        BY <4>1, <4>2, <4>3, <4>5, <2>1 DEF WorkOK, Cur
    <3>2. CASE ~(wk.pos < Len(Plan(Cur)))
      <4>1. Placed(wk')
        BY <1>0, <1>5, <2>1, <3>2, NextRecordFacts DEF ApplyStep
      <4> QED
        BY <4>1, PlacedWorks DEF Placed
    <3> QED
      BY <3>1, <3>2
  <2> QED
    BY <1>5, <2>2, <2>3, <2>4, <2>5 DEF ApplyStep, IngestTypeOK
<1>6. CASE StaleReplay
  <2>1. Placed(wk')
    BY <1>0, <1>6, NextRecordFacts DEF StaleReplay
  <2> QED
    BY <1>6, <2>1, PlacedWorks DEF StaleReplay, IngestTypeOK, Placed
<1>7. CASE Quarantine
  <2>1. Placed(wk') /\ Cur \in Frames
    BY <1>0, <1>1, <1>7, NextRecordFacts DEF Quarantine
  <2>2. inbox' \in [Frames -> RowType]
    BY <1>2, <1>7, <2>1 DEF Quarantine
  <2>3. log' \in LogType
    BY <1>0, <1>7, <2>1 DEF Quarantine, LogType
  <2> QED
    BY <1>7, <2>1, <2>2, <2>3, PlacedWorks DEF Quarantine, IngestTypeOK, Placed
<1>8. CASE Abort
  <2>1. Placed(wk')
    BY <1>0, <1>8, NextRecordFacts, GoToFacts DEF Abort
  <2>2. log' \in LogType
    BY <1>0, <1>1, <1>8, BefallsFacts DEF Abort
  <2> QED
    BY <1>8, <2>1, <2>2, PlacedWorks DEF Abort, IngestTypeOK, Placed
<1>9. CASE Return
  <2>1. Placed(wk')
    BY <1>0, <1>9, GoToFacts DEF Return
  <2> QED
    BY <1>9, <2>1, PlacedWorks DEF Return, IngestTypeOK, Placed
<1>10. CASE Exit \/ Crash \/ Start
  <2>1. Placed(wk')
    <3>1. /\ "off" \in Places /\ "listing" \in Places /\ <<>> \in Seq(Frames)
      BY DEF Places
    <3>2. Off \in WorkerType /\ [Off EXCEPT !.pc = "listing"] \in WorkerType
      BY <3>1 DEF Off, WorkerType
    <3>3. Placed(Off) /\ Placed([Off EXCEPT !.pc = "listing"])
      BY <3>2 DEF Placed, Off
    <3> QED
      BY <3>3, <1>10 DEF Exit, Crash, Start
  <2>2. log' \in LogType
    <3>1. Cur \in Frames \cup {NoFrame}
      BY <1>0 DEF WorkerType, Cur
    <3> QED
      BY <1>0, <1>10, <3>1, BefallsFacts DEF Exit, Crash, Start
  <2>3. <<>> \in Seq(Item) /\ {} \subseteq Item
    OBVIOUS
  <2>4. queue' \in Seq(Item) /\ notifying' \subseteq Item
    BY <1>0, <1>10, <2>3 DEF Exit, Crash, Start
  <2>5. stops' \in Nat
    BY <1>0, <1>10 DEF Exit, Crash, Start
  <2> QED
    BY <1>10, <2>1, <2>2, <2>4, <2>5, PlacedWorks DEF Exit, Crash, Start, IngestTypeOK, Placed
<1>11. CASE Notify
  <2>1. PICK item \in notifying : queue' = IF Len(queue) < QueueCapacity THEN Append(queue, item) ELSE queue
    BY <1>11 DEF Notify
  <2>2. item \in Item
    BY <1>0
  <2>3. queue' \in Seq(Item) /\ notifying' \subseteq Item
    BY <1>0, <1>11, <2>1, <2>2 DEF Notify
  <2> QED
    BY <1>11, <2>3 DEF Notify, IngestTypeOK, WorkOK, Cur
<1>12. CASE ListFails
  <2>1. Placed(wk')
    BY <1>0, <1>12, GoToFacts DEF ListFails
  <2>2. faults' \in Nat
    BY <1>0, <1>12 DEF ListFails, Fault
  <2>3. log' \in LogType
    <3> DEFINE h == [f \in Frames |-> IF f \in Pending THEN log.hit[f] \cup {"unlisted"}
                                     ELSE log.hit[f]]
    <3>1. h \in [Frames -> SUBSET {"exhausted", "failed", "stopped", "unlisted"}]
      BY <1>0 DEF LogType
    <3>2. log' = [log EXCEPT !.hit = h]
      BY <1>0, <1>12 DEF ListFails, LogType
    <3> HIDE DEF h
    <3> QED
      BY <1>0, <3>1, <3>2 DEF LogType
  <2> QED
    BY <1>12, <2>1, <2>2, <2>3, PlacedWorks DEF ListFails, IngestTypeOK, Placed
<1>13. CASE Busy
  <2>0. faults' \in Nat
    BY <1>0, <1>13 DEF Busy, Fault
  <2>1. wk' \in WorkerType
    <3>1. wk.tries + 1 \in Nat /\ 1 \in Nat /\ wk' = [wk EXCEPT !.tries = wk.tries + 1, !.pos = 1]
      BY <1>0, <1>13 DEF Busy, WorkerType
    <3> QED
      BY <1>0, <3>1 DEF WorkerType
  <2>2. /\ wk'.pc = wk.pc /\ wk'.cur = wk.cur /\ wk'.pos = 1
        /\ wk'.batch = wk.batch /\ wk'.replay = wk.replay
    BY <1>0, <1>13 DEF Busy, WorkerType
  <2>3. Cur \in Frames /\ 1 \in Steps(Cur)
    BY <1>1, <1>13, PlanFacts DEF Busy, PlanIsSound, Steps
  <2>4. 1..(wk'.pos - 1) = {} /\ log' = log
    BY <2>2, <1>13 DEF Busy
  <2>5. WorkOK'
    BY <2>2, <2>3, <2>4 DEF WorkOK, Cur
  <2> QED
    BY <1>13, <2>0, <2>1, <2>5 DEF Busy, IngestTypeOK
<1>14. CASE Exhausted
  <2>1. Placed(wk') /\ faults' \in Nat
    BY <1>0, <1>14, NextRecordFacts DEF Exhausted, Fault
  <2>2. log' \in LogType
    BY <1>0, <1>1, <1>14, BefallsFacts DEF Exhausted
  <2> QED
    BY <1>14, <2>1, <2>2, PlacedWorks DEF Exhausted, IngestTypeOK, Placed
<1>15. CASE Failed
  <2>0. faults' \in Nat
    BY <1>0, <1>15 DEF Failed, Fault
  <2>1. /\ log' \in LogType /\ Cur \in Frames
        /\ log'.hit[Cur] = log.hit[Cur] \cup {"failed"}
    <3>1. Cur \in Frames /\ log' = Befalls(Cur, "failed")
      BY <1>1, <1>15 DEF Failed
    <3>2. "failed" \in {"exhausted", "failed", "stopped", "unlisted"}
      OBVIOUS
    <3> QED
      BY <1>0, <3>1, <3>2, BefallsFacts
  <2>2. wk' \in WorkerType /\ WorkOK'
    <3>1. CASE wk.pc = "apply"
      <4>1. "quarantine" \in Places
        BY DEF Places
      <4>2. wk' = [wk EXCEPT !.pc = "quarantine", !.pos = 1, !.tries = 0]
        BY <1>15, <3>1 DEF Failed
      <4>3. wk' \in WorkerType /\ wk'.pc = "quarantine" /\ wk'.cur = Cur
        BY <1>0, <4>1, <4>2 DEF WorkerType, Cur
      <4>4. "failed" \in log'.hit[wk'.cur]
        BY <4>3, <2>1
      <4> QED
        BY <4>3, <4>4, <2>1 DEF WorkOK, Cur
    <3>2. CASE wk.pc = "quarantine"
      <4>1. Placed(wk')
        BY <1>0, <1>15, <3>2, NextRecordFacts DEF Failed
      <4> QED
        BY <4>1, PlacedWorks DEF Placed
    <3> QED
      BY <3>1, <3>2, <1>15 DEF Failed
  <2> QED
    BY <1>15, <2>0, <2>1, <2>2 DEF Failed, IngestTypeOK
<1>16. CASE Shutdown
  <2>0. stops' \in Nat
    BY <1>0, <1>16 DEF Shutdown
  <2>1. /\ wk' \in WorkerType
        /\ wk'.pc = wk.pc /\ wk'.cur = wk.cur /\ wk'.pos = wk.pos
        /\ wk'.batch = wk.batch /\ wk'.replay = wk.replay
    BY <1>0, <1>16 DEF Shutdown, WorkerType
  <2> QED
    BY <1>16, <2>0, <2>1 DEF Shutdown, IngestTypeOK, WorkOK, Cur
<1>17. CASE \E f \in Frames : AppendIngress(f)
  <2>1. PICK f \in Frames : AppendIngress(f)
    BY <1>17
  <2>2. delivered' \in [Frames -> Nat]
    BY <1>0, <2>1 DEF AppendIngress
  <2>3. inbox' \in [Frames -> RowType] /\ clock' \in Nat
    BY <1>0, <2>1 DEF AppendIngress, RowType
  <2>4. [frame |-> f, replay |-> FALSE] \in Item /\ [frame |-> f, replay |-> TRUE] \in Item
    BY DEF Item
  <2>5. notifying' \subseteq Item
    BY <1>0, <2>1, <2>4 DEF AppendIngress
  <2> QED
    BY <2>1, <2>2, <2>3, <2>5 DEF AppendIngress, IngestTypeOK, WorkOK, Cur
<1> QED
  BY <1>3, <1>4, <1>5, <1>6, <1>7, <1>8, <1>9, <1>10, <1>11, <1>12, <1>13, <1>14, <1>15,
     <1>16, <1>17 DEF Next, WorkerStep

-----------------------------------------------------------------------------
(* The rows and the steps of their frames *)

\* Only a transaction of a frame writes content or adds to what the frame has done,
\* and no row that is processed waits again.
LEMMA OnlyApplyWrites ==
    ASSUME IngestTypeOK, WorkOK, Next, ~ApplyStep
    PROVE  /\ store' = store /\ log'.done = log.done
           /\ \A f \in Frames : inbox[f].status = "processed" => inbox'[f].status = "processed"
<1>0. wk \in WorkerType /\ log \in LogType /\ inbox \in [Frames -> RowType]
  BY DEF IngestTypeOK
<1>1. wk.pc \in {"apply", "quarantine"} => Cur \in Frames
  BY DEF WorkOK
<1>2. CASE List \/ Receive \/ StaleReplay \/ Return \/ Exit \/ Notify \/ Start \/ Busy \/ Shutdown
  BY <1>2 DEF List, Receive, StaleReplay, Return, Exit, Notify, Start, Busy, Shutdown
<1>3. CASE Quarantine
  <2>1. log'.done = log.done
    BY <1>0, <1>3 DEF Quarantine, LogType
  <2>2. inbox' = [inbox EXCEPT ![Cur].status = "processed"] /\ store' = store
    BY <1>3 DEF Quarantine
  <2>3. \A f \in Frames : inbox'[f] = IF f = Cur THEN [inbox[f] EXCEPT !.status = "processed"]
                                      ELSE inbox[f]
    BY <1>0, <2>2
  <2>4. \A f \in Frames : inbox[f].status = "processed" => inbox'[f].status = "processed"
    BY <1>0, <2>3 DEF RowType
  <2> QED
    BY <2>1, <2>2, <2>4
<1>4. CASE Abort \/ Exhausted \/ Failed \/ Crash
  <2>1. log' = log \/ \E what \in {"exhausted", "failed", "stopped", "unlisted"} :
                         log' = Befalls(Cur, what)
    BY <1>4 DEF Abort, Exhausted, Failed, Crash
  <2>2. log'.done = log.done
    BY <1>0, <2>1 DEF Befalls, LogType
  <2> QED
    BY <1>4, <2>2 DEF Abort, Exhausted, Failed, Crash
<1>5. CASE ListFails
  <2>1. log'.done = log.done
    BY <1>0, <1>5 DEF ListFails, LogType
  <2> QED
    BY <1>5, <2>1 DEF ListFails
<1>6. CASE \E f \in Frames : AppendIngress(f)
  <2>1. PICK f \in Frames : AppendIngress(f)
    BY <1>6
  <2>2. \A g \in Frames : inbox[g].status = "processed" => inbox'[g] = inbox[g]
    BY <1>0, <2>1 DEF AppendIngress
  <2> QED
    BY <2>1, <2>2 DEF AppendIngress
<1> QED
  BY <1>2, <1>3, <1>4, <1>5, <1>6 DEF Next, WorkerStep

\* A transaction of a frame marks the row when it is of a kind that marks, and
\* touches no other row.
LEMMA ApplyRows ==
    ASSUME IngestTypeOK, WorkOK, ApplyStep
    PROVE  /\ Cur \in Frames /\ wk.pos \in Steps(Cur) /\ Step = Plan(Cur)[wk.pos]
           /\ Step.op \in {"project", "mutate", "mark"} => inbox'[Cur].status = "processed"
           /\ Step.op \notin {"project", "mutate", "mark"} => inbox' = inbox
           /\ \A g \in Frames : g # Cur => inbox'[g] = inbox[g]
           /\ inbox[Cur].status = "processed" => inbox'[Cur].status = "processed"
<1>0. inbox \in [Frames -> RowType]
  BY DEF IngestTypeOK
<1>1. Cur \in Frames /\ wk.pos \in Steps(Cur) /\ Step = Plan(Cur)[wk.pos]
  BY DEF ApplyStep, WorkOK, Step
<1>2. CASE Step.op \in {"project", "mutate", "mark"}
  <2>1. inbox' = [inbox EXCEPT ![Cur].status = "processed"]
    BY <1>2 DEF ApplyStep
  <2> QED
    BY <1>0, <1>1, <1>2, <2>1 DEF RowType
<1>3. CASE Step.op \notin {"project", "mutate", "mark"}
  BY <1>1, <1>3 DEF ApplyStep
<1> QED
  BY <1>1, <1>2, <1>3

\* The rows follow the steps.
LEMMA MarksKept ==
    ASSUME IngestTypeOK, WorkOK, MarkOK, Next
    PROVE  MarkOK'
<1>1. CASE ApplyStep
  <2>1. /\ Cur \in Frames /\ wk.pos \in Steps(Cur) /\ Step = Plan(Cur)[wk.pos]
        /\ Step.op \in {"project", "mutate", "mark"} => inbox'[Cur].status = "processed"
        /\ \A g \in Frames : g # Cur => inbox'[g] = inbox[g]
        /\ inbox[Cur].status = "processed" => inbox'[Cur].status = "processed"
    BY <1>1, ApplyRows
  <2>2. \A g \in Frames :
            log'.done[g] = IF g = Cur THEN log.done[Cur] \cup {wk.pos} ELSE log.done[g]
    BY <1>1, ApplyLog
  <2> SUFFICES ASSUME NEW f \in Frames
               PROVE  /\ log'.done[f] \subseteq Steps(f)
                      /\ \A n \in log'.done[f] :
                            Plan(f)[n].op \in {"project", "mutate", "mark"} =>
                                inbox'[f].status = "processed"
    BY DEF MarkOK
  <2>3. /\ log.done[f] \subseteq Steps(f)
        /\ \A n \in log.done[f] :
              Plan(f)[n].op \in {"project", "mutate", "mark"} => inbox[f].status = "processed"
    BY DEF MarkOK
  <2>4. CASE f = Cur
    BY <2>1, <2>2, <2>3, <2>4
  <2>5. CASE f # Cur
    BY <2>1, <2>2, <2>3, <2>5
  <2> QED
    BY <2>4, <2>5
<1>2. CASE ~ApplyStep
  BY <1>2, OnlyApplyWrites DEF MarkOK
<1> QED
  BY <1>1, <1>2

\* A frame all of whose transactions took effect is marked.
LEMMA DoneIsMarked ==
    ASSUME MarkOK, NEW f \in Frames, log.done[f] = Steps(f)
    PROVE  inbox[f].status = "processed"
<1>1. PICK p \in Steps(f) : Plan(f)[p].op \in {"project", "mark"}
  BY PlanFacts DEF PlanIsSound
<1> QED
  BY <1>1 DEF MarkOK

\* The last transaction of a frame completes it.
LEMMA LastCompletes ==
    ASSUME IngestTypeOK, WorkOK, MarkOK, ApplyStep, ~(wk.pos < Len(Plan(Cur)))
    PROVE  log'.done[Cur] = Steps(Cur)
<1>1. /\ Cur \in Frames /\ wk.pos \in Steps(Cur) /\ 1..(wk.pos - 1) \subseteq log.done[Cur]
  BY DEF ApplyStep, WorkOK
<1>2. Len(Plan(Cur)) \in Nat /\ wk.pos = Len(Plan(Cur))
  BY <1>1, PlanFacts DEF PlanIsSound, Steps
<1>3. log'.done[Cur] = log.done[Cur] \cup {wk.pos} /\ log.done[Cur] \subseteq Steps(Cur)
  BY <1>1, ApplyLog DEF MarkOK
<1>4. Steps(Cur) = 1..wk.pos /\ wk.pos \in Nat
  BY <1>2 DEF Steps
<1> QED
  BY <1>1, <1>3, <1>4

-----------------------------------------------------------------------------
(* Verdicts on a frame *)

\* What befell a frame is never taken back, and only the quarantine gives one up.
LEMMA HistoryGrows ==
    ASSUME IngestTypeOK, WorkOK, Next, ~Quarantine
    PROVE  /\ log'.quarantined = log.quarantined
           /\ \A f \in Frames : log.hit[f] \subseteq log'.hit[f]
<1>0. wk \in WorkerType /\ log \in LogType
  BY DEF IngestTypeOK
<1>1. CASE ApplyStep
  BY <1>1, ApplyLog
<1>2. CASE Abort \/ Exhausted \/ Failed \/ Crash
  <2>1. log' = log \/ \E what \in {"exhausted", "failed", "stopped", "unlisted"} :
                         Cur \in Frames /\ log' = Befalls(Cur, what)
    <3>1. Cur \in Frames \cup {NoFrame}
      BY <1>0 DEF WorkerType, Cur
    <3> QED
      BY <1>2, <3>1 DEF Abort, Exhausted, Failed, Crash, WorkOK
  <2>2. ASSUME NEW what \in {"exhausted", "failed", "stopped", "unlisted"},
               Cur \in Frames, log' = Befalls(Cur, what)
        PROVE  /\ log'.quarantined = log.quarantined
               /\ \A f \in Frames : log.hit[f] \subseteq log'.hit[f]
    <3>1. /\ log'.quarantined = log.quarantined
          /\ \A g \in Frames :
                log'.hit[g] = IF g = Cur THEN log.hit[Cur] \cup {what} ELSE log.hit[g]
      <4>1. /\ Befalls(Cur, what).quarantined = log.quarantined
            /\ \A g \in Frames : Befalls(Cur, what).hit[g] =
                   IF g = Cur THEN log.hit[Cur] \cup {what} ELSE log.hit[g]
        BY <1>0, <2>2, BefallsFacts, Zenon
      <4> QED
        BY <4>1, <2>2
    <3> QED
      BY <3>1
  <2> QED
    BY <2>1, <2>2
<1>3. CASE ListFails
  BY <1>0, <1>3 DEF ListFails, LogType
<1>4. CASE List \/ Receive \/ StaleReplay \/ Return \/ Exit \/ Notify \/ Start \/ Busy
           \/ Shutdown \/ \E f \in Frames : AppendIngress(f)
  BY <1>4 DEF List, Receive, StaleReplay, Return, Exit, Notify, Start, Busy, Shutdown,
              AppendIngress
<1> QED
  BY <1>1, <1>2, <1>3, <1>4 DEF Next, WorkerStep

\* Only a frame that does not decode, or met another error than a busy database, is
\* given up.
LEMMA VerdictsKept ==
    ASSUME IngestTypeOK, WorkOK, OnlyDefectsQuarantined, Next
    PROVE  OnlyDefectsQuarantined'
<1>0. wk \in WorkerType /\ log \in LogType
  BY DEF IngestTypeOK
<1>1. CASE Quarantine
  <2>1. Cur \in Frames /\ (~Decoded[Cur].valid \/ "failed" \in log.hit[Cur])
    BY <1>1 DEF Quarantine, WorkOK
  <2>2. log'.quarantined = log.quarantined \cup {Cur} /\ log'.hit = log.hit
    BY <1>0, <1>1 DEF Quarantine, LogType
  <2> QED
    BY <2>1, <2>2 DEF OnlyDefectsQuarantined
<1>2. CASE ~Quarantine
  <2>1. log'.quarantined = log.quarantined
        /\ \A f \in Frames : log.hit[f] \subseteq log'.hit[f]
    BY <1>2, HistoryGrows
  <2>2. log.quarantined \subseteq Frames
    BY <1>0 DEF LogType
  <2> QED
    BY <2>1, <2>2 DEF OnlyDefectsQuarantined
<1> QED
  BY <1>1, <1>2

-----------------------------------------------------------------------------
(* No lost wakeup *)

\* What is asked of a row that waits.
Awake(f) ==
    \/ log.hit[f] \cap {"exhausted", "failed", "unlisted"} # {}
    \/ [frame |-> f, replay |-> FALSE] \in notifying
    \/ queue # <<>>
    \/ Covers(wk, f)

\* A step that takes nothing of what wakes the worker for a frame.
LEMMA StillAwake ==
    ASSUME NEW f \in Frames, Awake(f),
           log.hit[f] \subseteq log'.hit[f], notifying \subseteq notifying',
           queue # <<>> => queue' # <<>>, Covers(wk, f) => Covers(wk', f)
    PROVE  Awake(f)'
  BY DEF Awake

\* A row that waits for a worker is never forgotten: enqueue drops a notification
\* only into a full channel, a drain reads every row that waits, and after a frame
\* the worker goes on with the rows it was to read.
LEMMA WakeKept ==
    ASSUME IngestTypeOK, WorkOK, MarkOK, WakeOK, Next, MarkOK', WorkOK'
    PROVE  WakeOK'
<1>0. /\ wk \in WorkerType /\ log \in LogType /\ queue \in Seq(Item)
      /\ inbox \in [Frames -> RowType] /\ QueueCapacity \in Nat \ {0}
  BY IngestAssumption DEF IngestTypeOK
<1>w. wk.pc \in {"apply", "quarantine"} => Cur \in Frames
  BY DEF WorkOK
<1> SUFFICES ASSUME NEW f \in Frames, inbox'[f].status = "pending" PROVE Awake(f)'
  BY DEF WakeOK, Pending, Awake
<1>a. inbox[f].status = "pending" => Awake(f)
  BY DEF WakeOK, Pending, Awake
<1>1. CASE List
  <2>1. inbox' = inbox
    BY <1>1 DEF List
  <2>2. PICK q \in Snapshots :
            wk' = IF q = <<>> THEN GoTo("waiting") ELSE Handle(Head(q), FALSE, Tail(q))
    BY <1>1 DEF List
  <2>3. q \in Seq(Frames) /\ \E i \in 1..Len(q) : q[i] = f
    BY <2>1, SnapshotFacts DEF Pending
  <2>4. PICK i \in 1..Len(q) : q[i] = f
    BY <2>3
  <2>5. q # <<>>
    BY <2>3, <2>4
  <2>6. /\ wk'.pc \in {"apply", "quarantine"}
        /\ \A j \in 1..Len(q) :
              \/ wk'.cur = q[j]
              \/ \E k \in 1..Len(wk'.batch) : wk'.batch[k] = q[j]
    BY <1>0, <2>2, <2>3, <2>5, HandleFirst
  <2> QED
    BY <2>4, <2>6 DEF Awake, Covers
<1>2. CASE Receive
  <2>1. Head(queue).replay = TRUE \/ Head(queue).replay = FALSE
    BY <1>0, <1>2, HeadTailProperties DEF Receive, Item
  <2>2. Head(queue).frame \in Frames /\ TRUE \in BOOLEAN /\ <<>> \in Seq(Frames)
    <3>1. Head(queue) \in Item
      BY <1>0, <1>2, HeadTailProperties DEF Receive
    <3> QED
      BY <3>1 DEF Item
  <2>3. CASE Head(queue).replay = TRUE
    <3>1. wk' = Handle(Head(queue).frame, TRUE, <<>>)
      BY <1>2, <2>3 DEF Receive
    <3>2. wk'.pc \in {"apply", "quarantine"} /\ wk'.replay = TRUE
      BY <1>0, <2>2, <3>1, HandleFacts, Zenon
    <3> QED
      BY <3>2 DEF Awake, Covers
  <2>4. CASE Head(queue).replay = FALSE
    <3>1. wk' = GoTo("listing")
      BY <1>2, <2>4 DEF Receive
    <3> QED
      BY <1>0, <3>1, GoToFacts DEF Awake, Covers
  <2> QED
    BY <2>1, <2>3, <2>4
<1>3. CASE ApplyStep
  <2>1. Cur \in Frames /\ inbox[f].status = "pending" /\ Awake(f)
    <3>1. \A g \in Frames : g # Cur => inbox'[g] = inbox[g]
      BY <1>3, ApplyRows
    <3>2. inbox[Cur].status # "pending" => inbox'[Cur] = inbox[Cur] \/ inbox'[Cur].status = "processed"
      BY <1>3, ApplyRows
    <3>3. Cur \in Frames
      BY <1>3, ApplyRows
    <3> QED
      BY <1>a, <3>1, <3>2, <3>3
  <2>2. log'.hit = log.hit /\ notifying' = notifying /\ queue' = queue
    BY <1>3, ApplyLog DEF ApplyStep
  <2>3. Covers(wk, f) => Covers(wk', f)
    <3>1. CASE wk.pos < Len(Plan(Cur))
      <4>1. /\ wk'.pc = "apply" /\ wk'.cur = wk.cur /\ wk'.batch = wk.batch
            /\ wk'.replay = wk.replay /\ wk'.canceled = wk.canceled
        BY <1>3, <3>1, ApplyAdvances DEF Cur
      <4>2. wk.pc = "apply"
        BY <1>3 DEF ApplyStep
      <4> QED
        BY <4>1, <4>2 DEF Covers
    <3>2. CASE ~(wk.pos < Len(Plan(Cur)))
      <4>1. log'.done[Cur] = Steps(Cur)
        BY <1>3, <3>2, LastCompletes
      <4>2. PICK p \in Steps(Cur) : Plan(Cur)[p].op \in {"project", "mark"}
        BY <2>1, PlanFacts DEF PlanIsSound
      <4>3. inbox'[Cur].status = "processed"
        BY <2>1, <4>1, <4>2 DEF MarkOK
      <4>4. f # Cur
        BY <4>3
      <4>5. wk' = NextRecord /\ wk.pc = "apply"
        BY <1>3, <3>2 DEF ApplyStep
      <4> QED
        BY <1>0, <4>4, <4>5, NextRecordFacts
    <3> QED
      BY <3>1, <3>2
  <2> QED
    BY <2>1, <2>2, <2>3, StillAwake
<1>4. CASE StaleReplay \/ Quarantine
  <2>1. /\ inbox[f].status = "pending" /\ f # Cur
        /\ wk' = NextRecord /\ wk.pc \in {"apply", "quarantine"}
    <3>1. CASE StaleReplay
      BY <3>1 DEF StaleReplay, Stale
    <3>2. CASE Quarantine
      <4>1. Cur \in Frames /\ inbox' = [inbox EXCEPT ![Cur].status = "processed"]
        BY <1>w, <3>2 DEF Quarantine
      <4>2. inbox'[Cur].status = "processed" /\ (f # Cur => inbox'[f] = inbox[f])
        BY <1>0, <4>1 DEF RowType
      <4> QED
        BY <3>2, <4>2 DEF Quarantine
    <3> QED
      BY <1>4, <3>1, <3>2
  <2>2. Covers(wk, f) => Covers(wk', f)
    BY <1>0, <2>1, NextRecordFacts
  <2>3. log'.hit = log.hit /\ notifying' = notifying /\ queue' = queue
    BY <1>0, <1>4 DEF StaleReplay, Quarantine, LogType
  <2> QED
    BY <1>a, <2>1, <2>2, <2>3, StillAwake
<1>5. CASE Exhausted \/ Failed
  <2>1. /\ inbox' = inbox /\ notifying' = notifying /\ queue' = queue
        /\ Cur \in Frames /\ wk.pc \in {"apply", "quarantine"}
    BY <1>w, <1>5 DEF Exhausted, Failed
  <2>2. PICK what \in {"exhausted", "failed"} : log' = Befalls(Cur, what)
    BY <1>5 DEF Exhausted, Failed
  <2>3. \A g \in Frames :
            log'.hit[g] = IF g = Cur THEN log.hit[Cur] \cup {what} ELSE log.hit[g]
    <3>0. log \in LogType /\ Cur \in Frames
      BY <1>0, <2>1
    <3>1. what \in {"exhausted", "failed", "stopped", "unlisted"}
      OBVIOUS
    <3>2. \A g \in Frames : Befalls(Cur, what).hit[g] =
              IF g = Cur THEN log.hit[Cur] \cup {what} ELSE log.hit[g]
      BY <3>0, <3>1, BefallsFacts, Zenon
    <3> QED
      BY <3>2, <2>2
  <2>4. CASE f = Cur
    <3>1. what \in log'.hit[f]
      BY <2>3, <2>4
    <3> QED
      BY <3>1, <2>2 DEF Awake
  <2>5. CASE f # Cur
    <3>1. Covers(wk, f) => Covers(wk', f)
      <4>1. CASE wk' = NextRecord
        BY <1>0, <2>1, <2>5, <4>1, NextRecordFacts
      <4>2. CASE wk' = [wk EXCEPT !.pc = "quarantine", !.pos = 1, !.tries = 0]
        <5>1. /\ wk'.pc = "quarantine" /\ wk'.cur = wk.cur /\ wk'.batch = wk.batch
              /\ wk'.replay = wk.replay /\ wk'.canceled = wk.canceled
          BY <1>0, <4>2 DEF WorkerType
        <5> QED
          BY <5>1, <2>1 DEF Covers
      <4> QED
        BY <4>1, <4>2, <1>5 DEF Exhausted, Failed
    <3> QED
      BY <1>a, <2>1, <2>3, <2>5, <3>1, StillAwake
  <2> QED
    BY <2>4, <2>5
<1>6. CASE Abort
  <2>1. wk.canceled = TRUE
    BY <1>0, <1>6 DEF Abort, WorkerType
  <2>2. wk'.canceled = wk.canceled
    <3>1. CASE wk.pc = "listing"
      BY <1>0, <1>6, <3>1, GoToFacts DEF Abort
    <3>2. CASE wk.pc # "listing"
      BY <1>0, <1>6, <3>2, NextRecordFacts DEF Abort
    <3> QED
      BY <3>1, <3>2
  <2> QED
    BY <2>1, <2>2 DEF Awake, Covers
<1>7. CASE Return \/ Exit \/ Crash \/ Start
  <2>1. wk'.pc \in {"off", "listing", "returned"}
    <3>1. CASE Return
      BY <1>0, <3>1, GoToFacts DEF Return
    <3>2. CASE Exit \/ Crash \/ Start
      BY <3>2 DEF Exit, Crash, Start, Off
    <3> QED
      BY <1>7, <3>1, <3>2
  <2> QED
    BY <2>1 DEF Awake, Covers
<1>8. CASE Notify
  <2>1. PICK item \in notifying : queue' = IF Len(queue) < QueueCapacity THEN Append(queue, item) ELSE queue
    BY <1>8 DEF Notify
  <2>2. item \in Item
    BY DEF IngestTypeOK
  <2>3. queue' # <<>>
    <3>1. CASE Len(queue) < QueueCapacity
      <4>1. Len(queue') = Len(queue) + 1 /\ Len(queue) \in Nat
        BY <1>0, <2>1, <2>2, <3>1
      <4> QED
        BY <4>1
    <3>2. CASE ~(Len(queue) < QueueCapacity)
      <4>1. Len(queue) \in Nat /\ Len(queue) # 0 /\ queue' = queue
        BY <1>0, <2>1, <3>2
      <4> QED
        BY <4>1
    <3> QED
      BY <3>1, <3>2
  <2> QED
    BY <2>3 DEF Awake
<1>9. CASE ListFails
  <2>1. f \in Pending
    BY <1>9 DEF ListFails, Pending
  <2>2. log'.hit[f] = log.hit[f] \cup {"unlisted"}
    BY <1>0, <1>9, <2>1 DEF ListFails, LogType
  <2> QED
    BY <2>2 DEF Awake
<1>10. CASE Busy
  <2>1. /\ inbox' = inbox /\ notifying' = notifying /\ queue' = queue /\ log' = log
    BY <1>10 DEF Busy
  <2>2. /\ wk'.pc = wk.pc /\ wk'.cur = wk.cur /\ wk'.batch = wk.batch
        /\ wk'.replay = wk.replay /\ wk'.canceled = wk.canceled
    BY <1>0, <1>10 DEF Busy, WorkerType
  <2> QED
    BY <1>a, <2>1, <2>2, StillAwake DEF Covers
<1>11. CASE Shutdown
  <2>1. wk'.canceled = TRUE
    BY <1>0, <1>11 DEF Shutdown, WorkerType
  <2> QED
    BY <2>1 DEF Awake, Covers
<1>12. CASE \E g \in Frames : AppendIngress(g)
  <2>1. PICK g \in Frames : AppendIngress(g)
    BY <1>12
  <2>2. CASE inbox[f].status = "pending"
    <3>1. notifying \subseteq notifying' /\ queue' = queue /\ log' = log /\ wk' = wk
      BY <2>1 DEF AppendIngress
    <3> QED
      BY <1>a, <2>2, <3>1, StillAwake
  <2>3. CASE inbox[f].status # "pending"
    <3>1. f = g /\ inbox[f].status = "absent"
      BY <1>0, <2>1, <2>3 DEF AppendIngress
    <3>2. [frame |-> f, replay |-> FALSE] \in notifying'
      BY <2>1, <3>1 DEF AppendIngress
    <3> QED
      BY <3>2 DEF Awake
  <2> QED
    BY <2>2, <2>3
<1> QED
  BY <1>1, <1>2, <1>3, <1>4, <1>5, <1>6, <1>7, <1>8, <1>9, <1>10, <1>11, <1>12
     DEF Next, WorkerStep

-----------------------------------------------------------------------------
(* A frame is completed by the handling that marked it *)

\* A step of the worker other than a transaction leaves a frame that is marked and not
\* complete to its handling, or excuses it.
LEMMA HalfKeptElsewhere ==
    ASSUME IngestTypeOK, WorkOK, HalfOK, Next, ~ApplyStep,
           NEW f \in Frames, FirstIsWrittenOnce(f), inbox'[f].status = "processed",
           ~Excused(f)', log'.done[f] # Steps(f)
    PROVE  /\ f = wk'.cur /\ wk'.pc = "apply"
           /\ \A n \in Steps(f) :
                 Plan(f)[n].op = "project" => store'[Plan(f)[n].key] = Plan(f)[n].value
<1>0. wk \in WorkerType /\ log \in LogType /\ inbox \in [Frames -> RowType]
  BY DEF IngestTypeOK
<1>w. wk.pc \in {"apply", "quarantine"} => Cur \in Frames
  BY DEF WorkOK
<1>1. store' = store /\ log'.done = log.done
  BY OnlyApplyWrites
<1>2. ~Quarantine
  <2> SUFFICES ASSUME Quarantine PROVE FALSE
    OBVIOUS
  <2>1. /\ Cur \in Frames /\ wk.pc = "quarantine" /\ log'.quarantined = log.quarantined \cup {Cur}
        /\ log'.hit = log.hit /\ inbox' = [inbox EXCEPT ![Cur].status = "processed"]
    BY <1>0, <1>w DEF Quarantine, LogType
  <2>2. f # Cur
    BY <2>1 DEF Excused
  <2>3. inbox[f].status = "processed" /\ ~Excused(f)
    BY <1>0, <2>1, <2>2 DEF Excused
  <2> QED
    BY <1>1, <2>2, <2>3 DEF HalfOK
<1>3. ~Excused(f)
  BY <1>2, HistoryGrows DEF Excused
<1>4. inbox[f].status = "processed"
  <2>1. CASE \E g \in Frames : AppendIngress(g)
    BY <1>0, <2>1 DEF AppendIngress
  <2>2. CASE ~\E g \in Frames : AppendIngress(g)
    <3>1. inbox' = inbox
      BY <1>2, <2>2 DEF Next, WorkerStep, List, Receive, StaleReplay, Abort, Return, Exit, Notify,
                        Start, ListFails, Busy, Exhausted, Failed, Shutdown, Crash
    <3> QED
      BY <3>1
  <2> QED
    BY <2>1, <2>2
<1>5. /\ f = Cur /\ wk.pc = "apply"
      /\ \A n \in Steps(f) :
            Plan(f)[n].op = "project" => store[Plan(f)[n].key] = Plan(f)[n].value
  BY <1>1, <1>3, <1>4 DEF HalfOK
<1>6. ~StaleReplay
  <2>1. wk.pos \in Steps(f) /\ Step = Plan(f)[wk.pos]
    BY <1>5 DEF WorkOK, Step
  <2> QED
    BY <1>5, <2>1 DEF StaleReplay, Stale
<1>7. ~(Abort \/ Exhausted \/ Failed \/ Crash)
  <2> SUFFICES ASSUME Abort \/ Exhausted \/ Failed \/ Crash PROVE FALSE
    OBVIOUS
  <2>1. f # NoFrame
    BY IngestAssumption
  <2>2. PICK what \in Final : log' = Befalls(f, what)
    BY <1>5, <2>1 DEF Abort, Exhausted, Failed, Crash, Final
  <2>3. what \in log'.hit[f]
    BY <1>0, <2>2 DEF Befalls, LogType
  <2> QED
    BY <2>2, <2>3 DEF Excused
<1>8. wk'.cur = wk.cur /\ wk'.pc = wk.pc
  <2>1. CASE Busy \/ Shutdown
    BY <1>0, <2>1 DEF Busy, Shutdown, WorkerType
  <2>2. CASE Notify \/ \E g \in Frames : AppendIngress(g)
    BY <2>2 DEF Notify, AppendIngress
  <2> QED
    BY <1>2, <1>5, <1>6, <1>7, <2>1, <2>2
       DEF Next, WorkerStep, List, Receive, Return, Exit, Start, ListFails
<1> QED
  BY <1>1, <1>5, <1>8 DEF Cur

\* The transaction that marks a frame stores its message, and the others leave it
\* stored: until the frame is complete, starting over finds what it wrote.
LEMMA HalfKeptByApply ==
    ASSUME IngestTypeOK, WorkOK, MarkOK, HalfOK, ApplyStep,
           NEW f \in Frames, FirstIsWrittenOnce(f), inbox'[f].status = "processed",
           ~Excused(f)', log'.done[f] # Steps(f)
    PROVE  /\ f = wk'.cur /\ wk'.pc = "apply"
           /\ \A n \in Steps(f) :
                 Plan(f)[n].op = "project" => store'[Plan(f)[n].key] = Plan(f)[n].value
<1>0. /\ Cur \in Frames /\ wk.pos \in Steps(Cur) /\ Step = Plan(Cur)[wk.pos]
      /\ \A g \in Frames : g # Cur => inbox'[g] = inbox[g]
      /\ Step.op \notin {"project", "mutate", "mark"} => inbox' = inbox
  BY ApplyRows
<1>1. /\ log'.hit = log.hit /\ log'.quarantined = log.quarantined
      /\ \A g \in Frames :
            log'.done[g] = IF g = Cur THEN log.done[Cur] \cup {wk.pos} ELSE log.done[g]
  BY ApplyLog
<1>2. ~Excused(f)
  BY <1>1 DEF Excused
<1>3. f = Cur
  <2> SUFFICES ASSUME f # Cur PROVE FALSE
    OBVIOUS
  <2>1. inbox[f].status = "processed" /\ log.done[f] # Steps(f)
    BY <1>0, <1>1
  <2> QED
    BY <1>2, <2>1 DEF HalfOK
<1>4. wk.pos < Len(Plan(Cur))
  BY <1>3, LastCompletes
<1>5. wk'.pc = "apply" /\ wk'.cur = f
  BY <1>3, <1>4, ApplyAdvances
<1>6. log.done[f] # Steps(f)
  BY <1>0, <1>1, <1>3
<1> SUFFICES ASSUME NEW n \in Steps(f), Plan(f)[n].op = "project"
             PROVE  store'[Plan(f)[n].key] = Plan(f)[n].value
  BY <1>5
<1> DEFINE k == Plan(f)[n].key
           v == Plan(f)[n].value
<1>7. store \in [Keys -> Values \cup {NoValue}] /\ store' = Stored(Step, store) /\ ~Stale(Step)
  BY DEF IngestTypeOK, ApplyStep
<1>8. k \in Keys
  BY StepFacts
<1>9. \A j \in Steps(f) : Plan(f)[j].op \in {"project", "mutate", "mark"} => n < j \/ n = j
  BY PlanFacts DEF PlanIsSound
<1>10. CASE inbox[f].status = "processed"
  <2>1. store[k] = v
    BY <1>2, <1>6, <1>10 DEF HalfOK
  <2>2. CASE Step.op \in {"write", "mutate"}
    <3>1. Step.key \in Keys /\ (Step.key = k => Step.value = v)
      BY <1>0, <1>3, <2>2, StepFacts DEF FirstIsWrittenOnce
    <3>2. store' = [store EXCEPT ![Step.key] = Step.value] \/ store' = store
      BY <1>7, <2>2 DEF Stored
    <3> QED
      BY <1>7, <1>8, <2>1, <3>1, <3>2
  <2>3. CASE Step.op \notin {"write", "mutate"}
    <3>1. store' = store
      BY <1>3, <1>7, <1>10, <2>3 DEF Stored
    <3> QED
      BY <2>1, <3>1
  <2> QED
    BY <2>2, <2>3
<1>11. CASE inbox[f].status # "processed"
  <2>1. Step.op \in {"project", "mutate", "mark"}
    BY <1>0, <1>11
  <2>2. n < wk.pos \/ n = wk.pos
    BY <1>0, <1>3, <1>9, <2>1
  <2>3. n = wk.pos
    <3> SUFFICES ASSUME n < wk.pos PROVE FALSE
      BY <2>2
    <3>1. n \in 1..(wk.pos - 1)
      BY <1>0 DEF Steps
    <3>2. n \in log.done[f]
      BY <1>3, <3>1 DEF WorkOK, ApplyStep
    <3> QED
      BY <1>11, <3>2 DEF MarkOK
  <2>4. store' = [store EXCEPT ![k] = v]
    BY <1>0, <1>3, <1>7, <1>11, <2>3 DEF Stored
  <2> QED
    BY <1>7, <1>8, <2>4
<1> QED
  BY <1>10, <1>11

\* Every step keeps a marked frame with the handling that completes it.
LEMMA HalfKept ==
    ASSUME IngestTypeOK, WorkOK, MarkOK, HalfOK, Next
    PROVE  HalfOK'
<1> SUFFICES ASSUME NEW f \in Frames, FirstIsWrittenOnce(f), inbox'[f].status = "processed",
                    ~Excused(f)', log'.done[f] # Steps(f)
             PROVE  /\ f = wk'.cur /\ wk'.pc = "apply"
                    /\ \A n \in Steps(f) :
                          Plan(f)[n].op = "project" => store'[Plan(f)[n].key] = Plan(f)[n].value
  BY DEF HalfOK, Cur
<1>1. CASE ApplyStep
  BY <1>1, HalfKeptByApply
<1>2. CASE ~ApplyStep
  BY <1>2, HalfKeptElsewhere
<1> QED
  BY <1>1, <1>2

-----------------------------------------------------------------------------
(* Theorems *)

\* The invariant holds in every state of the inbox and its worker.
THEOREM IngestHolds == Spec => []IngestInv
<1>1. Init => IngestInv
  <2> SUFFICES ASSUME Init PROVE IngestInv
    OBVIOUS
  <2>1. IngestTypeOK
    BY TypesBegin
  <2>2. WorkOK /\ \A f \in Frames : inbox[f].status = "absent" /\ log.done[f] = {}
    BY DEF Init, WorkOK, Off, Cur
  <2>3. OnlyDefectsQuarantined
    BY DEF Init, OnlyDefectsQuarantined
  <2>4. MarkOK /\ HalfOK /\ WakeOK
    BY <2>2 DEF MarkOK, HalfOK, WakeOK, Pending
  <2> QED
    BY <2>1, <2>2, <2>3, <2>4 DEF IngestInv
<1>2. IngestInv /\ [Next]_vars => IngestInv'
  <2> SUFFICES ASSUME IngestInv, [Next]_vars PROVE IngestInv'
    OBVIOUS
  <2>1. CASE Next
    <3>1. IngestTypeOK' /\ WorkOK'
      BY <2>1, TypesKept DEF IngestInv
    <3>2. MarkOK'
      BY <2>1, MarksKept DEF IngestInv
    <3>3. HalfOK'
      BY <2>1, HalfKept DEF IngestInv
    <3>4. WakeOK'
      BY <2>1, <3>1, <3>2, WakeKept DEF IngestInv
    <3>5. OnlyDefectsQuarantined'
      BY <2>1, VerdictsKept DEF IngestInv
    <3> QED
      BY <3>1, <3>2, <3>3, <3>4, <3>5 DEF IngestInv
  <2>2. CASE UNCHANGED vars
    <3>1. IngestTypeOK' /\ WorkOK' /\ OnlyDefectsQuarantined'
      BY <2>2 DEF IngestInv, vars, IngestTypeOK, WorkOK, OnlyDefectsQuarantined, Cur
    <3>2. MarkOK' /\ HalfOK'
      BY <2>2 DEF IngestInv, vars, MarkOK, HalfOK, Excused, Cur
    <3>3. WakeOK'
      BY <2>2 DEF IngestInv, vars, WakeOK, Pending
    <3> QED
      BY <3>1, <3>2, <3>3 DEF IngestInv
  <2> QED
    BY <2>1, <2>2
<1> QED
  BY <1>1, <1>2, PTL DEF Spec

\* Rows, notifications, the worker and the stored content have their types.
THEOREM IngestTypes == Spec => []IngestTypeOK
<1>1. IngestInv => IngestTypeOK
  BY DEF IngestInv
<1> QED
  BY <1>1, IngestHolds, PTL

\* No lost wakeup (enqueue's default branch, drain's snapshot): a worker that waits
\* with nothing in its channel leaves no row behind.
THEOREM NoneForgotten == Spec => []NoFrameForgotten
<1>1. IngestInv => NoFrameForgotten
  <2> SUFFICES ASSUME IngestInv, wk.pc = "waiting", ~wk.canceled, queue = <<>>, NEW f \in Pending
               PROVE  \/ [frame |-> f, replay |-> FALSE] \in notifying
                      \/ log.hit[f] \cap {"exhausted", "failed", "unlisted"} # {}
    BY DEF NoFrameForgotten
  <2>1. ~Covers(wk, f)
    BY DEF Covers
  <2> QED
    BY <2>1 DEF IngestInv, WakeOK
<1> QED
  BY <1>1, IngestHolds, PTL

\* A frame that is marked, whose handling is over and that nothing excuses, took
\* effect whole.
Completed(f) ==
    inbox[f].status = "processed" /\ f # Cur /\ ~Excused(f) => log.done[f] = Steps(f)

\* Every frame that writes its first message once is completed by the handling that
\* marked it (applyEvents, ProjectMessage's reading of a processed row): whatever the
\* other frames are, and however often the database was busy.
THEOREM MarkedIsCompleted ==
    Spec => [](\A f \in Frames : FirstIsWrittenOnce(f) => Completed(f))
<1>1. IngestInv => \A f \in Frames : FirstIsWrittenOnce(f) => Completed(f)
  BY DEF IngestInv, HalfOK, Completed
<1> QED
  BY <1>1, IngestHolds, PTL

\* Frames that write their first message once leave the worker whole, or quarantined
\* for a defect of their own (handleRecord's order of checks).
THEOREM LeftWhole ==
    ASSUME \A f \in Frames : FirstIsWrittenOnce(f)
    PROVE  Spec => []LeavesWholeOrDefective
<1>1. IngestInv => LeavesWholeOrDefective
  <2> SUFFICES ASSUME IngestInv PROVE ProcessedIsComplete /\ OnlyDefectsQuarantined
    BY DEF LeavesWholeOrDefective
  <2>1. OnlyDefectsQuarantined
    BY DEF IngestInv
  <2>2. ProcessedIsComplete
    BY DEF IngestInv, HalfOK, Excused, Final, ProcessedIsComplete
  <2> QED
    BY <2>1, <2>2
<1> QED
  BY <1>1, IngestHolds, PTL
=============================================================================
