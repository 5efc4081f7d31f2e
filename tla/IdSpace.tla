------------------------------ MODULE IdSpace ------------------------------
(* Google Messages numbers conversations and messages per phone: after a    *)
(* phone swap every thread and every message arrives under another number,  *)
(* which may be the number that something else had before.  The ingest      *)
(* worker therefore trusts participants over numbers                        *)
(* (internal/ingest/idspace.go), a store that was filled before it did is   *)
(* put right by `openmessage repair google-idspace`                         *)
(* (internal/ingest/repair_idspace.go, internal/storage/sqlite/             *)
(* repair_support.go), and both write conversations, their bindings, their  *)
(* rosters and their messages (rebind.go, repositories.go, messages.go).    *)
EXTENDS Integers, Sequences, FiniteSets, SequencesExt, FiniteSetsExt

CONSTANTS
    PhoneThreads,   \* the threads of the account, as its phone has them
    Members,        \* [PhoneThreads -> who is in them beside the user]
    Texts,          \* what was written, numbered by the time it was written
    ThreadOf,       \* [Texts -> PhoneThreads]
    AuthorOf,       \* [Texts -> a member of that thread, or Myself, also for
                    \*  one whom the frame does not name]
    Myself, Nothing,
    WireIds,        \* the numbers a phone gives its threads
    FirstWorkers,   \* which of "current" and "earlier" may have filled the store
    FreshNumbers,   \* TRUE: a new phone reuses no number of a message
    MaxWireFrames   \* bound: frames that are projected

VARIABLES
    phone,     \* [wire: thread -> number, number: text -> number]
    convs,     \* conversation rows, by primary key <<wire, k>>
    rows,      \* message rows
    window,    \* frames before the swap; a later one wrote a suspect row
    wireFrames,    \* frames projected
    copy,      \* the conversations as a copy of the store from before has them
    worker,    \* "current" from the start, "earlier", which went by numbers
               \* alone, or "updated"
    refused,   \* texts of which a frame was quarantined
    repaired   \* "no", "yes" just after a repair, "refused" if it could not be
spaceVars == <<phone, convs, rows, window, wireFrames, copy, worker, refused, repaired>>

People == UNION {Members[t] : t \in PhoneThreads}
Direct(t) == Cardinality(Members[t]) = 1
KindOfThread(t) == IF Direct(t) THEN "direct" ELSE "group"
Injections(S, T) == {f \in [S -> T] : \A x, y \in S : f[x] = f[y] => x = y}

Unbound == 0
NotSwapped == MaxWireFrames + 1
Guarded == worker # "earlier"
SpaceInit ==
    /\ phone = [wire |-> CHOOSE f \in Injections(PhoneThreads, WireIds) : TRUE,
                number |-> [t \in Texts |-> t]]
    /\ convs = <<>> /\ rows = {} /\ window = NotSwapped /\ wireFrames = 0
    /\ copy = <<>> /\ worker \in FirstWorkers
    /\ refused = {} /\ repaired = "no"

-----------------------------------------------------------------------------
(* The store *)

\* The holder of a number, of which there is one at most.
Holder(cs, w) == {c \in DOMAIN cs : cs[c].remote = w}
TheOne(S) == CHOOSE x \in S : TRUE
Displace(cs, w) == [c \in DOMAIN cs |->
    IF cs[c].remote = w THEN [cs[c] EXCEPT !.remote = Unbound] ELSE cs[c]]
Bind(cs, w, id) == [Displace(cs, w) EXCEPT ![id].remote = w]

\* A primary key derived from the number, past those that are taken.
Minted(w, taken) == <<w, Min({k \in 0..Cardinality(taken) : <<w, k>> \notin taken})>>
Mint(cs, w, kind, roster, at) ==
    LET id == Minted(w, DOMAIN cs)
    IN  [id |-> id,
         cs |-> [c \in DOMAIN cs \cup {id} |->
                   IF c = id THEN [remote |-> w, kind |-> kind, roster |-> roster, at |-> at]
                   ELSE Displace(cs, w)[c]]]

\* The most recent of several, and Nothing of none.
KeyBefore(c, d) ==
    \/ c[1] < d[1]
    \/ c[1] = d[1] /\ c[2] < d[2]
MostRecent(cs, S) ==
    IF S = {} THEN Nothing
    ELSE CHOOSE c \in S : \A d \in S \ {c} :
            \/ cs[d].at < cs[c].at
            \/ cs[d].at = cs[c].at /\ KeyBefore(c, d)
DirectWith(cs, p) == MostRecent(cs, {c \in DOMAIN cs : cs[c].kind = "direct" /\ cs[c].roster = {p}})
GroupOf(cs, S) == MostRecent(cs, {c \in DOMAIN cs : cs[c].kind = "group" /\ cs[c].roster = S})

\* The same text in the same conversation under another number.
Doubles(rs, c, row) ==
    {r \in rs : r.conv = c /\ r.text = row.text /\ r.number # row.number}

-----------------------------------------------------------------------------
(* The worker: a conversation for an incoming message *)

Found(cs, w) == [id |-> TheOne(Holder(cs, w)), cs |-> cs]

\* ensureMessageConversation, for what carries no sender and for older daemons.
ByNumber(w, at) ==
    IF Holder(convs, w) # {} THEN Found(convs, w) ELSE Mint(convs, w, "direct", {}, at)

\* Mutant of MayBeFrom: a thread that is not a group's is never doubted.
MayBeFromAnyone(c, p) == TRUE

\* Whether the conversation that has the number can be the sender's.
MayBeFrom(c, p) == convs[c].kind # "direct" \/ convs[c].roster = {} \/ p \in convs[c].roster

\* googleIncomingConversation and rerouteGoogleDirect.
BySender(w, p, at) ==
    LET own == DirectWith(convs, p)
    IN  IF Holder(convs, w) # {} /\ \A c \in Holder(convs, w) : MayBeFrom(c, p)
        THEN Found(convs, w)
        ELSE IF own # Nothing THEN [id |-> own, cs |-> Bind(convs, w, own)]
        ELSE Mint(convs, w, "direct", {}, at)

\* EnsureConversationParticipant adds one who is named and touches nobody else;
\* ReplaceConversationParticipants leaves whom the event names and no other.
EnsureParticipant(cs, id, p) == [cs EXCEPT ![id].roster = @ \cup {p}]
ReplaceParticipants(cs, id, t) == [cs EXCEPT ![id].roster = Members[t]]

\* ensureDirectPeerParticipant.
WithPeer(cs, id, p) ==
    IF cs[id].kind # "direct" THEN cs ELSE EnsureParticipant(cs, id, p)

\* ProjectMessage.  The key comes of the numbers on the wire; a key that a row
\* of another conversation has fails the insert, and the frame is quarantined.
NewRow(key, id, text) == [key |-> key, conv |-> id, number |-> key[2],
                          text |-> text, frame |-> wireFrames + 1]
Upserted(key, id, text) ==
    LET same == {r \in rows : r.conv = id /\ r.number = key[2]}
    IN  IF same # {} THEN {IF r \in same THEN [r EXCEPT !.text = text] ELSE r : r \in rows}
        ELSE rows \cup {NewRow(key, id, text)}
KeyTaken(key, id) == \E r \in rows : r.key = key /\ ~(r.conv = id /\ r.number = key[2])
                     /\ ~\E s \in rows : s.conv = id /\ s.number = key[2]

ProjectMessage(text) ==
    LET w == phone.wire[ThreadOf[text]]
        key == <<w, phone.number[text]>>
        author == AuthorOf[text]
        target == IF Guarded /\ author # Myself THEN BySender(w, author, text)
                  ELSE ByNumber(w, text)
        known == IF author = Myself \/ ~Guarded THEN target.cs ELSE WithPeer(target.cs, target.id, author)
        double == Guarded /\ Doubles(rows, target.id, [text |-> text, number |-> key[2]]) # {}
        skipped == double \/ KeyTaken(key, target.id)
    IN  /\ wireFrames < MaxWireFrames /\ wireFrames' = wireFrames + 1
        /\ convs' = IF skipped THEN known ELSE [known EXCEPT ![target.id].at = Max({@, text})]
        /\ rows' = IF skipped THEN rows ELSE Upserted(key, target.id, text)
        /\ refused' = IF skipped /\ ~double THEN refused \cup {text} ELSE refused
        /\ repaired' = "no"
        /\ UNCHANGED <<phone, window, copy, worker>>

\* refreshConversation, with googleConversationEventTarget: the thread of a
\* conversation event, which also gives it its kind and its roster.
Consistent(t, roster) ==
    IF Direct(t) THEN Members[t] = roster ELSE Members[t] \cap roster # {}
ByRoster(t) ==
    IF Direct(t) THEN DirectWith(convs, TheOne(Members[t])) ELSE GroupOf(convs, Members[t])
EventTarget(t, w) ==
    LET holders == Holder(convs, w)
        trusted == \A c \in holders : convs[c].roster = {} \/ Consistent(t, convs[c].roster)
    IN  IF holders # {} /\ (trusted \/ ~Guarded) THEN Found(convs, w)
        ELSE IF Guarded /\ ByRoster(t) # Nothing
             THEN [id |-> ByRoster(t), cs |-> Bind(convs, w, ByRoster(t))]
        ELSE Mint(convs, w, KindOfThread(t), {}, 0)
RefreshConversation(t) ==
    LET target == EventTarget(t, phone.wire[t])
    IN  /\ wireFrames < MaxWireFrames /\ wireFrames' = wireFrames + 1
        /\ convs' = ReplaceParticipants([target.cs EXCEPT ![target.id].kind = KindOfThread(t)],
                                        target.id, t)
        /\ repaired' = "no"
        /\ UNCHANGED <<phone, rows, window, copy, worker, refused>>

\* BackfillDirectParticipants, as the daemon starts: a thread of two that
\* names nobody is with the only one whose messages it has.
SoleSender(c) == {AuthorOf[r.text] : r \in {q \in rows : q.conv = c}} \ {Myself}
Peerless == {c \in DOMAIN convs : /\ convs[c].kind = "direct" /\ convs[c].roster = {}
                                  /\ Cardinality(SoleSender(c)) = 1}
BackfillParticipants ==
    /\ Guarded /\ Peerless # {}
    /\ convs' = [c \in DOMAIN convs |->
                   IF c \in Peerless THEN [convs[c] EXCEPT !.roster = SoleSender(c)] ELSE convs[c]]
    /\ repaired' = "no"
    /\ UNCHANGED <<phone, rows, window, wireFrames, copy, worker, refused>>

\* Another phone: other numbers.
SwapPhone ==
    /\ window = NotSwapped /\ window' = wireFrames
    /\ phone' \in [wire : Injections(PhoneThreads, WireIds),
                   number : IF FreshNumbers THEN {[t \in Texts |-> t + Max(Texts)]}
                            ELSE Injections(Texts, Texts)]
    /\ copy' = convs
    /\ repaired' = "no"
    /\ UNCHANGED <<convs, rows, wireFrames, worker, refused>>

-----------------------------------------------------------------------------
(* The repair *)

Ordered(S) == SetToSortSeq(S, KeyBefore)
RowsOf(c) == SetToSortSeq({r \in rows : r.conv = c /\ r.frame > window},
                          LAMBDA r, s : r.frame < s.frame)
Older(c) == {r \in rows : r.conv = c /\ r.frame <= window}
Senders(R) == {AuthorOf[r.text] : r \in R} \ {Myself}

\* detectClobbers: threads whose members are not those of the copy.
Clobbered(useCopy) ==
    IF ~useCopy THEN {}
    ELSE {c \in DOMAIN copy \cap DOMAIN convs :
              copy[c].roster # {} /\ copy[c].roster # convs[c].roster}

\* What a plan adds up to, in the order in which it is applied.
NoPlan == [mints |-> <<>>, steps |-> <<>>, rebinds |-> <<>>, metas |-> <<>>,
           drops |-> {}, recent |-> {}, planned |-> {}, target |-> <<>>, ambiguous |-> FALSE]

\* mint
PlanMint(p, w, kind, roster) ==
    LET taken == DOMAIN convs \cup {p.mints[i].id : i \in DOMAIN p.mints}
        id == Minted(w, taken)
    IN  [id |-> id, p |-> [p EXCEPT !.mints =
            Append(@, [id |-> id, remote |-> w, kind |-> kind, roster |-> roster])]]
IsMinted(p, id) == \E i \in DOMAIN p.mints : p.mints[i].id = id

\* planMoves: what the target holds already is deleted instead.
PlanMoves(p, c, target) ==
    LET Step(q, r) ==
            LET double == \/ <<target, r.text>> \in q.planned
                          \/ ~IsMinted(q, target) /\ Doubles(rows, target, r) # {}
            IN  IF double THEN [q EXCEPT !.steps = Append(@, [op |-> "delete", key |-> r.key])]
                ELSE [q EXCEPT !.steps = Append(@, [op |-> "move", key |-> r.key, to |-> target]),
                               !.planned = @ \cup {<<target, r.text>>}]
        moved == FoldLeft(Step, p, RowsOf(c))
    IN  [moved EXCEPT !.drops = IF Older(c) = {} THEN @ \cup {c} ELSE @,
                      !.recent = @ \cup {c, target}]

\* The first of the rows with the same content is an older one.
Restates(doubles, r) ==
    \E d \in doubles : d.frame < r.frame /\ \A e \in doubles : d.frame <= e.frame

\* dedupeWithin: what repeats an older row of the conversation goes.
DedupeWithin(p, c) ==
    LET Step(q, r) ==
            IF ~Restates(Doubles(rows, c, r), r) THEN q
            ELSE [q EXCEPT !.steps = Append(@, [op |-> "delete", key |-> r.key]),
                               !.recent = @ \cup {c}]
    IN  FoldLeft(Step, p, RowsOf(c))

\* resolveClobberTarget: the thread that the overwriting event described.
ClobberTarget(p, c) ==
    LET live == convs[c]
        found == IF live.roster = {} THEN Nothing
                 ELSE IF live.kind = "direct" /\ Cardinality(live.roster) = 1
                 THEN DirectWith(convs, TheOne(live.roster))
                 ELSE GroupOf(convs, live.roster)
        known == {i \in DOMAIN p.target : p.target[i].of = c}
        Named(q, id) == [id |-> id, p |-> [q EXCEPT !.target = Append(@, [of |-> c, to |-> id])]]
    IN  IF known # {} THEN [id |-> p.target[TheOne(known)].to, p |-> p]
        ELSE IF found \notin {Nothing, c} THEN
            Named([p EXCEPT
                !.rebinds = IF live.remote = Unbound THEN @
                            ELSE Append(@, [remote |-> live.remote, to |-> found]),
                !.metas = Append(@, [id |-> found, kind |-> live.kind, roster |-> live.roster])],
                found)
        ELSE IF live.remote = Unbound THEN [id |-> Nothing, p |-> p]
        ELSE LET minted == PlanMint(p, live.remote, live.kind, live.roster)
             IN  Named(minted.p, minted.id)

\* planGroup
Ambiguous(p) == [p EXCEPT !.ambiguous = TRUE]
PlanClobbered(p, c) ==
    LET target == ClobberTarget(p, c)
    IN  IF target.id = Nothing THEN Ambiguous(p) ELSE PlanMoves(target.p, c, target.id)
Evidence(c) ==
    IF convs[c].roster # {} THEN convs[c].roster ELSE Senders(Older(c))
Elsewhere(c, p) == DirectWith(convs, p) \notin {Nothing, c}
BelongHere(c, senders) ==
    IF convs[c].kind = "direct"
    THEN \E s \in senders : senders = {s} /\
            \/ s \in Evidence(c)
            \/ Evidence(c) = {} /\ ~Elsewhere(c, s)
    ELSE Evidence(c) = {} \/ senders \cap Evidence(c) # {}
PlanMisfiled(p, c, senders) ==
    LET w == convs[c].remote
        alone == Cardinality(senders) = 1
        found == IF alone THEN DirectWith(convs, TheOne(senders)) ELSE GroupOf(convs, senders)
        minted == PlanMint(p, w, IF alone THEN "direct" ELSE "group", senders)
        moved == PlanMoves(p, c, found)
    IN  IF found \notin {Nothing, c} THEN
            IF w = Unbound THEN moved
            ELSE [moved EXCEPT !.rebinds = Append(@, [remote |-> w, to |-> found])]
        ELSE IF w = Unbound THEN Ambiguous(p)
        ELSE PlanMoves(minted.p, c, minted.id)
PlanGroup(p, c, clobbered) ==
    LET senders == Senders(Range(RowsOf(c)))
    IN  IF c \in clobbered THEN PlanClobbered(p, c)
        ELSE IF senders = {}
             THEN DedupeWithin(IF Older(c) = {} THEN p ELSE Ambiguous(p), c)
        ELSE IF BelongHere(c, senders) THEN DedupeWithin(p, c)
        ELSE PlanMisfiled(p, c, senders)

\* planRestores: every overwritten thread gets its members back.
PlanRestore(p, c) ==
    LET target == ClobberTarget(p, c)
        q == IF target.id = Nothing THEN Ambiguous(p)
             ELSE [target.p EXCEPT !.recent = @ \cup {target.id}]
    IN  [q EXCEPT !.metas = Append(@, [id |-> c, kind |-> copy[c].kind, roster |-> copy[c].roster]),
                  !.recent = @ \cup {c}]

Plan(useCopy) ==
    LET clobbered == Clobbered(useCopy)
        suspects == {c \in DOMAIN convs : RowsOf(c) # <<>>}
        grouped == FoldLeft(LAMBDA p, c : PlanGroup(p, c, clobbered), NoPlan, Ordered(suspects))
    IN  FoldLeft(PlanRestore, grouped, Ordered(clobbered))

\* ApplyRepairPlan, one transaction: a row that cannot move to where its number
\* is taken undoes all of it.
ApplyMints(cs, p) ==
    FoldLeft(LAMBDA d, m : [c \in DOMAIN d \cup {m.id} |->
                 IF c = m.id THEN [remote |-> m.remote, kind |-> m.kind, roster |-> m.roster, at |-> 0]
                 ELSE Displace(d, m.remote)[c]],
             cs, p.mints)
ApplyStep(st, s) ==
    LET r == CHOOSE r \in st.rows : r.key = s.key
    IN  CASE s.op = "delete" -> [st EXCEPT !.rows = @ \ {r}]
          [] s.op = "move" ->
               [rows |-> (st.rows \ {r}) \cup {[r EXCEPT !.conv = s.to]},
                ok |-> st.ok /\ ~\E q \in st.rows : q.conv = s.to /\ q.number = r.number]
ApplyRows(p) == FoldLeft(ApplyStep, [rows |-> rows, ok |-> TRUE], p.steps)
ApplyRebinds(cs, p) == FoldLeft(LAMBDA d, b : Bind(d, b.remote, b.to), cs, p.rebinds)
ApplyMetas(cs, p) ==
    FoldLeft(LAMBDA d, m : [d EXCEPT ![m.id].kind = m.kind, ![m.id].roster = m.roster], cs, p.metas)
Recency(rs, c) == Max({0} \cup {r.text : r \in {q \in rs : q.conv = c}})
\* Mutant of Emptied: a thread that a plan empties has got nothing since.
EmptiedByPlan(rs, p) == p.drops
\* What is dropped takes its messages with it, and is dropped if it has none.
Emptied(rs, p) == {c \in p.drops : ~\E r \in rs : r.conv = c}
ApplyEnds(cs, rs, p) ==
    [c \in DOMAIN cs \ Emptied(rs, p) |->
        IF c \in p.recent THEN [cs[c] EXCEPT !.at = Recency(rs, c)] ELSE cs[c]]
Applied(p) ==
    LET st == ApplyRows(p)
        cs == ApplyMetas(ApplyRebinds(ApplyMints(convs, p), p), p)
    IN  [rows |-> {r \in st.rows : r.conv \notin Emptied(st.rows, p)},
         convs |-> ApplyEnds(cs, st.rows, p), ok |-> st.ok]

\* The daemon is stopped meanwhile, and the next one trusts participants.
Repair(useCopy) ==
    LET p == Plan(useCopy)
        done == Applied(p)
    IN  /\ window # NotSwapped /\ repaired = "no"
        /\ IF done.ok THEN rows' = done.rows /\ convs' = done.convs ELSE UNCHANGED <<rows, convs>>
        /\ repaired' = IF done.ok THEN "yes" ELSE "refused"
        /\ worker' = IF worker = "earlier" THEN "updated" ELSE worker
        /\ UNCHANGED <<phone, window, wireFrames, copy, refused>>

SpaceNext ==
    \/ \E t \in Texts : ProjectMessage(t)
    \/ \E t \in PhoneThreads : RefreshConversation(t)
    \/ BackfillParticipants
    \/ SwapPhone
    \/ \E useCopy \in BOOLEAN : Repair(useCopy)
SpaceSpec == SpaceInit /\ [][SpaceNext]_spaceVars

-----------------------------------------------------------------------------
SpaceTypeOK ==
    /\ \A c \in DOMAIN convs :
          convs[c] \in [remote : WireIds \cup {Unbound}, kind : {"direct", "group"},
                        roster : SUBSET People, at : Texts \cup {0}]
    /\ \A r \in rows : r.conv \in DOMAIN convs
    /\ \A r, s \in rows : r.key = s.key \/ (r.conv = s.conv /\ r.number = s.number) => r = s
    /\ \A w \in WireIds : Cardinality(Holder(convs, w)) <= 1

\* What was written stays in the store: no frame, whatever its number, and no
\* repair takes the only row of a message away (idspace.go:11-24, "participant
\* identity - not the numeric ID - [is] the authority"; messages.go,
\* upsertMessage; repair_support.go, ApplyRepairPlan).
Written == {r.text : r \in rows}
HistoryKept == [][Written \subseteq Written']_spaceVars

\* Every plan can be applied: nothing moves to where its number is taken
\* (repair_support.go, MessageMoves).
RepairApplies == repaired # "refused"

\* A second plan finds nothing left to do (repair_idspace_test.go:239).
RepairSettles == repaired = "yes" => Plan(FALSE).steps = <<>>

\* A thread of two holds what came from the other one, whichever numbers the
\* phone gave the two: who opens it reads nobody else's messages, and answers
\* to who wrote them (idspace.go, googleIncomingConversation).
SenderIsPeer ==
    worker = "current" =>
        \A r \in rows :
            LET c == convs[r.conv]
            IN  (AuthorOf[r.text] # Myself /\ c.kind = "direct" /\ c.roster # {})
                    => AuthorOf[r.text] \in c.roster

\* A message that is new is never taken for one that is stored: a frame that
\* is refused is of a message that the store has (idspace_collision_test.go:204).
RefusedIsStored == refused \subseteq Written
=============================================================================
