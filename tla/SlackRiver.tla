----------------------------- MODULE SlackRiver -----------------------------
(* One channel of a Slack workspace: what the polls, Socket Mode, the older *)
(* pages and the threads write of it into the legacy store, the cursor they *)
(* share, and the frames each row leaves for the v2 store.                  *)
EXTENDS Integers, FiniteSets, Sequences

CONSTANTS
    MaxPosts,       \* posts of the channel, numbered by their time
    Early,          \* how many of them there are before the daemon starts
    PostKinds,      \* what each may be, unless the user writes it here
    Writable,       \* the posts that the user may write here
    Touchable,      \* the posts that are edited or deleted
    PageLimit,      \* how many posts one history call returns
    MaxWriters,     \* writers at work at one time
    MaxUpsets,      \* edits, deletions, refused statements and frames, lost connections, ends
    MaxStir         \* posts and upsets, together

Posts == 1..MaxPosts
Kinds == {"peer", "blank", "reply"}
\* Who writes into the store: the start of the river, its poll loop, its
\* socket, and two requests of the interface.
Tasks == {"start", "poll", "socket", "older", "thread"}

ASSUME SlackAssumption ==
    /\ MaxPosts \in Nat /\ Early \in 0..MaxPosts /\ PostKinds \subseteq [Posts -> Kinds]
    /\ Writable \subseteq Posts /\ Touchable \subseteq Posts
    /\ PageLimit \in Nat \ {0} /\ MaxUpsets \in Nat /\ MaxStir \in Nat /\ MaxWriters \in Nat \ {0}

VARIABLES
    channel,    \* the posts, which are edited, deleted, and the user's own
    pushes,     \* what the socket has to deliver
    posted,     \* the text of each post in the legacy store: 0 none, 1 first, 2 edited
    counted,    \* how often each post was added to the unread count
    frames,     \* the text of each post in the v2 store
    cursor,     \* OldestTS and NewestTS; 0 while empty
    task,       \* what each writer is at
    river,      \* whether the river runs, and its socket is connected
    sending,    \* the user's post that the platform took and no frame tells of
    passed,     \* posts that a page or the cursor skipped, or the v2 store refused
    upsets
\* The platform's side; the two stores; what the properties keep account of.
outside == <<channel, pushes, sending>>
stores == <<posted, counted, frames, cursor>>
account == <<passed, upsets>>
slackVars == <<outside, stores, account, task, river>>

NoTask == [at |-> "idle", page |-> {}, text |-> <<>>, read |-> [oldest |-> 0, newest |-> 0],
            seen |-> {}, counts |-> FALSE]
SlackTypeOK ==
    /\ channel.posts \subseteq Posts /\ channel.own \subseteq channel.posts
    /\ posted \in [Posts -> 0..2] /\ frames \in [Posts -> 0..2] /\ counted \in [Posts -> Nat]
    /\ cursor.oldest \in 0..MaxPosts /\ cursor.newest \in 0..MaxPosts
    /\ \A t \in Tasks : /\ task[t].at \in {"idle", "fetch", "write", "reread", "save"}
                        /\ task[t].page \subseteq Posts
    /\ river.socket => river.running

SlackInit ==
    /\ \E kind \in PostKinds :
        channel = [kind |-> kind, posts |-> 1..Early, own |-> {}, edited |-> {}, deleted |-> {}]
    /\ pushes = <<>> /\ sending = 0 /\ passed = {} /\ upsets = 0
    /\ posted = [p \in Posts |-> 0] /\ frames = posted /\ counted = posted
    /\ cursor = [oldest |-> 0, newest |-> 0]
    /\ task = [t \in Tasks |-> NoTask]
    /\ river = [running |-> FALSE, socket |-> FALSE]

Least(S) == CHOOSE p \in S : \A q \in S : p <= q
Most(S) == CHOOSE p \in S : \A q \in S : q <= p
TextNow(p) == IF p \in channel.edited THEN 2 ELSE 1
TextsOf(S) == [p \in S |-> TextNow(p)]
\* A writer may begin.
FreeToStart(t) ==
    task[t].at = "idle" /\ Cardinality({u \in Tasks : task[u].at # "idle"}) < MaxWriters
Stirs == Cardinality(channel.posts) + upsets < MaxStir
UpsetRiver == upsets < MaxUpsets /\ Stirs /\ upsets' = upsets + 1
\* Nothing but the task and what is named.
Quietly(rest) == UNCHANGED <<channel, river, sending, rest>>

(* --- the platform ---------------------------------------------------------- *)

Pushed(event) == IF river.socket THEN Append(pushes, event) ELSE pushes
Change(kind, p) == [kind |-> kind, post |-> p, text |-> TextNow(p)]

\* Somebody posts; somebody edits or deletes.
SomebodyPosts ==
    /\ channel.posts # Posts /\ Stirs
    /\ LET p == Cardinality(channel.posts) + 1 IN
        /\ channel' = [channel EXCEPT !.posts = @ \cup {p}]
        /\ pushes' = Pushed([kind |-> "post", post |-> p, text |-> 1])
    /\ UNCHANGED <<stores, account, task, river, sending>>
TouchPost ==
    /\ UpsetRiver
    /\ \E p \in (channel.posts \cap Touchable) \ channel.deleted :
        \/ /\ p \notin channel.edited
           /\ channel' = [channel EXCEPT !.edited = @ \cup {p}]
           /\ pushes' = Pushed([kind |-> "post", post |-> p, text |-> 2])
        \/ /\ channel' = [channel EXCEPT !.deleted = @ \cup {p}]
           /\ pushes' = Pushed(Change("delete", p))
    /\ UNCHANGED <<stores, task, river, sending, passed>>

\* conversations.history: the latest posts of the range, never a reply.
InRange(after, before) ==
    {p \in channel.posts \ channel.deleted :
        channel.kind[p] # "reply" /\ p > after /\ (before = 0 \/ p < before)}
LatestPage(S) == {p \in S : Cardinality({q \in S : q > p}) < PageLimit}

(* --- the writers ----------------------------------------------------------- *)

\* UpsertSlackSyncCursor keeps what the writer left empty.
Saved(c) == [oldest |-> IF c.oldest # 0 THEN c.oldest ELSE cursor.oldest,
             newest |-> IF c.newest # 0 THEN c.newest ELSE cursor.newest]

\* StartSlackRiver, also of a river that already runs: a client is started, its
\* goroutines are let loose, and the recent messages are read beside them.
StartRiver ==
    /\ FreeToStart("start")
    /\ river' = [river EXCEPT !.running = TRUE]
    /\ task' = [task EXCEPT !["start"] = [NoTask EXCEPT !.at = "fetch", !.read = cursor,
                                                         !.counts = cursor.newest # 0]]
    /\ UNCHANGED <<outside, stores, account>>
\* pollLoop leaves the messages to a socket that is connected.
PollTick ==
    /\ river.running /\ ~river.socket /\ FreeToStart("poll")
    /\ task' = [task EXCEPT !["poll"] = [NoTask EXCEPT !.at = "fetch", !.read = cursor,
                                                        !.counts = cursor.newest # 0]]
    /\ UNCHANGED <<outside, stores, account, river>>
AskOlder ==
    /\ river.running /\ FreeToStart("older")
    /\ task' = [task EXCEPT !["older"] = [NoTask EXCEPT !.at = "fetch", !.read = cursor]]
    /\ UNCHANGED <<outside, stores, account, river>>

\* What of a page ingestMessages writes: a post with neither text nor file is
\* passed over, and moves no cursor.
Written(S) == {p \in S : channel.kind[p] # "blank"}

\* Whether an older page, saved or in hand, lies below a post: a reader that
\* leaves that post out leaves it for good.
PageBelow(t, p) ==
    \E q \in {task[t].read.oldest, cursor.oldest} \cup task["older"].page \cup task["older"].seen :
        0 < q /\ q < p
LeftOut(t, S) == {p \in S : task[t].read.newest # 0 \/ PageBelow(t, p)}

\* syncChannelHistory and SyncOlderHistory have their page.
Begun(t, S) == [task[t] EXCEPT !.page = Written(S), !.text = TextsOf(Written(S)),
                               !.at = IF Written(S) = {} THEN "idle" ELSE "write"]
FetchPage(t) ==
    /\ task[t].at = "fetch"
    /\ \/ /\ t \in {"start", "poll"}
          /\ LET new == InRange(task[t].read.newest, 0)
             IN /\ task' = [task EXCEPT ![t] = Begun(t, LatestPage(new))]
                /\ passed' = passed \cup LeftOut(t, new \ LatestPage(new))
          /\ UNCHANGED upsets
       \/ /\ t = "older"
          /\ task' = [task EXCEPT ![t] = Begun(t, LatestPage(InRange(0, task[t].read.oldest)))]
          /\ UNCHANGED <<passed, upsets>>
       \/ UpsetRiver /\ task' = [task EXCEPT ![t] = NoTask] /\ UNCHANGED passed
    /\ Quietly(<<pushes, stores>>)

\* FetchThread reads a root's replies to the end, and moves no cursor.
AskThread ==
    /\ river.running /\ FreeToStart("thread")
    /\ LET replies == {p \in channel.posts \ channel.deleted : channel.kind[p] = "reply"}
       IN /\ replies # {}
          /\ task' = [task EXCEPT !["thread"] =
                        [NoTask EXCEPT !.page = replies, !.text = TextsOf(replies), !.at = "write"]]
    /\ Quietly(<<pushes, stores, account>>)

\* ingestMessages, one post: the row, looked for and written in one
\* transaction; the unread count; the frame.  A frame of a known post is a
\* replay with another text, which the worker takes for stale; one that the v2
\* store refuses is logged.
\* A mutant: known or not.
CountsAnyway(t, p) == task[t].counts /\ p \notin channel.own
IsNew(t, p) == posted[p] = 0 /\ task[t].counts /\ p \notin channel.own
CountedAs(t, p) == IF IsNew(t, p) THEN [counted EXCEPT ![p] = @ + 1] ELSE counted
Framed(p, text) == [frames EXCEPT ![p] = IF @ = 0 THEN text ELSE @]
Onward(t, p) ==
    LET left == task[t].page \ {p}
        done == [task[t] EXCEPT !.page = left, !.seen = @ \cup {p},
                                !.text = [q \in left |-> task[t].text[q]]]
    IN IF left # {} THEN done
       ELSE IF t = "thread" THEN NoTask
       ELSE [done EXCEPT !.at = IF t = "socket" THEN "reread" ELSE "save"]
IngestPost(t) ==
    /\ task[t].at = "write"
    /\ LET p == Least(task[t].page)
           stored == [posted EXCEPT ![p] = task[t].text[p]]
       IN \/ /\ posted' = stored /\ counted' = CountedAs(t, p)
             /\ frames' = Framed(p, task[t].text[p])
             /\ task' = [task EXCEPT ![t] = Onward(t, p)]
             /\ UNCHANGED <<passed, upsets>>
          \/ /\ UpsetRiver /\ frames[p] = 0
             /\ posted' = stored /\ counted' = CountedAs(t, p) /\ passed' = passed \cup {p}
             /\ task' = [task EXCEPT ![t] = Onward(t, p)] /\ UNCHANGED frames
          \/ /\ UpsetRiver /\ posted' \in {posted, stored}
             /\ task' = [task EXCEPT ![t] = NoTask]
             /\ passed' = IF t = "socket" THEN passed \cup {p} ELSE passed
             /\ UNCHANGED <<counted, frames>>
    /\ Quietly(<<pushes, cursor>>)

\* The cursor as it was read, with what the page adds.
Advanced(t) ==
    LET read == task[t].read IN
    IF t \in {"start", "poll"}
    THEN [oldest |-> IF read.oldest = 0 THEN Least(task[t].seen) ELSE read.oldest,
          newest |-> Most(task[t].seen)]
    ELSE IF t = "older" THEN [read EXCEPT !.oldest = Least(task[t].seen)]
    ELSE [read EXCEPT !.newest = Most(task[t].seen)]
SaveCursor(t) ==
    /\ task[t].at = "save"
    /\ \/ cursor' = Saved(Advanced(t)) /\ UNCHANGED upsets
       \/ UpsetRiver /\ UNCHANGED cursor
    /\ task' = [task EXCEPT ![t] = NoTask]
    /\ passed' = IF t # "socket" THEN passed
                 ELSE passed \cup LeftOut(t,
                        {p \in InRange(Least({task[t].read.newest, cursor.newest}), Most(task[t].seen)) :
                            posted[p] = 0 \/ frames[p] = 0})
    /\ Quietly(<<pushes, posted, counted, frames>>)

(* --- the socket ------------------------------------------------------------ *)

SocketConnects ==
    /\ river.running /\ ~river.socket
    /\ river' = [river EXCEPT !.socket = TRUE]
    /\ UNCHANGED <<outside, stores, account, task>>
SocketDrops ==
    /\ river.socket /\ UpsetRiver
    /\ river' = [river EXCEPT !.socket = FALSE] /\ pushes' = <<>>
    /\ UNCHANGED <<stores, channel, task, sending, passed>>

\* An event is acknowledged, then handled (runSocketSession, ingestSocketMessage).
TakePush ==
    /\ river.running /\ pushes # <<>> /\ FreeToStart("socket")
    /\ pushes' = Tail(pushes)
    /\ LET e == Head(pushes) IN
        \/ /\ e.kind = "delete"
           /\ posted' = [posted EXCEPT ![e.post] = 0]
           /\ UNCHANGED task
        \/ /\ e.kind = "post"
           /\ task' = [task EXCEPT !["socket"] =
                IF channel.kind[e.post] = "blank" THEN NoTask
                ELSE [NoTask EXCEPT !.page = {e.post}, !.text = [p \in {e.post} |-> e.text],
                                     !.counts = TRUE, !.at = "write"]]
           /\ UNCHANGED posted
    /\ Quietly(<<counted, frames, cursor, account>>)
Reread ==
    /\ task["socket"].at = "reread"
    /\ task' = [task EXCEPT !["socket"].read = cursor, !["socket"].at = "save"]
    /\ Quietly(<<pushes, stores, account>>)

(* --- the rest -------------------------------------------------------------- *)

\* SendText: the platform, then the frame; the row comes with its echo.
SendPost ==
    /\ river.running /\ sending = 0 /\ channel.posts # Posts /\ Stirs
    /\ LET p == Cardinality(channel.posts) + 1 IN
        /\ p \in Writable /\ channel.kind[p] = "peer"
        /\ channel' = [channel EXCEPT !.posts = @ \cup {p}, !.own = @ \cup {p}]
        /\ pushes' = Pushed([kind |-> "post", post |-> p, text |-> 1])
        /\ sending' = p
    /\ UNCHANGED <<stores, account, task, river>>
EmitSent ==
    /\ sending # 0 /\ sending' = 0
    /\ frames' = Framed(sending, 1)
    /\ UNCHANGED <<account, channel, pushes, posted, counted, cursor, task, river>>

\* StopAllSlackRivers and the end of the process, whichever finds the writers
\* where they are.
EndRiver ==
    /\ river.running /\ UpsetRiver
    /\ river' = [running |-> FALSE, socket |-> FALSE] /\ pushes' = <<>> /\ sending' = 0
    /\ task' = [t \in Tasks |-> NoTask]
    /\ UNCHANGED <<stores, channel, passed>>

SlackNext ==
    \/ SomebodyPosts \/ TouchPost \/ StartRiver \/ PollTick \/ AskOlder \/ AskThread
    \/ \E t \in Tasks : FetchPage(t) \/ IngestPost(t) \/ SaveCursor(t)
    \/ SocketConnects \/ SocketDrops \/ TakePush \/ Reread \/ SendPost \/ EmitSent \/ EndRiver
SlackSpec == SlackInit /\ [][SlackNext]_slackVars

(* --- properties ------------------------------------------------------------ *)

\* The cursor is what every poll trusts: between its ends each post that can be
\* shown is in both stores, whichever writers raced, failed or were cut short -
\* but those that a page was too short for, that the socket ran ahead of, that
\* the v2 store refused, or that were deleted (syncChannelHistory,
\* ingestSocketMessage, SyncOlderHistory).
Spanned == {p \in Posts : cursor.oldest # 0 /\ cursor.oldest <= p /\ p <= cursor.newest}
CursorCovers ==
    \A p \in Spanned \cap channel.posts :
        \/ channel.kind[p] # "peer" \/ p \in passed \cup channel.deleted
        \/ posted[p] # 0 /\ frames[p] # 0

\* However many writers meet a post, it is counted unread once, and the user's
\* own never (UpsertMessageAndReportNew).
CountedOnce ==
    \A p \in Posts : /\ counted[p] > 1 => p \in channel.deleted
                     /\ counted[p] > 0 => p \notin channel.own

\* The four writers of a channel leave it whole.
RiverIsWhole == CursorCovers /\ CountedOnce

\* What was edited is shown edited by both stores.  It is not: the frame of an
\* edit has the key of the first, and the worker takes it for a replay.
EditsAreShown == \A p \in Posts : posted[p] = 2 => frames[p] = 2

=============================================================================
