# A TLA+ development of om-tui

om-tui is a local messaging daemon with a terminal front end. It connects to
Google Messages, WhatsApp, Signal and Slack, keeps conversations in SQLite (a
*legacy* store, `messages.db`, and a *v2* store, `v2/store.sqlite3`), sends
through a durable outbox and reads through a durable inbox. These modules model
the parts of it in which order, failure and time decide what the user sees,
check them with TLC on small instances, and prove most of the safety properties
with TLAPS for instances of any size.

Paths are relative to `src/`; `internal/` is left out of a path where that is
clear. `PROJECT.json` names every component, run, theorem, hazard and, for every
definition, the lines it stands for.

## 1. Inventory

| Component | State it keeps | What happens to it | Modules |
| --- | --- | --- | --- |
| Outbox repository (`storage/sqlite/outbox.go`) | outbox rows: state, schedule, retry time, lease, call marker, result id; the optimistic message | enqueue, lease, mark, six verdicts, recover, reconcile, cancel, retry | `Outbox` |
| Message service and dispatcher (`messaging`) | leased batch, wake channel, poll timer | `Run`, `DispatchDue`, sends, `SendAgain`, echo, repair | `Outbox` |
| Bridge adapters (`bridgeadapters`) | one run per generation; nothing across sends | sends with a verdict; start, callbacks, end | `AdapterSend`, `SignalPoller`, `WhatsAppLink`, `GoogleSession` |
| Ingest sink and worker (`ingest`) | inbox rows with a processed mark, work queue | append, notify, drain, project, retry, quarantine | `IngestInbox` |
| Ingest identity, repair (`ingest/idspace.go`, `repair_idspace.go`) | conversations, bindings, rosters, messages by number | route, rebind, merge, plan, apply | `IdSpace` |
| Reactions and read cursors (`storage/sqlite/reactions.go`, `read_cursors.go`) | one row per reactor; one cursor | embedded lists, single events, receipts, own presses | `Marks` |
| Bridge supervisor (`bridge/supervisor.go`) | generation, state, timers, worker results, fence | commands, deadlines, results, callbacks, shutdown | `Supervisor` |
| Platform supervisors (`cmd/*_supervisor.go`, `cmd/google_pair.go`) | the current supervisor, closing and pairing flags | connect, replace, park, unpair, pair, retest, stop | `AccountControl` |
| Live Signal client (`signallive/client.go`) | log and recovery file of received lines, poller status | poll, log, handle, replay; probe, streaks, parks | `SignalReceive`, `SignalPoller` |
| Live WhatsApp client (`whatsapplive/client.go`) | client, device, ban deadline; legacy rows | dial, pair, ban, unpair; messages, edits, receipts, photos | `WhatsAppLink`, `WhatsAppReceive` |
| Live Slack client (`slacklive`) | channel cursor, unread counts | poll, Socket Mode, older pages, threads, own sends | `SlackRiver` |
| Google client and generations (`app/google_*.go`, `client`) | session file, generation, status flags | start, callbacks, end, cookie rewrite, repair | `GoogleSession` |
| Backfill (`app/backfill*.go`) | pages, thread recency, placeholders | deep, shallow and recent passes, refreshes | `GoogleSync`, `Tui` |
| Legacy scheduler (`app/scheduler.go`, `db/scheduled.go`) | `scheduled_messages` | create, cancel, claim, send, record, retry | `Scheduler` |
| Direct sends and submission (`app/send.go`, `v2wire/submit*.go`, `web/api.go`, `tools`) | send keys, drafts | five ways to send, legacy and durable | `SendPaths` |
| Legacy projector (`v2wire/projector.go`) | a cursor over confirmed rows | scan, copy, reset | `Projector` |
| Blob store and media service (`storage/blob`, `media`) | files by hash, attachment rows | open, shared download, put, mark | `Media` |
| Offline migration, carry (`migration`, `cutover`) | a staged copy, a fresh store | capture, load, plan, write, validate; carry or report | `Transform` |
| Backup, migrate, lock (`cmd/backup.go`, `migrate.go`, `instance_lock_unix.go`) | data directory, instance lock | stage, rename, roll back, back up, import | `DataDir` |
| Application glue (`cmd/serve.go`, `cmd/v2stack.go`, `app/app.go`) | stores, controls, runners, deferred calls | start, unwind, restart | `ServeRun` |
| Terminal UI (`tui`) | list, window, composer, commands under way | keys, answers in any order, pages, drafts | `Tui` |
| Legacy store (`db`) | rows the live clients upsert | as the clients use it | several |
| Web API, MCP tools, registry, SQLite schema, Slack decoder | - | as far as the above use them | several |
| Importers, views, export, vault, avatars, rivers, other decoders | - | batch, read-only or stateless | not modelled |

How they interact. A request becomes an outbox row; the dispatcher leases it,
asks the registry for the account's adapter, marks the call and sends; the
adapter's verdict closes the row, and the platform's echo reconciles it. A live
client hands what it receives to the ingest sink (v2) and writes the legacy
store itself. A supervisor owns the adapter's run and is owned by a control in
`cmd`; `serve` owns all of them and the stores.

What is hard:

* **Outbox.** Each repository call is one immediate transaction; between two of
  them come calls, echoes, the clock, a crash. A platform may take a message and
  still answer with an error. Delivered at most once, nothing shown as sent that
  was not, nothing forgotten.
* **Ingest.** Frames come at least once; one frame is several transactions; the
  queue may drop a signal. Every durable frame is applied whole or quarantined.
* **Supervision.** Results of an old generation, timers and commands race in one
  `select`; a stop may time out. One live run, one owner, no late callback.
* **Live clients.** The acknowledged exists only in this process; several
  goroutines read, work and write back the same rows and cursors.
* **Stores.** A process may die between two renames; a projection, a carry or a
  backfill must converge wherever it is cut short.
* **Interface.** Answers come for what is no longer open.

## 2. Modules

| Module | Content |
| --- | --- |
| `Outbox`, `AtMostOnceSend`, `OutboxRefinement` | the outbox and its dispatcher; what it promises; that it keeps the promise |
| `AdapterSend` | one transport call through an adapter, and the verdict |
| `IngestInbox` | the inbox and its worker |
| `IdSpace` | the numbers of a replaced phone, and their repair |
| `Marks` | reactions and read positions |
| `Supervisor`, `AccountControl` | an account's event loop; what owns supervisors |
| `SignalReceive`, `SignalPoller` | Signal: the receive pipeline; one generation |
| `WhatsAppLink`, `WhatsAppReceive` | WhatsApp: the link; the rows it keeps |
| `SlackRiver` | Slack: one channel and its cursor |
| `GoogleSession`, `GoogleSync` | Google: the connection; one thread's history |
| `Scheduler`, `SendPaths` | timed sends; the ways to send |
| `Projector`, `Media`, `Transform`, `DataDir`, `ServeRun`, `Tui` | legacy visibility; attachments; migration and carry; the directory; processes; the interface |
| `OutboxMC`, `IngestInboxMC` | values for TLC |
| `LiveMC`, `DaemonMC`, `RecordsMC` | sums for TLC: a behaviour is about one part and the others stand still, so a sum says nothing about how its parts interact |
| `OutboxProofs`, `OutboxRefinementProofs`, `SupervisorProofs`, `IngestProofs`, `DaemonProofs`, `SendPathsProofs`, `LiveProofs`, `RecordsProofs` | theorems |

A definition called a *mutant* in a comment is a plausible bug of the
definition it stands before; no specification uses it. `PROJECT.json` says which
property it breaks.

Where parts do meet, one module has both sides: the echo and the outbox row
(`Outbox`), outbox presses and inbound lists (`Marks`), the poller and the
adapter's run that joins it (`SignalPoller`), the bridge's flags and its adapter
(`WhatsAppLink`), the live handler and the backfills (`GoogleSync`), the session
file and the browser's rewrite (`GoogleSession`), the commands that share a
directory (`DataDir`). A neighbour that is only used is abstract: a supervisor
is a state in `AccountControl`, a verdict an answer in `Outbox`.

### Outbox

* `row[i]` is the outbox row of intent `i` with the columns that decide
  anything. Texts, counts and payload tables are left out. Times start at 1, so
  0 is NULL. `msg[i]` is the remote id of the optimistic message; `dup` are the
  intents whose echo was stored as a second message, `pinned` those second
  messages whose DELETE a foreign key refuses. `echo[i]` is the frame that
  carries the echo.
* `wk[w]` is a daemon process: where its dispatcher is, the rest of its batch,
  the answer of its call, whether its context is canceled. One action is one
  transaction or one transport call, so every early return of `Run`,
  `DispatchDue` and the four dispatch functions is a disjunct: `Finish` for an
  update that may find the lease lost, `MutationFault` for a statement SQLite
  refuses, `RunFails` and `RunReturns` for the ends of `Run`.
* `Call` has the adapters (`bridgeadapters`) as the answers they may give: the
  transport takes the intent or not, and the answer is success, a definite
  refusal, "not called", or anything else. An acceptance is never invented, but
  the two definite answers need not be true: `Denials` are those that an adapter
  gives for what was taken. A failed read receipt counts as not called
  (`google/send.go:690`, `whatsapp/whatsapp.go:255`), so does a Google reaction
  without a response (`google/send.go:313`), and a Google caption that fails after
  its photo was accepted rejects the photo (`google/send.go:567`,
  `dispatch.go:905`). `accepted` counts what was taken and not denied, `denied` the
  rest, `Taken` both. So a message reaches its recipient at most once, a delivered
  photo may show as rejected, and reactions and receipts, which may be repeated,
  are. What makes the answers about messages true is `AdapterSend`'s.
* The instance lock keeps a second `serve` off the store. The lease protocol
  does not rely on it, so it is checked, and proved, with several processes.

`AtMostOnceSend` has only a status and a kind per intent and the two counts;
`OutboxRefinement` maps rows and processes to it by `StatusOf`.

### AdapterSend

`Routes` are the requests each platform's send makes, in order; `outgoing` is
the call and how far it is; each request succeeds, is refused, fails before or
after the platform took it, or outlives its time. The verdict is what the
adapter makes of it, and `intent` what `recordSendError` makes of the verdict.

### IngestInbox

* `inbox[f]` is the row of a frame, frames being taken up to their dedupe key.
  `AppendIngress` is the insert or the conflict; `Notify` the non-blocking send
  that follows it, which a full channel drops.
* `Plan(f)` is the sequence of transactions `applyEvents` makes of what the frame
  decodes to: conversations; the first message, which carries the inbox row
  along; the others; mutations, which mark the row too; reactions and receipts;
  the mark of a frame without a message. A row is marked in the middle of its
  frame: most of the properties are about that.
* `wk` is the worker goroutine. `Stale` is the check of a processed row by
  ProjectMessage; `Busy` and `Exhausted` are `retryTransient`, which starts the
  frame over; `Failed` is any other error or a panic; `Abort` a statement on a
  canceled context.
* `store` keeps one value per natural key; `log` is history.

### IdSpace

`phone` numbers threads and texts; `SwapPhone` gives it other numbers. A frame
is routed by number, sender and group as `idspace.go` does, then written as
`ProjectMessage` does. `worker` says which version of the worker filled the
store so far; `Repair` is the command's plan and its transactions. Names,
avatars and phone-number formatting are left out; participants are given.

### Marks

Platforms tell of reactions one by one (`river = "each"`) or as full lists in
every copy of the message (`"whole"`); records are processed in any order and
again after a crash (`midway`). `marks[who]` is a row with its sequence, `fence`
the newest list applied, `intents` what the outbox still owes the platform.

### Supervisor and AccountControl

* `loop` is the `supervisorLoop` with its snapshot. Commands, results, events
  and deadlines are one action each: a whole turn of `run`. What a handler makes
  of the loop is an operator on that record (`Route` is `routeFailure`,
  `Retired` is `retireCurrent`), and `Becomes` starts the workers the new record
  wants. `Elapse` may come between any two steps, so a deadline can pass between
  the check at the top of the loop and the handler `select` picks. The loop
  cancels a context before it waits for the fence: `Overdue` and `CloseFence` are
  the two halves of `handleConnectTimeout`, `Closed` (`pc = "leaving"`) and `Leave`
  those of the shutdown, and the start worker may stop its run between them.
* `starter`, `prober`, `repairer`, `pairer` are workers with their channels;
  `runs[g]` what became of generation `g`'s run; `forwarding` the callbacks
  inside the fence's read lock.
* Of the adapters there are the answers they may give: a start gives a run, an
  error, both or neither; a probe, a repair, a run end in any class.
  Left out: backoff lengths, fingerprints that differ within a class, texts and
  times, a full activity queue. The four terminal failures are routed alike.
* `AccountControl` keeps the fields the controls guard by their mutex
  (`control`), one abstract supervisor per generation of the control (`sup`), and
  one goroutine per click (`task`). Each stretch between two acquisitions of the
  mutex is an action.

### SignalReceive and SignalPoller

* `server`, `wal`, `recovery` are the lines signal-cli has not acknowledged, the
  write-ahead file and the recovery file; three kinds of goroutine work on them.
  A line has a kind and a message; a message's text is the line that wrote it.
  A stop, panic or crash may come between any two steps.
* `SignalPoller` has the poller goroutine with its failure counts, the adapter's
  run, and `ReportError` of a failing send, which may retire the generation the
  poller is about to end. `evidence` is history: what a park was based on.

### WhatsAppLink and WhatsAppReceive

* `dispatch` are whatsmeow's handler goroutines, each between two checks of the
  client; `host` the bridge's flags; `ban` the deadline in memory, on disk, and
  the clock; `lifeRun` and `attempt` the generation and the pairing attempt.
* `WhatsAppReceive`: the two handlers read a row, work on a copy and write it
  back; aliases are merged when a mapping is learned; `asked`, `asking`,
  `granted` are the requests for photos whose bytes did not come.

### SlackRiver

`task[t]` is a writer: start, poll, socket, older page, thread. A page is fetched
with the cursor as it was read, its posts are written one by one (row, unread
count, frame), and the cursor saved as `UpsertSlackSyncCursor` merges it. `passed`
is history: what a page or the socket stepped over.

### GoogleSession and GoogleSync

* `gens[g]` is a generation from its slot to its end; `thread` a goroutine of the
  library inside one of its callbacks, or a sender; `app` the client installed;
  `push` a cookie rewrite between reading and writing the session file. A connect
  may fail for good, by expired credentials, or by a refusal that is the user's
  case (`FailureStatus`).
* `GoogleSync`: `work` are the deep (or shallow) and the recent backfill, each a
  step per list, row, page and store; `liveAt` is the live handler, `holders` the
  placeholders of sends. Time is the message number, placeholders lie between. A
  fetch, the read of the latest row (`Bound`: then the thread counts as empty) and
  the write of a message (`Keep`: it is logged, and the run goes on) may fail;
  `missed` is the history of such writes.

### Scheduler and SendPaths

* `Scheduler`: `due` is the list one pass loaded, attempts included, which the
  code goes on to use while the table changes; load, claim, send and record are
  steps, any store call may fail, the process may die anywhere.
* `SendPaths`: `calls` are handlers of one way (web, draft, agent, tool, command
  line), `keys` the legacy claims, `outbox` the texts under a key. Answers get
  lost and callers repeat.

### Projector, Media, Transform, DataDir, ServeRun, Tui

* `Projector`: `scan` is a pass over rows by update time; `taken` the time read
  before the transaction that commits later; `told` and `late` are history.
* `Media`: a caller walks through `Resolve`; callers of one attachment share a
  flight, and one at a time holds the lock of the blob store. `files` tells a
  linked file from one that survives a power loss.
* `Transform`: the database and its log are copied while a daemon may write
  (`files`), rows are retained or counted out (`kept`, `tally`), each stage
  writes its table of `fresh`, and the gates compare counts, sampled rows, files of
  intents and the evidence of the source. `carry` is the carry.
* `DataDir`: one action per step of a command between which another may act or
  the process be killed; rows are sets of items.
* `ServeRun`: `process[d].deferred` is the stack of deferred calls, `live` what
  runs, with the Slack clients, extra rivers, backfills, sync loops and the server,
  which have no deferred call that waits for them (`Loose`). A start may fail or be
  interrupted at each stage, also after a bridge was opened and before its control
  is deferred (`TakeControl`).
* `Tui`: `ui` and `box` are the model's fields, `flight` the commands under way,
  each with the opening it belongs to; `daemon` answers.

## 3. Runs

| Run | Instance | Shows |
| --- | --- | --- |
| `outbox_mixed` | 2 intents (media, reaction or read), one of a Google account, 1 denial of each, 1 process, faults, 1 crash or shutdown | types; no accepted intent forgotten, no false confirmation, message and row stay one pair |
| `outbox_two_processes` | 1 intent of any kind of a Google account, 1 denial, 2 processes, leases of one tick, faults, 1 crash | a message at most once, calls accounted for, cancels, and the refinement of `AtMostOnceSend` |
| `outbox_progress` | 2 intents, a batch of 2, fairness | a due intent is taken up |
| `ingest_drain` | a batch of 2 messages delivered twice, an edit of its first, a channel of 1, 1 retry, 2 refused statements, 1 stop or crash | no lost wakeup, no frame left half applied, committed frames are handled in the end |
| `supervisor_loop` | 3 generations, 2 pairings, a circuit that opens at 2 | no run lost or stopped twice, no waiting state without its end |
| `supervisor_progress` | 2 generations, no pairer, fairness | Start is answered, Stop ends, silence ends |
| `live_links` | Signal receive and poller, three controls, the WhatsApp link, timed sends, four adapters, marks | lines and edits are kept, parks are founded, one owner, a ban survives, repeats are denied ones, verdicts are true, marks are the latest |
| `live_progress` | poller, controls, scheduler, fairness | a canceled run ends, a stopping control comes back, a due message is claimed |
| `daemon_work` | interface, directory, media, projector, Google connection, phone swap, `serve` | one fetch of older history, no half-published store, no mark without bytes, an exact cursor, connected means the current run, the right sender, nothing lost in a swap, one daemon and no store closed under accounts, runners and sweeps |
| `records` | migration, carry, WhatsApp rows, Google history, ways to send, a Slack channel | what passed is whole, every intent is carried or reported, a backfill that ended whole stored what it set out to but failed writes, one send per key, the cursor covers what it passes, missing photos stay owed |
| `bad_row` | migration | a filtered row can refuse the whole migration (finding) |
| `idspace_numbers` | phone swap with reused message numbers | a new message takes an old one's place (finding) |

Every property of a passing run has a mutant of the code that breaks it
(`PROJECT.json`, "mutants").

### Bounds

* **Outbox.** Rows share nothing but the clock and the batch, so two intents show
  every pairwise effect (order, the rest handed back, a resend beside its
  predecessor) and one intent with two processes every lost lease. There a lease of
  one tick and a clock of three let a lease expire before, during and after a call
  and the row be leased again, twice; a clock of two, once, is what two intents
  have. One denial is one more acceptance than the outbox knows of; a second only
  repeats it. One crash reaches every place of the loop. The batch of
  `outbox_progress` holds the whole backlog; a smaller one starves what lies
  behind a batch's worth of offline rows, since `ReleaseUnavailable` leaves their
  due key as it is.
* **Ingest.** A channel of one is full after one notification, as the real one is
  after 64. Two frames make a snapshot older than the second append, a replay
  before, between and after the edit, and a drop of either notification. One retry
  and two refused statements reach a frame that starts over, one whose retries are
  used up, and a failing quarantine.
* **Supervisor.** Two generations show every race of an old one with a new one;
  the third is for a failed repair, a connectivity failure and a failed repair
  again. Two pairings are one that is banned and one that must not begin.
* **Live.** Two lines are a message and its edit. Three Signal generations and
  limits of two or three let a streak be built, broken and rebuilt. Two callers,
  three supervisors and four calls let a click meet a stop, its replacement and
  the next click. One handler goroutine, two clients, clock 2 and two events let a
  ban be told, saved, shortened, and met by a restart. Two timed messages, two
  attempts and two mishaps; two calls per row; one other person, two emojis and
  two records (a list and an event, either order, one replayed).
* **Daemon.** Two conversations, one of them Slack's, pages of one, three keys and
  two commands under way: open, scroll, open another. One kill and one refused
  file operation in the directory, two attachments of one file with two callers,
  two sends of either kind with a clock of three, two generations with one pushed
  jar, three threads and four texts before and after a swap, two processes of
  three shapes (`stdio` is the daemon without its server, `demo` has a directory
  of its own).
* **Records.** One odd row beside an ordinary one and a late one; two intents and
  two passes; a photo of the user's and one of a peer's; two messages of the phone
  with pages of one; two requests of two tries. Slack: three posts, pages of one,
  two writers at a time and one upset, an upset in place of the third post
  (`MaxStir`). The third post matters: a post skipped between two others is what
  a cursor with two ends can hide, and two posts cannot show it. Larger instances
  (four posts, three writers, three upsets) were explored while it was written.

Bounds are guards named in the modules (`MaxTime`, `MaxKills`, ...); the theorems
hold for all their values.

### Deadlock

`CHECK_DEADLOCK FALSE` everywhere: with a bounded clock, bounded users and bounded
crashes each of these systems really comes to rest (a settled outbox, a worker
that waits after the last delivery, a stopped supervisor, processes that ended).
What must not come to rest is said by `NothingStranded`, `NoFrameForgotten` and
the properties of the progress runs.

### Fairness

Weak fairness of a goroutine that is ready to run, of a call that its code bounds
by a timeout, of `Start` (the daemon is started again), and of the clock; nothing
of users, platforms, echoes, connections or crashes. So `DueIsTried` says *taken
up*, not *delivered*. In `IngestInbox` the worker and an append between insert
and notification are fair; a busy database may use up a frame's retries, after
which nothing promises another attempt before the next notification, and
`FrameIsHandled` excepts it. In `Supervisor` a worker that is not canceled may
hang for ever, one that is canceled returns; steps that close the fence are
strongly fair, because callbacks pass it again and again and a goroutine that
waits for the write lock of an `RWMutex` keeps new readers out. In `SignalPoller`
the poller's loop, the reports and the run's coordinator are fair; in
`AccountControl` the goroutines of clicks, the drains and the watcher.

## 4. Findings

Two runs expect a violation and are listed in `PROJECT.json`.

* **One filtered row refuses the migration** (`bad_row`, `BadRowNeverAborts`).
  `dropMessage` takes a row out of every count but that of transcripts; validation
  then asks for a number no store can reach.
* **A reused message number overwrites an older message** (`idspace_numbers`,
  `HistoryKept`). The guards of `idspace.go` are about threads; a new phone may
  give a message the number that another of the same thread had.

Other properties were written down, found false, and kept in their modules as
statements of what the code does *not* do. Add `INVARIANT` or `PROPERTY` to the
run's cfg to see the counterexample; where a cfg is named it exists for that.

| Module: property | What the code does |
| --- | --- |
| `Outbox`: `RunsUntilCanceled` (`Outbox_late_marker.cfg`) | a lease that runs out between `DispatchDue`'s check and the marker ends `Run`; nothing restarts it (comment at `messaging/dispatch.go:16`) |
| `Outbox`: `CrashedCallRecovers` (`Outbox_quick_restart.cfg`) | recovery is done once at start: restarted within the 30 s lease, a marked row stays in flight |
| `IngestInbox`: `SupersededStays` (`Ingest_edits.cfg`) | a repeated edit undoes a later one; mutations do not look at the processed mark |
| `IngestInbox`: `LeavesUnprocessed` (`Ingest_exhausted.cfg`) | a frame given up "leaving unprocessed" has been marked by its first message |
| `Supervisor`: `StopJoins` (`Supervisor_stop.cfg`) | a start result in its channel when Stop is selected is never read |
| `SignalReceive`: `LoggedUntilHandled` (`Signal_log.cfg`) | the loop's removal of the log precedes what a host still reads from it |
| `Marks`: `PressLeadsLast` (`Reaction_again.cfg`) | a known idempotency key answers a third press (`docs/tui.md:298`) |
| `Projector`: `SwapIsFinal` (`Projector_swap.cfg`), `LosslessCursor` | a copy written late stays beside the platform's row; a commit at a time already passed is skipped |
| `DataDir`: `RefusalIsCurable` (`Directory_refusal.cfg`), `PrimaryHasHistory`, `BackupIsWhole` | an empty store above 4096 bytes passes for a migrated one; a backup by file copy beside an import is torn |
| `Media`: `BytesOfRef`, `OwnCancellation` | a reference edited during a download gets the old bytes; one caller's cancellation is answered to others |
| `GoogleSession`: `ConnectedHasClient`, `NewestJarKept`, `LoggedOutStaysOut`, `OwnFailureEnds` | a callback admitted before a logout publishes "connected" after it took the client (`google_generation.go:71`, `:134`); a snapshot of an older client overwrites newer cookies or a removed session; a generation ends by another client's failure |
| `GoogleSync`: `DoneIsWhole`, `RecencyNeverFalls`, `UnechoedIsShown`, `NoGapLeft` | a client change ends a backfill without an error, and so does a message whose write failed (`backfill.go:750`); an older snapshot lowers a thread's time; an echo without a placeholder's id takes another send's; a message that came before the recent backfill looked for the latest row hides the gap below it |
| `IdSpace`: `RepairApplies`, `RepairSettles`, `RefusedIsStored` | some plans cannot be applied, some need a second run (against `repair_idspace_test.go:239`), some quarantined texts are nowhere (against `idspace_collision_test.go:204`) |
| `AdapterSend`: `RejectedNotTaken` | a refused caption rejects a photo that was delivered |
| `SendPaths`: `SuccessIsReal`, `RefusedIsUnsent` | success may rest on a claim given back before its state was read; a repeated key is refused though it was sent (`localapi.go:683`) |
| `AccountControl`: `NoSecondOwner`, `RetestOnlyUnreadable` | a Google stop that timed out is followed by a reconnect that replaces the supervisor while the old one drains; `StartParkRetest` may also restart a park that is not the unreadable one it was started for |
| `SignalPoller`: `UnreadableIsConsecutive` | the failures counted need not come from generations in a row: one that ends for another reason leaves the streak as it was |
| `WhatsAppLink`: `RetiredNeverAffects` | a callback of a retired client that is between its two checks still writes flags |
| `WhatsAppReceive`: `NothingReturns` | a receipt read before a revoke writes the message back; likewise a left group |
| `SlackRiver`: `EditsAreShown` | an edit has the key of the first frame and is taken for a replay |
| `Tui`: `SentWhereTyped`, `ExhaustedMeansOldest`, `NoGap` | a newer draft is removed by an older send's answer; answers of another opening mark or fill the window |
| `ServeRun`: `LooseEndsAreTied`, `RiversKeepStore` | sync goroutines, the scheduler, backfills and the HTTP server outlive the stores; extra rivers and Slack clients append to a v2 store that the stack's stop has closed (`v2stack.go:443`, `app.go:931`) |

Read in the code while modelling, and in the models as they are:

* *Slack.* The cursor is one record with two ends and four writers. A reader that
  finds it empty (a first fetch, or a poll before it) leaves out what its page is
  too short for; if an older page was taken meanwhile, the posts between the two
  are inside the cursor's range and are never asked for again
  (`slacklive/client.go:370` and `:604`). A socket event moves `NewestTS` past
  whatever was missed while the socket was down. A page limit of 25 or 30 leaves
  a gap for good. `RiverIsWhole` excepts exactly these, each where it happens
  (`LeftOut`). Deletions never reach the v2 store; a page read before a deletion
  brings the post back; reactions are only added; a reply first read by
  `FetchThread` is never counted unread; a re-paired river keeps its old client.
* *Ingest.* A frame that a busy database restarts after a later write of its first
  message's key is judged stale, and its rest is dropped: `LeavesWholeOrDefective`
  is proved for frames that write that key once (`FirstIsWrittenOnce`).
* *Outbox.* An echo observed during the call leaves the projected copy until a
  later frame (`outbox.go:1793`); 32 unrepairable rows keep newer ones from repair
  (`outbox.go:2009`); a repeat after a remote edit fails as corrupt
  (`outbox.go:895`).
* *Signal.* A replay of the log restores the first text over a merged edit
  (comment at `client.go:2154`); an edit without its target rewrites another
  message of the same author within 15 s; the output of a failed poll is dropped
  though acknowledged. A send that waits 20 s for the command lock is recorded
  uncertain though never run.
* *WhatsApp.* `ConnectPairing` giving up before its dial leaves the pairing flag
  set. A history replay resets status and edited text. A mapping learned between
  two normalisations stores a message under a conversation whose row is gone.
  Merging a placeholder's alias deletes another text of that second and body.
* *Google.* A cookie refresh returns success without a write when the bridge is
  offline and no native refresh exists (`serve.go`, near 1375). Backfills store
  tapbacks as texts.
* *Sends.* A legacy draft sent twice by a double click; a draft saved again under
  a sent id; one edited between `GetDraft` and `DeleteDraft`; a claim left at
  "sending" by a crash; a switch of modes between repeats uses two key tables.
* *Interface.* `cycleRiver` drops unsaved text; `conversationsMsg` and `searchMsg`
  carry no river; `errMsg` clears `sending`; `messagesMsg` ignores the thread root;
  the palette decides by whether anyone shows the emoji; a retry after a timeout
  has a new key.
* *Migration and directory.* A Slack row with media, a row of an unknown platform
  and several shapes of reaction entries abort the migration. Rows imported
  between validation and rename are missing. A rollback that cannot remove the
  store still removes its blobs.
* *Serve and rivers.* Google and Signal may live past the lock after a timed-out
  stop; a failed WhatsApp start leaves a connection outside any supervisor; a
  river created at run time is not observed by the v2 stack until a restart, and
  two created at once get one id. `DeleteTab` beside an assignment leaves a
  conversation in no tab.
* *Importers* (not modelled). The window of the Signal Desktop import binds only
  to the second half of its condition; upserts reset unread counts and own
  statuses; rescans by the daemon never reach the v2 store.

## 5. Proofs

TLAPS checks the theorems from nothing, for every value of the constants. What
they take as given are the named assumptions of the modules: sets of intents,
frames and messages are finite, bounds are numbers, a marker such as `NoIntent`
is not one of the things it stands beside. Three of them say something of the
world: `KeyIsOneMessage` (`SendPaths`; an idempotency key belongs to one way of
sending, as each way makes its own keys), `Kind \in [Lines -> KnownKinds]`
(`SignalReceive`; a line is one of the kinds its parser knows), and
`MessagesWrittenOnce`, which only `IngestInboxMC` has and only `LeftWhole` needs.

A theorem about a specification `Spec` has one shape throughout: an invariant
`IInv` that is inductive, a lemma per action and conjunct, and a last step by
PTL. Each invariant was an INVARIANT of TLC on the instance of its run before it
was proved. A property that a run checks and a theorem states is named by the
theorem; the property alone is never inductive, and what has to be added is the
argument:

* **`OutboxProofs`**: `TypeInv`, then `SafeInv`. That a message is taken at
  most once (`SentAtMostOnce`) needs that one that was taken is never open again
  (`NeverForgotten`), which needs that every call under way is behind the marker
  of its own row (`CallsAreMarked`), that no second call is open for the row
  (`CallsAreAlone`), and that an answer "not called" is true of a message
  (`AnswersAreTrue`); of the other kinds only what was not denied is claimed. The row's actions are handled once, by frame lemmas on what
  an update that still holds its lease may change.
* **`OutboxRefinementProofs`**: `Implements` proves the implication
  `Spec => Promise!Spec`: initial states map to initial states and each action of
  the outbox to one action of `AtMostOnceSend` or a stutter under `StatusOf`;
  `PairStays` proves that message and row agree (`PairInv`), which the mapping
  does not say.
* **`SupervisorProofs`**: `SupInv` says in which loop state there is which timer,
  worker, run, fence, probe, debt, budget and ban (`ShapeOK`, `CountOK`, `RunsOK`,
  `FenceOK`, `ProbeOK`, `OwedOK`, `BudgetOK`, `BanOK`). `RunsAccounted` needs that
  a start's result in its channel is of the generation that waits for it;
  `NothingStranded` needs the shape of every waiting state. `RepairHolds`,
  `RepairsBounded`, `FenceHolds` and the action property `BanHolds` follow from it.
  `FenceHolds` is not that a stopped run has no callback inside: between the cancel
  and the closing of the fence the start worker may stop a run that came late.
* **`IngestProofs`**: `IngestInv`. A row is marked by one transaction of its frame
  while others are still to come, so the invariant says which steps of the plan
  are behind a mark (`MarkOK`) and that a half applied frame is the one the worker
  has in hand (`HalfOK`), and what wakes a waiting worker (`WakeOK`). Wholeness
  holds for frames that write their first message once: a frame that starts over
  after another has written that message is judged stale, and its rest is
  dropped. `MarkedIsCompleted` states it for one frame, whatever the others are.
* **`DaemonProofs`**: media (`MediaInv`: one flight per attachment, bytes synced
  before the mark), the Google connection (`SessionInv`: who has the slot, what is
  installed, to which run a callback belongs; a connected run without its client
  is ending), the projector (`CursorInv`: a row
  not yet projected is ahead of the scan, or was awaited), the directory
  (`DirInv`: lock, target, stage, by the step of the command), the interface
  (`FetchInv`: commands under way are of this opening or an earlier one), and the
  processes of serve (`ServeInv`: the deferred calls lie in the order of their
  stages, a process on its way up has what each stage below left, and what is live or
  open belongs to a call that is still to come or is being made, but for `Unawaited`:
  what nothing waits for has its stores until the process returns, no longer).
* **`SendPathsProofs`**: keyed sends (`SendInv`: every request on its way holds the
  claim of its key, `ClaimIsHeld`, and a claim that was taken is behind every send,
  `TakenFits`); the legacy scheduler (`SchedulerInv`: a pass's snapshot against the
  table, the tally of calls and answers; also the action property `FinalStays` and
  the budget); and WhatsApp's rows (`WaInv`: which event, row and copy a handler may
  have in hand, and that what is marked as asked for is asked for; every write of a
  row then keeps its media, `MediaIsOwed`).
* **`LiveProofs`**: WhatsApp's connection (`BanInv`: a ban's deadline is on disk
  wherever its event has got to), the controls (`OwnInv`: a replaced supervisor has
  ended, and who stops holds the current one; for Signal and WhatsApp, whose stop
  waits; see `NoSecondOwner` for Google's), the Signal poller (`PollInv`: every exit
  in hand or requested is backed by what it is concluded from), the adapters' calls
  (`AnswerInv`: what the recipient has of a call under way), the marks (`MarksInv`:
  the date of a reaction row, or the fence of the list it came with; with the
  action property `CursorAdvances`), and the receive pipeline. There `ReceiveInv`
  says where a line is: a goroutine that will remove the log has in its hands what
  it took from it (`TookOK`), a replay has all of the queue that it will rewrite
  (`ReplayOK`), and only the loop holds a line that no file has (`AckedOK`).
  `ThreadInv`, on top of it, says that of a message not muddled what a goroutine
  has read still holds, since it is the only one at it.
* **`RecordsProofs`**: the carry (`CarryInv`), the migration (`MigrationInv`, stage
  by stage: what the copy knows of the source, what was kept and counted, what the
  queue and the cursors hold, what the gate compares), the backfills (`SyncInv`:
  what is owed lies below what the pages have reached, or is in `missed`), and a
  channel of Slack. There `RiverInv` is about cursors that are not saved yet: the posts between the
  ends are good for every cursor a writer has read (`Covers`); what a poll is about
  to save covers what lies under it but for its page (`PollCovers`), so does an older
  page (`OlderCovers`); and where an older page found the newer end empty it will
  take whichever is saved by then, so from any lower end it may save up to any newer
  end that a writer may save the posts are good (`OldMeets`, a condition on each pair
  of writers, in which `LeftOut` is what the step of the other one needs).

Planning these proofs changed models twice for the better: the wholeness of
frames got its hypothesis, and `SlackRiver` its second way to leave posts out
(`LeftOut`), which an attempt at an inductive invariant for the cursor brought
up and TLC then showed on three posts.

Not proved, and why:

* Liveness (`DueIsTried`, `FrameIsHandled`, `LoopGetsOn`, `RunEnds`,
  `ControlComesBack`, `DueIsClaimed`), whose steps need ENABLED.
* `SenderIsPeer` and `HistoryKept`: the repair is a fold over the conversations, so
  what it computes is an induction over data.

## 6. Not modelled, and the plan

Left out for good: reading views, export, stories and visualisation (read-only);
the vault and configuration (files read once); contacts and avatars; formatting,
HTTP and the wire formats of the platforms, which are the live libraries'. Left
out so far:

* *Importers* (`internal/importer`): batch upserts, of which the window of the
  Signal Desktop import is the interesting part.
* *Rivers* (tabs, the river registry): only the re-paired Slack river is in.
* *Ingest decoders*: stateless; `IngestInbox` takes what they yield as the frame's
  content, `SlackRiver` has the identity of Slack's frames.
* *Web API and MCP tools*: the ways to send, presses and schedules; the queries,
  the event stream and the settings are not.
* *SQLite*: a transaction is atomic and durable, or fails whole.

Plan:

1. A theorem for `SenderIsPeer`: it needs the repair restated as one step per
   conversation inside a transaction that nothing else sees, in place of the fold.
2. The importers and the rest of the web API, then the other stores' upserts.
