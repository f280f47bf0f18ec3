# A TLA+ model of line-connect

line-connect bridges a LINE Official Account to a Dify application: LINE posts
webhooks, the server stores each event in SQLite, answers 200, and workers ask
Dify and send the answer back. This directory holds TLA+ models of the parts of
that server in which order, failure and restarts matter, the TLC runs that check
them on small instances, and proofs, checked by TLAPS, of the properties that
hold for every instance. Paths below are relative to `src/line_connect/` of the
repository unless they begin with `tests/` or name a file of its root.

## 1. Inventory

| Component | State | Operations | Must hold | Model |
|---|---|---|---|---|
| Webhook and intake (`api/webhook.py`, `pipeline/queue.py`) | none but the call in progress | `line_webhook`, `submit_raw` | an event is claimed once; every claimed event is taken up | Pipeline |
| Inbox (`storage/repository.py`, `001_init.sql`) | table `inbox`: status, attempts, reply_sent_at, enqueued_at | `try_claim_event`, `get_job`, `mark_*`, `recover_orphans`, `list_pending`, `purge_expired` | outcomes are final; recovery never answers twice and always ends | Pipeline |
| Job pipeline (`pipeline/queue.py`) | `_queues`, `_inflight`, `_draining`, the worker tasks | `start`, `stop`, `_enqueue`, `submit_flush`, `_worker_loop`, `_process`, `_sweep_stranded` | one worker per chat, order, no row forgotten, a drain that ends empty | Pipeline |
| Media debounce (`pipeline/debounce.py`) | `_buffers` with a timer each | `add`, `_fire_after`, `pop`, `cancel_all` | a batch is flushed, once, on its chat's worker | Pipeline |
| Bridge (`pipeline/handlers.py`) | none of its own | `handle_text`, `handle_media`, `flush_media`, `/clear` | the conversation id survives failures | Pipeline (outcomes), Conversation |
| Dify client (`dify/client.py`, `dify/errors.py`) | none of its own | `chat`, `stream_chat`, `blocking_chat`, `classify_http_status` | retry policy: only a missing conversation drops the id | Conversation |
| Reply delivery (`pipeline/replier.py`, `line/reply_token.py`, `line/client.py`, `pipeline/notify.py`) | consumed tokens (bounded), quota breaker, last notice per chat | `send`, `send_text`, `_push`, `notify_job_failure` | a spent token is not used again; the breaker saves pushes; notices are rare; the inbox says what the user saw | Delivery |
| Media store (`admin/media_store.py`) | files, table `media` | `save`, `_evict`, `resolve`, `unlink`, clearing | both caps; files and rows agree | MediaStore |
| Admin authentication (`admin/auth.py`, tokens in `admin/repository.py`) | attempts per address, table `admin_tokens` | `login`, `validate`, `record`, `_evict_stale`, `create_token` | no lockout is missed or undeserved; sessions hold, and are few | AdminAuth, Dashboard |
| Message log (`storage/repository.py`, `admin/actions.py`) | tables `messages`, `conversations` | `log_message`, `log_admin_message`, `clear_history`, `clear_all_chats`, `purge_expired`, `list_chats` | list and counters agree with the log | MessageLog |
| Analytics (`admin/analytics.py`) | none | the panels' queries, the export | the panels agree with each other | MessageLog |
| Admin repository and actions (`admin/repository.py`, `admin/actions.py`) | tags, notes, names, templates | tag edits; the rest are point writes | tags on chats are on the list | ChatTags, Dashboard (partly) |
| Formatting (`formatting/`) | none | `build_reply`, `split_text`, `strip_markdown`, `md_to_flex_contents` | a reply LINE takes, nothing dropped without a notice | Formatting |
| Signature, health, events, configuration, logging | none | checks, parsing, settings | | not modelled |
| Admin page (HTML, CSS, JavaScript) | the operator's browser | | | not modelled, but for what its actions send (Dashboard) |

How they interact: the webhook calls `submit_raw`, which claims a row in a
thread and then puts its id on the queue of the chat's shard. The worker of the
shard loads the row, marks it, and runs the handler, which asks Dify through
`chat`, writes the conversation id through callbacks, and sends through the
replier, which writes back to the row. Media handlers only park a file; a timer
puts a flush item on the same shard. A housekeeping task sweeps the table for
rows that are on no queue, and purges old ones. At a restart only the tables
are left.

What is hard: everything runs on one event loop, but every repository call is a
thread call, so the code after an `await` acts on what was true before it.
Memory (`_inflight`, queues, buffers) and table are updated at different times,
four callers put items on bounded queues, and the process may end between any
two steps. The same holds below: threads share the database lock, but an
operation may take it twice, and its statements commit one by one. `PROJECT.json` lists each hazard at its line, with the properties
that watch it or the reason why none does.

## 2. The models

### Pipeline

`Pipeline.tla` is the server's life: `Boot`, intake, queues, workers,
housekeeping, drain, crash.

| Code | Model |
|---|---|
| `inbox` rows | `inbox`, with `status`, `attempts`, `replied` (reply_sent_at is set), `age` (0, past the recovery window, past retention), `"purged"` for a deleted row |
| `_queues`, `_inflight` | `queue`, `inflight` |
| `_draining`, process up or not | `phase` |
| a worker's coroutine | `worker[s].pc`: `taken` (got an item), `running` (marked processing), `sent` (LINE accepted, reply_sent_at not written), `settled` (handler about to return), `flushing`, `flushSent`, `exited` |
| `submit_raw` after `try_claim_event` has committed | the row is in `intake` |
| `list_pending` result held by the sweep | `snapshot`; `batch` while its loop runs |
| debounce buffers and timers | `parked`, `timer` |

Steps are cut at the awaits: what a coroutine does between two awaits is one
step, what a repository call does is part of the step that commits it. `Claim`
and `EnqueueClaimed` are the two halves of `submit_raw`; `SweepReads`,
`SweepResumes` and `EnqueueNext` are the sweep. The history variables
(`answers`, `excused`, `raced`, `unrecorded`) only record what the properties
speak of, and no guard reads them.

Abstractions:
- A handler run is what the pipeline can see of it: an answer LINE accepted, one
  that could not be delivered, nothing, a parked file, or an exception. The job
  timeout is an exception that may come in any of the handler's states. How a
  send chooses between reply and push is not in the model.
- `get_job` and `mark_processing` are one step: between the two only
  `purge_expired` could matter, and it does not touch unfinished rows.
- The loops of the sweep and of recovery take one step per row, during which
  nothing else of the process runs (`LoopFree`); in the code they contain no
  await.
- Buffers are per chat, in the code per chat and kind. The two buffers of a chat
  are independent and go through the same queue.
- The intake goes on during the drain: requests uvicorn has accepted may still
  be in `submit_raw`, which is why `_enqueue` looks at `_draining`.
- `StopRaises` ends the process at once; what workers could do before the
  interpreter is gone is what they could have done before it.
- `RowAges` lets time pass, older rows first, as `enqueued_at` is monotone in
  the row id.

### Conversation

`Conversation.tla` is one chat's `conversation_id`, the turns that read and
write it, and Dify. A turn reads the id (`Begin`), sends a request, and follows
`chat`: `Retries` is the retry policy, `Classify` the error classes. Dify is
external: it makes conversations (`DifyAccepts`), forgets them (`DifyForgets`)
and refuses requests (`Refusals`); `StrayNotFound` says whether a request with a
good id may be answered 404, by a proxy for instance. Turns of a chat do not
overlap (`Serial`): this is `OneWorkerPerChat` of Pipeline, which is proved.

### JobQueue

`JobQueue.tla` is what inbox and pipeline promise for a message, without queues,
workers and sweeps: it is accepted, waits, runs, comes to one end, is forgotten;
a restart runs it again while it is unanswered and has attempts left. A job that
was queued twice (`raced`) is promised nothing. `PipelineRefinement.tla` maps the
rows of the inbox to the jobs: `ImplementsJobQueue`.

### Delivery

`Delivery.tla` is the one `Replier` and the one `Notifier` under several workers,
cut at the HTTP calls. LINE is external: it knows which reply tokens are spent
and how many pushes are left; it takes a call (`LineAccepts`) or refuses it, and
the response to one it took may be lost (`Results`).

| Code | Model |
|---|---|
| `_consumed` (an OrderedDict with a cap) | `consumed`, a sequence |
| `_push_blocked_until` | `blockedUntil` |
| `Notifier._last_notified` | `notified`; when each chat was sent its apologies is the history `notices` |
| the inbox row of a job | `job`: status, attempts, replied, and the timestamps tokens are judged by |
| a worker in `send` or in `notify_job_failure` | `run[w].pc`, with what it sends (`what`) and whether LINE took it |

An answer is text, media, or both (`Batches`): `_push` tries again with the text
only. The job timeout may end a handler at any await (`Timeouts`), after which
the worker marks the job failed and apologises. Parking and batches are
Pipeline's; the inbox is cut down to what delivery reads and writes.

### MediaStore

`MediaStore.tla` is the media directory, the table that indexes it, and threads
that save, evict and clear. Files are written before the lock is taken and
unlinked after it is released; each file operation and each statement is a step
after which an error or a crash may come. `MEDIA_STORE_ENABLED` may change with
a restart. A message has one file; its name is left out.

### MessageLog

`MessageLog.tla` is `messages` and the columns of `conversations` computed from
it. A repository call is one step with a `cut`: where its statements stop when an
error or the end of the process comes in between. Questions, answers, operator
messages, both clears and retention write; the chat list and the queries of
`analytics.py` are operators over the log, with hours as the unit of time and
`HoursPerDay` of them in a day.

### AdminAuth, ChatTags, Dashboard

`AdminAuth.tla` has the login limiter (in memory) and the tokens (in the
database), `ChatTags.tla` the list of tags and the tags of the chats. `Dashboard`
composes them: operators log in from addresses, `dispatch` looks at the token,
and a request that has begun goes on when the session ends. `remove_tag` and
`rename_tag` take the lock twice, so they are two actions (`RemoveTag` or
`RenameTag`, then `Rewrite`); a page saves the tags it has read earlier
(`OpenChat`, `SaveTags`). Names that `json.dumps` escapes are in `Escaped`.

### Formatting

`Formatting.tla` is the pure part: from the answer of Dify to the messages of a
reply. `BuildReply` computes a reply as the code does; the properties compare it with
what the answer contains. Answers are sequences of lines, lines sequences of
tokens (text, blank, table cell, table separator, quote mark, image, image with a
bad URL, markup without text such as `[](url)`), each one character long; a quote
mark begins its line, and a table's line is cells and images (`LinesAssumption`).
`Strip` knows blanks and line breaks, as `str.strip` does; `SplitText` knows line
breaks only, as `split_text` does. A conversion to Flex that raises leaves the plain
reply, whatever the settings (`Reply`). What a bubble may leave out is named: blank
lines, the separators of tables, and the headers of tables without rows (`LeftOut`);
`FlexShowsAll` is about lines, and compares a line with its rich text (`RichText`).

## 3. Runs

`tlc -config X.cfg MCX`, where `MCX` is the module that the run of
`PROJECT.json` names. Properties are stated, with the code they are about, at
the end of the modules.

| Run | Instance | What it shows |
|---|---|---|
| `pipeline_restarts` | a text and a media event of one chat, queue of one, every outcome, one process end (crash, drain, grace, failed drain) | `OneCopyUnlessRaced`, `NeverStranded`, `AnsweredOnce`, and the refinement `ImplementsJobQueue` |
| `pipeline_retention` | one event delivered again after its row was purged, ages, failing database calls, one restart | `AnsweredOnce` where rows are deleted |
| `pipeline_order` | three events, two chats, two shards with queues of one | `TypeOK` (with the bound of the queues), `OneWorkerPerChat`, `FifoUnlessExcused` |
| `pipeline_live` | two events, queue of one, exceptions, failing database calls, one restart, fairness | `EventuallyStarted`, `EventuallyFinished` |
| `pipeline_media` | one media event, debounced; ages, failing database calls, a restart, fairness, a queue that cannot overflow | `AttemptsBounded`, `ExitedShardIsEmpty`, `EventuallyFlushed` |
| `pipeline_processed_once` | one event, no restart | the disagreement 1 of section 6: `ProcessedOnce` is violated |
| `conversation` | two workers, four conversations | `SeenIsStored`, `ForkOnlyOnRetry`, `ExistingIsKept` |
| `delivery` | two workers, three jobs of two chats, a quota of one push, memories of one, one restart | `TokenReusedOnlyAfterCap`, `RecordMatchesUser`, `ShownTwiceOnlyIfUnheard`, `RefusalsBounded`, `OneApologyPerWindow` |
| `media_store` | two threads, three files of 4 bytes against caps of 2 files and 2 bytes, an error, a restart, fairness | `CapsHold`, `DoomsOnlyOverflow`, `OrphansExplained`, `MissingOnlyIfResaved`, `EventuallyUnlinked` |
| `message_log` | two chats, three rows, two days of two hours, one cut | `PreviewMatchesLog`, `CountsEveryRow`, `PanelsAgree` |
| `dashboard` | two operators behind one address, two names, one of them escaped, two requests, one cut | `FailuresBounded`, `SessionsHold`, `TagsAreListed` |
| `formatting` | every answer of up to five lines of eleven kinds (blank lines and markup without text among them), Flex and stripping on and off, conversions that raise | `Sendable`, `TextIsWhole`, `ImagesInOrder`, `FlexShowsAll` |

Bounds. `MaxRows` and `Events` bound what is ever claimed, `MaxIntake` how many
`submit_raw` calls overlap, `MaxRestarts` how often the process ends, `MaxAge`
how far time passes, `MaxConvs` the conversations. A queue of one overflows with
two rows, so refusals, sweeps and failed drains all happen; two rows of a chat
are what order needs, and a third for a second chat; one restart is enough for
every recovery case, as recovery depends only on a row. In `pipeline_restarts`
claims come one at a time (`MaxIntake = 1`): overlapping ones matter to the order
of rows, not to the life of each, and `pipeline_order` and `pipeline_live` have
them. `pipeline_media` has `MaxAttempts = 1` so that one restart reaches the
bound, and a queue that never fills, because a refused flush is the disagreement 3
of section 6. Four conversations let a turn make one, lose it, make another and
retry. `delivery` has three starts for three jobs: a job that is run again takes
the place of another. The memories of one (`ConsumedMax`, `NotifiedMax`) are
trimmed by the second entry. In `media_store` the large file exceeds no cap alone and the
two small ones fit together, so both caps bite; one save may be a second one of
the same message. `message_log` has rows on both sides of a day's end and of the
retention cutoff. In `dashboard` two failures lock an address out and a counter
outlives its lockout by nothing, the shortest the assumptions allow; both are
proved for every value. Five lines are what a table with a header, a separator
and a row between text needs, and more than three messages hold. Where a system
may stop, because its bounds are used up or nothing is left to do, the
configuration says `CHECK_DEADLOCK FALSE`.

Fairness. In `FairSpec` of Pipeline, the event loop runs every ready coroutine,
so recovery, the sweep and its loop are weakly fair, and coroutines that the loop
of a sweep may disable again and again are strongly fair: the second half of
`submit_raw`, the debounce timer, and a worker. A worker's fairness says that
handlers end, which the job timeout sees to (a flush has none, and relies on the
timeouts of its HTTP calls). The drain ends by its grace period. Nothing makes a
crash, an event, a shutdown, an ageing row or a database failure happen, and
nothing keeps one from happening: `EventuallyStarted` therefore assumes that calls
stop failing some day (`DatabaseRecovers`), as a row whose `get_job` raises each
time it is swept is never started; `EventuallyFinished` assumes nothing. In
`FairSpec` of MediaStore the operating system runs every thread: each is weakly
fair, also where it waits for the lock, as only finitely many others ask for it.
Errors and crashes are never forced.

## 4. Proofs

`PipelineProofs.tla` and `PipelineRefinementProofs.tla`, which extends it,
`ConversationProofs.tla`, `DeliveryProofs.tla`, `MediaStoreProofs.tla`,
`DashboardProofs.tla`, `MessageLogProofs.tla` and `FormattingProofs.tla`, checked
with `tlapm`. Every safety invariant of the runs is a theorem. Every inductive
invariant was model-checked before it was proved.

- `TypeCorrect`: `Spec => []TypeOK`. `TypeOK` alone is not inductive: a flush is
  answered under the last row of its batch, and a busy worker must hold a row.
  `TypeInv` adds `BusyHasRow`. With it comes the bound on the queues: every
  append is behind a length guard, the sentinel's included.
- `ShardPinning`: `Spec => []OneWorkerPerChat`. The property speaks of workers
  only, and is kept because everything on its way to a worker is at home:
  `PinInv` says that queued rows and flushes are on their chat's shard
  (`QueuesHome`), that parked files are their chat's (`ParkedHome`), that workers
  serve chats of their shard (`WorkersHome`), and that every row named anywhere
  has an event, so that its chat does not change (`RowsKnown`, `TrackedKnown`).
  Each action needs one or two of the conjuncts; the rest are frame lemmas.
- `NeverForgotten`: `Spec => []NeverStranded`. The sweep skips what is in
  `inflight`, so the invariant `ServiceInv` has to say that this is safe: a
  pending row in `inflight` is on a queue or has just been taken
  (`InflightWaits`); a row a worker has marked is not pending any more
  (`HeldNotPending`), so that a worker that gives up on it strands nothing; a
  process that is down has nothing in memory (`DownIdle`), so that recovery
  starts from empty sets. `WaitsStep` shows that a waiting row goes on waiting
  unless a repository call raises or the process ends, `HandedOver` that a row
  leaves the intake and the loops only through `_enqueue`, or because it waits
  already.
- `DrainHandlesAll`: `Spec => []ExitedShardIsEmpty`, from `DrainInv`: a sentinel
  is on a queue only while draining, as its last item (`StopLast`), since
  `_enqueue` and `submit_flush` put nothing once `draining` is set.
- `CopiesOnlyRaced`: `Spec => []OneCopyUnlessRaced`, and `AttemptsAreBounded`:
  `Spec => []AttemptsBounded`, from `CopiesInv`. A row nobody raced for is in one
  place at a time, `Solo`: in `submit_raw`, then once on one queue, then with one
  worker, and in `inflight` all through the last two; what waits is pending, what
  runs is processing. Nothing but a sweep can break this, since `submit_raw` and
  recovery hand a row over once. That a worker only starts what may be started
  needs `PendingFresh` (a pending row is unanswered and has attempts left, which
  only recovery could spoil), `FilesNotPending` (a batch writes to rows that have
  been handled) and `DownEmpty` (nothing survives the process but the tables).
- `PerChatOrder`: `Spec => []FifoUnlessExcused`. A message is overtaken if a
  younger one of its chat is with a worker while it waits, so what has to hold is
  the order in the queue: of a pending row that is not excused, no younger row of
  the chat is held, and none is queued but behind it, or behind its being taken
  (`InOrder`). A younger row joins the queue only through `_enqueue`, and then
  `EnqueuedBehind` shows that the older one waits already: by `NeverStranded` it
  is on the queue, with its worker, in the intake, in a loop or excused; in the
  intake it is excused by that very step, in a loop it is enqueued first (lowest
  id first), and `Solo` leaves no other copy to run ahead.
- `PipelineImplementsJobQueue`: `Spec => ImplementsJobQueue`, by simulation. In
  states of `LifeInv` (`CopiesInv`, and `RowsUsed`: a row with an event has been
  used) every step of the pipeline is a step of JobQueue or leaves its state alone;
  one lemma per handler says which (`ClaimMaps`, `StartMaps`, `ReplyMaps`,
  `UndeliveredMaps`, `DoneMaps`, `FailedMaps`, `PurgeMaps`, `BootMaps`, `StopMaps`,
  `SweepMaps`). Frame lemmas leave the rest.
- `EventsAnsweredOnce`: `Spec => []AnsweredOnce`, from `AnswerInv`: of an event
  that is no exception there is one row that ever lived (`LiveOnce`, `OneClean`),
  it has one answer at most, and none as long as one may be yet to come
  (`MayAnswer`): as long as the row waits, runs, lies in the debounce buffer, is
  being flushed, or would be run again by recovery. `MayAnswerBack` shows that no
  step but a claim makes an answer possible that was not; that needs that a file
  is with its handler, in the buffer or in a flush, but in one of them only
  (`FileOnce`), and that a row that was answered without `reply_sent_at` is still
  with the worker that answered it, or in `unrecorded` (`AnswerOutKept`).
- `SeenIsAlwaysStored`, `ForksAreRetries`, `ExistingKept` (the last with
  `~StrayNotFound`): from `ConvInv`, which says that at most one turn is under
  way (`Alone`) and relates each stage of a turn to the column (`Consistent`):
  before anything was seen, the column is what the turn read or what a reset
  left; afterwards it is what the turn has seen.
- `LoginsAreThrottled`: `Spec => []FailuresBounded`. The property speaks of the
  failures of an address, the code of a counter that is evicted, starts anew after
  a lockout and knows one time only. `Counts` says what the counter knows: it
  counts the last failures; those before them were a lockout earlier than the
  first it counts, or than now if it counts none; a full counter is locked for a
  lockout from the last failure. Eviction keeps this because an entry lives at
  least as long as a lockout (`EvictionCounts`, the one use of
  `Lockout <= EntryTtl`), and one more failure does (`OneMoreCounts`).
- `SessionsAreHeld`: `Spec => []SessionsHold`. Rows may be trimmed, expire, and be
  left over by a cut call, so that the table may hold more rows than it should;
  `Held` says that of the unexpired rows the newest are there, and with a row all
  newer ones, so that the trim, which counts rows, counts logins.
- `StepsOfAuth` shows that whatever operators do to tags is no step of the
  authentication, so that these lemmas are about `AdminAuth` alone.
- `TagsStayListed`: `Spec => []TagsAreListed`. The property is inductive with the
  types (`TagsInv`): the first half of a removal or rename takes a name off the
  list and makes it one that is leaving; the second half needs that a rewritten
  list has the old name no more (`RewrittenIs`). `At`, which picks elements of a
  list, is specified by an order of the positions; that there is one
  (`PositionsOrdered`) is proved from a least counterexample (`LeastElement`).
- `DashboardTypeCorrect`: `Spec => []TypeOK`. That the table of tokens stays small
  is not in the types of its steps: `NewestFew` counts what the trim leaves, the
  oldest row of which has fewer than `Keep` newer ones.
- `PreviewsFollowTheLog`: `Spec => []PreviewMatchesLog`, `RowsAreCounted`:
  `Spec => []CountsEveryRow` and `LogTypeCorrect`, from `LogInv`. Retention deletes
  by age and the preview goes by id: `Ordered` (ids rise with time) is what makes
  the newest user message of a chat the last to expire, so that a preview that
  loses its row has lost all of them (`PurgeStep`). `Ensured` (whoever is logged or
  asks has a conversations row) is why no uncut row goes uncounted. `Max` needs no
  finite set, as the invariant names the largest id.
- `PanelsAlwaysAgree`: `Spec => []PanelsAgree`, from `LogInv` (the log is finite,
  its rows are typed and none is later than now). A sum, `Total`, is the number of
  elements of a disjoint union, so that no induction is needed: `SumOfClasses` gives a
  bijection between a set and the classes it is split into. The entry of a day
  depends on the rows of that day alone (`DailyIs`: the groups of `_MAIN_QUERY` that
  fall on the day are its hours), whatever the window; then days split a window
  (`DaysAddUp`), hours a day (`HoursAddUp`), buckets the timed answers
  (`BucketsAddUp`). `WithinIs` turns the half-open bounds of `_iso_bounds` into days,
  and `WindowsMeet` says that two adjacent windows leave nothing out.
- `DeliveryProofs` has one invariant, `DeliveryInv`, for six theorems.
  `WorkInv` says who works on what: one worker per chat (`ChatInv`), and what the
  inbox says of the job a worker holds, stage by stage (`StatusInv`).
  `InboxMatchesUser` (`RecordMatchesUser`) and `DoubledOnlyIfUnheard`
  (`ShownTwiceOnlyIfUnheard`) follow from `AnswerInv`: of an answer LINE has shown
  the inbox knows, or will from the one worker that has it in doubt, or LINE took
  it without our knowing. `BreakerBoundsRefusals` (`RefusalsBounded`) counts: while
  the breaker is open, refusals so far and pushes under way are no more than the
  workers. `TokensSpentOnce` (`TokenReusedOnlyAfterCap`): the remembered tokens are
  the last ones sent, without repetition, and all of them if fewer than the cap, so
  that a forgotten one lies behind as many others as the cap says.
  `ApologiesRemembered` (`OneApologyPerWindow`) is about the history of what each chat
  was sent: its apologies lie a window apart, and the last one is remembered as
  long as the window lasts (`NoticesInv`), since the trim only drops what is older.
  `DeliveryTypeCorrect`: `TypeOK`.
- `MediaStoreProofs` has one invariant, `StoreInv`, for five theorems; one lemma
  per action shows that it is kept. `EvictionIsExact` (`DoomsOnlyOverflow`) is about
  the loop of `_evict`, a function defined by recursion over the rows.
  `IterationExists` and `IterationUnique`, from a least counterexample, say that
  there is one such function; `TallyStep` is the loop's invariant (the newest rows
  kept so far, with their number and bytes, and why the first doomed one is), and
  `DoomedIs` what it leaves. `CapsAreHeld` (`CapsHold`): while an eviction is under
  way, the index without the rows it has yet to delete fits (`Evicts`), and at any
  time the index without doomed rows does (`Spared`); a clear only makes it less
  (`FewerFit`). `MissingWasResaved` (`MissingOnlyIfResaved`) needs `Counted`: each
  save of a message is in one place, with its thread, in the index, or in the hands
  of a thread that will unlink it, so that a message in two of them was saved
  twice; whoever unlinks the file of an indexed message is the second.
  `OrphansAreExplained` and `StoreTypeCorrect` come with it.
- `FormattingProofs`: a reply is either not there or what `BuildReply` makes of the
  answer (`FormInv`), whether or not a conversion raised, so the work is in what the operators return for every answer and
  every limit. Facts about all sequences are proved by a least counterexample
  (`LeastElement`, then `UpTo`, `Appending`, `Downwards`), and so is that the
  functions defined by recursion, `from` in `SplitText` and in `MdToFlexContents`,
  exist (`JumpsExist`). `SplitIs` says what `split_text`
  returns: chunks that fit, none beginning with a line break, which show the text but
  for line breaks; `ChunksCut` says where they end, so that one is blank only if it
  was cut out of a line of blanks (`ChunksAreHonest`). `RichTextIs` says which lines
  are empty in a bubble.
  `FormatPlainReplyIs` and `BuildReplyIs` give the shape of a reply, which makes
  `RepliesAreSendable` (`Sendable`) and `ImagesAreInOrder` (`ImagesInOrder`) plain.
  `PlainRepliesAreWhole` (`TextIsWhole`) adds what the cut keeps (`CutIs`).
  `BubblesShowAll` (`FlexShowsAll`) is by induction from the last line back: from
  any line on, the loop shows what is due (`ContentsShow`), where a table is one
  jump, its lines in a row being all in the table or before it.
The assumptions are the named ones of the modules: events have chats, chats have
shards, the queue holds at least one item, `NoEvent` is no event; the limits of
the dashboard are positive, and a counter lives as long as a lockout; the workers
of Delivery are finitely many; LINE takes a text of
two characters and a reply of one message.

Only model-checked: the liveness properties (`EventuallyStarted`,
`EventuallyFinished`, `EventuallyFlushed`, `EventuallyUnlinked`), as fairness and
ENABLED are out of the prover's reach.

## 5. Plan

Done: Pipeline and Conversation; Delivery, MediaStore, MessageLog with the
analytics, AdminAuth, ChatTags and Dashboard, Formatting; the abstract JobQueue and
its refinement; the proofs of every safety invariant that a run checks.

Next, in this order:
1. The debounce with its two kinds of buffer, and a composition of Pipeline's
   serial turns with Conversation, in which recovery runs a turn again.
2. Two chats' images in one MediaStore with the pages that ask for them.

## 6. Where code and documentation differ

One is shown by a run:

1. `tests/integration/test_dedup.py:1`, "the same event must be processed exactly
   once": a sweep between the commit of a claim and its enqueueing puts the row on
   the queue, and `submit_raw` puts it there again; `_process` does not look at the
   status. The same follows from a list of pending rows that has grown old.
   `OneCopyUnlessRaced` shows that this is the only way.

The models contain these, too, and the properties except them by name:

2. `queue.py:3-4` and `README.md:22`, strict order: a message refused by a full
   queue (`queue.py:177`) is overtaken. `FifoUnlessExcused` shows what else can
   make that happen.
3. `debounce.py:11-13` and `tests/integration/test_shutdown.py:1-2`, "never
   silently lost": a flush refused by a full queue (`queue.py:187`) waits, without
   a timer, for the next file of its chat, its rows being 'done' already.
4. `client.py:10-11` and `errors.py:3`, transient errors keep the conversation:
   the blocking retry (`client.py:98`) uses the id read before the stream; if there
   was none, the conversation the stream made, already stored, is replaced by a
   second one. `ForkOnlyOnRetry` shows that this is the only way.
5. `errors.py:27`, "Dify explicitly reports the conversation does not exist": any
   404 counts as that report (`errors.py:38`), also one for another user, and
   `dify_user` changes with the display name (`handlers.py:396`): `StrayNotFound`.
6. `replier.py:12-13`, "push is skipped for a cooldown": a worker whose push was
   under way still retries it with the text only.
7. `media_store.py:4-6`, both caps hold: files that lost their row to a crash or
   a failed unlink, or were cleared with the store switched off, are neither
   counted nor evicted. `OrphansExplained` names them.
8. `admin/analytics.py:289-291`: the export asks the database again, so what it
   holds may differ from the panel; and where it is capped it keeps the oldest
   rows.
9. `README.md:99`, errors: the rate compares user messages with answers; a batch is
   several messages and one answer, and answers to earlier messages may put the
   success rate above 100.
10. `admin/repository.py:329-335`: a tag whose name has a quote or a backslash is
    taken off the list and stays on every chat; a rename that meets the removal of
    its new name leaves an unlisted one. `TagsAreListed` has both as exceptions.
11. `queue.py:10-11`, "a crash loses nothing but in-flight work, which startup
    recovery re-enqueues", but an error may lose it longer: a `mark_done` or
    `mark_failed` that raises (`queue.py:211-217`) leaves its row 'processing' while the worker goes on
    (`queue.py:245`). No sweep looks at such rows; the next boot does.
    `EventuallyFinished` shows that this is the only way to be left so.
12. `formatting/plain.py:11-13`, nothing is dropped silently: images beyond the
    fifth message are (`plain.py:46`). An answer that stripping reduces to nothing
    is sent as it was, possibly blank (`plain.py:49-50`).
13. `formatting/markdown.py:44-48`: the search for a line break and the `lstrip` know
    no other blank, so a line of blanks between two cuts becomes a message of its
    own, and LINE refuses the reply. In Flex, a quoted line without text
    (`flex.py:147`) and markup without text (`flex.py:177-209`) become empty text
    components, which LINE refuses too. `Sendable` excepts these, and shows that
    nothing else is sent blank or empty. Tables without rows, cells beyond the header
    and the URL of a link (`flex.py:194-204`) are not shown.

## 7. Left out

- Everywhere: wording, prompts, profiles, logging and metrics; HTTP parsing and
  signatures; the database engine (a statement is atomic, or raises); writes of a
  thread whose coroutine was cancelled, except those the steps of the pipeline
  allow. The loading indicator swallows a cancellation while it stops
  (`handlers.py:459`): how asyncio delivers cancellations is below these models.
- Migrations (`storage/db.py`): one that a crash cuts between its statements fails
  when it runs again, as `ALTER TABLE` is not idempotent; a single process at a
  time makes this the only case, and there is nothing else to check.
- Delivery: LINE's rate limits other than the quota; read-only calls.
- MediaStore: a crash in the middle of writing a file; names of files.
- MessageLog: a row's timestamp is taken when the lock is, averages, image and
  new-user counts, writes between two queries of one panel.
- Dashboard: several addresses (the proof has any number), templates, notes, names,
  stars and exports, which are single writes or reads; `revoke_token`, which
  nothing calls.
- Formatting: headings, lists and inline markup, but for markup without text, are
  text: what a line loses to them is outside `FlexShowsAll`. LINE's limit on bytes
  is counted in tokens.
- The admin page, except for what it keeps between requests (its session and the
  tags it has read).
