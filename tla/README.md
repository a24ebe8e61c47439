# Reader-Core-Native: specifications and proofs

Reader-Core-Native is a reading-app core written in Rust. A host application (Android,
iOS, Harmony) loads it through a C ABI, sends it JSON commands and receives JSON events
from one worker thread. The core never touches the network or the screen: when it needs
a page, a file or a user, it asks the host with a `host.request` event and goes on when
the host answers with a `host.complete` or `host.error` command.

This directory models the parts of the core where the order of events matters: the
request engine, the bridge that lets rule scripts call the host, the page chain of remote
commands, synchronisation between devices, the store in its two backends, and what stands
between a source and the reader: the refreshed table of contents, RSS, reading aloud. TLC
checks the models on small instances; TLAPS proves the theorems listed below for every
value of the constants.

## The system

| component | state it keeps | operations | talks to |
|---|---|---|---|
| C ABI (`crates/reader-ffi`, `include/reader_core.h`) | the handle, a thread-local last error | create, send, cancel, destroy, version | calls the request engine |
| request engine (`reader-runtime/src/runtime.rs`) | active ids, cancelled ids, pending host operations, the operation counter, the command channel, the shutdown latch | `send`, `cancel`, `Drop` on host threads; the worker loop, `dispatch_command` and its handlers | channel to the worker, event sink to the host, the bridge |
| host callback bridge (`host_callback_bridge.rs`) | map of pending callbacks, one result slot each, its own operation counter, the id of the current request | `dispatch_and_wait` on the worker; `try_complete` on host threads; `abort_all_pending` in `Drop` | condition variables, event sink |
| remote commands (`remote.rs`) | none between commands: continuations travel in the pending operations | search, detail, contents, chapter, their continuations page by page | rule engine, bridge, storage |
| text to speech (`tts.rs`) | one queue of slices and a position per chapter | slice a text; play, pause, resume, stop, next, previous | the host speaks, and drives the queue |
| sync (`crates/reader-sync`) | the journal of local changes: entries, next sequence, next revision | record, package, acknowledge, export and import; merge of snapshots under four policies, of progress records and of backups | the host moves packages and files |
| storage (`crates/reader-storage`) | shelf, reading progress and its history, chapter cache, download queue, plain keyed records; in memory or in SQLite | put, save, move, claim, report, cancel, prune, export and replace | called on the worker; download workers belong to the host |
| RSS library (`crates/reader-rss`) | subscriptions with unread counts, entries with marks | write and remove a subscription, refresh, mark, import | the host fetches the feeds |
| tables of contents (`crates/reader-content`) | none: the host keeps the list and the place | compare two lists, carry the reading place over | remote commands |
| contract, rule engine, content pipeline, feed parsers, local books, domain | none | pure functions over text and JSON | called on the worker |
| JavaScript sandbox (`crates/reader-js`) | one QuickJS context per evaluation | evaluate a rule script | calls the bridge |

Three threads of control matter: any number of **host threads** calling `send` and
`cancel`; the **worker**; and the thread that destroys the runtime. The three registries
of the engine are behind *separate* mutexes, so a cancellation, a completion or a shutdown
is a sequence of critical sections that interleave. There is no persistence inside the
engine. The hard behaviours are therefore:

* interleavings of `send`, `cancel`, `Drop` and the worker between two locks;
* stale marks: what a cancel leaves behind and a later command finds;
* host answers that are late, repeated, of a wrong id, or never come;
* the worker blocked inside JavaScript, where it can take no command;
* timeouts (thirty seconds for a callback, five for the join of `Drop`) racing an answer;
* sync packages and acknowledgements lost, repeated, delayed and reordered, and restarts
  from a save that is older than what was sent;
* download workers that report late, die, or hold a task that was enqueued again;
* two implementations of one store that have to agree call by call;
* indexes into lists that change under the reader: chapters, slices, feed entries.

What makes each component correct:

* **request engine**: an accepted id is answered once; a cancelled request does not get
  a result later; no operation is pending for a request that is gone; no id stays reserved
  with nobody to release it; a shutdown answers everything queued before it and nothing
  but cancellations follow; the worker ends when it is told to.
* **bridge**: no callback is left in the map; an answer reaches the callback it is for,
  once; each callback names the right request; an answer or an abort wakes the script
  without the help of the timeout.
* **sync**: merges are independent of order and number; an acknowledged change is really
  in the shared data; a journal always passes its own validation.
* **remote commands**: every page chain is bounded, no page is taken twice, none is lost.
* **text to speech**: the slices say the whole text once and in order, each at its place;
  no slice but the current one is being spoken, what is done lies before it without a gap,
  and a queue is not completed before its last slice is done. What the documents say beyond
  that of completed, stopped and paused queues, the code does not do (below).
* **storage**: a download is claimed by one worker at a time and settles in the end. There
  is no lease: a task whose worker died stays in progress until it is enqueued again or
  cancelled. Pruning keeps the newest chapters; the progress is the newest of its history,
  in whatever order saves arrive; both backends answer alike.
* **RSS library**: an entry is announced once and never without its subscription; unread
  counts are right.
* **tables of contents**: after a refresh the saved place means the same chapter, unless
  a chapter has nothing to be known by but an index that is another one's title (below).

## Modules

### ReaderRuntime (with RequestLifecycle, MCReaderRuntime, ReaderRuntimeProofs, FreshRequestProofs)

One step is one critical section, one atomic access, one channel operation or one call of
the event sink; `pc` says where each thread is between two of them.

| code | model |
|---|---|
| `active_requests`, `cancelled`, `pending_host_operations` | `active`, `cancelled`, `ops` |
| `next_operation_id`, the mpsc channel, its receiver | `nextOp`, `queue`, `rxOpen` |
| the `shutdown` flag, `Drop` | `shutdown`, `life` |
| `Runtime::send` | `SendBegin`, `SendReserve` or `SendDuplicate`, `SendEnqueue` or `SendRefused` |
| `Runtime::cancel`, `cancel_request_by_id` | `CancelBegin`, `CancelMark`, `CancelUnlink`, `CancelUnmark`, `CancelRelease`, `CancelNotify`, for a host thread and for the worker |
| `worker_loop` | `WorkerRecv`, `Return`, `DrainQueued`, `DrainDone`, `WorkerExit` |
| `dispatch_command` and its handlers | `Dispatch`, `ExecuteAtOnce`, `ExecuteRemote`, `ExecuteHost`, `ExecuteCancel`, `ExecuteReply` |
| `register_pending_host_request`, `dispatch_host_smoke`, `dispatch_remote_host_request` | `Register`, `RegisterRecheck`, `Unregister`, `HostRequest` |
| `dispatch_host_complete`, `dispatch_host_error` | `ExecuteReply`, `ClaimMissing`, `ClaimOperation` |
| `dispatch_runtime_shutdown` | `ShutdownLatch`, `ShutdownCollect`, `ShutdownDropOps`, `ShutdownForget`, `ShutdownNotify`, `ShutdownAnswer` |
| `finish_request`; `finish` of remote.rs and tts.rs | `FinishTake`, `FinishRetire`, `FinishEmit`; without `FinishTake` |
| `Drop for Runtime` | `DestroyBegin`, `DestroySignal`, `DestroyJoin` |

Methods are grouped by what they do to the registries (the comment on `Methods`). A remote
command is answered, or asks the host and is continued, as its rules decide: a free choice
here. `accepts`, `answers`, `announced`, `asked`, `acked`, `owed` and `delivered` are
history: what the host did and saw. No guard of the engine reads them; two guards of the
*host* do (how often an id is used, and which operation ids it knows).

`RequestLifecycle` is the promise for one use of an id: accepted, then answered with one
result, or cancelled, or (for a host reply) delivered in silence. `LifecycleSpec` maps the
engine to it through `accepts`, `answers` and `delivered`. A repeated CANCELLED is the same
phase: a shutdown may send two, and no document promises one.

### HostCallbackBridge (with MCHostCallbackBridge, HostCallbackBridgeProofs)

The worker here runs requests whose scripts call the host at will; the registries of the
engine shrink to the pending operations that the bridge must not confuse with its own.

| code | model |
|---|---|
| the map of pending callbacks, `PendingCallback` | `pending`, `slot` |
| `next_op_id` from 1,000,000; the runtime's counter from 1 | `nextJs` from `JsBase`; `nextOp` |
| `current_request_id` | `stamp` |
| `dispatch_and_wait`, `PendingCallback::wait` | `CallHost`, `RequestHost`, `Wake`, `Timeout`, `CleanUp` |
| `try_complete` in `send`, and the command that is not taken | `Intercept`, `Deliver`; `FallThrough`, `EnqueueReply` |
| `dispatch_host_complete` and `_error` | `ReplyUnknown`, `ResumeRequest`, `FailRequest` |
| `Drop` with `abort_all_pending` and `join_with_timeout` | `DropLatch`, `DropAbort`, `DropWake`, `DropSignal`, `DropJoin`, `DropDetach` |

The host only answers operations it was asked for, but may answer each several times, from
several threads. The timeout may fire at any moment while the slot is empty. The join of
`Drop` gives up (`DropDetach`) only while a script is blocked in a callback: its five
seconds outlast every other step of the worker, and nothing else in the model blocks.

### Pagination (with MCPagination, PaginationProofs)

One request of `book.toc` or `chapter.content`, whose twin loops are the same over chapters
and over text. A page names the next one; the request is suspended in a host operation and
the continuation carries what has been merged. Which page links where, and where a fetch is
redirected to, is the web's choice at every reply.

| code | model |
|---|---|
| `book_toc`, `chapter_content` | `WithResponse`, `WithRequest`, `WithUrl` |
| `*_from_params` and `start_*_pagination` | `FirstPage`, `FirstReply`, `InitialUrls` |
| `continue_*_pagination` | `LimitReached`, `Continue`, `LastPage` |
| `MAX_NEXT_PAGES`, `visited_urls`, `pages_fetched` | `MaxNextPages`, `visited`, `pagesFetched` |
| errors of the host, the rules, the source | `Fail` |

`served` is history. Suspending, resuming and cancelling the request is `ReaderRuntime`'s:
there a remote operation is completed or continued by a free choice, which this module
explains.

### SyncRecords, SyncJournal, SyncPolicies, ProgressCloud (with MCSync, SyncProofs)

`SyncRecords` is the data and the algorithm: records, `choose_record` with its four
tie-breaks, and the merge of snapshots, as operators on functions from keys to records.
`SyncJournal` composes devices over it. Nothing inside the repository calls the journal
and the merge together: what ships packages is the host, modelled as a set of packages
that arrive any number of times, in any order or never (external in the map). The host
acknowledges a package once it has been merged, possibly much later. It saves a journal
when it likes and a restart resumes from the last save, so sequence numbers and revisions
can be used a second time.

| code | model |
|---|---|
| `SyncRecord::upsert`, `tombstone` | `Upsert`, `Tombstone` |
| `choose_record`, `merge_snapshots_with_policy`, `merge_packages` | `Supersedes`, `Latest`, `MergeSnapshots`, `MergePackage` |
| `record_upsert`, `record_tombstone`, `record_change` | `RecordUpsert`, `RecordTombstone`, `Change` |
| `pending_records`, `pending_package` | `PendingRecords`, `PendingPackage`, `SendPackage` |
| `acknowledge_package` | `Acknowledged`, `AcknowledgePackage` |
| `export_snapshot`, `from_snapshot`, `SyncJournalSnapshot::validate` | `Save`, `Restart`, `Valid` |

Device ids and payloads are numbers that order like the strings; 0 is the empty payload of
a tombstone. A package with two records of one key does not occur: a journal has one entry
per key.

`SyncPolicies` merges snapshots under the four policies. Replicas receive versions that
devices wrote, and each other's snapshots, in any order; `known` is history. A key carries
the device and the revision of a conflict copy, which is what the id of a copy is made of;
a record that is no copy has zeros there. A rank is the first place of a device in the list.
`RevisionsOnce` says of the versions that no device has used a revision twice. It is no
assumption of the module: a journal that restarts from an old save breaks it.

| code | model |
|---|---|
| `conflict_reason`, `choose_record_by_device_priority`, `device_priority_rank` | `InConflict`, `Winner`, `Outranks`, `DeviceRank` |
| `conflict_copy_record`, `normalized_records` | `CopyKey`, `Normalized` |
| `merge_snapshots_with_policy` | `Refused`, `Resolved`, `MergeWithPolicy`, `MergeInto` |

`ProgressCloud` is the reading progress that devices share in one file. A pull merges what
is newer than some time; a push is three calls of the host (`StartPush` pulls, `FinishPush`
resolves and writes), and another device may write in between.

| code | model |
|---|---|
| `merge_progress_cloud_records`, `choose_progress_record` | `MergeProgress`, `NewestOfEach`, `Newer` |
| `apply_progress_record_limit`, `compare_progress_retention_order` | `WithinLimit`, `Keeps` |
| `progress_cloud_records_since` | `PullProgress` |
| the push plan: pull, resolve, push | `StartPush`, `Pushed`, `FinishPush` |

In `MCSync` the variable `part` picks one of the three modules at the start, and only that
one moves: they share no state, and one run asks them all.

### Storage: StoreData, ReadingShelf, ChapterCache, DownloadQueue, ReaderStore, SqliteStore (with MCSqliteStore, StoreProofs)

`StoreData` has what both backends keep. `ReaderStore` is `InMemoryStorage`, put together
from its parts; every call holds the one
lock from its first read to its last write, so a call is a step. `SqliteStore` is the same
store on tables, and shows that it implements `ReaderStore` (`InMemorySpec`): the progress
table mixes two models of progress under a source of their own, and a history is rows
numbered per book, so the mapping is not the identity. The download workers are the
host's; between its claim and its report a worker knows nothing but the key.

| code | model |
|---|---|
| `enqueue_chapter_download`, `claim_next_chapter_download` | `Enqueue`, `NextClaim`, `Claim`; `SqlEnqueue`, `Candidates`, `ClaimKey`, `SqlClaim` |
| `complete_`, `fail_`, `cancel_chapter_download`, `clear_finished_chapter_downloads` | `Complete`, `Fail`, `Cancel`, `ClearFinished`; `UpdateTask`, `SqlReport`, `SqlCancel`, `SqlClearFinished` |
| `prune_chapter_cache`, `plan_chapter_cache_prefetch` | `YoungEnough`, `WithinCount`, `WithinBytes`; `Prefetch`; `SqlPrune` |
| `add_to_shelf`, `move_shelf_entry`, `update_last_read` | `AddToShelf`, `Move`, `UpdateLastRead`; `SqlAddToShelf`, `SqlMove`, `SqlUpdateLastRead` |
| `save_reading_progress`, `clear_reading_progress`, `put_progress` | `SaveReading`, `ClearReading`, `PutLegacy`; `SqlSaveReading`, `NextNumber`, `SqlClearReading`, `SqlPutLegacy` |
| put and delete of sources, books, texts, rules, records | `PutRecord`, `DeleteRecord`; `SqlPutRecord`, `SqlDeleteRecord` |
| `export_snapshot`, `StorageSnapshot::validate`, `replace_with_snapshot` | `Snapshot`, `ValidSnapshot`, `Replace`; `SqlReplace` |

`Crash` ends the process: the tables stay, the workers forget. `menu` is the family of
calls that a behaviour uses, a bound: the families touch tables of their own, and only a
restore reaches across them. Names in the passing run are not blank and carry no white
space around them; there the backends differ (below), and `put_source`, `put_book` and
`put_cache` take a blank key in memory where SQLite refuses it.

### TtsQueue, RssLibrary, TocRefresh (with MCTocRefresh, MCReading, MCReadingClaims, ReadingProofs)

`TtsQueue` has the slicer as operators over a text of four kinds of characters, stretches
for substrings, and the playback queue of every chapter as actions. A slice has the range
that the code gives it (`start`, `end`) and the characters that it says (`says`), which
differ for a paragraph of several lines.

| code | model |
|---|---|
| `split_lines`, `is_blank`, `trim_segment` | `Lines`, `Visible`, `Slice` |
| `slice_line_break`, `slice_paragraph`, `slice_sentence`, `slice_paragraph_then_sentence`, `slice_chapter` | `FullLines`, `Paragraphs`, `Sentences`, `SlicesOf`, `SliceChapter` |
| `TtsState`, `play`, `pause`, `resume`, `stop`, `next`, `prev` | `queues`, `Play`, `Pause`, `Resume`, `Stop`, `NextSlice`, `PrevSlice` |

`RssLibrary` has one action per call of the library. A refresh merges a feed that may
repeat an id, rewrite an entry or leave it out. `announced` and `edited` are history.

| code | model |
|---|---|
| `upsert_subscription`, `remove_subscription` | `UpsertSubscription`, `RemoveSubscription` |
| `refresh_subscription`, `recompute_unread_count` | `Merged`, `NewEntries`, `Refresh`, `Recounted` |
| `mark_entry_read` and its like, `update_entry` | `MarkEntryRead`, `MarkEntryUnread`, `SetEntryStarred`, `MarkAllRead`, `UpdateEntry` |
| `replace_with_snapshot`, `validate` | `ImportLibrary`, `ValidLibrary` |

`TocRefresh` is `diff_toc` and `remap_reading_progress` over successive refreshes: a
chapter is a url and a title, either of which may be missing or repeated. A chapter that
has neither goes by its index as a text (`Name`, `IndexText`), and is looked for among the
titles like any other.

| code | model |
|---|---|
| `toc_identities`, `title_occurrence_for` | `Name`, `Identity`, `TitlePlace` |
| `url_map`, `title_map`, `diff_toc` | `Find`, `NewIndex` |
| `remap_reading_progress` | `NearestSurviving`, `RemapReadingProgress` |

`MCReading` runs these three and `Pagination`, one of them moving in a behaviour (`part`).
`MCReadingClaims` reads two chapters aloud and then fetches a table of contents; it is for
what the documents say of both and the code does not do.

## Runs

| run | instance | shows |
|---|---|---|
| `runtime_hosts` | 2 ids, 2 host threads, every method, 2 operations | `TypeOK`; a queued command holds its reservation (`QueuedIsReserved`); a pending operation serves an active request or one being ended (`PendingServesActive`); a confirmed cancel of a queued request is never followed by its result (`ConfirmedCancelHolds`); a shutdown leaves nothing queued before it unanswered (`ShutdownAnswersAll`); nothing but cancellations after a shutdown (`ShutdownIsFinal`); refinement of `RequestLifecycle` |
| `runtime_live` | 2 ids, one used twice | no id is reserved with nobody to release it (`NoOrphan`); the worker always gets back to its queue or asks the host (`ActiveIsServed`); a latch stops the worker and `Drop` returns |
| `bridge` | 2 requests, 2 host threads, 2 callbacks, 3 replies | `NoLeak`, `StampedRequest`, `ReachedOnce`; an answer and an abort wake the script without the clock |
| `store` | 2 workers, 2 tasks of 2 attempts; 3 cached chapters; 2 books, 2 saves each; a backup | every call of SQLite does what it does in memory (`InMemorySpec`); a task in progress has a worker, unless it died (`InProgressIsHeld`), and one worker (`OneWorkerPerTask`); tasks settle (`TasksSettle`); `PruneKeepsNewest`, `PrefetchIsExact`, `ProgressIsNewest` |
| `sync` | journal: 2 devices, 1 key, 2 times, 2 changes each, 2 packages; policies: 2 replicas, 6 versions of a key; progress: 2 devices, 6 records, 2 kept per book | the shared snapshot is the latest of what arrived and never goes back; acknowledgements are safe; journals stay valid; under keep-both and manual nothing is lost and a merge is symmetric (`PoliciesKeepTheirWord`); devices that met the same progress agree (`ProgressAgrees`) |
| `reading` | 5 urls, a limit of 3; tables of up to 3 chapters of 5 kinds; 2 feeds of 2 entries; all texts of up to 5 characters | the page chain is bounded, repeats no next page and merges what came in order; the place survives a refresh (`PlaceSurvives`); `LibraryIsConsistent`; `SpeaksOnlyCurrent`; `SlicesSayTheText` |
| `runtime_cancel_race`, `runtime_stale_cancel`, `bridge_destroy`, `pagination_revisit`, `store_groups`, `reading_claims` | small instances that show it | where the code and its documents disagree (below); `reading_claims` shows six places in one state |

**Bounds.** Two ids and two threads give every pair of concurrent calls on one id and on
two; a shutdown or a cancel can meet one queued and one pending request. `MaxUses`
bounds how often an id is accepted; `FirstTwice` is the case where marks of the first use
meet the second. `MaxOps = 2` lets one operation be continued by another. `JsBase` is
scaled from 1,000,000 to 10, out of reach of `MaxOps`. Two callbacks let a script call
again after a failure, with an answer to the first still in flight; the third reply is the
repeated one.

Five urls let a chain reach the limit of three with a url to spare; the limit is the
code's 50 scaled down. Three chapters drawn from two urls that share a title, a chapter
without a url, one without anything and one whose title is the index "0" give each kind of
repetition and the index that is taken for a title, and three of them a neighbour on each
side. Texts of five characters hold two paragraphs, a
blank line and a sentence across a line break; one behaviour slices one text, in each of
the four ways. Feeds of two entries repeat, rewrite and drop an id.

Two download workers and two tasks give each pair of a late report and another claim; two
attempts let a failed task be retried and exhausted; two times and two priorities give
every order of claims, ties included. Three cached chapters of two books, with limits 0, 1
and 3, put every limit of a policy in the way of the others. Two books with one id in two
sources are what the keys of the tables must tell apart; two saves per book come in order,
out of order or at the same time.

In the journal every operation but the counters acts on each key by itself, so one key
shows every conflict; two times and two changes per device give records that are newer by
clock and older by revision. The six versions are of two devices with a rank and one
without, with a tombstone and a payload written twice; no revision is used twice, which is
the condition of `PoliciesHold`. Of the six progress records three have one key and one
time, and the limit of two cuts off the others. The theorems below need none of these
bounds.

**Fairness.** The worker is a thread that never stops of itself: weak fairness of its
steps. A call a host thread has begun, or a `Drop` that has begun, runs to its end: weak
fairness of its remaining steps. Nothing obliges the host to call anything, to answer an
operation or to destroy the runtime, and no fairness is assumed of the timeouts: what is
shown holds without them. `TasksSettle` is about download workers of the host: it assumes
that a free worker claims while there is something to claim and that one that holds a task
reports some time (`FairWorkers`), and only under the condition that enqueueing ends. All
other parts assume no fairness and state no liveness: their calls are the host's.

**Deadlock** is not checked (`CHECK_DEADLOCK FALSE`): every instance may stop, because the
host has destroyed the runtime or has used up the bounded ids, replies, changes or pages. That the
worker does not get stuck is `ActiveIsServed`, `LatchStopsWorker` and `AbortWakesScript`.

Every property has a mutant: an operator next to the one it changes, named for the bug
(`CancelMark_ReleasesAtOnce`, `Intercept_Peeks`, ...), under which the run finds the
property violated.

## Where code and documents disagree

* `CompletedIsSilent` (`ReaderRuntimeCancelRace.cfg`): a cancel that removed a request's
  operation can emit CANCELLED after the worker, which noticed the mark in between, has
  already answered. `reader_core.h` says completed ids are silent.
* `NoSpuriousCancel` (`ReaderRuntimeStaleCancel.cfg`): remote and tts commands do not take
  the cancel mark when they answer, so the next use of the id is cancelled instead. With
  ids that are used once the property holds (`CancelledWasAsked` below).
* `NoCallbackAfterDestroy` (`HostCallbackBridgeDestroy.cfg`): the join of `Drop` is bounded
  by five seconds; a script that calls the host after the abort waits for up to thirty, is
  still blocked when the join gives up, and its worker emits events when it wakes. The
  header and the FFI crate promise that none fire.
* `NoPageTwice` (`PaginationRevisit.cfg`): the visited urls are consulted for every next
  page but the first; a first page that links to itself is fetched and merged twice.
* `InMemorySpec` (`SqliteStoreGroups.cfg`): moving a book on the shelf trims the name of
  the group and refuses a blank one in memory, and writes it as it is in SQLite. A comment
  on the snapshot hash says that both backends produce the same bytes.

Six sentences on the table of contents and on reading aloud are refuted together. A run
shows one state, so `SomeClaimHolds` (`ReadingClaims.cfg`) says that *one of them* holds:
the state that TLC finds refutes each. One queue in it is paused, another one completed,
and the table has a chapter without url and title, two that share a title, and one titled
"0".

* `IdentityPreserved`: a chapter without url and title goes by its index, which another
  chapter may have for a title. Then an unchanged list, refreshed, moves the reader to that
  chapter. The comment on `diff_toc` says that identity is preserved.
* `NoTwoBecomeOne`: a chapter that is gone, or never had a url, falls back to its title, and
  may be mapped to a chapter that another one is mapped to already. In the table of the run
  these are the second and the third chapter, when a chapter of the same title with a url
  comes before one of them. The same comment says that repeated chapters do not collapse.
* `CompletedMeansAllDone`: a queue that was started at a later slice is completed with the
  earlier ones pending. The contract and the guide say that all slices are done.
* `StopFromCompleted`: the state machine of the contract lets a completed queue be stopped;
  `stop` refuses it.
* `PausedIsPending`: the contract says that the current slice of a paused queue is the next
  pending one; `pause`, like `stop`, leaves it "speaking".
* `RangeIsWhatIsSaid`: a paragraph of several lines is one slice with the range of its first
  line. The contract says that the range is the slice's, and the example of the guide shows
  two slices for two such lines.

One more is not the subject of a run. Keep-both names the copy of a record after its device
and revision. A device that restarts from an old save uses a revision again, though the
comment on it says that it is monotonic (`SyncJournal` has the restart); two payloads then
get one copy, and one of them is lost. `PoliciesHold` has the condition that excludes it.

The passing runs check what is left: `PlaceSurvives` has the condition `NoIndexIsTitle`
where it needs it, `SpeaksOnlyCurrent` says nothing of a slice that is paused or stopped, or
that was jumped over, `SlicesSayTheText` lets a paragraph of several lines name a part of
what it says, and `PoliciesKeepTheirWord` is checked and proved for versions of which
`RevisionsOnce` holds.

## Proofs

Each theorem holds for every value of the constants that the named assumptions of the
modules allow: any set of ids, keys, records, any bound. The list under
"theorems" of `PROJECT.json` says what each one establishes; this section is about the
arguments.

### The request engine

`ReaderRuntimeProofs`, for every set of ids and threads, menu and bound:

* `TypeCorrect`: `Spec => []TypeOK`. `TypeOK` alone is not inductive, because a step reads
  variables that only the label of its thread vouches for: `CancelMark` inserts
  `target[p]` into a set of ids, `Dispatch` reads `cur.id`. `ControlOK` says what each
  label promises (a command in `job`, a request in `target` or `fin`, an operation number
  in range); `TypeInv` is their conjunction, with one lemma per actor.
* `ShutdownFinal`: `Spec => ShutdownIsFinal`. Needs `LatchInv`: while the latch is set and
  the host has not begun to destroy, the worker is on the shutdown path (`OnShutdownPath`)
  and the only results it holds are cancellations and the shutdown's own. It holds because
  the worker is the one that sets the latch, and leaves that path only to exit.
* `NoRequestStranded`: `Spec => []NoOrphan`, however often an id is used. `NoOrphan` says
  that *somebody* still has an active id, and a step that takes it from one place must know
  the next. `OrphanInv` therefore names the places (`ServedInv`: with a sending thread, in
  the channel, in the worker's hands, in an operation, or with the thread that cancels it),
  and adds that the last operation number is the worker's own until the host has heard of
  it (`OpsInv`) and that what is accepted while a shutdown collects is still on its way
  (`CollectedInv`).

`FreshRequestProofs`, for a host that uses each id once (`FreshIds`; the ids, the threads
and the operations are as many as it likes):

* `QueuedStaysReserved`, `OperationServesOne`, `ConfirmedCancelIsFinal`,
  `ShutdownLeavesNone`: four safety properties of `runtime_hosts`.
* `ImplementsLifecycle`: `Spec => LifecycleSpec`, the refinement. Each step moves at most
  one id along `RequestLifecycle`, or moves nothing.
* `CancelledWasAsked`: `Spec => NoSpuriousCancel`. `MarkInv` follows a mark from the thread
  that leaves it to the answer it becomes, and says that an id that was not accepted yet has
  none and no thread on its way to leave one: a new request starts unmarked.

All six rest on `FreshInv`. None of the properties is inductive, for one reason: they say
what has become of a request, and the code decides it from where the request *is*. The
invariant says that an id has one sender and one use (`SenderInv`, `UsedOnce`), is in one
place (`OnePlace`, `QueueOnce`, `OpsOnce`), is not answered while it is in one
(`OneAnswer`), is reserved while it is alive (`Reserved`), what a confirmed cancel has left
in its way (`AckHolds`), what a shutdown still has to do (`Due`, `NoneWaits`), and which
labels imply the latch (`StopInv`). `FreshIds` is needed: with an id used twice, the run
`runtime_stale_cancel` shows the mark of the first use ending the second. `send` refuses an
id only while it is active, so the freshness of ids is the host's to keep, and an id is
fresh if it comes from a counter or a UUID.

### The bridge

`HostCallbackBridgeProofs`, for every finite set of requests and every set of host threads:
`TypeCorrect`, `NoEntryLeaks`, `StampIsRight` and `ReplyReachesOnce`. The heart of `IInv`
is `UntakenInv`: while a callback is in the map nobody has taken it, that is, its slot is
empty and no host thread is between the removal and the write. Without it, an answer could
be on its way to a callback that is removed, timed out and cleaned up. `WorkerInv` ties the
stamp to the request that is served, and `AskedInv` what the host was asked to the owner of
the callback.

### The page chain

`PaginationProofs`, for every set of urls and every limit: `PaginationTypes`,
`ChainIsBounded`, `NextPagesAreNew` and `ResultIsComplete` from one invariant. `NextPageOnce`
is not inductive, since it speaks of what the host was asked for and the code looks at
`visited_urls`; `Chain` says that the latter contains all the former, and that the counter
counts the pages that came. That every chain ends follows from the bound if the host
answers; it is not stated as a liveness property, because nothing obliges the host to.

### Finite orders

The models choose extrema: the newest of some records, the row that `ORDER BY ... LIMIT 1`
finds, the nearest chapter that survived. `FiniteOrders` proves that they exist.
`FirstExists` is that a finite set that is not empty has a first element in a total order,
from well-founded induction on the subsets of a finite set (a relation is a set of pairs
here, so that it can be passed to a lemma). `FirstOfIntegers` and the lemmas on ranks are
about cutting off: of the members of a finite set of integers, those with fewer than `n`
before them are `n` or all, and are the first.

### What is read

`ReadingProofs`, over arbitrary tables, feeds, libraries and texts:

* `PlaceIsKept`: `TocSpec => []PlaceSurvives`. A refresh with an equal list moves nothing
  since every chapter finds itself (`FindsItself`): by its url or its title and its number
  among those, which is unique because the count grows with every chapter that has it. That
  needs a chapter that is `Clear`: one with a url, or whose title is no nameless chapter's
  index, or whose index is no chapter's title. `NoIndexIsTitle` makes all of them clear. The
  other parts follow from what `NewIndex` and `NearestSurviving` pick.
* `LibraryConsistent`: `RssSpec => []LibraryIsConsistent`. The property is inductive as it
  stands; each call keeps each part.
* `NothingIsUnsaid`: `TtsSpec => []SlicesSayTheText`. By construction from below: a text cut
  at any rising sequence of places has the pieces as its stretches, trimming loses nothing
  visible, lines make paragraphs and paragraphs make the text. `StretchesTellAll` and
  `SlicesInOrder` are the two lemmas that all four strategies share; `SliceOfItself` and
  `FirstLineShows` are about the ranges.
* `OnlyCurrentIsSpoken`: `TtsSpec => []SpeaksOnlyCurrent`, with the types of the queues. The
  invariant, `Orderly`, says just when a slice is "speaking" and the last one is done.

### The store

`StoreProofs`, about `SqliteStore`, for every set of tasks, workers, books and backups:

* `NoneLeftBehind` and `NoTaskTwice`. The second needs `Sole`: a key that was claimed and
  neither enqueued again nor restored since has one worker, *and* its task is in progress or
  cancelled. Only so does the claim, which looks for tasks that wait, not meet it again.
* `QueueRefines`: the statements on the tables are steps of the queue in memory. It is the
  part of the refinement `InMemorySpec` where the two backends differ in form: in memory the
  tasks are sorted and the first is taken, in SQLite a query selects the row. Both find the
  same task, and find one, by `FirstExists`.
* `PrefetchExact`: the window is right up to the largest index, where its sums saturate.
* `StoreTypeCorrect` and `ProgressNewest`. The row of a book and its history are two tables,
  written in one transaction; `NewestRow` says that the row *is* in the history and that
  nothing in it is newer. A save that comes late must find the newest row of the history
  again, whatever its number; a restore replaces both tables by those of an exported
  snapshot, so an export must export what a restore may read (`SnapshotExported`), which
  carries the invariant of the queue along.
* `PruneNewest`: `SqlSpec => []PruneKeepsNewest`. A chapter stays if it has few enough
  younger ones (`WithinCount`) and if it and the younger ones are short enough
  (`WithinBytes`). By `FiniteOrders` the chapters with fewer than `n` younger ones are at
  most `n`; the bytes of a set are the size of a set, so that a part has no more than the
  whole (`BytesFacts`); and any other set without a gap towards the newest is, chapter by
  chapter, made of these.
* `TablesImplementMemory`: `PlainNames` implies `SqlSpec => InMemorySpec`, the refinement,
  call by call. The mapping reads lists and tables out of rows by their numbers, and each
  lemma says what a statement does to what is read: `LogAppended`, that the row numbered
  after the last is read last, whatever numbers are missing; `RowPut` and `RowRemoved`, that
  a write reaches one book and one model of progress only; `RestoredLog`, that histories
  numbered through over all books are read back book by book as they were exported;
  `PruneIs`, that the two cuts at the front of a sorted list leave the chapters that
  `WithinBytes` names. `StepIs` puts them together; its invariant is the one of
  `StoreTypeCorrect` and `NoneLeftBehind`.

### Synchronisation

`SyncProofs`, for every set of keys, devices, payloads and times:

* `Supersedes` is a strict total order (`Irreflexive`, `Asymmetric`, `Transitive`,
  `Connected`), hence `Latest` is a least upper bound and `MergeIsStable`: merging is
  idempotent, commutative and associative. This is the claim in the comment of
  `merge_snapshots` that repeated backup and restore runs are stable.
* `JournalTypes`, `SharedConverges`, `AcknowledgementsAreSafe`, `JournalsAreValid` and
  `SharedMovesForward` rest on one invariant, `Inv`. It strengthens the properties by
  asking them of the *saved* journals too, which is what makes a restart from any save
  safe, and by `SharedIsLatest`, which keeps covered what a merge has covered. All local
  steps of a device go through one lemma, `LocalStep`: replacing one journal by a good one
  preserves `Inv`.
* `PoliciesHold`: `RevisionsOnce` implies `PolicySpec => []PoliciesKeepTheirWord`. A
  snapshot is built from a list of records of which a later one overwrites an earlier one of
  its key, and would depend on the order if two differed. They do not: every record of a
  replica is at *home*, at its own key or at the key that names it as a copy (`Home`), and a
  key names one record, since a copy's device and revision are those of one version
  (`CopiesAgree`). With this, a merge has just the records of both sides and their copies,
  which is symmetric.
* `ProgressConverges`: `ProgressSpec => []ProgressAgrees`. A device has what is newest and
  within the limit of *all* it ever met, although it cut off records at each merge. The
  lemma is `LimitMayBeEarly`: a record that was cut off had enough records before it, each
  of which is still there or was replaced by a newer one of its key, that is before it too
  (`UpdatesKeepPlaces`); so it would be cut off again (`CutOffBehindLimit`). A push resolves
  ties the other way, and `PushedFacts` shows that the file has one record of a key still.

### Assumptions

Absent values are no ids; bounds, times and payloads are numbers; the worker is no host
thread; host threads of the engine and requests of the bridge are finitely many, so that
they can be counted. Beyond these:

* `BackupAssumption`: a backup that is restored was exported by a store (`Exported`). The
  validation of `replace_with_snapshot` is modelled; the assumption adds what exporting
  ensures and validation does not look at.
* `ShelfAssumption`: a book is known by its source and its id. `CacheAssumption`: counts are
  at most the largest index, as `usize` is.
* `RevisionsOnce`, only in `PoliciesHold`: a device does not use a revision for two
  versions. A journal does, if it restarts from a save older than what it has sent
  (`SyncJournal`), and then a version can be lost. `PolicyAssumption`: devices
  have a name, and a version is written at a key that is no copy.
* `ProgressAssumption`: fields are compared as numbers, books only for equality.
* `PlainNames`, only in `TablesImplementMemory`: no book comes from the source under which
  the progress table keeps the older model, and group names are not blank and need no
  trimming. The instance of `store` satisfies it; with other group names the two backends
  do differ (`store_groups`).
* `FreshIds`, only where it is named: the host uses an id once.

### Only model-checked

* `ActiveIsServed`, `LatchStopsWorker`, `DestroyReturns`, `CompletionWakesScript`,
  `AbortWakesScript`, `TasksSettle`: liveness, which depends on fairness and ENABLED.

## Not modelled

Parsing and validation of commands, the content of results and errors, poisoned mutexes,
and the C ABI's pointer checks. The rule engine, the content pipeline, the parsers of feeds
and OPML, the formats of local books and the JavaScript engine are sequential functions
over text, of which a finite abstraction would say nothing; the catalogue of local books is
replaced as a whole and kept by the host. They are most of the repository's lines.

Of reader-sync: the list of conflicts that a merge reports, the Manual strategy of progress
records, backup manifests, their retention and restore plans, and remote books. Of the
remote commands: search, detail, explore and import, which answer in one step from pure
functions, and how urls and requests are built. Of storage: listings and their orders,
planners that keep no state, upgrades of old schemas and snapshots. Of RSS: when a feed is
due, conditional headers, dates, and entries with a blank id or title.

Known hazards that no property covers, because no document says what should happen: a
command that `send` enqueues after the drain; the winner of three versions under
DevicePriority, which depends on the order of the merges; an edit of a conflict copy under
KeepBoth. The two counters of operation ids meet after a million operations; the instances
keep them apart, as the first 999,999 operations of a runtime do.

## Plan

Done: the modules above, a theorem for every safety invariant and action property of the
passing runs, and both refinements: `RequestLifecycle` by the engine, the store in memory
by the tables. Next, in this order:

1. What holds where a document promises too much, as `CancelledWasAsked` does it for
   `NoSpuriousCancel`: `NoTwoBecomeOne` for tables without repeated titles, `NoPageTwice`
   for first pages that do not link to themselves, `MergeIsSymmetric` where revisions are
   used again.
2. The safety part of what only runs reach: a measure of a chain of pages that every answer
   lowers, and attempts of a download that never pass their limit.
