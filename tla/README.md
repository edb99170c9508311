# Sword Agent OS: TLA+ models and proofs

Sword Agent OS is an agent distribution: a set of local services (organs), a
memory core on SQLite, native audio observers, diagnostics collectors and a
large number of PowerShell and Node controllers that start, observe and stop
them. The modules here model the parts of it that keep state under
concurrency, interruption or partial failure, check them with TLC on small
instances, and prove the properties that matter most for every instance with
TLAPS. Definitions are translated from the source; `PROJECT.json` names the
lines each of them stands for.

## 1. Inventory

| Component | State | Operations | Interacts with |
|---|---|---|---|
| Memory store (`runtime/memory-core/.../store.py`, `schema.py`, `organize.py`) | rows of `memory_records`, index tables (tags, source refs, relations), three audit tables | `record_candidate`, `record_promotion_decision`, `record_reinforcement_update`, `record_lifecycle_event`, `tombstone_memory` | several processes open the same SQLite file |
| Memory retrieval (`store.py`) | none of its own: one context under construction | `retrieve_context`, `find_by_*` | reads while the writers commit |
| Memory migrations (`migrations.py`, `*.sql`) | schema, `schema_version` | `apply_migrations` | every process that opens a store |
| Memory classifier, CLI | none | `classify`, argument parsing | hands candidates to the store |
| Process loopback observer (`ProcessLoopbackObserver.cs`, its `.ps1`) | activation handler, COM client, backend counters | one bounded observation | COM callback thread, the observed process, its lease |
| Voice capture DSP observer (`VoiceCaptureDspAec.cs`, its `.ps1`) | media object, pipe, counters, lease | one bounded capture written to a named pipe | pipe server process, cancellation callback |
| Audio awareness runtime (`audio-awareness.mjs`) | none | summaries, AEC owner selection | reads observer results |
| Diagnostics collector and watcher (`update-diagnostics-status.ps1`, `watch-diagnostics-status.ps1`) | `current.json`, topology, event journal | one run: probe, project, write; the watcher repeats it | overlapping runs, readers, the input gate's owner |
| State event ingest (`StateEventIngest.psm1`) | rows of a status file | replace a row by an event | shares the status file |
| Body schema builder (`build-body-schema-snapshot.ps1`) | none | project the status file to a snapshot | reads files being written |
| Organ test packs (`run-organ-test-packs.ps1`) | none | run the collector without a journal, evaluate rows | shares the status file |
| Self-output awareness route (`run-self-output-awareness-live-controller.ps1`, `-production-transport.ps1`) | lease, lifecycle ordinal, two stage events, child process, two deadlines | arm, observe, acknowledge, release | the speech page, Core, the observers above |
| Primary system cell speech test | owned processes, ports, run root, controller signals | start, wait for signals, clean up | services, browser, live controller |
| Prepared sample playback controller | page, playback, timers | one playback round | browser page |
| Self-mirror capture (`capture-self-mirror-frames.mjs`, `run-self-mirror-proof.ps1`) | frame loop, scheduled triggers, what was read back | capture, trigger, stop the dance, hand over to the analyzer | browser page |
| Visual motion analyzer (`visual_motion_analyzer.py`, `summary.py`, `reference_judgment.py`) | one run's rows; the metric summary and its judgment | analyze, publish, judge | reads captured frames, rewrites summaries |
| VRM telemetry | none | numeric summaries | |
| Home control | child process | start, smoke | services of other repositories |
| Distribution maintenance (`update-distribution.ps1` and others) | git checkouts, env files | move checkouts to pins | git, package managers |
| Readiness and contract checks | none | one reporting pass | read everything |
| Contracts, manifests, documented runtime areas | data | none | |

What is hard here: rows read outside a transaction and written back inside one
(memory store); SQL scripts that commit statement by statement (migrations);
many SELECTs that make one answer (retrieval); a COM object handed from a
callback thread to a task that may have given up (observers); files that are
truncated, then filled, by runs that overlap and may be interrupted
(diagnostics); a pipe closed by a timer's callback in the middle of a frame
(voice capture); deadlines on both sides of a process boundary, polled
lifecycle notices that supersede one another and calls whose answer is lost
(route); stimuli sent by the clock and frames dated by their number, while the
page acts between two awaits (self mirror); a verdict, a diagnosis and a
judgment drawn from the same measurements by separate passes (analyzer).
`PROJECT.json` lists each hazard at its line with the properties that cover it,
or the reason why none does.

What makes each part correct, in a sentence: a record held back or deleted
stays so and its audit trail agrees with it; a context is bounded, live and
complete; `initialize` returns only on the complete schema; the audio client
has exactly one custodian until it is released and a clean report is true;
frames reach the pipe whole and a capture never outlives its lease's checks; the
status file, the topology and the journal tell one story, and what is shown as
current is recent; a dance that was started is stopped, frames dated after a
stimulus show what followed it, a pass rests on frames that are evidence and a
judgment on a complete run; Core hears one story of one speech after another,
and the controller calls a route completed only when it was.

## 2. Modules

| Module | Models | Built on |
|---|---|---|
| `MemoryStore` | the mutators of the store, any number of clients | |
| `MemoryStoreProperties` | what should hold of it | `MemoryStore`, `MemoryRetention` |
| `MemoryRetention` | abstract: what a reader is promised about one id | |
| `MemoryRetrieval` | `retrieve_context` beside the writers | `MemoryStore` (composed) |
| `MemoryMigration` | `apply_migrations` by any number of processes | |
| `ProcessLoopbackObserver` | one native observation | |
| `VoiceCapture` | one bounded capture to a named pipe | `FramedChannel` |
| `FramedChannel` | abstract: what the pipe server is promised | |
| `DiagnosticsStatus` | collector, watcher, files, ingest, body schema builder | |
| `SelfMirrorCapture` | the browser capture loop and its finally block | |
| `MotionVerdict` | labels, verdict and diagnosis of a captured run | |
| `MirrorSummary` | the metric summary published of it | `MotionVerdict` |
| `AutoJudgment` | the judgment of a summary against a reference profile | `MirrorSummary` |
| `SelfMirrorProof` | a whole proof run: wrapper, capture, analyzer, judge | `SelfMirrorCapture`, `AutoJudgment` (composed) |
| `SelfOutputRoute` | transport child, controller, page, Core and observer | |
| `MC*` | constants for TLC | |
| `*Proofs` | TLAPS proofs | the module they are named after |

### MemoryStore

`rows`, `index` and `log` are the tables: `log[r]` holds the audit rows of
record `r` in commit order, with a `"recorded"` entry for the transaction of
`record_candidate`, and `created_at` is its position. `op[c]` is the operation
client `c` is in: every mutator but `record_candidate` first SELECTs a row in
autocommit mode, checks it in Python, and then opens `with self.connection`.
`ReadFor...` is the first half and keeps the row read, `Commit...` the second
half and writes back exactly the columns the UPDATE sets, from the row read
where the code takes them from there (`normal_retrieval_allowed` of a
promotion, content and importance of a reinforcement). `Abandon` is a process
that dies or a `database is locked` before the commit. Texts are abstracted:
a candidate is the set of facts the store decides on, among them the counters it
brings along, a content is redacted or carries tags and counters. The caller
names the id, so an id may be recorded any number of times (`FreshIds = FALSE`);
only the claims about a reader beside a writer are made for ids recorded once.
Two fields of a row are auxiliary: `recorded_counters`, the counters it was
recorded with, and `provenance`, the recordings whose values it holds. When an
operation that read one recording commits over the next, the code mixes the two;
`OwnValues` tells the rows in which that has not happened, and
`QuarantineHolds`, `CountersNeverExceedAudit` and `IndexFollowsRow` are about
those, which says at the same time that nothing else breaks them.

### MemoryRetrieval

One reader answers one query; `lookups` are the SELECTs still to make, each
`LookUp` one of them with the appends its rows cause (`Outcome` is what
`_append_context_summary` makes of a row). Between any two, `WriterStep` lets
the whole of `MemoryStore!Next` happen. The order of a SELECT's rows is left
open, and as a record has one row, what becomes of a row depends on the others
only by the room they leave: so the loop over the rows is one enumeration of
those that fit, cut at the limit, and one of those refused. `steady` is
auxiliary: the records open to retrieval during the whole call.

### MemoryMigration

`schema` is the set of statements whose effect is in the file, `recorded` the
version rows. `executescript` commits each statement, so each one is a step,
and so is the version row's transaction. `ReadVersionLocked` is
`get_schema_version` taking a locked database for version 0.

### ProcessLoopbackObserver

The observer task, the COM thread and the clock take turns; the steps on the
handler's `_state` and `_completedInterface` are the interlocked operations of
`Complete`, `Abandon` and `ClaimClient`. Every native call may fail
(`Caught`). `Report` is what follows the finally block and `CleanupClass` what
the wrapper makes of it.

### VoiceCapture

The observer task is `ObserveWithBackendAsync` with the sink's and the
backend's methods inlined: `at` is its next call, and an asynchronous pipe
operation is a step that begins it (`BeginOperation`, `io`) and one that ends
it, with success, with the server's end or with the token. The timer thread
cancels the token and runs `CloseStreamOnce` in two steps, the exchange and the
close; `Unregister` is the end of the `using` block, which waits for a callback
that has begun. `wire` is what was put on the pipe, an operation that was broken
off leaving a `"torn"` part or nothing. `sink`, `backend` and `quality` are the
counters the code compares at its end. `ackLease` and `untrusted` are auxiliary:
the lease at the acknowledgement and whether any packet lacked trusted metrics.
`Channel` maps all this to `FramedChannel`: a torn part or the close ends the
channel, and the complete bodies on the wire are the delivered frames.

### DiagnosticsStatus

A run of the collector probes service by service, then the files of the drivers
that rest on no service (`StaticDrivers`), reads the input gate's body state,
truncates and fills `current.json`, writes the topology and appends one event at
a time. The watcher and another collector, run by hand or by a test pack without
the journal, work on the same files; a run may be interrupted anywhere. Time is
kept as ages: `Tick` makes everything one older, up to `MaxAge`. `Snapshot` is
what the body schema builder would write now: the builder keeps nothing, so it
is an operator of the state.

Of the journal the model keeps what matters for replaying it. The event of a
first status, `diagnostics.status_initialized`, names no service: it carries the
digest of its status and counts. `journal.baseline` is the status that digest
is of, and `journal.told` what the events since say last of each subject;
`Replay` puts the two together. `doubtful` is auxiliary: the subjects of which a
run wrote a status it has not told the journal (it has yet to, was interrupted,
or runs with `-NoJournal`), or compared with a status another run has replaced
(`overtaken`). An event that tells of a subject takes it out of doubt.
`JournalTellsTheStatus` says that of every other subject the journal tells what
the status file says. With lost events this is as much as holds: nothing makes
up for them until the subject changes again.

### SelfMirrorCapture

`pc` is the step of `captureFrames`: one step per await, with `PageStep` (the
page publishes a result, or draws the frame it was asked for) between any two.
`elapsed` is the loop's single reading of the clock per iteration, which
decides everything in that iteration; `clock` moves on under it, by a lag at
every dispatch and screenshot and to the next frame's nominal date in the
sleep. An evaluate may fail before or after the page heard it, and then counts
as not dispatched. `failures` are the three errors the finally block ranks.
`frames` is auxiliary: it keeps what the page had been told when each frame was
taken, because the analyzer dates frames by number alone.

### MotionVerdict, MirrorSummary, AutoJudgment

Pure functions. `MotionVerdict` goes from the comparison of two images (changed
share, shift, drift) to a row per region and frame, a label per region, the
ordered rules of the verdict, and the diagnosis, which reads the same rows
again with rules of its own. `FirstRule` is an ordered chain of `if`s.
`MirrorSummary` restates the verdict as a status, gives every region and window
its metric and computes the confidences, whose floats are kept as integers (a
thousandth, rounded as the code rounds). `AutoJudgment` compares the summary
with a profile and its reference cases and attaches the judgment.

### SelfMirrorProof

The three above composed with the capture: `NewSelfMirrorWindows` is the
wrapper's choice of windows, the analyzer takes the frames and what the page
reported (an input: `Observations`), the wrapper deletes the raw frames, and
the judge may run on the packet, repeatedly. `Margin` is the 500 ms the wrapper
adds after a release. `BuildEventTimeline` takes the lifecycle of whichever
result was read, the trigger's or, in `main`'s fallback, the stop's, and dates
it from the dispatch of the trigger.

### SelfOutputRoute

`child.at` is the transport's next call. The page's notices (`ait`) are
numbered from the baseline read on; a notice joins the log when it is polled,
since nothing can tell when before that it was published. A call to Core is a
step that dispatches it and one that ends it, with the acknowledgement, or with
an error after which Core may have received it or not (`core` is what it did
receive). `Handoff` is everything a new generation does: stages reset,
readiness lost, the superseded observer stopped, a new one started. The
controller sees the child only through `events` and its exit; its snapshot of
the two events is two steps, as are the halves of a wait slice around the wait
itself. `KillTree` may do nothing, end the child or end both. `ResultIsComplete`
is the controller's check of the report: the fields that restate the child's
state are compared with it, the number of reads of the page (`polls`) included;
all others together are `legible`, chosen when the child exits, as are its exit
code and whether it printed anything else.

## 3. Runs

| Run | Question | States |
|---|---|---|
| `store_single` | one client, any sequence of calls, ids reused: retrievability, deletion, counters, refinement of `MemoryRetention` | 68 700 |
| `store_concurrent` | two clients, ids reused, stale rows written back: what still holds | 3.3 million |
| `retrieval` | a context built while a writer commits | 1.2 million |
| `migration` | three initialisers, two crashes or timeouts | 157 000 |
| `observer` | callback, deadline and process end in every order | 1 200 |
| `voice_capture` | cancellation callback, stalled or ended server, expired lease, errors at every call: framing, reports, leases, termination | 66 000 |
| `diagnostics` | two overlapping collectors, one interruption | 1.9 million |
| `self_mirror_proof` | whole proof runs with lags and failures: is the dance stopped, do frames follow their stimuli, does a pass have evidence, is a judgment guarded | 236 000 |
| `self_output_route` | superseding generations, lost acknowledgements, failed kills, two deadlines: Core's story, the controller's verdict, termination | 2.4 million |
| `deletion_overrides_reinforcement`, `low_confidence`, `passed_has_settled` | violations: see findings | |

Bounds. `store_*`: one record, because no operation touches two; five
transactions, as many as the longest scenario a property tells apart (record,
act, delete, act, record again); `CounterCap` 2, with candidates whose counters
start at 0, at 1 and beyond the cap, so that it is reached and passed from each;
four candidates, one plain and one for each way to be held back. The two clients
of `store_concurrent` are alike, so they are symmetric, and none of its
properties is liveness.
`retrieval`: two records, so that one may displace the other, limits 1 and 2
in place of the code's, four queries that use every kind of lookup.
`migration`: three processes, so that a third acts on what two left, and
scripts of 2, 4 and 2 statements, three of them ADD COLUMN: a first, a middle
and a last one. `observer` and `voice_capture`: two packets, so that one follows a
complete one; everything else is bounded by the code. `diagnostics`: one service
and one driver that rests on it (subjects do not interact but through the
files), one change, one interruption, and ages up to 2, beyond both limits. The
run has no driver that rests on files and no `-ManifestOnly` mode; the proofs
cover both. `self_mirror_proof`: eight argument records, one for each kind of
trigger and for the cases the wrapper's windows tell apart (a trigger near the
end, a region outside the frame, nothing expected); runs of six to eight
frames, which is one window of each kind with room for `MinConsecutive` 2; each
score one of nothing, almost, enough and a new pose, which are the intervals
the thresholds cut; the page's reports differ from a good run's one at a time.
Packets are judged twice. `self_output_route`: three speeches, so that one is
superseded twice or a third reuses the event of the first; a page that retains
nothing or an earlier speech; four notices, one more than a single
speech needs; four ingests in place of 16 and five reads of the page in place of
1000, so that a route may read it once too often. The page publishes too few
notices there to reach the bound on ingests: that branch is the proofs' only.
Deadlines are 2 and 1 ticks, so that each can pass first.

`MaxLog`, `MaxPackets`, `MaxChanges`, `MaxInterruptions`, `MaxNotices`,
`MaxJudgments` and `MaxClock` are the only bounds that stop an action; each is
a guard with that name. The store runs deadlock
only in the sense that `MaxLog` is used up after which `ReadFor...` and
`Abandon` still alternate, so no run but `observer` and `voice_capture`, which
end, turns the deadlock check off. A finished proof run or route has a `Done`
step, so that a run that stops anywhere else is reported.

### Fairness

`migration`: a process in `apply_migrations` goes on (the operating system runs
it) and each asks at least once; nobody has to retry. `observer`: the observer
task and a COM thread inside the callback go on, and `CancelAfter` fires (a
timer), and its window ends (a stopwatch); nothing makes Windows call back or
deliver a packet. `voice_capture`: the task and the timer thread go on; the
server need do nothing, the microphone need not yield a packet, and the window
need not end, as the deadline does.
`diagnostics`: only the watcher's runs go on, which is its `while` loop; its
probes have timeouts. No fairness makes an interruption stop: `MaxInterruptions`
does. `self_output_route`: time passes, the observer's own deadline ends it, and
neither process is stopped; the page need publish nothing, so a poll that comes
back empty while time is left is not owed a better answer.

### Findings

Three statements of the documentation do not hold of the code; each has a run
that shows the counterexample.
* `README.md:196` of memory-core: deletion cannot be overridden by
  reinforcement. A reinforcement that read the row before another process's
  tombstone committed writes the deleted content back (`store.py:483`).
* `runtime/visual-motion-analyzer/README.md:62` and the profile schema: low
  confidence is unclear. A packet whose confidence lies between the profile's
  two floors is judged a failure (`reference_judgment.py:203`).
* `runtime/visual-motion-analyzer/README.md:288`: a pass has settled. A run no
  frame of which falls into the settle window passes, because an empty window
  has the score 0 (`visual_motion_analyzer.py:2264`).

Met while modelling, without a run of their own:
* `README.md:171` of memory-core says a tombstone blocks normal retrieval, but a
  promotion decision that read the row before writes its old flag back
  (`store.py:360`). `test_memory_core_priority_promotion.py:342` says it is closed
  to history, but `record_lifecycle_event` opens every retired record to
  history (`store.py:579`). `RetentionIsSound` therefore holds of one client.
* `runtime/status-store/README.md:23` says a stale available observation is not
  displayed as available; the body schema builder never reads the age of a row
  (`build-body-schema-snapshot.ps1:151`).
* A run of the collector that fails after it wrote the status file, or that a
  test pack makes with `-NoJournal`, leaves changes out of the journal for good
  (`update-diagnostics-status.ps1:1137`), and one that reads a status file
  another run has just emptied starts the journal over.
* An operation of the store that read one recording of an id and commits over
  the next mixes the two; so a promotion decided on safe content may open unsafe
  content (`store.py:360`).
* When the capture loop read no result of its trigger, `main` takes whatever
  result the page shows (`capture-self-mirror-frames.mjs:1784`), which after a
  stopped dance may be that of the stop.
* The analyzer may diagnose a passing run as `idle-only-motion`, and the judge
  reads neither the summary's verdict nor its join; `min_consecutive_samples` is
  compared with a total (`reference_judgment.py:442`). A judgment without a
  profile attaches confidence 0, after which the packet can never be judged a
  pass. The analyzer's README lists `late-visible-motion`, which the code calls
  `delayed-visible-change`, and omits `wrong-target-or-surface-mismatch`.
* The controller accepts exactly one observation
  (`run-self-output-awareness-live-controller.ps1:937`), while the transport
  observes anew for every superseding generation, so that a route which
  followed two speeches to the release of the second is refused. So is a route
  whose transport read the page more than 1000 times, which takes 20 s of polls
  that come back at once. Its snapshot of the two stage events may straddle a
  reset; such a route is refused too.
* A kill that fails silently leaves the observer to its own deadline.

## 4. Proofs

Everything below holds for any values of the constants that satisfy the
modules' named assumptions (non-empty sets of clients, inputs drawn from what
the code accepts, bounds that are naturals).

* `MemoryStoreProofs`, any number of clients, ids recorded any number of times.
  `TypeCorrect`; then `VersionsInv` (the recording of every row, and of every row a
  client has read, is in the log) keeps apart the operations that are up to date:
  those that read the row's recording while it holds no other's values
  (`UpToDate`). Only their commits leave a row with its own values. `IndexInv`,
  `QuarantineInv` and `CountersInv` say what the tables say for a row with its own
  values, and what an up-to-date operation is about to write to it: the tags of
  the row, nothing that opens unsafe content, a counter no higher than candidate
  and audit rows allow. They give `IndexIsKept`, `QuarantineIsKept` and
  `CountersStayBehindAudit`, the last with lemmas that count the entries of a log
  after one is appended. `DeletionRequestIsKept` is an action property: no UPDATE
  writes that column but to set it, and a recording is later than what it replaces.
* `MemoryStoreProofs`, one client. `SingleInv` says that the row an
  operation read is still the row in the table, and relates each flag of a row to
  the audit entries since its recording; it gives `RetentionIsSound` (a
  retrievable record is live, blocking is permanent, deletion is final), and with it every step is shown
  to be a step or a stutter of `MemoryRetention` (`StoreImplementsRetention`),
  and every counter to equal the candidate's plus its audit rows, up to the cap
  (`CountersEqualAudit`).
* `MemoryStoreProofs`, the reader. `ReaderInv` (finitely many records are
  recorded, the lookups, summaries and refusals are of their kinds, the context is
  within its limit and has a record once) holds beside any number of clients and
  gives `ContextIsBounded`. Beside one client that records every id once,
  `RetrievalInv` adds to it and to `SingleInv`: every summary is of a live row, a
  refused record would be refused again (`RefusalStands`: what the client closes
  stays closed, and tags stay), and a record open since the call began is in the
  context, or a lookup still to come finds it, or the context is full
  (`WillBeFound`). The last needs that a step of the client which leaves a record
  open leaves its tags, correlation ids and index rows alone (`WriterKeepsRow`).
  It gives `ContextsAreSound` and `NothingIsMissed`.
* `MemoryMigrationProofs`. `OrderInv` (a process at version v found all earlier
  versions recorded, and the statements before its current one applied) gives
  `MigrationSafety`; `OwnerInv` (whoever is past the first ADD COLUMN is alone,
  and the columns in place are the ones behind it) gives `UpgradeOwnership` and
  `WedgeStays`.
* `DiagnosticsStatusProofs`. `DiagnosticsTypeCorrect`; `StampInv` (a body state
  in the status file or in a run was held by its owner no longer ago than its
  stamp says) gives `ProjectionIsRecent`. `JournalInv` says of a run no other has
  overtaken that the status file is still the one it compared with, or the one it
  wrote, and of one past its first write that the journal tells every subject
  neither in doubt nor among its events as it found it (`UpToDate`); and that at
  most one such run is past its first write (`OneLatest`). It gives
  `JournalIsTrue`, with any number of overlapping and interrupted runs.
* `ProcessLoopbackObserverProofs`. `ObserverTypeCorrect`, in three parts (what
  the COM thread shares, the task, the clock); `CustodyInv` says in conditions
  which of COM thread, handler, task and backend holds the client (`OneHolds`)
  and what each of the two threads may conclude from `_state` (`Handover`: an
  available client is in the slot and the callback is past it, an abandoned one
  is not published). Neither is inductive alone. Together they give
  `ClientHasOneCustodian`. `ReportInv` adds, on top of both, what the counters of
  starts, stops and releases are at each step of the task, what the callback may
  still do once the task has gone on, and which outcomes are left open; it gives
  `ReportCanBeReliedOn`.
* `SelfMirrorCaptureProofs`, any timing, arguments and failures. `CaptureInv` is
  four parts: `LoopInv` (when the loop takes a frame the clock is past the
  frame's nominal date, and whatever came due by the loop's reading was sent),
  `PageInv` (what the loop believes it sent, the page heard), `EndInv` (what the
  finally block still owes) and `FrameInv`. They give `DanceIsStoppedHolds` and
  `FramesFollowStimuliHolds`. For the whole proof run `ProofInv` adds the bounds
  of the loop's clock and of what it may have read (`BoundsInv`: frame k is
  started no later than its nominal date, or the clock's bound stopped the loop)
  and that a packet has the published vocabulary and numbers that can be judged
  (`PacketInv`); it gives `ProofTypesHold` and `JudgmentsAreGuarded`.
  `VerdictsHaveEvidence` needs `EvidenceInv` besides: the loop is left without a
  failure only after its last frame (`LengthInv`), a page that is sent no trigger
  shows no result (`SilentInv`), and the packet is the summary of the analysis of
  exactly this run (`AnalyzedInv`). The rest of its proof is about one analyzed
  run: the four windows are ordered and apart, so a frame is in at most one and
  the frames of a window are consecutive; a frame of the active window was heard
  by the page (`FrameInv`); the peaks over sets of rows are bounds on the scores
  of frames; and the longest run of rows reaches the minimum exactly when that
  many frames in a row do. From there the labels, the verdict and the diagnosis
  are traced to the frames, in both directions.
* `AutoJudgmentProofs`, the analyzer's and the judge's operators for any
  measurements: that a finite set of integers has the maximum the definitions
  choose (by a minimal counterexample, since induction itself cannot be
  instantiated), which rule of a list decides, when the label of a region, the
  overall result, the diagnosis and the packet say what (`LabelSays`,
  `OverallSays`, `DiagnosisOfRows`, `PacketSays`), that windows which are apart
  give a frame one window (`WindowAt`), that the longest run over a set of rows is
  a run of frames (`LongestRun`), that a summary of any run is a packet the judge
  can take, that a pass went past every guard, and that judging the judged packet
  changes nothing more. The proofs of `SelfMirrorProof` cite these.

  Assumed of the inputs of a proof run is `ProofAssumption`: finitely many
  regions and at least one, scores, window offsets and thresholds that are
  naturals, a clock bound that leaves a run its last frame, as many observed
  frames as the capture takes, and that a scenario which expects motion requires
  the runtime join or the run has a trigger. Every motion scenario of
  `runtime/visual-motion-analyzer/self-mirror-scenarios.json` requires the join;
  without that, a run that was never triggered could be a pass on motion the page
  was not asked for.
* `SelfOutputRouteProofs`, any speeches, retained histories, deadlines, bounds
  and number of generations that supersede one another. `RouteInv` is `StoryInv`
  (what Core heard is in order, what it heard last is what the transport
  follows, and what the transport is about to tell comes next), `StageInv` (what
  the two events say of the speech followed), `CountInv` (the counters against
  Core's story) and `ControlInv` (what the controller may conclude from its
  snapshots, and when). None is inductive alone: that a released notice is told
  only after the cooldown event rests on the story, the verdict on the counters.
  It gives `CoreHearsInOrderHolds`. `PollInv` adds that every ingested notice and
  the baseline took a read of the page (`PollsHold`), so that the lower bound the
  controller has for the reads never refuses a completed route; with it follows
  `CompletionIsTrueHolds`.
* `VoiceCaptureProofs`, any number of packets. `VoiceInv` relates the place the
  task is at to what is on the wire (`WireInv`, `CountInv`: part n is the nonce,
  a prefix or a body by its number unless a failure tore it), to the stream that
  two threads may close (`StreamInv`), to the counters of sink, backend and
  metrics, and to the lease seen when the server acknowledged (`LeaseInv`). The
  parts need one another: that the check of the counters never fails rests on
  where a failure may arise, and a stale lease's empty wire on the count. It
  gives `TypeOKHolds`, `ReportIsTrueHolds` and `StaleLeaseNeverCapturesHolds`,
  and every step is shown to be one of `FramedChannel` or a stutter
  (`ImplementsFramedChannelHolds`); what this needs besides is that a pipe once
  closed or torn stays so (`ShutForGood`).

Only model-checked: liveness (`UpgradeCompletes`, `ObservationEnds`,
`LateClientIsReleased`, `CaptureEnds`, `StatusCatchesUp`, `RouteEnds`), which the
prover cannot do under fairness.

## 5. Not modelled

* Of the self-mirror proof: the measurement of pixels (a score is an input), the
  controlled-chrome, synthetic and configuration-file paths, the browser's
  launch and readiness wait, the CDP session's own protocol, charts, guides and
  the redaction checks, and `-KeepRawFrames`, which only leaves files on disk.
* Of the self-output route: what the controller does before the child is started
  and its phase of the user's own speech (one step that may fail). The checks of
  single fields of a notice are a read that may throw; those of the report's
  fields that restate nothing of the model's state are one choice, legible or not.
* Of the process loopback observer: the catch around the backend's disposal
  (`ProcessLoopbackObserver.cs:345-352`), as this backend's `Dispose` throws
  nothing. A client that does not cast (875-882) is part of `ClaimClient`.
* The cell speech test and the prepared sample playback controller: sequential
  controllers whose state is the operating system's (process table, ports) or a
  browser page's. A model of them would check its own assumptions about those.
* Distribution maintenance and home control: one pass of external commands;
  what a failed command leaves behind is decided by git or a package manager.
* The memory classifier: keyword tables over texts. Its routes are the candidates
  `MemoryStore` takes as inputs.
* Audio measurement summaries, VRM telemetry, diagnostics readers, readiness
  checks, formatting, contracts and areas that are documents: stateless.

`PROJECT.json` gives the reason for each component.
