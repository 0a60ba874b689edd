# A verification project for serena-cli

serena-cli is a command line and a daemon that put language servers (LSP) at the
service of scripts and agents. A CLI call looks for the daemon through a lock
file, spawns it when there is none, and forwards one *tool* call over HTTP. The
daemon keeps a pool of language-server processes, one per (project root,
language), talks JSON-RPC to them over pipes, runs tools that read or write the
project, and ends itself when it is told to or has been idle.

This directory holds TLA+ modules of the concurrent parts of that system, TLC
configurations that check them on small instances, and TLAPS proofs about the
session pool, the draining of the daemon, its lock file, the session, its writer, the
open documents and the tools that write them, and the undo store. The text below is an inventory of the system, a guide to the modules, and the
plan of what is still to be written. `PROJECT.json` lists the
runs, the mutants, the source lines of every definition, the disagreements
between comments and code that the runs exhibit, and the hazards of the code.

To repeat a run: `tlc -config PoolSafety.cfg MCInstancePool`; to repeat the
proofs: `tlapm InstancePoolProofs.tla`, and so for `DaemonDrainProofs`,
`DaemonLockProofs`, `LspSessionProofs`, `PriorityWriterProofs`, `UndoLogProofs`,
`WritePathProofs` (the longest, about twenty minutes) and the lemmas in `SequenceLemmas`.

## 1. Inventory

All paths are below `src/crates/`.

| Component | State | Operations | Talks to |
|---|---|---|---|
| CLI, forwarding (`cli/src/main.rs`) | the token and the port it talks to | find the daemon, spawn it, poll `/status`, forward a tool call, retry on refused connections, on a stale token, on a draining daemon | lock file, daemon's HTTP port |
| Lock file (`daemon/src/lockfile.rs`) | a file (pid, boot time, port, token) | `try_become_daemon`, `read`, `remove_owned`, `probe_alive` | other daemons, every CLI call |
| HTTP front end (`daemon/src/http.rs`, `serve.rs`) | `draining`, `in_flight` | tool calls, batches, `/shutdown`, `/status`, Ctrl-C | supervisor, reaper |
| Reaper (`daemon/src/reaper.rs`) | the scan loop, the global activity clock | evict failed, idle and surplus servers; end the process | supervisor, lock file |
| Supervisor pool (`supervisor/src/lib.rs`) | `instances`, `load_gates`, `last_used`, `launch_exe`, `failure_memo`, time-out streaks, each under a mutex of its own | `session_for`, `with_session_retry`, `evict`, `evict_failed_instances` | sessions |
| Session (`lsp-core/src/session.rs`) | `SessionState`, progress tables, the pumps | `start_named`, `request`, `wait_for_progress`, `shutdown`, `on_eof` | client, pool |
| LSP client (`lsp-core/src/client.rs`) | `next_id`, the pending table, the outbound channel | `request_at`, `send_once_at`, `handle_message`, `abort_all` | pumps, sessions |
| Pumps (`lsp-core/src/transport/stdio.rs`) | three queues, the reply channel, the token bucket | `priority_writer_loop`, the stdout pump | server process |
| Document synchronisation (`lsp-core/src/docsync.rs`) | open buffers with reference counts and versions | `ensure_open`, evictions, `force_close` | client |
| Framing, offsets (`lsp-core/src/framing.rs`, `offsets.rs`) | the decoder's buffer | `decode`, positions to bytes and back | stdout pump, editing tools |
| Undo store (`supervisor/src/undo.rs`) | transaction directories, open transactions | `recorded_write`, commit, abort, undo, redo, prune | file system, write gate |
| Write gate, version ledger (`supervisor/src/write_gate.rs`, `version_ledger.rs`) | one global mutex; a version per file | `acquire`, `stale_guard_check`, `bump` | every writing tool |
| Tools (`supervisor/src/*_tools.rs`, `recipe*.rs`, `ct.rs`) | symbol and diagnostics caches | about forty tools | pool, undo store |
| Installation (`ls-runtime/src/install*.rs`, `deps.rs`) | installed servers on disk | download, verify, unpack, rename | pool (executables) |
| Adapters, registry (`ls-adapters`, `ls-registry`) | none | commands, parameters, ready probes | pool |

How they interact. A tool call enters the HTTP front end, which checks
`draining`, counts it and runs it, a writing tool in a task of its own so that it
survives its client. The tool asks the pool for a session (`session_for`): a hit
is reused, a miss goes through a per-key gate, launches a process and does the
LSP handshake. `with_session_retry` heals the pool when the session turns out
dead. The reaper evicts sessions behind the callers' backs and alone ends the
process. A session's requests go through the client's pending table and the
writer's queues; its answers come back through the stdout pump, whose end marks
the session failed. A daemon that ends removes its lock, and CLI calls that find
a stale lock race to start a successor.

What is hard: every table of the pool has a lock of its own and every await lets
others run; a future may be dropped at any await; the daemon may be killed at any
point with its lock on disk; `tokio::sync::Notify` wakes only those who wait;
time-outs race with answers; and the same healing is done by callers, by the
reaper and by the end of the pump at once.

What makes each component correct:

* pool: one cold start per key; what it hands out was started for the key and
  has ended its handshake; remembered failures start no process; gates are
  given back; dead sessions leave;
* shutdown: accepted work is counted, drained or at least not cut without a
  window; writes run to their end; the process ends;
* lock: one daemon serves, it is the one the lock names, and calls end;
* writer: nothing accepted is lost, High frames keep their order and overtake,
  backlogs drain;
* client and session: answers reach their requests, the pending table does not
  grow, the end of the server is noticed, shutdown ends;
* documents: what counts as open is what the server was told, under the same
  version; references are neither lost nor left over; the table stays small;
* writing tools: an edit goes into the text it was computed from, at the place it
  names, and what was written reaches the server;
* undo store: no change without a record, undo and redo move in the history of the
  writes, what is recorded can be undone.

## 2. The modules

Every module describes atomic steps as the code has them: one critical section,
or what a task does between two awaits. A definition carries the name of the
function or field it stands for. Definitions under a comment `Mutant of ...` are
plausible bugs: put in the place of the action they name, they break the property
`PROJECT.json` pairs them with; no specification refers to them. The last section
of some modules states what a comment of the code says and the code does not keep;
those formulas are checked by runs that are expected to fail.

### InstancePool: `supervisor/src/lib.rs`

`session_for`, `with_session_retry`, `evict`, `evict_failed_instances`,
`loaded_entries` and the failure memo. State: `instances`, `gate` (who holds the
async mutex in `load_gates`), `lastUsed`, `launchExe`, `memo`, `streak`, the
session table `sess`, `onDisk` (the executables), and per actor a program counter
with the locals `key` and `cached`. `FastRead .. FastTouch` is the fast path,
`AcquireGate .. Insert` the slow path under the gate (the reuse check of either reads the state
of the session it found, `launch_exe`, the pool and the disk one after the other), `Use*` the outcomes
`with_session_retry` tells apart, `EvTake .. EvStop` is `evict`, `Scan*` and
`ReapNext` are the reaper. `Cancel` is the drop of a call's future at an await.
Sessions are reference counted (`Arc`): one that neither the pool nor a local
variable refers to is destroyed with its process, and its identity is used again;
hence spawns need no bound. What is in a language server, which entries have
expired, and how often a memo expires are left open.

### DaemonDrain: `daemon/src/http.rs`, `serve.rs`, `reaper.rs`

Requests pass the draining check (`Admit`), are counted (`Count`), end, or lose
their client (`Disconnect`: a read is dropped, a write goes on `detached` with its
count, the write of a batch without). `Shutdown` and `CtrlC` set `draining` and
sample the count (`Sample`) until it has been zero for the quiet period or the
window is over; `Notify` wakes those who wait. The reaper selects between its
timer and the notification, looks at `draining`, judges idleness from the ages of
two clocks, evicts, and ends the process. `Batches` are requests to `/batch` with
a writing call.

### DaemonLock: `daemon/src/lockfile.rs`, `serve.rs`, `cli/src/main.rs`

Daemons `Start`, `Bind` a port, and arbitrate with the lock file: create it, write
it, or read the existing one, probe its owner, remove it and try again. CLI calls
read the entry, probe, ask for the status of a draining daemon, spawn, wait for
readiness, read the token, send, refresh a stale token. Processes are killed
(`Kill`) with their lock on disk. File operations are separate steps, and the lock
file is a name: a process that holds it open goes on writing after it was removed
(the behaviour on Unix).

### PriorityWriter: `lsp-core/src/transport/stdio.rs`

The writer task with its channel of frames, its channel of replies, the queues
High, Normal, Background, the demotion of a Normal frame that waited 50 ms
(`Age`), and the token bucket (`Refill`). `SelectReply` and `SelectFrame` are the select,
`Drain` and `Drained` the `try_recv` loop behind it, which takes the frames one by one
while senders go on (`Take`, `Route`); `Inner*` and `Write*` are the inner loop.

### LspSession: `lsp-core/src/session.rs`, `client.rs`

`start_named` (slot for the pump's weak reference, initialize, initialized,
Ready), requests (`Insert` in the pending table, `Send`, `Receive`, time-outs,
`ContentModified` retries, cancellation), the stdout pump (`Dispatch`, and at the
end of stdout the three steps of `on_eof`), and `shutdown` (request, kill, wait for
the end of stdout, Failed).

### UndoLog, UndoHistory, UndoRefinement: `supervisor/src/undo.rs`, `write_gate.rs`

State: the files (`disk`), the store (per number the prefix of its directory,
`txn`, `undone` or `discarded`, and its manifest, torn while there is none yet),
`open` (`OPEN_TXNS`), the `gate`, and per call a program counter with its locals.
`StartTool .. Return` is a writing tool under the gate, with `ReadBefore`,
`MakeDir`, `WriteEmptyManifest`, `WalAppend`, `WriteTarget` for `recorded_write`;
`StartCommit .. Abort` is the end of `execute_tool`, `StartFormat` format-on-write;
`StartUndo .. RestoreFails` is `undo_at` and, with the other prefix, `redo_at`; `List`
prunes. `Crash` ends the daemon and `Edit` changes a file behind its back. Contents
stand for their hashes; looking at a transaction and deciding on it is one step, as
is the removal of a directory. Expiry by age or size is a prune that goes further
than the count asks for; transactions of calls in progress are assumed to be neither
a month old nor above the 200 MB limit.

`UndoHistory` is what a user is promised: a past, a present and a future of images of
the project. `UndoRefinement` maps the store to it. `Done` and `Undone` are the
transactions that count: those whose call has begun its commit, and the undone ones until
a commit clears them. The present is the files without what the call in progress has
done, and with what an undo has taken back of a transaction it has not yet marked. The
image before a transaction has, in each file, what the first transaction from it on that
records the file found there (`Back`); the one after an undone transaction has what the
last one up to it left (`Ahead`). `PastImages` and `FutureImages` are these images in
the order of the numbers.

### DocSync, WritePath: `lsp-core/src/docsync.rs`, the tools of `supervisor/src/lib.rs` and `edit_tools.rs`

DocSync has the table (`buffers`, with the time stamp of the announced text, the
version, the references and `needs_resync`), the order in which files were
`released`, what the server has (`view`), and per call the locals of its `ensure_open`
(`opening`), its guards, and the documents it has taken from the table and must still
close (`closing`). `Held` is how often a call counts in an entry, its guards and the one it
is about to get, and `Holders` the sum over the calls. A stamp stands for a text and for the mtime and size under which it
was read: every write of a file gives it a new one. `Stat`, `Read`, `Book*`, `Send`,
`Rollback` or `Settle`, `CloseNext` are `ensure_open` as it locks, gives the lock back
and awaits; a `Drift` starts it again.

WritePath composes DocSync with the write gate and the files. What a tool does is a
sequence of steps, its *plan* (`EditPlan` for the symbol edits of `edit_tools.rs`,
`ReplacePlan`, `DeletePlan`, `RenamePlan`, `FormatPlan`, `LinePlan`, `CreatePlan`,
`UndoPlan`, `ReadPlan` for the tools that only ask, and `OutlinePlan` for those of them that
keep the answer); each kind of step is one action,
and one that fails ends the call. `Ask` notes from which text the server answered
(`base`), `Load` which one the tool has read. A file is read or not there: other errors of reading, after
which a tool ends as when it is not there, are left out. `Look` makes the key of an outline (`Key`:
the stamp of the file) and looks for it in `cache`; after a miss `Tidy` looks at the file once
more and takes older answers for it out; `Keep` puts the answer under the key that
`Look` has made, and `Forget` is the end of a symbol or line edit, which empties the cache. Notifications and requests on documents
are all High, and leave in the order in which they were sent (`HighInOrder` of
PriorityWriter), so that they take effect in the step that sends them. A call that acts
on a file while another is between its booking and its message puts the file into
`crossed`: what may happen then is in section 5.

### Framing, TextLines, TextEdits: `lsp-core/src/framing.rs`, `offsets.rs`, `supervisor/src/edit_tools.rs`

Pure algorithms, without variables. `Framing` is `Decoder::decode` with the loop of the
stdout pump around it; a header line is one element of the stream, and so is what spoils
one ("bad": a length that is no number, bytes that are no UTF-8). Of the JSON of a body
the model keeps the braces at its two ends (`IsJson`), so that an empty body, a body of
something else and one cut short are refused as `BadJson` (framing.rs:187, and its tests at
372-392), after the frame has been taken out of the buffer: the pump ends there.
`TextLines` cuts a
text into its lines (`LineEnds`, `LineStarts`); `TextEdits` has the
conversion of positions (`PositionToByte`, `ByteToPosition`, `SliceAt`), the application
of a formatter's or a rename's edits (`ApplyEdits`), the line tools (`InsertAtLine`,
`ReplaceLines`, `DeleteLines`) and the two deletions (`DeleteText`, `DeleteSymbol`). The formatter
refuses an edit whose range is reversed, a rename does not (`checked`). A
text is a sequence of characters of which there are four: a letter, a character outside
the BMP, \n and \r. The properties quantify over all texts up to a length, and compare
with definitions that know nothing of bytes: sets of counterexamples (`Misread`,
`Displaced`, `Disarranged`) that must be empty. The MC modules attach them to the states
in which the algorithm runs: the pump reads, a tool is about to write.

The other modules do not share variables. They meet at these points: the session a
`Crash` of InstancePool fails is what the pump of LspSession marks (`MarkFailed`);
`EvStop` of InstancePool is `Stop` of LspSession; `Send` of LspSession puts frames
into the channel of PriorityWriter; the process that `CleanUp`s and exits in
DaemonDrain is the daemon that goes through `End` in DaemonLock; a request that
DaemonDrain drops is a `Cancel` of InstancePool.

## 3. What the runs check

Passing runs:

| Run | Shows | Instance |
|---|---|---|
| PoolSafety | `OneColdStart`, `PooledSessionsServe`, `MemoStopsColdStarts` | 2 callers, the reaper, one key, 4 session identities, 2 time-outs evict |
| PoolLive | `CallsReturn`, `FailedAreReaped` under fairness | 2 callers at one gate; single calls beside the reaper; 3 identities |
| DrainShutdown | `CountIsExact`, `DrainedMeansIdle`, `WritesRunToTheirEnd`, and `ShutdownEnds` under fairness | a read, a write, a batch, 2 quiet samples |
| LockCalls | `ServersAreFound`, `TakeoverOfTheDead`, and `CallsEnd`, `ArbitrationEnds` under fairness | 3 daemons, one of them on another port, 1 client, 2 kills, 1 shutdown |
| WriterQueues | `HighInOrder`, `NoFrameIsLost`, and `BacklogDrains` under fairness | 2 High, 1 Normal, 1 Background frame, 2 replies, one token |
| SessionLife | `AnswersMatch`, `PendingIsWaited`, `FramesAreWhole`, `TimeoutIsHonest`, and `DeathIsNoticed`, `ShutdownEnds` under fairness | a call, the handshake, the shutdown; 3 attempts each; streams of two messages in three chunks |
| UndoSafety | `TopIsUndoable`, `WalFirst` | 3 calls, undo and list, one file, 2 contents, 3 numbers, one trouble |
| UndoHistory | `HistoryIsKept`: UndoLog implements UndoHistory | 1 call at a time, undo and redo, 2 files, 2 contents, 3 transactions |
| WriteSync | `EntriesAreTrue`, `CountsAreGuards`, `EditsFit`, `WritesArrive`, `KeptAnswersFit`, `WritesHitTheirPlaces`, `TableStaysSmall`, `VersionsRise` | a call of eight kinds beside a line edit or an undo; 2 files, a table of 2, one write, one trouble; texts of 4 characters |

One run of each module also checks its `TypeOK`, which holds more than types where
a field is only meaningful in some states.

Runs that end in a counterexample. Each checks one sentence of a comment, quoted
with its line in `PROJECT.json`, "findings":

| Run | What happens |
|---|---|
| WriterStall | a frame drained in the turn that writes a reply is not written until another frame arrives |
| SessionReady | a session whose server ended during its start is set Ready for good |
| RenameFit | a rename that waited for the gate behind an undo computes its edits from the text before the undo |

### Bounds

One key is enough for the pool: no table relates two keys, and the reaper's scan
of several keys is only an order of independent evictions. Two callers and the
reaper give every pair of roles: two cold starts, a cold start and an eviction, two
healings. Four identities suffice for two callers and a reaper that each hold one
while the pool holds another. PoolLive has the same actors in two parts (`MCPoolLive`), since
liveness for all of them at once is too long: in one, two callers meet at the load gate, so
that one waits for the return, the failure or the cancellation of the other, while the reaper
sleeps and nobody uninstalls; in the other, single calls run beside the reaper and the
uninstaller. The reaper takes no load gate and waits for nobody, so that no wait spans the two;
what it does to the tables beside two callers is in PoolSafety. Three daemons allow an owner, a successor and a
contender of the two; the bounds `MaxCrashes` and `MaxShutdowns` limit only what the
environment does. `ServersAreFound` is claimed until the first shutdown because a
shutdown does break it (section 5); and for the daemons on the port of their
contenders, since a contender from `Elsewhere` may take a half-written lock for a broken
one.
Ages of clocks stop at the largest
threshold (`MaxAge`), beyond which the code does not tell them apart. Two samples
stand for the 25 of the quiet period; what matters is that there are several and
that one busy sample starts them anew. Channel capacities of 1 and 2 let senders
meet a full channel. `MaxRetries = 3` is the value of the code.
In UndoLog `MaxTroubles` bounds crashes and mishaps together; a mishap is an edit, an
expiry, a failure after a write, a failure of a restore, a run of the formatter. Three
calls are what it takes for a tool to commit, an undo to run and a third to open its
transaction within each other's steps; with one file every pair of records meets. Three numbers
let a transaction meet two older ones; the count `MaxTxns` is 1 so that it bites. Two calls on
two files with two numbers (3.3 million states) gave the same result. An undo or a list may come
between a tool's write and its commit or abort. What it then can do is to let a number be given
out that a call still has open (`reused`, a history variable of `MakeDir`), and from there on
neither property holds; both exclude it by name, and section 5 has the sequences. Redo is left out of UndoSafety, since a redo that is cut off breaks
`TopIsUndoable` (section 5 again). `HistoryIsKept` is claimed for calls one after the other, without
troubles: an edit or a crash is no step of a history. `OutboundCap` and
`Burst` stand for 64 and 60.

In WritePath two calls and two files are enough for a pair at one file and for an
eviction of the other; the table of 2 stands for that of 32. One trouble is a refused message, an
expiry of idle buffers or an edit from outside. The constraint `Uncrossed` ends a behaviour where two calls
cross each other within their steps: what EntriesAreTrue, EditsFit and WritesArrive say
is not promised there (section 5), each of them excludes it by itself, and without the
constraint the run is too long. `KeptForReads` ends those in which an outline is asked for
beside a call for the other file, or in which a kept answer meets anything but the other
caller's write and the next outline: a key is about one file, and stamps do not come
back, so that an entry that was right when it was kept stays so. `CacheMax` is 1, so that the second answer empties the cache, as the
513th does. `read` is a part of `outline`, and takes part in RenameFit only; `replace`
opens its file before the gate as well, and otherwise has the steps of `delete` with one
request less. The properties of texts have texts of up to 4
characters: two lines and an empty one, a pair of edits that share a line, a line end of
two characters, a surrogate pair before a cut. `MaxFrameBody = 13` is longer than any
header and body of the streams but for those that are to be refused, as the 64 MiB are
in practice; the streams end with a header without a length, one that is too long or no
number, an empty body, a body that is no JSON, or bytes without a delimiter; the middle chunk of at most four bytes may lie anywhere within a delimiter.

`CHECK_DEADLOCK FALSE` is set where the system does stop: a daemon process that has
exited, a writer that has returned, a session that is shut down. The pool never
stops, and its runs check for deadlock.

### Fairness

Weak fairness of a task's own steps: tokio runs a ready task. `AcquireGate` is
strongly fair because `tokio::sync::Mutex` serves its waiters in order of arrival.
The awaits of a call are assumed to end because each has a time-out (requests,
handshake, shutdown, draining). `ScanFailed` is strongly fair: the reaper ticks for
ever, and a tick that finds nothing goes back to sleep. PoolLive states the fairness of callers in
both of its parts and that of the reaper in the second. Nothing is assumed of the
environment: nobody has to call, crash, kill, uninstall, or stop doing so, and a
tool call in DaemonDrain may run for ever. WritePath, UndoLog and the constant modules
state safety only: every wait of a writing tool has a time-out of its own (`GateTimesOut`,
`AskFails`), so that an end is not in question.

## 4. What is proved

`InstancePoolProofs` proves for any sets of callers, reapers, keys and session
identities, under `PoolAssumption` (reapers are no callers, `None` is nothing else,
the streak threshold is positive):

* `TypeCorrect`: `Spec => []TypeOK`;
* `ColdStartsExclude`: `Spec => []OneColdStart`;
* `PoolServes`: `Spec => []PooledSessionsServe`;
* `MemoHonoured`: `Spec => []MemoStopsColdStarts`;
* `SlowPathSafe`: `Spec => SlowPathKeepsFresh`, an action property stated in the proof
  module.

None of these is inductive. `GateInv` says that a caller is at a step of `ColdPcs`
exactly when it holds the gate of its key; it needs that evictions leave the gates
alone and that every return gives the gate back, and it implies `OneColdStart`.
`OwnInv` adds what the holder of a gate knows: which of its sessions is starting or
ready and started for its key, that its session is not in the pool before `Insert`
and nobody else's local variable before it is published, that what another actor
holds under eviction is no longer pooled, and that nothing under the gate's key
enters the pool while another holds the gate. `PooledSessionsServe`,
`MemoStopsColdStarts` and the action property `SlowPathKeepsFresh` follow from
`OwnInv`. The layout: one lemma per invariant, in it one step per action of `Next`;
`KeptType` and `StateType` deal with the reuse of session identities, and
`QuietPreserves` with the many actions that leave pool and gates alone.

`DaemonDrainProofs` proves for any sets of reads, writes and batches and any thresholds,
under `DrainAssumption`:

* `TypeCorrect`: `Spec => []TypeOK`;
* `CountExact`: `Spec => []CountIsExact`;
* `DrainHonest`: `Spec => DrainedMeansIdle`;
* `WritesComplete`: `Spec => WritesRunToTheirEnd`.

`CountIsExact` is inductive with the types. `DrainedMeansIdle` is about a single step,
but needs to know what happened since the drain began: `QuietInv` says that a drain that
waits has counted fewer than `QuietSamples` quiet samples, and that from the first of
them on `draining` is set and no request is between its check and its count. Then the
sample that ends the drain sees an empty count, which `CountIsExact` turns into "no
request is running or detached".

`LspSessionProofs` proves for any finite set of callers, any number of retries and any
channel capacity, under `SessionAssumption`:

* `TypeCorrect`: `Spec => []TypeOK`;
* `AnswersReach`: `Spec => []AnswersMatch`;
* `PendingWaited`: `Spec => []PendingIsWaited`;
* `TimeoutsHonest`: `Spec => TimeoutIsHonest`.

And about the bytes that its pump reads, under `FramingAssumption` (`MaxFrameBody` is
a positive number):

* `DecoderIsAfresh`: what the decoder remembers shows in no result;
* `MessagesAreWhole`: in whatever chunks any stream of messages arrives, what has been
  dispatched are the messages that have arrived, once each and in order, and the pump
  ends when what follows is no message, for its header or for its body, and only then;
* `FramesWhole`: `MaxFrameBody >= 11 => (Spec => []FramesAreWhole)`, the streams and cuts of
  the run; 11 bytes is their longest header with its delimiter, and `MAX_FRAME_BODY` 64 MiB.

`BoundInv` shows that `Ids` has an id for every request: a process makes one for each of
its turns, a turn is used up by an answer `ContentModified`, and `Cardinality(Used)`
bounds the ids given out. `OwnInv` says that ids in use are below `nextId`, so that a new
one is nobody's; `TableInv` that an entry in the table has an empty oneshot and was given
out; `WaitInv` that who sends or waits has an id, and its entry as long as its oneshot is
empty. The last is what makes `WaitTimesOut` honest, and `Receive` leave the table alone.

`MessagesAreWhole` is an induction over data, of which the prover has no rule with an
operator as parameter. It is stated with sets instead: of the numbers for which a claim
fails there is a least one (`LeastIs`), hence a set that has the first and with each the
next has the last (`Reaches`). That a function which recurs over `0..n` is what its
equation says (`TurnsExist`, `AfterTurnsIs`) is the first use. The argument has three
parts. `DecodeIs`: a decode returns what the bytes in the buffer say, a frame that is
there (`Taken`: a message, or an error when its body is no JSON), `Awaits` or `Broken`; what
waits is neither there nor broken (`WholeIs`, `NotBoth`); the invariant of the decoder, `Remembers`, is that
no delimiter begins in what it has searched but the last three bytes, and that a header
it knows is the one of the buffer, and more bytes do not change it (`RemembersMore`).
`BufferIs` and `TurnIs`: the buffer is the stretch of the stream after the messages that
were dispatched, so that it begins with the next one if that has arrived, and waits for
it if not (`MessageSeen`, `MessageAwaited`, whatever bytes of delimiters its body has).
`TurnsSettle`: each turn takes out a message of five bytes at least, hence the turns of
`ReadChunk` come to a chunk that is used up. `ChunkIsRead` puts them together for one
chunk, and `MessagesAreWhole` goes over the chunks. The messages of `FramesAreWhole`, with
lengths in one or two header lines, are messages by `HeaderMakesMessage`, its tails, two of
which are frames whose body is none, are `Broken` (`TailsAre`).

`DaemonLockProofs` proves for any daemons, calls and ports, under `LockAssumption`:

* `TypeCorrect`: `Spec => []TypeOK`;
* `ServersFound`: `Spec => []ServersAreFound`;
* `TakeoverSafe`: `Spec => TakeoverOfTheDead`.

The lock file alone excludes nothing (section 5); what does is the bind. `HoldInv` says
that a daemon holds its port from the bind to the end of its service, and that one that
is not running would be started for the default port, so that daemons whose ports once
differed do not come to agree. With one port, `HoldInv` leaves at most one daemon past
its bind, and `OwnedInv` says what it has made of the lock: created it before it writes,
written it before it serves, as long as nobody has been shut down. A shutdown removes a
lock after a check that is a step of its own, and is why `ServersAreFound` ends there.

`UndoLogProofs` proves for any finite set of calls, any files and contents, any number of
transactions and troubles, under `UndoAssumption`:

* `TypeCorrect`: `Spec => []TypeOK`, with the exclusion of the write gate;
* `WalIsFirst`: `Spec => WalFirst`;
* `ConflictsHaveCauses`: `"redo" \notin Ops => (Spec => []TopIsUndoable)`;
* `HistoryKept`: `Sequential => (Spec => HistoryIsKept)`.

Nothing is assumed of undo, redo and list: they wait for the gate and for no tool, as in
the code, and may take away, bring back or prune the transaction of a call that has yet to
commit or abort. A record is in the manifest of its call when the file is written
(`WriteInv`) because under the gate nobody renames or prunes that directory, and an abort,
which takes no gate, removes the directory of a number. So the numbers of the calls must differ
(`NumInv`), and they do as long as none is given out that a call has open: that is what `reused`
says and the code does not exclude (section 5). `RestoreInv` says that an undo restores records
of its manifest, as long as the manifest is there: the abort of a tool that failed, or whose
commit timed out, may remove it under an undo's hands. Both theorems keep these two cases
apart, and cover the rest of what an undo beside unfinished tools can do.

`ConflictsHaveCauses` is proved without redo, since the property fails otherwise (section 5).
It is a claim about one undo, and true because of
what all transactions together keep: `Chain` says that if the later transactions are
undone, the file of a record holds what the record has as `before` or `after`, and
`after` only if the write that follows the record is no longer to come (`Busy`). `Sees`
computes what would then be found from the records alone, so that the lemmas about it
(`SeesAbove`, `SeesTop`, `SeesRemoved`, `SeesAdded`) are about sets of records and not
about undoing. Every way a transaction leaves the store keeps `Chain` for a reason of
its own: a prune takes the oldest, below which nothing is (`OldestDown`), an abort a
transaction that has written nothing, an undo the last one after it has put everything
back (`UndoerOK`; when an abort has taken its directory away, there was nothing to put back), and a crash leaves records whose write did not happen, for which
`before` fits. A new record fits because `before` was read under the gate (`WriterOK`).
The invariant `Fit` holds while there has been no mishap, and the property speaks of
those states; crashes are not mishaps.

`HistoryKept` is the refinement. `Sequential` says that there is at most one call at a
time, that there are no troubles, and that the count prunes nothing; each is needed for a
history of images to be what the store implements. A writer that allocates its number
before another and commits after it inserts an image in the middle of the past, an edit
from outside changes the present without a write, and a prune forgets the beginning of the
past. What the calls are, how many follow each other, and the numbers of files, contents,
transactions and steps of an undo are arbitrary.

The images do not move while the store does, because each transaction is linked to the
next one that records the same file: what it left is what that found (`Linked`, and
`LinkedAhead` for the undone ones), and the last one left what is there now. Then a
transaction that is put behind the others adds the present image to the past and changes
no image before it (`PushBack`), one that is put before the undone ones adds it to the
future (`PushAhead`); read backwards, the same two lemmas are about taking it away.
`Recent` and `Coming` say it of the sequences, in which a transaction is known by its rank
(`Nth`). `HistInv` adds what the call in progress knows: its transaction is the newest,
and each file it records is written or about to be (`OwnFits`); an undo works on the
last of the past, a redo on the first of the future, and every file of it is restored or
still to come (`JobFits`). With that each step is placed: the start of a commit with
records is the `Write` of the history; a mark, or a transaction with nothing left to do,
its `Undo` or `Redo`; all the others are stutters, an abort because the call has written
nothing, the removals of a commit because what it removes has stopped counting, and a
restored file because the present looks through it. TLC checked `HistInv` on the
instance of the run, and on one with four transactions and `list`, before it was proved.

`PriorityWriterProofs` proves for any finite sets of frames and replies, any capacities and
any burst, under `WriterAssumption`:

* `TypeCorrect`: `Spec => []TypeOK`;
* `FramesAreKept`: `Spec => []NoFrameIsLost`;
* `HighStaysInOrder`: `Spec => []HighInOrder`.

That nothing is lost or doubled is inductive as a count (`Counted`) and a set (`Placed`)
together: as many frames wait and are written as were accepted, and they are the accepted
ones, hence each is in one place. Neither says it alone. The order needs `Ordered` on each
part of the way: of two High frames, the one that was sent first is written, or in `high`
while the other is in the channel, or ahead of it in the same queue; demotions and
Normal frames share none of these places, the channel excepted. `SequenceLemmas` has what
both need about appending, removing and filtering sequences, and what the proofs about
texts share: functions that recur, sums, ranks in a set of numbers, and lines.

`WritePathProofs` proves for any finite sets of calls and files, any plans of the tools
named in WritePath, any capacity, any writes and troubles, and without the
constraints of the run, under `DocSyncAssumption` and `WritePathAssumption`:

* `TypeCorrect`: `Spec => []TypeOK`, with who may hold the gate and a guard;
* `ReferencesAreCounted`: `Spec => []CountsAreGuards`;
* `EntriesStayTrue`: `Spec => []EntriesAreTrue`;
* `CapacityIsKept`: `Spec => TableStaysSmall`;
* `ChangesRise`: `Spec => VersionsRise`;
* `EditsAlwaysFit`: `Spec /\ [][Undisturbed]_vars => []EditsFit`;
* `WritesAlwaysArrive` and `KeptAnswersAlwaysFit`: the same of `WritesArrive` and
  `KeptAnswersFit`.

The inductive invariant `IInv` has two halves. `DocInv` is about the table. `ReleasedOK`
ties the order of release to the references, without which an eviction could take a file
that is held. `FileOK` says that the references never exceed the `Holders`, and equal
them where calls have not crossed; there `EntryOK` says that at most one call owes the
server a message, and what the entry is worth when none does; `DueOK` says what the
message will make of it: a didOpen finds nobody else's guard, a didChange an open
document of a lower version. `OpenOK` is what a call knows between its looks. A sum over
callers is the size of a set of pairs (`Pairs`, `PairsPlus`, `HoldersStep`), so that one
call's step changes it by what that call holds. The other half, `CallOK`, is about plans: a call has the
gate, or will take it before the steps that need it, and never after it gave it back
(`GateFirst`, `Orderly`); the same for the guard it drops (`OpenFirst`). It is what makes
`TypeOK` more than types, and the reason why a call that has ended owes nothing. The
invariant was checked by TLC on a smaller instance without the constraints before it was
proved. `CapacityIsKept` needs no more of the invariant than that released files are in
the table: `BookNew` takes out as many as are too many, or all that nobody holds.
`ChangesRise` does: only `DueOK` relates the version a call has booked to the one the
server has.

The last three are about texts, and not true of every behaviour: with three callers an
entry can be evicted and made anew between the two looks of an `ensure_open`, with the
version and the stamp it had, and its text is then older than it says (section 5).
`Undisturbed` excludes just the first half of that: no step takes an entry out of the
table while a call is between its two looks at it, which is while it reads the file. Nothing
else is assumed: entries may be evicted, closed and made anew at any other time, messages
refused, calls cross on a file (the properties leave such a file out), and editors write
when they like. Then the version of an entry rises as long as somebody looks at it, and
a call that finds it as it was has missed no text: this is `LookOK`, and from it comes
`ToldOK`, that a call which has sent or found its text told leaves the server with that
text or a later one (`Arrived`). `Kept` says that no step takes back what has arrived under
somebody's guard. The other half of `FitInv`, `CallFits`, brings this along a plan: what a
question is asked about has arrived (`AskOK`), the answer is for the text in the file, and
so are what is then read and written (`AnswerOK`), what was written has arrived after the last
`ensure_open` (`WroteOK`). That no step of a plan comes without the one it depends on, in what
is left of it at any moment, is `OrderOK`; it is where a plan that asks before it takes
the gate, or that does not open after it writes, fails. Of the answers that are kept it is enough to know that
they are not older than their key (`KeptOK`): being also not newer than the file, they fit
it when the file is the one of the key. TLC checked `FitInv` under the condition on small
instances with two and three callers before it was proved.

And about the texts that the tools make, under `TextEditsAssumption` (`OutOfRange` is no number
and no text):

* `PlacesHold`: positions and bytes name the same places, and slices are what lies between
  them, in any text and in either encoding, empty lines excepted (section 5);
* `EditsLand`: `Displaced = {}`, the edits of a language server hit the characters they name;
* `LineEditsLand`: `Disarranged = {}`, the edits by line and the two deletions hit the lines;
* `WritesAlwaysHit`: `Spec => []WritesHitTheirPlaces`, which is the two before, whatever
  `MaxText` is.

`MaxText` is any number here, and the lemmas behind the theorems are about `Seq(Chars)`; of the
texts that are put in, those of `HitTheirRanges` are the ones the property names, and the others
any letters and line ends. `Length` and `Normalised` recur over the numbers up to a length; that
such a function exists and is what its equation says is `RecursionExists`, from `Reaches` as above.
For the recursion in `DeleteText` a function that satisfies it is at hand, the places where
lines begin. A line is a rank: `LineEnds` and
`LineStarts` put a set of places in order (`AscendingIs`), the number of a line is the number
of breaks before it, and a place lies on the line whose ends enclose it. Bytes rise with
characters, as every character has one at least, and so a byte has at most one place;
`PositionToByte` then finds the byte of a place unless its line is empty, where there is no
character to end at it (`PositionToByteIs`). Two edits are applied from the end of the text
to its beginning; the first leaves every break before it where it was, so that the
position of the second still names the same place (`KeptBefore`). The edits by line cut a text
where lines begin: the lines of the parts are the parts of its lines (`CutIs`), and parts
that end with a line end join to a text with the lines of all (`LinesJoin`, `SpliceIs`). What is
inserted is such a part: `Normalised` gives each line the file's own end and the last one as
well. `DeleteText` counts lines in another way, with a byte for each end; without \r it is
the same place.

With these, every invariant and action property that a passing run checks is a theorem, three of
them under `Undisturbed`.
Only model-checked:

* all liveness (`CallsReturn`, `FailedAreReaped`, `ShutdownEnds`, `CallsEnd`,
  `ArbitrationEnds`, `BacklogDrains`, `DeathIsNoticed`): fairness and ENABLED are out of the
  prover's reach;
* `EditsFit`, `WritesArrive` and `KeptAnswersFit` without the condition `Undisturbed`, which is a
  claim about the two calls of WriteSync and does not extend to three.

## 5. Where the code does not keep what its comments say

Besides the three runs above, modelling met these. Each was found by checking the
formula named by the comment on the module at hand; the traces are short. They have
no run of their own, and the hazards in `PROJECT.json` that end in one of them refer
to this list.

* `with_session_retry` evicts by key (lib.rs:1031), where the comment at lib.rs:998
  says it evicts "the old session": when two callers meet the end of one session,
  the second evicts and shuts down the session the first has started anew.
* The fast path of `session_for` removes by key after its check and outside the gate
  (lib.rs:1095-1097; comment at 1082): a session published in between is dropped.
* The same removal takes a Failed session out before the double check can see it, so
  the branch "a Failed session fails fast" (lib.rs:1117, 1121-1129) is not reached
  from the fast path and the call starts the server again.
* `evict` between `launch_exe.insert` and `instances.insert` removes the executable's
  entry of a session that is about to be published; `launch_exe_valid` takes a missing
  entry for valid, so the session is reused after an uninstall (comment at
  lib.rs:494). In the same way `last_used` and `instances` end with different keys
  (comment at lib.rs:919): such a session is never evicted for idleness.
* The reaper exits as soon as a tick finds `draining` set (reaper.rs:212-213), and at
  once when idle (235-238): neither gives the drain window that the comment at
  reaper.rs:284-285 says was given, nor looks at `in_flight` as the comment at
  http.rs:301-302 says.
* With a server loaded, the global activity clock does not count (reaper.rs:232;
  comment at 227).
* A contender on another port takes a half-written lock for a broken one and removes
  it (lockfile.rs:161-163; comment at 136); both daemons serve.
* `wait_ready` keeps the first token it reads (main.rs:2240); with the stale lock still
  there it times out beside a ready daemon.
* The writer's inner loop does not receive (stdio.rs:654-723): a High frame waits
  behind the Background frames that have tokens (comment at client.rs:59-60).
* `shutdown` creates the future that waits for the end of stdout after the kill
  (session.rs:940): an end that comes first is missed, and the five seconds are sat out
  (comments at 909 and 939).
* `remove_owned` reads the owner of the lock and deletes the file in two steps
  (lockfile.rs:237, 248): a new daemon that replaces the lock in between serves without
  one, which the comment at 234-235 says it prevents. `ServersAreFound` without its
  condition on shutdowns shows it.

About the undo store. The first shows in UndoSafety when the condition `~reused` is taken out
of its properties (three calls and two numbers are enough), the second when the last disjunct of
`WalFirst` is, the others with the redo in `Ops` or with mishaps allowed:

* Two tools have written as transactions 1 and 2 and wait for the gate to commit. An
  undo that was queued before them turns 2 into `undone-2`; the commit of 1 removes
  that directory as part of the redo chain; a third tool is given the number 2 again
  (two open transactions with one number, undo.rs:639-653). From then on what the second tool does to
  "its" directory it does to the third's, where the comment at undo.rs:457-458 says the
  directory holds only its own records: a time-out of its commit (lib.rs:7820) or its
  abort removes the record of a write that is under way, against undo.rs:17-20. A prune
  that takes the directory of a call that has yet to abort, and the abort of all later ones, have
  the same effect. Behaviours that have come so far are what the condition `~reused` of `WalFirst`
  and `TopIsUndoable` leaves out.
* A tool fails after its first write, or its commit times out. Its abort waits for no gate
  (undo.rs:457-469) and removes the directory while an undo restores the files of it: what the
  undo writes from then on is in no manifest, and a crash leaves half of it. The last disjunct of
  `WalFirst` leaves this out.
* A call that fails releases the gate before its abort removes the directory; an undo in
  between renames it and the abort finds nothing. The record of a write that never
  happened stays in the redo chain, and a redo performs that write.
* A tool that fails after its first write aborts, and with the record goes the way to
  undo what it did write; so does the commit whose wait for the gate times out.
* Format-on-write records a file a second time in the same transaction
  (edit_tools.rs:405-440): the first record then fits neither state of the file, and the
  undo puts the whole transaction aside as an external edit (`TopIsUndoable` fails).
* A redo that is cut off leaves files of a transaction that is still `undone`; an undo
  that comes next finds an older transaction on top which does not fit, and discards it.
* A crash between the last write and the commit leaves the redo chain beside a newer
  transaction, against undo.rs:46-48.
* `prune_at` counts undone directories and begins with the lowest number, which is the
  head of the redo chain: the rest of the chain no longer fits the disk.

About the documents. Those that need two calls within each other's steps show without
the constraint `Uncrossed`:

* Messages leave after the lock is given back (docsync.rs:292-342, 471-487): a didClose of
  an evicted or force-closed entry may come after the didOpen of the one that took its
  place, a didChange after a later one. The table then calls open what the server has
  closed.
* `force_close` removes an entry whatever its references: a guard from before it
  decrements the entry that was made since (comment at 469).
* A `didOpen` that is refused while another call has taken a reference leaves an entry
  that was never opened; a `didChange` that is refused with one reference removes the entry,
  and the next `ensure_open` sends a second didOpen for an open document.
* A refused message returns before the didClose of the entries that were evicted for it
  (docsync.rs:294-322): the server keeps them open.
* The settling of one call clears the mark that another's refused change has left
  (docsync.rs:323-333).
* A missing entry in both looks may have come and gone in between. With three calls the same
  can happen to an entry that is there, on files where no two calls cross: versions start at 1
  again when an entry is evicted and made anew, and a call that looked at the file before the
  last write gives it the old stamp back. A snapshot from before then agrees with the entry,
  and its owner books an older text than the server has, from which an edit is computed
  (`EditsFit` with three callers, one file, two troubles and two writes; 42 states). The
  comment at docsync.rs:215-216 has it that the protocol has no window in which anything is
  lost.
* An outline that is asked for between another call's booking and its message is answered
  from the text before, and kept under the stamp of the new one: it is given again until the
  file changes, or an edit empties the cache. `KeptAnswersFit` leaves out such files.

About the writing tools:

* A rename opens only the file of its symbol; the other open files of its answer were
  last announced whenever they were last opened.
* The formatter after a write asks outside the gate, so that what it answers may be for an
  older text than the one it is applied to; the line tools ask nobody, and number the
  lines of whatever is there.
* `with_session_retry` runs `replace-body` again after its write has landed, when the
  server ends in the second `ensure_open`; the other edits return an error then, though
  the file is changed.
* The rollback after a read-back that differs writes the old text over what somebody else
  has written since (lib.rs:4657-4666).
* `ct_txn` (ct.rs:760-791) reads back the newest transaction after it has released the
  gate: a recipe may record another tool's transaction as its own and roll it back. A
  transaction that was pruned or put aside counts as rolled back.
* A rename, an undo, a redo, a new file and the formatter do not empty the symbol cache nor drop
  the mtime of the root, which is kept for 2 s (lib.rs:401-415): until then find-symbol may
  answer from before the write. A walk of the root that began before an edit and ends after
  it puts the old mtime back (lib.rs:430-449).
* `doc_symbol_cache_key` has a key for a file that is not there (lib.rs:249-258); what is
  kept under it, when the file comes while its outline is asked for, is given to whoever asks
  when it is gone again.
* The version ledger does not move with undo, redo or an edit from outside
  (version_ledger.rs:21), so that `expected_version` does not notice them.

About texts. The properties of TextEdits leave these inputs out:

* `unit_to_byte_in_line` (offsets.rs:106-133) finds no byte for a position on an empty line,
  against offsets.rs:15; this includes the end of a text that ends with a line
  feed, so that a formatter's edit of the whole document fails.
* Hence of two edits that touch each other, the second may be refused because the
  first has emptied its line; two insertions at one position come out in reverse.
* An insertion after the last line of a file without a final line feed joins that line
  (edit_tools.rs:487-512, comments at 485-488 and 602).
* `delete_text_in_symbol` (edit_tools.rs:342-400) counts one byte for each line end and
  `str::lines` takes two away for \r\n: in such a file it cuts one byte too early for each
  line before, or panics inside a character, against its comment at 341.

## 6. What is not modelled

Answers of language servers other than the places and edits that writing tools use; the
adapters, the registry, serialisation, formatting of results and logging; the tools that
read (they are `ReadPlan` or `OutlinePlan` to the documents, and what they make of an answer is
layout; the roundtrips of find-symbol, symbol-tree and diagnostics are not followed).
Of the supervisor, the tables of pulled diagnostics and seen versions that `evict` clears
as well (they guard nothing in these paths), and the caches of find-symbol, deltas and diagnostics; an
outline that `with_session_retry` asks for again keeps its key, and is one outline. Of the daemon,
authentication and the DTOs. Of the undo store, dry runs and the version ledger. The
operating system appears only as processes that die, ports and files. Installation
downloads and unpacks, one step after the other.

By lines this is most of the repository: `supervisor/src/lib.rs` and `cli/src/main.rs` are
for the larger part tests, argument parsing and the rendering of answers, as are the
registry, adapters and installers tables and file handling without shared state. What
holds state that several tasks share, or that outlives a crash, is modelled except for the
items of the plan.

## 7. Plan

1. **Version ledger** (version_ledger.rs) in WritePath: `stale_guard_check` before a write,
   and the counter that an undo does not move.
2. **Progress** (session.rs): early arrivals and waiters. `wait_for_progress` creates its
   future after it has given its lock back (669-685): an end in between wakes nobody.
3. **Recipes** (recipe_ops.rs, ct.rs) over UndoLog: rollback of a failed recipe.
4. **Diagnostics and find-symbol** (lib.rs): the 2 s of the root's mtime, pull and push.
5. **Install** (install.rs, deps.rs): staging and rename, crash in between.
6. **Batch** (http.rs): a bounded JoinSet, results in the order of the calls.
7. Proofs: of each module added. Liveness stays with TLC.
