# Specifications of the rx job host

This directory specifies and verifies the part of the repository that is a
concurrent system: `tools/rx`, which moves code and data to a GPU host, queues and runs
jobs there and brings results back, and the programs around it: the feeder that
keeps the host busy, the cleaner that makes room on it, the archive of its files and
the replication of data volumes. The rest of the repository (retrieval models,
features, experiment drivers) is numeric Python that computes and exits; it is listed
below and not modelled.

Paths are relative to the root of the repository; "agent" is
`tools/rx/rx_agent.py`, "client" `tools/rx/rx.py`, "feeder" `outputs/host_ops/hostfeed2.py`
and "cleaner" `outputs/host_ops/auto_cleanup.py`.

## 1. The system

| component | state | operations | what is hard | correct when |
|---|---|---|---|---|
| admission rule (agent `decide`, `_fit`, `_take`, `_hold_back`) | none: reads the entries of `queue/` and `active/` | decide | priorities, backfill, hold after 30 min, fractions of GPUs | never over capacity; no wedge; nobody starves at the top; nobody harms the head |
| job life cycle (agent `op_launch`, `op_cancel`, `supervise_main`, `Supervisor`, `job_status`, `live_entries`, `sched_release`) | per job `spec.json`, `status.json`, `heartbeat.json`, `cancel.request`, `supervisor.lock`; per host `queue/`, `active/`, `sched.lock` | launch, cancel, overview; queue, admit, build, start, kill, reap, finish, clean up; beat | no scheduler process: each supervisor decides for itself from files that sessions and other supervisors change; crashes, reboots, late heartbeats, repeated launches | reservations never overlap, a command runs once and within its reservation, a cancelled job has nothing running, every job comes to an end a client sees |
| push (agent `op_plan`, `op_receive`, `receive_stream`, `Index`; client `push`) | workspace files, `.rxpart` and its sidecar, `index-*.json` | plan, send, receive, land, resume | lost connections, two transfers of one file, sources that change, stale offsets and caches | only whole files land, a push that ends has landed everything |
| fetch (client `fetch_files`, `Receipts`; agent `op_send`) | local files, `receipts.json` | look, receive in rounds, note, save | the user edits the same files; a kill before the receipts are saved; the host's file is not the listed one any more | the user's own work is never replaced, what counts as fetched is there, every fetch ends |
| feeder (`hostfeed2.py`; `watchdog.py` starts it again) | items, `STATE` (sent, shed, dropped, retried) in memory and on disk | overview, adopt, withdraw, shed, retry, drop, send, save | acts on overviews that are minutes old; crashes between the record and the launch; launches and cancels with an unknown outcome | an item never runs twice at once nor before what it depends on, and none is forgotten |
| cleaner (`auto_cleanup.py`) | release records, archive index; reads rx's active jobs, the feeder's state, the workspace | tiers, active jobs, feeder's items, walk, second look, removal | reads one after the other while jobs are sent, admitted and ended, and files written, restored and released | nothing goes that cannot be had again or that somebody needs; what nobody needs goes |
| host archive (`scripts/host_archive_hf.py`, `host_restore.py`, `outputs/host_ops/host_sync.py`) | on the hub objects, tree, manifests; on the laptop `plan_*`, `done_*`, `commit_*.json`; on the host the files and the cleaner's index | plan, upload from the laptop and by a job on the host, commit, manifest, read back, index, restore | files change between planning and upload; requests fail between commits; drives are killed and made again | a removed file can be restored as it was; what counts as archived is; every file is archived in the end |
| data replication (`scripts/replicate_volume.py`) | staging directory, `.partial` files, a manifest per slice, the target volume | download, upload, verify | streams end early or stall, commands are killed, the source changes, slices share files | nothing but a whole file gets its name, a partial copy is never verified |
| environments and gc (agent `envbuild_main`, `op_gc`) | `envs/`, old job directories | build, point, remove | building or removing beside a job that uses the directory | a directory in use stays |
| run artifacts (`src/mp_retrieval/run_artifacts.py`) | manifests, checkpoints | save, compare | - | - |
| cloud spawning (`scripts/spawn_modal_jobs.py`, `compute_credentials.py`) | job matrix, launch gates, credit ledger | gate, spawn | a spawn whose outcome is unknown | nothing is paid for twice |
| transport, exec, tail, monitor, dashboard, doctor | one ssh session | stream bytes | lost connections | presentation and plumbing |
| platform probes (`WinJob` sampling, `/proc`, `nvidia-smi`) | none | read the OS | - | - |
| retrieval models, features, rank fusion, protocols (`src/mp_retrieval`, `experiments.py`, `outputs/mp_unified`) | arrays in one process | compute | numerics | outside this project |

How they interact: a client opens an ssh session per request; the agent's `rpc_main`
serves one operation and exits. `op_launch` renames a prepared job directory into
place and spawns a detached supervisor. From then on the supervisor and the
sessions talk only through files: a session leaves `cancel.request`, reads
`status.json` and `heartbeat.json` and, for a job it takes for lost, writes
`status.json` and removes the entries of `queue/` and `active/` itself. Supervisors meet
in `queue/` and `active/` under `sched.lock`. The feeder is itself a job of the host and
uses rx as any client does. The cleaner reads the feeder's saved state and rx's
`active/`, and the archive's index, which the laptop makes of the records of its drives;
a drive of the archive uploads by an rx job.

`PROJECT.json` lists the hazards of this code line by line with the properties that
would catch them.

## 2. Modules

| module | what it is |
|---|---|
| `RxDecide` | the admission rule as operators, one for each helper of `decide` |
| `RxQueue` | what the scheduler promises: arrivals, admissions by the rule, holds, withdrawals and ends as atomic steps, with the properties of the queue |
| `RxSched` | the job life cycle as the code does it: sessions, supervisors, files, locks, children, heartbeats and faults, step by step |
| `RxLifecycle` | what a client is told about a job's state; `RxSched` is checked to implement it, `HostFeed` runs on it |
| `RxTransfer` | rx push of one file: the client's rounds, the agent's planning, receiving and indexing, and the files on the host |
| `RxFetch` | rx fetch of several files beside a user who edits them |
| `HostFeed` | the feeder's polls over jobs that move as `RxLifecycle` says |
| `Cleanup` | the cleaner's cycle beside the feeder, jobs, archive, restores and releases |
| `HostArchive` | drives of the archive, host_sync's coverage, the cleaner's removal by the index, restores |
| `Replicate` | download, upload and verify of slices of a volume |
| `RxQueueProofs`, `RxSchedProofs`, `RxTransferProofs`, `RxFetchProofs`, `HostFeedProofs`, `ReplicateProofs`, `CleanupProofs`, `HostArchiveProofs` | theorems about the module they are named after |
| `MC...` | the small instances TLC checks; `MCRxSched` plugs `RxDecide` into `RxSched` |

`RxFetch`, `HostFeed`, `Cleanup`, `HostArchive` and `Replicate` share one device: `Budget` is a record (or function) that says how often each
thing may happen that need not happen (a fault, a write, a kill). A fault that breaks a
property for a reason the code cannot help shows in the budget (`Spent`), and the property
says so instead of the action being left out.

### RxDecide and RxQueue

Amounts are integers: a GPU is `Whole` share units (1.0 in the code). `cpus` stands for
`cpus` and `mem_gb`, which the code treats alike. `Fit` returns a set with the
assignment or the empty set, as `_fit` returns a dict or `None`; `Turn` folds `Consider` over the
entries ahead of a job as the loop at agent 1136-1147 does, and an empty set of pools is the
early return at 1147. Python's rounding of halves to even in `int(round(g))` is `Rounded`.

`RxQueue` has three variables: `waiting` (keys of `queue/` by enqueue time), `active`
(the assignment in each entry of `active/`) and `late` (the entries that have waited
`hold_after_s`). A job that ended may queue again: streams of small jobs that could
starve a large one are behaviours of the model.

### RxSched

One label of `pc` per point at which another process can see a supervisor's work. A
supervisor goes

    spawned -> owner -> announced -> waiting -> asking -> granted -> entered
            -> building -> starting -> started -> running -> ended -> released
            -> finishing -> cleanup -> closing -> exited

with `refused` (back to waiting), `withdraw`/`withdrawn` (cancelled while queued) and
`raising` (an exception) beside it. Steps that hold `sched.lock` over several
writes (`granted`, `entered`) are separate, so a crash can fall between them; the code
between two labels touches only what is private to the supervisor. `grant` is what the
command was started with and lives as long as its processes, also past the
supervisor's death: that is what `UseDisjoint` compares.

A session is a record in `rpc`: `op_launch` is `LaunchNew`/`Publish`/`Spawn` or
`LaunchAgain`/`Spawn`; `op_cancel` is `Cancel` (the look), `Request`, and for a lost job `ClearLost` and
`ReleaseLost`; `op_overview` is `Overview`/`Prune`, because `live_entries` removes entries it
took for dead without the lock there. A session may end at any point.

Time is what the code compares it with. A heartbeat is fresh or stale (120 s or older
than the boot); a launch without a heartbeat is new, settled (30 s: a retried launch
spawns again) or overdue (120 s: it shows as lost). `hold_after_s` is a free choice of
each decision. What can go wrong is a constant, `Faults`; `KillOnClose` says whether
children die with their supervisor (a Windows Job Object) or not (POSIX); `Respawn`
says whether clients repeat launches.

Simplifications: a supervisor's admitted capacity is fixed (nobody edits `host.json` while
jobs run); `collect_outputs` and the last status write are one step; a crash between
`Popen` and the Job Object leaves a suspended process that never runs, which the model does not show;
an entry younger than 30 s that no longer beats is dropped from `queue`/`active` at
once, where the code keeps it, uncounted, for the rest of the 30 s.

### RxTransfer

`push.at` is where `rx push` is in a round (client 559-625): `plan`, then `stream`/`sent` or,
when the plan copies on the host, `copying`; after a broken connection `lost` (the
round is over) or `recall` (`call` repeats a plan). `ses[r]` is the process that serves the
request: `receive_stream` goes

    open -> [sidecar ->] write -> land -> placed -> update -> ok

with `failed` for an error it reports and `raised` for an exception; `copy_via_part` is
`copy -> land` and on. `part`, `side`, `dest` and `idx` are the `.rxpart`, the hash in its
sidecar, the file and its entry in `index-<ws>.json`. Each write of one of them is a step
of its own, so a session may be killed, or its stream cut after any number of blocks,
between any two. A session writes where its own handle stands (`Put`), as two processes
with the same file open do.

Bytes are sequences of blocks and a hash is the sequence: no collisions. An mtime is
named by the content it came with. That is what `send_file` (mtime of the opened file),
`os.utime` on the part and a job's own write make of it; a rewrite that keeps size
and mtime is outside the model, as it is outside what the code can see. `StreamEdited` is
a file whose content changes after its first blocks were read; `Edit` changes it at any
other moment.

Simplifications: one file, so one stream per round; `op_plan`'s look, its index update and
a prune are one step, and so is a listing (`op_manifest` reads the index, stats and hashes the file and writes the entry
one after the other; a write in between leaves an entry with the mtime of before, which nobody trusts); the hash of a file is read at once; `Index.update` is atomic (it
holds its lock); open files are neither renamed nor removed, as on Windows, the host this
tool is for. Connection loss before the response counts as loss of the stream.

### RxFetch

`Start` reads the listing (a job's recorded outputs, or with `--glob` the workspace) and
`receipts.json`; `Look` is the loop at client 671-690 for one file; `FirstRound`, `Place`,
`Reject`, `Missing`, `Note` and `Break` are a round's streams, each file by itself, as
`fetch_group` runs them in parallel; `Finish`, `Again` and `TooLate` are the end of a round,
with the receipts saved. A file arrives whole or not at all: how bytes arrive is
`RxTransfer`'s subject. A local file is a content and the edit that left it there; 0 means
rx wrote it, with the host's mtime. Two fetches may overlap (budget "overlap"), and be
killed at any point.

### HostFeed

One poll: `Look` (the overview, with the status calls that complete it), `Adopt` (with
`repair_orphans` after a start), any number of `Withdraw` and `Shed`, `Scan` (retries put back
and the list of unsent items), then per item `Defer`, `Drop` or `Send` and `LaunchCall`, and
`EndPoll`. What the feeder reads of a single job after the overview it reads from
`state`, not from the overview. `st` and `disk` are STATE in memory and as saved; a save
may fail (`full`). A kill loses `st`; `Relaunch` is `watchdog.py`'s. `Goes`, `Ends`, `Lost` move
the jobs as `RxLifecycle` allows.

Abstracted: which ready item fits (memory, GPU shares, priorities, the hold of a poll) is a free
choice; `retry_since`, the six hours of the orphan check, `--adopt-h` and REF memory only decide
how long something waits; a failed item's `resting` is the time until its next run.
`hostfeed.py`, its predecessor, is not modelled.

### Cleanup

`Begin` reads space, index and tier, `ReadActive` rx's active jobs, `ReadFeeder` the feeder's
items, state and pins and the release records, `Walk` takes one file after the other in
any order, `LookAgain` and `Remove` are the second look and the unlink. A version of a file
is its size and mtime together. Ages are ticks of hours and a cycle's reads fall
within one tick, as they do in minutes. What happens between the last look at a file and
its removal, or a read or a training record that appears after the walk passed the file, is
budget "window": the code cannot see it.

Abstracted: `classify`'s regular expressions are `Path`; the log and catalogue, dry runs,
removal of emptied folders, jobs started by hand (they appear in no item) and the cache of
`fit_under` are left out.

### HostArchive

A hash is the content it is of; size and mtime are a stamp that every write makes anew; one clock
orders stamps and manifests. `Cover` is `host_sync`'s cycle (fresh files are left for later, an
upload job on the host makes it wait), `DriveByHand` anybody's `drive`. Both go through `Plan`,
`LaptopSends`, the job's `HostSends` per file, `Check`, `Post` per commit, `PostManifest` and
`Finish`; `GiveUp` ends a drive anywhere, `HostDies` the job. `MakeIndex` is `auto_cleanup.py hub-index`
and the index's way to the host, `Remove` the cleaner's removal by `classify`, `Restore` one file of
`host_archive_hf.py restore`.

Abstracted: the hub keeps an object once it has it and refuses other bytes under its hash
(line 534 reads the file a second time for the single PUT; the model takes the hub's check for
granted); `Remove` is the cleaner's second look and unlink in one, by its rule for archived files alone (the window between
them and the other rules are `Cleanup`'s); a file is hashed at once; a tag whose upload job still runs is not driven again; the
classes that `coverage` leaves out on purpose (regenerable, records, delete lists) are no files of
the model; a file is rewritten with another stamp even when it keeps its size. Not modelled: `plan`
and `commit` run apart, `--overwrite`, the mirror, the `jgy_waves` watcher.

### Replicate

Each slice runs one command at a time, slices beside each other. `OpenStream`, `Promote`,
`Discard`, `Raise` and `TimeOut` are `_fetch_one` and `_blocks` for one file, `Save` the
manifest, `Enqueue`, `Flush` and `Refuse` the batches of an upload, `Compare` and `Digest` a
verification. A digest is the content it is of. The staging directory is on Windows: an open file is
neither renamed nor removed. `part[f]` holds the commands that have written f's `.partial`.

Abstracted: sizes distinguish contents where the code compares sizes (files of size 0 are not
modelled); files are taken in any order; a batch is committed at once, except for a file that lands
short. Not modelled: quarantine prefixes, `--only`, manifests of before the slices.

## 3. What is checked

| run | instance | shows |
|---|---|---|
| `queue` | 5 jobs, 2 GPUs of two units, 4 cpus, two priorities | `WithinCapacity`, `NeverWedged`, `HeadKeepsItsFit`, `HigherKeepsItsPlace`, and under fairness `TopPriorityServed` |
| `sched` | 2 jobs (one with a timeout), 2 supervisors, 1 session, crashes and reboots, Job Objects, launches not repeated | `UseDisjoint`, `RunsWithinReservation`, `CancelledIsStopped`, `LifecycleHolds` (the derived state implements `RxLifecycle`), and under fairness `EveryJobResolves` (if commands end) and `CancelResolves` (although they need not) |
| `sched_faults` | 2 jobs, 2 supervisors, 1 session, every fault, launches repeated | `ReservationsDisjoint` and `OneCommand` hold all the same; `RerunsFollowACrash` and `EndsAreKept` are what holds of repeated launches |
| `transfer` | 3 contents of two or three blocks (one extends another, one is also elsewhere on the host), 2 pushes, 3 failures (drop, crash, destination in use), 1 edit, 1 job write | `LandedIsWhole`, `IndexTruthful`, `DoneMeansThere`, and under fairness `PushLands` |
| `fetch` | 2 files, 2 fetches, 1 change on the host, 1 edit, 1 fault of any kind | `UsersWorkStays`, `CountedIsThere`, `ConflictsAreTheUsers`, and under fairness `FetchEnds` |
| `hostfeed` | 2 items, one behind the other, 5 job ids, 1 retry, 3 failures, 1 failing save, 1 cancel without an answer, 1 other fault | `OneWantedJob`, `RunsAfterDeps`, and under fairness `EveryItemSettled` |
| `replicate` | 2 files, 2 slices that share one, 3 contents of which two have one size, 2 attempts, 1 change of the source, 1 fault | `StagedIsWhole`, `VerifiedIsTheSource`, `VerifiedIsComplete`, and under fairness `CommandsEnd` |
| `cleanup` | 2 items, one behind the other, a build that one names and the other pins, a result; 1 restore, 1 failure, 1 of all else, 3 ticks | `NothingIsLost`, `NamedStays`, `PinnedStays`, and under fairness `Reclaims` |
| `archive` | 2 files with one content at first, 2 contents, 7 tags (one by hand), one file per commit, 1 write, 2 of: failed request, kill, drive by hand, restore | `RemovedIsRestorable`, `CoveredIsHeld`, and under fairness `EveryFileIsArchived` |
| `rerun_after_crash`, `prune_takes_outputs`, `feed_lost_stays` | small | findings, below |

Types are checked in `sched`, `hostfeed` and `cleanup`, and proved for every module (section 4).

Why these bounds. Every hazard of the scheduler needs at most two jobs that want the same
GPU, or one job with two supervisors, and one
session beside a client's; the three requests (a whole GPU, both, half of one) make
every pair either compatible or not, and the second job has priority. `queue` needs a job that wants nearly every cpu and
one that wants both GPUs, overtaken by two that share one GPU in turns, and one of a
lower priority. Supervisors are interchangeable, so `sched_faults` uses symmetry. In `sched` one session
launches, cancels or prunes at a time while supervisors go on; its safety properties have also been checked with
two sessions (`Sessions = {r1, r2}`, `Spec`, symmetry; 1.2 million states), and the theorems are about any number.

For `transfer`: a prefix that two contents share and one that differs decide what
resuming may find; three failures are enough for a cut, a cut of the resumed stream and
a busy destination in one push. `PushLands` would need six failures of one push to be
false (the client gives up after its sixth round), so with three it is a statement about
progress and not about luck: an attempt must not leave behind what makes the next one
fail. One session is enough where at most one runs at a time (`OneAtATime`, proved).

For `fetch`: two fetches so that one starts on the receipts of the other, a fault in between, and
three rounds, so that rounds of failures run out. For `hostfeed`: five ids are two runs of each
item (one retry) and one that was launched with an unknown outcome; the fault between record and
launch, in the save or in the answer of a cancel comes on top of jobs that fail. For `replicate`: two
slices so that one slice's leftovers meet the other's, two attempts so that a stream is opened again,
and two contents of one size, which the skip of a staged file takes for the same. For `cleanup`: the
graces and age limits are one or two of the three ticks, so that each of them runs out. For `archive`: `host_sync` makes a
tag per attempt, and one write with two faults needs at most seven; equal contents make one
file the owner of the other's object. The safety part also holds with two writes and one fault
(2.3 million states).

Fairness. A process that is not dead takes its next step: `admit` polls every two to
three seconds, `FileLock.acquire` retries, heartbeats are a thread's timer; time
passes. Nobody must launch or cancel. That commands end is a premise of
`EveryJobResolves` (`CommandsEnd`). In `RxTransfer` and `RxFetch` the client and a process on the host go on
unless they are interrupted or killed. The feeder loops for good and `watchdog.py` starts it again;
jobs come to an end; that a ready item is sent, deferred or dropped again and again is strong
fairness, since a poll takes the items in turn but the item is ready only in some of them. A command of `Replicate` goes on until
it ends or is killed (an abandoned reader is timed out), the cleaner loops for good, and so does
`host_sync`, while a drive or an upload job goes on until it ends and a file that nobody writes
becomes old enough. Failures, edits, kills, writes and pushes are never forced. Runs that let processes die,
budgets run out or clocks stop disable the deadlock check: the system may then stop.

### Findings

Three runs show a disagreement between the code and what is written about it:

* `rerun_after_crash`: the README of rx (136-137) says "a retried launch with the same id is a no-op, never a
  duplicate". `op_launch` spawns again when a repeated launch (`Remote.call` repeats it by itself for ten minutes) finds the
  job launching for 30 s without a heartbeat (agent 1987-1990), and `supervise_main` (1686) turns down only a job in a
  terminal state. If the first supervisor then does start the command and dies, the second runs it again. What the
  code does guarantee is in `sched_faults`: no two commands of a job at once (`OneCommand`, with Job Objects), a second one only after the
  supervisor of the first died (`RerunsFollowACrash`), none after a recorded end (`EndsAreKept`).
* `prune_takes_outputs`: `op_manifest` (agent 1956) refreshes the entry of a changed file and
  keeps its pushed flag, so a file that a job wrote over a pushed one is, after a listing
  or a fetch, "unchanged since it was pushed", and `rx push --prune` deletes it.
* `feed_lost_stays`: adoption (feeder 1235) passes over shed, failed and cancelled jobs but not over
  lost ones. An item that `retry_back` put back after its job was lost counts as sent again at the next poll,
  and as "back already" from then on: it never runs again.

The following are shown by the same models with other constants; each line says which, so that
a configuration can be made of the one that is there. A state predicate is to be named there as
an INVARIANT (`DroppedBehindFailure`, `NoPartPassesForTheWhole`, `RestoreLeavesTheNewest` and most others), an action property
(`HigherKeepsItsPlace`, `FailedKeepsItsFiles`, `NeverOverwritesUsers`) as a PROPERTY.

* `MCRxQueue` with `QuartersReq`, `QuartersPrio`, `Cpus = 5`, `Whole = 4`: `HigherKeepsItsPlace` fails. `_hold_back`
  (agent 1075) drains a waiting request from the GPUs with most free; with fractions the GPU that will
  be free first is not the one drained, and a lower-priority job takes part of it. The comment at agent
  1044 promises the opposite. With whole and half shares on two GPUs it holds (`queue`); on three it fails again
  (`Jobs = 1..6`, `Whole = 2`, a whole GPU at priority 10 and five halves at 0): what is set aside is the two free halves of
  two GPUs, and the third's is given away. A job for whole GPUs never does this harm, which is proved.
* `MCRxSched` with `Faults = {"lapse"}`: `UseDisjoint` fails. An entry of `active/` whose heartbeat is late is
  removed by the next decision and never written again, while its command runs on. The feeder
  works around this (448).
* `MCRxSched` with `KillOnClose = FALSE` and no faults: `UseDisjoint` fails. On POSIX `_posix_group_sample` and
  `kill_tree` look for the group of a leader that `wait()` has just reaped, so background
  children are neither counted nor killed.
* `MCRxSched` with `Faults = {"crash"}`, `Respawn = TRUE`: `RunsWithinReservation` and, with a third supervisor, `UseDisjoint` fail. An overview
  (agent 1178) takes the entry of a dead supervisor for dead, the late supervisor of the same job renews the heartbeat and
  writes its own entry, and the overview removes that one. Nothing writes it again. In the fair run `Respawn = TRUE` also breaks
  `EveryJobResolves`: entries are judged by the heartbeat of the job, which a successor renews, and the entry its dead
  predecessor left in `active/` looks alive for good.
* `MCRxTransfer` with `Sessions = {r1, r2}`, `Elsewhere = {}`, `Faults = {"drop", "edit", "linger"}`, one failure, one edit:
  `LandedIsWhole` fails. Two receivers of one path share one `.rxpart`; each verifies the digest of what it
  received, not of what is on disk, and a mixture is renamed into place. With `"race"` in `Faults`
  `IndexTruthful` fails: `receive_stream` asks `stat` of the destination after the rename.
* `MCRxFetch`: `NeverOverwritesUsers` fails. A file that the user made with the host's content gets a receipt
  (client 682) and may be replaced from then on; the README of rx (123) says it did not write it.
  What only the user wrote stays (`UsersWorkStays`), except after the look (client 684): without the exception for
  edits in that window (`Spent("window")`) `UsersWorkStays` and `CountedIsThere` fail.
* `MCHostFeed` with `MaxJobs = 4`, `Retries = 1`, `Fails = 1`, the other budgets 0 and `Any = 1`: `DroppedBehindFailure` fails. An item put
  back before its retries were spent may already have had items dropped behind it (feeder 541).
* `MCHostFeed` with `MaxJobs = 4`, `Retries = 1`, `Fails = 1`, `Crashes = 1`, `Full = 2`, the other budgets 0 and `Any = 1`: `OneWantedJob` and
  `RunsAfterDeps` fail. `save()` (feeder 411-427) swallows its error and the round goes on: when the save of a retry and then that of the
  new send fail and the feeder is killed, the file still names the first job, adoption leaves it so, and
  the item is sent once more while its second job runs. With one failed save it cannot happen, which is proved.
* `MCReplicate` with `Gaps = 1`, `Any = 1` and no other fault: `NoPartPassesForTheWhole` fails. A listing of the
  source that fails counts as an absent tree (255), and the slice is then complete without it.
  `tests/test_replicate_volume.py:3-5` says a partial copy "must be impossible to mistake". Without the premise about overlaps
  `StagedIsWhole` fails: two downloads write one `.partial` file.
* `MCCleanup` with the property `FailedKeepsItsFiles`: it fails. The last test of `feeder_refs` (218) lets go of a failed item six
  hours after its launch, although 175-176 promise the whole grace.
* `MCHostArchive` with `Writes = 1`, `Fails = 1`, `Any = 1`, the others 0: `RestoreLeavesTheNewest` fails. A drive that fails between a
  commit and its manifest leaves the tree ahead of the newest manifest; a restore by that manifest finds another
  hash and stops until the next drive that ends well (`host_restore.py:8`).
* `MCHostArchive` with `Overlaps = 1` or `Replans = 1` (`Hands = 2`, `Any = 5`) and `RemovedIsRestorable` without its premise: it fails. A plan
  that is older than another tag's is committed after it; or a VERIFIED tag planned anew is indexed before its
  new files are archived, since `hub_index` joins the old record with the new plan (cleaner 145-159).
* `MCHostArchive` with `Backs = 1`, `Writes = 2` and `CoveredIsHeld` without its premise: it fails. A file that goes back to an
  older content after an INCOMPLETE tag has committed the newer one counts as on the hub by its hash.

Read in the code while modelling, and outside what the models tell apart:

* archive: the last tag by name wins in `hub_index`, so a tag by hand that sorts after `o-inc-...` hides later ones: a
  file rewritten after it is archived again each time and never listed as it is. A restored file counts as covered for
  `host_sync` but as "unarchived" for the cleaner. One file that cannot be sent makes its whole tag INCOMPLETE.
* cleaner: a job queued in rx for more than six hours counts for nothing, while the module's header says "a
  queued or running mpr job"; atime is not asked for again at the second look; an unreadable record in `active/` is passed over.
* replication: a staged file of the right size is kept, also one that the source has rewritten in that size, and
  `--skip-present` never repairs such a target.
* feeder: a launch of unknown outcome stays "sent" until the feeder starts again.

## 4. What is proved

`RxSchedProofs`, for any number of jobs, supervisors and sessions, any GPUs and any
admission rule of which `DecisionAssumption` holds (it gives at most one assignment,
and none that overlaps an assignment it was shown; TLC evaluates the assumption for the
real rule in every `MCRxSched` run):

| theorem | assumes | argument |
|---|---|---|
| `TypeCorrect` | - | one step per action |
| `ReservationsNeverOverlap` | - | `Reserved`: with `LocksNameTheirHolders`, at most one supervisor is between its decision and its write, and until it wrote, its grant is compatible with every entry (`GrantsCompatible`). Others only remove entries |
| `OneCommandEver` | `KillOnClose` | `CommandsOwned`: a busy command belongs to a supervisor that owns `supervisor.lock`, which names one |
| `RerunsOnlyAfterACrash` (`RerunsFollowACrash`), `RecordedEndsStay` (`EndsAreKept`) | - | `EndsRecorded`: a supervisor that ran its command and left has recorded an end under `supervisor.lock`, a job with an end is not taken on, and who may still start a command finds no end recorded but a cancellation |
| `CommandsKeepTheirReservation`, `CommandsNeverShareBeyondAWhole`, `CancelledJobsAreStopped` | `Dependable`: Job Objects, no lapse, no failing write, no repeated launch | `HeldThroughout`, which needs `SeenAlive` (a supervisor is seen before its launch is overdue and from then on beats) and `ClearedJobsAreDead` (a session that clears or prunes has nobody to race with) |

None of the run invariants is inductive by itself: `RunsWithinReservation` says
nothing of a supervisor between its entry and its start, nor why nobody removes
that entry. `Dependable` is where the findings lie: with a lapse, POSIX children or
repeated launches the same properties are violated. `OneSupervisor`, which `SeenAlive` needs, holds because only the session whose
rename succeeded spawns, as long as launches are not repeated.

`RxTransferProofs`, for any contents, sessions, rounds and budget:

| theorem | assumes | argument |
|---|---|---|
| `TypeCorrect` | - | with `SessionsCoherent`: a session works for a promised version and has the partial file while it writes |
| `WholeFiles` (`LandedIsWhole`) | no receiver outlives its connection | `OneAtATime`, from which `HashedIsWritten`: what a session has hashed is what the partial file holds, because nobody else writes it; and `Verified`, or a complete copy, makes that the promised version |
| `TrueIndex` (`IndexTruthful`) | also no job writes between rename and stat | `MtimesTell`: of the file, of its entry and of the entry a session is about to write, the mtime names the content |
| `DoneIsThere` (`DoneMeansThere`) | the same | `CopyOfWanted`: the copy a plan waits for is of what it wants, and once placed only a job replaces it; a file found in place is the right one by `MtimesTell` |

`LandedIsWhole` is not inductive: nothing in it ties the bytes a session hashed to
the bytes on disk. That tie is exactly what two receivers of one path break, so the
assumption cannot be dropped for this code.

`RxFetchProofs`, for any fetches, files, contents and budget: `FetchTypeCorrect`, `UsersWorkIsSafe` (`UsersWorkStays`),
`CountsAreTrue` (`CountedIsThere`) and `ConflictsAreReal` (`ConflictsAreTheUsers`), from `FetchInvariant`. Receipts must be
`Honest`: what a receipt names is not the user's own, and is the content whose hash it holds. That
is kept because a receipt is made of a file that was just written (`WindowsAreClean`, which needs that the look has excluded
the user's own files), and because `OneAtATime` keeps the receipts of two
fetches apart. `WrittenIsRecorded` is the converse: a file rx wrote has a receipt, or is about to.

`ReplicateProofs`, for any files, slices, contents, attempts and budget: `ReplicaTypeCorrect`, `StagedFilesAreWhole`,
`VerifiedFilesAreTheSource`, `VerifiedSlicesAreComplete` and `AlarmsAreReal`. While downloads do not overlap, the `.partial` of an
open stream is written by its command alone (`PartsAreOwn`), so what is promoted is what was delivered, and what
is staged, noted or recorded the source has had (`NotedIsTheSource`); a plan has every file unless a listing
failed, and so has a manifest without failures (`PlansAreComplete`); what `verify --deep` calls good it read
(`ReadIsRecorded`). `AlarmsAreTrue` is proved and in no run.

`CleanupProofs`, for any files, items, limits and budget: `CleanupTypeCorrect`, `NamedFilesStay`, `PinnedFilesStay` and
`RemovedCanBeHadAgain` (`NothingIsLost`). `due` holds the items that have needed their files since the cycle
began; it only shrinks within a cycle. An item that was admitted before the active jobs were read is among them or
so young that it counts anyway, one that was sent later is in the feeder's state (`RunningIsSeen`), so everything
due is referenced when the walk begins (`DueIsReferenced`). `CandidatesMayGo` carries what the walk found to the second look.

`HostArchiveProofs`, for any files, contents, tags and budget: `ArchiveTypeCorrect`, `RemovedFilesAreRestorable`
(`RemovedIsRestorable`) and `CoveredFilesAreHeld` (`CoveredIsHeld`). A file is `Sure` when it is gone, when the index lists it as it is, or when some VERIFIED plan does. `SureIsHeld`: the
tree then has its content, and from some VERIFIED tag on every manifest that names the file has it. A drive under way is the only one
(`OneDrive`), has no VERIFIED record (`NewTags`), and has planned a sure file as it is
(`PlansAreCurrent`), so that what it posts changes nothing; a write gives a stamp that no record has
(`StampsArePast`). When a drive ends VERIFIED its manifest is the newest (`LastManifest`) and says what the tree holds (`ManifestIsPosted`).
For the second theorem `OnlyGrows` is added: while contents only grow, neither the tree nor a plan has
more than the file's present content, and the tree has no less than any VERIFIED tag planned, so a plan that
equals the file's content fixes the tree's. The premises (no overlap, no VERIFIED tag planned anew, nothing goes back) are where this fails, as the findings show.

`RxQueueProofs`, for any jobs and GPUs, any capacity, and any requests that the idle host can hold:

| theorem | assumes | argument |
|---|---|---|
| `QueueTypeCorrect`, `HostNeverOvercommitted` (`WithinCapacity`) | - | `Kept`: types, no job twice in the queue, finitely many entries, and capacity. What is given was covered by what was free, and one more entry takes just its assignment (`OneMoreTakes`) |
| `QueueNeverWedges` (`NeverWedged`) | - | the head of the queue is considered first, and on an idle host it fits |
| `HeadNeverOvertaken` (`HeadKeepsItsFit`) | - | everybody behind the head is left less than what it leaves (`TurnAfterHead`), and a request that fitted fits wherever its assignment is covered (`FitAgain`) |
| `HigherIsNeverOvertaken` (`HigherKeepsItsPlace`) | every request is for whole GPUs or none | `TurnAfter`: what is left for a job is no more than what some turn of the higher job left. If that one had a place, the place stays; if it was set aside, a GPU that `_hold_back` leaves whole has enough lower ones below it (`HoldBackLeaves`) |
| `WholeJobsKeepBack` | - | the same step by step: the job that starts asks for whole GPUs, the one that waits for whole ones or a fraction of one; others may have fractions |
| `RuleIsAsAssumed` | - | the real rule meets `DecisionAssumption` of `RxSched`: at most one assignment, and none that with a running one exceeds a GPU |

The rule is two recursions: sums over sets (`PoolAfter`, what is drained) and the loop over the entries ahead. What
they compute is found by least counterexample, over the subsets of a finite set (`LeastSet`) and over the naturals
(`LeastNatural`), from the library's theorem that a well-founded order has minimal elements. Requests are
taken to be non-negative whole numbers of units (`JobsAssumption`); the code does not check their sign. The run
`queue` has halves, for which the premise of `HigherIsNeverOvertaken` fails: the run shows the property of them on two GPUs, the
findings where fractions break it.

`ClientsSeeTheLifecycle` in `RxSchedProofs` is the refinement: under `Dependable`, `Spec => LifecycleHolds`, that is, the state that
`job_status` derives moves as `RxLifecycle` says. Each of the 42 actions is shown to be one step of it or none (`StepSeen`). It needs
that a status follows what its supervisor has done so far (`StatusFollows`: say, "running" is written only from "queued", and a
final state is the last word), and that a supervisor that lives is seen (`SeenAlive`); without `Dependable` a client may be
told that a job is lost while it runs.

`HostFeedProofs`, for any items, dependencies, jobs and budget: `FeedTypeCorrect`, and, if at most one save fails
(`Budget.full <= 1`; all other faults as often as they like), `OneJobPerItem` (`OneWantedJob`) and `ItemsRunAfterTheirDeps`
(`RunsAfterDeps`). The invariant `Known` says what the feeder's record, its file and the host have to do with each other:
a wanted job is on record once adoption has run (`Recorded`); the file is the record unless the failure is
spent (`OneBehind`) and names a wanted job or nothing for its item (`OnDisk`); what was shed is not wanted and a wanted job is its item's last
(`Unwanted`); what a job depends on is done, in the record and in the file (`DepsDone`); the overview is in the past
of the jobs (`OverviewIsPast`). The premise is needed: see the findings.

Only model-checked: every liveness property (`TopPriorityServed`, `EveryJobResolves`, `CancelResolves`, `PushLands`, `FetchEnds`,
`EveryItemSettled`, `CommandsEnd`, `Reclaims`, `EveryFileIsArchived`), which is out of the prover's reach, `HigherKeepsItsPlace` for
fractions, where it depends on the host, and what the three runs that expect a violation show. Every other property of a run is the
statement of a theorem.

## 5. Not modelled

* `op_gc` (agent 2188) and `envbuild_main`: a build holds one lock for its whole length, and removal goes by ages
  of a day and of fourteen days. A model without those ages would show races that the times rule out.
* A process that fails to enter its Job Object (agent 858) is resumed all the same; `RxSched` takes Job Objects as given
  (`KillOnClose`). Fractional requests above one GPU (agent 1095, `int(round(g))`) are in `RxDecide` but in no run.
* Several files in one push: each file goes through `RxTransfer` by itself; the rounds in common only delay. The
  client's hash cache.
* `hostfeed.py` (superseded by `hostfeed2.py`), `disk_squeeze.py`, `host_sync`'s copies of logs and results, the mirror.
* `run_artifacts.py` and provenance records: written once at the end of a run. `spawn_modal_jobs.py` and the ledger: one
  person's commands, one after the other; what the provider does with them is not in the repository.
* Transport, exec, tail, dashboards, probes, and all numeric code (`src/mp_retrieval`, `scripts`, `outputs/mp_unified`), which is
  nearly all of the repository's lines: pure computation without a state machine. It is also why the modelled lines are a
  small share of the whole: they are the parts in which processes share state.

## 6. Plan

1. *(done)* the rx scheduler, push, their runs and theorems; fetch, feeder, cleaner, archive and replication with theirs.
2. *(done)* proofs for `HostFeed` and `RxQueue`; the refinement of `RxLifecycle` under `Dependable`.
3. An abstract push (a register that is written whole or not at all) which `RxTransfer` implements.
4. The cleaner and the archive in one model: `Remove` of `HostArchive` by the whole of `Cleanup`'s cycle.
