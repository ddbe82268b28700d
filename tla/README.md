# Verification of go-sqlcipher

go-sqlcipher is a `database/sql` driver (package `sqlite3`) that links a vendored SQLite/SQLCipher
amalgamation (`sqlite3.c`, SQLCipher 4.15.0 on SQLite 3.53.0) with a vendored libtomcrypt. The
build sets `SQLITE_THREADSAFE=1`, `SQLITE_TEMP_STORE=2`, `SQLCIPHER_CRYPTO_LIBTOMCRYPT`,
`SQLITE_EXTRA_INIT=sqlcipher_extra_init`, `SQLITE_EXTRA_SHUTDOWN=sqlcipher_extra_shutdown` and
`NDEBUG`; the shared-cache waiter is behind the build tag `sqlite_unlock_notify`.

This directory holds TLA+ models of the parts of it where concurrency, failure and ordering
decide correctness, the TLC runs that check them, and TLAPS proofs about eight of them.
`PROJECT.json` says for every definition which lines of the source it stands for, for every run
what it checks, and for every hazard which property watches it.

## 1. Inventory

The components, the state each keeps, who calls whom, and what makes each correct. "Hard" names
what a unit test would hardly reach. The last column names the module, if there is one.

| Component (source) | State | Operations | Interacts with | Hard | Correct if | Module |
|---|---|---|---|---|---|---|
| Shared-cache locks and unlock notification (`sqlite3_opt_unlock_notify.go`, `.c`; btree.c, notify.c, vdbeaux.c in `sqlite3.c`) | table locks, transaction states, `pWriter`, `btsFlags` of a `BtShared`; `pBlockingConnection`, `pUnlockConnection`, `pUnlockArg`, `sqlite3BlockedList`; the Go table `unt` of channels | step, BEGIN, end of transaction, close, `sqlite3_unlock_notify`, the callback, park and retry | connections through the `BtShared` mutex, STATIC_MAIN, Go channels | interleaving, lost wake-up, deadlock, callback under a mutex | isolation; no wake-up lost; no circle of waiters; whoever waits is woken | `SharedCache`, `UnlockNotify`, `WaitGraph` |
| Page codec, rekey and rollback journal (crypto.c, pager.c in `sqlite3.c`) | file, journal, file locks, cache, `dbFileVers`; read and write context with pass, key, salt | key, read, write, spill, commit, rollback, `sqlite3_rekey_v2`, hot-journal recovery, process death | processes through file locks and journal | crash, partial failure, stale cache, wrong one of two contexts | the last commit survives a crash under one key | `Rekey` |
| Initialization (main.c, crypto.c, libtomcrypt provider in `sqlite3.c`) | `isInit`, `sqlcipher_init`, `sqlcipher_init_error`, mutexes, private heap, provider, mask, `ltc_ref_count`, `ltc_init` | open, PRAGMA key, close, `sqlite3_shutdown` | threads through STATIC_MASTER, activation and PRNG mutexes | failed and repeated starts, race on `isInit`, reference counting | a codec stands on complete resources; the generator outlives its users; every open returns, unless a failed activation has kept its mutex | `CipherInit` |
| Private heap (crypto.c in `sqlite3.c`) | list of blocks, statistics | `sqlcipher_malloc`, `sqlcipher_free` | every codec context; SQLite's malloc as overflow | fragmentation, boundary arithmetic, unlocked counters | allocations never overlap; free neighbours are merged | `PrivateHeap`, `Allocator` |
| Connection, statements, rows, transactions (`sqlite3.go`, `sqlite3_go18.go`) | `autoCommit`, `isInterrupted`, active statements, the call in progress | exec, begin, query, Next, Close, Commit, Rollback, interrupt on cancellation | `database/sql` (pool, `sql.Tx`), one worker goroutine per call | cancellation racing the answer, errors of COMMIT, pool hygiene | a refused call has no effect; a reported one is kept (a failing RETURNING statement excepted); the pool gets clean connections | `DriverConn` |
| Online backup (`backup.go`; backup.c, pager.c in `sqlite3.c`) | `iNext`, `rc`, `isAttached`; source and destination pages | init, Step, Finish; update and restart from the source's pager | the source's pager, other processes | writes, spills and rollbacks between steps; restarts | the destination becomes one committed state of the source | `Backup` |
| Callbacks (`callback.go`, `sqlite3_trace.go`, `sqlite3_opt_vtable.go`, `sqlite3_opt_preupdate_hook.go`, registrations in `sqlite3.go`) | `handleVals`, `traceMap`; the pointers SQLite keeps | registration, replacement, modules, cursors, trace, close | SQLite calls Go back; C addresses are reused | order of close and deletion, zombies | a callback reaches the value it was registered with; nothing is left behind | `Callbacks` |
| Aggregators (`callback.go`, `sqlite3.go:350-400`) | `active` map, index in the aggregate context | step, done | SQLite's aggregate context | constructor error | each group has its own aggregator | planned |
| Open (`sqlite3.go`, `(*SQLiteDriver).Open`) | DSN options | the sequence of PRAGMAs | initialization, codec | error paths that do not close | key before anything reads; nothing leaks | planned |
| Fortuna and libtomcrypt primitives, descriptor tables | pools, counters, tables | seed, read, encrypt, HMAC, register | initialization | seeding | — | not modelled (vendored); seeding planned |
| Conversion (`convert.go`, `sqlite3_type.go`, converters in `callback.go`), errors (`error.go`), encoders (`sqlite3_func_crypt.go`), `IsEncrypted` (`sqlcipher.go`) | none | pure functions | — | — | — | not modelled: sequential, unit tests reach them |
| User authentication, load extension, limits, tags, mocks | none of their own | thin wrappers | — | — | — | not modelled |
| Write-ahead log (wal.c in `sqlite3.c`) | WAL file, wal-index (two header copies, page table, `nBackfill`, read marks), private copy of the header, page cache | begin and end of a read, write, spill, commit, undo, checkpoint in four modes, restart, recovery, open, close of the last connection | the pager of each process; the page codec encrypts the frames | torn headers, races of reader, writer and checkpointer, deaths in every step, power failure | every transaction reads one committed state; what was synced is never lost | `Wal`, `SnapshotStore` |
| File locks and hot-journal detection (os_unix.c, pager.c in `sqlite3.c`) | fcntl() byte ranges per process, the shared inode (`nShared`, `nLock`, `eFileLock`, `pUnused`), `eFileLock` of each descriptor, `eLock` of each pager, the journal | lock, unlock, open, close, hot-journal test, playback | pagers of all processes; `Rekey` stands on what it promises | POSIX locks are shared inside a process and dropped by any close; failing unlocks; deaths while a journal is hot | what a pager believes is locked; nobody reads a half-written file; a waiting writer gets through | `UnixLocks`, `FileLocks` |
| Savepoints and statement journals (pager.c, wal.c in `sqlite3.c`) | dirty and clean pages in the cache, `aSavepoint`, main journal with its headers, sub-journal, frames of the open transaction, `iReCksum` | open, release and roll back to a savepoint, spill, statement and transaction rollback, two-phase commit | b-tree above, page cache, `Rekey` and `Wal` below | which copy of a page counts after spills, releases and partial rollbacks; playback that fails | going back restores what was saved; a crash leaves the last commit; the cache holds nothing stale | `Savepoints`, `SnapshotStack` |
| The rest of SQLite (parser, planner, VDBE, b-tree, other VFSes) | — | — | — | — | — | vendored; only where the components above meet it |

How they interact: `database/sql` takes a `SQLiteConn` from its pool and calls the driver; the
driver starts a goroutine per cancellable call and steps the statement; in shared-cache builds a
`SQLITE_LOCKED` step goes to the unlock-notify loop; SQLite calls Go back through the handle table;
the pager passes every page through the codec, whose contexts live in the private heap and whose
randomness comes from the provider that the first connection has started.

## 2. Modules

One module per component. Parameters are CONSTANTS with a named ASSUME, there is one action per
operation, names are those of the source, and no module declares a RECURSIVE operator.
Definitions called `Mutant...` are plausible bugs in the definition below them; no action uses
them. They document what each property is sensitive to.

**SharedCache.** The `BtShared`: `btreeBeginTrans`, `querySharedCacheTableLock` (who blocks a
table lock, and the setting of `BTS_PENDING`), `setSharedCacheTableLock`,
`clearAllSharedCacheTableLocks`, `downgradeAllSharedCacheTableLocks`, `btreeEndTransaction`, as
operators on one record. They are pure functions of that record because the code runs them under
the mutex of the `BtShared`.

**UnlockNotify** extends it with connections. A step of the model is a critical section of the
code: `Exec` is a whole `sqlite3_step` (transaction lock, table lock, `OP_AutoCommit`, the halt
of the VDBE), `Unlocked` is `sqlite3ConnectionUnlocked` under STATIC_MAIN — the gap between
releasing the locks and announcing it is a state of its own —, `WaitNoBlocker`, `WaitDeadlock` and
`WaitRegistered` are the three outcomes of `sqlite3_unlock_notify`, `Receive` and `Retry` the Go
side. `unt.table` is `table`, a function from live handles to tokens in the channel. `pc` says
where the goroutine of each connection is.

**WaitGraph** is what `UnlockNotify` promises: one may begin to wait unless that closes a circle,
and is woken only by whom one waits for. `pUnlock` is the refinement mapping.

**Rekey.** One encrypted file, several processes. An encrypted page is a key, a version (the
number of the write transaction that wrote it) and, on page 1, the salt; decryption under another
key fails, as the HMAC does. `ctx` holds both contexts with their lazy key derivation.
Journalling, sync of the record count, spills, playback, hot-journal recovery (which may die and
be repeated), cache invalidation by comparing `dbFileVers` as ciphertext, and `sqlite3_rekey_v2`
with each of its failures are actions. `committed`, `wrote` and `anomaly` are history variables.

**CipherInit.** `sqlite3_initialize` with its fast path, `sqlcipher_extra_init` step by step, its
failures, key attachment, close, shutdown. Each action is what a thread does between two points
at which another can see it. `activation` is SQLCIPHER_MUTEX_PROVIDER_ACTIVATE: a successful
`sqlcipher_ltc_activate` (`ActivateOk`) leaves it before anybody can see that it was held, and its early
returns (`ActivateFails`: registration, `fortuna_start`, the first seeding) never leave it. The callers do
not notice, because `sqlcipher_ltc_ctx_init` returns SQLITE_OK all the same: the start goes on
(`Seed`), and the next activation or deactivation, by whichever thread, does not return. The error branches of
`sqlcipher_extra_init` behind `ctx_init` and `random` (`sqlite3.c:111124-111142`) cannot be taken with this
provider, which returns nothing but SQLITE_OK from either; the one behind the allocation of the mask can (`MaskFails`).

**PrivateHeap** is at the level of bytes: addresses are offsets, headers take room, blocks are cut
and merged as in the code. The statistics are separate loads and stores outside the mutex.
**Allocator** is the abstract specification: what is handed out is aligned, inside the heap or
from malloc, and shares no byte with what has not been freed.

**DriverConn.** One pooled connection and several users. Every call has a caller (in its select,
interrupting, waiting for the worker) and a worker (binding, running, sent). Effects are numbered,
so that each can be followed into `pending`, `durable`, `reported` or `refused`. A statement that changes
the database may end with a row (`ExecRow`: a RETURNING clause): `execSync` takes SQLITE_ROW for success
while the statement is still active, and only the `s.Close()` in `exec` halts it, which commits in auto-commit mode
(`CloseCommits`) or fails and undoes the statement (`CloseUndoes`) or its transaction (`CloseRollsBack`), with the
error dropped. The parts of
`database/sql` are modelled from how the driver is called and are marked external.

**Backup.** Source file, pager of the source, backup object, destination. A Step is atomic because
`sqlite3_backup_step` holds the source's mutex and its shared lock throughout.

**Callbacks.** `handleVals` as a function from addresses to entries, one slot per kind of
callback for the pointer that SQLite holds, both halves of Close (`sqlite3_close_v2`, then
`deleteHandles`), zombies. An address that has been freed may be given out again.

**Wal.** Connections in different processes share the database file, the WAL file and the wal-index.
A frame carries its page, its content (the draft of a spill or the final content of a numbered
transaction), the commit flag, the salt and a checksum; a checksum is the sequence of the frames
it covers, so that it is right exactly when nothing before it has changed. `aHdr` holds both
copies of the header, which are written one after the other (`PublishHdr1`, `PublishHdr0`). Each
step between two points at which another process can see a difference is an action:
`walTryBeginRead` is `ReadHdr`, `ChooseMark`, `LockMark` or `LockZero`; `walFrames` is
`StartFrames`, the restart of the log, `WriteWalHdr`, one `WriteFrame` per page,
`RewriteChecksums` and the publication; `walCheckpoint` goes mark by mark and page by page. The
locks of the wal-index are derived from where each connection stands. `dbDisk` and `walDisk` hold
what the disk may have of each page and frame; a sync narrows them, a power failure picks from
them. A successful synced commit makes everything before it `durable`; `doubt` holds the states
whose commit has begun and may still be found by recovery.

**SnapshotStore** is what `Wal` promises: a log of committed states, transactions that read the
newest one at the moment they begin, commits that take effect whole or not at all, power failures
that lose only a suffix which no sync has covered (or find a transaction in doubt in its place).
The mapping reads the view of a connection out of the files, the index and its read mark.

**Savepoints.** One writer and everything that its pager keeps of one write transaction, in both journal
modes. The state is one record, and the functions of pager.c and wal.c are operators from a pager to a pager
(`PagerWrite`, `SyncJournal`, `WalFrames`, `PlayedBack`, `RolledBackTo`, `EndTransaction`), so that what a
rollback to each open savepoint and what a recovery WOULD give now can be computed in every state
(`Shown`, kept in `shows`). A journal is a sequence of records and headers; a record counts for a hot
rollback once its header has a magic. `Spill` is `pagerStress`, `Evict` the page cache giving up a clean page,
`CommitStart`, `CommitPage` and `CommitEnd` the two phases of a commit with a journal, `CommitWal` the one of
a log. `Crash` stands for a death and for PAGER_ERROR: the cache is given up and the next reader recovers.
`RollbackToFails` stops a playback after some records; the failing statement then rolls everything back.
Process boundaries, locks and unsynced writes are in `Wal`, `UnixLocks` and `Rekey`.
**SnapshotStack** is what it promises: an image that the writer changes, a stack of snapshots of it, and a
committed state that only a commit replaces. `StackSpec` compares them with `shows`, whatever the caches and
journals look like.

**UnixLocks.** `posix` is what the kernel knows: byte ranges and modes per process. `inode` is what
the connections of one process share, `lock` is `eFileLock` of each descriptor, `eLock` is that
of each pager, which a failed unlock lowers and a failed recovery sets to UNKNOWN_LOCK. An operation
on a lock goes through its `fcntl()` calls one by one under `pLockMutex`, and each may fail. `phase` is
where the pager stands: it takes SHARED, looks for the journal, tests RESERVED, takes EXCLUSIVE
and plays back, reads, writes the journal and the file, ends, fails, or closes. Close tests `nLock`
under `pLockMutex` and closes the descriptor under `unixBigLock`, or leaves it to the last unlock.
An open that fails in `findInodeInfo` closes its descriptor at once (`OpenFails`): for want of memory only when the
process has no other descriptor of the file, in `fstat()` also beside others, whose locks go with it (`FstatFails`).
**FileLocks** is what it promises: readers, one connection that prepares beside them, and a writer
that is alone. PENDING promises nothing to the others and is absent there.

**MC modules.** `MCUnlockNotify`, `MCRekey`, `MCPrivateHeap`, `MCCallbacks`, `MCWal`, `MCUnixLocks`
add symmetry sets, the set of requests, the two VIEWs and the processes that own the descriptors.
**UnlockNotifyProofs**, **BackupProofs**, **UnixLocksProofs**, **WalProofs**, **PrivateHeapProofs**,
**CallbacksProofs**, **DriverConnProofs** and **RekeyProofs** hold the proofs, each beside the module it is
named after. `DriverConnProofs` extends `CipherInit` as well, the start of the library that every Open of the driver
goes through; that is why the specification there is called `StartSpec`.

## 3. Runs

| Run | Instance | Shows | Why the bounds are enough |
|---|---|---|---|
| `unlock_live` | 2 connections, schema and one table, 2 open result sets each, with fairness | isolation, no lost wake-up, no circle, the callback never panics or blocks; a waiter wakes; refinement of `WaitGraph`; a closed connection is forgotten | the proofs hold for all sizes; `UnlockNotify_safety.cfg` checks the safety part with three connections (1.2 M states), where circles of three and a third party that closes between the two halves of a wait occur |
| `rekey_crash` | 2 processes, 2 pages, 2 secrets, 3 write transactions; 1.8 M states | crash safety, current caches, journal under the old key | page 1 (with the salt) and another; a rekey, a transaction before or during it and one that meets its remains |
| `init_start` | 3 threads, heap halved up to 3 times, 2 shutdowns, one leaked context, activations that fail at any time; 88 k states | resources; generator; every open returns unless an activation that failed has kept its mutex | one thread inside, one in between, one that is refused; a start after a failed start after a shutdown |
| `heap_safety` | 176 bytes, 16-byte headers, requests of 5, 24 and 41 bytes, 2 threads, 4 live; 1.7 M states | tiling, coalescing, `Allocator` | splitting, exact fit, a remainder too small to split, overflow and merging on both sides all occur |
| `driver_pool` | 2 users, 2 transactions, 3 statements; 758 k states | races of answer, cancellation and interrupt; statements that end with a row; pool hygiene | one statement in a transaction, one after it, one by the next user |
| `driver_commit` | same | finding 1 | — |
| `backup_copy` | up to 3 pages, 4 transactions, steps of 0, 1 or 2 pages; 380 k states | the copy is current, the destination a snapshot, a backup ends | growing, shrinking, restart in the middle, a spill that is rolled back; the proofs hold for all sizes |
| `callbacks_handles` | 2 connections, 3 addresses, 4 values; symmetric; 2.9 M states | callbacks resolve; nothing is left behind | an address is freed by one connection and reused by the other |
| `wal_snapshot` | 2 processes, 2 pages, 1 read mark beside mark 0, PASSIVE and TRUNCATE, 2 transactions, 2 frames, 3 pairs of salts, one death; symmetric; 1.2 M states | `SnapshotSpec`: one committed state per transaction; the cache is that state; `nBackfill` within the log | reader, writer and checkpointer in two processes meet at every step; a third frame starts the log again; a death at any step but inside `walRestartHdr` in the two cases of findings 2 and 9 (`CrashInRestart`, `CrashOverEmpty`), followed by recovery. The invariants were also checked once with 5 pairs of salts and two deaths (one writing transaction of one page, 3.2 M states) |
| `wal_power` | 1 process, 2 pages, 2 read marks beside mark 0, a spill of page 1, all modes, both sync modes, 3 frames, 2 of deaths, power failures and errors; 480 k states | `CrashSafe`, `ReadsOwnWrites`, `SnapshotSpec` over what the disk may hold | a spilled frame is overwritten by the commit and its checksums rewritten; two failures, the second during or after the recovery from the first |
| `savepoint_stack` | both modes, a database of 2 pages that may grow to 3, 2 nested savepoints, 3 writes, 3 frames; 840 k states | `StackSpec`: every savepoint and the committed state are what `SnapshotStack` says; `CacheIsCurrent` between transactions | a page of the old file beside page 1 and a new one; a savepoint that shares a record and one that owns it; a spill before, inside and after a savepoint. DELETE mode was also checked once with 4 writes (4.4 M states) |
| `file_locks` | two connections of one process and one of another, 1 death or failing call (not the failures of findings 6, 7 and 13), any number of I/O errors; 234 k states | `BeliefIsBacked`, `ReadsWhole`, `DeferredWaits`; refinement of `FileLocks`; a pending writer gets through | POSIX locks behave differently inside and between processes: this is the smallest instance with both |

The passing runs fire every action. Deadlock is checked except in `callbacks_handles`, where
a Go panic inside a callback ends the process and nothing remains to be done when every connection is
closed, in `init_start`, where a mutex that a failed activation has kept stops all threads, and in the runs of `Wal`
and `Savepoints`, whose bounded salts, frames and writes stop the last transaction.

Two runs use a VIEW. `NoStatistics` (heap) drops counters that no guard and no property of the
run reads. `Live` (rekey) drops variables that no step reads before it assigns them. Symmetry of
connections, processes, addresses and handles is used only in runs that check no liveness.

Each module has a type invariant `TypeOK`. They hold in these instances; where there is a proof module
they are proved, and only `UnlockNotify_safety.cfg` spends a check on one.

### Bounds
`MaxRows`: open result sets of a connection. `MaxTx`: write transactions (`Rekey`, `Backup`) or
transactions begun (`DriverConn`). `MaxExec`: statements. `HeapSteps`: halvings of the private
heap from its largest to its smallest size. `MaxShutdowns`, `MaxLeaks`: shutdowns and contexts
leaked by a failed attachment. `MaxLive`: allocations at one time. `MaxVals`: values registered.
`MaxPages`, `NPages`: size of the file. `MaxFrame`, `MaxSalt`: frames in
the WAL file, pairs of salts. `NReader`: `WAL_NREADER`, 5 in the code. `Faults`, `MaxFault`: what may go
wrong in `Wal` and how often; in `UnixLocks` the number of deaths and failing calls. With two failing unlocks in a row the belief of a pager can exceed
its lock (section 5); that is beyond `MaxFault = 1`, and the one failure that the proofs exclude besides those of the switches. `MaxSavepoint`: savepoints open at once. `MaxSubRec`: records in the sub-journal when a savepoint is
opened (an inner savepoint that is opened and rolled back again and again adds records that only the release
of the outer one cuts). `MaxFrame` (`Savepoints`): frames in the log after a spill. `MaxWrite`: writes; no transaction
begins and no page is evicted after the last. All of them limit guards only.

### Switches
Six constants take one behaviour of the code out of a passing run, so that its properties (and the theorems) say
something about the rest. None of these behaviours is impossible; with any of the switches on a property fails.

| Switch | What it takes out | What then fails |
|---|---|---|
| `CrashInRestart` (`Wal`) | a death between the header of a restarted log and the reset of `nBackfill` | `BackfillWithinLog`, finding 2 |
| `CrashOverEmpty` (`Wal`) | a death between the two header copies of a restart while the WAL file is empty | `CacheIsSnapshot`, finding 9; `wal_power`, which does not check it, has the death |
| `CloseRaces` (`UnixLocks`) | a lock taken between the test of `unixClose` and its `close()` | `BeliefIsBacked`, finding 6 |
| `IgnoredErrors` (`UnixLocks`) | the failure of an unlock whose result nobody reads | `BeliefIsBacked`, finding 7 |
| `FstatFails` (`UnixLocks`) | an open that fails in `fstat()` while the process has the file open | `BeliefIsBacked`, `ReadsWhole` and `LockSpec`, finding 13 |
| `PlaybackFails` (`Savepoints`) | a failing playback in WAL mode ("delete" only in the passing run) | `CacheIsCurrent`, finding 10 |

### Fairness
- `UnlockNotify!FairSpec`: weak fairness for what a goroutine does by itself (announce, register,
  receive, retry), because Go and SQLite schedule it; strong fairness for `CloseRows` and `EndTx`:
  applications finish what they have begun. That is an assumption about the application, and
  without it a waiter rightly waits. With three connections and this fairness a writer can starve:
  connections that already read may re-read for ever (`BTS_PENDING` refuses only new
  transactions), so `WaiterWakes` is checked with two.
- `CipherInit!StartSpec`: weak fairness for each thread inside an open. It holds no lock of an
  application. `OpenReturns` is claimed unless an activation that failed has kept its mutex for good: the threads behind it
  are not starved but blocked, and no fairness would help (finding 11).
- `DriverConn!FairSpec`: goroutines run, and a running statement that sees the interrupt flag
  aborts (the VDBE tests it in its loops). Nothing says that a statement ends by itself, so
  `CancelReachesStatement` does not rest on that.
- `Backup!FairSpec`: Step with a positive count is called again, and the source's transactions
  end. External commits are bounded by `MaxTx`, which stands for "the others leave it alone for
  long enough": the code restarts at every one of them and promises nothing otherwise.

- `UnixLocks!FairSpec`: weak fairness for what a thread does by itself between two calls of the
  application; strong fairness for entering `pLockMutex` and for attempts that are repeated: the busy
  handler sleeps and tries again, and readers end. `WriterGetsThrough` is claimed for a writer
  if every OTHER process has one connection (`Alone`); its own may have several. PENDING does not turn away a second
  connection of another process that already reads (`unixLock` lets it share without asking the kernel), and such
  readers, taking turns, can starve the writer. In its own process `eFileLock` is PENDING and refuses them.

## 4. Findings

Each is a property that a comment of the code states and TLC refutes. The first is kept as a run:

1. **`driver_commit` / `CompleteAfterCommit`** (`sqlite3.go:445`). Commit cleans up after
   `SQLITE_BUSY` only; a COMMIT refused by a deferred foreign key leaves the transaction open in
   the connection that goes back to the pool.

The others are checked with the configuration that is named; TLC reports a violation with each.

2. **`Wal_restart.cfg` / `BackfillWithinLog`** (`sqlite3.c:69869`). `walRestartHdr` publishes a header with
   `mxFrame` 0 and resets `nBackfill` after it. If the process dies in between while another one is
   attached, both header copies agree and nobody recovers; `nBackfill` is then greater than `mxFrame`,
   against the comment at `sqlite3.c:68057`. With `MaxTx = 3` and `MaxSalt = 3` TLC also refutes
   `SnapshotSpec`, in a trace of 36 states: readers skip frames up to the old `nBackfill` and miss a commit.
3. **`Rekey_mixed.cfg` / `OneKey`** (`sqlite3.c:114218`). A rekey that cannot begin or is rolled back
   returns `SQLITE_OK` and leaves the new key in the write context; the next ordinary write encrypts
   some pages with it and leaves the rest.
4. **`Rekey_salt.cfg` / `JournalHasOldSalt`** (`sqlite3.c:113909`). A rekey to a raw key that carries its
   own salt overwrites the salt that both contexts share before page 1 is journalled. A rollback or a
   crash restores page 1 with the new salt, and the old passphrase no longer opens the file. So
   `CrashSafe` holds (`rekey_crash`) for passphrases and raw keys without a salt only.
5. **`CipherInit_race.cfg` / `InitIsComplete`** (`sqlite3.c:193053`). `isInit` is set before
   `SQLITE_EXTRA_INIT` has run; a second thread is told that initialization is complete, and its
   key is refused.
6. **`UnixLocks_close.cfg` / `BeliefIsBacked`** (`sqlite3.c:42634`). `unixClose` tests `nLock` under
   `pLockMutex` and closes the descriptor after it has left that mutex. A connection of the same process
   that takes SHARED in between loses its POSIX lock with that `close()`, reads on, and another process
   may write. The comment before `unixInodeInfo` says that such a close is deferred "until all of the locks clear".
7. **`UnixLocks_ignored.cfg` / `BeliefIsBacked`** (`sqlite3.c:65169`). When the hot journal is gone by the time
   EXCLUSIVE is held, `sqlite3PagerSharedLock` ignores the result of the unlock to SHARED. If that
   fails half-way the pager believes in a lock that the file no longer has; the comment at
   `sqlite3.c:60062` says `eLock` "is never set to a more exclusive value".
8. **`UnixLocks_twice.cfg` / `BeliefIsBacked`** (`sqlite3.c:42504`). `posixUnlock` read-locks the range before it
   releases the bytes; if the release fails, `eFileLock` stays EXCLUSIVE over a range that is only read-locked.
   If the unlock in the ERROR state fails as well, `eLock` becomes UNKNOWN_LOCK, and the next `unixLock` to EXCLUSIVE returns
   without a system call because the file "already holds" it. The comment at `sqlite3.c:60089` says that the pager
   then "obtains an EXCLUSIVE lock on the database file before attempting to roll it back". It takes two failures
   (`MaxFault = 2`); what the proofs exclude is exactly the second (`TriesOnce`, section 5).
9. **`Wal_empty.cfg` / `CacheIsSnapshot`** (`sqlite3.c:69130`). `walIndexRecover` clears the header and, when the
   WAL file is empty, draws nothing from it: every recovery of an empty log publishes the same header. A connection
   that filled its cache under one recovered header takes it for current under another
   (`sqlite3.c:70339` compares the bytes), although transactions were committed and checkpointed in
   between. The comment at `sqlite3.c:71197` says that `*pChanged` is set "if the database contents have changes since the
   previous read transaction".
   TLC finds a trace of 37 states: recovery, a read by `p`, a commit, two TRUNCATE checkpoints, the second of which dies
   between the two copies of the header (`sqlite3.c:69863`), recovery, a read by `p`. `wal_snapshot` takes this death out
   (`CrashOverEmpty = FALSE`): what it shows of the cache holds as long as nobody dies between the two copies over an empty log.
10. **`Savepoints_error.cfg` / `CacheIsCurrent`** (`sqlite3.c:63289`). In WAL mode a rollback to a savepoint first
   lowers `mxFrame` to where the savepoint was opened and then reads the sub-journal. If that read fails, the
   statement rolls the transaction back, but `pagerRollbackWal` now finds only the dirty pages and the frames up
   to the lowered `mxFrame`: a page that was spilled after the savepoint, and is clean, stays in the cache
   with content that was never committed, and `walIndexTryHdr` sees no change that would drop it. The comment
   at `sqlite3.c:66577` says that such entries "are either expelled from the cache or reverted".

11. **`CipherInit_activate.cfg` / `EveryOpenReturns`** (`sqlite3.c:114583-114602`). When a registration, `fortuna_start` or the
   first seeding fails, `sqlcipher_ltc_activate` returns without leaving SQLCIPHER_MUTEX_PROVIDER_ACTIVATE, and
   `sqlcipher_ltc_ctx_init` reports SQLITE_OK nevertheless. The deactivation that ends the same start, or the next
   key of any connection, then waits for ever; in the trace it is the opening thread itself, which holds
   STATIC_MASTER as well. The comment at `sqlite3.c:4073` says of an open that does not succeed: "Otherwise an [error code]
   is returned".
12. **`DriverConn_returning.cfg` / `ReportedIsDurable`** (`sqlite3.go:2018`). `execSync` takes SQLITE_ROW for success. An
   INSERT with a RETURNING clause in auto-commit mode is then still active and commits only in the `s.Close()` of
   `exec` (`sqlite3.go:831`), which drops the error: if a deferred foreign key or the commit itself fails there, the caller has its
   result and the database does not. `ReportedIsKept` excepts just these statements.
13. **`UnixLocks_fstat.cfg` / `BeliefIsBacked`** (`sqlite3.c:46413`). `unixOpen` closes the descriptor when `findInodeInfo` fails. If
   `fstat()` failed, the process may have locks on the file through other descriptors, and they are gone. The comment
   there knows it ("dropping a lock or two doesn't matter much"); the one before `unixInodeInfo` promises that
   such a close is deferred "until all of the locks clear". TLC also finds a reader of a half-written file (`ReadsWhole`) and a
   step that `FileLocks` does not have, with the same configuration.

Also stated in the modules, and refuted by TLC when put in place of a run's property: `KeyCopiedIfCommitted` and `RollbackReleasesLocks` (`Rekey`: after a rekey that fails
at its commit the key is copied and locks are kept),
`InterruptIsForTheCancelled` (`DriverConn`, `sqlite3.go:1998`: the comment says that a late interrupt can be
a no-op; with a row of another result set out the flag survives instead and ends the next statement,
whose context is alive, and if that writes, its whole transaction is rolled back),
`FailedStartLeavesNothing` and `KeyHasCodec` (`CipherInit`: a failed start keeps the provider
registered; a failed mask allocation is reported as success), `StatIsZeroWhenEmpty`
(`PrivateHeap`: requested and real sizes are mixed, and updates are lost), `OutlastsDatabase`
(`Callbacks`: a zombie keeps pointers whose handles are gone), `AnnouncedMeansReleased`
(`UnlockNotify`: a statement that halts with other readers open announces and keeps its read locks).
`WaiterWakesIfBlockerReturns` (`UnlockNotify`) states the case of three connections; its state
graph is too large for a liveness check. `EmptyHeapIsWhole` (`PrivateHeap`) is no property of a run but proved: it follows from `BlocksTile` and
`Coalesced`. `StrayOnlyWithRows` and `EscapesOnlyIfTorn` (`DriverConn`) are proved too; they bound when an
interrupt can meet the wrong statement, and when an effect can outlive the transaction it belonged to.

Seen while reading, without a property: the cancellation of a context cannot wake a goroutine parked in
`unlock_notify_wait`; `query` leaks its statement when there are too few arguments
(`sqlite3.go:868`); an aggregate whose constructor fails has its index stored already
(`sqlite3.go:387`) and its xFinal panics; several error paths of Open skip
`sqlite3_close_v2` (`sqlite3.go:1488`); `cXOpen` returns `SQLITE_OK` after a failed Open.

## 5. Proofs

### UnlockNotifyProofs (818 obligations)
For every set of connections, tables, handles and requests, from `SharedCacheAssumption` and
`UnlockNotifyAssumption` (the schema is a table, null values are not members of their sets, bounds
are natural numbers, and the like).

The inductive invariant is `IInv == TypeOK /\ LockInv(bt) /\ WaitInv`.
- `LockInv` has three parts: the recorded writer is the connection in a write transaction
  (`WriterConsistent`); a lock belongs to a connection in a transaction (`LocksNeedTrans`); a
  write-locked table has one owner (`LocksCompatible`). The second is not a property anyone would
  ask for, but without it the end of a transaction could leave a lock behind.
- `WaitInv` ties the three views of a wait together: the list, the `pUnlock` fields and the Go
  table. The channel of a waiter is empty exactly as long as it is registered, and no two waiters
  share a handle; so the callback never blocks and never misses.

The lemmas about `SharedCache` (what each operator keeps of `LockInv`) are stated once. Then there is one
lemma per action. From `IInv` follow `TypeCorrect`, `Isolation`, `WriterIsKnown`, `NoWakeupIsLost`,
`CallbackReturns`, `BlockedList`. `BlockersAnnounce` is proved relative to it: a blocker leaves its
transaction only into the states in which it still has to announce. `DeadlockFree`: the deadlock test accepts a
wait only if the chain from the blocker does not reach the waiter, so a set closed under
`pUnlock` would have existed before. `Refinement` maps every step to `Wait`, `Wake` or a stutter.
`ClosedForgotten` is the action property.

### BackupProofs (512 obligations)
For every file size, number of transactions and set of step arguments, from `BackupAssumption`.
`CopiedIsCurrent` is not inductive: a transaction that makes the file longer may have spilled new
pages, which the property does not see until the commit makes them part of the file. `Mirror`
extends it to those. `PagerInv` says what a pager knows (a page that is not dirty is as in the file;
an open transaction has seen the newest file), `Tail` that nothing follows the end of a file,
`AttachInv` that a backup which does not listen yet has copied nothing. From the invariant follow
`TypeCorrect`, `CopyIsFaithful` and `Snapshot`.

### UnixLocksProofs (4147 obligations)
For any number of processes, connections, crashes and failures of the calls, from `OwnerAssumption`,
`FilesAssumption` (finitely many connections) and `MaxFaultAssumption`, but not for every failure. Three hypotheses
are switches of the model, `CloseRaces = FALSE`, `IgnoredErrors = FALSE` and `FstatFails = FALSE`: findings 6, 7 and 13 show
that each of them is needed.

None of the properties is inductive. `IInv` relates the four views of one lock:
- `NodeOK`: what `unixInodeInfo` counts. `nShared` covers the connections that hold a lock, and one more if
  the strongest lock belongs to nobody (`Orphaned`): an unlock that failed in `unixClose` leaves a lock that
  outlives its descriptor. One connection of a process at most is above SHARED.
- `RangeOK`: which fcntl() locks stand behind the counts. Where a lock is EXCLUSIVE the range is write-locked,
  except between the calls of an unlock, or after an unlock that got half-way (`HalfUnlocked`).
- `FileOK`: what the pager may believe in each of its states, and `CallOK`: how far a call has got.
- `TornOK`: while the file holds part of a transaction, there is a journal, nobody reads, and nobody but an
  EXCLUSIVE holder could make the hot-journal test say that a writer is alive.

There is one lemma per action; a step of one connection leaves the others alone except for what they share in
their process (`OtherNodes`, `OtherFiles`). From `IInv` follow `BeliefsAreBacked`, `ReadersSeeWhole` and
`DeferredClosesEnd`. `ImplementsLocks` is the refinement of `FileLocks`: a step changes what one pager relies on,
and comes to RESERVED from SHARED only (`BeliefStep`); a crash lowers those of its process all at once. What
`FileLocks` promises by itself is `LocksExclude`, for which `Exclusion` alone is not inductive either: that a
connection which reserves can become the only writer rests on `OneWriter`. `WriterIsAlone` joins the two.

The theorems have a fourth hypothesis, `[][TriesOnce]_vars`: `posixUnlock` does not fail on a range that an earlier
failure has left read-locked in the error state. It is not for convenience: without it
`BeliefIsBacked` is false (finding 8). One failure cannot do that: `OneFailureIsSafe` has `MaxFault <= 1` in
place of this hypothesis and keeps the other three, since a single failure of their kinds is enough.

### WalProofs (7647 obligations)
For any number of connections, pages, read marks, transactions, spills, deaths, errors and power failures, in every
checkpoint mode, from `NReaderAssumption`, `ModesAssumption`, `MaxFrameAssumption` and `WritesAssumption` (a spill
and a commit write at least one page: `pagerStress` is given one, and `pagerWalFrames` gets page 1 when no other is
dirty, `sqlite3.c:66315`). The one hypothesis is the switch `CrashInRestart = FALSE`: with a death inside
`walRestartHdr` `BackfillWithinLog` is false (finding 2).

Proved are `BackfillWithin` and `CommitsRecovered`: what the wal-index calls committed (`mxFrame`) recovery
would find again in the file, by salts and cumulative checksums. Neither is inductive, and they need each other: a
checkpointer sets `nBackfill` to a number that it has worked out from a header read long before, and the log
under it may have been extended, restarted, emptied, rolled back, overwritten or recovered since; recovery sets
`mxFrame` to what the file proves. `IInv` has these parts:
- `Committed`: all frames up to `mxFrame` carry the salts of the header and the checksum of everything before them, the
  last one ends a commit, and the header has its checksum.
- `WriterOK`: how far the file carries valid checksums while a writer is at work (`Chained`). Up to `iFrame`, or, when
  it has overwritten a frame that it had spilled, up to the frame before (`iReCksum - 1`); what it overwrites
  (`iFirst`) never lies within what is committed.
- `CkptOK`: as long as the salts are those that a checkpointer has read, the log has only grown, so `mxSafe` is within it;
  between the comparison of the salts and the end of the copy nobody can restart the log, because the checkpointer
  has read lock 0 (`CopyAlone`), which a restarting writer would have to hold.
- `SaltsDiffer` and `SaltsDrawn`: salts are drawn once, so a log that is about to be published under new salts cannot be
  taken for the one a checkpointer looks at.
- `RestartOK`, `PlaceOK`, `LocksOK`: the states around `walRestartHdr`, which locks are held where, and that each
  has one holder.
- `DiskOK`: the disk may hold something of every frame; a power failure leaves any choice of these
  (`LeftOnDisk`), and recovery starts from there with an empty wal-index.

There is one lemma per action. Steps that leave log and headers alone share `QuietStep`, those of the holder of a
lock `OwnerStep`, and everything that ends with a zeroed wal-index (the first open, the last close, a power failure)
`ZeroStep`. `ResummedOK` and `SumJoined` say what `walRewriteChecksums` does, `PutOK`, `SumAppend` and `OverwriteStep`
what a frame at the end or in the middle does to the checksums; they are about sequences of frames alone, without recursion.

`TransactionsHold` says what readers are promised: for as long as a transaction holds its read lock, and up to its own
commit, no step of anybody changes what it reads (`SnapshotStays`, which is about every page of the snapshot and every
step). It needs a second invariant, `RInv` (`ReadersInvariance`), beside `IInv`:
- `DbHolds`: of a page whose newest frame within a connection's part of the log has been copied, the database holds
  that frame. It is said for the log as it is now up to `nBackfill`, and for each reader up to `minFrame - 1`, so a
  reader that finds no frame from `minFrame` on may look into the database.
- `Behind`: once a checkpointer has passed a mark (`walCheckpoint` goes through them one by one, without a lock on
  those behind it), no reader on that mark ends before `mxSafe`; readers that take a mark later end no earlier. So
  each page that is copied has a frame in the part of the log that a reader looks at, or is in the database already
  with the content that this reader would find.
- `Indexed`, `EntersOK`: `aPgno` names the page of each frame up to `mxFrame`, and of those that a writer has entered
  beyond it; what walIndexAppend clears lies behind them.
- `NoReaders`, `LockOK`: nobody reads a log that is about to start again.
- `CopyOK`: which pages are still to be copied, and from where.

Not covered: the exchange of read lock 0 for a mark in `walRestartLog`, after which a writer reads the same state out
of other places. That it is the same state is a part of `SnapshotSpec`, which TLC checks.
Steps that at most extend the log share `RStep` and `RKept`; restarts, copies and everything that zeroes
the wal-index (`RZero`) have proofs of their own.

### PrivateHeapProofs (1141 obligations)
For every heap size, header size, alignment, split limit and set of requests, from `HeapAssumption` (the
heap and the header are multiples of the alignment, and the like), and any number of threads. `BlocksTile` is not
inductive without two facts that the list never shows: no block is empty, and no block reaches behind
the heap; `Tiled` says it of any list, so that the lemmas `SplitShape` and `MergeShape` can speak of the list
between two assignments. `Aligned` makes the memory handed out aligned after rounding. `LiveInv` relates
the used blocks and the allocations one to one, in both directions: without the second a block could be freed
twice. The first fitting block of the search exists by well-foundedness (`LeastAddress`). From the
invariant follow `HeapTiles`, `HeapCoalesced`, `HeapUsedIsLive`, `EmptyIsWhole` (a heap without
allocations is one free block) and `RefinesAllocator`: each step is a step of `Allocator` or a stutter,
which needs that two blocks of a tiled list share no byte.

### CallbacksProofs (632 obligations)
For any number of connections and of addresses that `malloc` may hand out again, from
`CallbacksAssumption`. `CallbacksResolve` is not inductive: `goVOpen` makes a cursor for the connection named
in the table entry it finds, which need not be the one that runs the statement, so an entry has
to belong to a connection that is still open or closing (`EntriesInv`); a connection that is opened must not
find a callback, a statement or a trace mask of an earlier one (`NewInv`); a table that a statement reads
stays connected (`VTabInv`). `Handles` is what the table says and `States` what the connections
say; a call that makes a handle is `HandleMade`, one that drops references is `HandlesKept`, and `deleteHandles`
has its own lemma. From the invariant follow `TypeCorrect`, `HandlesResolve`, `CloseCleansUp`
and the action property of `PanicsHaveTwoCauses`: a step that ends the process with a panic is either
`CursorOpenFails` (the null cursor of a table whose Open method failed, which happens on open connections too) or a
callback of a connection that had been closed before (`OutlastsDatabase` in section 4). So no look-up of a handle or
of a trace configuration for an open connection fails, nor one of the `sqlite3_close_v2` that closes it.

### DriverConnProofs (1035 obligations)
For any number of goroutines, transactions and statements, from `DriverAssumption`. Whether an Exec may still report
an error depends on where its worker is: `EffectInv` says that the effect of the running statement
exists from the moment the worker's answer is a success, and that it is neither reported nor refused before
the call returns. What COMMIT makes durable depends on whose effects are pending: `OpenInv` says that an open
transaction belongs to the `sql.Tx`, to a BEGIN about to return, or was left open by an earlier Commit, on which
a later BEGIN fails; in auto-commit mode nothing is pending but the effect of a statement that has its row out
(`RowOut`), and only until its `s.Close()`. `KeptInv` follows the reported effects of a `sql.Tx` until SQLite rolls them back or
an `s.Close()` undoes them (`dropped`); what that Close does has a lemma of its own.
Steps that do not touch the database have one lemma (`DataKeptIInv`), and so have the five ways a `sql.Tx`
ends without a commit (`RolledBackIInv`). From the invariant follow `PoolGetsCleanConnections`,
`ErrorsHaveNoEffect`, `ReportsAreKept`, `OnlyTornTxEscape` and `StrayInterruptsNeedRows`.

The last part of the module is about the start of the library, for any number of threads (a finite set), heap sizes,
shutdowns and lost contexts, from `InitAssumption`. `CodecHasResources` is not inductive: the resources that a codec stands on are
released by a start that fails, so one has to know that only the holder of STATIC_MASTER is inside
`sqlcipher_extra_init` (`MasterInv`), what it has allocated so far (`StageInv`), and that it is not
there once `sqlcipher_init` is set (`ReadyInv`). It says nothing of `default_provider`, which a failed start leaves registered
(`FailedStartLeavesNothing`, section 4). `PrngServesUsers` is a statement about a count:
`CountInv` says that `ltc_ref_count` covers the codec contexts and, while the start draws its mask,
the activation that it holds itself, unless an activation has failed and kept its mutex; a leaked context keeps it too
high and never too low. The lemma `Activation` is about one activation, successful or not.
`ContextsAreBacked`, `PrngIsSafe`, `StartTypeCorrect` and `OneStart` follow.

### RekeyProofs (3617 obligations)
For any number of processes, secrets, salts, pages and write transactions, from `RekeyAssumption` and
`NoKeyAssumption` (a key that is not derived yet and a `dbFileVers` that was never read differ from every key and
from every image of a page). None of the run's properties is inductive. `IInv` has these parts:
- `LockInv`: what a connection does goes with its lock, locks are compatible, and a synced journal under a lock
  is that of the EXCLUSIVE holder. So a reader that finds no hot journal sees a file without synced records.
- `VersionInv`: a journal record has the page of the last commit, and so has the file where no record is synced.
  This is crash safety as far as page contents go (`CrashKeepsLastCommit`); it needs no assumption on keys.
- `SeenInv` and `CacheInv`: a cache is that of the last commit if the connection has kept its lock, or if the
  version of page 1 that it saw is the committed one. Every commit writes page 1 with the number of its
  transaction, which nobody else has seen: a connection without a lock is thereby told of every commit
  (`CacheNeverOld`).
- `WriterInv`: the writer's cache, and the file where it is not dirty, are what it will commit; its dirty pages are
  in the journal and the records are synced before the file changes.

`KeysInv` says which key is where, as long as no statement has written while the contexts of its connection differed.
The journal has the old key; so has a read context that has decrypted page 1. In the loop of `sqlite3_rekey_v2` the
pages behind `nxt` wait for the new key and those before it have the old one. A statement that inherits the
transaction of a rekey whose commit failed has the NEW key in its read context, and journals through it: this does
no harm because every page is in the journal already (the alternative in `WriterKeyOK`). From it follow
`JournalKeepsOldKey` and `CrashLeavesOneKey`. `SaltInv` adds that there is one salt if no secret brings its own
(`NoOwnSalts`); `CrashIsSafe` is proved under that hypothesis, which is not for convenience: without it the statement is
false (finding 4). The action property `OnlyWrongKeyFails` (`RightKeyNeverFails`) follows from both
invariants: a codec gets into its permanent error only with a key that is not that of the last commit, never because
others rekey, roll back or die.

A step of one connection leaves alone what the others have (`Elsewhere`, `OthersKept`), so that each action is
looked at for the connection that moves. The actions share lemmas by what they do to file and journal: nothing
(`QuietStep`), a page becomes dirty (`DirtiesStep`: statements, the loop of a rekey, the first half of both commits),
a page goes to the file (`WritesOutStep`: spill and commit), the end (`FinishStep`, `RollbackStep`, `RecoverStep`).

### Only model-checked
Liveness (`WaiterWakes`, `OpenReturns`, `CancelReachesStatement`, `BackupEnds`, `WriterGetsThrough`): fairness and
ENABLED are beyond the prover, and so is induction over data with an operator as parameter.

Of `Wal`, `CrashSafe`, `ReadsOwnWrites` and the refinement of `SnapshotStore`, which need the history of commits and
the content of each frame besides what `IInv` and `RInv` have. `CacheIsSnapshot` holds only without the death of finding 9
(`CrashOverEmpty = FALSE`), and needs that history as well. Of `Savepoints`, `CacheIsCurrent` and the
refinement of `SnapshotStack`: the playback is a fold over the records, whose lemmas are inductions over data.

## 6. Not modelled, and why
- `Rekey`: WAL mode (a codec on the frames of `Wal` is one more injective function), power loss of writes
  that were not synced, failure of CommitPhaseTwo, plaintext headers, `cipher_migrate`,
  `sqlcipher_export`: they change little of the rekey's control. A process death keeps what the process
  has written.
- `Wal`: savepoints inside a write transaction (they are in `Savepoints`), the value of `nCkpt`, the
  database size in the header, padding to sectors, `journal_size_limit`, read-only and heap-memory
  wal-indexes, snapshots, blocking locks, `synchronous=OFF`, and the limit of retries after which
  SQLITE_PROTOCOL is returned. A lock that is held only inside one action is not a step of its own.
  RESTART and FULL differ from PASSIVE by their locks only.
- `Savepoints`: pages that the b-tree gives up (`sqlite3PagerDontWrite`, noContent), sectors larger than a page,
  `sqlite3PagerMovepage` and an image that shrinks, the journal modes TRUNCATE, PERSIST, MEMORY and OFF, the
  content of the change counter (page 1 is written again), failures of a write or a sync (they end in
  PAGER_ERROR, which is `Crash`). A page in use is not modelled beyond page 1: others may always be spilled.
  A frame that a commit writes is not a step of its own, since nobody sees the log before the header is published.
- `UnixLocks`: the branch of `hasHotJournal` for a database of zero pages, exclusive locking mode,
  `unix-excl`, NFS, AFP and the Apple variants, `fork`, descriptors that are reused with other open flags.
- `Rekey` abstracts the PENDING lock: it affects who waits, not what a holder may do (`UnixLocks`). A rekey is
  started in auto-commit mode, as `sqlite3_rekey_v2` begins its own transaction.
- `CipherInit`: logging, auto-extensions, another provider than libtomcrypt. The mutex of the generator is a leaf and
  taken inside single actions; once random bytes have been added, `fortuna_ready` is taken to succeed. `sqlite3_shutdown` is called when nothing is in use, as its documentation demands.
- `DriverConn`: queries are read-only SELECTs; values are not bound. A prepared statement with a RETURNING clause that is run
  by `Stmt.Exec` has no `s.Close()` behind it and stays active until it is bound again or closed: not modelled.
- `Backup`: source and destination have one page size, the source is not empty; BUSY and LOCKED of
  the destination are stutters (Step returns false and no error).
- `Callbacks`: one kind of each callback per connection; a module is replaced at most once;
  registration on a closed connection is misuse and excluded.
- Vendored cryptography: a cipher, a key derivation or an HMAC is an injective function.

## 7. Plan
Done, in order of importance: `SharedCache`, `UnlockNotify` with `WaitGraph` and its proofs; `Rekey`;
`CipherInit`; `PrivateHeap` with `Allocator`; `DriverConn`; `Backup`; `Callbacks` (all with proofs); `Wal` with
`SnapshotStore` and its first proofs; `UnixLocks` with `FileLocks` and its proofs; `Savepoints` with `SnapshotStack`.

Next, modelling:
1. `Aggregate`: index and `active` map of aggregators, constructor errors, groups that interleave.
2. Open as an extension of `CipherInit`: DSN key, page size, the order of the PRAGMAs, what each
   error path releases; seeding of Fortuna.
3. Zombies composed with `SharedCache`: a connection closed with a statement out keeps its locks.
4. The frames of `Wal` under a rekey; pages that move or are given up in `Savepoints`.

Next, proofs (those of `UnlockNotify`, `Backup`, `UnixLocks`, `CipherInit`, `PrivateHeap`, `Callbacks`, `DriverConn`,
`Rekey` and `BackfillWithinLog` of `Wal` are done):
1. `Wal`: `CrashSafe` without power failures, from `CommitsRecovered` and an invariant that relates `db`, the frames
   and the last state of `log`.
2. `Savepoints`: which savepoints have a copy of which page, from `AddToSavepointBitvecs` and the order of the
   records (the folds of the playback need a lemma per record kind).
