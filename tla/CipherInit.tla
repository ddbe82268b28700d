----------------------------- MODULE CipherInit -----------------------------
(***************************************************************************)
(* The start of the library and of SQLCipher inside it: sqlite3_initialize *)
(* (called by every sqlite3_open_v2), sqlcipher_extra_init (SQLITE_EXTRA_  *)
(* INIT, flags.go), sqlcipher_extra_shutdown, and what SQLiteDriver.Open   *)
(* does next on the same thread: PRAGMA key, which attaches a codec        *)
(* context, and the close of the connection, which frees it.  Each context *)
(* activates the libtomcrypt provider; the last one deactivates it.        *)
(***************************************************************************)
EXTENDS Naturals, FiniteSets

CONSTANTS
    Threads,        \* each opens and closes one connection at a time
    HeapSteps,      \* SQLCIPHER_PRIVATE_HEAP_SIZE_DEFAULT / .._SIZE_STEP
    MaxShutdowns,   \* bound: calls of sqlite3_shutdown
    MaxLeaks,       \* bound: contexts lost to a failed allocation
    NoThread

ASSUME InitAssumption ==
    /\ IsFiniteSet(Threads) /\ NoThread \notin Threads
    /\ HeapSteps \in Nat \ {0}
    /\ MaxShutdowns \in Nat /\ MaxLeaks \in Nat

VARIABLES
    pc,            \* where each thread is
    isInit,        \* sqlite3GlobalConfig.isInit
    cipherInit,    \* sqlcipher_init
    initError,     \* sqlcipher_init_error
    master,        \* who holds SQLITE_MUTEX_STATIC_MASTER
    mutexes,       \* sqlcipher_static_mutex[] are allocated
    heap,          \* private_heap: 0 or the number of its allocation
    heapSz,        \* private_heap_sz, in steps
    provider,      \* default_provider: 0 or the heap it was allocated in
    mask,          \* sqlcipher_shield_mask is allocated
    ltcInit,       \* ltc_init
    ltcRef,        \* ltc_ref_count
    prng,          \* the generator is seeded and not terminated
    activation,    \* who kept SQLCIPHER_MUTEX_PROVIDER_ACTIVATE
    codec,         \* the threads whose connection has a codec context
    shutdowns,     \* calls of sqlite3_shutdown so far
    leaks          \* contexts lost so far

resources == <<mutexes, heap, heapSz, provider, mask>>
ltc == <<ltcInit, ltcRef, prng, activation>>
startVars == <<pc, isInit, cipherInit, initError, master, resources, ltc,
              codec, shutdowns, leaks>>

Places == {"idle", "open", "core", "extra", "mutexes", "heap", "provider",
           "seed", "mask", "finish", "opened", "keyed"}
Codes == {"OK", "ERROR", "NOMEM"}
Go(t, place) == pc' = [pc EXCEPT ![t] = place]

StartInit ==
    /\ pc = [t \in Threads |-> "idle"]
    /\ isInit = FALSE /\ cipherInit = FALSE /\ initError = "ERROR"
    /\ master = NoThread
    /\ mutexes = FALSE /\ heap = 0 /\ heapSz = HeapSteps
    /\ provider = 0 /\ mask = FALSE
    /\ ltcInit = FALSE /\ ltcRef = 0 /\ prng = FALSE /\ activation = NoThread
    /\ codec = {} /\ shutdowns = 0 /\ leaks = 0

---------------------------------------------------------------------------
(* sqlite3_initialize.                                                     *)

Open(t) ==
    /\ pc[t] = "idle"
    /\ Go(t, "open")
    /\ UNCHANGED <<isInit, cipherInit, initError, master, resources, ltc,
                   codec, shutdowns, leaks>>

\* The test without a lock at the top.
TestIsInit(t) ==
    /\ pc[t] = "open"
    /\ Go(t, IF isInit THEN "opened" ELSE "core")
    /\ UNCHANGED <<isInit, cipherInit, initError, master, resources, ltc,
                   codec, shutdowns, leaks>>

\* Under pInitMutex: the first thread sets isInit and will run the extra
\* initialization, the others find it set and return.
CoreInit(t) ==
    /\ pc[t] = "core"
    /\ isInit' = TRUE
    /\ Go(t, IF isInit THEN "opened" ELSE "extra")
    /\ UNCHANGED <<cipherInit, initError, master, resources, ltc, codec,
                   shutdowns, leaks>>

\* The page cache or the VFS cannot be set up: the open fails.
CoreInitFails(t) ==
    /\ pc[t] = "core" /\ ~isInit
    /\ Go(t, "idle")
    /\ UNCHANGED <<isInit, cipherInit, initError, master, resources, ltc,
                   codec, shutdowns, leaks>>

---------------------------------------------------------------------------
(* sqlcipher_extra_init.                                                   *)

EnterExtra(t) ==
    /\ pc[t] = "extra" /\ master = NoThread
    /\ IF cipherInit
       THEN Go(t, "opened") /\ UNCHANGED master
       ELSE Go(t, "mutexes") /\ master' = t
    /\ UNCHANGED <<isInit, cipherInit, initError, resources, ltc, codec,
                   shutdowns, leaks>>

AllocMutexes(t) ==
    /\ pc[t] = "mutexes"
    /\ mutexes' = TRUE
    /\ Go(t, "heap")
    /\ UNCHANGED <<isInit, cipherInit, initError, master, heap, heapSz,
                   provider, mask, ltc, codec, shutdowns, leaks>>

AllocHeap(t) ==
    /\ pc[t] = "heap" /\ heapSz > 0
    /\ heap' = shutdowns + 1
    /\ Go(t, "provider")
    /\ UNCHANGED <<isInit, cipherInit, initError, master, mutexes, heapSz,
                   provider, mask, ltc, codec, shutdowns, leaks>>

\* The allocation failed: try again with a step less.
ShrinkHeap(t) ==
    /\ pc[t] = "heap" /\ heapSz > 0
    /\ heapSz' = heapSz - 1
    /\ UNCHANGED <<pc, isInit, cipherInit, initError, master, mutexes, heap,
                   provider, mask, ltc, codec, shutdowns, leaks>>

RegisterProvider(t) ==
    /\ pc[t] = "provider"
    /\ provider' = IF provider = 0 THEN heap ELSE provider
    /\ Go(t, "seed")
    /\ UNCHANGED <<isInit, cipherInit, initError, master, mutexes, heap,
                   heapSz, mask, ltc, codec, shutdowns, leaks>>

\* sqlcipher_ltc_activate enters SQLCIPHER_MUTEX_PROVIDER_ACTIVATE, which is
\* not recursive, and leaves it at its end.  In between it waits for nobody
\* but at the leaf SQLCIPHER_MUTEX_PROVIDER_RAND, so a call is one step;
\* fortuna_ready, whose result nobody reads, succeeds after an add that did.
ActivateOk ==
    /\ ltcInit' = TRUE /\ ltcRef' = ltcRef + 1 /\ prng' = TRUE
    /\ UNCHANGED activation

\* Its early returns keep the mutex.  A registration or fortuna_start that
\* fails has counted nothing; sqlcipher_ltc_add_random fails after the count
\* is raised, and then the generator may or may not be ready.
ActivateFails(t) ==
    /\ activation' = t
    /\ \/ ~ltcInit /\ UNCHANGED <<ltcInit, ltcRef, prng>>
       \/ ltcInit' = TRUE /\ ltcRef' = ltcRef + 1 /\ prng' \in BOOLEAN

\* sqlcipher_ltc_ctx_init drops the result and returns SQLITE_OK: the caller
\* goes on as if all were well, and its own branch for an error is dead code.
Activate(t) == activation = NoThread /\ (ActivateOk \/ ActivateFails(t))

\* sqlcipher_ltc_deactivate.
MutantTerminateEarly ==
    /\ activation = NoThread
    /\ ltcRef' = ltcRef - 1
    /\ prng' = (prng /\ ltcRef > 2)
    /\ UNCHANGED <<ltcInit, activation>>
Deactivate ==
    /\ activation = NoThread
    /\ ltcRef' = ltcRef - 1
    /\ prng' = (prng /\ ltcRef # 1)
    /\ UNCHANGED <<ltcInit, activation>>

\* ctx_init and the seed of xoshiro; sqlcipher_ltc_random cannot fail.
Seed(t) ==
    /\ pc[t] = "seed"
    /\ Activate(t)
    /\ Go(t, "mask")
    /\ UNCHANGED <<isInit, cipherInit, initError, master, resources, codec,
                   shutdowns, leaks>>

AllocMask(t) ==
    /\ pc[t] = "mask"
    /\ mask' = TRUE
    /\ Go(t, "finish")
    /\ UNCHANGED <<isInit, cipherInit, initError, master, mutexes, heap,
                   heapSz, provider, ltc, codec, shutdowns, leaks>>

MutantKeepsMaster == UNCHANGED master
LeaveMaster == master' = NoThread

\* ctx_free, the flags, and out of the mutex.
Finish(t) ==
    /\ pc[t] = "finish"
    /\ Deactivate
    /\ cipherInit' = TRUE
    /\ LeaveMaster
    /\ Go(t, "opened")
    /\ UNCHANGED <<isInit, initError, resources, codec, shutdowns, leaks>>

\* The label error: the memory and the mutexes are released, one that is
\* held included, default_provider keeps its value, and ctx_free is skipped
\* because provider_ctx is still NULL.
Fail(t, rc) ==
    /\ mutexes' = FALSE /\ heap' = 0 /\ mask' = FALSE
    /\ activation' = NoThread
    /\ initError' = rc
    /\ LeaveMaster
    /\ Go(t, IF rc = "OK" THEN "opened" ELSE "idle")
    /\ UNCHANGED <<isInit, cipherInit, heapSz, provider, ltcInit, ltcRef,
                   prng, codec, shutdowns, leaks>>

MutexFails(t) == pc[t] = "mutexes" /\ Fail(t, "NOMEM")
HeapFails(t) == pc[t] = "heap" /\ heapSz = 0 /\ Fail(t, "NOMEM")
\* rc still has the SQLITE_OK of the call before.
MaskFails(t) == pc[t] = "mask" /\ Fail(t, "OK")

---------------------------------------------------------------------------
(* PRAGMA key (sqlcipherCodecAttach) and the close of the connection.      *)

MutantNoCheck == TRUE
MayAttach == cipherInit

Attach(t) ==
    /\ pc[t] = "opened" /\ MayAttach
    /\ Activate(t)
    /\ codec' = codec \cup {t}
    /\ Go(t, "keyed")
    /\ UNCHANGED <<isInit, cipherInit, initError, master, resources,
                   shutdowns, leaks>>

\* sqlcipher_codec_ctx_init runs out of memory before ctx_init: Open closes
\* the connection.
AttachNoContext(t) ==
    /\ pc[t] = "opened" /\ MayAttach
    /\ Go(t, "idle")
    /\ UNCHANGED <<isInit, cipherInit, initError, master, resources, ltc,
                   codec, shutdowns, leaks>>

\* The same after ctx_init: nobody frees the context.
AttachNoMem(t) ==
    /\ pc[t] = "opened" /\ MayAttach /\ leaks < MaxLeaks
    /\ Activate(t)
    /\ leaks' = leaks + 1
    /\ Go(t, "idle")
    /\ UNCHANGED <<isInit, cipherInit, initError, master, resources, codec,
                   shutdowns>>

\* SQLCipher is not initialized: PRAGMA key has the result of the failed
\* initialization, and Open closes the connection on an error.
AttachRefused(t) ==
    /\ pc[t] = "opened" /\ ~MayAttach
    /\ Go(t, IF initError = "OK" THEN "keyed" ELSE "idle")
    /\ UNCHANGED <<isInit, cipherInit, initError, master, resources, ltc,
                   codec, shutdowns, leaks>>

\* sqlite3FreeCodecArg, if the connection has a codec.
CloseConn(t) ==
    /\ pc[t] = "keyed"
    /\ IF t \in codec THEN Deactivate ELSE UNCHANGED ltc
    /\ codec' = codec \ {t}
    /\ Go(t, "idle")
    /\ UNCHANGED <<isInit, cipherInit, initError, master, resources,
                   shutdowns, leaks>>

\* sqlite3_shutdown, which must not be called while SQLite is in use, and
\* sqlcipher_extra_shutdown, which only cleans up after a complete start.
Shutdown ==
    /\ isInit /\ \A t \in Threads : pc[t] = "idle"
    /\ shutdowns < MaxShutdowns
    /\ shutdowns' = shutdowns + 1
    /\ isInit' = FALSE /\ cipherInit' = FALSE /\ initError' = "ERROR"
    /\ IF cipherInit
       THEN /\ mutexes' = FALSE /\ heap' = 0 /\ provider' = 0 /\ mask' = FALSE
            /\ activation' = NoThread
       ELSE UNCHANGED <<mutexes, heap, provider, mask, activation>>
    /\ UNCHANGED <<pc, master, heapSz, ltcInit, ltcRef, prng, codec, leaks>>

Advance(t) ==
    \/ TestIsInit(t) \/ CoreInit(t) \/ EnterExtra(t) \/ AllocMutexes(t)
    \/ AllocHeap(t) \/ ShrinkHeap(t) \/ RegisterProvider(t) \/ Seed(t)
    \/ AllocMask(t) \/ Finish(t) \/ MutexFails(t) \/ HeapFails(t)
    \/ MaskFails(t) \/ CoreInitFails(t) \/ Attach(t) \/ AttachNoContext(t)
    \/ AttachNoMem(t) \/ AttachRefused(t)

StartNext == Shutdown \/ \E t \in Threads : Open(t) \/ Advance(t) \/ CloseConn(t)

\* A thread inside sqlite3_open_v2 and the PRAGMA goes on running.
StartSpec == /\ StartInit /\ [][StartNext]_startVars
             /\ \A t \in Threads : WF_startVars(Advance(t))

---------------------------------------------------------------------------
(* Properties that hold.                                                   *)

StartTypeOK ==
    /\ pc \in [Threads -> Places]
    /\ isInit \in BOOLEAN /\ cipherInit \in BOOLEAN /\ initError \in Codes
    /\ master \in Threads \cup {NoThread}
    /\ mutexes \in BOOLEAN /\ mask \in BOOLEAN /\ prng \in BOOLEAN
    /\ heap \in Nat /\ heapSz \in 0..HeapSteps /\ provider \in Nat
    /\ ltcInit \in BOOLEAN /\ ltcRef \in Nat
    /\ activation \in Threads \cup {NoThread}
    /\ codec \subseteq Threads /\ shutdowns \in 0..MaxShutdowns
    /\ leaks \in 0..MaxLeaks

\* A codec context exists only on top of a complete initialization: mutexes,
\* heap and mask are allocated, whatever thread did it, whatever failed
\* before (sqlcipher_init is set last and cleared first).
CodecHasResources ==
    codec # {} => cipherInit /\ mutexes /\ heap # 0 /\ heapSz # 0 /\ mask

\* The reference count covers the users, so sqlcipher_ltc_deactivate never
\* terminates the generator under a connection that uses it.  The generator
\* can be missing only because an activation failed, and then the mutex that
\* it kept stops every activation and every close that would follow.
PrngServesUsers ==
    /\ ltcRef >= Cardinality(codec)
    /\ codec # {} => prng \/ activation # NoThread

\* Every sqlite3_open_v2 returns and its key is accepted or refused: no
\* other mutex of the initialization is left held and no thread waits for a
\* flag that nobody sets, also after a failed start and a shutdown.  What
\* can stop it for good is an activation that failed and kept its mutex.
OpenReturns ==
    \/ <>[](activation # NoThread)
    \/ \A t \in Threads : pc[t] = "open" ~> pc[t] \in {"idle", "keyed"}

---------------------------------------------------------------------------
(* Statements of the code that do not hold.                                *)

\* "opened successfully, then SQLITE_OK is returned. Otherwise an error code
\* is returned": an open ends, also when the provider cannot be activated.
EveryOpenReturns ==
    \A t \in Threads : pc[t] = "open" ~> pc[t] \in {"idle", "keyed"}

\* "the initialization must be complete.  So isInit must not be set until
\* the very end": after sqlite3_initialize returned OK and no start failed,
\* SQLCipher is ready.
InitIsComplete ==
    \A t \in Threads : pc[t] = "opened" /\ initError # "OK" => cipherInit

\* "post cleanup return the error code back up": a key that was accepted
\* has a codec.
KeyHasCodec == \A t \in Threads : pc[t] = "keyed" => t \in codec

\* "tear down everything that was setup": if the start failed and nobody is
\* in it, nothing of it is left.
FailedStartLeavesNothing ==
    ~cipherInit /\ (\A t \in Threads : pc[t] \in {"idle", "keyed"})
    => ~mutexes /\ heap = 0 /\ provider = 0 /\ ~mask
=============================================================================
