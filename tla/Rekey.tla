------------------------------- MODULE Rekey -------------------------------
(***************************************************************************)
(* One encrypted database file, opened by several processes (one           *)
(* connection each), in rollback-journal mode: the page codec              *)
(* (sqlite3Codec) with its two cipher contexts, sqlite3_key_v2,            *)
(* sqlite3_rekey_v2, and the part of the pager that moves encrypted pages  *)
(* between cache, journal and file.  Processes may die at any step.        *)
(*                                                                         *)
(* Page contents are versions: the number of the write transaction that    *)
(* wrote them.  An encrypted page is the key, the version and, on page 1,  *)
(* the salt in the clear.  Decryption with another key fails (the HMAC).   *)
(***************************************************************************)
EXTENDS Naturals, FiniteSets, Functions

CONSTANTS
    Conns,      \* processes, each with one connection to the file
    Secrets,    \* the passphrases and raw keys of the applications
    NPages,     \* pages of the database
    MaxTx,      \* bound: write transactions of a behaviour
    Salts, NoSalt,
    OwnSalt,    \* [Secrets -> Salts \cup {NoSalt}]: the salt inside a keyspec
    FirstSecret, FirstSalt,    \* of the database file, made before the start
    NoKey

ASSUME RekeyAssumption ==
    /\ NPages \in Nat \ {0}
    /\ MaxTx \in Nat
    /\ NoSalt \notin Salts
    /\ OwnSalt \in [Secrets -> Salts \cup {NoSalt}]
    /\ FirstSecret \in Secrets /\ FirstSalt \in Salts
    /\ OwnSalt[FirstSecret] = NoSalt

Pages == 1..NPages
Keys == Secrets \X Salts
NoPage == MaxTx + 1                   \* the page is not in the cache
Images == [key : Keys, salt : Salts \cup {NoSalt}, ver : 0..MaxTx]

ASSUME NoKeyAssumption == NoKey \notin Keys \cup Images

VARIABLES
    file,      \* [Pages -> Images]: the database file
    journal,   \* [on, recs, synced]: the rollback journal next to it
    lock,      \* the lock of each connection on the file
    op,        \* what each connection is doing
    ctx,       \* codec_ctx of each connection
    cache,     \* decrypted pages in the cache of each connection
    dirty,     \* the pages of the cache that differ from the file
    vers,      \* Pager.dbFileVers: bytes of page 1 when it was last read
    nxt,       \* the loop of sqlite3_rekey_v2: the next page to rewrite
    leak,      \* a page reference was never released
    tx,        \* write transactions begun so far
    committed, \* history: secret, key and page versions last committed
    wrote,     \* history: pages the open write transaction has changed
    anomaly    \* history: what went wrong with the keys

vars == <<file, journal, lock, op, ctx, cache, dirty, vers, nxt, leak, tx,
          committed, wrote, anomaly>>
held == <<lock, leak, nxt>>
ghosts == <<committed, wrote, anomaly>>

---------------------------------------------------------------------------
(* The codec context.                                                      *)

\* sqlcipher_cipher_ctx_key_derive: the key a secret gives with a salt.
KeyOf(s, salt) == <<s, IF OwnSalt[s] = NoSalt THEN salt ELSE OwnSalt[s]>>

\* sqlcipher_codec_ctx_init: both sub-contexts have the key material, no
\* key is derived and the salt is not known yet.
NewCtx(s) == [rPass |-> s, wPass |-> s, rKey |-> NoKey, wKey |-> NoKey,
              salt |-> NoSalt, used |-> FALSE, error |-> FALSE]

\* sqlcipher_codec_key_derive, at the start of every call of the codec: the
\* salt comes from the header unless known, and the keyspec of either
\* sub-context replaces the salt they share.
Derived(x) ==
    LET header == IF x.salt = NoSalt THEN file[1].salt ELSE x.salt
        rKey == IF x.rKey = NoKey THEN KeyOf(x.rPass, header) ELSE x.rKey
        shared == IF x.rKey = NoKey THEN rKey[2] ELSE header
        wKey == IF x.wKey = NoKey THEN KeyOf(x.wPass, shared) ELSE x.wKey
    IN  IF x.error THEN x
        ELSE [x EXCEPT !.rKey = rKey, !.wKey = wKey,
                       !.salt = IF x.wKey = NoKey THEN wKey[2] ELSE shared]

\* sqlite3Codec in mode 3 succeeds on an image, and what it leaves behind.
Decodes(x, image) == ~x.error /\ Derived(x).rKey = image.key
AfterDecode(x, image) ==
    IF Decodes(x, image) THEN [Derived(x) EXCEPT !.used = TRUE]
    ELSE [Derived(x) EXCEPT !.error = TRUE]

\* sqlite3Codec in mode 6 (database pages, write context) and mode 7
\* (journal pages, read context) of a context whose keys are derived.
Header(x, p) == IF p = 1 THEN x.salt ELSE NoSalt
WriteImage(x, p, v) == [key |-> x.wKey, salt |-> Header(x, p), ver |-> v]
MutantWriteContext(x, p, v) == WriteImage(x, p, v)
JournalImage(x, p, v) == [key |-> x.rKey, salt |-> Header(x, p), ver |-> v]

\* sqlcipher_codec_key_copy(ctx, CIPHER_WRITE_CTX).
KeyCopied(x) == [x EXCEPT !.rPass = x.wPass, !.rKey = x.wKey]

---------------------------------------------------------------------------
(* Locks, journal and cache.                                               *)

NoJournal == [on |-> FALSE, recs |-> <<>>, synced |-> {}]

\* pager_open_journal before the first page of a transaction (a journal that
\* is still there belongs to a dead writer that never changed the file: it is
\* overwritten), then pagerAddPageToRollbackJournal.
Opened(c) ==
    IF dirty[c] = {} /\ journal.synced = {} THEN NoJournal ELSE journal
Journaled(c, x, p, v) ==
    LET recs == Opened(c).recs
    IN  IF p \in DOMAIN recs THEN journal
        ELSE [on |-> TRUE, synced |-> journal.synced,
              recs |-> [q \in DOMAIN recs \cup {p} |->
                            IF q = p THEN JournalImage(x, p, v) ELSE recs[q]]]

\* syncJournal: the record count is written into the header.
MutantNoSync(j) == j
Synced(j) == [j EXCEPT !.synced = DOMAIN j.recs]

\* pager_playback: the images whose records are synced go back to the file.
\* (The other pages have not been written to the file yet.)
PlayedBack == [p \in Pages |-> IF p \in journal.synced THEN journal.recs[p]
                               ELSE file[p]]

Others(c) == Conns \ {c}
SharedFree(c) == \A d \in Others(c) : lock[d] # "EXCLUSIVE"
ReservedFree(c) == \A d \in Others(c) : lock[d] \in {"NO", "SHARED"}
ExclusiveFree(c) == \A d \in Others(c) : lock[d] = "NO"

\* hasHotJournal: a journal that no RESERVED lock protects.
HotJournal(c) == journal.on /\ ReservedFree(c)

EmptyCache == [p \in Pages |-> NoPage]

\* unlockBtreeIfUnused and pagerUnlockIfUnused: the file is unlocked when
\* the last page reference is gone; a leaked one keeps the SHARED lock.
Unlocked(c) == IF leak[c] THEN "SHARED" ELSE "NO"

\* PAGER_ERROR (pager_unlock): with no page referenced the cache is dropped
\* and the file unlocked, and a journal stays behind, hot.  With a leaked
\* reference the pager keeps its lock and its error.
Abandon(c) ==
    /\ op' = [op EXCEPT ![c] = IF leak'[c] THEN "dead" ELSE "idle"]
    /\ lock' = [lock EXCEPT ![c] = IF leak'[c] THEN @ ELSE "NO"]
    /\ cache' = [cache EXCEPT ![c] = EmptyCache]
    /\ dirty' = [dirty EXCEPT ![c] = {}]
    /\ UNCHANGED <<file, journal, vers, nxt, tx, ghosts>>

---------------------------------------------------------------------------
Init ==
    LET key == <<FirstSecret, FirstSalt>>
    IN  /\ file = [p \in Pages |-> [key |-> key, ver |-> 0,
                                    salt |-> IF p = 1 THEN FirstSalt ELSE NoSalt]]
        /\ committed = [secret |-> FirstSecret, key |-> key,
                        ver |-> [p \in Pages |-> 0]]
        /\ journal = NoJournal
        /\ lock = [c \in Conns |-> "NO"]
        /\ op = [c \in Conns |-> "closed"]
        /\ ctx = [c \in Conns |-> NewCtx(FirstSecret)]
        /\ cache = [c \in Conns |-> EmptyCache]
        /\ dirty = [c \in Conns |-> {}]
        /\ vers = [c \in Conns |-> NoKey]
        /\ nxt = [c \in Conns |-> 1]
        /\ leak = [c \in Conns |-> FALSE]
        /\ tx = 0 /\ wrote = {} /\ anomaly = {}

\* sqlite3_open and sqlite3_key_v2 (the DSN parameter _pragma_key).
Open(c) ==
    /\ op[c] = "closed"
    /\ op' = [op EXCEPT ![c] = "idle"]
    /\ \E s \in Secrets : ctx' = [ctx EXCEPT ![c] = NewCtx(s)]
    /\ UNCHANGED <<file, journal, held, cache, dirty, vers, tx, ghosts>>

\* sqlcipherCodecAttach on a connection with a codec: a key that has been
\* used stays, one that has not is replaced.
Key(c) ==
    /\ op[c] = "idle" /\ ~ctx[c].used
    /\ \E s \in Secrets : ctx' = [ctx EXCEPT ![c] = NewCtx(s)]
    /\ UNCHANGED <<file, journal, held, op, cache, dirty, vers, tx, ghosts>>

---------------------------------------------------------------------------
(* sqlite3PagerSharedLock and the read of page 1 in lockBtree.             *)

WantsShared(c) == op[c] \in {"idle", "rekey0"}
WithShared(c) == IF op[c] = "idle" THEN "read" ELSE "rekey1"

\* A pager that a leaked reference keeps in PAGER_READER locks nothing and
\* checks nothing.
MutantNoVersionCheck(c) == cache[c]
Current(c) ==
    IF leak[c] \/ vers[c] = file[1] THEN cache[c] ELSE EmptyCache

SharedLock(c) ==
    /\ WantsShared(c)
    /\ SharedFree(c)
    /\ leak[c] \/ ~HotJournal(c)
    /\ IF Current(c)[1] # NoPage
       THEN /\ op' = [op EXCEPT ![c] = WithShared(c)]
            /\ lock' = [lock EXCEPT ![c] = "SHARED"]
            /\ UNCHANGED <<file, journal, ctx, cache, dirty, vers, nxt, leak,
                           tx, ghosts>>
       ELSE /\ ctx' = [ctx EXCEPT ![c] = AfterDecode(@, file[1])]
            /\ UNCHANGED leak
            /\ \/ /\ Decodes(ctx[c], file[1])
                  /\ op' = [op EXCEPT ![c] = WithShared(c)]
                  /\ lock' = [lock EXCEPT ![c] = "SHARED"]
                  /\ cache' = [cache EXCEPT
                                   ![c] = [Current(c) EXCEPT ![1] = file[1].ver]]
                  /\ vers' = [vers EXCEPT ![c] = file[1]]
                  /\ UNCHANGED <<file, journal, dirty, nxt, tx, ghosts>>
               \/ ~Decodes(ctx[c], file[1]) /\ Abandon(c)

\* A hot journal is rolled back under an EXCLUSIVE lock, the cache dropped.
RecoverHot(c) ==
    /\ WantsShared(c) /\ ~leak[c]
    /\ HotJournal(c) /\ ExclusiveFree(c)
    /\ file' = PlayedBack
    /\ journal' = NoJournal
    /\ cache' = [cache EXCEPT ![c] = EmptyCache]
    /\ UNCHANGED <<held, op, ctx, dirty, vers, tx, ghosts>>

\* The process dies when part of the journal has been played back.
RecoverDies(c) ==
    /\ WantsShared(c) /\ ~leak[c]
    /\ HotJournal(c) /\ ExclusiveFree(c)
    /\ \E S \in SUBSET journal.synced :
         file' = [p \in Pages |-> IF p \in S THEN journal.recs[p] ELSE file[p]]
    /\ op' = [op EXCEPT ![c] = "closed"]
    /\ cache' = [cache EXCEPT ![c] = EmptyCache]
    /\ vers' = [vers EXCEPT ![c] = NoKey]
    /\ ctx' = [ctx EXCEPT ![c] = NewCtx(FirstSecret)]
    /\ UNCHANGED <<journal, held, dirty, tx, ghosts>>

---------------------------------------------------------------------------
(* Transactions of ordinary statements.                                    *)

\* getPageNormal and readDbPage.
ReadPage(c, p) ==
    /\ op[c] \in {"read", "write"}
    /\ cache[c][p] = NoPage
    /\ ctx' = [ctx EXCEPT ![c] = AfterDecode(@, file[p])]
    /\ UNCHANGED leak
    /\ \/ /\ Decodes(ctx[c], file[p])
          /\ cache' = [cache EXCEPT ![c][p] = file[p].ver]
          /\ UNCHANGED <<file, journal, lock, op, dirty, vers, nxt, tx, ghosts>>
       \/ ~Decodes(ctx[c], file[p]) /\ Abandon(c)

EndRead(c) ==
    /\ op[c] = "read"
    /\ op' = [op EXCEPT ![c] = "idle"]
    /\ lock' = [lock EXCEPT ![c] = Unlocked(c)]
    /\ UNCHANGED <<file, journal, ctx, cache, dirty, vers, nxt, leak, tx, ghosts>>

\* sqlite3PagerBegin: RESERVED, for a statement or for sqlite3_rekey_v2.
PagerBegin(c, from, to) ==
    /\ op[c] = from
    /\ tx < MaxTx
    /\ ReservedFree(c)
    /\ op' = [op EXCEPT ![c] = to]
    /\ lock' = [lock EXCEPT ![c] = "RESERVED"]
    /\ nxt' = [nxt EXCEPT ![c] = 1]
    /\ tx' = tx + 1
    /\ wrote' = {}
    /\ UNCHANGED <<file, journal, ctx, cache, dirty, vers, leak, committed>>

\* A statement that writes while the contexts differ mixes two keys.
BeginWrite(c) ==
    /\ PagerBegin(c, "read", "write")
    /\ anomaly' = IF Derived(ctx[c]).rKey = Derived(ctx[c]).wKey THEN anomaly
                  ELSE anomaly \cup {"mixed"}

\* pager_write: the old image goes to the journal, then the page changes.
PageWrite(c, p) ==
    /\ op[c] = "write"
    /\ cache[c][p] # NoPage
    /\ ~ctx[c].error
    /\ ctx' = [ctx EXCEPT ![c] = [Derived(@) EXCEPT !.used = TRUE]]
    /\ journal' = Journaled(c, ctx'[c], p, cache[c][p])
    /\ cache' = [cache EXCEPT ![c][p] = tx]
    /\ dirty' = [dirty EXCEPT ![c] = @ \cup {p}]
    /\ wrote' = wrote \cup {p}
    /\ UNCHANGED <<file, held, op, vers, tx, committed, anomaly>>

\* pagerStress: the cache is full, a dirty page goes to the file before the
\* commit.  Page 1 is always in use.
Spill(c, p) ==
    /\ op[c] \in {"write", "rekey"}
    /\ p \in dirty[c] \ {1}
    /\ ExclusiveFree(c)
    /\ lock' = [lock EXCEPT ![c] = "EXCLUSIVE"]
    /\ journal' = Synced(journal)
    /\ file' = [file EXCEPT ![p] = WriteImage(ctx[c], p, cache[c][p])]
    /\ cache' = [cache EXCEPT ![c][p] = NoPage]
    /\ dirty' = [dirty EXCEPT ![c] = @ \ {p}]
    /\ UNCHANGED <<op, ctx, vers, nxt, leak, tx, ghosts>>

---------------------------------------------------------------------------
(* The end of a write transaction.                                         *)

\* The first half of sqlite3PagerCommitPhaseOne: the change counter of page
\* 1, then syncJournal, which needs the EXCLUSIVE lock.
CommitPhaseOne(c) ==
    /\ ~ctx[c].error
    /\ ctx' = [ctx EXCEPT ![c] = [Derived(@) EXCEPT !.used = TRUE]]
    /\ journal' = LET j == Journaled(c, ctx'[c], 1, cache[c][1])
                  IN  IF ExclusiveFree(c) THEN Synced(j) ELSE j
    /\ cache' = [cache EXCEPT ![c][1] = tx]
    /\ dirty' = [dirty EXCEPT ![c] = @ \cup {1}]
    /\ wrote' = wrote \cup {1}
    /\ lock' = [lock EXCEPT ![c] = IF ExclusiveFree(c) THEN "EXCLUSIVE" ELSE @]
    /\ UNCHANGED <<file, vers, nxt, leak, tx, committed>>

\* COMMIT.  If a reader is in the way it fails with SQLITE_BUSY and the
\* transaction stays open.
Commit(c) ==
    /\ op[c] = "write"
    /\ wrote # {} \/ journal.synced # {} \/ dirty[c] # {}
    /\ CommitPhaseOne(c)
    /\ op' = [op EXCEPT ![c] = IF ExclusiveFree(c) THEN "commit" ELSE @]
    /\ UNCHANGED anomaly

\* pager_write_pagelist.
WriteOut(c, p) ==
    /\ op[c] \in {"commit", "rekeycommit"}
    /\ p \in dirty[c]
    /\ file' = [file EXCEPT ![p] = WriteImage(ctx[c], p, cache[c][p])]
    /\ vers' = IF p = 1 THEN [vers EXCEPT ![c] = file'[1]] ELSE vers
    /\ dirty' = [dirty EXCEPT ![c] = @ \ {p}]
    /\ UNCHANGED <<journal, held, op, ctx, cache, tx, ghosts>>

\* sqlite3PagerCommitPhaseTwo: deleting the journal is the commit.
Finish(c) ==
    /\ op[c] \in {"commit", "rekeycommit"}
    /\ dirty[c] = {}
    /\ journal' = NoJournal
    /\ committed' = [secret |-> ctx[c].wPass, key |-> ctx[c].wKey,
                     ver |-> [p \in Pages |-> IF p \in wrote THEN tx
                                              ELSE committed.ver[p]]]
    /\ op' = [op EXCEPT ![c] = "idle"]
    /\ lock' = [lock EXCEPT ![c] = Unlocked(c)]
    /\ ctx' = [ctx EXCEPT ![c] = IF op[c] = "commit" THEN @ ELSE KeyCopied(@)]
    /\ UNCHANGED <<file, cache, dirty, vers, nxt, leak, tx, wrote, anomaly>>

\* sqlite3PagerRollback and pager_playback: the file gets the synced images
\* as they are, the cache the decrypted ones.  A page that the read context
\* cannot decrypt puts codec and pager in error; the file is restored all
\* the same.
PagerRollback(c) ==
    LET back == Opened(c).recs
        seen == {p \in DOMAIN back : cache[c][p] # NoPage}
        bad == \E p \in seen : back[p].key # ctx[c].rKey
    IN  /\ file' = PlayedBack
        /\ journal' = NoJournal
        /\ dirty' = [dirty EXCEPT ![c] = {}]
        /\ ctx' = [ctx EXCEPT ![c].error = @ \/ bad]
        /\ cache' = [cache EXCEPT ![c] =
                        IF bad THEN EmptyCache
                        ELSE [p \in Pages |-> IF p \in seen THEN back[p].ver
                                              ELSE cache[c][p]]]
        /\ vers' = [vers EXCEPT ![c] = IF 1 \in seen THEN back[1] ELSE @]
        /\ UNCHANGED <<tx, ghosts>>

\* ROLLBACK, and the rollback of a statement that failed.
Rollback(c) ==
    /\ op[c] \in {"write", "commit"}
    /\ PagerRollback(c)
    /\ op' = [op EXCEPT ![c] = "idle"]
    /\ lock' = [lock EXCEPT ![c] = Unlocked(c)]
    /\ UNCHANGED <<nxt, leak>>

---------------------------------------------------------------------------
(* sqlite3_rekey_v2.                                                       *)

\* codec_set_pass_key on the write context, then sqlite3BtreeBeginTrans.
StartRekey(c) ==
    /\ op[c] = "idle"
    /\ op' = [op EXCEPT ![c] = "rekey0"]
    /\ \E s \in Secrets : ctx' = [ctx EXCEPT ![c].wPass = s, ![c].wKey = NoKey]
    /\ UNCHANGED <<file, journal, held, cache, dirty, vers, tx, ghosts>>

BeginRekey(c) == PagerBegin(c, "rekey1", "rekey") /\ UNCHANGED anomaly

\* The transaction does not begin: SQLITE_BUSY (or a hot journal that cannot
\* be locked).  Nothing is rolled back, the write context stays set.
RekeyBusy(c) ==
    /\ \/ op[c] = "rekey0" /\ ~(SharedFree(c) /\ (HotJournal(c) => ExclusiveFree(c)))
       \/ op[c] = "rekey1" /\ ~ReservedFree(c)
    /\ op' = [op EXCEPT ![c] = "idle"]
    /\ lock' = [lock EXCEPT ![c] = Unlocked(c)]
    /\ UNCHANGED <<file, journal, ctx, cache, dirty, vers, nxt, leak, tx, ghosts>>

InLoop(c) == op[c] = "rekey" /\ nxt[c] \in Pages

\* sqlite3PagerGet and sqlite3PagerWrite of the next page.
RekeyPage(c) ==
    LET p == nxt[c]
        x == [Derived(ctx[c]) EXCEPT !.used = TRUE]
        v == IF cache[c][p] = NoPage THEN file[p].ver ELSE cache[c][p]
    IN  /\ InLoop(c)
        /\ cache[c][p] # NoPage \/ Decodes(ctx[c], file[p])
        /\ ctx' = [ctx EXCEPT ![c] = x]
        /\ journal' = Journaled(c, x, p, v)
        /\ cache' = [cache EXCEPT ![c][p] = v]
        /\ dirty' = [dirty EXCEPT ![c] = @ \cup {p}]
        /\ nxt' = [nxt EXCEPT ![c] = p + 1]
        /\ UNCHANGED <<file, lock, op, vers, leak, tx, ghosts>>

\* The page cannot be decrypted: sqlite3PagerGet returns it all the same,
\* sqlite3PagerWrite fails, its reference is not released, and in PAGER_ERROR
\* nothing is rolled back.
RekeyBadPage(c) ==
    /\ InLoop(c)
    /\ cache[c][nxt[c]] = NoPage /\ ~Decodes(ctx[c], file[nxt[c]])
    /\ ctx' = [ctx EXCEPT ![c] = AfterDecode(@, file[nxt[c]])]
    /\ leak' = [leak EXCEPT ![c] = TRUE]
    /\ Abandon(c)

\* The journal record cannot be written: sqlite3PagerWrite fails, its page
\* reference is not released, the transaction is rolled back.
RekeyWriteFails(c) ==
    /\ InLoop(c)
    /\ cache[c][nxt[c]] # NoPage \/ Decodes(ctx[c], file[nxt[c]])
    /\ PagerRollback(c)
    /\ leak' = [leak EXCEPT ![c] = TRUE]
    /\ op' = [op EXCEPT ![c] = "idle"]
    /\ lock' = [lock EXCEPT ![c] = "SHARED"]
    /\ UNCHANGED nxt

\* All pages are rewritten: sqlite3BtreeCommit.  If its first half fails the
\* key is copied nevertheless, and the transaction stays open: the next
\* statement of the connection will try to commit it.
RekeyCommit(c) ==
    /\ op[c] = "rekey" /\ nxt[c] \notin Pages
    /\ ~ctx[c].error
    /\ LET x == [Derived(ctx[c]) EXCEPT !.used = TRUE]
           j == Journaled(c, x, 1, cache[c][1])
       IN  /\ ctx' = [ctx EXCEPT ![c] = IF ExclusiveFree(c) THEN x ELSE KeyCopied(x)]
           /\ journal' = IF ExclusiveFree(c) THEN Synced(j) ELSE j
    /\ cache' = [cache EXCEPT ![c][1] = tx]
    /\ dirty' = [dirty EXCEPT ![c] = @ \cup {1}]
    /\ wrote' = {1}
    /\ lock' = [lock EXCEPT ![c] = IF ExclusiveFree(c) THEN "EXCLUSIVE" ELSE @]
    /\ op' = [op EXCEPT ![c] = IF ExclusiveFree(c) THEN "rekeycommit" ELSE "write"]
    /\ anomaly' = IF ExclusiveFree(c) THEN anomaly ELSE anomaly \cup {"copied"}
    /\ UNCHANGED <<file, vers, nxt, leak, tx, committed>>

\* An I/O error while the pages are written, with the same consequence.
RekeyCommitFails(c) ==
    /\ op[c] = "rekeycommit"
    /\ op' = [op EXCEPT ![c] = "write"]
    /\ ctx' = [ctx EXCEPT ![c] = KeyCopied(@)]
    /\ anomaly' = anomaly \cup {"copied"}
    /\ UNCHANGED <<file, journal, held, cache, dirty, vers, tx, committed, wrote>>

---------------------------------------------------------------------------
\* sqlite3PagerClose, and the death of the process at any moment.
Gone(c) ==
    /\ op' = [op EXCEPT ![c] = "closed"]
    /\ lock' = [lock EXCEPT ![c] = "NO"]
    /\ ctx' = [ctx EXCEPT ![c] = NewCtx(FirstSecret)]
    /\ cache' = [cache EXCEPT ![c] = EmptyCache]
    /\ dirty' = [dirty EXCEPT ![c] = {}]
    /\ vers' = [vers EXCEPT ![c] = NoKey]
    /\ leak' = [leak EXCEPT ![c] = FALSE]
    /\ nxt' = [nxt EXCEPT ![c] = 1]
    /\ UNCHANGED <<file, journal, tx, ghosts>>

Close(c) == op[c] \in {"idle", "dead"} /\ Gone(c)
Crash(c) == op[c] \notin {"closed", "idle", "dead"} /\ Gone(c)

Next ==
    \E c \in Conns :
        \/ Open(c) \/ Key(c) \/ SharedLock(c) \/ RecoverHot(c) \/ RecoverDies(c)
        \/ EndRead(c) \/ BeginWrite(c) \/ Commit(c) \/ Finish(c) \/ Rollback(c)
        \/ StartRekey(c) \/ BeginRekey(c) \/ RekeyBusy(c) \/ RekeyPage(c)
        \/ RekeyBadPage(c) \/ RekeyWriteFails(c) \/ RekeyCommit(c)
        \/ RekeyCommitFails(c) \/ Close(c) \/ Crash(c)
        \/ \E p \in Pages : \/ ReadPage(c, p) \/ PageWrite(c, p)
                            \/ Spill(c, p) \/ WriteOut(c, p)

Spec == Init /\ [][Next]_vars

---------------------------------------------------------------------------
(* Properties.                                                             *)

Ops == {"closed", "idle", "read", "write", "commit", "rekey0", "rekey1",
        "rekey", "rekeycommit", "dead"}
Ctxs == [rPass : Secrets, wPass : Secrets, rKey : Keys \cup {NoKey},
         wKey : Keys \cup {NoKey}, salt : Salts \cup {NoSalt},
         used : BOOLEAN, error : BOOLEAN]

\* Types; the journal holds images of pages, and at most one connection has
\* pages that the file does not have yet.
TypeOK ==
    /\ file \in [Pages -> Images]
    /\ journal.on \in BOOLEAN
    /\ DOMAIN journal.recs \in SUBSET Pages /\ Range(journal.recs) \subseteq Images
    /\ journal.synced \subseteq DOMAIN journal.recs
    /\ lock \in [Conns -> {"NO", "SHARED", "RESERVED", "EXCLUSIVE"}]
    /\ op \in [Conns -> Ops]
    /\ ctx \in [Conns -> Ctxs]
    /\ cache \in [Conns -> [Pages -> 0..NoPage]]
    /\ dirty \in [Conns -> SUBSET Pages]
    /\ \A c, d \in Conns : dirty[c] # {} /\ dirty[d] # {} => c = d
    /\ vers \in [Conns -> Images \cup {NoKey}]
    /\ nxt \in [Conns -> 1..(NPages + 1)]
    /\ leak \in [Conns -> BOOLEAN]
    /\ tx \in 0..MaxTx
    /\ committed \in [secret : Secrets, key : Keys, ver : [Pages -> 0..MaxTx]]
    /\ wrote \subseteq Pages
    /\ anomaly \subseteq {"mixed", "copied"}

\* What the file would be if every process died now and the next one rolled
\* the journal back.
Recovered == PlayedBack

\* The recovered file is encrypted with one key, that of the last commit ...
OneKey == \A p \in Pages : Recovered[p].key = committed.key
\* ... which the secret of that commit and the salt in the header give ...
HeaderSaltOpens == KeyOf(committed.secret, Recovered[1].salt) = committed.key
\* ... and its pages are those of the last commit.
LastCommit == \A p \in Pages : Recovered[p].ver = committed.ver[p]

\* However far a rekey or another write transaction has got, a crash leaves
\* the database of the last commit, readable with its key (unless a statement
\* has written while the contexts of its connection differed, see OneKey).
CrashSafe == "mixed" \notin anomaly => OneKey /\ HeaderSaltOpens /\ LastCommit

\* A connection in a transaction never has an old page in its cache, though
\* other processes change the file, rekey it and roll it back in between:
\* dbFileVers, compared as ciphertext, detects every change.
CacheIsCurrent ==
    \A c \in Conns : \A p \in Pages :
        lock[c] # "NO" /\ cache[c][p] # NoPage /\ p \notin dirty[c]
            => cache[c][p] = file[p].ver

\* sqlite3.c:113806: "the journal must be written using the original key
\* material (to allow a transactional rollback)": what a rollback or a hot
\* journal restores can be read with the key of the last commit ...
JournalHasOldKey ==
    \A r \in Range(journal.recs) :
        journal.on /\ "mixed" \notin anomaly => r.key = committed.key

\* ... and with the salt that the restored header shows.  It fails once a new
\* secret brings its own salt: sqlite3Codec puts that salt on the old page 1.
JournalHasOldSalt == "mixed" \notin anomaly => HeaderSaltOpens

\* A decryption failure is permanent for the codec; it happens only to a
\* connection whose key is not that of the database.
OnlyWrongKeyFails ==
    [][\A c \in Conns :
          ctx'[c].error /\ ~ctx[c].error /\ anomaly = {}
              => ctx'[c].rKey # committed.key]_vars

\* sqlite3.c:114211: "if commit was successful commit and copy the rekey data
\* to current key, else rollback to release locks".
KeyCopiedIfCommitted ==
    [][\A c \in Conns :
          ctx[c].rKey # NoKey /\ ctx'[c].rKey \notin {NoKey, ctx[c].rKey}
              => committed'.key = ctx'[c].rKey]_vars

\* The same comment: a connection that is not in a transaction has no lock.
RollbackReleasesLocks == \A c \in Conns : op[c] = "idle" => lock[c] = "NO"
=============================================================================
