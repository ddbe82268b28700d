----------------------------- MODULE RekeyProofs -----------------------------
(***************************************************************************)
(* Proofs about Rekey, for any number of processes, secrets and pages: a   *)
(* connection in a transaction has no old page in its cache, the journal   *)
(* is written with the old key, and a crash at any moment of a rekey or of *)
(* another write transaction leaves the database of the last commit.       *)
(*                                                                         *)
(* None of the three is inductive.  They rest on who may write (the locks  *)
(* of LockInv), on what a synced journal record stands for (VersionInv),   *)
(* on the version of page 1 telling every commit from the others, and on   *)
(* how far the loop of sqlite3_rekey_v2 has got in the write transaction   *)
(* (WriterInv and KeysInv).  With them, a page fails to decrypt only with  *)
(* a key that is not that of the last commit.                              *)
(***************************************************************************)
EXTENDS Rekey, TLAPS

Locks == {"NO", "SHARED", "RESERVED", "EXCLUSIVE"}
Strong == {"RESERVED", "EXCLUSIVE"}
Writing == {"write", "commit", "rekey", "rekeycommit"}
Reading == {"read", "rekey1"}
Commits == {"commit", "rekeycommit"}

Recs == DOMAIN journal.recs

---------------------------------------------------------------------------
(* The invariant: types.                                                   *)

\* The header of the file, and what the journal has of it, shows a salt.
FileType == file \in [Pages -> Images] /\ file[1].salt \in Salts
JournalType ==
    /\ journal = [on |-> journal.on, recs |-> journal.recs, synced |-> journal.synced]
    /\ journal.on \in BOOLEAN
    /\ Recs \subseteq Pages /\ journal.synced \subseteq Recs
    /\ \A p \in Recs : journal.recs[p] \in Images
    /\ 1 \in Recs => journal.recs[1].salt \in Salts
    /\ ~journal.on => Recs = {}

\* A context that has a key knows the salt.
CtxOK(x) == x \in Ctxs /\ (x.rKey # NoKey \/ x.wKey # NoKey => x.salt \in Salts)

\* What belongs to one connection, and to all of them.
ConnType(c) ==
    /\ lock[c] \in Locks /\ op[c] \in Ops /\ CtxOK(ctx[c])
    /\ cache[c] \in [Pages -> 0..NoPage] /\ dirty[c] \subseteq Pages
    /\ vers[c] \in Images \cup {NoKey}
    /\ nxt[c] \in 1..(NPages + 1) /\ leak[c] \in BOOLEAN
GhostType ==
    /\ tx \in 0..MaxTx
    /\ committed \in [secret : Secrets, key : Keys, ver : [Pages -> 0..MaxTx]]
    /\ wrote \subseteq Pages
    /\ anomaly \subseteq {"mixed", "copied"}
Arrays ==
    /\ lock = [c \in Conns |-> lock[c]] /\ op = [c \in Conns |-> op[c]]
    /\ ctx = [c \in Conns |-> ctx[c]] /\ cache = [c \in Conns |-> cache[c]]
    /\ dirty = [c \in Conns |-> dirty[c]] /\ vers = [c \in Conns |-> vers[c]]
    /\ nxt = [c \in Conns |-> nxt[c]] /\ leak = [c \in Conns |-> leak[c]]

TypeInv == FileType /\ JournalType /\ GhostType /\ Arrays /\ \A c \in Conns : ConnType(c)

---------------------------------------------------------------------------
(* The invariant: locks.                                                   *)

LevelOK(c) ==
    /\ op[c] \in Commits => lock[c] = "EXCLUSIVE"
    /\ op[c] \in Writing => lock[c] \in Strong
    /\ op[c] \in Reading => lock[c] = "SHARED"
    /\ op[c] \in {"idle", "rekey0"} => lock[c] = Unlocked(c)
    /\ op[c] = "closed" => lock[c] = "NO" /\ ~leak[c]

\* The lock of each connection goes with what it does; a writer that has changed
\* the file, or may, is alone.
LockInv ==
    /\ \A c \in Conns : LevelOK(c)
    /\ \A c, d \in Conns : c # d /\ lock[c] = "EXCLUSIVE" => lock[d] = "NO"
    /\ \A c, d \in Conns : c # d /\ lock[c] \in Strong => lock[d] \notin Strong
    /\ \A c \in Conns : journal.synced # {} /\ lock[c] # "NO" => lock[c] = "EXCLUSIVE"

---------------------------------------------------------------------------
(* The invariant: versions.                                                *)

\* The journal has the pages of the last commit, and so has the file where the
\* journal has no synced record.  A write transaction has a number of its own.
VersionInv ==
    /\ \A p \in Recs : journal.recs[p].ver = committed.ver[p]
    /\ \A p \in Pages \ journal.synced : file[p].ver = committed.ver[p]
    /\ \A p \in Pages : committed.ver[p] <= tx
    /\ \A c \in Conns : op[c] \in Writing => \A p \in Pages : committed.ver[p] < tx

\* The version of page 1 that another connection saw is older than the
\* transaction that is being written.
SeenInv ==
    /\ \A c \in Conns : vers[c] # NoKey => vers[c].ver <= tx
    /\ \A c, d \in Conns :
         c # d /\ vers[c] # NoKey /\ op[d] \in Writing => vers[c].ver < tx

Loaded(c) == \E p \in Pages : cache[c][p] # NoPage
Fresh(c) == \A p \in Pages : cache[c][p] # NoPage => cache[c][p] = committed.ver[p]

\* Outside of a write transaction the cache is that of the last commit if the
\* connection has kept its lock, or if the version it saw is that of the file.
CacheOK(c) ==
    /\ Loaded(c) => vers[c] # NoKey /\ ctx[c].used /\ ~ctx[c].error /\ ctx[c].rKey # NoKey
    /\ op[c] \in Reading \cup Writing => cache[c][1] # NoPage
    /\ op[c] \notin Writing => dirty[c] = {}
    /\ op[c] \notin Writing /\ lock[c] # "NO" => Fresh(c)
    /\ op[c] \notin Writing /\ vers[c] # NoKey /\ vers[c].ver = committed.ver[1] => Fresh(c)
    /\ op[c] \in {"closed", "dead"} => ~Loaded(c)

\* The journal is of this transaction (Opened): a page of it is in the journal.
InUse(c) == dirty[c] # {} \/ journal.synced # {}

\* The version of page p that the open write transaction will commit.
Want(p) == IF p \in wrote THEN tx ELSE committed.ver[p]

\* What the writer has in its cache, and in the file, is what it will commit;
\* its dirty pages are in the journal, and the records are synced before the
\* file changes.  The loop of a rekey has journaled the pages behind it.
WriterOK(c) == op[c] \in Writing =>
    /\ \A p \in Pages : cache[c][p] # NoPage => cache[c][p] = Want(p)
    /\ \A p \in dirty[c] : cache[c][p] # NoPage
    /\ \A p \in Pages \ dirty[c] : file[p].ver = Want(p)
    /\ dirty[c] \subseteq Recs
    /\ dirty[c] # {} => ctx[c].wKey # NoKey
    /\ op[c] \in Commits => /\ dirty[c] \subseteq journal.synced /\ 1 \in journal.synced
                            /\ 1 \in wrote
                            /\ ctx[c].wKey # NoKey
                            /\ 1 \in dirty[c] \/ vers[c] = file[1]
    /\ op[c] = "rekey" => /\ wrote = {}
                          /\ \A p \in Pages : p < nxt[c] => p \in Recs /\ InUse(c)
    /\ op[c] = "rekeycommit" => Recs = Pages

CacheInv == \A c \in Conns : CacheOK(c)
WriterInv == \A c \in Conns : WriterOK(c)

---------------------------------------------------------------------------
(* The invariant: keys.                                                    *)

Unmixed == "mixed" \notin anomaly

\* The journal, and the file where it has no synced record, have the old key.
KeyInv ==
    /\ \A p \in Recs : journal.recs[p].key = committed.key
    /\ \A p \in Pages \ journal.synced : file[p].key = committed.key

\* The read context has the key of the page 1 in the cache, and during a
\* transaction that of the last commit.
ReaderKeyOK(c) ==
    /\ Loaded(c) /\ ~(op[c] \in Writing /\ InUse(c) /\ 1 \in Recs) => vers[c].key = ctx[c].rKey
    /\ Loaded(c) /\ lock[c] = "SHARED" => ctx[c].rKey = committed.key

\* The key the write context has, or will have once it is derived.
WriteKey(x) == IF x.wKey = NoKey THEN KeyOf(x.wPass, x.salt) ELSE x.wKey

\* A statement writes with one key, in both contexts: that of the last commit
\* unless it inherited the transaction of a rekey.  In the loop of a rekey the
\* pages behind it have the new key, those before it the old one.
WriterKeyOK(c) == op[c] \in Writing =>
    /\ op[c] \in {"write", "commit"} =>
          /\ WriteKey(ctx[c]) = ctx[c].rKey
          /\ ctx[c].rKey = committed.key \/ (Recs = Pages /\ InUse(c))
    /\ op[c] # "rekey" => \A p \in Pages \ dirty[c] : file[p].key = WriteKey(ctx[c])
    /\ op[c] = "rekey" =>
          /\ ctx[c].rKey = committed.key
          /\ \A p \in Pages : p < nxt[c] /\ p \notin dirty[c] => file[p].key = ctx[c].wKey
          /\ \A p \in Pages : p >= nxt[c] => p \notin dirty[c] /\ file[p].key = committed.key
          /\ nxt[c] > 1 => ctx[c].wKey # NoKey

KeysInv == Unmixed => /\ KeyInv
                      /\ \A c \in Conns : ReaderKeyOK(c)
                      /\ \A c \in Conns : WriterKeyOK(c)

---------------------------------------------------------------------------
(* The invariant: salts, if no secret brings its own.                      *)

NoOwnSalts == \A s \in Secrets : OwnSalt[s] = NoSalt

\* There is one salt, that of the database file.
CtxSaltOK(x) ==
    /\ x.salt \in {NoSalt, FirstSalt}
    /\ x.rKey \in {NoKey, <<x.rPass, FirstSalt>>}
    /\ x.wKey \in {NoKey, <<x.wPass, FirstSalt>>}

SaltInv ==
    /\ file[1].salt = FirstSalt
    /\ 1 \in Recs => journal.recs[1].salt = FirstSalt
    /\ committed.key = <<committed.secret, FirstSalt>>
    /\ \A c \in Conns : CtxSaltOK(ctx[c])

IInv == TypeInv /\ LockInv /\ VersionInv /\ SeenInv /\ CacheInv /\ WriterInv

---------------------------------------------------------------------------
(* The codec: what a context knows after the keys are derived.             *)

\* Page 1 exists.
LEMMA PageOne == 1 \in Pages /\ NPages \in Nat \ {0} /\ MaxTx \in Nat /\ NoPage = MaxTx + 1
  BY SMT, RekeyAssumption DEF Pages, NoPage

\* A secret and a salt give a key.
LEMMA KeyOfType == ASSUME NEW s \in Secrets, NEW salt \in Salts
                   PROVE  KeyOf(s, salt) \in Keys /\ KeyOf(s, salt) # NoKey
                          /\ KeyOf(s, salt)[2] \in Salts
  BY RekeyAssumption, NoKeyAssumption DEF KeyOf, Keys

\* NoKey is no key.
LEMMA NoKeyIsNone == NoKey \notin Keys /\ NoKey \notin Images /\ NoSalt \notin Salts
  BY RekeyAssumption, NoKeyAssumption

\* sqlcipher_codec_key_derive: both keys and the salt are known afterwards, and what
\* was known stays; a context in error stays as it is.
LEMMA DerivedOK ==
  ASSUME FileType, NEW x, CtxOK(x)
  PROVE  /\ CtxOK(Derived(x))
         /\ x.error => Derived(x) = x
         /\ Derived(x).error = x.error /\ Derived(x).used = x.used
         /\ Derived(x).rPass = x.rPass /\ Derived(x).wPass = x.wPass
         /\ x.rKey # NoKey => Derived(x).rKey = x.rKey
         /\ x.wKey # NoKey => Derived(x).wKey = x.wKey
         /\ ~x.error => /\ Derived(x).rKey \in Keys /\ Derived(x).wKey \in Keys
                        /\ Derived(x).salt \in Salts
         /\ ~x.error /\ x.rKey # NoKey => Derived(x).wKey = WriteKey(x)
<1>1. CASE x.error
  BY <1>1 DEF Derived, CtxOK
<1>2. CASE ~x.error
  <2> DEFINE header == IF x.salt = NoSalt THEN file[1].salt ELSE x.salt
             rKey == IF x.rKey = NoKey THEN KeyOf(x.rPass, header) ELSE x.rKey
             shared == IF x.rKey = NoKey THEN rKey[2] ELSE header
             wKey == IF x.wKey = NoKey THEN KeyOf(x.wPass, shared) ELSE x.wKey
             salt == IF x.wKey = NoKey THEN wKey[2] ELSE shared
  <2>0. x \in Ctxs
    BY DEF CtxOK
  <2>1. header \in Salts /\ (x.rKey # NoKey \/ x.wKey # NoKey => header = x.salt)
    BY NoKeyIsNone, <2>0 DEF CtxOK, FileType, Ctxs
  <2>2. rKey \in Keys /\ (x.rKey # NoKey => rKey = x.rKey)
    BY <2>0, <2>1, KeyOfType DEF Ctxs
  <2>3. shared \in Salts /\ (x.rKey # NoKey => shared = x.salt)
    BY <2>0, <2>1, KeyOfType DEF Ctxs
  <2>4. wKey \in Keys /\ (x.wKey # NoKey => wKey = x.wKey) /\ (x.rKey # NoKey => wKey = WriteKey(x))
    BY <2>0, <2>3, KeyOfType DEF Ctxs, WriteKey
  <2>5. salt \in Salts
    BY <2>0, <2>3, KeyOfType DEF Ctxs
  <2>6. Derived(x) = [x EXCEPT !.rKey = rKey, !.wKey = wKey, !.salt = salt]
    BY <1>2 DEF Derived
  <2> HIDE DEF header, rKey, shared, wKey, salt
  <2>7. Derived(x) = [rPass |-> x.rPass, wPass |-> x.wPass, rKey |-> rKey, wKey |-> wKey,
                      salt |-> salt, used |-> x.used, error |-> x.error]
    BY <2>0, <2>6 DEF Ctxs
  <2>8. Derived(x) \in Ctxs
    BY <2>0, <2>2, <2>4, <2>5, <2>7 DEF Ctxs
  <2>. QED BY <1>2, <2>2, <2>4, <2>5, <2>7, <2>8 DEF CtxOK
<1>. QED BY <1>1, <1>2

\* The context that sqlite3Codec leaves behind, decoding, or writing (mode 6 or 7).
Touched(x) == [Derived(x) EXCEPT !.used = TRUE]

\* A context that has been derived keeps its keys when it is used again.
LEMMA TouchedOK ==
  ASSUME FileType, NEW x, CtxOK(x), ~x.error
  PROVE  /\ CtxOK(Touched(x)) /\ Touched(x).used /\ ~Touched(x).error
         /\ Touched(x).rPass = x.rPass /\ Touched(x).wPass = x.wPass
         /\ Touched(x).rKey = Derived(x).rKey /\ Touched(x).wKey = Derived(x).wKey
         /\ Touched(x).salt = Derived(x).salt
         /\ Touched(x).rKey \in Keys /\ Touched(x).wKey \in Keys
         /\ Touched(x).salt \in Salts
         /\ x.rKey # NoKey => Touched(x).rKey = x.rKey /\ Touched(x).wKey = WriteKey(x)
<1>0. x.error = FALSE
  BY DEF CtxOK, Ctxs
<1>1. PICK y : y = Derived(x)
  OBVIOUS
<1>2. y \in Ctxs /\ y.error = FALSE /\ Touched(x) = [y EXCEPT !.used = TRUE]
  BY <1>0, <1>1, DerivedOK DEF CtxOK, Touched
<1>4. Touched(x) = [rPass |-> y.rPass, wPass |-> y.wPass, rKey |-> y.rKey, wKey |-> y.wKey,
                    salt |-> y.salt, used |-> TRUE, error |-> FALSE]
  BY <1>2 DEF Ctxs
<1>5. Touched(x) \in Ctxs
  BY <1>2, <1>4 DEF Ctxs
<1>. QED BY <1>0, <1>1, <1>4, <1>5, DerivedOK DEF CtxOK

\* Decoding a page leaves a usable context exactly if the key is that of the image.
LEMMA DecodeOK ==
  ASSUME FileType, NEW x, CtxOK(x), NEW image \in Images
  PROVE  /\ CtxOK(AfterDecode(x, image))
         /\ Decodes(x, image) => ~x.error /\ AfterDecode(x, image) = Touched(x)
                                 /\ Touched(x).rKey = image.key
         /\ AfterDecode(x, image).wPass = x.wPass
<1>1. CASE Decodes(x, image)
  BY <1>1, TouchedOK DEF AfterDecode, Decodes, Touched
<1>2. CASE ~Decodes(x, image)
  <2>1. AfterDecode(x, image) = [Derived(x) EXCEPT !.error = TRUE]
    BY <1>2 DEF AfterDecode
  <2>2. Derived(x) \in Ctxs /\ (Derived(x).rKey # NoKey \/ Derived(x).wKey # NoKey => Derived(x).salt \in Salts)
    BY DerivedOK DEF CtxOK
  <2>3. AfterDecode(x, image) = [rPass |-> x.rPass, wPass |-> x.wPass, rKey |-> Derived(x).rKey,
                    wKey |-> Derived(x).wKey, salt |-> Derived(x).salt, used |-> x.used,
                    error |-> TRUE]
    BY <2>1, <2>2, DerivedOK DEF Ctxs
  <2>4. AfterDecode(x, image) \in Ctxs
    BY <2>2, <2>3, DerivedOK DEF Ctxs, CtxOK
  <2>. QED BY <1>2, <2>2, <2>3, <2>4 DEF CtxOK
<1>. QED BY <1>1, <1>2

---------------------------------------------------------------------------
(* The journal.                                                            *)

\* An empty journal has no records.
LEMMA EmptyJournal ==
  NoJournal.on = FALSE /\ DOMAIN NoJournal.recs = {} /\ NoJournal.synced = {}
<1>1. DOMAIN <<>> = {}
  BY SMT
<1>. QED BY <1>1 DEF NoJournal

\* pager_open_journal and pagerAddPageToRollbackJournal: page p is in the journal
\* afterwards; the records of this transaction stay as they are.
LEMMA JournaledOK ==
  ASSUME JournalType, NEW c \in Conns, NEW x, CtxOK(x), x.rKey \in Keys, x.salt \in Salts,
         NEW p \in Pages, NEW v \in 0..MaxTx,
         NEW j, j = Journaled(c, x, p, v)
  PROVE  /\ j = [on |-> j.on, recs |-> j.recs, synced |-> j.synced]
         /\ j.on \in BOOLEAN /\ j.on
         /\ j.synced = journal.synced
         /\ DOMAIN j.recs = (IF InUse(c) THEN Recs ELSE {}) \cup {p}
         /\ \A q \in DOMAIN j.recs :
               IF q = p /\ ~(InUse(c) /\ p \in Recs) THEN j.recs[q] = JournalImage(x, p, v)
               ELSE InUse(c) /\ q \in Recs /\ j.recs[q] = journal.recs[q]
         /\ JournalImage(x, p, v) \in Images
         /\ JournalImage(x, p, v).key = x.rKey /\ JournalImage(x, p, v).ver = v
         /\ JournalImage(x, 1, v).salt = x.salt
<1>1. DOMAIN Opened(c).recs = IF InUse(c) THEN Recs ELSE {}
  <2>1. CASE InUse(c)
    BY <2>1 DEF Opened, InUse, Recs
  <2>2. CASE ~InUse(c)
    BY <2>2, EmptyJournal DEF Opened, InUse, Recs
  <2>. QED BY <2>1, <2>2
<1>2. InUse(c) => Opened(c) = journal
  BY DEF Opened, InUse
<1>3. JournalImage(x, p, v) = [key |-> x.rKey, salt |-> Header(x, p), ver |-> v]
  BY DEF JournalImage
<1>4. Header(x, p) \in Salts \cup {NoSalt}
  BY DEF Header
<1>5. CASE p \in DOMAIN Opened(c).recs
  BY <1>1, <1>2, <1>3, <1>4, <1>5 DEF Journaled, JournalType, Images, JournalImage, Header
<1>6. CASE p \notin DOMAIN Opened(c).recs
  <2> DEFINE recs == [q \in DOMAIN Opened(c).recs \cup {p} |->
                         IF q = p THEN JournalImage(x, p, v) ELSE Opened(c).recs[q]]
  <2>1. j = [on |-> TRUE, synced |-> journal.synced, recs |-> recs]
    BY <1>6 DEF Journaled
  <2>. QED BY <1>1, <1>2, <1>3, <1>4, <1>6, <2>1 DEF JournalType, Images, JournalImage, Header
<1>. QED BY <1>5, <1>6

\* pager_playback gives back images, and what they show is as in the journal.
LEMMA PlayedBackOK ==
  ASSUME FileType, JournalType
  PROVE  /\ PlayedBack \in [Pages -> Images]
         /\ PlayedBack[1].salt \in Salts
         /\ \A p \in journal.synced : PlayedBack[p] = journal.recs[p]
         /\ \A p \in Pages \ journal.synced : PlayedBack[p] = file[p]
<1>1. \A p \in journal.synced : p \in Pages /\ p \in Recs /\ journal.recs[p] \in Images
  BY DEF JournalType
<1>2. PlayedBack \in [Pages -> Images]
  BY <1>1 DEF PlayedBack, FileType
<1>. QED BY <1>1, <1>2, PageOne DEF PlayedBack, FileType, JournalType

---------------------------------------------------------------------------
(* A step of one connection.                                               *)

\* Nothing that belongs to another connection changes.
Elsewhere(c) ==
    /\ Arrays'
    /\ \A d \in Others(c) :
         /\ op'[d] = op[d] /\ lock'[d] = lock[d] /\ ctx'[d] = ctx[d] /\ cache'[d] = cache[d]
         /\ dirty'[d] = dirty[d] /\ vers'[d] = vers[d] /\ nxt'[d] = nxt[d] /\ leak'[d] = leak[d]

\* Types need to be looked at for the connection that moves only.
LEMMA TypeStep ==
  ASSUME TypeInv, NEW c \in Conns, Elsewhere(c),
         FileType', JournalType', GhostType', ConnType(c)'
  PROVE  TypeInv'
<1>1. \A d \in Conns : ConnType(d)'
  <2>1. ASSUME NEW d \in Others(c) PROVE ConnType(d)'
    BY <2>1 DEF TypeInv, ConnType, Elsewhere, Others
  <2>. QED BY <2>1 DEF Others
<1>. QED BY <1>1 DEF TypeInv, Elsewhere

\* A lock that is taken is free, and a journal is synced under EXCLUSIVE.
LockStep(c) ==
    /\ lock'[c] = "EXCLUSIVE" => lock[c] = "EXCLUSIVE" \/ ExclusiveFree(c)
    /\ lock'[c] \in Strong => lock[c] \in Strong \/ ReservedFree(c)
    /\ lock'[c] # "NO" => lock[c] # "NO" \/ SharedFree(c)
    /\ journal'.synced # {} => \/ lock'[c] = "EXCLUSIVE"
                               \/ lock'[c] = "NO" /\ journal.synced # {}
                               \/ lock'[c] = lock[c] /\ journal.synced # {}

\* Then the locks of the connections stay compatible.
LEMMA LockKept ==
  ASSUME TypeInv, LockInv, NEW c \in Conns, Elsewhere(c), ConnType(c)', LevelOK(c)', LockStep(c)
  PROVE  LockInv'
<1> USE DEF Others
<1>0. \A d \in Conns : lock[d] \in Locks /\ lock'[d] \in Locks
  <2>1. \A d \in Conns : ConnType(d)
    BY DEF TypeInv
  <2>. QED BY <2>1 DEF Elsewhere, ConnType
<1>1. \A d \in Conns : LevelOK(d)'
  <2>1. ASSUME NEW d \in Others(c) PROVE LevelOK(d)'
    BY <2>1 DEF LockInv, LevelOK, Unlocked, Elsewhere
  <2>. QED BY <2>1
<1>2. \A d \in Others(c) : lock'[c] = "EXCLUSIVE" => lock'[d] = "NO"
  BY <1>0 DEF LockInv, Elsewhere, LockStep, ExclusiveFree
<1>3. \A d \in Others(c) : lock'[d] = "EXCLUSIVE" => lock'[c] = "NO"
  BY <1>0 DEF LockInv, Elsewhere, LockStep, SharedFree, Locks
<1>4. \A d, e \in Others(c) : d # e /\ lock'[d] = "EXCLUSIVE" => lock'[e] = "NO"
  BY DEF LockInv, Elsewhere
<1>5. \A d \in Others(c) : lock'[c] \in Strong => lock'[d] \notin Strong
  BY <1>0 DEF LockInv, Elsewhere, LockStep, ReservedFree, Locks, Strong
<1>6. \A d, e \in Others(c) : d # e /\ lock'[d] \in Strong => lock'[e] \notin Strong
  BY DEF LockInv, Elsewhere
<1>7. \A d \in Conns : journal'.synced # {} /\ lock'[d] # "NO" => lock'[d] = "EXCLUSIVE"
  <2>1. journal'.synced # {} /\ lock'[c] # "NO" => lock'[c] = "EXCLUSIVE"
    BY DEF LockInv, LockStep
  <2>2. ASSUME NEW d \in Others(c), journal'.synced # {}, lock'[d] # "NO"
        PROVE  lock'[d] = "EXCLUSIVE"
    <3>1. lock'[c] # "EXCLUSIVE"
      BY <1>2, <2>2
    <3>2. journal.synced # {}
      BY <2>2, <3>1 DEF LockStep
    <3>. QED BY <2>2, <3>2 DEF LockInv, Elsewhere
  <2>. QED BY <2>1, <2>2
<1>8. \A d, e \in Conns : d # e /\ lock'[d] = "EXCLUSIVE" => lock'[e] = "NO"
  BY <1>2, <1>3, <1>4
<1>9. \A d, e \in Conns : d # e /\ lock'[d] \in Strong => lock'[e] \notin Strong
  BY <1>5, <1>6
<1>. QED BY <1>1, <1>7, <1>8, <1>9 DEF LockInv

\* A writer is the only one.
LEMMA OneWriter ==
  ASSUME LockInv, NEW c \in Conns, op[c] \in Writing
  PROVE  \A d \in Others(c) : op[d] \notin Writing /\ lock[d] \notin Strong
  BY DEF LockInv, LevelOK, Others

\* What a step may do to the state that a writer other than c relies on: nothing,
\* unless there is none.
OthersKept(c) ==
    /\ committed' = committed
    /\ \/ UNCHANGED <<file, journal, tx, wrote>>
       \/ \A d \in Others(c) : op[d] \notin Writing

\* Then the other connections keep their part of the invariant.
LEMMA CachesKept ==
  ASSUME CacheInv, WriterInv, NEW c \in Conns, Elsewhere(c), OthersKept(c),
         CacheOK(c)', WriterOK(c)'
  PROVE  CacheInv' /\ WriterInv'
<1>1. ASSUME NEW d \in Others(c) PROVE CacheOK(d)'
  BY <1>1 DEF CacheInv, CacheOK, Loaded, Fresh, Elsewhere, OthersKept, Others
<1>2. ASSUME NEW d \in Others(c) PROVE WriterOK(d)'
  <2>1. CASE op[d] \notin Writing
    BY <1>2, <2>1 DEF WriterOK, Elsewhere
  <2>2. CASE UNCHANGED <<file, journal, tx, wrote, committed>>
    BY <1>2, <2>2 DEF WriterInv, WriterOK, Want, Elsewhere, InUse, Recs, Others
  <2>. QED BY <2>1, <2>2, <1>2 DEF OthersKept
<1>. QED BY <1>1, <1>2 DEF CacheInv, WriterInv, Others

\* The same for the keys.
LEMMA KeysKept ==
  ASSUME KeysInv, NEW c \in Conns, Elsewhere(c), OthersKept(c), anomaly \subseteq anomaly',
         Unmixed' => KeyInv' /\ ReaderKeyOK(c)' /\ WriterKeyOK(c)'
  PROVE  KeysInv'
<1> SUFFICES ASSUME Unmixed' PROVE KeyInv' /\ \A d \in Conns : ReaderKeyOK(d)' /\ WriterKeyOK(d)'
  BY DEF KeysInv
<1>0. KeyInv /\ \A d \in Conns : ReaderKeyOK(d) /\ WriterKeyOK(d)
  BY DEF KeysInv, Unmixed
<1>1. ASSUME NEW d \in Others(c) PROVE ReaderKeyOK(d)' /\ WriterKeyOK(d)'
  <2>0. d \in Conns /\ ReaderKeyOK(d) /\ WriterKeyOK(d)
    BY <1>0, <1>1 DEF Others
  <2>1. CASE op[d] \notin Writing
    BY <1>1, <2>0, <2>1 DEF ReaderKeyOK, WriterKeyOK, Elsewhere, Loaded, OthersKept
  <2>2. CASE UNCHANGED <<file, journal, tx, wrote, committed>>
    <3>1. WriterKeyOK(d)'
      BY <1>1, <2>0, <2>2 DEF WriterKeyOK, Elsewhere, InUse, Recs, WriteKey, KeyOf
    <3>2. ReaderKeyOK(d)'
      BY <1>1, <2>0, <2>2 DEF ReaderKeyOK, Elsewhere, InUse, Recs, Loaded
    <3>. QED BY <3>1, <3>2
  <2>. QED BY <2>1, <2>2, <1>1 DEF OthersKept
<1>. QED BY <1>1 DEF Others

\* The version a connection has seen is not that of an open transaction.
LEMMA SeenKept ==
  ASSUME SeenInv, TypeInv, NEW c \in Conns, Elsewhere(c), tx' = tx,
         op'[c] \in Writing => op[c] \in Writing,
         vers'[c] # NoKey => vers'[c].ver <= tx,
         \A d \in Others(c) : op[d] \in Writing /\ vers'[c] # NoKey => vers'[c].ver < tx
  PROVE  SeenInv'
<1>1. \A d \in Conns : vers'[d] # NoKey => vers'[d].ver <= tx
  BY DEF SeenInv, Elsewhere, Others
<1>2. ASSUME NEW d \in Conns, NEW e \in Conns, d # e, vers'[d] # NoKey, op'[e] \in Writing
      PROVE  vers'[d].ver < tx
  <2>1. op[e] \in Writing
    BY <1>2 DEF Elsewhere, Others
  <2>2. CASE d = c
    BY <1>2, <2>1, <2>2 DEF Others
  <2>3. CASE d # c
    BY <1>2, <2>1, <2>3 DEF Others, Elsewhere, SeenInv
  <2>. QED BY <2>2, <2>3
<1>. QED BY <1>1, <1>2 DEF SeenInv

---------------------------------------------------------------------------
(* Steps that change neither the file nor the journal.                     *)

\* What such a step of c has to keep.
LEMMA QuietStep ==
  ASSUME IInv, NEW c \in Conns, Elsewhere(c),
         UNCHANGED <<file, journal, tx, wrote, committed, anomaly>>,
         ConnType(c)', LevelOK(c)', LockStep(c),
         op'[c] \in Writing => op[c] \in Writing,
         vers'[c] \in {vers[c], NoKey} \/ (vers'[c] = file[1] /\ journal.synced = {}),
         CacheOK(c)', WriterOK(c)'
  PROVE  IInv' /\ OthersKept(c)
<1>1. TypeInv'
  <2>1. FileType' /\ GhostType'
    BY DEF IInv, TypeInv, FileType, GhostType
  <2>2. JournalType'
    BY DEF IInv, TypeInv, JournalType, Recs
  <2>. QED BY <2>1, <2>2, TypeStep DEF IInv
<1>2. LockInv'
  BY LockKept DEF IInv
<1>3. VersionInv'
  <2>1. \A d \in Conns : op'[d] \in Writing => op[d] \in Writing
    BY DEF Elsewhere, Others
  <2>. QED BY <2>1 DEF IInv, VersionInv, Recs
<1>4. SeenInv'
  <2>1. CASE vers'[c] \in {vers[c], NoKey}
    BY <2>1, SeenKept DEF IInv, SeenInv, Others
  <2>2. CASE vers'[c] = file[1] /\ journal.synced = {}
    <3>1. vers'[c].ver = committed.ver[1]
      BY <2>2, PageOne DEF IInv, VersionInv
    <3>2. vers'[c].ver <= tx /\ \A d \in Others(c) : op[d] \in Writing => vers'[c].ver < tx
      BY <3>1, PageOne DEF IInv, VersionInv, Others
    <3>. QED BY <3>2, SeenKept DEF IInv
  <2>. QED BY <2>1, <2>2
<1>5. OthersKept(c)
  BY DEF OthersKept
<1>6. CacheInv' /\ WriterInv'
  BY <1>5, CachesKept DEF IInv
<1>. QED BY <1>1, <1>2, <1>3, <1>4, <1>5, <1>6 DEF IInv

\* A new context knows no key.
LEMMA NewCtxOK == \A s \in Secrets : CtxOK(NewCtx(s))
  BY DEF CtxOK, NewCtx, Ctxs

\* What the invariant says of one connection.
LEMMA OneConn ==
  ASSUME IInv, NEW c \in Conns
  PROVE  ConnType(c) /\ LevelOK(c) /\ CacheOK(c) /\ WriterOK(c) /\ FileType /\ JournalType /\ GhostType
  BY DEF IInv, TypeInv, LockInv, CacheInv, WriterInv

\* sqlite3_open and sqlite3_key_v2: the connection has no lock and no cache yet.
LEMMA OpenStep ==
  ASSUME IInv, NEW c \in Conns, Open(c)
  PROVE  IInv' /\ OthersKept(c) /\ Elsewhere(c)
<1>0. ConnType(c) /\ LevelOK(c) /\ CacheOK(c) /\ WriterOK(c)
  BY OneConn
<1>1. Elsewhere(c)
  BY DEF IInv, TypeInv, Elsewhere, Arrays, Others, Open, held, ghosts
<1>2. UNCHANGED <<file, journal, tx, wrote, committed, anomaly>>
  BY DEF Open, held, ghosts
<1>3. ConnType(c)'
  BY <1>0, NewCtxOK, PageOne, RekeyAssumption DEF IInv, TypeInv, Arrays, ConnType, Ops, Locks, Unlocked, EmptyCache, Open, held, ghosts
<1>4. LevelOK(c)' /\ LockStep(c)
  BY <1>0 DEF IInv, TypeInv, Arrays, ConnType, LevelOK, LockStep, LockInv, Unlocked, Ops, Locks, Strong, Writing, Reading, Commits, Open, held, ghosts
<1>5. op'[c] \notin Writing /\ vers'[c] \in {vers[c], NoKey}
  BY <1>0 DEF IInv, TypeInv, Arrays, ConnType, Writing, Open, held, ghosts
<1>6. CacheOK(c)'
  BY <1>0 DEF IInv, TypeInv, Arrays, ConnType, CacheOK, LevelOK, Loaded, Fresh, Writing, Reading, NewCtx, EmptyCache, Unlocked, Open, held, ghosts
<1>7. WriterOK(c)'
  BY <1>5 DEF WriterOK
<1>. QED BY <1>1, <1>2, <1>3, <1>4, <1>5, <1>6, <1>7, QuietStep

\* A key that replaces another before any page was read: there is no cache it could belong to.
LEMMA KeyStep ==
  ASSUME IInv, NEW c \in Conns, Key(c)
  PROVE  IInv' /\ OthersKept(c) /\ Elsewhere(c)
<1>0. ConnType(c) /\ LevelOK(c) /\ CacheOK(c) /\ WriterOK(c)
  BY OneConn
<1>1. Elsewhere(c)
  BY DEF IInv, TypeInv, Elsewhere, Arrays, Others, Key, held, ghosts
<1>2. UNCHANGED <<file, journal, tx, wrote, committed, anomaly>>
  BY DEF Key, held, ghosts
<1>3. ConnType(c)'
  BY <1>0, NewCtxOK, PageOne, RekeyAssumption DEF IInv, TypeInv, Arrays, ConnType, Ops, Locks, Unlocked, EmptyCache, Key, held, ghosts
<1>4. LevelOK(c)' /\ LockStep(c)
  BY <1>0 DEF IInv, TypeInv, Arrays, ConnType, LevelOK, LockStep, LockInv, Unlocked, Ops, Locks, Strong, Writing, Reading, Commits, Key, held, ghosts
<1>5. op'[c] \notin Writing /\ vers'[c] \in {vers[c], NoKey}
  BY <1>0 DEF IInv, TypeInv, Arrays, ConnType, Writing, Key, held, ghosts
<1>6. CacheOK(c)'
  BY <1>0 DEF IInv, TypeInv, Arrays, ConnType, CacheOK, LevelOK, Loaded, Fresh, Writing, Reading, NewCtx, EmptyCache, Unlocked, Key, held, ghosts
<1>7. WriterOK(c)'
  BY <1>5 DEF WriterOK
<1>. QED BY <1>1, <1>2, <1>3, <1>4, <1>5, <1>6, <1>7, QuietStep

\* The first step of sqlite3_rekey_v2 touches the write context only.
LEMMA StartRekeyStep ==
  ASSUME IInv, NEW c \in Conns, StartRekey(c)
  PROVE  IInv' /\ OthersKept(c) /\ Elsewhere(c)
<1>0. ConnType(c) /\ LevelOK(c) /\ CacheOK(c) /\ WriterOK(c)
  BY OneConn
<1>9. CtxOK(ctx'[c]) /\ ctx'[c].rKey = ctx[c].rKey /\ ctx'[c].used = ctx[c].used
     /\ ctx'[c].error = ctx[c].error
  <2>1. PICK s \in Secrets : ctx' = [ctx EXCEPT ![c].wPass = s, ![c].wKey = NoKey]
    BY DEF StartRekey
  <2>2. ctx[c] \in Ctxs /\ (ctx[c].rKey # NoKey => ctx[c].salt \in Salts)
    BY <1>0 DEF ConnType, CtxOK
  <2>3. ctx'[c] = [ctx[c] EXCEPT !.wPass = s, !.wKey = NoKey]
    BY <2>1 DEF IInv, TypeInv, Arrays
  <2>. QED BY <2>2, <2>3 DEF CtxOK, Ctxs
<1>1. Elsewhere(c)
  BY DEF IInv, TypeInv, Elsewhere, Arrays, Others, StartRekey, held, ghosts
<1>2. UNCHANGED <<file, journal, tx, wrote, committed, anomaly>>
  BY DEF StartRekey, held, ghosts
<1>3. ConnType(c)'
  BY <1>0, <1>9, NewCtxOK, PageOne, RekeyAssumption DEF IInv, TypeInv, Arrays, ConnType, Ops, Locks, Unlocked, EmptyCache, StartRekey, held, ghosts
<1>4. LevelOK(c)' /\ LockStep(c)
  BY <1>0 DEF IInv, TypeInv, Arrays, ConnType, LevelOK, LockStep, LockInv, Unlocked, Ops, Locks, Strong, Writing, Reading, Commits, StartRekey, held, ghosts
<1>5. op'[c] \notin Writing /\ vers'[c] \in {vers[c], NoKey}
  BY <1>0 DEF IInv, TypeInv, Arrays, ConnType, Writing, StartRekey, held, ghosts
<1>6. CacheOK(c)'
  BY <1>0, <1>9 DEF IInv, TypeInv, Arrays, ConnType, CacheOK, LevelOK, Loaded, Fresh, Writing, Reading, NewCtx, EmptyCache, Unlocked, StartRekey, held, ghosts
<1>7. WriterOK(c)'
  BY <1>5 DEF WriterOK
<1>. QED BY <1>1, <1>2, <1>3, <1>4, <1>5, <1>6, <1>7, QuietStep

\* The end of a read transaction; the cache stays, for as long as page 1 stays.
LEMMA EndReadStep ==
  ASSUME IInv, NEW c \in Conns, EndRead(c)
  PROVE  IInv' /\ OthersKept(c) /\ Elsewhere(c)
<1>0. ConnType(c) /\ LevelOK(c) /\ CacheOK(c) /\ WriterOK(c)
  BY OneConn
<1>1. Elsewhere(c)
  BY DEF IInv, TypeInv, Elsewhere, Arrays, Others, EndRead, held, ghosts
<1>2. UNCHANGED <<file, journal, tx, wrote, committed, anomaly>>
  BY DEF EndRead, held, ghosts
<1>3. ConnType(c)'
  BY <1>0, NewCtxOK, PageOne, RekeyAssumption DEF IInv, TypeInv, Arrays, ConnType, Ops, Locks, Unlocked, EmptyCache, EndRead, held, ghosts
<1>4. LevelOK(c)' /\ LockStep(c)
  BY <1>0 DEF IInv, TypeInv, Arrays, ConnType, LevelOK, LockStep, LockInv, Unlocked, Ops, Locks, Strong, Writing, Reading, Commits, EndRead, held, ghosts
<1>5. op'[c] \notin Writing /\ vers'[c] \in {vers[c], NoKey}
  BY <1>0 DEF IInv, TypeInv, Arrays, ConnType, Writing, EndRead, held, ghosts
<1>6. CacheOK(c)'
  BY <1>0 DEF IInv, TypeInv, Arrays, ConnType, CacheOK, LevelOK, Loaded, Fresh, Writing, Reading, NewCtx, EmptyCache, Unlocked, EndRead, held, ghosts
<1>7. WriterOK(c)'
  BY <1>5 DEF WriterOK
<1>. QED BY <1>1, <1>2, <1>3, <1>4, <1>5, <1>6, <1>7, QuietStep

\* A rekey that cannot begin ends without a trace, but for the write context.
LEMMA RekeyBusyStep ==
  ASSUME IInv, NEW c \in Conns, RekeyBusy(c)
  PROVE  IInv' /\ OthersKept(c) /\ Elsewhere(c)
<1>0. ConnType(c) /\ LevelOK(c) /\ CacheOK(c) /\ WriterOK(c)
  BY OneConn
<1>1. Elsewhere(c)
  BY DEF IInv, TypeInv, Elsewhere, Arrays, Others, RekeyBusy, held, ghosts
<1>2. UNCHANGED <<file, journal, tx, wrote, committed, anomaly>>
  BY DEF RekeyBusy, held, ghosts
<1>3. ConnType(c)'
  BY <1>0, NewCtxOK, PageOne, RekeyAssumption DEF IInv, TypeInv, Arrays, ConnType, Ops, Locks, Unlocked, EmptyCache, RekeyBusy, held, ghosts
<1>4. LevelOK(c)' /\ LockStep(c)
  BY <1>0 DEF IInv, TypeInv, Arrays, ConnType, LevelOK, LockStep, LockInv, Unlocked, Ops, Locks, Strong, Writing, Reading, Commits, RekeyBusy, held, ghosts
<1>5. op'[c] \notin Writing /\ vers'[c] \in {vers[c], NoKey}
  BY <1>0 DEF IInv, TypeInv, Arrays, ConnType, Writing, RekeyBusy, held, ghosts
<1>6. CacheOK(c)'
  BY <1>0 DEF IInv, TypeInv, Arrays, ConnType, CacheOK, LevelOK, Loaded, Fresh, Writing, Reading, NewCtx, EmptyCache, Unlocked, RekeyBusy, held, ghosts
<1>7. WriterOK(c)'
  BY <1>5 DEF WriterOK
<1>. QED BY <1>1, <1>2, <1>3, <1>4, <1>5, <1>6, <1>7, QuietStep

\* A connection that closes releases its locks; the journal of a pager in error stays behind.
LEMMA CloseStep ==
  ASSUME IInv, NEW c \in Conns, Close(c)
  PROVE  IInv' /\ OthersKept(c) /\ Elsewhere(c)
<1>0. ConnType(c) /\ LevelOK(c) /\ CacheOK(c) /\ WriterOK(c)
  BY OneConn
<1>1. Elsewhere(c)
  BY DEF IInv, TypeInv, Elsewhere, Arrays, Others, Close, Gone, held, ghosts
<1>2. UNCHANGED <<file, journal, tx, wrote, committed, anomaly>>
  BY DEF Close, Gone, held, ghosts
<1>3. ConnType(c)'
  BY <1>0, NewCtxOK, PageOne, RekeyAssumption DEF IInv, TypeInv, Arrays, ConnType, Ops, Locks, Unlocked, EmptyCache, Close, Gone, held, ghosts
<1>4. LevelOK(c)' /\ LockStep(c)
  BY <1>0 DEF IInv, TypeInv, Arrays, ConnType, LevelOK, LockStep, LockInv, Unlocked, Ops, Locks, Strong, Writing, Reading, Commits, Close, Gone, held, ghosts
<1>5. op'[c] \notin Writing /\ vers'[c] \in {vers[c], NoKey}
  BY <1>0 DEF IInv, TypeInv, Arrays, ConnType, Writing, Close, Gone, held, ghosts
<1>6. CacheOK(c)'
  BY <1>0 DEF IInv, TypeInv, Arrays, ConnType, CacheOK, LevelOK, Loaded, Fresh, Writing, Reading, NewCtx, EmptyCache, Unlocked, Close, Gone, held, ghosts
<1>7. WriterOK(c)'
  BY <1>5 DEF WriterOK
<1>. QED BY <1>1, <1>2, <1>3, <1>4, <1>5, <1>6, <1>7, QuietStep

\* A process that dies leaves file and journal as they are, without a lock.
LEMMA CrashStep ==
  ASSUME IInv, NEW c \in Conns, Crash(c)
  PROVE  IInv' /\ OthersKept(c) /\ Elsewhere(c)
<1>0. ConnType(c) /\ LevelOK(c) /\ CacheOK(c) /\ WriterOK(c)
  BY OneConn
<1>1. Elsewhere(c)
  BY DEF IInv, TypeInv, Elsewhere, Arrays, Others, Crash, Gone, held, ghosts
<1>2. UNCHANGED <<file, journal, tx, wrote, committed, anomaly>>
  BY DEF Crash, Gone, held, ghosts
<1>3. ConnType(c)'
  BY <1>0, NewCtxOK, PageOne, RekeyAssumption DEF IInv, TypeInv, Arrays, ConnType, Ops, Locks, Unlocked, EmptyCache, Crash, Gone, held, ghosts
<1>4. LevelOK(c)' /\ LockStep(c)
  BY <1>0 DEF IInv, TypeInv, Arrays, ConnType, LevelOK, LockStep, LockInv, Unlocked, Ops, Locks, Strong, Writing, Reading, Commits, Crash, Gone, held, ghosts
<1>5. op'[c] \notin Writing /\ vers'[c] \in {vers[c], NoKey}
  BY <1>0 DEF IInv, TypeInv, Arrays, ConnType, Writing, Crash, Gone, held, ghosts
<1>6. CacheOK(c)'
  BY <1>0 DEF IInv, TypeInv, Arrays, ConnType, CacheOK, LevelOK, Loaded, Fresh, Writing, Reading, NewCtx, EmptyCache, Unlocked, Crash, Gone, held, ghosts
<1>7. WriterOK(c)'
  BY <1>5 DEF WriterOK
<1>. QED BY <1>1, <1>2, <1>3, <1>4, <1>5, <1>6, <1>7, QuietStep
---------------------------------------------------------------------------
(* Steps that read pages.                                                  *)

\* A connection that has a lock, or may lock the file and finds no hot journal,
\* sees a file that is as the last commit left it, unless it writes itself.
LEMMA NoSyncedRecords ==
  ASSUME IInv, NEW c \in Conns,
         \/ lock[c] = "SHARED"
         \/ lock[c] = "NO" /\ SharedFree(c) /\ ~HotJournal(c)
  PROVE  journal.synced = {} /\ \A p \in Pages : file[p].ver = committed.ver[p]
<1>1. journal.synced = {}
  <2>1. CASE lock[c] = "SHARED"
    BY <2>1 DEF IInv, LockInv
  <2>2. CASE lock[c] = "NO" /\ SharedFree(c) /\ ~HotJournal(c)
    <3>1. CASE ~journal.on
      BY <3>1 DEF IInv, TypeInv, JournalType
    <3>2. CASE ~ReservedFree(c)
      <4>1. PICK d \in Others(c) : lock[d] \notin {"NO", "SHARED"}
        BY <3>2 DEF ReservedFree
      <4>2. lock[d] # "EXCLUSIVE"
        BY <2>2, <4>1 DEF SharedFree
      <4>. QED BY <4>1, <4>2 DEF IInv, LockInv, Others
    <3>. QED BY <2>2, <3>1, <3>2 DEF HotJournal
  <2>. QED BY <2>1, <2>2
<1>. QED BY <1>1 DEF IInv, VersionInv

\* An image that cannot be decrypted: the cache is dropped, the codec in error.
LEMMA AbandonStep ==
  ASSUME IInv, NEW c \in Conns, op[c] # "closed", Abandon(c), CtxOK(ctx'[c]), ctx' = [ctx EXCEPT ![c] = ctx'[c]],
         \/ leak' = leak /\ (leak[c] => lock[c] # "NO")
         \/ leak' = [leak EXCEPT ![c] = TRUE]
  PROVE  IInv' /\ OthersKept(c) /\ Elsewhere(c)
<1>0. ConnType(c) /\ LevelOK(c) /\ CacheOK(c) /\ WriterOK(c)
  BY OneConn
<1>1. Elsewhere(c)
  BY DEF IInv, TypeInv, Elsewhere, Arrays, Others, Abandon, ghosts
<1>2. UNCHANGED <<file, journal, tx, wrote, committed, anomaly>>
  BY DEF Abandon, ghosts
<1>3. ConnType(c)'
  <2>1. leak'[c] \in BOOLEAN /\ vers'[c] = vers[c] /\ nxt'[c] = nxt[c] /\ dirty'[c] = {}
    BY <1>0 DEF IInv, TypeInv, Arrays, ConnType, Abandon, ghosts
  <2>2. cache'[c] \in [Pages -> 0..NoPage]
    BY PageOne DEF IInv, TypeInv, Arrays, EmptyCache, Abandon
  <2>3. op'[c] \in Ops /\ lock'[c] \in Locks
    BY <1>0 DEF IInv, TypeInv, Arrays, ConnType, Ops, Locks, Abandon
  <2>. QED BY <1>0, <2>1, <2>2, <2>3 DEF ConnType
<1>4. LevelOK(c)' /\ LockStep(c)
  BY <1>0, <1>3 DEF IInv, TypeInv, Arrays, ConnType, LevelOK, LockStep, LockInv, Unlocked, Ops, Locks, Strong, Writing, Reading, Commits, Abandon, ghosts
<1>5. op'[c] \notin Writing /\ vers'[c] = vers[c]
  BY <1>0 DEF IInv, TypeInv, Arrays, ConnType, Writing, Abandon, ghosts
<1>6. CacheOK(c)'
  BY <1>0, <1>5 DEF IInv, TypeInv, Arrays, ConnType, CacheOK, Loaded, Fresh, Writing, Reading, EmptyCache, Abandon, ghosts
<1>7. WriterOK(c)'
  BY <1>5 DEF WriterOK
<1>. QED BY <1>1, <1>2, <1>3, <1>4, <1>5, <1>6, <1>7, QuietStep

\* sqlite3PagerSharedLock with a cache that is current.
SharedHit(c) ==
    /\ Current(c)[1] # NoPage
    /\ op' = [op EXCEPT ![c] = WithShared(c)] /\ lock' = [lock EXCEPT ![c] = "SHARED"]
    /\ UNCHANGED <<file, journal, ctx, cache, dirty, vers, nxt, leak, tx, ghosts>>

\* The same when page 1 has to be read, and can be decrypted.
SharedMiss(c) ==
    /\ Current(c)[1] = NoPage /\ Decodes(ctx[c], file[1])
    /\ op' = [op EXCEPT ![c] = WithShared(c)] /\ lock' = [lock EXCEPT ![c] = "SHARED"]
    /\ ctx' = [ctx EXCEPT ![c] = AfterDecode(@, file[1])]
    /\ cache' = [cache EXCEPT ![c] = [Current(c) EXCEPT ![1] = file[1].ver]]
    /\ vers' = [vers EXCEPT ![c] = file[1]]
    /\ UNCHANGED <<file, journal, dirty, nxt, leak, tx, ghosts>>

\* The cache that SharedLock goes on with is that of the last commit.
LEMMA CurrentFresh ==
  ASSUME IInv, NEW c \in Conns, WantsShared(c), SharedFree(c), leak[c] \/ ~HotJournal(c)
  PROVE  /\ Current(c) \in [Pages -> 0..NoPage]
         /\ \A p \in Pages : Current(c)[p] # NoPage => Current(c)[p] = committed.ver[p]
         /\ journal.synced = {} /\ file[1].ver = committed.ver[1] /\ file[1] \in Images
         /\ lock[c] = Unlocked(c)
<1>0. ConnType(c) /\ LevelOK(c) /\ CacheOK(c) /\ op[c] \notin Writing
  BY OneConn DEF WantsShared, Writing
<1>1. lock[c] = Unlocked(c) /\ (leak[c] => lock[c] = "SHARED") /\ (~leak[c] => lock[c] = "NO")
  BY <1>0 DEF LevelOK, WantsShared, Unlocked, ConnType
<1>2. journal.synced = {} /\ file[1].ver = committed.ver[1] /\ file[1] \in Images
  BY <1>0, <1>1, NoSyncedRecords, PageOne DEF IInv, TypeInv, FileType
<1>3. CASE leak[c]
  BY <1>0, <1>1, <1>2, <1>3 DEF Current, CacheOK, Fresh, ConnType
<1>4. CASE ~leak[c] /\ vers[c] = file[1]
  BY <1>0, <1>1, <1>2, <1>4 DEF Current, CacheOK, Fresh, ConnType, Loaded
<1>5. CASE ~leak[c] /\ vers[c] # file[1]
  BY <1>1, <1>2, <1>5, PageOne DEF Current, EmptyCache
<1>. QED BY <1>3, <1>4, <1>5

\* The cache is reused: page 1 is what it was, and so is every page of the commit.
LEMMA SharedHitStep ==
  ASSUME IInv, NEW c \in Conns, WantsShared(c), SharedFree(c), leak[c] \/ ~HotJournal(c),
         SharedHit(c)
  PROVE  IInv' /\ OthersKept(c) /\ Elsewhere(c)
<1>0. ConnType(c) /\ LevelOK(c) /\ CacheOK(c) /\ WriterOK(c) /\ op[c] \notin Writing
  BY OneConn DEF WantsShared, Writing
<1>1. Elsewhere(c)
  BY DEF IInv, TypeInv, Elsewhere, Arrays, Others, SharedHit, ghosts
<1>2. UNCHANGED <<file, journal, tx, wrote, committed, anomaly>>
  BY DEF SharedHit, ghosts
<1>3. ConnType(c)'
  BY <1>0 DEF IInv, TypeInv, Arrays, ConnType, Ops, Locks, SharedHit, WithShared, ghosts
<1>4. LevelOK(c)' /\ LockStep(c)
  BY <1>0, <1>3, CurrentFresh DEF IInv, TypeInv, Arrays, ConnType, LevelOK, LockStep, LockInv, Unlocked, Ops, Locks, Strong, Writing, Reading, Commits, SharedHit, WithShared, ghosts
<1>5. op'[c] \notin Writing /\ vers'[c] = vers[c]
  BY <1>0 DEF IInv, TypeInv, Arrays, ConnType, Writing, SharedHit, WithShared, ghosts
<1>8. Current(c) = cache[c]
  BY PageOne DEF SharedHit, Current, EmptyCache
<1>6. CacheOK(c)'
  <2>1. Fresh(c)'
    BY <1>8, CurrentFresh DEF SharedHit, Fresh, ghosts
  <2>2. Loaded(c)' => Loaded(c)
    BY DEF SharedHit, Loaded
  <2>. QED BY <1>0, <1>5, <1>8, <2>1, <2>2, PageOne DEF CacheOK, SharedHit, ghosts, WantsShared, IInv, TypeInv, Arrays, WithShared
<1>7. WriterOK(c)'
  BY <1>5 DEF WriterOK
<1>. QED BY <1>1, <1>2, <1>3, <1>4, <1>5, <1>6, <1>7, QuietStep

\* The cache is dropped, but for page 1, which is read again.
LEMMA SharedMissStep ==
  ASSUME IInv, NEW c \in Conns, WantsShared(c), SharedFree(c), leak[c] \/ ~HotJournal(c),
         SharedMiss(c)
  PROVE  IInv' /\ OthersKept(c) /\ Elsewhere(c)
<1>0. ConnType(c) /\ LevelOK(c) /\ CacheOK(c) /\ WriterOK(c) /\ op[c] \notin Writing /\ CtxOK(ctx[c])
  BY OneConn DEF WantsShared, Writing, ConnType
<1>1. Elsewhere(c)
  BY DEF IInv, TypeInv, Elsewhere, Arrays, Others, SharedMiss, ghosts
<1>2. UNCHANGED <<file, journal, tx, wrote, committed, anomaly>>
  BY DEF SharedMiss, ghosts
<1>9. ctx'[c] = Touched(ctx[c]) /\ ~ctx[c].error
  BY <1>0, DecodeOK, CurrentFresh DEF SharedMiss, IInv, TypeInv, Arrays
<1>10. CtxOK(ctx'[c]) /\ ctx'[c].used /\ ~ctx'[c].error /\ ctx'[c].rKey # NoKey
  BY <1>0, <1>9, TouchedOK, NoKeyIsNone DEF IInv, TypeInv
<1>3. ConnType(c)'
  <2>1. cache'[c] \in [Pages -> 0..NoPage]
    BY CurrentFresh, PageOne DEF SharedMiss, IInv, TypeInv, Arrays, Images
  <2>2. vers'[c] \in Images
    BY CurrentFresh DEF SharedMiss, IInv, TypeInv, Arrays
  <2>. QED BY <1>0, <1>10, <2>1, <2>2 DEF IInv, TypeInv, Arrays, ConnType, Ops, Locks, SharedMiss, WithShared, ghosts
<1>4. LevelOK(c)' /\ LockStep(c)
  BY <1>0, <1>3, CurrentFresh DEF IInv, TypeInv, Arrays, ConnType, LevelOK, LockStep, LockInv, Unlocked, Ops, Locks, Strong, Writing, Reading, Commits, SharedMiss, WithShared, ghosts
<1>5. op'[c] \notin Writing /\ vers'[c] = file[1] /\ journal.synced = {}
  BY <1>0, CurrentFresh DEF IInv, TypeInv, Arrays, ConnType, Writing, SharedMiss, WithShared, ghosts
<1>6. CacheOK(c)'
  <2>0. cache'[c] = [Current(c) EXCEPT ![1] = file[1].ver] /\ file[1] # NoKey /\ file[1].ver \in 0..MaxTx
    BY CurrentFresh, <1>3, NoKeyIsNone DEF SharedMiss, IInv, TypeInv, Arrays, Images
  <2>1. Fresh(c)' /\ cache'[c][1] # NoPage
    BY <2>0, CurrentFresh, PageOne, <1>2 DEF Fresh
  <2>2. vers'[c] # NoKey
    BY <2>0, <1>5
  <2>. QED BY <1>0, <1>5, <1>10, <2>1, <2>2 DEF CacheOK, SharedMiss, ghosts, WantsShared, IInv, TypeInv, Arrays, WithShared
<1>7. WriterOK(c)'
  BY <1>5 DEF WriterOK
<1>. QED BY <1>1, <1>2, <1>3, <1>4, <1>5, <1>6, <1>7, QuietStep

\* What sqlite3PagerSharedLock and lockBtree may come to.
LEMMA SharedLockCases ==
  ASSUME IInv, NEW c \in Conns, SharedLock(c)
  PROVE  /\ WantsShared(c) /\ SharedFree(c) /\ (leak[c] \/ ~HotJournal(c))
         /\ \/ SharedHit(c)
            \/ SharedMiss(c)
            \/ /\ Abandon(c) /\ ~Decodes(ctx[c], file[1]) /\ leak' = leak
               /\ ctx' = [ctx EXCEPT ![c] = AfterDecode(@, file[1])]
  BY DEF SharedLock, SharedHit, SharedMiss

\* The beginning of a transaction, with each of these outcomes.
LEMMA SharedLockStep ==
  ASSUME IInv, NEW c \in Conns, SharedLock(c)
  PROVE  IInv' /\ OthersKept(c) /\ Elsewhere(c)
<1>1. ASSUME Abandon(c), leak' = leak, ctx' = [ctx EXCEPT ![c] = AfterDecode(@, file[1])]
      PROVE  IInv' /\ OthersKept(c) /\ Elsewhere(c)
  <2>0. ConnType(c) /\ LevelOK(c) /\ FileType /\ lock[c] = Unlocked(c) /\ file[1] \in Images /\ op[c] # "closed"
    BY OneConn, SharedLockCases, CurrentFresh DEF WantsShared
  <2>1. ctx'[c] = AfterDecode(ctx[c], file[1]) /\ CtxOK(ctx'[c])
    BY <1>1, <2>0, DecodeOK DEF IInv, TypeInv, Arrays, ConnType
  <2>2. ctx' = [ctx EXCEPT ![c] = ctx'[c]] /\ (leak[c] => lock[c] # "NO")
    BY <1>1, <2>0, <2>1 DEF Unlocked
  <2>. QED BY <1>1, <2>0, <2>1, <2>2, AbandonStep
<1>. QED BY <1>1, SharedLockCases, SharedHitStep, SharedMissStep

\* getPageNormal with a page that can be decrypted.
ReadDone(c, p) ==
    /\ op[c] \in {"read", "write"} /\ cache[c][p] = NoPage
    /\ Decodes(ctx[c], file[p])
    /\ ctx' = [ctx EXCEPT ![c] = AfterDecode(@, file[p])]
    /\ cache' = [cache EXCEPT ![c][p] = file[p].ver]
    /\ UNCHANGED <<file, journal, lock, op, dirty, vers, nxt, leak, tx, ghosts>>

\* A page that is read is that of the last commit, or one that the writer has spilled.
LEMMA ReadDoneStep ==
  ASSUME IInv, NEW c \in Conns, NEW p \in Pages, ReadDone(c, p)
  PROVE  IInv' /\ OthersKept(c) /\ Elsewhere(c)
<1>0. ConnType(c) /\ LevelOK(c) /\ CacheOK(c) /\ WriterOK(c) /\ CtxOK(ctx[c]) /\ FileType
      /\ cache[c][1] # NoPage
  BY OneConn DEF ConnType, CacheOK, ReadDone, Reading, Writing
<1>1. Elsewhere(c)
  BY DEF IInv, TypeInv, Elsewhere, Arrays, Others, ReadDone, ghosts
<1>2. UNCHANGED <<file, journal, tx, wrote, committed, anomaly, op, lock, dirty, vers, nxt, leak>>
  BY DEF ReadDone, ghosts
<1>9. file[p] \in Images /\ file[p].ver \in 0..MaxTx
  BY <1>0 DEF FileType, Images
<1>10. ctx'[c] = Touched(ctx[c]) /\ ~ctx[c].error
  BY <1>0, <1>9, DecodeOK DEF ReadDone, IInv, TypeInv, Arrays
<1>11. /\ CtxOK(ctx'[c]) /\ ctx'[c].used /\ ~ctx'[c].error /\ ctx'[c].rKey # NoKey
       /\ ctx'[c].wKey # NoKey
  BY <1>0, <1>10, TouchedOK, NoKeyIsNone
<1>12. \A q \in Pages : cache'[c][q] = IF q = p THEN file[p].ver ELSE cache[c][q]
  BY <1>0 DEF ReadDone, IInv, TypeInv, Arrays, ConnType
<1>3. ConnType(c)'
  <2>1. cache'[c] \in [Pages -> 0..NoPage]
    BY <1>0, <1>9, PageOne DEF ReadDone, IInv, TypeInv, Arrays, ConnType
  <2>. QED BY <1>0, <1>2, <1>11, <2>1 DEF ConnType
<1>4. LevelOK(c)' /\ LockStep(c)
  BY <1>0, <1>2 DEF LevelOK, LockStep, IInv, LockInv, Unlocked
<1>6. CacheOK(c)'
  <2>1. op[c] \notin Writing => lock[c] = "SHARED" /\ Fresh(c)
    BY <1>0 DEF LevelOK, CacheOK, ReadDone, Writing, Reading
  <2>2. op[c] \notin Writing => Fresh(c)'
    BY <1>2, <1>12, <2>1, NoSyncedRecords DEF Fresh
  <2>3. Loaded(c)
    BY <1>0, PageOne DEF Loaded
  <2>4. op[c] # "closed" /\ (op[c] \in Writing \/ dirty[c] = {})
    BY <1>0 DEF ReadDone, CacheOK
  <2>5. cache'[c][1] # NoPage
    BY <1>0, <1>9, <1>12, PageOne
  <2>. QED BY <1>0, <1>2, <1>11, <2>2, <2>3, <2>4, <2>5 DEF CacheOK
<1>7. WriterOK(c)'
  <2> SUFFICES ASSUME op[c] \in Writing PROVE WriterOK(c)'
    BY <1>2 DEF WriterOK
  <2>1. p \notin dirty[c] /\ file[p].ver = Want(p)
    BY <1>0 DEF WriterOK, ReadDone
  <2>2. \A q \in Pages : cache'[c][q] # NoPage => cache'[c][q] = Want(q)
    BY <1>0, <1>12, <2>1 DEF WriterOK
  <2>3. \A q \in dirty[c] : cache'[c][q] # NoPage
    BY <1>0, <1>12, <2>1 DEF WriterOK, ConnType
  <2>. QED BY <1>0, <1>2, <1>11, <2>2, <2>3 DEF WriterOK, Want, InUse, Recs
<1>. QED BY <1>1, <1>2, <1>3, <1>4, <1>6, <1>7, QuietStep

\* The same, or the page cannot be decrypted.
LEMMA ReadPageStep ==
  ASSUME IInv, NEW c \in Conns, NEW p \in Pages, ReadPage(c, p)
  PROVE  IInv' /\ OthersKept(c) /\ Elsewhere(c)
<1>1. ReadDone(c, p) \/ (Abandon(c) /\ leak' = leak)
  BY DEF ReadPage, ReadDone
<1>2. ASSUME Abandon(c), leak' = leak
      PROVE  IInv' /\ OthersKept(c) /\ Elsewhere(c)
  <2>0. ConnType(c) /\ LevelOK(c) /\ FileType /\ file[p] \in Images /\ op[c] \in {"read", "write"}
    BY OneConn DEF ReadPage, FileType
  <2>1. ctx' = [ctx EXCEPT ![c] = AfterDecode(@, file[p])] /\ ctx'[c] = AfterDecode(ctx[c], file[p])
    BY DEF ReadPage, IInv, TypeInv, Arrays
  <2>2. ctx' = [ctx EXCEPT ![c] = ctx'[c]] /\ CtxOK(ctx'[c])
    BY <2>0, <2>1, DecodeOK DEF ConnType
  <2>3. lock[c] # "NO"
    BY <2>0 DEF LevelOK, Writing, Reading, Strong
  <2>. QED BY <1>2, <2>0, <2>2, <2>3, AbandonStep
<1>. QED BY <1>1, <1>2, ReadDoneStep

\* A page that a rekey cannot decrypt leaves the pager in error and a reference leaked.
LEMMA RekeyBadPageStep ==
  ASSUME IInv, NEW c \in Conns, RekeyBadPage(c)
  PROVE  IInv' /\ OthersKept(c) /\ Elsewhere(c)
<1>0. ConnType(c) /\ LevelOK(c) /\ FileType /\ nxt[c] \in Pages /\ file[nxt[c]] \in Images /\ op[c] = "rekey"
  BY OneConn DEF RekeyBadPage, InLoop, FileType
<1>1. ctx' = [ctx EXCEPT ![c] = AfterDecode(@, file[nxt[c]])]
      /\ ctx'[c] = AfterDecode(ctx[c], file[nxt[c]])
  BY DEF RekeyBadPage, IInv, TypeInv, Arrays
<1>2. ctx' = [ctx EXCEPT ![c] = ctx'[c]] /\ CtxOK(ctx'[c])
  BY <1>0, <1>1, DecodeOK DEF ConnType
<1>. QED BY <1>0, <1>2, AbandonStep DEF RekeyBadPage

---------------------------------------------------------------------------
(* Recovery of a hot journal.                                              *)

\* Recovery has the file for itself.
LEMMA NobodyElse ==
  ASSUME IInv, NEW c \in Conns, WantsShared(c), ~leak[c], ExclusiveFree(c)
  PROVE  \A d \in Conns : lock[d] = "NO" /\ op[d] \notin Writing
<1>1. lock[c] = "NO"
  BY OneConn DEF WantsShared, LevelOK, Unlocked
<1>2. \A d \in Conns : lock[d] = "NO"
  BY <1>1 DEF ExclusiveFree, Others
<1>. QED BY <1>2 DEF IInv, LockInv, LevelOK, Strong

\* The file it leaves is that of the last commit, whole or where the journal has no
\* synced record.
LEMMA RecoverStep ==
  ASSUME IInv, NEW c \in Conns, WantsShared(c), ~leak[c], ExclusiveFree(c),
         Elsewhere(c), ConnType(c)', LevelOK(c)', lock'[c] = "NO",
         FileType', JournalType', op'[c] \notin Writing,
         UNCHANGED <<tx, wrote, committed, anomaly, dirty>>,
         cache'[c] = EmptyCache, vers'[c] \in {vers[c], NoKey},
         journal' = journal \/ journal' = NoJournal,
         \A p \in Pages \ journal'.synced : file'[p].ver = committed.ver[p]
  PROVE  IInv' /\ OthersKept(c)
<1>1. GhostType' /\ TypeInv'
  BY TypeStep DEF IInv, TypeInv, GhostType
<1>2. LockInv'
  <2>1. LockStep(c)
    BY EmptyJournal DEF LockStep, Strong
  <2>. QED BY <2>1, LockKept DEF IInv
<1>3. \A d \in Conns : op'[d] \notin Writing
  BY NobodyElse DEF Elsewhere, Others
<1>4. VersionInv'
  BY <1>3, EmptyJournal DEF IInv, VersionInv, Recs
<1>5. SeenInv'
  <2>1. vers'[c] # NoKey => vers'[c].ver <= tx
    BY DEF IInv, SeenInv
  <2>2. \A d \in Others(c) : op[d] \notin Writing
    BY NobodyElse DEF Others
  <2>. QED BY <2>1, <2>2, SeenKept DEF IInv
<1>6. OthersKept(c)
  BY NobodyElse DEF OthersKept, Others
<1>7. CacheOK(c)'
  <2>1. ~Loaded(c)' /\ Fresh(c)'
    BY DEF Loaded, Fresh, EmptyCache
  <2>2. op'[c] \notin Reading
    BY DEF LevelOK, Reading
  <2>3. dirty[c] = {}
    BY NobodyElse, OneConn DEF CacheOK
  <2>. QED BY <2>1, <2>2, <2>3 DEF CacheOK
<1>8. WriterOK(c)'
  BY DEF WriterOK
<1>9. CacheInv' /\ WriterInv'
  BY <1>6, <1>7, <1>8, CachesKept DEF IInv
<1>. QED BY <1>1, <1>2, <1>4, <1>5, <1>6, <1>9 DEF IInv

\* A whole recovery: the file is that of the last commit, without a journal.
LEMMA RecoverHotStep ==
  ASSUME IInv, NEW c \in Conns, RecoverHot(c)
  PROVE  IInv' /\ OthersKept(c) /\ Elsewhere(c)
<1>0. ConnType(c) /\ LevelOK(c) /\ FileType /\ JournalType /\ WantsShared(c) /\ ~leak[c] /\ ExclusiveFree(c)
  BY OneConn DEF RecoverHot
<1>1. Elsewhere(c)
  BY DEF IInv, TypeInv, Elsewhere, Arrays, Others, RecoverHot, held, ghosts
<1>2. /\ file' = PlayedBack /\ journal' = NoJournal
      /\ UNCHANGED <<tx, wrote, committed, anomaly, dirty, op, lock, ctx, vers, nxt, leak>>
      /\ cache'[c] = EmptyCache
  BY DEF RecoverHot, held, ghosts, IInv, TypeInv, Arrays
<1>3. EmptyCache \in [Pages -> 0..NoPage]
  BY PageOne DEF EmptyCache
<1>4. ConnType(c)' /\ LevelOK(c)' /\ lock'[c] = "NO" /\ op'[c] \notin Writing
  BY <1>0, <1>2, <1>3, NobodyElse DEF ConnType, LevelOK, Unlocked
<1>5. FileType' /\ JournalType'
  BY <1>0, <1>2, PlayedBackOK, EmptyJournal DEF FileType, JournalType, Recs, NoJournal
<1>6. \A p \in Pages : file'[p].ver = committed.ver[p]
  BY <1>0, <1>2, PlayedBackOK DEF IInv, VersionInv, JournalType
<1>. QED BY <1>0, <1>1, <1>2, <1>4, <1>5, <1>6, RecoverStep

\* A recovery that is cut short: the journal stays, and with it what is still missing.
LEMMA RecoverDiesStep ==
  ASSUME IInv, NEW c \in Conns, RecoverDies(c)
  PROVE  IInv' /\ OthersKept(c) /\ Elsewhere(c)
<1>0. ConnType(c) /\ LevelOK(c) /\ FileType /\ JournalType /\ WantsShared(c) /\ ~leak[c] /\ ExclusiveFree(c)
  BY OneConn DEF RecoverDies
<1>1. Elsewhere(c)
  BY DEF IInv, TypeInv, Elsewhere, Arrays, Others, RecoverDies, held, ghosts
<1>2. /\ UNCHANGED <<journal, tx, wrote, committed, anomaly, dirty, lock, nxt, leak>>
      /\ cache'[c] = EmptyCache /\ op'[c] = "closed" /\ ctx'[c] = NewCtx(FirstSecret)
      /\ vers'[c] = NoKey
  BY DEF RecoverDies, held, ghosts, IInv, TypeInv, Arrays
<1>3. EmptyCache \in [Pages -> 0..NoPage] /\ CtxOK(NewCtx(FirstSecret))
  BY PageOne, NewCtxOK, RekeyAssumption DEF EmptyCache
<1>4. ConnType(c)' /\ LevelOK(c)' /\ lock'[c] = "NO" /\ op'[c] \notin Writing
  BY <1>0, <1>2, <1>3, NobodyElse DEF ConnType, LevelOK, Unlocked, Ops, Writing, Reading, Commits
<1>5. PICK S \in SUBSET journal.synced :
         file' = [p \in Pages |-> IF p \in S THEN journal.recs[p] ELSE file[p]]
  BY DEF RecoverDies
<1>6. \A p \in S : p \in Recs /\ journal.recs[p] \in Images
  BY <1>0, <1>5 DEF JournalType
<1>7. FileType'
  BY <1>0, <1>5, <1>6, PageOne DEF FileType, JournalType
<1>8. JournalType'
  BY <1>0, <1>2 DEF JournalType, Recs
<1>9. \A p \in Pages \ journal.synced : file'[p].ver = committed.ver[p]
  BY <1>5 DEF IInv, VersionInv
<1>. QED BY <1>0, <1>1, <1>2, <1>4, <1>7, <1>8, <1>9, RecoverStep

---------------------------------------------------------------------------
(* A write transaction.                                                    *)

\* sqlite3PagerBegin starts from a cache and a file that are those of the last
\* commit, with a transaction number that nothing has yet.
LEMMA BeginStep ==
  ASSUME IInv, NEW c \in Conns, NEW from \in Reading, NEW to \in {"write", "rekey"},
         PagerBegin(c, from, to), anomaly' \in SUBSET {"mixed", "copied"}
  PROVE  IInv' /\ OthersKept(c) /\ Elsewhere(c)
<1>0. /\ ConnType(c) /\ LevelOK(c) /\ CacheOK(c) /\ FileType /\ JournalType /\ GhostType
      /\ op[c] = from /\ lock[c] = "SHARED" /\ op[c] \notin Writing
  BY OneConn DEF PagerBegin, LevelOK, Reading, Writing
<1>1. Elsewhere(c)
  BY DEF IInv, TypeInv, Elsewhere, Arrays, Others, PagerBegin
<1>2. /\ UNCHANGED <<file, journal, committed, ctx, cache, dirty, vers, leak>>
      /\ tx' = tx + 1 /\ wrote' = {} /\ op'[c] = to /\ lock'[c] = "RESERVED" /\ nxt'[c] = 1
      /\ tx < MaxTx /\ ReservedFree(c)
  BY DEF PagerBegin, IInv, TypeInv, Arrays
<1>3. journal.synced = {} /\ \A p \in Pages : file[p].ver = committed.ver[p]
  BY <1>0, NoSyncedRecords
<1>4. TypeInv'
  <2>1. ConnType(c)'
    BY <1>0, <1>2, PageOne DEF ConnType, Ops, Locks
  <2>2. GhostType'
    BY <1>0, <1>2, PageOne DEF GhostType
  <2>3. FileType' /\ JournalType'
    BY <1>0, <1>2 DEF FileType, JournalType, Recs
  <2>. QED BY <1>1, <2>1, <2>2, <2>3, TypeStep DEF IInv
<1>5. \A d \in Others(c) : op[d] \notin Writing
  BY <1>2, OneConn DEF ReservedFree, LevelOK, Strong, IInv, LockInv, Others
<1>6. LockInv'
  <2>1. LevelOK(c)' /\ LockStep(c)
    BY <1>0, <1>2, <1>3 DEF LevelOK, LockStep, Strong, Writing, Reading, Commits
  <2>. QED BY <1>1, <1>4, <2>1, LockKept DEF IInv, TypeInv
<1>7. VersionInv'
  <2>1. tx \in Nat /\ \A p \in Pages : committed.ver[p] \in Nat /\ committed.ver[p] <= tx
    BY <1>0 DEF GhostType, IInv, VersionInv
  <2>2. \A p \in Pages : committed.ver[p] < tx'
    BY <1>2, <2>1
  <2>3. \A p \in Pages : committed.ver[p] <= tx'
    BY <1>2, <2>1
  <2>. QED BY <1>2, <2>2, <2>3 DEF IInv, VersionInv, Recs
<1>8. SeenInv'
  <2>1. \A d \in Conns : vers'[d] # NoKey => vers'[d].ver \in Nat /\ vers'[d].ver <= tx
    BY <1>2 DEF IInv, SeenInv, TypeInv, ConnType, Images
  <2>2. tx \in Nat
    BY <1>0 DEF GhostType
  <2>3. \A d \in Conns : vers'[d] # NoKey => vers'[d].ver < tx' /\ vers'[d].ver <= tx'
    BY <1>2, <2>1, <2>2
  <2>. QED BY <2>3 DEF SeenInv
<1>9. OthersKept(c)
  BY <1>2, <1>5 DEF OthersKept
<1>10. CacheOK(c)'
  BY <1>0, <1>2 DEF CacheOK, Loaded, Reading, Writing
<1>11. WriterOK(c)'
  <2>1. dirty[c] = {} /\ Fresh(c)
    BY <1>0 DEF CacheOK
  <2>2. \A p \in Pages : Want(p)' = committed.ver[p]
    BY <1>2 DEF Want
  <2>3. \A p \in Pages : ~(p < nxt'[c])
    BY <1>2 DEF Pages
  <2>. QED BY <1>2, <1>3, <2>1, <2>2, <2>3 DEF WriterOK, Fresh, Commits
<1>12. CacheInv' /\ WriterInv'
  BY <1>1, <1>9, <1>10, <1>11, CachesKept DEF IInv
<1>. QED BY <1>1, <1>4, <1>6, <1>7, <1>8, <1>9, <1>12 DEF IInv

\* The version of a page that the transaction has before it changes the page.
Before(c, p) == IF cache[c][p] = NoPage THEN file[p].ver ELSE cache[c][p]

\* A page becomes dirty: its image is journaled with the contexts as they are after
\* the keys are derived, and in a commit the journal is synced.
Dirties(c, p, w) ==
    LET j == Journaled(c, Touched(ctx[c]), p, Before(c, p))
    IN  /\ Elsewhere(c)
        /\ UNCHANGED <<file, tx, committed>> /\ vers'[c] = vers[c] /\ leak'[c] = leak[c]
        /\ \/ journal' = j /\ lock'[c] = lock[c]
           \/ journal' = Synced(j) /\ lock'[c] = "EXCLUSIVE" /\ ExclusiveFree(c)
        /\ w \in 0..MaxTx
        /\ cache'[c] = [cache[c] EXCEPT ![p] = w]
        /\ dirty'[c] = dirty[c] \cup {p}
        /\ wrote' \subseteq Pages
        /\ \A q \in Pages : Want(q)' = IF q = p THEN w ELSE Want(q)

\* What is journaled is the page of the last commit.
LEMMA BeforeIsCommitted ==
  ASSUME IInv, NEW c \in Conns, op[c] \in Writing, NEW p \in Pages
  PROVE  /\ Before(c, p) \in 0..MaxTx
         /\ ~(InUse(c) /\ p \in Recs) => p \notin dirty[c] /\ p \notin journal.synced
                                         /\ Before(c, p) = committed.ver[p]
<1>0. ConnType(c) /\ WriterOK(c) /\ FileType /\ JournalType /\ GhostType
  BY OneConn
<1>1. Before(c, p) \in 0..MaxTx
  <2>1. cache[c][p] \in 0..NoPage /\ file[p].ver \in 0..MaxTx
    BY <1>0 DEF ConnType, FileType, Images
  <2>2. cache[c][p] # NoPage => cache[c][p] \in 0..MaxTx
    BY <2>1, PageOne
  <2>. QED BY <2>1, <2>2 DEF Before
<1>2. ASSUME ~(InUse(c) /\ p \in Recs)
      PROVE  p \notin dirty[c] /\ p \notin journal.synced
  BY <1>0, <1>2 DEF InUse, WriterOK, JournalType
<1>3. ASSUME ~(InUse(c) /\ p \in Recs) PROVE Before(c, p) = committed.ver[p]
  <2>1. file[p].ver = Want(p) /\ file[p].ver = committed.ver[p]
    BY <1>0, <1>2, <1>3 DEF WriterOK, IInv, VersionInv
  <2>. QED BY <1>0, <2>1 DEF Before, WriterOK
<1>. QED BY <1>1, <1>2, <1>3

\* The journal afterwards.
LEMMA DirtiesJournal ==
  ASSUME IInv, NEW c \in Conns, op[c] \in Writing, ~ctx[c].error, NEW p \in Pages, NEW w,
         Dirties(c, p, w)
  PROVE  /\ JournalType'
         /\ Recs' = (IF InUse(c) THEN Recs ELSE {}) \cup {p}
         /\ \A q \in Recs' : \/ /\ q = p /\ ~(InUse(c) /\ p \in Recs)
                                /\ journal'.recs[q].key = Touched(ctx[c]).rKey
                                /\ journal'.recs[q].ver = committed.ver[p]
                                /\ p = 1 => journal'.recs[q].salt = Touched(ctx[c]).salt
                             \/ InUse(c) /\ q \in Recs /\ journal'.recs[q] = journal.recs[q]
         /\ dirty'[c] \subseteq Recs'
         /\ journal'.synced = journal.synced \/ (journal'.synced = Recs' /\ lock'[c] = "EXCLUSIVE")
         /\ journal.synced \subseteq journal'.synced
         /\ InUse(c)'
<1>0. ConnType(c) /\ CacheOK(c) /\ WriterOK(c) /\ FileType /\ JournalType /\ CtxOK(ctx[c])
  BY OneConn DEF ConnType
<1>1. PICK x : x = Touched(ctx[c])
  OBVIOUS
<1>2. CtxOK(x) /\ x.rKey \in Keys /\ x.salt \in Salts
  BY <1>0, <1>1, TouchedOK
<1>3. PICK v \in 0..MaxTx : v = Before(c, p)
  BY BeforeIsCommitted
<1>4. PICK j : j = Journaled(c, x, p, v)
  OBVIOUS
<1>5. /\ j = [on |-> j.on, recs |-> j.recs, synced |-> j.synced] /\ j.on = TRUE
      /\ j.synced = journal.synced
      /\ DOMAIN j.recs = (IF InUse(c) THEN Recs ELSE {}) \cup {p}
      /\ \A q \in DOMAIN j.recs :
           IF q = p /\ ~(InUse(c) /\ p \in Recs) THEN j.recs[q] = JournalImage(x, p, v)
           ELSE InUse(c) /\ q \in Recs /\ j.recs[q] = journal.recs[q]
      /\ JournalImage(x, p, v) \in Images
      /\ JournalImage(x, p, v).key = x.rKey /\ JournalImage(x, p, v).ver = v
      /\ JournalImage(x, 1, v).salt = x.salt
  BY <1>0, <1>2, <1>4, JournaledOK
<1>6. journal' = j \/ (journal' = Synced(j) /\ lock'[c] = "EXCLUSIVE")
  BY <1>1, <1>3, <1>4 DEF Dirties
<1>7. Synced(j) = [on |-> j.on, recs |-> j.recs, synced |-> DOMAIN j.recs]
  BY <1>5 DEF Synced
<1>8. /\ journal' = [on |-> journal'.on, recs |-> journal'.recs, synced |-> journal'.synced]
      /\ journal'.on = TRUE /\ journal'.recs = j.recs
      /\ journal'.synced = journal.synced \/ (journal'.synced = DOMAIN j.recs /\ lock'[c] = "EXCLUSIVE")
  BY <1>5, <1>6, <1>7
<1>9. journal.synced \subseteq DOMAIN j.recs
  BY <1>0, <1>5 DEF JournalType, InUse
<1>10. \A q \in DOMAIN j.recs : j.recs[q] \in Images
  BY <1>0, <1>5 DEF JournalType
<1>11. 1 \in DOMAIN j.recs => j.recs[1].salt \in Salts
  BY <1>0, <1>2, <1>5 DEF JournalType
<1>12. DOMAIN j.recs \subseteq Pages
  BY <1>0, <1>5 DEF JournalType
<1>13. Recs' = DOMAIN j.recs
  BY <1>8 DEF Recs
<1>14. JournalType'
  BY <1>8, <1>9, <1>10, <1>11, <1>12, <1>13 DEF JournalType
<1>15. dirty'[c] \subseteq Recs'
  BY <1>0, <1>5, <1>13 DEF Dirties, WriterOK, InUse
<1>16. InUse(c)'
  BY DEF Dirties, InUse
<1>17. \A q \in Recs' : \/ /\ q = p /\ ~(InUse(c) /\ p \in Recs)
                           /\ journal'.recs[q].key = x.rKey
                           /\ journal'.recs[q].ver = committed.ver[p]
                           /\ p = 1 => journal'.recs[q].salt = x.salt
                        \/ InUse(c) /\ q \in Recs /\ journal'.recs[q] = journal.recs[q]
  BY <1>3, <1>5, <1>8, <1>13, BeforeIsCommitted
<1>. QED BY <1>1, <1>5, <1>8, <1>9, <1>13, <1>14, <1>15, <1>16, <1>17

\* What such a step has to keep besides.
LEMMA DirtiesStep ==
  ASSUME IInv, NEW c \in Conns, op[c] \in Writing, ~ctx[c].error, NEW p \in Pages, NEW w,
         Dirties(c, p, w),
         op'[c] \in Writing, nxt'[c] \in 1..(NPages + 1),
         CtxOK(ctx'[c]), ctx'[c].used, ~ctx'[c].error, ctx'[c].rKey # NoKey, ctx'[c].wKey # NoKey,
         anomaly' \subseteq {"mixed", "copied"},
         op'[c] \in Commits => /\ p = 1 /\ 1 \in wrote' /\ lock'[c] = "EXCLUSIVE"
                               /\ journal'.synced = Recs',
         op'[c] = "rekey" => /\ op[c] = "rekey" /\ wrote' = {}
                             /\ \A q \in Pages : q < nxt'[c] => q = p \/ q < nxt[c],
         op'[c] = "rekeycommit" => \A q \in Pages : q \in Recs /\ InUse(c)
  PROVE  IInv' /\ OthersKept(c) /\ Elsewhere(c)
<1>0. ConnType(c) /\ LevelOK(c) /\ CacheOK(c) /\ WriterOK(c) /\ FileType /\ JournalType /\ GhostType
  BY OneConn
<1>1. Elsewhere(c) /\ OthersKept(c)
  BY OneWriter DEF Dirties, OthersKept, IInv
<1>2. \A q \in Pages : cache'[c][q] = IF q = p THEN w ELSE cache[c][q]
  BY <1>0 DEF Dirties, ConnType
<1>3. TypeInv'
  <2>1. ConnType(c)'
    BY <1>0, PageOne DEF Dirties, ConnType, Ops, Writing, Locks
  <2>2. GhostType' /\ FileType'
    BY <1>0 DEF Dirties, GhostType, FileType
  <2>. QED BY <1>1, <2>1, <2>2, DirtiesJournal, TypeStep DEF IInv
<1>4. LockInv'
  <2>1. LevelOK(c)'
    BY <1>0 DEF LevelOK, Dirties, Writing, Reading, Commits, Strong
  <2>2. LockStep(c)
    <3>1. journal'.synced # {} => lock'[c] = "EXCLUSIVE" \/ (lock'[c] = lock[c] /\ journal.synced # {})
      BY DirtiesJournal DEF Dirties
    <3>2. lock[c] \in Strong
      BY <1>0 DEF LevelOK
    <3>. QED BY <3>1, <3>2 DEF Dirties, LockStep, Strong
  <2>. QED BY <1>1, <1>3, <2>1, <2>2, LockKept DEF IInv, TypeInv
<1>5. VersionInv'
  <2>1. \A q \in Recs' : journal'.recs[q].ver = committed.ver[q]
    BY DirtiesJournal DEF IInv, VersionInv
  <2>2. \A q \in Pages \ journal'.synced : file[q].ver = committed.ver[q]
    BY DirtiesJournal DEF IInv, VersionInv
  <2>3. \A d \in Conns : op'[d] \in Writing => op[d] \in Writing
    BY <1>1 DEF Elsewhere, Others
  <2>. QED BY <2>1, <2>2, <2>3 DEF IInv, VersionInv, Dirties
<1>6. SeenInv'
  BY <1>1, SeenKept DEF IInv, SeenInv, Dirties, Others
<1>7. CacheOK(c)'
  <2>1. Loaded(c) /\ cache[c][1] # NoPage
    BY <1>0, PageOne DEF CacheOK, Loaded
  <2>2. w # NoPage
    BY PageOne DEF Dirties
  <2>3. cache'[c][1] # NoPage
    BY <1>2, <2>1, <2>2, PageOne
  <2>. QED BY <1>0, <2>1, <2>3 DEF CacheOK, Dirties, Writing
<1>8. WriterOK(c)'
  <2>1. \A q \in Pages : cache'[c][q] # NoPage => cache'[c][q] = Want(q)'
    BY <1>0, <1>2 DEF WriterOK, Dirties
  <2>2. \A q \in dirty'[c] : cache'[c][q] # NoPage
    BY <1>0, <1>2, PageOne DEF WriterOK, Dirties, ConnType
  <2>3. \A q \in Pages \ dirty'[c] : file'[q].ver = Want(q)'
    BY <1>0 DEF WriterOK, Dirties
  <2>4. dirty'[c] \subseteq Recs' /\ InUse(c)' /\ p \in Recs'
    BY DirtiesJournal
  <2>5. op'[c] \in Commits => /\ dirty'[c] \subseteq journal'.synced /\ 1 \in journal'.synced
                              /\ 1 \in wrote' /\ 1 \in dirty'[c]
    BY <2>4 DEF Dirties
  <2>6. op'[c] = "rekey" => \A q \in Pages : q < nxt'[c] => q \in Recs'
    BY <1>0, <2>4, DirtiesJournal DEF WriterOK
  <2>7. op'[c] = "rekeycommit" => Recs' = Pages
    <3>1. Recs' \subseteq Pages
      BY <1>3 DEF TypeInv, JournalType
    <3>2. InUse(c) => Recs \subseteq Recs'
      BY DirtiesJournal
    <3>3. op'[c] = "rekeycommit" => InUse(c) /\ Pages \subseteq Recs
      BY PageOne
    <3>. QED BY <3>1, <3>2, <3>3
  <2>. QED BY <2>1, <2>2, <2>3, <2>4, <2>5, <2>6, <2>7 DEF WriterOK
<1>9. CacheInv' /\ WriterInv'
  BY <1>1, <1>7, <1>8, CachesKept DEF IInv
<1>. QED BY <1>1, <1>3, <1>4, <1>5, <1>6, <1>9 DEF IInv

\* KeyCopied gives a context of the same kind.
LEMMA KeyCopiedOK ==
  ASSUME NEW x, CtxOK(x)
  PROVE  /\ x.wKey # NoKey => CtxOK(KeyCopied(x))
         /\ KeyCopied(x).used = x.used /\ KeyCopied(x).error = x.error
         /\ KeyCopied(x).rKey = x.wKey /\ KeyCopied(x).wKey = x.wKey
         /\ KeyCopied(x).rPass = x.wPass /\ KeyCopied(x).wPass = x.wPass
         /\ KeyCopied(x).salt = x.salt
<1>0. x \in Ctxs
  BY DEF CtxOK
<1>1. KeyCopied(x) = [rPass |-> x.wPass, wPass |-> x.wPass, rKey |-> x.wKey, wKey |-> x.wKey,
                      salt |-> x.salt, used |-> x.used, error |-> x.error]
  <2>1. PICK wPass, wKey : wPass = x.wPass /\ wKey = x.wKey
    OBVIOUS
  <2>2. KeyCopied(x) = [x EXCEPT !.rPass = wPass, !.rKey = wKey]
    BY <2>1 DEF KeyCopied
  <2>. QED BY <1>0, <2>1, <2>2 DEF Ctxs
<1>2. KeyCopied(x) \in Ctxs
  BY <1>0, <1>1 DEF Ctxs
<1>. QED BY <1>1, <1>2 DEF CtxOK

\* pager_write of an ordinary statement.
LEMMA PageWriteDirties ==
  ASSUME IInv, NEW c \in Conns, NEW p \in Pages, PageWrite(c, p)
  PROVE  Dirties(c, p, tx) /\ ctx'[c] = Touched(ctx[c]) /\ op' = op /\ nxt' = nxt /\ anomaly' = anomaly
         /\ journal' = Journaled(c, Touched(ctx[c]), p, Before(c, p))
<1>0. ConnType(c) /\ GhostType
  BY OneConn
<1>1. Elsewhere(c)
  BY DEF IInv, TypeInv, Elsewhere, Arrays, Others, PageWrite, held
<1>2. ctx'[c] = Touched(ctx[c]) /\ Before(c, p) = cache[c][p]
  BY DEF PageWrite, Touched, IInv, TypeInv, Arrays, Before
<1>3. \A q \in Pages : Want(q)' = IF q = p THEN tx ELSE Want(q)
  BY DEF PageWrite, Want
<1>. QED BY <1>0, <1>1, <1>2, <1>3 DEF Dirties, PageWrite, held, GhostType, IInv, TypeInv, Arrays

\* A statement that changes a page.
LEMMA PageWriteStep ==
  ASSUME IInv, NEW c \in Conns, NEW p \in Pages, PageWrite(c, p)
  PROVE  IInv' /\ OthersKept(c) /\ Elsewhere(c)
<1>1. ConnType(c) /\ FileType /\ GhostType /\ CtxOK(ctx[c]) /\ op[c] = "write" /\ ~ctx[c].error
  BY OneConn DEF PageWrite, ConnType
<1>2. /\ CtxOK(ctx'[c]) /\ ctx'[c].used /\ ~ctx'[c].error
      /\ ctx'[c].rKey # NoKey /\ ctx'[c].wKey # NoKey
  BY <1>1, PageWriteDirties, TouchedOK, NoKeyIsNone
<1>. QED BY <1>1, <1>2, PageWriteDirties, DirtiesStep DEF Writing, Commits, ConnType, GhostType

\* COMMIT: the change counter of page 1, and syncJournal if nobody reads.
LEMMA CommitDirties ==
  ASSUME IInv, NEW c \in Conns, Commit(c)
  PROVE  /\ Dirties(c, 1, tx) /\ ctx'[c] = Touched(ctx[c]) /\ nxt' = nxt /\ anomaly' = anomaly
         /\ op[c] = "write" /\ op'[c] \in {"write", "commit"} /\ 1 \in wrote'
         /\ op'[c] = "commit" =>
              /\ journal' = Synced(Journaled(c, Touched(ctx[c]), 1, Before(c, 1)))
              /\ lock'[c] = "EXCLUSIVE"
<1>0. ConnType(c) /\ GhostType /\ CacheOK(c) /\ op[c] = "write" /\ cache[c][1] # NoPage
  BY OneConn DEF CacheOK, Commit, Writing
<1>1. Elsewhere(c)
  BY DEF IInv, TypeInv, Elsewhere, Arrays, Others, Commit, CommitPhaseOne
<1>2. ctx'[c] = Touched(ctx[c]) /\ Before(c, 1) = cache[c][1]
  BY <1>0 DEF Commit, CommitPhaseOne, Touched, IInv, TypeInv, Arrays, Before
<1>3. \A q \in Pages : Want(q)' = IF q = 1 THEN tx ELSE Want(q)
  BY DEF Commit, CommitPhaseOne, Want
<1>4. /\ UNCHANGED <<file, vers, nxt, leak, tx, committed, anomaly>>
      /\ cache'[c] = [cache[c] EXCEPT ![1] = tx] /\ dirty'[c] = dirty[c] \cup {1}
      /\ wrote' = wrote \cup {1}
      /\ op'[c] = IF ExclusiveFree(c) THEN "commit" ELSE "write"
      /\ lock'[c] = IF ExclusiveFree(c) THEN "EXCLUSIVE" ELSE lock[c]
  BY <1>0 DEF Commit, CommitPhaseOne, IInv, TypeInv, Arrays
<1>5. journal' = IF ExclusiveFree(c) THEN Synced(Journaled(c, Touched(ctx[c]), 1, Before(c, 1)))
                 ELSE Journaled(c, Touched(ctx[c]), 1, Before(c, 1))
  BY <1>2 DEF Commit, CommitPhaseOne
<1>6. wrote' \subseteq Pages /\ tx \in 0..MaxTx
  BY <1>0, <1>4, PageOne DEF GhostType
<1>7. Dirties(c, 1, tx)
  <2>1. CASE ExclusiveFree(c)
    BY <1>1, <1>3, <1>4, <1>5, <1>6, <2>1 DEF Dirties
  <2>2. CASE ~ExclusiveFree(c)
    BY <1>1, <1>3, <1>4, <1>5, <1>6, <2>2 DEF Dirties
  <2>. QED BY <2>1, <2>2
<1>. QED BY <1>0, <1>2, <1>4, <1>5, <1>7

\* A journal that has been synced has no record that is not.
LEMMA SyncedAll ==
  ASSUME JournalType, NEW c \in Conns, NEW x, CtxOK(x), x.rKey \in Keys, x.salt \in Salts,
         NEW p \in Pages, NEW v \in 0..MaxTx, journal' = Synced(Journaled(c, x, p, v))
  PROVE  journal'.synced = Recs'
<1>1. PICK j : j = Journaled(c, x, p, v)
  OBVIOUS
<1>2. j = [on |-> j.on, recs |-> j.recs, synced |-> j.synced]
  BY <1>1, JournaledOK
<1>3. Synced(j) = [on |-> j.on, recs |-> j.recs, synced |-> DOMAIN j.recs]
  BY <1>2 DEF Synced
<1>. QED BY <1>1, <1>3 DEF Recs

\* A COMMIT, up to the sync of the journal.
LEMMA CommitStep ==
  ASSUME IInv, NEW c \in Conns, Commit(c)
  PROVE  IInv' /\ OthersKept(c) /\ Elsewhere(c)
<1>1. ConnType(c) /\ FileType /\ GhostType /\ JournalType /\ CtxOK(ctx[c]) /\ ~ctx[c].error
  BY OneConn DEF Commit, CommitPhaseOne, ConnType
<1>2. /\ CtxOK(ctx'[c]) /\ ctx'[c].used /\ ~ctx'[c].error
      /\ ctx'[c].rKey # NoKey /\ ctx'[c].wKey # NoKey
  BY <1>1, CommitDirties, TouchedOK, NoKeyIsNone
<1>3. op'[c] \in Commits => journal'.synced = Recs'
  <2>1. CtxOK(Touched(ctx[c])) /\ Touched(ctx[c]).rKey \in Keys /\ Touched(ctx[c]).salt \in Salts
    BY <1>1, TouchedOK
  <2>2. Before(c, 1) \in 0..MaxTx
    BY BeforeIsCommitted, CommitDirties, PageOne DEF Writing
  <2>. QED BY <1>1, <2>1, <2>2, CommitDirties, SyncedAll, PageOne DEF Commits
<1>. QED BY <1>1, <1>2, <1>3, CommitDirties, DirtiesStep, PageOne DEF Writing, Commits, ConnType, GhostType

\* The next page of a rekey: rewritten, with the version it had.
LEMMA RekeyPageDirties ==
  ASSUME IInv, NEW c \in Conns, RekeyPage(c)
  PROVE  /\ nxt[c] \in Pages /\ Dirties(c, nxt[c], Before(c, nxt[c])) /\ ~ctx[c].error
         /\ op[c] = "rekey" /\ op'[c] = "rekey" /\ wrote' = wrote /\ anomaly' = anomaly
         /\ ctx'[c] = Touched(ctx[c]) /\ nxt'[c] = nxt[c] + 1
         /\ journal' = Journaled(c, Touched(ctx[c]), nxt[c], Before(c, nxt[c]))
<1>0. /\ ConnType(c) /\ GhostType /\ FileType /\ CacheOK(c) /\ WriterOK(c) /\ op[c] = "rekey"
      /\ nxt[c] \in Pages /\ op[c] \in Writing /\ op[c] \notin Reading
  BY OneConn DEF RekeyPage, InLoop, Writing, Reading
<1>1. Elsewhere(c)
  BY DEF IInv, TypeInv, Elsewhere, Arrays, Others, RekeyPage, ghosts
<1>2. /\ ctx'[c] = Touched(ctx[c]) /\ nxt'[c] = nxt[c] + 1 /\ op' = op /\ lock' = lock
      /\ UNCHANGED <<file, vers, leak, tx, committed, wrote, anomaly>>
      /\ cache'[c] = [cache[c] EXCEPT ![nxt[c]] = Before(c, nxt[c])]
      /\ dirty'[c] = dirty[c] \cup {nxt[c]}
      /\ journal' = Journaled(c, Touched(ctx[c]), nxt[c], Before(c, nxt[c]))
  BY DEF RekeyPage, Touched, IInv, TypeInv, Arrays, Before, ghosts
<1>3. ~ctx[c].error
  BY <1>0, PageOne DEF CacheOK, Loaded
<1>4. Before(c, nxt[c]) = Want(nxt[c])
  <2>1. cache[c][nxt[c]] = NoPage => nxt[c] \notin dirty[c]
    BY <1>0 DEF WriterOK
  <2>. QED BY <1>0, <2>1 DEF WriterOK, Before
<1>5. \A q \in Pages : Want(q)' = IF q = nxt[c] THEN Before(c, nxt[c]) ELSE Want(q)
  BY <1>2, <1>4 DEF Want
<1>6. Before(c, nxt[c]) \in 0..MaxTx
  BY <1>0, BeforeIsCommitted
<1>7. Dirties(c, nxt[c], Before(c, nxt[c]))
  BY <1>0, <1>1, <1>2, <1>5, <1>6 DEF Dirties, GhostType
<1>. QED BY <1>0, <1>2, <1>3, <1>7

\* One round of the loop of sqlite3_rekey_v2.
LEMMA RekeyPageStep ==
  ASSUME IInv, NEW c \in Conns, RekeyPage(c)
  PROVE  IInv' /\ OthersKept(c) /\ Elsewhere(c)
<1>1. ConnType(c) /\ FileType /\ GhostType /\ CtxOK(ctx[c]) /\ WriterOK(c)
  BY OneConn DEF ConnType
<1>2. /\ CtxOK(ctx'[c]) /\ ctx'[c].used /\ ~ctx'[c].error
      /\ ctx'[c].rKey # NoKey /\ ctx'[c].wKey # NoKey
  BY <1>1, RekeyPageDirties, TouchedOK, NoKeyIsNone
<1>3. wrote = {}
  BY <1>1, RekeyPageDirties DEF WriterOK, Writing
<1>4. nxt'[c] \in 1..(NPages + 1) /\ \A q \in Pages : q < nxt'[c] => q = nxt[c] \/ q < nxt[c]
  BY <1>1, RekeyPageDirties, PageOne DEF Pages
<1>5. anomaly' \subseteq {"mixed", "copied"}
  BY <1>1, RekeyPageDirties DEF GhostType
<1>. QED BY <1>2, <1>3, <1>4, <1>5, RekeyPageDirties, DirtiesStep DEF Writing, Commits

\* The first half of the commit of a rekey; the key is copied if it fails.
LEMMA RekeyCommitDirties ==
  ASSUME IInv, NEW c \in Conns, RekeyCommit(c)
  PROVE  /\ Dirties(c, 1, tx) /\ ~ctx[c].error /\ nxt' = nxt /\ wrote' = {1}
         /\ op[c] = "rekey" /\ nxt[c] \notin Pages
         /\ \/ /\ op'[c] = "rekeycommit" /\ ctx'[c] = Touched(ctx[c]) /\ lock'[c] = "EXCLUSIVE"
               /\ journal' = Synced(Journaled(c, Touched(ctx[c]), 1, Before(c, 1)))
               /\ anomaly' = anomaly
            \/ /\ op'[c] = "write" /\ ctx'[c] = KeyCopied(Touched(ctx[c]))
               /\ anomaly' = anomaly \cup {"copied"}
<1>0. /\ ConnType(c) /\ GhostType /\ CacheOK(c) /\ WriterOK(c) /\ op[c] = "rekey" /\ cache[c][1] # NoPage
      /\ op[c] \in Writing
  BY OneConn DEF CacheOK, RekeyCommit, Writing
<1>1. Elsewhere(c)
  BY DEF IInv, TypeInv, Elsewhere, Arrays, Others, RekeyCommit
<1>2. Before(c, 1) = cache[c][1] /\ wrote = {}
  BY <1>0 DEF Before, WriterOK
<1>3. wrote' = {1} /\ tx' = tx /\ committed' = committed
  BY DEF RekeyCommit
<1>4. \A q \in Pages : Want(q)' = IF q = 1 THEN tx ELSE Want(q)
  BY <1>2, <1>3 DEF Want
<1>5. /\ UNCHANGED <<file, vers, nxt, leak>>
      /\ cache'[c] = [cache[c] EXCEPT ![1] = tx] /\ dirty'[c] = dirty[c] \cup {1}
      /\ op'[c] = IF ExclusiveFree(c) THEN "rekeycommit" ELSE "write"
      /\ lock'[c] = IF ExclusiveFree(c) THEN "EXCLUSIVE" ELSE lock[c]
      /\ anomaly' = IF ExclusiveFree(c) THEN anomaly ELSE anomaly \cup {"copied"}
  BY DEF RekeyCommit, IInv, TypeInv, Arrays
<1>6. /\ ctx'[c] = IF ExclusiveFree(c) THEN Touched(ctx[c]) ELSE KeyCopied(Touched(ctx[c]))
      /\ journal' = IF ExclusiveFree(c) THEN Synced(Journaled(c, Touched(ctx[c]), 1, Before(c, 1)))
                    ELSE Journaled(c, Touched(ctx[c]), 1, Before(c, 1))
  BY <1>2 DEF RekeyCommit, Touched, IInv, TypeInv, Arrays
<1>7. wrote' \subseteq Pages /\ tx \in 0..MaxTx
  BY <1>0, <1>3, PageOne DEF GhostType
<1>8. Dirties(c, 1, tx)
  <2>1. CASE ExclusiveFree(c)
    BY <1>1, <1>3, <1>4, <1>5, <1>6, <1>7, <2>1 DEF Dirties
  <2>2. CASE ~ExclusiveFree(c)
    BY <1>1, <1>3, <1>4, <1>5, <1>6, <1>7, <2>2 DEF Dirties
  <2>. QED BY <2>1, <2>2
<1>. QED BY <1>0, <1>3, <1>5, <1>6, <1>8 DEF RekeyCommit

\* The end of that loop, whether the commit goes on or a reader is in the way.
LEMMA RekeyCommitStep ==
  ASSUME IInv, NEW c \in Conns, RekeyCommit(c)
  PROVE  IInv' /\ OthersKept(c) /\ Elsewhere(c)
<1>1. /\ ConnType(c) /\ FileType /\ GhostType /\ JournalType /\ CtxOK(ctx[c]) /\ ~ctx[c].error
      /\ WriterOK(c) /\ op[c] \in Writing
  BY OneConn, RekeyCommitDirties DEF ConnType, Writing
<1>2. /\ CtxOK(Touched(ctx[c])) /\ Touched(ctx[c]).used /\ ~Touched(ctx[c]).error
      /\ Touched(ctx[c]).rKey \in Keys /\ Touched(ctx[c]).wKey \in Keys /\ Touched(ctx[c]).salt \in Salts
  BY <1>1, TouchedOK
<1>3. /\ CtxOK(ctx'[c]) /\ ctx'[c].used /\ ~ctx'[c].error
      /\ ctx'[c].rKey # NoKey /\ ctx'[c].wKey # NoKey
  BY <1>2, RekeyCommitDirties, KeyCopiedOK, NoKeyIsNone
<1>4. op'[c] \in Commits => journal'.synced = Recs'
  <2>1. Before(c, 1) \in 0..MaxTx
    BY BeforeIsCommitted, <1>1, PageOne
  <2>. QED BY <1>1, <1>2, <2>1, RekeyCommitDirties, SyncedAll, PageOne DEF Commits
<1>5. \A q \in Pages : q \in Recs /\ InUse(c)
  <2>1. \A q \in Pages : q < nxt[c]
    BY <1>1, RekeyCommitDirties, PageOne DEF Pages, ConnType
  <2>. QED BY <1>1, <2>1, RekeyCommitDirties DEF WriterOK
<1>6. nxt'[c] \in 1..(NPages + 1) /\ anomaly' \subseteq {"mixed", "copied"} /\ 1 \in wrote'
      /\ op'[c] \in {"rekeycommit", "write"}
  BY <1>1, RekeyCommitDirties DEF ConnType, GhostType
<1>. QED BY <1>1, <1>3, <1>4, <1>5, <1>6, RekeyCommitDirties, DirtiesStep, PageOne DEF Writing, Commits

\* A dirty page goes to the file: its journal record is synced.
WritesOut(c, p) ==
    /\ op[c] \in Writing /\ p \in dirty[c]
    /\ Elsewhere(c)
    /\ UNCHANGED <<op, ctx, nxt, leak, tx, committed, wrote, anomaly>>
    /\ \/ lock'[c] = lock[c] /\ journal' = journal /\ p \in journal.synced
       \/ lock'[c] = "EXCLUSIVE" /\ ExclusiveFree(c) /\ journal' = Synced(journal)
    /\ file' = [file EXCEPT ![p] = WriteImage(ctx[c], p, cache[c][p])]
    /\ \/ cache'[c] = cache[c]
       \/ p # 1 /\ op[c] \notin Commits /\ cache'[c] = [cache[c] EXCEPT ![p] = NoPage]
    /\ dirty'[c] = dirty[c] \ {p}
    /\ vers'[c] = IF p = 1 THEN file'[1] ELSE vers[c]

\* A page is encrypted with the key of the write context; page 1 shows the salt.
LEMMA WriteImageOK ==
  ASSUME NEW x, CtxOK(x), x.wKey # NoKey, NEW p \in Pages, NEW v \in 0..MaxTx
  PROVE  /\ WriteImage(x, p, v) \in Images
         /\ WriteImage(x, p, v).key = x.wKey /\ WriteImage(x, p, v).ver = v
         /\ p = 1 => WriteImage(x, p, v).salt = x.salt /\ x.salt \in Salts
  BY DEF WriteImage, Header, Images, CtxOK, Ctxs

\* The file and the journal afterwards.
LEMMA WritesOutFile ==
  ASSUME IInv, NEW c \in Conns, NEW p \in Pages, WritesOut(c, p)
  PROVE  /\ FileType' /\ JournalType' /\ ctx[c].wKey # NoKey
         /\ \A q \in Pages \ {p} : file'[q] = file[q]
         /\ file'[p].key = ctx[c].wKey /\ file'[p].ver = Want(p) /\ Want(p) \in 0..MaxTx
         /\ p = 1 => file'[1].salt = ctx[c].salt
         /\ Recs' = Recs /\ journal'.recs = journal.recs /\ p \in journal'.synced /\ p \in Recs
         /\ journal.synced \subseteq journal'.synced
         /\ journal'.synced = journal.synced \/ lock'[c] = "EXCLUSIVE"
<1>0. ConnType(c) /\ WriterOK(c) /\ FileType /\ JournalType /\ CtxOK(ctx[c]) /\ op[c] \in Writing
  BY OneConn DEF ConnType, WritesOut
<1>1. ctx[c].wKey # NoKey /\ p \in Recs
  BY <1>0 DEF WriterOK, WritesOut
<1>2. cache[c][p] = Want(p) /\ cache[c][p] \in 0..MaxTx
  <2>1. cache[c][p] = Want(p) /\ cache[c][p] # NoPage /\ cache[c][p] \in 0..NoPage
    BY <1>0 DEF WriterOK, ConnType, WritesOut
  <2>. QED BY <2>1, PageOne
<1>3. PICK image \in Images : /\ image = WriteImage(ctx[c], p, cache[c][p])
                              /\ image.key = ctx[c].wKey /\ image.ver = Want(p)
                              /\ p = 1 => image.salt = ctx[c].salt /\ ctx[c].salt \in Salts
  BY <1>0, <1>1, <1>2, WriteImageOK
<1>4. file' = [file EXCEPT ![p] = image]
  BY <1>3 DEF WritesOut
<1>5. FileType' /\ file'[p] = image /\ \A q \in Pages \ {p} : file'[q] = file[q]
  BY <1>0, <1>3, <1>4, PageOne DEF FileType
<1>6. journal' = journal \/ journal' = [on |-> journal.on, recs |-> journal.recs, synced |-> Recs]
  BY <1>0 DEF WritesOut, Synced, JournalType, Recs
<1>7. /\ Recs' = Recs /\ journal'.recs = journal.recs /\ p \in journal'.synced
      /\ journal.synced \subseteq journal'.synced /\ JournalType'
  BY <1>0, <1>1, <1>6 DEF WritesOut, JournalType, Recs, Synced
<1>8. journal'.synced = journal.synced \/ lock'[c] = "EXCLUSIVE"
  BY DEF WritesOut
<1>. QED BY <1>1, <1>2, <1>3, <1>5, <1>7, <1>8

\* What the writer has in the file is what it will commit.
LEMMA WritesOutStep ==
  ASSUME IInv, NEW c \in Conns, NEW p \in Pages, WritesOut(c, p)
  PROVE  IInv' /\ OthersKept(c) /\ Elsewhere(c)
<1>0. /\ ConnType(c) /\ LevelOK(c) /\ CacheOK(c) /\ WriterOK(c) /\ FileType /\ GhostType
      /\ op[c] \in Writing /\ op'[c] = op[c]
  BY OneConn DEF WritesOut
<1>1. Elsewhere(c) /\ OthersKept(c)
  BY OneWriter DEF WritesOut, OthersKept, IInv
<1>2. \A q \in Pages : cache'[c][q] \in {NoPage, cache[c][q]}
  BY <1>0 DEF WritesOut, ConnType
<1>10. /\ p \in dirty[c] /\ dirty'[c] = dirty[c] \ {p}
       /\ vers'[c] = IF p = 1 THEN file'[1] ELSE vers[c]
       /\ tx' = tx
  BY DEF WritesOut
<1>11. /\ \A q \in Pages \ {p} : file'[q] = file[q]
       /\ file'[p].ver = Want(p) /\ file'[p] \in Images /\ p \in journal'.synced
       /\ journal.synced \subseteq journal'.synced
  BY WritesOutFile DEF FileType
<1>3. TypeInv'
  <2>1. ConnType(c)'
    <3>1. cache'[c] \in [Pages -> 0..NoPage]
      BY <1>0, PageOne DEF WritesOut, ConnType
    <3>2. vers'[c] \in Images \cup {NoKey}
      BY <1>0, WritesOutFile, PageOne DEF WritesOut, ConnType, FileType
    <3>. QED BY <1>0, <3>1, <3>2 DEF WritesOut, ConnType, Locks
  <2>2. GhostType'
    BY <1>0 DEF GhostType, WritesOut
  <2>. QED BY <1>1, <2>1, <2>2, WritesOutFile, TypeStep DEF IInv
<1>4. LockInv'
  <2>1. lock[c] \in Strong
    BY <1>0 DEF LevelOK
  <2>2. LevelOK(c)'
    BY <1>0 DEF LevelOK, WritesOut, Writing, Reading, Commits, Strong
  <2>3. LockStep(c)
    BY <2>1, WritesOutFile DEF LockStep, WritesOut, Strong
  <2>. QED BY <1>1, <1>3, <2>2, <2>3, LockKept DEF IInv, TypeInv
<1>5. VersionInv'
  BY WritesOutFile DEF IInv, VersionInv, WritesOut
<1>6. SeenInv'
  <2>1. Want(p) <= tx
    BY <1>0 DEF Want, IInv, VersionInv, GhostType
  <2>2. vers'[c] # NoKey => vers'[c].ver <= tx
    BY <1>10, <1>11, <2>1 DEF IInv, SeenInv
  <2>3. \A d \in Others(c) : op[d] \notin Writing
    BY <1>0, OneWriter DEF IInv
  <2>. QED BY <1>1, <2>2, <2>3, SeenKept DEF IInv, WritesOut
<1>7. CacheOK(c)'
  <2>1. cache[c][1] # NoPage /\ cache'[c][1] # NoPage
    BY <1>0, PageOne DEF CacheOK, WritesOut, ConnType
  <2>2. Loaded(c)
    BY <2>1, PageOne DEF Loaded
  <2>3. vers'[c] # NoKey
    BY <1>0, <1>10, <1>11, <2>2, NoKeyIsNone DEF CacheOK
  <2>. QED BY <1>0, <2>1, <2>2, <2>3 DEF CacheOK, WritesOut, Writing
<1>8. WriterOK(c)'
  <2>0. \A q \in Pages : Want(q)' = Want(q)
    BY DEF Want, WritesOut
  <2>1. \A q \in Pages : cache'[c][q] # NoPage => cache'[c][q] = Want(q)'
    BY <1>0, <1>2, <2>0 DEF WriterOK
  <2>2. \A q \in dirty'[c] : cache'[c][q] # NoPage
    BY <1>0 DEF WriterOK, WritesOut, ConnType
  <2>3. \A q \in Pages \ dirty'[c] : file'[q].ver = Want(q)'
    BY <1>0, <1>10, <1>11, <2>0 DEF WriterOK
  <2>4. dirty'[c] \subseteq Recs' /\ ctx'[c].wKey # NoKey /\ InUse(c)'
    BY <1>0, WritesOutFile DEF WriterOK, WritesOut, InUse
  <2>5. op[c] \in Commits => /\ dirty'[c] \subseteq journal'.synced /\ 1 \in journal'.synced
                             /\ 1 \in dirty'[c] \/ vers'[c] = file'[1]
    BY <1>0, <1>10, <1>11, PageOne DEF WriterOK
  <2>. QED BY <1>0, <2>1, <2>2, <2>3, <2>4, <2>5, WritesOutFile DEF WriterOK, WritesOut
<1>9. CacheInv' /\ WriterInv'
  BY <1>1, <1>7, <1>8, CachesKept DEF IInv
<1>. QED BY <1>1, <1>3, <1>4, <1>5, <1>6, <1>9 DEF IInv

\* A spill is such a step, ...
LEMMA SpillWrites ==
  ASSUME IInv, NEW c \in Conns, NEW p \in Pages, Spill(c, p)
  PROVE  WritesOut(c, p)
<1>1. Elsewhere(c)
  BY DEF IInv, TypeInv, Elsewhere, Arrays, Others, Spill, ghosts
<1>. QED BY <1>1 DEF WritesOut, Spill, Writing, Commits, IInv, TypeInv, Arrays, ghosts

\* ... and so is pager_write_pagelist in a commit.
LEMMA WriteOutWrites ==
  ASSUME IInv, NEW c \in Conns, NEW p \in Pages, WriteOut(c, p)
  PROVE  WritesOut(c, p)
<1>1. Elsewhere(c)
  <2>1. vers' = [d \in Conns |-> vers'[d]] /\ \A d \in Others(c) : vers'[d] = vers[d]
    BY DEF IInv, TypeInv, Arrays, Others, WriteOut
  <2>. QED BY <2>1 DEF IInv, TypeInv, Elsewhere, Arrays, Others, WriteOut, held
<1>2. p \in journal.synced /\ op[c] \in Writing
  BY OneConn DEF WriterOK, WriteOut, Writing, Commits
<1>3. vers'[c] = IF p = 1 THEN file'[1] ELSE vers[c]
  BY DEF WriteOut, IInv, TypeInv, Arrays
<1>. QED BY <1>1, <1>2, <1>3 DEF WritesOut, WriteOut, IInv, TypeInv, Arrays, held, ghosts

---------------------------------------------------------------------------
(* The end of a write transaction.                                         *)

\* sqlite3PagerCommitPhaseTwo: the file is what is committed.
LEMMA FinishStep ==
  ASSUME IInv, NEW c \in Conns, Finish(c)
  PROVE  IInv' /\ Elsewhere(c)
<1>0. /\ ConnType(c) /\ LevelOK(c) /\ CacheOK(c) /\ WriterOK(c) /\ FileType /\ GhostType
      /\ op[c] \in Commits /\ op[c] \in Writing /\ op[c] \notin Reading /\ CtxOK(ctx[c])
      /\ lock[c] = "EXCLUSIVE" /\ dirty[c] = {} /\ 1 \in wrote /\ ctx[c].wKey # NoKey
  BY OneConn DEF Finish, Commits, Writing, Reading, ConnType, LevelOK, WriterOK
<1>1. Elsewhere(c)
  BY DEF IInv, TypeInv, Elsewhere, Arrays, Others, Finish
<1>2. /\ UNCHANGED <<file, cache, dirty, vers, nxt, leak, tx, wrote, anomaly>>
      /\ journal' = NoJournal /\ op'[c] = "idle" /\ lock'[c] = Unlocked(c)
      /\ ctx'[c] = IF op[c] = "commit" THEN ctx[c] ELSE KeyCopied(ctx[c])
  BY DEF Finish, IInv, TypeInv, Arrays
<1>3. committed' = [secret |-> ctx[c].wPass, key |-> ctx[c].wKey, ver |-> [p \in Pages |-> Want(p)]]
  BY DEF Finish, Want
<1>4. ctx[c].wPass \in Secrets /\ ctx[c].wKey \in Keys
  BY <1>0 DEF CtxOK, Ctxs
<1>5. \A p \in Pages : Want(p) \in 0..MaxTx /\ Want(p) <= tx
  BY <1>0 DEF Want, GhostType, IInv, VersionInv
<1>6. \A p \in Pages : committed'.ver[p] = Want(p)
  BY <1>3
<1>7. \A p \in Pages : file[p].ver = Want(p)
  BY <1>0 DEF WriterOK
<1>8. CtxOK(ctx'[c]) /\ ctx'[c].used = ctx[c].used /\ ctx'[c].error = ctx[c].error
      /\ (ctx[c].rKey # NoKey => ctx'[c].rKey # NoKey)
  BY <1>0, <1>2, KeyCopiedOK
<1>9. TypeInv'
  <2>1. GhostType'
    BY <1>0, <1>2, <1>3, <1>4, <1>5 DEF GhostType
  <2>2. FileType' /\ JournalType'
    BY <1>0, <1>2, EmptyJournal DEF FileType, JournalType, Recs, NoJournal
  <2>3. ConnType(c)'
    BY <1>0, <1>2, <1>8 DEF ConnType, Ops, Locks, Unlocked
  <2>. QED BY <1>1, <2>1, <2>2, <2>3, TypeStep DEF IInv
<1>10. LockInv'
  <2>1. LevelOK(c)' /\ LockStep(c)
    BY <1>0, <1>2, EmptyJournal DEF LevelOK, LockStep, Unlocked, Writing, Reading, Commits, Strong
  <2>. QED BY <1>1, <1>9, <2>1, LockKept DEF IInv, TypeInv
<1>11. \A d \in Others(c) : op[d] \notin Writing /\ lock[d] = "NO"
  BY <1>0, OneWriter DEF IInv, LockInv, Others
<1>12. VersionInv'
  <2>1. \A d \in Conns : op'[d] \notin Writing
    BY <1>1, <1>2, <1>11 DEF Elsewhere, Others, Writing
  <2>. QED BY <1>2, <1>5, <1>6, <1>7, <2>1, EmptyJournal DEF VersionInv, Recs
<1>13. SeenInv'
  <2>1. op'[c] \notin Writing
    BY <1>2 DEF Writing
  <2>2. vers'[c] # NoKey => vers'[c].ver <= tx
    BY <1>2 DEF IInv, SeenInv
  <2>. QED BY <1>1, <1>2, <1>11, <2>1, <2>2, SeenKept DEF IInv
<1>14. CacheOK(c)'
  <2>1. Fresh(c)'
    BY <1>0, <1>2, <1>6 DEF Fresh, WriterOK
  <2>. QED BY <1>0, <1>2, <1>8, <2>1 DEF CacheOK, Loaded, Writing, Reading
<1>15. ASSUME NEW d \in Others(c) PROVE CacheOK(d)'
  <2>0. CacheOK(d) /\ op[d] \notin Writing /\ lock[d] = "NO" /\ d \in Conns /\ c # d
    BY <1>11, <1>15, OneConn DEF Others
  <2>1. /\ op'[d] = op[d] /\ lock'[d] = lock[d] /\ ctx'[d] = ctx[d] /\ cache'[d] = cache[d]
        /\ dirty'[d] = dirty[d] /\ vers'[d] = vers[d]
    BY <1>1, <1>15 DEF Elsewhere
  <2>2. vers[d] # NoKey => vers[d].ver \in Nat /\ vers[d].ver < tx
    BY <1>0, <2>0 DEF IInv, SeenInv, TypeInv, ConnType, Images
  <2>3. committed'.ver[1] = tx /\ tx \in Nat
    BY <1>0, <1>6, PageOne DEF Want, GhostType
  <2>4. vers'[d] # NoKey => vers'[d].ver # committed'.ver[1]
    BY <2>1, <2>2, <2>3
  <2>. QED BY <2>0, <2>1, <2>4 DEF CacheOK, Loaded
<1>16. \A d \in Conns : WriterOK(d)'
  BY <1>1, <1>2, <1>11 DEF WriterOK, Elsewhere, Others, Writing
<1>. QED BY <1>1, <1>9, <1>10, <1>12, <1>13, <1>14, <1>15, <1>16 DEF IInv, CacheInv, WriterInv, Others

\* The pages that a rollback has in the journal and in the cache, and whether one of
\* them cannot be decrypted with the read context.
Seen(c) == {p \in Recs : InUse(c) /\ cache[c][p] # NoPage}
Bad(c) == \E p \in Seen(c) : journal.recs[p].key # ctx[c].rKey

\* sqlite3PagerRollback, in these words.
LEMMA RollbackEffect ==
  ASSUME IInv, NEW c \in Conns, op[c] \in Writing, PagerRollback(c)
  PROVE  /\ file' = PlayedBack /\ journal' = NoJournal
         /\ dirty' = [dirty EXCEPT ![c] = {}] /\ dirty'[c] = {}
         /\ ctx' = [ctx EXCEPT ![c] = ctx'[c]]
         /\ ctx'[c] = [ctx[c] EXCEPT !.error = Bad(c)]
         /\ cache' = [cache EXCEPT ![c] = cache'[c]]
         /\ cache'[c] = IF Bad(c) THEN EmptyCache
                        ELSE [p \in Pages |-> IF p \in Seen(c) THEN journal.recs[p].ver
                                              ELSE cache[c][p]]
         /\ vers' = [vers EXCEPT ![c] = vers'[c]]
         /\ vers'[c] = IF 1 \in Seen(c) THEN journal.recs[1] ELSE vers[c]
         /\ UNCHANGED <<tx, committed, wrote, anomaly>>
<1> DEFINE back == Opened(c).recs
           seen == {p \in DOMAIN back : cache[c][p] # NoPage}
           bad == \E p \in seen : back[p].key # ctx[c].rKey
<1>0. ConnType(c) /\ CacheOK(c) /\ JournalType
  BY OneConn
<1>1. ctx[c].error = FALSE
  BY <1>0, PageOne DEF ConnType, CtxOK, Ctxs, CacheOK, Loaded
<1>2. InUse(c) => back = journal.recs
  BY DEF Opened, InUse
<1>3. ~InUse(c) => DOMAIN back = {}
  BY EmptyJournal DEF Opened, InUse
<1>4. seen = Seen(c)
  BY <1>2, <1>3 DEF Seen, Recs
<1>5. bad <=> Bad(c)
  BY <1>2, <1>4 DEF Bad, Seen
<1>6. \A p \in Seen(c) : back[p] = journal.recs[p]
  BY <1>2 DEF Seen
<1>7. ctx' = [ctx EXCEPT ![c].error = @ \/ bad]
  BY DEF PagerRollback
<1>8. cache' = [cache EXCEPT ![c] = IF bad THEN EmptyCache
                                    ELSE [p \in Pages |-> IF p \in seen THEN back[p].ver
                                                          ELSE cache[c][p]]]
  BY DEF PagerRollback
<1>9. vers' = [vers EXCEPT ![c] = IF 1 \in seen THEN back[1] ELSE @]
  BY DEF PagerRollback
<1>10. /\ file' = PlayedBack /\ journal' = NoJournal /\ dirty' = [dirty EXCEPT ![c] = {}]
       /\ UNCHANGED <<tx, committed, wrote, anomaly>>
  BY DEF PagerRollback, ghosts
<1> HIDE DEF back, seen, bad
<1>11. Bad(c) \in BOOLEAN /\ bad = Bad(c)
  BY <1>5 DEF Bad, bad
<1>12. ctx' = [ctx EXCEPT ![c] = ctx'[c]] /\ ctx'[c] = [ctx[c] EXCEPT !.error = Bad(c)]
  BY <1>1, <1>7, <1>11 DEF IInv, TypeInv, Arrays
<1>13. /\ cache' = [cache EXCEPT ![c] = cache'[c]]
       /\ cache'[c] = IF Bad(c) THEN EmptyCache
                      ELSE [p \in Pages |-> IF p \in Seen(c) THEN journal.recs[p].ver
                                            ELSE cache[c][p]]
  BY <1>4, <1>5, <1>6, <1>8 DEF IInv, TypeInv, Arrays
<1>14. vers' = [vers EXCEPT ![c] = vers'[c]]
       /\ vers'[c] = IF 1 \in Seen(c) THEN journal.recs[1] ELSE vers[c]
  BY <1>4, <1>6, <1>9 DEF IInv, TypeInv, Arrays
<1>. QED BY <1>10, <1>12, <1>13, <1>14 DEF IInv, TypeInv, Arrays

\* A rollback ends the transaction, and leaves the file and the cache of the last commit.
LEMMA RollbackStep ==
  ASSUME IInv, NEW c \in Conns, op[c] \in Writing, PagerRollback(c),
         op' = [op EXCEPT ![c] = "idle"], nxt' = nxt,
         leak' = [leak EXCEPT ![c] = leak'[c]], leak'[c] \in BOOLEAN,
         lock' = [lock EXCEPT ![c] = lock'[c]], lock'[c] = Unlocked(c)'
  PROVE  IInv' /\ OthersKept(c) /\ Elsewhere(c)
<1>0. /\ ConnType(c) /\ LevelOK(c) /\ CacheOK(c) /\ WriterOK(c) /\ FileType /\ JournalType /\ GhostType
      /\ CtxOK(ctx[c])
  BY OneConn DEF ConnType
<1>20. file' = PlayedBack /\ journal' = NoJournal /\ UNCHANGED <<tx, committed, wrote, anomaly>>
  BY RollbackEffect
<1>21. dirty' = [dirty EXCEPT ![c] = {}] /\ dirty'[c] = {}
  BY RollbackEffect
<1>22. ctx' = [ctx EXCEPT ![c] = ctx'[c]] /\ ctx'[c] = [ctx[c] EXCEPT !.error = Bad(c)]
  BY RollbackEffect
<1>23. cache' = [cache EXCEPT ![c] = cache'[c]]
       /\ cache'[c] = IF Bad(c) THEN EmptyCache
                      ELSE [p \in Pages |-> IF p \in Seen(c) THEN journal.recs[p].ver
                                            ELSE cache[c][p]]
  BY RollbackEffect
<1>24. vers' = [vers EXCEPT ![c] = vers'[c]]
       /\ vers'[c] = IF 1 \in Seen(c) THEN journal.recs[1] ELSE vers[c]
  BY RollbackEffect
<1>1. Elsewhere(c)
  BY <1>21, <1>22, <1>23, <1>24 DEF IInv, TypeInv, Elsewhere, Arrays, Others
<1>2. OthersKept(c)
  BY <1>20, OneWriter DEF OthersKept, IInv
<1>3. op'[c] = "idle" /\ nxt'[c] = nxt[c] /\ dirty'[c] = {} /\ tx' = tx /\ committed' = committed
      /\ lock'[c] \in {"NO", "SHARED"} /\ (leak'[c] => lock'[c] = "SHARED") /\ (~leak'[c] => lock'[c] = "NO")
  BY <1>20, <1>21 DEF IInv, TypeInv, Arrays, Unlocked
<1>4. CtxOK(ctx'[c]) /\ ctx'[c].rKey = ctx[c].rKey /\ ctx'[c].used = ctx[c].used
      /\ (ctx'[c].error <=> Bad(c))
  <2>1. PICK bad \in BOOLEAN : bad = Bad(c)
    BY DEF Bad
  <2>2. ctx'[c] = [ctx[c] EXCEPT !.error = bad]
    BY <1>22, <2>1
  <2>. QED BY <1>0, <2>1, <2>2 DEF CtxOK, Ctxs
<1>5. \A p \in Pages : p \in Seen(c) => journal.recs[p].ver = committed.ver[p] /\ journal.recs[p] \in Images
  BY <1>0 DEF Seen, JournalType, IInv, VersionInv
<1>6. ASSUME NEW p \in Pages, p \notin Seen(c), cache[c][p] # NoPage
      PROVE  cache[c][p] = committed.ver[p]
  <2>1. ~(InUse(c) /\ p \in Recs)
    BY <1>6 DEF Seen
  <2>. QED BY <1>6, <2>1, BeforeIsCommitted DEF Before
<1>7. cache'[c] \in [Pages -> 0..NoPage] /\ Fresh(c)' /\ (Bad(c) => ~Loaded(c)')
  <2>1. CASE Bad(c)
    BY <2>1, <1>23, PageOne DEF EmptyCache, Fresh, Loaded
  <2>2. CASE ~Bad(c)
    <3>1. cache'[c] = [p \in Pages |-> IF p \in Seen(c) THEN journal.recs[p].ver ELSE cache[c][p]]
      BY <2>2, <1>23
    <3>2. \A p \in Pages : committed.ver[p] \in 0..NoPage /\ cache[c][p] \in 0..NoPage
      BY <1>0, PageOne DEF GhostType, ConnType
    <3>. QED BY <1>3, <1>5, <1>6, <2>2, <3>1, <3>2 DEF Fresh
  <2>. QED BY <2>1, <2>2
<1>8. vers'[c] \in Images \cup {NoKey} /\ vers'[c] # NoKey /\ vers'[c].ver <= tx
  <2>1. Loaded(c) /\ vers[c] # NoKey
    BY <1>0, PageOne DEF CacheOK, Loaded
  <2>2. committed.ver[1] <= tx
    BY PageOne DEF IInv, VersionInv
  <2>3. vers[c] \in Images \cup {NoKey} /\ vers[c].ver <= tx
    BY <1>0, <2>1 DEF ConnType, IInv, SeenInv
  <2>. QED BY <1>5, <1>24, <2>1, <2>2, <2>3, NoKeyIsNone, PageOne
<1>9. TypeInv'
  <2>1. ConnType(c)'
    BY <1>0, <1>3, <1>4, <1>7, <1>8 DEF ConnType, Ops, Locks
  <2>2. FileType' /\ JournalType'
    BY <1>0, <1>20, PlayedBackOK, EmptyJournal DEF FileType, JournalType, Recs, NoJournal
  <2>3. GhostType'
    BY <1>0, <1>20 DEF GhostType
  <2>. QED BY <1>1, <2>1, <2>2, <2>3, TypeStep DEF IInv
<1>10. LockInv'
  <2>1. journal'.synced = {}
    BY <1>20, EmptyJournal
  <2>2. lock[c] \in Strong
    BY <1>0 DEF LevelOK
  <2>3. LevelOK(c)' /\ LockStep(c)
    BY <1>3, <2>1, <2>2 DEF LevelOK, LockStep, Unlocked, Writing, Reading, Commits, Strong
  <2>. QED BY <1>1, <1>9, <2>3, LockKept DEF IInv, TypeInv
<1>11. VersionInv'
  <2>1. \A p \in Pages : file'[p].ver = committed.ver[p]
    BY <1>0, <1>20, PlayedBackOK DEF IInv, VersionInv, JournalType
  <2>2. \A d \in Conns : op'[d] \notin Writing
    BY <1>1, <1>3, OneWriter DEF Elsewhere, Others, Writing, IInv
  <2>3. Recs' = {}
    BY <1>20, EmptyJournal DEF Recs
  <2>. QED BY <1>3, <2>1, <2>2, <2>3 DEF IInv, VersionInv
<1>12. SeenInv'
  <2>1. \A d \in Others(c) : op[d] \notin Writing
    BY OneWriter DEF IInv
  <2>. QED BY <1>1, <1>3, <1>8, <2>1, SeenKept DEF IInv, Writing
<1>13. CacheOK(c)'
  <2>1. Loaded(c)
    BY <1>0, PageOne DEF CacheOK, Loaded
  <2>. QED BY <1>0, <1>3, <1>4, <1>7, <1>8, <2>1 DEF CacheOK, Writing, Reading
<1>14. WriterOK(c)'
  BY <1>3 DEF WriterOK, Writing
<1>15. CacheInv' /\ WriterInv'
  BY <1>1, <1>2, <1>13, <1>14, CachesKept DEF IInv
<1>. QED BY <1>1, <1>2, <1>9, <1>10, <1>11, <1>12, <1>15 DEF IInv

\* ROLLBACK, and a rekey whose journal cannot be written.
LEMMA RollbackActionStep ==
  ASSUME IInv, NEW c \in Conns, Rollback(c) \/ RekeyWriteFails(c)
  PROVE  IInv' /\ OthersKept(c) /\ Elsewhere(c) /\ PagerRollback(c) /\ op[c] \in Writing
         /\ op' = [op EXCEPT ![c] = "idle"]
<1>1. CASE Rollback(c)
  <2>1. op[c] \in Writing /\ PagerRollback(c) /\ op' = [op EXCEPT ![c] = "idle"]
    BY <1>1 DEF Rollback, Writing
  <2>2. nxt' = nxt /\ leak' = leak /\ lock' = [lock EXCEPT ![c] = Unlocked(c)]
    BY <1>1 DEF Rollback
  <2>3. leak[c] \in BOOLEAN /\ leak' = [leak EXCEPT ![c] = leak'[c]]
    BY <2>2, OneConn DEF ConnType, IInv, TypeInv, Arrays
  <2>4. lock' = [lock EXCEPT ![c] = lock'[c]] /\ lock'[c] = Unlocked(c)'
    BY <2>2 DEF Unlocked, IInv, TypeInv, Arrays
  <2>. QED BY <2>1, <2>2, <2>3, <2>4, RollbackStep
<1>2. CASE RekeyWriteFails(c)
  <2>1. op[c] \in Writing /\ PagerRollback(c) /\ op' = [op EXCEPT ![c] = "idle"]
    BY <1>2 DEF RekeyWriteFails, InLoop, Writing
  <2>2. nxt' = nxt /\ leak' = [leak EXCEPT ![c] = TRUE] /\ lock' = [lock EXCEPT ![c] = "SHARED"]
    BY <1>2 DEF RekeyWriteFails
  <2>3. leak'[c] = TRUE /\ leak' = [leak EXCEPT ![c] = leak'[c]]
    BY <2>2 DEF IInv, TypeInv, Arrays
  <2>4. lock' = [lock EXCEPT ![c] = lock'[c]] /\ lock'[c] = Unlocked(c)'
    BY <2>2, <2>3 DEF Unlocked, IInv, TypeInv, Arrays
  <2>. QED BY <2>1, <2>2, <2>3, <2>4, RollbackStep
<1>. QED BY <1>1, <1>2

\* An I/O error during the commit of a rekey leaves the transaction to a statement.
LEMMA RekeyCommitFailsStep ==
  ASSUME IInv, NEW c \in Conns, RekeyCommitFails(c)
  PROVE  IInv' /\ OthersKept(c) /\ Elsewhere(c)
<1>0. /\ ConnType(c) /\ LevelOK(c) /\ CacheOK(c) /\ WriterOK(c) /\ FileType /\ JournalType /\ GhostType
      /\ CtxOK(ctx[c]) /\ op[c] = "rekeycommit" /\ op[c] \in Writing /\ ctx[c].wKey # NoKey
  BY OneConn DEF ConnType, RekeyCommitFails, WriterOK, Writing, Commits
<1>1. Elsewhere(c)
  BY DEF IInv, TypeInv, Elsewhere, Arrays, Others, RekeyCommitFails, held
<1>2. /\ UNCHANGED <<file, journal, lock, leak, nxt, cache, dirty, vers, tx, committed, wrote>>
      /\ op'[c] = "write" /\ ctx'[c] = KeyCopied(ctx[c]) /\ anomaly' = anomaly \cup {"copied"}
  BY DEF RekeyCommitFails, held, IInv, TypeInv, Arrays
<1>3. /\ CtxOK(ctx'[c]) /\ ctx'[c].used = ctx[c].used /\ ctx'[c].error = ctx[c].error
      /\ ctx'[c].rKey # NoKey /\ ctx'[c].wKey # NoKey
  BY <1>0, <1>2, KeyCopiedOK
<1>4. TypeInv'
  <2>1. ConnType(c)'
    BY <1>0, <1>2, <1>3 DEF ConnType, Ops
  <2>2. GhostType' /\ FileType' /\ JournalType'
    BY <1>0, <1>2 DEF GhostType, FileType, JournalType, Recs
  <2>. QED BY <1>1, <2>1, <2>2, TypeStep DEF IInv
<1>5. LockInv'
  <2>1. LevelOK(c)' /\ LockStep(c)
    BY <1>0, <1>2 DEF LevelOK, LockStep, Unlocked, Writing, Reading, Commits, Strong, IInv, LockInv
  <2>. QED BY <1>1, <1>4, <2>1, LockKept DEF IInv, TypeInv
<1>6. VersionInv'
  <2>1. \A d \in Conns : op'[d] \in Writing => op[d] \in Writing
    BY <1>0, <1>1 DEF Elsewhere, Others
  <2>. QED BY <1>2, <2>1 DEF IInv, VersionInv, Recs
<1>7. SeenInv'
  BY <1>0, <1>1, <1>2, SeenKept DEF IInv, SeenInv, Others
<1>8. OthersKept(c)
  BY <1>2 DEF OthersKept
<1>9. CacheOK(c)'
  BY <1>0, <1>2, <1>3 DEF CacheOK, Loaded, Fresh, Writing, Reading
<1>10. WriterOK(c)'
  BY <1>0, <1>2, <1>3 DEF WriterOK, Want, InUse, Recs, Commits
<1>11. CacheInv' /\ WriterInv'
  BY <1>1, <1>8, <1>9, <1>10, CachesKept DEF IInv
<1>. QED BY <1>1, <1>4, <1>5, <1>6, <1>7, <1>8, <1>11 DEF IInv

---------------------------------------------------------------------------
(* The invariant holds.                                                    *)

\* At the start nobody has a lock, a cache or a journal.
LEMMA InitIInv == Init => IInv
<1> SUFFICES ASSUME Init PROVE IInv
  OBVIOUS
<1> DEFINE key == <<FirstSecret, FirstSalt>>
<1>0. key \in Keys /\ FirstSalt \in Salts /\ 0 \in 0..MaxTx
  BY RekeyAssumption, PageOne DEF Keys
<1>1. /\ file = [p \in Pages |-> [key |-> key, ver |-> 0,
                                  salt |-> IF p = 1 THEN FirstSalt ELSE NoSalt]]
      /\ committed = [secret |-> FirstSecret, key |-> key, ver |-> [p \in Pages |-> 0]]
      /\ journal = NoJournal /\ tx = 0 /\ wrote = {} /\ anomaly = {}
  BY DEF Init
<1>2. \A c \in Conns : /\ lock[c] = "NO" /\ op[c] = "closed" /\ ctx[c] = NewCtx(FirstSecret)
                       /\ cache[c] = EmptyCache /\ dirty[c] = {} /\ vers[c] = NoKey
                       /\ nxt[c] = 1 /\ leak[c] = FALSE
  BY DEF Init
<1>3. Arrays
  BY DEF Init, Arrays
<1>4. FileType /\ JournalType /\ GhostType
  BY <1>0, <1>1, EmptyJournal, PageOne, RekeyAssumption
     DEF FileType, Images, JournalType, Recs, NoJournal, GhostType
<1>5. EmptyCache \in [Pages -> 0..NoPage] /\ CtxOK(NewCtx(FirstSecret))
  BY PageOne, NewCtxOK, RekeyAssumption DEF EmptyCache
<1>6. TypeInv
  <2>1. ASSUME NEW c \in Conns PROVE ConnType(c)
    <3>1. lock[c] \in Locks /\ op[c] \in Ops /\ leak[c] \in BOOLEAN /\ vers[c] \in Images \cup {NoKey}
      BY <1>2, <2>1 DEF Locks, Ops
    <3>2. dirty[c] \subseteq Pages /\ nxt[c] \in 1..(NPages + 1)
      BY <1>2, <2>1, PageOne
    <3>3. CtxOK(ctx[c]) /\ cache[c] \in [Pages -> 0..NoPage]
      BY <1>2, <1>5, <2>1
    <3>. QED BY <3>1, <3>2, <3>3 DEF ConnType
  <2>. QED BY <1>3, <1>4, <2>1 DEF TypeInv
<1>7. LockInv
  BY <1>1, <1>2, EmptyJournal DEF LockInv, LevelOK, Writing, Reading, Commits, Strong
<1>8. VersionInv /\ SeenInv
  BY <1>1, <1>2, EmptyJournal DEF VersionInv, SeenInv, Recs, Writing
<1>9. CacheInv /\ WriterInv
  BY <1>2 DEF CacheInv, WriterInv, CacheOK, WriterOK, Loaded, Fresh, EmptyCache, Writing, Reading
<1>. QED BY <1>6, <1>7, <1>8, <1>9 DEF IInv

\* Every step of every connection keeps the invariant.
LEMMA NextIInv == IInv /\ [Next]_vars => IInv'
<1> SUFFICES ASSUME IInv, [Next]_vars PROVE IInv'
  OBVIOUS
<1>1. CASE UNCHANGED vars
  <2>1. UNCHANGED <<file, journal, lock, op, ctx, cache, dirty, vers, nxt, leak, tx, committed,
                    wrote, anomaly>>
    BY <1>1 DEF vars
  <2>2. TypeInv' /\ LockInv'
    BY <2>1 DEF IInv, TypeInv, FileType, JournalType, GhostType, Arrays, ConnType, Recs,
                LockInv, LevelOK, Unlocked
  <2>3. VersionInv' /\ SeenInv'
    BY <2>1 DEF IInv, VersionInv, SeenInv, Recs
  <2>4. CacheInv' /\ WriterInv'
    BY <2>1 DEF IInv, CacheInv, WriterInv, CacheOK, WriterOK, Loaded, Fresh, Want, InUse, Recs
  <2>. QED BY <2>2, <2>3, <2>4 DEF IInv
<1>2. ASSUME NEW c \in Conns,
             Open(c) \/ Key(c) \/ StartRekey(c) \/ EndRead(c) \/ RekeyBusy(c) \/ Close(c) \/ Crash(c)
      PROVE  IInv'
  BY <1>2, OpenStep, KeyStep, StartRekeyStep, EndReadStep, RekeyBusyStep, CloseStep, CrashStep
<1>3. ASSUME NEW c \in Conns, SharedLock(c) \/ RecoverHot(c) \/ RecoverDies(c) \/ RekeyBadPage(c)
      PROVE  IInv'
  BY <1>3, SharedLockStep, RecoverHotStep, RecoverDiesStep, RekeyBadPageStep
<1>4. ASSUME NEW c \in Conns, BeginWrite(c) \/ BeginRekey(c) PROVE IInv'
  <2>1. anomaly' \in SUBSET {"mixed", "copied"}
    BY <1>4 DEF BeginWrite, BeginRekey, IInv, TypeInv, GhostType
  <2>2. PagerBegin(c, "read", "write") \/ PagerBegin(c, "rekey1", "rekey")
    BY <1>4 DEF BeginWrite, BeginRekey
  <2>. QED BY <2>1, <2>2, BeginStep DEF Reading
<1>5. ASSUME NEW c \in Conns, Commit(c) \/ RekeyPage(c) \/ RekeyCommit(c) \/ RekeyCommitFails(c)
      PROVE  IInv'
  BY <1>5, CommitStep, RekeyPageStep, RekeyCommitStep, RekeyCommitFailsStep
<1>6. ASSUME NEW c \in Conns, Finish(c) \/ Rollback(c) \/ RekeyWriteFails(c) PROVE IInv'
  BY <1>6, FinishStep, RollbackActionStep
<1>7. ASSUME NEW c \in Conns, NEW p \in Pages,
             ReadPage(c, p) \/ PageWrite(c, p) \/ Spill(c, p) \/ WriteOut(c, p)
      PROVE  IInv'
  BY <1>7, ReadPageStep, PageWriteStep, SpillWrites, WriteOutWrites, WritesOutStep
<1>. QED BY <1>1, <1>2, <1>3, <1>4, <1>5, <1>6, <1>7 DEF Next

\* The invariant holds in every state of every behaviour.
THEOREM Invariance == Spec => []IInv
  BY InitIInv, NextIInv, PTL DEF Spec

\* The types of all variables; the journal holds images of pages, and one connection
\* at most has pages that the file does not have yet.
THEOREM TypeCorrect == Spec => []TypeOK
<1>1. ASSUME IInv PROVE TypeOK
  <2>1. FileType /\ JournalType /\ GhostType /\ \A c \in Conns : ConnType(c)
    BY <1>1 DEF IInv, TypeInv
  <2>2. \A c, d \in Conns : dirty[c] # {} /\ dirty[d] # {} => c = d
    BY <1>1 DEF IInv, CacheInv, CacheOK, LockInv, LevelOK
  <2>3. \A c \in Conns : ctx[c] \in Ctxs
    BY <2>1 DEF ConnType, CtxOK
  <2>4. Range(journal.recs) \subseteq Images
    BY <2>1 DEF JournalType, Recs, Range
  <2>5. journal.on \in BOOLEAN /\ DOMAIN journal.recs \in SUBSET Pages
        /\ journal.synced \subseteq DOMAIN journal.recs
    BY <2>1 DEF JournalType, Recs
  <2>6. lock \in [Conns -> Locks] /\ op \in [Conns -> Ops] /\ ctx \in [Conns -> Ctxs]
    BY <1>1, <2>1, <2>3 DEF IInv, TypeInv, Arrays, ConnType
  <2>7. cache \in [Conns -> [Pages -> 0..NoPage]] /\ dirty \in [Conns -> SUBSET Pages]
    BY <1>1, <2>1 DEF IInv, TypeInv, Arrays, ConnType
  <2>8. vers \in [Conns -> Images \cup {NoKey}] /\ nxt \in [Conns -> 1..(NPages + 1)]
        /\ leak \in [Conns -> BOOLEAN]
    BY <1>1, <2>1 DEF IInv, TypeInv, Arrays, ConnType
  <2>. QED BY <2>1, <2>2, <2>4, <2>5, <2>6, <2>7, <2>8 DEF TypeOK, FileType, GhostType, Locks
<1>. QED BY <1>1, Invariance, PTL

\* No connection in a transaction has an old page in its cache, although other
\* processes rekey the file, write it and roll it back in between.
THEOREM CacheNeverOld == Spec => []CacheIsCurrent
<1>1. ASSUME IInv PROVE CacheIsCurrent
  <2> SUFFICES ASSUME NEW c \in Conns, NEW p \in Pages, lock[c] # "NO", cache[c][p] # NoPage,
                      p \notin dirty[c]
               PROVE  cache[c][p] = file[p].ver
    BY DEF CacheIsCurrent
  <2>0. ConnType(c) /\ LevelOK(c) /\ CacheOK(c) /\ WriterOK(c)
    BY <1>1, OneConn
  <2>1. CASE op[c] \in Writing
    BY <2>0, <2>1 DEF WriterOK
  <2>2. CASE op[c] \notin Writing
    <3>1. op[c] # "dead" /\ op[c] # "closed"
      BY <2>0 DEF CacheOK, Loaded
    <3>2. lock[c] = "SHARED"
      BY <2>0, <2>2, <3>1 DEF LevelOK, ConnType, Ops, Writing, Reading, Unlocked
    <3>. QED BY <1>1, <2>0, <2>2, <3>2, NoSyncedRecords DEF CacheOK, Fresh
  <2>. QED BY <2>1, <2>2
<1>. QED BY <1>1, Invariance, PTL

\* A crash never loses a commit or part of one: what a hot journal restores has the page
\* versions of the last commit, whatever the keys.
THEOREM CrashKeepsLastCommit == Spec => []LastCommit
<1>1. ASSUME IInv PROVE LastCommit
  <2>1. FileType /\ JournalType /\ VersionInv
    BY <1>1 DEF IInv, TypeInv
  <2>. QED BY <2>1, PlayedBackOK DEF LastCommit, Recovered, VersionInv, JournalType
<1>. QED BY <1>1, Invariance, PTL

---------------------------------------------------------------------------
(* The keys: steps that write nothing.                                     *)

\* What the invariant of the keys says of one connection.
KeysOK(c) == KeyInv /\ ReaderKeyOK(c) /\ WriterKeyOK(c)

\* The write context has its key once the keys are derived.
LEMMA TouchedWriteKey ==
  ASSUME FileType, NEW x, CtxOK(x), ~x.error, x.rKey # NoKey
  PROVE  /\ Touched(x).rKey = x.rKey /\ Touched(x).wKey # NoKey
         /\ Touched(x).wKey = WriteKey(x) /\ WriteKey(Touched(x)) = WriteKey(x)
<1>1. Touched(x).rKey = x.rKey /\ Touched(x).wKey = WriteKey(x) /\ Touched(x).wKey # NoKey
  BY TouchedOK, NoKeyIsNone
<1>2. PICK y : y = Touched(x)
  OBVIOUS
<1>3. WriteKey(y) = y.wKey
  BY <1>1, <1>2 DEF WriteKey
<1>. QED BY <1>1, <1>2, <1>3

\* A connection in a write transaction has a lock for it, page 1 in its cache, and a
\* read context with a key.
LEMMA WriterHas ==
  ASSUME IInv, NEW c \in Conns, op[c] \in Writing
  PROVE  /\ lock[c] \in Strong /\ lock[c] # "SHARED" /\ cache[c][1] # NoPage /\ Loaded(c)
         /\ ctx[c].rKey # NoKey /\ ~ctx[c].error /\ CtxOK(ctx[c]) /\ FileType /\ JournalType
  BY OneConn, PageOne DEF LevelOK, CacheOK, ConnType, Loaded, Strong

\* Outside of a write transaction it is the cache alone that has a key.
LEMMA IdleKeys ==
  ASSUME NEW c \in Conns, KeyInv', op'[c] \notin Writing,
         Loaded(c)' => /\ vers'[c].key = ctx'[c].rKey
                       /\ lock'[c] = "SHARED" => ctx'[c].rKey = committed'.key
  PROVE  KeysOK(c)'
  BY DEF KeysOK, ReaderKeyOK, WriterKeyOK

\* The keys of the file and of the journal stay if nothing is written.
LEMMA KeyInvKept ==
  ASSUME KeyInv, UNCHANGED <<file, journal, committed>>
  PROVE  KeyInv'
  BY DEF KeyInv, Recs

\* A cache that stays, of a connection that stays out of write transactions.
LEMMA SameCacheKeys ==
  ASSUME IInv, NEW c \in Conns, KeysOK(c), op[c] \notin Writing, op'[c] \notin Writing,
         UNCHANGED <<file, journal, committed>>, cache'[c] = cache[c], vers'[c] = vers[c],
         Loaded(c) => ctx'[c].rKey = ctx[c].rKey,
         lock'[c] = "SHARED" => lock[c] = "SHARED"
  PROVE  KeysOK(c)'
<1>1. KeyInv'
  BY KeyInvKept DEF KeysOK
<1>2. Loaded(c)' => Loaded(c)
  BY DEF Loaded
<1>3. Loaded(c)' => /\ vers'[c].key = ctx'[c].rKey
                    /\ lock'[c] = "SHARED" => ctx'[c].rKey = committed'.key
  BY <1>2 DEF KeysOK, ReaderKeyOK
<1>. QED BY <1>1, <1>3, IdleKeys

\* An empty cache needs no key.
LEMMA NoCacheKeys ==
  ASSUME IInv, NEW c \in Conns, KeysOK(c), op'[c] \notin Writing,
         UNCHANGED <<file, journal, committed>>, cache'[c] = EmptyCache
  PROVE  KeysOK(c)'
<1>1. KeyInv'
  BY KeyInvKept DEF KeysOK
<1>2. ~Loaded(c)'
  BY DEF Loaded, EmptyCache
<1>. QED BY <1>1, <1>2, IdleKeys

\* sqlite3_key_v2 and the first step of sqlite3_rekey_v2 change a context that has
\* decrypted nothing, and the write context.
LEMMA ContextKeys ==
  ASSUME IInv, NEW c \in Conns, KeysOK(c), Open(c) \/ Key(c) \/ StartRekey(c)
  PROVE  KeysOK(c)'
<1>0. ConnType(c) /\ LevelOK(c) /\ CacheOK(c)
  BY OneConn
<1>1. /\ op[c] \notin Writing /\ op'[c] \notin Writing /\ UNCHANGED <<file, journal, committed>>
      /\ cache' = cache /\ vers' = vers /\ lock' = lock
  BY DEF Open, Key, StartRekey, held, ghosts, Writing, IInv, TypeInv, Arrays
<1>2. Loaded(c) => ctx'[c].rKey = ctx[c].rKey
  <2>1. CASE Open(c)
    BY <1>0, <2>1 DEF Open, CacheOK
  <2>2. CASE Key(c)
    BY <1>0, <2>2 DEF Key, CacheOK
  <2>3. CASE StartRekey(c)
    <3>1. PICK s \in Secrets : ctx' = [ctx EXCEPT ![c].wPass = s, ![c].wKey = NoKey]
      BY <2>3 DEF StartRekey
    <3>2. ctx'[c] = [ctx[c] EXCEPT !.wPass = s, !.wKey = NoKey]
      BY <3>1 DEF IInv, TypeInv, Arrays
    <3>. QED BY <1>0, <3>2 DEF ConnType, CtxOK, Ctxs
  <2>. QED BY <2>1, <2>2, <2>3
<1>. QED BY <1>1, <1>2, SameCacheKeys

\* A transaction that ends without a write, or does not begin.
LEMMA LeaveKeys ==
  ASSUME IInv, NEW c \in Conns, KeysOK(c), EndRead(c) \/ RekeyBusy(c)
  PROVE  KeysOK(c)'
<1>0. ConnType(c) /\ LevelOK(c)
  BY OneConn
<1>1. /\ op[c] \in {"read", "rekey0", "rekey1"} /\ op'[c] = "idle"
      /\ UNCHANGED <<file, journal, committed, cache, vers, ctx>>
      /\ lock'[c] = Unlocked(c)
  BY DEF EndRead, RekeyBusy, ghosts, IInv, TypeInv, Arrays
<1>2. lock'[c] = "SHARED" => lock[c] = "SHARED"
  BY <1>0, <1>1 DEF LevelOK, Reading
<1>3. op[c] \notin Writing /\ op'[c] \notin Writing
  BY <1>1 DEF Writing
<1>. QED BY <1>1, <1>2, <1>3, SameCacheKeys

\* A connection that is gone, or whose pager is in error, has no cache.
LEMMA DropKeys ==
  ASSUME IInv, NEW c \in Conns, KeysOK(c), Close(c) \/ Crash(c) \/ Abandon(c)
  PROVE  KeysOK(c)'
<1>1. op'[c] \notin Writing /\ UNCHANGED <<file, journal, committed>> /\ cache'[c] = EmptyCache
  BY DEF Close, Crash, Gone, Abandon, ghosts, Writing, IInv, TypeInv, Arrays
<1>. QED BY <1>1, NoCacheKeys

\* sqlite3PagerSharedLock: the cache is kept if page 1 is what it was, and the key of
\* page 1 is that of the file; otherwise the read context has to open page 1.
LEMMA SharedLockKeys ==
  ASSUME IInv, NEW c \in Conns, KeysOK(c), SharedLock(c)
  PROVE  KeysOK(c)'
<1>0. /\ WantsShared(c) /\ SharedFree(c) /\ (leak[c] \/ ~HotJournal(c)) /\ FileType
      /\ ConnType(c) /\ op[c] \notin Writing
  BY SharedLockCases, OneConn DEF WantsShared, Writing
<1>1. file[1].key = committed.key /\ file[1] \in Images /\ lock[c] = Unlocked(c)
  BY <1>0, CurrentFresh, PageOne DEF KeysOK, KeyInv
<1>2. CASE SharedHit(c)
  <2>1. UNCHANGED <<file, journal, committed, cache, vers, ctx>> /\ op'[c] \notin Writing
    BY <1>2 DEF SharedHit, ghosts, WithShared, Writing, IInv, TypeInv, Arrays
  <2>2. Loaded(c) => vers[c].key = ctx[c].rKey /\ ctx[c].rKey = committed.key
    <3>1. CASE leak[c]
      BY <1>0, <1>1, <3>1 DEF KeysOK, ReaderKeyOK, Unlocked
    <3>2. CASE ~leak[c]
      <4>1. vers[c] = file[1]
        BY <1>2, <3>2, PageOne DEF SharedHit, Current, EmptyCache
      <4>. QED BY <1>0, <1>1, <4>1 DEF KeysOK, ReaderKeyOK
    <3>. QED BY <3>1, <3>2
  <2>3. KeyInv'
    BY <2>1, KeyInvKept DEF KeysOK
  <2>4. Loaded(c)' => Loaded(c)
    BY <2>1 DEF Loaded
  <2>. QED BY <2>1, <2>2, <2>3, <2>4, IdleKeys
<1>3. CASE SharedMiss(c)
  <2>1. /\ UNCHANGED <<file, journal, committed>> /\ op'[c] \notin Writing /\ vers'[c] = file[1]
        /\ ctx'[c] = AfterDecode(ctx[c], file[1]) /\ Decodes(ctx[c], file[1])
    BY <1>3 DEF SharedMiss, ghosts, WithShared, Writing, IInv, TypeInv, Arrays
  <2>2. ctx'[c].rKey = file[1].key
    BY <1>0, <1>1, <2>1, DecodeOK DEF ConnType
  <2>3. KeyInv'
    BY <2>1, KeyInvKept DEF KeysOK
  <2>. QED BY <1>1, <2>1, <2>2, <2>3, IdleKeys
<1>. QED BY <1>2, <1>3, SharedLockCases, DropKeys

\* Reading a page changes no key.
LEMMA ReadPageKeys ==
  ASSUME IInv, NEW c \in Conns, NEW p \in Pages, KeysOK(c), ReadPage(c, p)
  PROVE  KeysOK(c)'
<1>1. CASE ReadDone(c, p)
  <2>0. /\ ConnType(c) /\ CacheOK(c) /\ FileType /\ CtxOK(ctx[c]) /\ op[c] \in {"read", "write"}
        /\ cache[c][1] # NoPage
    BY <1>1, OneConn DEF ConnType, CacheOK, ReadDone, Reading, Writing
  <2>1. Loaded(c) /\ ctx[c].rKey # NoKey /\ ~ctx[c].error
    BY <2>0, PageOne DEF CacheOK, Loaded
  <2>2. UNCHANGED <<file, journal, committed, op, lock, dirty, vers, nxt>>
    BY <1>1 DEF ReadDone, ghosts
  <2>3. ctx'[c] = Touched(ctx[c])
    <3>1. file[p] \in Images
      BY <2>0 DEF FileType
    <3>2. ctx'[c] = AfterDecode(ctx[c], file[p]) /\ Decodes(ctx[c], file[p])
      BY <1>1 DEF ReadDone, IInv, TypeInv, Arrays
    <3>. QED BY <2>0, <3>1, <3>2, DecodeOK
  <2>4. ctx'[c].rKey = ctx[c].rKey /\ WriteKey(ctx[c])' = WriteKey(ctx[c])
    <3>1. PICK y : y = Touched(ctx[c])
      OBVIOUS
    <3>2. y.rKey = ctx[c].rKey /\ WriteKey(y) = WriteKey(ctx[c])
      BY <2>0, <2>1, <3>1, TouchedWriteKey
    <3>3. WriteKey(ctx[c])' = WriteKey(y)
      BY <2>3, <3>1 DEF WriteKey, KeyOf
    <3>. QED BY <2>3, <3>1, <3>2, <3>3
  <2>5. KeyInv'
    BY <2>2, KeyInvKept DEF KeysOK
  <2>6. ReaderKeyOK(c)'
    BY <2>1, <2>2, <2>4 DEF KeysOK, ReaderKeyOK, InUse, Recs
  <2>7. WriterKeyOK(c)'
    BY <2>0, <2>2, <2>4 DEF KeysOK, WriterKeyOK, InUse, Recs
  <2>. QED BY <2>5, <2>6, <2>7 DEF KeysOK
<1>2. CASE Abandon(c)
  BY <1>2, DropKeys
<1>. QED BY <1>1, <1>2 DEF ReadPage, ReadDone

\* A hot journal gives back pages with the key of the last commit.
LEMMA RecoverKeys ==
  ASSUME IInv, NEW c \in Conns, KeysOK(c), RecoverHot(c) \/ RecoverDies(c)
  PROVE  KeysOK(c)'
<1>0. FileType /\ JournalType /\ op[c] \notin Writing /\ op'[c] \notin Writing
      /\ cache'[c] = EmptyCache /\ committed' = committed
  BY OneConn DEF RecoverHot, RecoverDies, WantsShared, Writing, held, ghosts, IInv, TypeInv, Arrays
<1>1. ~Loaded(c)'
  BY <1>0 DEF Loaded, EmptyCache
<1>2. CASE RecoverHot(c)
  <2>1. file' = PlayedBack /\ journal' = NoJournal
    BY <1>2 DEF RecoverHot
  <2>2. \A p \in Pages : file'[p].key = committed.key
    BY <1>0, <2>1, PlayedBackOK DEF KeysOK, KeyInv, JournalType
  <2>3. KeyInv'
    BY <1>0, <2>1, <2>2, EmptyJournal DEF KeyInv, Recs
  <2>. QED BY <1>0, <1>1, <2>3, IdleKeys
<1>3. CASE RecoverDies(c)
  <2>1. PICK S \in SUBSET journal.synced :
           file' = [p \in Pages |-> IF p \in S THEN journal.recs[p] ELSE file[p]]
    BY <1>3 DEF RecoverDies
  <2>2. journal' = journal
    BY <1>3 DEF RecoverDies
  <2>3. KeyInv'
    BY <1>0, <2>1, <2>2 DEF KeysOK, KeyInv, Recs
  <2>. QED BY <1>0, <1>1, <2>3, IdleKeys
<1>. QED BY <1>2, <1>3
---------------------------------------------------------------------------
(* The keys: a write transaction.                                          *)

\* A statement begins to write with one key, that of the last commit.
LEMMA BeginWriteKeys ==
  ASSUME IInv, NEW c \in Conns, KeysOK(c), BeginWrite(c), Unmixed'
  PROVE  KeysOK(c)'
<1>0. /\ ConnType(c) /\ CacheOK(c) /\ LevelOK(c) /\ FileType /\ CtxOK(ctx[c]) /\ op[c] = "read"
      /\ op[c] \in Reading /\ op[c] \notin Writing
  BY OneConn DEF ConnType, BeginWrite, PagerBegin, Reading, Writing
<1>1. /\ UNCHANGED <<file, journal, committed, ctx, cache, dirty, vers>>
      /\ op'[c] = "write" /\ lock'[c] = "RESERVED"
  BY DEF BeginWrite, PagerBegin, IInv, TypeInv, Arrays
<1>2. Derived(ctx[c]).rKey = Derived(ctx[c]).wKey
  BY DEF BeginWrite, Unmixed
<1>3. Loaded(c) /\ ctx[c].rKey # NoKey /\ ~ctx[c].error /\ lock[c] = "SHARED" /\ dirty[c] = {}
  BY <1>0, PageOne DEF CacheOK, Loaded, LevelOK
<1>4. WriteKey(ctx[c]) = ctx[c].rKey
  BY <1>0, <1>2, <1>3, DerivedOK
<1>5. ctx[c].rKey = committed.key /\ vers[c].key = ctx[c].rKey
  BY <1>0, <1>3 DEF KeysOK, ReaderKeyOK
<1>6. \A p \in Pages : file[p].key = committed.key
  BY <1>3, NoSyncedRecords DEF KeysOK, KeyInv
<1>7. KeyInv'
  BY <1>1, KeyInvKept DEF KeysOK
<1>8. ReaderKeyOK(c)'
  BY <1>1, <1>5 DEF ReaderKeyOK
<1>9. WriterKeyOK(c)'
  <2>1. WriteKey(ctx[c])' = WriteKey(ctx[c])
    BY <1>1 DEF WriteKey, KeyOf
  <2>. QED BY <1>1, <1>4, <1>5, <1>6, <2>1 DEF WriterKeyOK
<1>. QED BY <1>7, <1>8, <1>9 DEF KeysOK

\* The loop of a rekey starts with every page under the old key.
LEMMA BeginRekeyKeys ==
  ASSUME IInv, NEW c \in Conns, KeysOK(c), BeginRekey(c)
  PROVE  KeysOK(c)'
<1>0. /\ ConnType(c) /\ CacheOK(c) /\ LevelOK(c) /\ op[c] = "rekey1"
      /\ op[c] \in Reading /\ op[c] \notin Writing
  BY OneConn DEF ConnType, BeginRekey, PagerBegin, Reading, Writing
<1>1. /\ UNCHANGED <<file, journal, committed, ctx, cache, dirty, vers>>
      /\ op'[c] = "rekey" /\ lock'[c] = "RESERVED" /\ nxt'[c] = 1
  BY DEF BeginRekey, PagerBegin, IInv, TypeInv, Arrays
<1>2. Loaded(c) /\ lock[c] = "SHARED" /\ dirty[c] = {}
  BY <1>0, PageOne DEF CacheOK, Loaded, LevelOK
<1>3. ctx[c].rKey = committed.key /\ vers[c].key = ctx[c].rKey
  BY <1>0, <1>2 DEF KeysOK, ReaderKeyOK
<1>4. \A p \in Pages : file[p].key = committed.key
  BY <1>2, NoSyncedRecords DEF KeysOK, KeyInv
<1>5. KeyInv'
  BY <1>1, KeyInvKept DEF KeysOK
<1>6. ReaderKeyOK(c)'
  BY <1>1, <1>3 DEF ReaderKeyOK
<1>7. WriterKeyOK(c)'
  <2>1. \A p \in Pages : ~(p < 1)
    BY DEF Pages
  <2>2. ~(1 > 1)
    OBVIOUS
  <2>. QED BY <1>1, <1>2, <1>3, <1>4, <2>1, <2>2 DEF WriterKeyOK
<1>. QED BY <1>5, <1>6, <1>7 DEF KeysOK

\* A page that is journaled is journaled with the old key; page 1 of the journal stands
\* in for the version that the connection saw.
LEMMA DirtiesKeys ==
  ASSUME IInv, IInv', NEW c \in Conns, NEW p \in Pages, NEW w, KeysOK(c),
         op[c] \in Writing, op'[c] \in Writing, Dirties(c, p, w),
         ~(InUse(c) /\ p \in Recs) => ctx[c].rKey = committed.key,
         ctx'[c].rKey = ctx[c].rKey \/ (InUse(c) /\ 1 \in Recs)
  PROVE  /\ KeyInv' /\ ReaderKeyOK(c)'
         /\ InUse(c)' /\ Recs' \subseteq Pages
         /\ InUse(c) => Recs \subseteq Recs'
         /\ \A q \in Pages \ dirty'[c] : q \in Pages \ dirty[c] /\ q # p /\ file'[q] = file[q]
         /\ committed' = committed
<1>0. FileType /\ CtxOK(ctx[c]) /\ ~ctx[c].error /\ ctx[c].rKey # NoKey /\ Loaded(c)
      /\ lock'[c] # "SHARED"
  BY WriterHas DEF Dirties
<1>1. Touched(ctx[c]).rKey = ctx[c].rKey
  BY <1>0, TouchedOK
<1>2. /\ JournalType'
      /\ Recs' = (IF InUse(c) THEN Recs ELSE {}) \cup {p}
      /\ journal.synced \subseteq journal'.synced
      /\ InUse(c)'
  BY <1>0, DirtiesJournal
<1>3. \A q \in Recs' : \/ q = p /\ ~(InUse(c) /\ p \in Recs)
                          /\ journal'.recs[q].key = Touched(ctx[c]).rKey
                       \/ InUse(c) /\ q \in Recs /\ journal'.recs[q] = journal.recs[q]
  BY <1>0, DirtiesJournal
<1>4. /\ file' = file /\ committed' = committed /\ vers'[c] = vers[c]
      /\ dirty'[c] = dirty[c] \cup {p} /\ Recs' \subseteq Pages
  BY <1>2 DEF Dirties, JournalType
<1>5. KeyInv'
  BY <1>1, <1>2, <1>3, <1>4 DEF KeysOK, KeyInv
<1>6. ReaderKeyOK(c)'
  <2>1. ASSUME ~(InUse(c)' /\ 1 \in Recs') PROVE ~(InUse(c) /\ 1 \in Recs)
    BY <1>2, <2>1
  <2>2. ASSUME ~(InUse(c)' /\ 1 \in Recs') PROVE vers'[c].key = ctx'[c].rKey
    BY <1>0, <1>4, <2>1, <2>2 DEF KeysOK, ReaderKeyOK
  <2>. QED BY <1>0, <2>2 DEF ReaderKeyOK
<1>. QED BY <1>2, <1>4, <1>5, <1>6

\* A statement journals with the key of the last commit; a transaction it inherited
\* from a rekey has journaled all pages already.
LEMMA StatementKeys ==
  ASSUME IInv, IInv', NEW c \in Conns, NEW p \in Pages, KeysOK(c),
         op[c] = "write", op'[c] \in {"write", "commit"}, Dirties(c, p, tx), ctx'[c] = Touched(ctx[c])
  PROVE  KeysOK(c)'
<1>0. /\ op[c] \in Writing /\ op'[c] \in Writing /\ op[c] # "rekey" /\ op'[c] # "rekey"
      /\ op[c] \in {"write", "commit"}
  BY DEF Writing
<1>1. FileType /\ CtxOK(ctx[c]) /\ ~ctx[c].error /\ ctx[c].rKey # NoKey
  BY <1>0, WriterHas
<1>2. ctx'[c].rKey = ctx[c].rKey /\ WriteKey(ctx[c])' = WriteKey(ctx[c])
  <2>1. PICK y : y = Touched(ctx[c])
    OBVIOUS
  <2>2. y.rKey = ctx[c].rKey /\ WriteKey(y) = WriteKey(ctx[c])
    BY <1>1, <2>1, TouchedWriteKey
  <2>3. WriteKey(ctx[c])' = WriteKey(y)
    BY <2>1 DEF WriteKey, KeyOf
  <2>. QED BY <2>1, <2>2, <2>3
<1>3. /\ WriteKey(ctx[c]) = ctx[c].rKey
      /\ ctx[c].rKey = committed.key \/ (Recs = Pages /\ InUse(c))
      /\ \A q \in Pages \ dirty[c] : file[q].key = WriteKey(ctx[c])
  BY <1>0 DEF KeysOK, WriterKeyOK
<1>4. /\ KeyInv' /\ ReaderKeyOK(c)'
      /\ InUse(c)' /\ Recs' \subseteq Pages
      /\ InUse(c) => Recs \subseteq Recs'
      /\ \A q \in Pages \ dirty'[c] : q \in Pages \ dirty[c] /\ q # p /\ file'[q] = file[q]
      /\ committed' = committed
  BY <1>0, <1>2, <1>3, DirtiesKeys
<1>5. WriterKeyOK(c)'
  BY <1>0, <1>2, <1>3, <1>4 DEF WriterKeyOK
<1>. QED BY <1>4, <1>5 DEF KeysOK

\* The loop of a rekey journals the next page with the old key; the pages behind it
\* wait for the new one.
LEMMA RekeyPageKeys ==
  ASSUME IInv, IInv', NEW c \in Conns, KeysOK(c), RekeyPage(c)
  PROVE  KeysOK(c)'
<1>0. /\ nxt[c] \in Pages /\ Dirties(c, nxt[c], Before(c, nxt[c])) /\ op[c] = "rekey"
      /\ op'[c] = "rekey" /\ ctx'[c] = Touched(ctx[c]) /\ nxt'[c] = nxt[c] + 1
  BY RekeyPageDirties
<1>1. op[c] \in Writing /\ op'[c] \in Writing /\ nxt[c] \in Nat
  BY <1>0 DEF Writing, Pages
<1>2. FileType /\ CtxOK(ctx[c]) /\ ~ctx[c].error /\ ctx[c].rKey # NoKey
  BY <1>1, WriterHas
<1>3. /\ ctx'[c].rKey = ctx[c].rKey /\ ctx'[c].wKey # NoKey
      /\ ctx[c].wKey # NoKey => ctx'[c].wKey = ctx[c].wKey
  BY <1>0, <1>2, TouchedWriteKey DEF WriteKey
<1>4. /\ ctx[c].rKey = committed.key
      /\ \A p \in Pages : p < nxt[c] /\ p \notin dirty[c] => file[p].key = ctx[c].wKey
      /\ \A p \in Pages : p >= nxt[c] => p \notin dirty[c] /\ file[p].key = committed.key
      /\ nxt[c] > 1 => ctx[c].wKey # NoKey
  BY <1>0, <1>1 DEF KeysOK, WriterKeyOK
<1>5. /\ KeyInv' /\ ReaderKeyOK(c)' /\ committed' = committed
      /\ \A q \in Pages \ dirty'[c] : q \in Pages \ dirty[c] /\ q # nxt[c] /\ file'[q] = file[q]
  BY <1>0, <1>1, <1>3, <1>4, DirtiesKeys
<1>6. file' = file /\ dirty'[c] = dirty[c] \cup {nxt[c]}
  BY <1>0 DEF Dirties
<1>7. ASSUME NEW p \in Pages, p < nxt'[c], p \notin dirty'[c] PROVE file'[p].key = ctx'[c].wKey
  <2>1. p \notin dirty[c] /\ p # nxt[c]
    BY <1>6, <1>7
  <2>2. p < nxt[c] /\ nxt[c] > 1
    BY <1>0, <1>1, <1>7, <2>1 DEF Pages
  <2>. QED BY <1>3, <1>4, <1>6, <2>1, <2>2
<1>8. ASSUME NEW p \in Pages, p >= nxt'[c] PROVE p \notin dirty'[c] /\ file'[p].key = committed.key
  <2>1. p >= nxt[c] /\ p # nxt[c]
    BY <1>0, <1>1, <1>8 DEF Pages
  <2>. QED BY <1>4, <1>6, <2>1
<1>9. WriterKeyOK(c)'
  BY <1>0, <1>3, <1>4, <1>5, <1>7, <1>8 DEF WriterKeyOK
<1>. QED BY <1>5, <1>9 DEF KeysOK

\* When the loop has ended all pages are journaled with the old key, and those that
\* have been written have the new one.
LEMMA RekeyCommitKeys ==
  ASSUME IInv, IInv', NEW c \in Conns, KeysOK(c), RekeyCommit(c)
  PROVE  KeysOK(c)'
<1>0. /\ Dirties(c, 1, tx) /\ op[c] = "rekey" /\ nxt[c] \notin Pages
      /\ \/ op'[c] = "rekeycommit" /\ ctx'[c] = Touched(ctx[c])
         \/ op'[c] = "write" /\ ctx'[c] = KeyCopied(Touched(ctx[c]))
  BY RekeyCommitDirties
<1>1. op[c] \in Writing /\ op'[c] \in Writing /\ op'[c] # "rekey"
  BY <1>0 DEF Writing
<1>2. FileType /\ CtxOK(ctx[c]) /\ ~ctx[c].error /\ ctx[c].rKey # NoKey /\ ConnType(c) /\ WriterOK(c)
  BY <1>1, WriterHas, OneConn
<1>3. nxt[c] > 1 /\ \A p \in Pages : p < nxt[c]
  BY <1>0, <1>2, PageOne DEF ConnType, Pages
<1>4. Recs = Pages /\ InUse(c)
  <2>1. \A p \in Pages : p \in Recs /\ InUse(c)
    BY <1>0, <1>1, <1>2, <1>3 DEF WriterOK
  <2>2. Recs \subseteq Pages
    BY OneConn DEF JournalType
  <2>. QED BY <2>1, <2>2, PageOne
<1>5. /\ ctx[c].wKey # NoKey
      /\ \A p \in Pages : p \notin dirty[c] => file[p].key = ctx[c].wKey
  BY <1>0, <1>1, <1>3 DEF KeysOK, WriterKeyOK
<1>6. /\ KeyInv' /\ ReaderKeyOK(c)' /\ committed' = committed /\ InUse(c)'
      /\ Recs' = Pages
      /\ \A q \in Pages \ dirty'[c] : q \in Pages \ dirty[c] /\ q # 1 /\ file'[q] = file[q]
  BY <1>0, <1>1, <1>4, PageOne, DirtiesKeys
<1>7. ctx'[c].wKey = ctx[c].wKey /\ (op'[c] = "write" => ctx'[c].rKey = ctx[c].wKey)
  <2>1. Touched(ctx[c]).wKey = ctx[c].wKey /\ CtxOK(Touched(ctx[c]))
    BY <1>2, <1>5, TouchedOK DEF WriteKey
  <2>2. /\ KeyCopied(Touched(ctx[c])).wKey = Touched(ctx[c]).wKey
        /\ KeyCopied(Touched(ctx[c])).rKey = Touched(ctx[c]).wKey
    BY <2>1, KeyCopiedOK
  <2>. QED BY <1>0, <2>1, <2>2
<1>8. WriteKey(ctx[c])' = ctx[c].wKey
  BY <1>5, <1>7 DEF WriteKey
<1>9. WriterKeyOK(c)'
  BY <1>0, <1>5, <1>6, <1>7, <1>8 DEF WriterKeyOK
<1>. QED BY <1>6, <1>9 DEF KeysOK

\* The transaction of a rekey that a statement inherits: the read context gets the new
\* key, the journal has all pages with the old one.
LEMMA RekeyCommitFailsKeys ==
  ASSUME IInv, NEW c \in Conns, KeysOK(c), RekeyCommitFails(c)
  PROVE  KeysOK(c)'
<1>0. /\ op[c] = "rekeycommit" /\ op[c] \in Writing /\ op[c] \in Commits
  BY DEF RekeyCommitFails, Writing, Commits
<1>1. /\ UNCHANGED <<file, journal, committed, dirty, lock>>
      /\ op'[c] = "write" /\ ctx'[c] = KeyCopied(ctx[c])
  BY DEF RekeyCommitFails, held, IInv, TypeInv, Arrays
<1>2. /\ ctx[c].wKey # NoKey /\ Recs = Pages /\ 1 \in journal.synced /\ CtxOK(ctx[c])
      /\ lock[c] # "SHARED"
  BY <1>0, OneConn, WriterHas DEF WriterOK
<1>3. ctx'[c].rKey = ctx[c].wKey /\ WriteKey(ctx[c])' = ctx[c].wKey /\ WriteKey(ctx[c]) = ctx[c].wKey
  BY <1>1, <1>2, KeyCopiedOK DEF WriteKey
<1>4. KeyInv'
  BY <1>1, KeyInvKept DEF KeysOK
<1>5. InUse(c)' /\ Recs' = Pages
  BY <1>1, <1>2 DEF InUse, Recs
<1>6. ReaderKeyOK(c)'
  BY <1>1, <1>2, <1>5, PageOne DEF ReaderKeyOK, Writing
<1>7. WriterKeyOK(c)'
  BY <1>0, <1>1, <1>3, <1>5 DEF KeysOK, WriterKeyOK
<1>. QED BY <1>4, <1>6, <1>7 DEF KeysOK

\* A page goes to the file with the key of the write context, its old image is synced.
LEMMA WritesOutKeys ==
  ASSUME IInv, IInv', NEW c \in Conns, NEW p \in Pages, KeysOK(c), WritesOut(c, p)
  PROVE  KeysOK(c)'
<1>0. /\ op[c] \in Writing /\ op'[c] = op[c] /\ ctx'[c] = ctx[c] /\ nxt'[c] = nxt[c]
      /\ p \in dirty[c] /\ dirty'[c] = dirty[c] \ {p} /\ committed' = committed
      /\ vers'[c] = IF p = 1 THEN file'[1] ELSE vers[c]
  BY DEF WritesOut
<1>1. /\ ctx[c].wKey # NoKey
      /\ \A q \in Pages \ {p} : file'[q] = file[q]
      /\ file'[p].key = ctx[c].wKey
      /\ Recs' = Recs /\ journal'.recs = journal.recs /\ p \in journal'.synced /\ p \in Recs
      /\ journal.synced \subseteq journal'.synced
  BY WritesOutFile
<1>2. WriteKey(ctx[c]) = ctx[c].wKey /\ WriteKey(ctx[c])' = ctx[c].wKey
  BY <1>0, <1>1 DEF WriteKey
<1>3. InUse(c) /\ InUse(c)'
  BY <1>0, <1>1 DEF InUse
<1>4. Loaded(c) /\ lock'[c] # "SHARED" /\ JournalType
  <2>1. Loaded(c) /\ lock[c] # "SHARED" /\ JournalType
    BY <1>0, WriterHas
  <2>. QED BY <2>1 DEF WritesOut
<1>5. KeyInv'
  BY <1>0, <1>1 DEF KeysOK, KeyInv
<1>6. ReaderKeyOK(c)'
  <2>1. ASSUME 1 \notin Recs PROVE vers'[c] = vers[c] /\ vers[c].key = ctx[c].rKey
    BY <1>0, <1>1, <1>4, <2>1 DEF KeysOK, ReaderKeyOK
  <2>. QED BY <1>0, <1>1, <1>3, <1>4, <2>1 DEF ReaderKeyOK
<1>7. WriterKeyOK(c)'
  <2>1. CASE op[c] = "rekey"
    <3>1. /\ ctx[c].rKey = committed.key
          /\ \A q \in Pages : q < nxt[c] /\ q \notin dirty[c] => file[q].key = ctx[c].wKey
          /\ \A q \in Pages : q >= nxt[c] => q \notin dirty[c] /\ file[q].key = committed.key
      BY <1>0, <2>1 DEF KeysOK, WriterKeyOK
    <3>2. \A q \in Pages : q < nxt[c] /\ q \notin dirty'[c] => file'[q].key = ctx[c].wKey
      BY <1>0, <1>1, <3>1
    <3>3. \A q \in Pages : q >= nxt[c] => q \notin dirty'[c] /\ file'[q].key = committed.key
      BY <1>0, <1>1, <3>1
    <3>. QED BY <1>0, <1>1, <2>1, <3>1, <3>2, <3>3 DEF WriterKeyOK
  <2>2. CASE op[c] # "rekey"
    <3>1. \A q \in Pages \ dirty'[c] : file'[q].key = ctx[c].wKey
      BY <1>0, <1>1, <1>2, <2>2 DEF KeysOK, WriterKeyOK
    <3>. QED BY <1>0, <1>1, <1>2, <1>3, <2>2, <3>1 DEF KeysOK, WriterKeyOK
  <2>. QED BY <2>1, <2>2
<1>. QED BY <1>5, <1>6, <1>7 DEF KeysOK

\* The commit: every page has the key of the write context, and so has the read
\* context, if need be because the key is copied.
LEMMA FinishKeys ==
  ASSUME IInv, NEW c \in Conns, KeysOK(c), Finish(c)
  PROVE  KeysOK(c)'
<1>0. /\ op[c] \in Commits /\ op[c] \in Writing /\ op[c] # "rekey" /\ dirty[c] = {}
  BY DEF Finish, Commits, Writing
<1>1. /\ UNCHANGED <<file, cache, vers>> /\ op'[c] = "idle" /\ journal' = NoJournal
      /\ ctx'[c] = IF op[c] = "commit" THEN ctx[c] ELSE KeyCopied(ctx[c])
      /\ committed'.key = ctx[c].wKey
  BY DEF Finish, IInv, TypeInv, Arrays
<1>2. ctx[c].wKey # NoKey /\ vers[c] = file[1] /\ CtxOK(ctx[c])
  BY <1>0, OneConn, WriterHas DEF WriterOK
<1>3. WriteKey(ctx[c]) = ctx[c].wKey
  BY <1>2 DEF WriteKey
<1>4. \A p \in Pages : file[p].key = ctx[c].wKey
  BY <1>0, <1>3 DEF KeysOK, WriterKeyOK
<1>5. ctx'[c].rKey = ctx[c].wKey
  <2>1. CASE op[c] = "commit"
    BY <1>1, <1>3, <2>1 DEF KeysOK, WriterKeyOK, Writing
  <2>2. CASE op[c] # "commit"
    BY <1>1, <1>2, <2>2, KeyCopiedOK
  <2>. QED BY <2>1, <2>2
<1>6. KeyInv'
  BY <1>1, <1>4, EmptyJournal DEF KeyInv, Recs
<1>7. op'[c] \notin Writing
  BY <1>1 DEF Writing
<1>. QED BY <1>1, <1>2, <1>4, <1>5, <1>6, <1>7, PageOne, IdleKeys

\* A rollback restores the old key in the file, and keeps the cache only if the read
\* context has it.
LEMMA RollbackKeys ==
  ASSUME IInv, NEW c \in Conns, KeysOK(c), op[c] \in Writing, PagerRollback(c),
         op' = [op EXCEPT ![c] = "idle"]
  PROVE  KeysOK(c)'
<1>0. /\ FileType /\ JournalType /\ WriterOK(c) /\ ConnType(c) /\ CtxOK(ctx[c])
      /\ cache[c][1] # NoPage /\ Loaded(c)
  BY WriterHas, OneConn
<1>1. file' = PlayedBack /\ journal' = NoJournal /\ committed' = committed
  BY RollbackEffect
<1>2. cache'[c] = IF Bad(c) THEN EmptyCache
                  ELSE [p \in Pages |-> IF p \in Seen(c) THEN journal.recs[p].ver
                                        ELSE cache[c][p]]
  BY RollbackEffect
<1>3. vers'[c] = IF 1 \in Seen(c) THEN journal.recs[1] ELSE vers[c]
  BY RollbackEffect
<1>4. ctx'[c].rKey = ctx[c].rKey
  <2>1. ctx'[c] = [ctx[c] EXCEPT !.error = Bad(c)]
    BY RollbackEffect
  <2>. QED BY <1>0, <2>1 DEF CtxOK, Ctxs
<1>5. op'[c] \notin Writing
  BY DEF IInv, TypeInv, Arrays, Writing
<1>6. KeyInv'
  <2>1. \A p \in Pages : file'[p].key = committed.key
    BY <1>0, <1>1, PlayedBackOK DEF KeysOK, KeyInv, JournalType
  <2>. QED BY <1>1, <2>1, EmptyJournal DEF KeyInv, Recs
<1>7. Loaded(c)' => ~Bad(c)
  BY <1>2 DEF Loaded, EmptyCache
<1>8. CASE 1 \in Seen(c)
  <2>1. journal.recs[1].key = committed.key /\ (~Bad(c) => journal.recs[1].key = ctx[c].rKey)
    BY <1>8 DEF Seen, Bad, KeysOK, KeyInv
  <2>. QED BY <1>1, <1>3, <1>4, <1>5, <1>6, <1>7, <1>8, <2>1, IdleKeys
<1>9. CASE 1 \notin Seen(c)
  <2>1. ~(InUse(c) /\ 1 \in Recs)
    BY <1>0, <1>9 DEF Seen
  <2>2. vers[c].key = ctx[c].rKey
    BY <1>0, <2>1 DEF KeysOK, ReaderKeyOK
  <2>3. op[c] # "rekeycommit"
    BY <1>0, <2>1, PageOne DEF WriterOK, Commits, InUse
  <2>4. ctx[c].rKey = committed.key
    BY <2>1, <2>3, PageOne DEF KeysOK, WriterKeyOK, Writing
  <2>. QED BY <1>1, <1>3, <1>4, <1>5, <1>6, <1>9, <2>2, <2>4, IdleKeys
<1>. QED BY <1>8, <1>9

---------------------------------------------------------------------------
(* The keys: the invariant holds.                                          *)

\* At the start there is one key, and no connection knows it.
LEMMA InitKeysInv == Init => KeysInv
<1> SUFFICES ASSUME Init PROVE KeyInv /\ \A c \in Conns : ReaderKeyOK(c) /\ WriterKeyOK(c)
  BY DEF KeysInv
<1>1. KeyInv
  BY EmptyJournal DEF Init, KeyInv, Recs
<1>2. \A c \in Conns : op[c] \notin Writing /\ ~Loaded(c)
  BY DEF Init, Writing, Loaded, EmptyCache
<1>. QED BY <1>1, <1>2 DEF ReaderKeyOK, WriterKeyOK

\* The keys that one connection looks after are enough for the others.
LEMMA KeysStep ==
  ASSUME KeysInv, NEW c \in Conns, Elsewhere(c), OthersKept(c), anomaly \subseteq anomaly',
         KeysOK(c) /\ Unmixed' => KeysOK(c)'
  PROVE  KeysInv'
<1>1. Unmixed' => KeysOK(c)
  BY DEF KeysInv, KeysOK, Unmixed
<1>2. Unmixed' => KeyInv' /\ ReaderKeyOK(c)' /\ WriterKeyOK(c)'
  BY <1>1 DEF KeysOK
<1>. QED BY <1>2, KeysKept

\* The commit changes the key of the database under connections that have no lock:
\* they will find that page 1 has changed.
LEMMA FinishKeysInv ==
  ASSUME IInv, KeysInv, NEW c \in Conns, Finish(c)
  PROVE  KeysInv'
<1> SUFFICES ASSUME Unmixed' PROVE KeyInv' /\ \A d \in Conns : ReaderKeyOK(d)' /\ WriterKeyOK(d)'
  BY DEF KeysInv
<1>1. KeyInv /\ \A d \in Conns : ReaderKeyOK(d) /\ WriterKeyOK(d)
  BY DEF Finish, KeysInv, Unmixed
<1>2. KeysOK(c)'
  BY <1>1, FinishKeys DEF KeysOK
<1>3. ASSUME NEW d \in Others(c) PROVE ReaderKeyOK(d)' /\ WriterKeyOK(d)'
  <2>1. op[c] \in Writing /\ lock[c] = "EXCLUSIVE"
    BY OneConn DEF LevelOK, Finish, Commits, Writing
  <2>2. d \in Conns /\ op[d] \notin Writing /\ lock[d] = "NO"
    BY <1>3, <2>1, OneWriter DEF IInv, LockInv, Others
  <2>3. /\ op'[d] = op[d] /\ lock'[d] = lock[d] /\ ctx'[d] = ctx[d] /\ cache'[d] = cache[d]
        /\ vers'[d] = vers[d]
    BY <1>3, FinishStep DEF Elsewhere
  <2>. QED BY <1>1, <2>2, <2>3 DEF ReaderKeyOK, WriterKeyOK, Loaded
<1>. QED BY <1>2, <1>3 DEF KeysOK, Others

\* Every step of every connection keeps the invariant of the keys.
LEMMA NextKeysInv == IInv /\ KeysInv /\ [Next]_vars => KeysInv'
<1> SUFFICES ASSUME IInv, KeysInv, [Next]_vars PROVE KeysInv'
  OBVIOUS
<1>0. IInv'
  BY NextIInv
<1>1. CASE UNCHANGED vars
  BY <1>1 DEF vars, KeysInv, Unmixed, KeyInv, ReaderKeyOK, WriterKeyOK, Loaded, InUse, Recs, WriteKey, KeyOf
<1>2. ASSUME NEW c \in Conns,
             Open(c) \/ Key(c) \/ StartRekey(c) \/ EndRead(c) \/ RekeyBusy(c) \/ Close(c) \/ Crash(c)
      PROVE  KeysInv'
  <2>1. Elsewhere(c) /\ OthersKept(c)
    BY <1>2, OpenStep, KeyStep, StartRekeyStep, EndReadStep, RekeyBusyStep, CloseStep, CrashStep
  <2>2. anomaly' = anomaly
    BY <1>2 DEF Open, Key, StartRekey, EndRead, RekeyBusy, Close, Crash, Gone, ghosts
  <2>3. KeysOK(c) => KeysOK(c)'
    BY <1>2, ContextKeys, LeaveKeys, DropKeys
  <2>. QED BY <2>1, <2>2, <2>3, KeysStep
<1>3. ASSUME NEW c \in Conns, SharedLock(c) \/ RecoverHot(c) \/ RecoverDies(c) \/ RekeyBadPage(c)
      PROVE  KeysInv'
  <2>1. Elsewhere(c) /\ OthersKept(c)
    BY <1>3, SharedLockStep, RecoverHotStep, RecoverDiesStep, RekeyBadPageStep
  <2>2. anomaly' = anomaly
    BY <1>3 DEF SharedLock, RecoverHot, RecoverDies, RekeyBadPage, Abandon, ghosts
  <2>3. KeysOK(c) => KeysOK(c)'
    BY <1>3, SharedLockKeys, RecoverKeys, DropKeys DEF RekeyBadPage
  <2>. QED BY <2>1, <2>2, <2>3, KeysStep
<1>4. ASSUME NEW c \in Conns, BeginWrite(c) \/ BeginRekey(c) PROVE KeysInv'
  <2>1. anomaly' \in SUBSET {"mixed", "copied"} /\ anomaly \subseteq anomaly'
    BY <1>4 DEF BeginWrite, BeginRekey, IInv, TypeInv, GhostType
  <2>2. PagerBegin(c, "read", "write") \/ PagerBegin(c, "rekey1", "rekey")
    BY <1>4 DEF BeginWrite, BeginRekey
  <2>3. Elsewhere(c) /\ OthersKept(c)
    BY <2>1, <2>2, BeginStep DEF Reading
  <2>4. KeysOK(c) /\ Unmixed' => KeysOK(c)'
    BY <1>4, BeginWriteKeys, BeginRekeyKeys
  <2>. QED BY <2>1, <2>3, <2>4, KeysStep
<1>5. ASSUME NEW c \in Conns, Commit(c) \/ RekeyPage(c) \/ RekeyCommit(c) \/ RekeyCommitFails(c)
      PROVE  KeysInv'
  <2>1. Elsewhere(c) /\ OthersKept(c)
    BY <1>5, CommitStep, RekeyPageStep, RekeyCommitStep, RekeyCommitFailsStep
  <2>2. anomaly \subseteq anomaly'
    BY <1>5, CommitDirties, RekeyPageDirties, RekeyCommitDirties DEF RekeyCommitFails
  <2>3. Commit(c) /\ KeysOK(c) => KeysOK(c)'
    BY <1>0, CommitDirties, StatementKeys, PageOne
  <2>4. KeysOK(c) => KeysOK(c)'
    BY <1>0, <1>5, <2>3, RekeyPageKeys, RekeyCommitKeys, RekeyCommitFailsKeys
  <2>. QED BY <2>1, <2>2, <2>4, KeysStep
<1>6. ASSUME NEW c \in Conns, Rollback(c) \/ RekeyWriteFails(c) PROVE KeysInv'
  <2>1. Elsewhere(c) /\ OthersKept(c) /\ PagerRollback(c) /\ op[c] \in Writing
        /\ op' = [op EXCEPT ![c] = "idle"]
    BY <1>6, RollbackActionStep
  <2>2. anomaly' = anomaly
    BY <2>1, RollbackEffect
  <2>3. KeysOK(c) => KeysOK(c)'
    BY <2>1, RollbackKeys
  <2>. QED BY <2>1, <2>2, <2>3, KeysStep
<1>7. ASSUME NEW c \in Conns, NEW p \in Pages,
             ReadPage(c, p) \/ PageWrite(c, p) \/ Spill(c, p) \/ WriteOut(c, p)
      PROVE  KeysInv'
  <2>1. Elsewhere(c) /\ OthersKept(c)
    BY <1>7, ReadPageStep, PageWriteStep, SpillWrites, WriteOutWrites, WritesOutStep
  <2>2. anomaly' = anomaly
    BY <1>7 DEF ReadPage, PageWrite, Spill, WriteOut, Abandon, ghosts
  <2>3. PageWrite(c, p) /\ KeysOK(c) => KeysOK(c)'
    <3>1. PageWrite(c, p) => op[c] = "write" /\ op'[c] = "write"
      BY DEF PageWrite
    <3>. QED BY <1>0, <3>1, PageWriteDirties, StatementKeys
  <2>4. KeysOK(c) => KeysOK(c)'
    BY <1>0, <1>7, <2>3, ReadPageKeys, SpillWrites, WriteOutWrites, WritesOutKeys
  <2>. QED BY <2>1, <2>2, <2>4, KeysStep
<1>. QED BY <1>1, <1>2, <1>3, <1>4, <1>5, <1>6, <1>7, FinishKeysInv DEF Next

\* The invariant of the keys: the journal and what has not been written have the old key,
\* a read context has the key of the pages in its cache.
THEOREM KeysInvariance == Spec => []KeysInv
  BY Invariance, InitKeysInv, NextKeysInv, PTL DEF Spec

\* "The journal must be written using the original key material": what a rollback or a hot
\* journal restores can be read with the key of the last commit, also while a rekey is
\* rewriting the pages and when it has left its transaction to a statement.
THEOREM JournalKeepsOldKey == Spec => []JournalHasOldKey
<1>1. ASSUME KeysInv PROVE JournalHasOldKey
  BY <1>1 DEF KeysInv, KeyInv, Unmixed, JournalHasOldKey, Recs, Range
<1>. QED BY <1>1, KeysInvariance, PTL

---------------------------------------------------------------------------
(* The salt.                                                               *)

\* With no salt of their own all secrets use the salt of the file.
LEMMA DerivedSalt ==
  ASSUME NoOwnSalts, file[1].salt = FirstSalt, NEW x, CtxOK(x), CtxSaltOK(x)
  PROVE  CtxSaltOK(Derived(x))
<1>1. CASE x.error
  BY <1>1 DEF Derived
<1>2. CASE ~x.error
  <2> DEFINE header == IF x.salt = NoSalt THEN file[1].salt ELSE x.salt
             rKey == IF x.rKey = NoKey THEN KeyOf(x.rPass, header) ELSE x.rKey
             shared == IF x.rKey = NoKey THEN rKey[2] ELSE header
             wKey == IF x.wKey = NoKey THEN KeyOf(x.wPass, shared) ELSE x.wKey
             salt == IF x.wKey = NoKey THEN wKey[2] ELSE shared
  <2>0. x \in Ctxs
    BY DEF CtxOK
  <2>1. \A s \in Secrets : KeyOf(s, FirstSalt) = <<s, FirstSalt>> /\ KeyOf(s, FirstSalt)[2] = FirstSalt
    BY DEF KeyOf, NoOwnSalts
  <2>2. header = FirstSalt
    BY DEF CtxSaltOK
  <2>3. rKey = <<x.rPass, FirstSalt>> /\ shared = FirstSalt
    BY <2>0, <2>1, <2>2 DEF CtxSaltOK, Ctxs
  <2>4. wKey = <<x.wPass, FirstSalt>> /\ salt = FirstSalt
    BY <2>0, <2>1, <2>3 DEF CtxSaltOK, Ctxs
  <2>5. Derived(x) = [x EXCEPT !.rKey = rKey, !.wKey = wKey, !.salt = salt]
    BY <1>2 DEF Derived
  <2> HIDE DEF header, rKey, shared, wKey, salt
  <2>6. /\ Derived(x).rPass = x.rPass /\ Derived(x).wPass = x.wPass
        /\ Derived(x).rKey = rKey /\ Derived(x).wKey = wKey /\ Derived(x).salt = salt
    BY <2>0, <2>5 DEF Ctxs
  <2>. QED BY <2>3, <2>4, <2>6 DEF CtxSaltOK
<1>. QED BY <1>1, <1>2

\* So does the context that a call of the codec leaves behind.
LEMMA UsedSalt ==
  ASSUME NoOwnSalts, FileType, file[1].salt = FirstSalt, NEW x, CtxOK(x), CtxSaltOK(x)
  PROVE  /\ CtxSaltOK(Touched(x))
         /\ \A image : CtxSaltOK(AfterDecode(x, image))
<1>1. PICK y : y = Derived(x)
  OBVIOUS
<1>2. y \in Ctxs /\ CtxSaltOK(y)
  BY <1>1, DerivedOK, DerivedSalt DEF CtxOK
<1>3. CtxSaltOK([y EXCEPT !.used = TRUE]) /\ CtxSaltOK([y EXCEPT !.error = TRUE])
  BY <1>2 DEF CtxSaltOK, Ctxs
<1>. QED BY <1>1, <1>3 DEF Touched, AfterDecode

\* The salt needs to be looked at in the file, the journal and the context of the
\* connection that moves.
LEMMA SaltStep ==
  ASSUME SaltInv, NEW c \in Conns, Elsewhere(c),
         CtxSaltOK(ctx'[c]),
         file' = file \/ file'[1].salt = FirstSalt,
         journal' = journal \/ (1 \in Recs' => journal'.recs[1].salt = FirstSalt),
         committed' = committed \/ committed'.key = <<committed'.secret, FirstSalt>>
  PROVE  SaltInv'
<1>1. \A d \in Conns : CtxSaltOK(ctx'[d])
  BY DEF SaltInv, Elsewhere, Others
<1>2. file'[1].salt = FirstSalt
  BY DEF SaltInv
<1>3. 1 \in Recs' => journal'.recs[1].salt = FirstSalt
  BY DEF SaltInv, Recs
<1>4. committed'.key = <<committed'.secret, FirstSalt>>
  BY DEF SaltInv
<1>5. \A d \in Conns : CtxSaltOK(ctx[d])'
  BY <1>1 DEF CtxSaltOK
<1>. QED BY <1>2, <1>3, <1>4, <1>5 DEF SaltInv

\* A new context knows no salt, and a copied key is one that the context had.
LEMMA ContextSalts ==
  /\ \A s \in Secrets : CtxSaltOK(NewCtx(s))
  /\ \A x : CtxOK(x) /\ CtxSaltOK(x) => CtxSaltOK(KeyCopied(x))
<1>1. \A s \in Secrets : CtxSaltOK(NewCtx(s))
  BY DEF CtxSaltOK, NewCtx
<1>2. ASSUME NEW x, CtxOK(x), CtxSaltOK(x) PROVE CtxSaltOK(KeyCopied(x))
  <2>1. PICK y : y = KeyCopied(x)
    OBVIOUS
  <2>2. /\ y.rKey = x.wKey /\ y.wKey = x.wKey /\ y.rPass = x.wPass /\ y.wPass = x.wPass
        /\ y.salt = x.salt
    BY <1>2, <2>1, KeyCopiedOK
  <2>. QED BY <1>2, <2>1, <2>2 DEF CtxSaltOK
<1>. QED BY <1>1, <1>2

\* What the invariant of the salt says of one connection.
LEMMA OneSalt ==
  ASSUME IInv, SaltInv, NEW c \in Conns
  PROVE  /\ CtxOK(ctx[c]) /\ CtxSaltOK(ctx[c]) /\ FileType /\ JournalType
         /\ file[1].salt = FirstSalt
  BY OneConn DEF ConnType, SaltInv

\* Steps that write nothing.
LEMMA QuietSalt ==
  ASSUME NoOwnSalts, IInv, SaltInv, NEW c \in Conns,
         \/ Open(c) \/ Key(c) \/ StartRekey(c) \/ EndRead(c) \/ RekeyBusy(c) \/ Close(c) \/ Crash(c)
         \/ SharedLock(c) \/ RekeyBadPage(c) \/ BeginWrite(c) \/ BeginRekey(c)
         \/ \E p \in Pages : ReadPage(c, p)
  PROVE  CtxSaltOK(ctx'[c]) /\ UNCHANGED <<file, journal, committed>>
<1>0. CtxSaltOK(ctx[c]) /\ \A image : CtxSaltOK(AfterDecode(ctx[c], image))
  BY OneSalt, UsedSalt
<1>1. CASE Open(c) \/ Key(c)
  BY <1>1, ContextSalts DEF Open, Key, held, ghosts, IInv, TypeInv, Arrays
<1>2. CASE StartRekey(c)
  <2>1. PICK s \in Secrets : ctx' = [ctx EXCEPT ![c].wPass = s, ![c].wKey = NoKey]
    BY <1>2 DEF StartRekey
  <2>2. ctx'[c] = [ctx[c] EXCEPT !.wPass = s, !.wKey = NoKey] /\ ctx[c] \in Ctxs
    BY <2>1, OneSalt DEF IInv, TypeInv, Arrays, CtxOK
  <2>3. CtxSaltOK(ctx'[c])
    BY <1>0, <2>2 DEF CtxSaltOK, Ctxs
  <2>. QED BY <1>2, <2>3 DEF StartRekey, ghosts
<1>3. CASE EndRead(c) \/ RekeyBusy(c) \/ BeginWrite(c) \/ BeginRekey(c)
  BY <1>0, <1>3 DEF EndRead, RekeyBusy, BeginWrite, BeginRekey, PagerBegin, ghosts
<1>4. CASE Close(c) \/ Crash(c)
  BY <1>4, ContextSalts, RekeyAssumption DEF Close, Crash, Gone, ghosts, IInv, TypeInv, Arrays
<1>5. CASE SharedLock(c)
  <2>1. ctx'[c] \in {ctx[c], AfterDecode(ctx[c], file[1])}
    BY <1>5 DEF SharedLock, IInv, TypeInv, Arrays
  <2>. QED BY <1>0, <1>5, <2>1 DEF SharedLock, Abandon, ghosts
<1>6. CASE RekeyBadPage(c)
  BY <1>0, <1>6 DEF RekeyBadPage, Abandon, ghosts, IInv, TypeInv, Arrays
<1>7. CASE \E p \in Pages : ReadPage(c, p)
  <2>1. PICK p \in Pages : ReadPage(c, p)
    BY <1>7
  <2>2. ctx'[c] = AfterDecode(ctx[c], file[p])
    BY <2>1 DEF ReadPage, IInv, TypeInv, Arrays
  <2>. QED BY <1>0, <2>1, <2>2 DEF ReadPage, Abandon, ghosts
<1>. QED BY <1>1, <1>2, <1>3, <1>4, <1>5, <1>6, <1>7

\* What is journaled of page 1 shows the salt of the context.
LEMMA DirtiesSalt ==
  ASSUME NoOwnSalts, IInv, SaltInv, NEW c \in Conns, op[c] \in Writing, NEW p \in Pages, NEW w,
         Dirties(c, p, w),
         ctx'[c] = Touched(ctx[c]) \/ ctx'[c] = KeyCopied(Touched(ctx[c]))
  PROVE  SaltInv'
<1>0. CtxOK(ctx[c]) /\ ~ctx[c].error /\ FileType /\ CtxSaltOK(ctx[c]) /\ file[1].salt = FirstSalt
  BY WriterHas, OneSalt
<1>1. CtxOK(Touched(ctx[c])) /\ CtxSaltOK(Touched(ctx[c])) /\ Touched(ctx[c]).salt \in Salts
  BY <1>0, TouchedOK, UsedSalt
<1>2. Touched(ctx[c]).salt = FirstSalt
  BY <1>1, RekeyAssumption DEF CtxSaltOK
<1>3. CtxSaltOK(ctx'[c])
  BY <1>1, ContextSalts
<1>4. 1 \in Recs' => journal'.recs[1].salt = FirstSalt
  <2>1. \A q \in Recs' : \/ q = p /\ (p = 1 => journal'.recs[q].salt = Touched(ctx[c]).salt)
                         \/ q \in Recs /\ journal'.recs[q] = journal.recs[q]
    BY <1>0, DirtiesJournal
  <2>. QED BY <1>2, <2>1 DEF SaltInv
<1>5. Elsewhere(c) /\ file' = file /\ committed' = committed
  BY DEF Dirties
<1>. QED BY <1>3, <1>4, <1>5, SaltStep

\* A page 1 that is written shows the salt of the context.
LEMMA WritesOutSalt ==
  ASSUME IInv, SaltInv, NEW c \in Conns, NEW p \in Pages, WritesOut(c, p)
  PROVE  SaltInv'
<1>1. Elsewhere(c) /\ ctx'[c] = ctx[c] /\ committed' = committed
  BY DEF WritesOut
<1>2. /\ FileType' /\ \A q \in Pages \ {p} : file'[q] = file[q]
      /\ p = 1 => file'[1].salt = ctx[c].salt
      /\ Recs' = Recs /\ journal'.recs = journal.recs
  BY WritesOutFile
<1>3. file'[1].salt = FirstSalt
  BY <1>2, PageOne, RekeyAssumption, OneSalt DEF FileType, CtxSaltOK
<1>4. 1 \in Recs' => journal'.recs[1].salt = FirstSalt
  BY <1>2 DEF SaltInv
<1>5. CtxSaltOK(ctx'[c])
  BY <1>1, OneSalt
<1>. QED BY <1>1, <1>3, <1>4, <1>5, SaltStep

\* A rollback and a recovery restore a page 1 that shows the salt.
LEMMA PlayedBackSalt ==
  ASSUME IInv, SaltInv
  PROVE  PlayedBack[1].salt = FirstSalt
<1>1. FileType /\ JournalType
  BY DEF IInv, TypeInv
<1>. QED BY <1>1, PlayedBackOK, PageOne DEF SaltInv, JournalType

\* At the start the salt is that of the file.
LEMMA InitSaltInv == Init => SaltInv
<1> SUFFICES ASSUME Init PROVE SaltInv
  OBVIOUS
<1>1. \A c \in Conns : CtxSaltOK(ctx[c])
  BY ContextSalts, RekeyAssumption DEF Init
<1>2. Recs = {}
  BY EmptyJournal DEF Init, Recs
<1>. QED BY <1>1, <1>2, PageOne DEF Init, SaltInv

\* Every step of every connection keeps the salt.
LEMMA NextSaltInv ==
  ASSUME NoOwnSalts
  PROVE  IInv /\ SaltInv /\ [Next]_vars => SaltInv'
<1> SUFFICES ASSUME IInv, SaltInv, [Next]_vars PROVE SaltInv'
  OBVIOUS
<1>1. CASE UNCHANGED vars
  BY <1>1 DEF vars, SaltInv, CtxSaltOK, Recs
<1>2. ASSUME NEW c \in Conns,
             \/ Open(c) \/ Key(c) \/ StartRekey(c) \/ EndRead(c) \/ RekeyBusy(c) \/ Close(c) \/ Crash(c)
             \/ SharedLock(c) \/ RekeyBadPage(c) \/ BeginWrite(c) \/ BeginRekey(c)
             \/ \E p \in Pages : ReadPage(c, p)
      PROVE  SaltInv'
  <2>1. Elsewhere(c)
    <3>1. BeginWrite(c) \/ BeginRekey(c) => Elsewhere(c)
      BY DEF BeginWrite, BeginRekey, PagerBegin, IInv, TypeInv, Elsewhere, Arrays, Others
    <3>. QED BY <1>2, <3>1, OpenStep, KeyStep, StartRekeyStep, EndReadStep, RekeyBusyStep, CloseStep,
                CrashStep, SharedLockStep, RekeyBadPageStep, ReadPageStep
  <2>2. CtxSaltOK(ctx'[c]) /\ UNCHANGED <<file, journal, committed>>
    BY <1>2, QuietSalt
  <2>. QED BY <2>1, <2>2, SaltStep
<1>3. ASSUME NEW c \in Conns, RecoverHot(c) PROVE SaltInv'
  <2>1. Elsewhere(c) /\ file' = PlayedBack /\ journal' = NoJournal /\ committed' = committed /\ ctx' = ctx
    BY <1>3, RecoverHotStep DEF RecoverHot, ghosts
  <2>. QED BY <2>1, PlayedBackSalt, OneSalt, EmptyJournal, SaltStep DEF Recs
<1>4. ASSUME NEW c \in Conns, RecoverDies(c) PROVE SaltInv'
  <2>1. PICK S \in SUBSET journal.synced :
           file' = [p \in Pages |-> IF p \in S THEN journal.recs[p] ELSE file[p]]
    BY <1>4 DEF RecoverDies
  <2>2. Elsewhere(c) /\ journal' = journal /\ committed' = committed /\ ctx'[c] = NewCtx(FirstSecret)
    BY <1>4, RecoverDiesStep DEF RecoverDies, ghosts, IInv, TypeInv, Arrays
  <2>3. file'[1].salt = FirstSalt
    BY <2>1, PageOne, OneSalt DEF JournalType, SaltInv
  <2>4. CtxSaltOK(ctx'[c])
    BY <2>2, ContextSalts, RekeyAssumption
  <2>. QED BY <1>4, <2>2, <2>3, <2>4, SaltStep
<1>5. ASSUME NEW c \in Conns, Commit(c) \/ RekeyPage(c) \/ RekeyCommit(c) PROVE SaltInv'
  <2>1. PICK p \in Pages : \E w : /\ Dirties(c, p, w) /\ op[c] \in Writing
                                  /\ ctx'[c] = Touched(ctx[c]) \/ ctx'[c] = KeyCopied(Touched(ctx[c]))
    BY <1>5, CommitDirties, RekeyPageDirties, RekeyCommitDirties, PageOne DEF Writing
  <2>2. PICK w : /\ Dirties(c, p, w) /\ op[c] \in Writing
                 /\ ctx'[c] = Touched(ctx[c]) \/ ctx'[c] = KeyCopied(Touched(ctx[c]))
    BY <2>1
  <2>. QED BY <1>5, <2>2, DirtiesSalt
<1>6. ASSUME NEW c \in Conns, RekeyCommitFails(c) PROVE SaltInv'
  <2>1. Elsewhere(c) /\ UNCHANGED <<file, journal, committed>> /\ ctx'[c] = KeyCopied(ctx[c])
    BY <1>6, RekeyCommitFailsStep DEF RekeyCommitFails, IInv, TypeInv, Arrays
  <2>2. CtxSaltOK(ctx'[c])
    BY <1>6, <2>1, OneSalt, ContextSalts
  <2>. QED BY <1>6, <2>1, <2>2, SaltStep
<1>7. ASSUME NEW c \in Conns, Rollback(c) \/ RekeyWriteFails(c) PROVE SaltInv'
  <2>1. Elsewhere(c) /\ PagerRollback(c) /\ op[c] \in Writing
    BY <1>7, RollbackActionStep
  <2>2. /\ file' = PlayedBack /\ journal' = NoJournal /\ committed' = committed
        /\ ctx'[c] = [ctx[c] EXCEPT !.error = Bad(c)]
    BY <2>1, RollbackEffect
  <2>3. CtxSaltOK(ctx'[c])
    BY <1>7, <2>2, OneSalt DEF CtxSaltOK, CtxOK, Ctxs
  <2>. QED BY <1>7, <2>1, <2>2, <2>3, PlayedBackSalt, EmptyJournal, SaltStep DEF Recs
<1>8. ASSUME NEW c \in Conns, Finish(c) PROVE SaltInv'
  <2>1. /\ Elsewhere(c) /\ file' = file /\ journal' = NoJournal
        /\ ctx'[c] = ctx[c] \/ ctx'[c] = KeyCopied(ctx[c])
        /\ committed'.key = ctx[c].wKey /\ committed'.secret = ctx[c].wPass
    BY <1>8, FinishStep DEF Finish, IInv, TypeInv, Arrays
  <2>2. ctx[c].wKey # NoKey
    BY <1>8, OneConn DEF WriterOK, Finish, Commits, Writing
  <2>3. committed'.key = <<committed'.secret, FirstSalt>>
    BY <1>8, <2>1, <2>2, OneSalt DEF CtxSaltOK
  <2>4. CtxSaltOK(ctx'[c])
    BY <1>8, <2>1, OneSalt, ContextSalts
  <2>. QED BY <1>8, <2>1, <2>3, <2>4, EmptyJournal, SaltStep DEF Recs
<1>9. ASSUME NEW c \in Conns, NEW p \in Pages, PageWrite(c, p) \/ Spill(c, p) \/ WriteOut(c, p)
      PROVE  SaltInv'
  <2>1. PageWrite(c, p) => op[c] \in Writing
    BY DEF PageWrite, Writing
  <2>. QED BY <1>9, <2>1, PageWriteDirties, DirtiesSalt, SpillWrites, WriteOutWrites, WritesOutSalt
<1>. QED BY <1>1, <1>2, <1>3, <1>4, <1>5, <1>6, <1>7, <1>8, <1>9 DEF Next

\* However far a rekey or another write transaction has got, a crash leaves a file that
\* is encrypted with one key, that of the last commit, and has the pages of that commit,
\* unless a statement has written while the contexts of its connection differed.
THEOREM CrashLeavesOneKey == Spec => [](Unmixed => OneKey /\ LastCommit)
<1>1. ASSUME IInv, KeysInv, Unmixed PROVE OneKey
  <2>1. FileType /\ JournalType /\ KeyInv
    BY <1>1 DEF IInv, TypeInv, KeysInv
  <2>. QED BY <2>1, PlayedBackOK DEF OneKey, Recovered, KeyInv, JournalType
<1>. QED BY <1>1, Invariance, KeysInvariance, CrashKeepsLastCommit, PTL

\* If no secret brings a salt of its own, the secret of the last commit opens that file
\* with the salt its header shows.
THEOREM CrashIsSafe == ASSUME NoOwnSalts PROVE Spec => []CrashSafe
<1>1. Spec => []SaltInv
  <2>1. IInv /\ SaltInv /\ [Next]_vars => SaltInv'
    BY NextSaltInv
  <2>. QED BY <2>1, Invariance, InitSaltInv, PTL DEF Spec
<1>2. ASSUME IInv, SaltInv PROVE HeaderSaltOpens
  <2>1. Recovered[1].salt = FirstSalt /\ committed.key = <<committed.secret, FirstSalt>>
        /\ committed.secret \in Secrets
    BY <1>2, PlayedBackSalt DEF Recovered, SaltInv, IInv, TypeInv, GhostType
  <2>. QED BY <2>1 DEF HeaderSaltOpens, KeyOf, NoOwnSalts
<1>3. CrashSafe <=> (Unmixed => OneKey /\ HeaderSaltOpens /\ LastCommit)
  BY DEF CrashSafe, Unmixed
<1>. QED BY <1>1, <1>2, <1>3, Invariance, CrashLeavesOneKey, PTL

---------------------------------------------------------------------------
(* Failures of the codec.                                                  *)

\* The codec of a connection gets into error only with a key that is not that of the
\* last commit.
FailsRightly(c) == Unmixed /\ ctx'[c].error /\ ~ctx[c].error => ctx'[c].rKey # committed.key

\* An image that cannot be decoded has another key than the read context.
LEMMA WrongKey ==
  ASSUME FileType, NEW x, CtxOK(x), ~x.error, NEW image \in Images, ~Decodes(x, image)
  PROVE  AfterDecode(x, image).rKey # image.key
<1>1. Derived(x).rKey # image.key
  BY DEF Decodes
<1>2. PICK y : y = Derived(x)
  OBVIOUS
<1>3. y \in Ctxs
  BY <1>2, DerivedOK DEF CtxOK
<1>4. [y EXCEPT !.error = TRUE].rKey = y.rKey
  BY <1>3 DEF Ctxs
<1>. QED BY <1>1, <1>2, <1>4 DEF AfterDecode

\* A page that a connection reads has the key of the last commit, or that of the read
\* context.
LEMMA PageKeys ==
  ASSUME IInv, KeysInv, Unmixed, NEW c \in Conns, NEW p \in Pages, cache[c][p] = NoPage,
         op[c] \in {"read", "write"} \/ (op[c] = "rekey" /\ p >= nxt[c])
  PROVE  file[p].key = committed.key \/ file[p].key = ctx[c].rKey
<1>0. KeyInv /\ WriterKeyOK(c) /\ WriterOK(c) /\ LevelOK(c)
  BY OneConn DEF KeysInv
<1>1. CASE op[c] = "read"
  BY <1>0, <1>1, NoSyncedRecords DEF LevelOK, Reading, KeyInv
<1>2. CASE op[c] = "write"
  BY <1>0, <1>2 DEF WriterOK, WriterKeyOK, Writing
<1>3. CASE op[c] = "rekey" /\ p >= nxt[c]
  BY <1>0, <1>3 DEF WriterKeyOK, Writing
<1>. QED BY <1>1, <1>2, <1>3

\* Steps that end in PAGER_ERROR: the page has the key of the last commit.
LEMMA AbandonFails ==
  ASSUME IInv, KeysInv, NEW c \in Conns, NEW p \in Pages,
         ctx'[c] = AfterDecode(ctx[c], file[p]), ~Decodes(ctx[c], file[p]),
         Unmixed => file[p].key = committed.key
                    \/ (file[p].key = ctx[c].rKey /\ ctx[c].rKey # NoKey)
  PROVE  FailsRightly(c)
<1> SUFFICES ASSUME Unmixed, ~ctx[c].error PROVE ctx'[c].rKey # committed.key
  BY DEF FailsRightly
<1>0. FileType /\ CtxOK(ctx[c]) /\ file[p] \in Images
  BY OneConn DEF ConnType, FileType
<1>1. ctx'[c].rKey # file[p].key
  BY <1>0, WrongKey
<1>2. ~(file[p].key = ctx[c].rKey /\ ctx[c].rKey # NoKey)
  BY <1>0, DerivedOK DEF Decodes
<1>. QED BY <1>1, <1>2

\* Every step of the connection that moves.
LEMMA FailsStep ==
  ASSUME IInv, KeysInv, NEW c \in Conns,
         \/ Open(c) \/ Key(c) \/ StartRekey(c) \/ EndRead(c) \/ RekeyBusy(c) \/ Close(c) \/ Crash(c)
         \/ RecoverHot(c) \/ RecoverDies(c) \/ BeginWrite(c) \/ BeginRekey(c)
         \/ Commit(c) \/ RekeyPage(c) \/ RekeyCommit(c) \/ RekeyCommitFails(c) \/ Finish(c)
         \/ \E p \in Pages : PageWrite(c, p) \/ Spill(c, p) \/ WriteOut(c, p)
  PROVE  ctx'[c].error => ctx[c].error
<1>0. CtxOK(ctx[c]) /\ FileType
  BY OneConn DEF ConnType
<1>1. CASE Open(c) \/ Key(c) \/ Close(c) \/ Crash(c) \/ RecoverDies(c)
  BY <1>1 DEF Open, Key, Close, Crash, Gone, RecoverDies, NewCtx, IInv, TypeInv, Arrays
<1>2. CASE StartRekey(c)
  <2>1. PICK s \in Secrets : ctx' = [ctx EXCEPT ![c].wPass = s, ![c].wKey = NoKey]
    BY <1>2 DEF StartRekey
  <2>2. ctx'[c] = [ctx[c] EXCEPT !.wPass = s, !.wKey = NoKey]
    BY <2>1 DEF IInv, TypeInv, Arrays
  <2>. QED BY <1>0, <2>2 DEF CtxOK, Ctxs
<1>3. CASE EndRead(c) \/ RekeyBusy(c) \/ RecoverHot(c) \/ BeginWrite(c) \/ BeginRekey(c)
  BY <1>3 DEF EndRead, RekeyBusy, RecoverHot, BeginWrite, BeginRekey, PagerBegin
<1>4. CASE \E p \in Pages : Spill(c, p) \/ WriteOut(c, p)
  BY <1>4 DEF Spill, WriteOut
<1>5. CASE Commit(c) \/ RekeyPage(c) \/ RekeyCommit(c) \/ \E p \in Pages : PageWrite(c, p)
  <2>1. ~ctx[c].error
    BY <1>5, RekeyPageDirties, RekeyCommitDirties DEF Commit, CommitPhaseOne, PageWrite
  <2>2. ctx'[c] = Touched(ctx[c]) \/ ctx'[c] = KeyCopied(Touched(ctx[c]))
    BY <1>5, CommitDirties, RekeyPageDirties, RekeyCommitDirties, PageWriteDirties
  <2>3. CtxOK(Touched(ctx[c])) /\ ~Touched(ctx[c]).error
    BY <1>0, <2>1, TouchedOK
  <2>. QED BY <2>2, <2>3, KeyCopiedOK
<1>6. CASE RekeyCommitFails(c) \/ Finish(c)
  <2>1. ctx'[c] = ctx[c] \/ ctx'[c] = KeyCopied(ctx[c])
    BY <1>6 DEF RekeyCommitFails, Finish, IInv, TypeInv, Arrays
  <2>. QED BY <1>0, <2>1, KeyCopiedOK
<1>. QED BY <1>1, <1>2, <1>3, <1>4, <1>5, <1>6

\* A decryption failure, which is permanent for a connection, happens only to one whose
\* key is not that of the database: never to a reader because others rekey, roll back or
\* die, and never to the connection that rekeys.
THEOREM RightKeyNeverFails == Spec => OnlyWrongKeyFails
<1>1. ASSUME IInv, KeysInv, [Next]_vars
      PROVE  [\A c \in Conns :
                ctx'[c].error /\ ~ctx[c].error /\ anomaly = {} => ctx'[c].rKey # committed.key]_vars
  <2> SUFFICES ASSUME NEW d \in Conns, Next PROVE FailsRightly(d)
    BY <1>1 DEF FailsRightly, Unmixed
  <2>1. ASSUME NEW c \in Conns, Elsewhere(c), FailsRightly(c) PROVE FailsRightly(d)
    BY <2>1 DEF FailsRightly, Elsewhere, Others
  <2>2. ASSUME NEW c \in Conns,
               \/ Open(c) \/ Key(c) \/ StartRekey(c) \/ EndRead(c) \/ RekeyBusy(c) \/ Close(c) \/ Crash(c)
               \/ RecoverHot(c) \/ RecoverDies(c) \/ BeginWrite(c) \/ BeginRekey(c)
               \/ Commit(c) \/ RekeyPage(c) \/ RekeyCommit(c) \/ RekeyCommitFails(c) \/ Finish(c)
               \/ \E p \in Pages : PageWrite(c, p) \/ Spill(c, p) \/ WriteOut(c, p)
        PROVE  FailsRightly(d)
    <3>1. FailsRightly(c)
      BY <1>1, <2>2, FailsStep DEF FailsRightly
    <3>2. BeginWrite(c) \/ BeginRekey(c) => Elsewhere(c)
      BY <1>1 DEF BeginWrite, BeginRekey, PagerBegin, IInv, TypeInv, Elsewhere, Arrays, Others
    <3>3. Elsewhere(c)
      BY <1>1, <2>2, <3>2, OpenStep, KeyStep, StartRekeyStep, EndReadStep, RekeyBusyStep, CloseStep, CrashStep,
         RecoverHotStep, RecoverDiesStep, CommitStep, RekeyPageStep, RekeyCommitStep, RekeyCommitFailsStep,
         FinishStep, PageWriteStep, SpillWrites, WriteOutWrites, WritesOutStep
    <3>. QED BY <2>1, <3>1, <3>3
  <2>3. ASSUME NEW c \in Conns, SharedLock(c) PROVE FailsRightly(d)
    <3>1. Elsewhere(c)
      BY <1>1, <2>3, SharedLockStep
    <3>2. CASE SharedHit(c)
      BY <2>1, <3>1, <3>2 DEF SharedHit, FailsRightly
    <3>3. CASE SharedMiss(c)
      <4>1. ctx'[c] = AfterDecode(ctx[c], file[1]) /\ Decodes(ctx[c], file[1])
        BY <1>1, <3>3 DEF SharedMiss, IInv, TypeInv, Arrays
      <4>2. CtxOK(ctx[c]) /\ FileType /\ file[1] \in Images
        BY <1>1, OneConn, PageOne DEF ConnType, FileType
      <4>3. ~ctx'[c].error
        BY <4>1, <4>2, DecodeOK, TouchedOK
      <4>. QED BY <2>1, <3>1, <4>3 DEF FailsRightly
    <3>4. CASE ~Decodes(ctx[c], file[1]) /\ ctx' = [ctx EXCEPT ![c] = AfterDecode(@, file[1])]
      <4>1. ctx'[c] = AfterDecode(ctx[c], file[1])
        BY <1>1, <3>4 DEF IInv, TypeInv, Arrays
      <4>2. journal.synced = {}
        BY <1>1, <2>3, SharedLockCases, CurrentFresh
      <4>3. Unmixed => file[1].key = committed.key
        BY <1>1, <4>2, PageOne DEF KeysInv, KeyInv
      <4>. QED BY <1>1, <2>1, <3>1, <3>4, <4>1, <4>3, PageOne, AbandonFails
    <3>. QED BY <1>1, <2>3, <3>2, <3>3, <3>4, SharedLockCases
  <2>4. ASSUME NEW c \in Conns, NEW p \in Pages, ReadPage(c, p) PROVE FailsRightly(d)
    <3>1. Elsewhere(c) /\ ctx'[c] = AfterDecode(ctx[c], file[p]) /\ cache[c][p] = NoPage
          /\ op[c] \in {"read", "write"}
      BY <1>1, <2>4, ReadPageStep DEF ReadPage, IInv, TypeInv, Arrays
    <3>2. CtxOK(ctx[c]) /\ FileType /\ file[p] \in Images /\ ctx[c].rKey # NoKey
      BY <1>1, <3>1, OneConn, PageOne DEF ConnType, FileType, CacheOK, Loaded, Reading, Writing
    <3>3. CASE Decodes(ctx[c], file[p])
      <4>1. ~ctx'[c].error
        BY <3>1, <3>2, <3>3, DecodeOK, TouchedOK
      <4>. QED BY <2>1, <3>1, <4>1 DEF FailsRightly
    <3>4. CASE ~Decodes(ctx[c], file[p])
      <4>1. Unmixed => file[p].key = committed.key \/ file[p].key = ctx[c].rKey
        BY <1>1, <3>1, PageKeys
      <4>. QED BY <1>1, <2>1, <3>1, <3>2, <3>4, <4>1, AbandonFails
    <3>. QED BY <3>3, <3>4
  <2>5. ASSUME NEW c \in Conns, RekeyBadPage(c) PROVE FailsRightly(d)
    <3>1. Elsewhere(c) /\ ctx'[c] = AfterDecode(ctx[c], file[nxt[c]]) /\ cache[c][nxt[c]] = NoPage
          /\ op[c] = "rekey" /\ nxt[c] \in Pages /\ ~Decodes(ctx[c], file[nxt[c]])
      BY <1>1, <2>5, RekeyBadPageStep DEF RekeyBadPage, InLoop, IInv, TypeInv, Arrays
    <3>2. ctx[c].rKey # NoKey /\ nxt[c] >= nxt[c]
      BY <1>1, <3>1, WriterHas DEF Writing, Pages
    <3>3. Unmixed => file[nxt[c]].key = committed.key \/ file[nxt[c]].key = ctx[c].rKey
      BY <1>1, <3>1, <3>2, PageKeys
    <3>. QED BY <1>1, <2>1, <3>1, <3>2, <3>3, AbandonFails
  <2>6. ASSUME NEW c \in Conns, Rollback(c) \/ RekeyWriteFails(c) PROVE FailsRightly(d)
    <3>1. Elsewhere(c) /\ PagerRollback(c) /\ op[c] \in Writing
      BY <1>1, <2>6, RollbackActionStep
    <3>2. ctx'[c] = [ctx[c] EXCEPT !.error = Bad(c)] /\ CtxOK(ctx[c])
      BY <1>1, <3>1, RollbackEffect, OneConn DEF ConnType
    <3>3. ctx'[c].rKey = ctx[c].rKey /\ (ctx'[c].error => Bad(c))
      BY <3>2 DEF CtxOK, Ctxs
    <3>4. Unmixed /\ Bad(c) => ctx[c].rKey # committed.key
      BY <1>1 DEF KeysInv, KeyInv, Bad, Seen
    <3>. QED BY <2>1, <3>1, <3>3, <3>4 DEF FailsRightly
  <2>. QED BY <2>2, <2>3, <2>4, <2>5, <2>6 DEF Next
<1>. QED BY <1>1, Invariance, KeysInvariance, PTL DEF Spec, OnlyWrongKeyFails
=============================================================================
