----------------------------- MODULE DataCaches ------------------------------
(***************************************************************************)
(* Market data kept in memory: the caching provider wrappers, then the     *)
(* cache of history files.  The parts share no state.                      *)
(***************************************************************************)
EXTENDS Integers, Sequences, FiniteSets, SequencesExt

(***************************************************************************)
(* The two CachedDataProvider wrappers, for one cache key: the one of      *)
(* src/engine/providers/cached.py holds the key's lock from the lookup to  *)
(* the store, the one of src/engine/data/providers/cached.py has the same  *)
(* lock helper and does not use it.  The wrapped provider answers with the *)
(* version of the data it has at that moment.                              *)
(***************************************************************************)
CONSTANTS CacheKinds,    \* "locked" | "unlocked"
          Readers,       \* concurrent callers
          CacheTtl,      \* _ttl_seconds; zero switches caching off
          MaxDataVersions, MaxCacheTime   \* bounds

ASSUME CachedAssumption ==
    /\ CacheKinds \subseteq {"locked", "unlocked"}
    /\ "free" \notin Readers                                 \* what a free lock is called
    /\ CacheTtl \in Nat /\ MaxDataVersions \in Nat /\ MaxCacheTime \in Nat

VARIABLES cpKind,      \* which wrapper
          cpEntry,     \* _cache[key], or NoEntry
          cpLock,      \* holder of the key's lock, or "free"
          cpReader,    \* each caller: pc and the answer it got
          cpUpstream,  \* version of the data upstream
          cpTime,
          cpSeen       \* history: the newest version a caller was given

cpVars == <<cpKind, cpEntry, cpLock, cpReader, cpUpstream, cpTime, cpSeen>>

NoEntry == [at |-> 0, value |-> 0]
IdleReader == [pc |-> "idle", value |-> 0, at |-> 0]

CachedInit ==
    /\ cpKind \in CacheKinds
    /\ cpEntry = NoEntry /\ cpLock = "free"
    /\ cpReader = [r \in Readers |-> IdleReader]
    /\ cpUpstream = 1 /\ cpTime = 0 /\ cpSeen = 0

\* _is_fresh
IsFresh(at) == CacheTtl # 0 /\ cpTime - at < CacheTtl

MutLockFor(r) == TRUE                     \* one lock per caller, not per key

\* async with self._lock_for(key)
LockFor(r) == cpKind = "unlocked" \/ cpLock = "free"

\* The lookup: a fresh entry is returned, an old one dropped, and the fetch begins.
ReadEntry(r) ==
    /\ cpReader[r].pc = "idle" /\ LockFor(r)
    /\ \/ /\ cpEntry # NoEntry /\ IsFresh(cpEntry.at)
          /\ cpReader' = [cpReader EXCEPT ![r] = [pc |-> "got", value |-> cpEntry.value, at |-> cpEntry.at]]
          /\ UNCHANGED <<cpEntry, cpLock>>
       \/ /\ ~(cpEntry # NoEntry /\ IsFresh(cpEntry.at))
          /\ cpEntry' = NoEntry
          /\ cpReader' = [cpReader EXCEPT ![r] = [IdleReader EXCEPT !.pc = "fetch"]]
          /\ cpLock' = IF cpKind = "locked" THEN r ELSE cpLock
    /\ UNCHANGED <<cpKind, cpUpstream, cpTime, cpSeen>>

\* The wrapped provider has produced its answer; it is on its way back.
UpstreamAnswers(r) ==
    /\ cpReader[r].pc = "fetch"
    /\ cpReader' = [cpReader EXCEPT ![r] = [pc |-> "store", value |-> cpUpstream, at |-> 0]]
    /\ UNCHANGED <<cpKind, cpEntry, cpLock, cpUpstream, cpTime, cpSeen>>

\* It raised: nothing is stored and the lock is released.
UpstreamRaises(r) ==
    /\ cpReader[r].pc = "fetch"
    /\ cpReader' = [cpReader EXCEPT ![r] = IdleReader]
    /\ cpLock' = IF cpLock = r THEN "free" ELSE cpLock
    /\ UNCHANGED <<cpKind, cpEntry, cpUpstream, cpTime, cpSeen>>

\* _store, then the value is returned.
Store(r) ==
    /\ cpReader[r].pc = "store"
    /\ cpEntry' = [at |-> cpTime, value |-> cpReader[r].value]
    /\ cpReader' = [cpReader EXCEPT ![r].pc = "got", ![r].at = cpTime]
    /\ cpLock' = IF cpLock = r THEN "free" ELSE cpLock
    /\ UNCHANGED <<cpKind, cpUpstream, cpTime, cpSeen>>

ReaderReturns(r) ==
    /\ cpReader[r].pc = "got"
    /\ cpReader' = [cpReader EXCEPT ![r] = IdleReader]
    /\ cpSeen' = IF cpReader[r].value > cpSeen THEN cpReader[r].value ELSE cpSeen
    /\ UNCHANGED <<cpKind, cpEntry, cpLock, cpUpstream, cpTime>>

\* clear(): a fetch under way will store its value afterwards all the same.
ClearCache ==
    /\ cpEntry' = NoEntry
    /\ UNCHANGED <<cpKind, cpLock, cpReader, cpUpstream, cpTime, cpSeen>>

DataMoves ==
    /\ cpUpstream < MaxDataVersions
    /\ cpUpstream' = cpUpstream + 1
    /\ UNCHANGED <<cpKind, cpEntry, cpLock, cpReader, cpTime, cpSeen>>

CacheClock ==
    /\ cpTime < MaxCacheTime
    /\ cpTime' = cpTime + 1
    /\ UNCHANGED <<cpKind, cpEntry, cpLock, cpReader, cpUpstream, cpSeen>>

CachedNext ==
    \/ \E r \in Readers :
          ReadEntry(r) \/ UpstreamAnswers(r) \/ UpstreamRaises(r) \/ Store(r) \/ ReaderReturns(r)
    \/ ClearCache \/ DataMoves \/ CacheClock

----------------------------------------
(* Properties *)

Fetching == {r \in Readers : cpReader[r].pc \in {"fetch", "store"}}

\* A key never has two fetches under way in the wrapper that takes its per-key
\* lock: a reader that waited finds the fresh entry (_lock_for, get_ohlcv).
OneFetchPerKey == cpKind = "locked" => Cardinality(Fetching) <= 1

\* There, too, what is cached never goes back behind what a caller has already
\* been given: no slow answer of an earlier fetch replaces a newer one.
CacheMovesForward == cpKind = "locked" /\ cpEntry # NoEntry => cpEntry.value >= cpSeen

----------------------------------------
(***************************************************************************)
(* HistoricalDataCache (src/engine/data/historical_cache.py) and the CSV   *)
(* provider that reads through it (csv_provider.py).  A load computes the  *)
(* key from the file's stat, asks the cache, and on a miss validates,      *)
(* reads and stores; the file may be rewritten between any two of these.   *)
(***************************************************************************)

CONSTANTS Files, Loaders,
          MaxEntries,        \* max_entries
          MaxFileVersions    \* bound: rewrites of a file

ASSUME HistoryAssumption == MaxEntries \in Nat \ {0} /\ MaxFileVersions \in Nat

VARIABLES hcStore,   \* _store in LRU order: [key, size, content]
          hcSizes,   \* _sizes: keys that have one
          hcFile,    \* version of each file; 0: it does not exist
          hcLoad     \* each loader: pc, its key, the content read

hcVars == <<hcStore, hcSizes, hcFile, hcLoad>>

NoKey == [file |-> "none", version |-> 0]
IdleLoad == [pc |-> "idle", key |-> NoKey, content |-> 0]

HistoryInit ==
    /\ hcStore = <<>> /\ hcSizes = {}
    /\ hcFile = [f \in Files |-> 1]
    /\ hcLoad = [l \in Loaders |-> IdleLoad]

MutFingerprint(f) == [file |-> f, version |-> 0]      \* the path alone

\* _fingerprint_source: path, mtime and size, one of which a rewrite is assumed to
\* change; the path alone when stat fails.
Fingerprint(f) == [file |-> f, version |-> hcFile[f]]

PlaceOf(key) == {i \in DOMAIN hcStore : hcStore[i].key = key}

\* The entries but a key's own.
StoreWithout(key) ==
    IF PlaceOf(key) = {} THEN hcStore ELSE RemoveAt(hcStore, CHOOSE i \in PlaceOf(key) : TRUE)

\* load_data up to the lookup: get moves a hit to the end.
LoadLooksUp(l, f) ==
    /\ hcLoad[l].pc = "idle"
    /\ LET key == Fingerprint(f) IN
       \/ \E i \in PlaceOf(key) :
             /\ hcStore' = Append(RemoveAt(hcStore, i), hcStore[i])
             /\ hcLoad' = [hcLoad EXCEPT ![l] = [pc |-> "done", key |-> [key EXCEPT !.version = hcFile[f]],
                                                 content |-> hcStore[i].content]]
       \/ /\ PlaceOf(key) = {}
          /\ hcLoad' = [hcLoad EXCEPT ![l] = [pc |-> "read", key |-> key, content |-> 0]]
          /\ UNCHANGED hcStore
    /\ UNCHANGED <<hcSizes, hcFile>>

\* validate and read_csv: a missing file raises.
LoadReads(l) ==
    /\ hcLoad[l].pc = "read"
    /\ LET f == hcLoad[l].key.file IN
       hcLoad' = [hcLoad EXCEPT ![l] = IF hcFile[f] = 0 THEN IdleLoad
                                       ELSE [@ EXCEPT !.pc = "put", !.content = hcFile[f]]]
    /\ UNCHANGED <<hcStore, hcSizes, hcFile>>

MutEvicted(s) == [kept |-> IF Len(s) > MaxEntries THEN Tail(s) ELSE s, gone |-> {}]   \* size left behind

\* _evict_locked: the least recently used entry goes.
Evicted(s) == IF Len(s) > MaxEntries THEN [kept |-> Tail(s), gone |-> {Head(s).key}]
              ELSE [kept |-> s, gone |-> {}]

\* put: an empty or an oversized frame is not stored.
LoadPuts(l) ==
    /\ hcLoad[l].pc = "put"
    /\ \/ LET key == hcLoad[l].key
              after == Evicted(Append(StoreWithout(key), [key |-> key, content |-> hcLoad[l].content]))
          IN  /\ hcStore' = after.kept
              /\ hcSizes' = (hcSizes \cup {key}) \ after.gone
       \/ UNCHANGED <<hcStore, hcSizes>>
    /\ hcLoad' = [hcLoad EXCEPT ![l].pc = "done"]
    /\ UNCHANGED hcFile

LoadReturns(l) ==
    /\ hcLoad[l].pc = "done"
    /\ hcLoad' = [hcLoad EXCEPT ![l] = IdleLoad]
    /\ UNCHANGED <<hcStore, hcSizes, hcFile>>

Invalidate(key) ==
    /\ PlaceOf(key) # {}
    /\ hcStore' = StoreWithout(key)
    /\ hcSizes' = hcSizes \ {key}
    /\ UNCHANGED <<hcFile, hcLoad>>

ClearHistory ==
    /\ hcStore # <<>>
    /\ hcStore' = <<>> /\ hcSizes' = {}
    /\ UNCHANGED <<hcFile, hcLoad>>

FileRewritten(f) ==
    /\ hcFile[f] # 0 /\ hcFile[f] < MaxFileVersions
    /\ hcFile' = [hcFile EXCEPT ![f] = @ + 1]
    /\ UNCHANGED <<hcStore, hcSizes, hcLoad>>

\* A removed file does not come back.
FileRemoved(f) ==
    /\ hcFile[f] = MaxFileVersions
    /\ hcFile' = [hcFile EXCEPT ![f] = 0]
    /\ UNCHANGED <<hcStore, hcSizes, hcLoad>>

HistoryNext ==
    \/ \E l \in Loaders :
          \/ \E f \in Files : LoadLooksUp(l, f)
          \/ LoadReads(l) \/ LoadPuts(l) \/ LoadReturns(l)
    \/ \E i \in DOMAIN hcStore : Invalidate(hcStore[i].key)
    \/ ClearHistory
    \/ \E f \in Files : FileRewritten(f) \/ FileRemoved(f)

----------------------------------------
(* Properties *)

\* A load never returns bars older than the file was when the load began, with
\* rewrites and other loads in between.
NoStaleBars ==
    \A l \in Loaders : hcLoad[l].pc = "done" => hcLoad[l].content >= hcLoad[l].key.version

\* The size table and the store hold the same keys, each once, also after
\* overwrites, evictions and invalidations, and never more than the cap.
SizesMatchStore ==
    /\ {hcStore[i].key : i \in DOMAIN hcStore} = hcSizes
    /\ IsInjective([i \in DOMAIN hcStore |-> hcStore[i].key])
    /\ Len(hcStore) <= MaxEntries
=============================================================================
