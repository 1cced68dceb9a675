----------------------------- MODULE FIBBICache -----------------------------
(***************************************************************************)
(* FIBBICache::GetFIBBIData (FIBBICache.cc): a table of integrals shared   *)
(* by the threads of the matrix assembly.  A thread looks its key up under *)
(* the read lock, computes the record without a lock when it is missing    *)
(* and inserts it under the write lock.  The counters Hits and Misses are  *)
(* incremented without a lock.  The key is the shape of the pair rounded   *)
(* to floats: pairs that are nearly translates of one another share a key, *)
(* and their integrals agree only up to rounding.                          *)
(***************************************************************************)
EXTENDS Naturals, FiniteSets

CONSTANTS Threads, None,
          Pairs,              \* pairs of RWG basis functions
          Keys, Values,
          GetFIBBICacheKey,   \* the key of each pair
          ComputeFIBBIData,   \* its integrals
          MaxCalls            \* bound on the calls of GetFIBBIData

ASSUME FunctionAssumption ==
  GetFIBBICacheKey \in [Pairs -> Keys] /\ ComputeFIBBIData \in [Pairs -> Values]
ASSUME NoneAssumption == \A S \in {Threads, Pairs, Keys, Values} : None \notin S
ASSUME BoundAssumption == MaxCalls \in Nat

\* The integrals a record of this key can hold.
IntegralsOf(k) == { ComputeFIBBIData[p] : p \in { q \in Pairs : GetFIBBICacheKey[q] = k } }

VARIABLES
  table,      \* opTable: [Keys -> Values], None where there is no record
  pc,         \* where each thread is
  pair,       \* the pair of its call
  FIBBIs,     \* the caller's buffer
  reg,        \* a counter's value between the load and the store of ++
  readers, writer,  \* who holds `lock'
  Hits, Misses,
  calls       \* calls begun

lockVars == <<readers, writer>>
vars == <<table, pc, pair, FIBBIs, reg, lockVars, Hits, Misses, calls>>

Places == {"idle", "rdlock", "find", "rdunlock", "hit", "hitStore", "miss",
           "missStore", "compute", "wrlock", "insert", "wrunlock", "return"}

Init ==
  /\ table = [k \in Keys |-> None]
  /\ pc = [t \in Threads |-> "idle"]
  /\ pair = [t \in Threads |-> None]
  /\ FIBBIs = [t \in Threads |-> None]
  /\ reg = [t \in Threads |-> 0]
  /\ readers = {} /\ writer = None
  /\ Hits = 0 /\ Misses = 0 /\ calls = 0

KeyOf(t) == GetFIBBICacheKey[pair[t]]

Goto(t, place) == pc' = [pc EXCEPT ![t] = place]

\* Mutant: the pair is not passed on to the call.
GetFIBBIDataNoPair(t, p) ==
  /\ pc[t] = "idle" /\ calls < MaxCalls
  /\ FIBBIs' = [FIBBIs EXCEPT ![t] = None]
  /\ calls' = calls + 1
  /\ Goto(t, "rdlock")
  /\ UNCHANGED <<table, pair, reg, lockVars, Hits, Misses>>

GetFIBBIData(t, p) ==
  /\ pc[t] = "idle" /\ calls < MaxCalls
  /\ pair' = [pair EXCEPT ![t] = p]
  /\ FIBBIs' = [FIBBIs EXCEPT ![t] = None]
  /\ calls' = calls + 1
  /\ Goto(t, "rdlock")
  /\ UNCHANGED <<table, reg, lockVars, Hits, Misses>>

RdLock(t) ==
  /\ pc[t] = "rdlock" /\ writer = None
  /\ readers' = readers \cup {t}
  /\ Goto(t, "find")
  /\ UNCHANGED <<table, pair, FIBBIs, reg, writer, Hits, Misses, calls>>

\* find, and the memcpy of a record that was found.
Find(t) ==
  /\ pc[t] = "find"
  /\ FIBBIs' = [FIBBIs EXCEPT ![t] = table[KeyOf(t)]]
  /\ Goto(t, "rdunlock")
  /\ UNCHANGED <<table, pair, reg, lockVars, Hits, Misses, calls>>

\* Mutant: a hit returns without unlocking.
RdUnlockOnlyMiss(t) ==
  /\ pc[t] = "rdunlock"
  /\ readers' = IF FIBBIs[t] = None THEN readers \ {t} ELSE readers
  /\ Goto(t, IF FIBBIs[t] # None THEN "hit" ELSE "miss")
  /\ UNCHANGED <<table, pair, FIBBIs, reg, writer, Hits, Misses, calls>>

RdUnlock(t) ==
  /\ pc[t] = "rdunlock"
  /\ readers' = readers \ {t}
  /\ Goto(t, IF FIBBIs[t] # None THEN "hit" ELSE "miss")
  /\ UNCHANGED <<table, pair, FIBBIs, reg, writer, Hits, Misses, calls>>

\* Hits++ and Misses++ are a load and a store.
LoadHits(t) ==
  /\ pc[t] = "hit"
  /\ reg' = [reg EXCEPT ![t] = Hits]
  /\ Goto(t, "hitStore")
  /\ UNCHANGED <<table, pair, FIBBIs, lockVars, Hits, Misses, calls>>

\* Mutant: a hit does not return.
StoreHitsFallThrough(t) ==
  /\ pc[t] = "hitStore"
  /\ Hits' = reg[t] + 1
  /\ Goto(t, "miss")
  /\ UNCHANGED <<table, pair, FIBBIs, reg, lockVars, Misses, calls>>

StoreHits(t) ==
  /\ pc[t] = "hitStore"
  /\ Hits' = reg[t] + 1
  /\ Goto(t, "return")
  /\ UNCHANGED <<table, pair, FIBBIs, reg, lockVars, Misses, calls>>

LoadMisses(t) ==
  /\ pc[t] = "miss"
  /\ reg' = [reg EXCEPT ![t] = Misses]
  /\ Goto(t, "missStore")
  /\ UNCHANGED <<table, pair, FIBBIs, lockVars, Hits, Misses, calls>>

StoreMisses(t) ==
  /\ pc[t] = "missStore"
  /\ Misses' = reg[t] + 1
  /\ Goto(t, "compute")
  /\ UNCHANGED <<table, pair, FIBBIs, reg, lockVars, Hits, calls>>

\* Mutant: the integrals are left in a buffer all threads share.
ComputeShared(t) ==
  /\ pc[t] = "compute"
  /\ FIBBIs' = [u \in Threads |-> IF pc[u] \in {"compute", "wrlock", "insert"}
                                  THEN ComputeFIBBIData[pair[t]] ELSE FIBBIs[u]]
  /\ Goto(t, "wrlock")
  /\ UNCHANGED <<table, pair, reg, lockVars, Hits, Misses, calls>>

Compute(t) ==
  /\ pc[t] = "compute"
  /\ FIBBIs' = [FIBBIs EXCEPT ![t] = ComputeFIBBIData[pair[t]]]
  /\ Goto(t, "wrlock")
  /\ UNCHANGED <<table, pair, reg, lockVars, Hits, Misses, calls>>

\* Mutant: the writer does not wait for the readers.
WrLockAnyway(t) ==
  /\ pc[t] = "wrlock" /\ writer = None
  /\ writer' = t
  /\ Goto(t, "insert")
  /\ UNCHANGED <<table, pair, FIBBIs, reg, readers, Hits, Misses, calls>>

WrLock(t) ==
  /\ pc[t] = "wrlock" /\ writer = None /\ readers = {}
  /\ writer' = t
  /\ Goto(t, "insert")
  /\ UNCHANGED <<table, pair, FIBBIs, reg, readers, Hits, Misses, calls>>

\* Mutant: the table keeps only its last record.
InsertEvicts(t) ==
  /\ pc[t] = "insert"
  /\ table' = [k \in Keys |-> IF k = KeyOf(t) THEN FIBBIs[t] ELSE None]
  /\ Goto(t, "wrunlock")
  /\ UNCHANGED <<pair, FIBBIs, reg, lockVars, Hits, Misses, calls>>

\* insert leaves a record that another thread entered meanwhile.
Insert(t) ==
  /\ pc[t] = "insert"
  /\ table' = IF table[KeyOf(t)] = None THEN [table EXCEPT ![KeyOf(t)] = FIBBIs[t]] ELSE table
  /\ Goto(t, "wrunlock")
  /\ UNCHANGED <<pair, FIBBIs, reg, lockVars, Hits, Misses, calls>>

WrUnlock(t) ==
  /\ pc[t] = "wrunlock"
  /\ writer' = None
  /\ Goto(t, "return")
  /\ UNCHANGED <<table, pair, FIBBIs, reg, readers, Hits, Misses, calls>>

Return(t) ==
  /\ pc[t] = "return"
  /\ Goto(t, "idle")
  /\ UNCHANGED <<table, pair, FIBBIs, reg, lockVars, Hits, Misses, calls>>

\* What a thread does inside a call.
Step(t) ==
  \/ RdLock(t) \/ Find(t) \/ RdUnlock(t)
  \/ LoadHits(t) \/ StoreHits(t) \/ LoadMisses(t) \/ StoreMisses(t)
  \/ Compute(t) \/ WrLock(t) \/ Insert(t) \/ WrUnlock(t) \/ Return(t)

Next == \E t \in Threads : (\E p \in Pairs : GetFIBBIData(t, p)) \/ Step(t)

Spec == Init /\ [][Next]_vars

\* Every thread of the parallel loop keeps running.
FairSpec == Spec /\ \A t \in Threads : WF_vars(Step(t))

-----------------------------------------------------------------------------
TypeOK ==
  /\ table \in [Keys -> Values \cup {None}]
  /\ pc \in [Threads -> Places]
  /\ pair \in [Threads -> Pairs \cup {None}]
  /\ \A t \in Threads : pc[t] # "idle" => pair[t] \in Pairs
  /\ FIBBIs \in [Threads -> Values \cup {None}]
  /\ reg \in [Threads -> Nat]
  /\ readers \in SUBSET Threads /\ writer \in Threads \cup {None}
  /\ Hits \in Nat /\ Misses \in Nat /\ calls \in Nat

\* No thread walks the unordered_map while another one inserts, which may
\* rehash it: the lock the code takes covers every access to the table.
NoReadDuringInsert ==
  \A t, u \in Threads : t # u /\ pc[t] = "insert" => pc[u] \notin {"find", "insert"}

\* A call returns integrals of its own key, also when two threads missed the
\* same key and both computed it.
ReturnsOwnIntegrals ==
  \A t \in Threads : pc[t] = "return" => FIBBIs[t] \in IntegralsOf(KeyOf(t))

\* A call leaves a record of its key behind, found or inserted: a thread does
\* not compute the same key twice.
RecordedAtReturn ==
  \A t \in Threads : pc[t] = "return" => table[KeyOf(t)] # None

\* A record is entered once and never replaced, though several threads may
\* have computed it: later readers get the bytes earlier ones got.
WriteOnce == [][\A k \in Keys : table[k] # None => table'[k] = table[k]]_vars

\* The unlocked counters may lose increments, but never count a call twice.
NeverOvercounts == Hits + Misses <= calls

\* Every call returns: no thread waits for ever for the lock.
CallsReturn == \A t \in Threads : pc[t] = "rdlock" ~> pc[t] = "return"

\* The cache implements the abstract memo table: whatever the threads ask for
\* at the same time, each is given integrals of the key it asked for.
asked  == [t \in Threads |-> IF pc[t] = "idle" THEN None ELSE KeyOf(t)]
answer == [t \in Threads |-> IF pc[t] = "return" THEN FIBBIs[t] ELSE None]
Memo == INSTANCE MemoTable WITH Value <- [k \in Keys |-> IntegralsOf(k)]
MemoSpec == Memo!Spec
=============================================================================
