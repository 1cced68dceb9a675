------------------------ MODULE FIBBICache_proof ------------------------
(***************************************************************************)
(* Proofs about FIBBICache, for any number of threads, pairs, keys, calls. *)
(***************************************************************************)
EXTENDS FIBBICache, FiniteSetTheorems, TLAPS

-----------------------------------------------------------------------------
(* The inductive invariant, conjunct by conjunct.                          *)

\* Who holds the lock can be read off the places of the threads.
LockInv ==
  /\ \A t \in Threads : t \in readers <=> pc[t] \in {"find", "rdunlock"}
  /\ \A t \in Threads : writer = t <=> pc[t] \in {"insert", "wrunlock"}
  /\ writer # None => readers = {}

\* Records and buffers hold integrals of their own key, and a key whose record
\* has been found or inserted keeps it.
Recorded(t) == FIBBIs[t] \in IntegralsOf(KeyOf(t)) /\ table[KeyOf(t)] # None
DataInv ==
  /\ \A k \in Keys : table[k] # None => table[k] \in IntegralsOf(k)
  /\ \A t \in Threads :
       /\ pc[t] = "rdunlock" => FIBBIs[t] = None \/ Recorded(t)
       /\ pc[t] \in {"hit", "hitStore", "wrunlock", "return"} => Recorded(t)
       /\ pc[t] \in {"wrlock", "insert"} => FIBBIs[t] \in IntegralsOf(KeyOf(t))

-----------------------------------------------------------------------------
(* Each conjunct is kept by every step.                                    *)

\* The types, which need nothing else.
LEMMA TypeStep ==
  ASSUME TypeOK, [Next]_vars
  PROVE  TypeOK'
<1>1. ASSUME NEW t \in Threads, NEW p \in Pairs, GetFIBBIData(t, p)
      PROVE  TypeOK'
  BY <1>1, FunctionAssumption DEF GetFIBBIData, Goto, lockVars, TypeOK, Places, KeyOf
<1>2. ASSUME NEW t \in Threads, Step(t)
      PROVE  TypeOK'
  <2>1. CASE RdLock(t)
    BY <2>1, FunctionAssumption DEF RdLock, Goto, lockVars, TypeOK, Places, KeyOf
  <2>2. CASE Find(t)
    BY <2>2, FunctionAssumption DEF Find, Goto, lockVars, TypeOK, Places, KeyOf
  <2>3. CASE RdUnlock(t)
    BY <2>3, FunctionAssumption DEF RdUnlock, Goto, lockVars, TypeOK, Places, KeyOf
  <2>4. CASE LoadHits(t)
    BY <2>4, FunctionAssumption DEF LoadHits, Goto, lockVars, TypeOK, Places, KeyOf
  <2>5. CASE StoreHits(t)
    BY <2>5, FunctionAssumption DEF StoreHits, Goto, lockVars, TypeOK, Places, KeyOf
  <2>6. CASE LoadMisses(t)
    BY <2>6, FunctionAssumption DEF LoadMisses, Goto, lockVars, TypeOK, Places, KeyOf
  <2>7. CASE StoreMisses(t)
    BY <2>7, FunctionAssumption DEF StoreMisses, Goto, lockVars, TypeOK, Places, KeyOf
  <2>8. CASE Compute(t)
    BY <2>8, FunctionAssumption DEF Compute, Goto, lockVars, TypeOK, Places, KeyOf
  <2>9. CASE WrLock(t)
    BY <2>9, FunctionAssumption DEF WrLock, Goto, lockVars, TypeOK, Places, KeyOf
  <2>10. CASE Insert(t)
    BY <2>10, FunctionAssumption DEF Insert, Goto, lockVars, TypeOK, Places, KeyOf
  <2>11. CASE WrUnlock(t)
    BY <2>11, FunctionAssumption DEF WrUnlock, Goto, lockVars, TypeOK, Places, KeyOf
  <2>12. CASE Return(t)
    BY <2>12, FunctionAssumption DEF Return, Goto, lockVars, TypeOK, Places, KeyOf
  <2> QED BY <1>2, <2>1, <2>2, <2>3, <2>4, <2>5, <2>6, <2>7, <2>8, <2>9, <2>10, <2>11, <2>12 DEF Step
<1>3. CASE UNCHANGED vars
  BY <1>3, FunctionAssumption DEF vars, lockVars, TypeOK, Places, KeyOf
<1> QED BY <1>1, <1>2, <1>3 DEF Next

\* The lock.
LEMMA LockStep ==
  ASSUME TypeOK, LockInv, [Next]_vars
  PROVE  LockInv'
<1>1. ASSUME NEW t \in Threads, NEW p \in Pairs, GetFIBBIData(t, p)
      PROVE  LockInv'
  BY <1>1, NoneAssumption DEF GetFIBBIData, Goto, lockVars, LockInv, TypeOK
<1>2. ASSUME NEW t \in Threads, Step(t)
      PROVE  LockInv'
  <2>1. CASE RdLock(t)
    BY <2>1, NoneAssumption DEF RdLock, Goto, lockVars, LockInv, TypeOK
  <2>2. CASE Find(t)
    BY <2>2, NoneAssumption DEF Find, Goto, lockVars, LockInv, TypeOK
  <2>3. CASE RdUnlock(t)
    BY <2>3, NoneAssumption DEF RdUnlock, Goto, lockVars, LockInv, TypeOK
  <2>4. CASE LoadHits(t)
    BY <2>4, NoneAssumption DEF LoadHits, Goto, lockVars, LockInv, TypeOK
  <2>5. CASE StoreHits(t)
    BY <2>5, NoneAssumption DEF StoreHits, Goto, lockVars, LockInv, TypeOK
  <2>6. CASE LoadMisses(t)
    BY <2>6, NoneAssumption DEF LoadMisses, Goto, lockVars, LockInv, TypeOK
  <2>7. CASE StoreMisses(t)
    BY <2>7, NoneAssumption DEF StoreMisses, Goto, lockVars, LockInv, TypeOK
  <2>8. CASE Compute(t)
    BY <2>8, NoneAssumption DEF Compute, Goto, lockVars, LockInv, TypeOK
  <2>9. CASE WrLock(t)
    BY <2>9, NoneAssumption DEF WrLock, Goto, lockVars, LockInv, TypeOK
  <2>10. CASE Insert(t)
    BY <2>10, NoneAssumption DEF Insert, Goto, lockVars, LockInv, TypeOK
  <2>11. CASE WrUnlock(t)
    BY <2>11, NoneAssumption DEF WrUnlock, Goto, lockVars, LockInv, TypeOK
  <2>12. CASE Return(t)
    BY <2>12, NoneAssumption DEF Return, Goto, lockVars, LockInv, TypeOK
  <2> QED BY <1>2, <2>1, <2>2, <2>3, <2>4, <2>5, <2>6, <2>7, <2>8, <2>9, <2>10, <2>11, <2>12 DEF Step
<1>3. CASE UNCHANGED vars
  BY <1>3, NoneAssumption DEF vars, lockVars, LockInv, TypeOK
<1> QED BY <1>1, <1>2, <1>3 DEF Next

\* The data.
LEMMA DataStep ==
  ASSUME TypeOK, DataInv, [Next]_vars
  PROVE  DataInv'
<1>1. ASSUME NEW t \in Threads, NEW p \in Pairs, GetFIBBIData(t, p)
      PROVE  DataInv'
  BY <1>1, FunctionAssumption, NoneAssumption DEF GetFIBBIData, Goto, lockVars, DataInv, Recorded, KeyOf, TypeOK, IntegralsOf
<1>2. ASSUME NEW t \in Threads, Step(t)
      PROVE  DataInv'
  <2>1. CASE RdLock(t)
    BY <2>1, FunctionAssumption, NoneAssumption DEF RdLock, Goto, lockVars, DataInv, Recorded, KeyOf, TypeOK, IntegralsOf
  <2>2. CASE Find(t)
    BY <2>2, FunctionAssumption, NoneAssumption DEF Find, Goto, lockVars, DataInv, Recorded, KeyOf, TypeOK, IntegralsOf
  <2>3. CASE RdUnlock(t)
    BY <2>3, FunctionAssumption, NoneAssumption DEF RdUnlock, Goto, lockVars, DataInv, Recorded, KeyOf, TypeOK, IntegralsOf
  <2>4. CASE LoadHits(t)
    BY <2>4, FunctionAssumption, NoneAssumption DEF LoadHits, Goto, lockVars, DataInv, Recorded, KeyOf, TypeOK, IntegralsOf
  <2>5. CASE StoreHits(t)
    BY <2>5, FunctionAssumption, NoneAssumption DEF StoreHits, Goto, lockVars, DataInv, Recorded, KeyOf, TypeOK, IntegralsOf
  <2>6. CASE LoadMisses(t)
    BY <2>6, FunctionAssumption, NoneAssumption DEF LoadMisses, Goto, lockVars, DataInv, Recorded, KeyOf, TypeOK, IntegralsOf
  <2>7. CASE StoreMisses(t)
    BY <2>7, FunctionAssumption, NoneAssumption DEF StoreMisses, Goto, lockVars, DataInv, Recorded, KeyOf, TypeOK, IntegralsOf
  <2>8. CASE Compute(t)
    BY <2>8, FunctionAssumption, NoneAssumption DEF Compute, Goto, lockVars, DataInv, Recorded, KeyOf, TypeOK, IntegralsOf
  <2>9. CASE WrLock(t)
    BY <2>9, FunctionAssumption, NoneAssumption DEF WrLock, Goto, lockVars, DataInv, Recorded, KeyOf, TypeOK, IntegralsOf
  <2>10. CASE Insert(t)
    BY <2>10, FunctionAssumption, NoneAssumption DEF Insert, Goto, lockVars, DataInv, Recorded, KeyOf, TypeOK, IntegralsOf
  <2>11. CASE WrUnlock(t)
    BY <2>11, FunctionAssumption, NoneAssumption DEF WrUnlock, Goto, lockVars, DataInv, Recorded, KeyOf, TypeOK, IntegralsOf
  <2>12. CASE Return(t)
    BY <2>12, FunctionAssumption, NoneAssumption DEF Return, Goto, lockVars, DataInv, Recorded, KeyOf, TypeOK, IntegralsOf
  <2> QED BY <1>2, <2>1, <2>2, <2>3, <2>4, <2>5, <2>6, <2>7, <2>8, <2>9, <2>10, <2>11, <2>12 DEF Step
<1>3. CASE UNCHANGED vars
  BY <1>3, FunctionAssumption, NoneAssumption DEF vars, lockVars, DataInv, Recorded, KeyOf, TypeOK, IntegralsOf
<1> QED BY <1>1, <1>2, <1>3 DEF Next

-----------------------------------------------------------------------------
(* The results.                                                            *)

IInv == TypeOK /\ LockInv /\ DataInv

THEOREM Inductive == Spec => []IInv
<1>1. ASSUME Init PROVE IInv
  <2>1. TypeOK
    BY <1>1 DEF Init, TypeOK, Places
  <2>2. LockInv
    BY <1>1, NoneAssumption DEF Init, LockInv
  <2>3. DataInv
    BY <1>1 DEF Init, DataInv
  <2> QED BY <2>1, <2>2, <2>3 DEF IInv
<1>2. IInv /\ [Next]_vars => IInv'
  BY TypeStep, LockStep, DataStep DEF IInv
<1> QED BY <1>1, <1>2, PTL DEF Spec

\* GetFIBBIData never leaves the types of its data.
THEOREM TypeCorrect == Spec => []TypeOK
<1>1. IInv => TypeOK BY DEF IInv
<1> QED BY <1>1, Inductive, PTL

\* The lock of GetFIBBIData keeps every look-up away from every insertion.
THEOREM LockCorrect == Spec => []NoReadDuringInsert
<1>1. IInv => NoReadDuringInsert
  BY NoneAssumption DEF IInv, LockInv, NoReadDuringInsert
<1> QED BY <1>1, Inductive, PTL

\* Every call of GetFIBBIData returns integrals of the key it was called for.
THEOREM AnswerCorrect == Spec => []ReturnsOwnIntegrals
<1>1. IInv => ReturnsOwnIntegrals
  BY DEF IInv, DataInv, Recorded, ReturnsOwnIntegrals
<1> QED BY <1>1, Inductive, PTL

\* Every call of GetFIBBIData leaves a record of its key in the table.
THEOREM RecordedCorrect == Spec => []RecordedAtReturn
<1>1. IInv => RecordedAtReturn
  BY DEF IInv, DataInv, Recorded, RecordedAtReturn
<1> QED BY <1>1, Inductive, PTL

\* The first record of a key stays, whoever else computed one meanwhile.
THEOREM WriteOnceCorrect == Spec => WriteOnce
<1>1. ASSUME TypeOK, [Next]_vars, NEW k \in Keys, table[k] # None
      PROVE  table'[k] = table[k]
  <2>1. ASSUME NEW t \in Threads, Insert(t) PROVE table'[k] = table[k]
    BY <1>1, <2>1 DEF Insert, TypeOK
  <2> QED
    BY <1>1, <2>1 DEF Next, Step, vars, lockVars, GetFIBBIData, RdLock, Find, RdUnlock, LoadHits, StoreHits, LoadMisses, StoreMisses, Compute, WrLock, WrUnlock, Return
<1>2. IInv /\ [Next]_vars => [\A k \in Keys : table[k] # None => table'[k] = table[k]]_vars
  BY <1>1 DEF IInv
<1> QED BY <1>2, Inductive, PTL DEF Spec, WriteOnce

-----------------------------------------------------------------------------
(* The counters.                                                           *)

\* The threads whose call has not been counted yet.
Pending == { t \in Threads : pc[t] \in {"rdlock", "find", "rdunlock", "hit", "hitStore",
                                        "miss", "missStore"} }

\* However many increments were lost, there are numbers h and m of hits and
\* misses that bound the counters and the loaded values, and no call is counted
\* in both.
CountsBound(h, m) ==
  /\ Hits <= h /\ Misses <= m
  /\ \A t \in Threads : /\ pc[t] = "hitStore" => reg[t] <= h
                        /\ pc[t] = "missStore" => reg[t] <= m
  /\ h + m + Cardinality(Pending) <= calls
CountInv == \E h, m \in Nat : CountsBound(h, m)

LEMMA PendingFinite ==
  ASSUME IsFiniteSet(Threads)
  PROVE  IsFiniteSet(Pending) /\ Cardinality(Pending) \in Nat
<1>1. Pending \in SUBSET Threads
  BY DEF Pending
<1> QED BY <1>1, FS_Subset, FS_CardinalityType

\* A step by which no thread begins a call or counts one.
LEMMA SamePending ==
  ASSUME CountInv, Pending' = Pending, calls' = calls, Hits' = Hits, Misses' = Misses,
         \A t \in Threads : /\ pc'[t] = "hitStore" =>
                               \/ pc[t] = "hitStore" /\ reg'[t] = reg[t]
                               \/ reg'[t] = Hits
                            /\ pc'[t] = "missStore" =>
                               \/ pc[t] = "missStore" /\ reg'[t] = reg[t]
                               \/ reg'[t] = Misses
  PROVE  CountInv'
<1>1. PICK h, m \in Nat : CountsBound(h, m)
  BY DEF CountInv
<1>2. CountsBound(h, m)'
  BY <1>1 DEF CountsBound
<1> QED BY <1>2 DEF CountInv

LEMMA CountStep ==
  ASSUME IsFiniteSet(Threads), TypeOK, CountInv, [Next]_vars
  PROVE  CountInv'
<1>0. PICK h, m \in Nat : CountsBound(h, m)
  BY DEF CountInv
<1>f. IsFiniteSet(Pending) /\ Cardinality(Pending) \in Nat
  BY PendingFinite
<1>1. ASSUME NEW t \in Threads, NEW p \in Pairs, GetFIBBIData(t, p)
      PROVE  CountInv'
  <2>1. Pending' = Pending \cup {t} /\ t \notin Pending
    BY <1>1 DEF GetFIBBIData, Goto, Pending, TypeOK
  <2>2. Cardinality(Pending') = Cardinality(Pending) + 1
    BY <2>1, <1>f, FS_AddElement
  <2>3. h + m + Cardinality(Pending') <= calls'
    BY <1>0, <1>1, <1>f, <2>2 DEF CountsBound, GetFIBBIData, TypeOK
  <2>4. pc' = [pc EXCEPT ![t] = "rdlock"] /\ UNCHANGED <<reg, Hits, Misses>>
    BY <1>1 DEF GetFIBBIData, Goto
  <2>5. CountsBound(h, m)'
    BY <1>0, <2>3, <2>4 DEF CountsBound, TypeOK
  <2> QED BY <2>5 DEF CountInv
<1>2. ASSUME NEW t \in Threads, Step(t)
      PROVE  CountInv'
  <2>1. CASE RdLock(t)
    <3>1. Pending' = Pending
      BY <2>1 DEF RdLock, Goto, Pending, TypeOK
    <3> QED BY <2>1, <3>1, SamePending DEF RdLock, Goto, lockVars, TypeOK
  <2>2. CASE Find(t)
    <3>1. Pending' = Pending
      BY <2>2 DEF Find, Goto, Pending, TypeOK
    <3> QED BY <2>2, <3>1, SamePending DEF Find, Goto, lockVars, TypeOK
  <2>3. CASE RdUnlock(t)
    <3>1. Pending' = Pending
      BY <2>3 DEF RdUnlock, Goto, Pending, TypeOK
    <3> QED BY <2>3, <3>1, SamePending DEF RdUnlock, Goto, lockVars, TypeOK
  <2>4. CASE LoadHits(t)
    <3>1. Pending' = Pending
      BY <2>4 DEF LoadHits, Goto, Pending, TypeOK
    <3> QED BY <2>4, <3>1, SamePending DEF LoadHits, Goto, lockVars, TypeOK
  <2>5. CASE StoreHits(t)
    <3>1. Pending' = Pending \ {t} /\ t \in Pending
      BY <2>5 DEF StoreHits, Goto, Pending, TypeOK
    <3>2. Cardinality(Pending') = Cardinality(Pending) - 1
      BY <3>1, <1>f, FS_RemoveElement
    <3>3. CountsBound(h + 1, m)'
      BY <1>0, <1>f, <2>5, <3>2 DEF CountsBound, StoreHits, Goto, TypeOK
    <3> QED BY <1>0, <3>3 DEF CountInv
  <2>6. CASE LoadMisses(t)
    <3>1. Pending' = Pending
      BY <2>6 DEF LoadMisses, Goto, Pending, TypeOK
    <3> QED BY <2>6, <3>1, SamePending DEF LoadMisses, Goto, lockVars, TypeOK
  <2>7. CASE StoreMisses(t)
    <3>1. Pending' = Pending \ {t} /\ t \in Pending
      BY <2>7 DEF StoreMisses, Goto, Pending, TypeOK
    <3>2. Cardinality(Pending') = Cardinality(Pending) - 1
      BY <3>1, <1>f, FS_RemoveElement
    <3>3. CountsBound(h, m + 1)'
      BY <1>0, <1>f, <2>7, <3>2 DEF CountsBound, StoreMisses, Goto, TypeOK
    <3> QED BY <1>0, <3>3 DEF CountInv
  <2>8. CASE Compute(t)
    <3>1. Pending' = Pending
      BY <2>8 DEF Compute, Goto, Pending, TypeOK
    <3> QED BY <2>8, <3>1, SamePending DEF Compute, Goto, lockVars, TypeOK
  <2>9. CASE WrLock(t)
    <3>1. Pending' = Pending
      BY <2>9 DEF WrLock, Goto, Pending, TypeOK
    <3> QED BY <2>9, <3>1, SamePending DEF WrLock, Goto, lockVars, TypeOK
  <2>10. CASE Insert(t)
    <3>1. Pending' = Pending
      BY <2>10 DEF Insert, Goto, Pending, TypeOK
    <3> QED BY <2>10, <3>1, SamePending DEF Insert, Goto, lockVars, TypeOK
  <2>11. CASE WrUnlock(t)
    <3>1. Pending' = Pending
      BY <2>11 DEF WrUnlock, Goto, Pending, TypeOK
    <3> QED BY <2>11, <3>1, SamePending DEF WrUnlock, Goto, lockVars, TypeOK
  <2>12. CASE Return(t)
    <3>1. Pending' = Pending
      BY <2>12 DEF Return, Goto, Pending, TypeOK
    <3> QED BY <2>12, <3>1, SamePending DEF Return, Goto, lockVars, TypeOK
  <2> QED BY <1>2, <2>1, <2>2, <2>3, <2>4, <2>5, <2>6, <2>7, <2>8, <2>9, <2>10, <2>11, <2>12 DEF Step
<1>3. CASE UNCHANGED vars
  <2>1. Pending' = Pending
    BY <1>3 DEF vars, Pending
  <2> QED BY <1>3, <2>1, SamePending DEF vars, lockVars
<1> QED BY <1>1, <1>2, <1>3 DEF Next

\* Lost increments or not, no call is counted twice.
THEOREM CountCorrect ==
  ASSUME IsFiniteSet(Threads)
  PROVE  Spec => []NeverOvercounts
<1>1. ASSUME Init PROVE CountInv
  <2>1. Pending = {}
    BY <1>1 DEF Init, Pending
  <2>2. CountsBound(0, 0)
    BY <1>1, <2>1, FS_EmptySet DEF Init, CountsBound
  <2> QED BY <2>2 DEF CountInv
<1>2. TypeOK /\ CountInv /\ [Next]_vars => CountInv'
  BY CountStep
<1>3. TypeOK /\ CountInv => NeverOvercounts
  BY PendingFinite DEF CountInv, CountsBound, NeverOvercounts, TypeOK
<1> QED BY <1>1, <1>2, <1>3, TypeCorrect, PTL DEF Spec

-----------------------------------------------------------------------------
(* The refinement.                                                         *)

\* Every step of the cache asks, answers or leaves in MemoTable, or stutters.
LEMMA MemoStep ==
  ASSUME IInv, [Next]_vars
  PROVE  [Memo!Next]_<<asked, answer>>
<1>1. ASSUME NEW t \in Threads, NEW p \in Pairs, GetFIBBIData(t, p)
      PROVE  Memo!Next
  <2>1. GetFIBBICacheKey[p] \in Keys
    BY FunctionAssumption
  <2>2. Memo!Ask(t, GetFIBBICacheKey[p])
    BY <1>1 DEF IInv, TypeOK, GetFIBBIData, Goto, KeyOf, asked, answer, Memo!Ask
  <2> QED BY <2>1, <2>2 DEF Memo!Next
<1>2. ASSUME NEW t \in Threads, StoreHits(t) \/ WrUnlock(t)
      PROVE  Memo!Next
  <2>1. KeyOf(t) \in Keys /\ Recorded(t) /\ FIBBIs[t] # None /\ KeyOf(t) # None
    BY <1>2, FunctionAssumption, NoneAssumption
    DEF IInv, TypeOK, DataInv, Recorded, KeyOf, IntegralsOf, StoreHits, WrUnlock
  <2>2. asked[t] = KeyOf(t) /\ answer[t] = None
    BY <1>2 DEF IInv, TypeOK, asked, answer, StoreHits, WrUnlock
  <2>3. answer' = [answer EXCEPT ![t] = FIBBIs[t]] /\ asked' = asked
    BY <1>2 DEF IInv, TypeOK, KeyOf, asked, answer, StoreHits, WrUnlock, Goto, lockVars
  <2>4. Memo!Answer(t)
    BY <2>1, <2>2, <2>3 DEF Memo!Answer, Recorded
  <2> QED BY <2>4 DEF Memo!Next
<1>3. ASSUME NEW t \in Threads, Return(t)
      PROVE  Memo!Next
  <2>1. Recorded(t) /\ FIBBIs[t] # None
    BY <1>3, FunctionAssumption, NoneAssumption
    DEF IInv, TypeOK, DataInv, Recorded, KeyOf, IntegralsOf, Return
  <2>2. Memo!Leave(t)
    BY <1>3, <2>1 DEF IInv, TypeOK, KeyOf, asked, answer, Return, Goto, Memo!Leave
  <2> QED BY <2>2 DEF Memo!Next
<1>4. ASSUME NEW t \in Threads, ~StoreHits(t), ~WrUnlock(t), ~Return(t), Step(t)
      PROVE  UNCHANGED <<asked, answer>>
  <2>1. CASE RdLock(t)
    BY <2>1 DEF RdLock, Goto, lockVars, asked, answer, KeyOf, IInv, TypeOK
  <2>2. CASE Find(t)
    BY <2>2 DEF Find, Goto, lockVars, asked, answer, KeyOf, IInv, TypeOK
  <2>3. CASE RdUnlock(t)
    BY <2>3 DEF RdUnlock, Goto, lockVars, asked, answer, KeyOf, IInv, TypeOK
  <2>4. CASE LoadHits(t)
    BY <2>4 DEF LoadHits, Goto, lockVars, asked, answer, KeyOf, IInv, TypeOK
  <2>5. CASE LoadMisses(t)
    BY <2>5 DEF LoadMisses, Goto, lockVars, asked, answer, KeyOf, IInv, TypeOK
  <2>6. CASE StoreMisses(t)
    BY <2>6 DEF StoreMisses, Goto, lockVars, asked, answer, KeyOf, IInv, TypeOK
  <2>7. CASE Compute(t)
    BY <2>7 DEF Compute, Goto, lockVars, asked, answer, KeyOf, IInv, TypeOK
  <2>8. CASE WrLock(t)
    BY <2>8 DEF WrLock, Goto, lockVars, asked, answer, KeyOf, IInv, TypeOK
  <2>9. CASE Insert(t)
    BY <2>9 DEF Insert, Goto, lockVars, asked, answer, KeyOf, IInv, TypeOK
  <2> QED BY <1>4, <2>1, <2>2, <2>3, <2>4, <2>5, <2>6, <2>7, <2>8, <2>9 DEF Step
<1>5. CASE UNCHANGED vars
  BY <1>5 DEF vars, asked, answer, KeyOf
<1> QED BY <1>1, <1>2, <1>3, <1>4, <1>5 DEF Next

\* The cache implements the abstract memo table.
THEOREM CacheIsMemoTable == Spec => MemoSpec
<1>1. Init => Memo!Init
  BY DEF Init, asked, answer, Memo!Init
<1>2. IInv /\ [Next]_vars => [Memo!Next]_<<asked, answer>>
  BY MemoStep
<1> QED BY <1>1, <1>2, Inductive, PTL DEF Spec, MemoSpec, Memo!Spec
=============================================================================
