------------------------ MODULE FIBBICacheFile_proof ------------------------
(***************************************************************************)
(* Proofs about FIBBICacheFile, for every finite set of records.           *)
(***************************************************************************)
EXTENDS FIBBICacheFile, FiniteSetTheorems, TLAPS

Files == [exists : BOOLEAN, sig : BOOLEAN, recs : SUBSET Keys, torn : BOOLEAN]

\* The types, without the bound on the count.
Types ==
  /\ disk \in [Names -> Files]
  /\ step \in {"down", "running", "writing"}
  /\ table \in SUBSET Keys /\ todo \in SUBSET table
  /\ step # "writing" => todo = {}
  /\ LastFileName \in Names \cup {None}
  /\ held \in SUBSET Keys

\* Any set of records can be counted.
LEMMA Countable ==
  ASSUME NEW S \in SUBSET Keys
  PROVE  IsFiniteSet(S) /\ Cardinality(S) \in Nat
BY KeysAssumption, FS_Subset, FS_CardinalityType

LEMMA PrefixTypes ==
  ASSUME NEW S \in SUBSET Keys, NEW complete, NEW f \in Prefixes(S, complete)
  PROVE  f \in Files /\ f.recs \subseteq S
<1>1. ASSUME NEW R \in SUBSET S
      PROVE  /\ FileOf(R) \in Files /\ FileOf(R).recs = R
             /\ [FileOf(R) EXCEPT !.torn = TRUE] \in Files
             /\ [FileOf(R) EXCEPT !.torn = TRUE].recs = R
  BY <1>1 DEF FileOf, Files
<1>2. Truncated \in Files /\ Truncated.recs = {}
  BY DEF Truncated, Files
<1>3. \/ f = Truncated
      \/ \E R \in SUBSET S : f = FileOf(R) \/ f = [FileOf(R) EXCEPT !.torn = TRUE]
  BY DEF Prefixes
<1>4. CASE f = Truncated
  BY <1>2, <1>4
<1>5. ASSUME NEW R \in SUBSET S, f = FileOf(R) \/ f = [FileOf(R) EXCEPT !.torn = TRUE]
      PROVE  f \in Files /\ f.recs \subseteq S
  <2>1. f \in Files /\ f.recs = R
    BY <1>1, <1>5, Zenon
  <2> QED BY <2>1
<1> QED BY <1>3, <1>4, <1>5

LEMMA PreLoadIs ==
  ASSUME NEW f \in Files, NEW T \in SUBSET Keys, NEW o \in PreLoad(f, T)
  PROVE  /\ o.table \in SUBSET Keys /\ T \subseteq o.table
         /\ o.Status = 0 => Valid(f) /\ f.recs \subseteq o.table
         /\ o.Status # 0 /\ "read" \notin Faults => ~Valid(f)
BY DEF PreLoad, Files, Valid

LEMMA RecordsType ==
  ASSUME NEW f \in Files
  PROVE  Records(f) \in SUBSET Keys
BY DEF Records, Files

LEMMA ValidFile ==
  ASSUME NEW f \in Files, Valid(f)
  PROVE  f = FileOf(f.recs)
BY DEF Files, Valid, FileOf

\* What the constructor leaves, whichever files it could read.
LEMMA CreateIs ==
  ASSUME Types, CreateFIBBICache
  PROVE  /\ table' \in SUBSET Keys
         /\ \/ UNCHANGED <<LastFileName, NumRecordsInFile>>
            \/ \E n \in Names : /\ LastFileName' = n
                                /\ NumRecordsInFile' = Cardinality(disk[n].recs)
                                /\ Valid(disk[n]) /\ disk[n].recs \subseteq table'
         /\ "read" \notin Faults /\ Valid(disk[StoreName]) => disk[StoreName].recs \subseteq table'
<1>0. disk["dir"] \in Files /\ disk["cwd"] \in Files
  BY DEF Types, Names
<1>1. CASE CacheDirSet /\ \E d \in PreLoad(disk["dir"], {}) : d.Status = 0 /\ Loaded("dir", d)
  <2>1. PICK d \in PreLoad(disk["dir"], {}) : d.Status = 0 /\ Loaded("dir", d)
    BY <1>1
  <2>2. {} \in SUBSET Keys
    OBVIOUS
  <2>3. /\ d.table \in SUBSET Keys
        /\ Valid(disk["dir"]) /\ disk["dir"].recs \subseteq d.table
    BY <1>0, <2>1, <2>2, PreLoadIs
  <2> QED BY <1>1, <2>1, <2>3 DEF Loaded, Names, StoreName
<1>2. ASSUME NEW d \in IF CacheDirSet THEN PreLoad(disk["dir"], {})
                       ELSE { [Status |-> 1, table |-> {}] },
             d.Status # 0,
             NEW c \in PreLoad(disk["cwd"], d.table), Loaded("cwd", c)
      PROVE  /\ table' \in SUBSET Keys
             /\ \/ UNCHANGED <<LastFileName, NumRecordsInFile>>
                \/ \E n \in Names : /\ LastFileName' = n
                                    /\ NumRecordsInFile' = Cardinality(disk[n].recs)
                                    /\ Valid(disk[n]) /\ disk[n].recs \subseteq table'
             /\ "read" \notin Faults /\ Valid(disk[StoreName]) =>
                  disk[StoreName].recs \subseteq table'
  <2>1. /\ d.table \in SUBSET Keys
        /\ CacheDirSet /\ "read" \notin Faults => ~Valid(disk["dir"])
    <3>1. CASE CacheDirSet
      <4>1. d \in PreLoad(disk["dir"], {}) /\ {} \in SUBSET Keys
        BY <1>2, <3>1
      <4> QED BY <1>0, <1>2, <4>1, PreLoadIs
    <3>2. CASE ~CacheDirSet
      BY <1>2, <3>2
    <3> QED BY <3>1, <3>2
  <2>2. /\ c.table \in SUBSET Keys
        /\ c.Status = 0 => Valid(disk["cwd"]) /\ disk["cwd"].recs \subseteq c.table
        /\ c.Status # 0 /\ "read" \notin Faults => ~Valid(disk["cwd"])
    BY <1>0, <1>2, <2>1, PreLoadIs
  <2>3. CASE c.Status = 0
    BY <1>2, <2>1, <2>2, <2>3 DEF Loaded, Names, StoreName
  <2>4. CASE c.Status # 0
    BY <1>2, <2>1, <2>2, <2>4 DEF Loaded, Names, StoreName
  <2> QED BY <2>3, <2>4
<1> QED BY <1>1, <1>2 DEF CreateFIBBICache

LEMMA TypesStep ==
  ASSUME Types, [Next]_vars
  PROVE  Types'
<1>0. StoreName \in Names
  BY DEF StoreName, Names
<1>1. CASE CreateFIBBICache
  <2>1. table' \in SUBSET Keys /\ LastFileName' \in Names \cup {None}
    BY <1>1, CreateIs DEF Types
  <2>2. disk' = disk /\ todo' = {} /\ step' = "running" /\ held' = held
    BY <1>1 DEF Types, CreateFIBBICache
  <2> QED BY <2>1, <2>2 DEF Types
<1>2. ASSUME NEW k \in Keys, GetFIBBIData(k) \/ WriteRecord(k)
      PROVE  Types'
  <2>1. table' \in SUBSET Keys /\ todo' \in SUBSET table'
    BY <1>2 DEF Types, GetFIBBIData, WriteRecord
  <2>2. UNCHANGED <<disk, step, LastFileName, held>>
    BY <1>2 DEF GetFIBBIData, WriteRecord
  <2>3. step # "writing" => todo' = {}
    BY <1>2 DEF Types, GetFIBBIData, WriteRecord
  <2> QED BY <2>1, <2>2, <2>3 DEF Types
<1>3. CASE StoreOpen
  BY <1>0, <1>3 DEF Types, StoreOpen, Truncated, Files
<1>4. CASE StoreOpenFails
  BY <1>0, <1>4 DEF Types, StoreOpenFails
<1>5. CASE StoreClose
  BY <1>0, <1>5 DEF Types, StoreClose, FileOf, Files
<1>6. ASSUME NEW f \in WrittenPrefixes
      PROVE  f \in Files
  <2>1. table \ todo \in SUBSET Keys
    BY DEF Types
  <2> QED BY <1>6, <2>1, PrefixTypes DEF WrittenPrefixes
<1>7. ASSUME CutShort
      PROVE  disk' \in [Names -> Files] /\ held' \in SUBSET Keys
  <2>1. disk' \in [Names -> Files]
    BY <1>0, <1>6, <1>7 DEF Types, CutShort
  <2>2. held' = Records(disk'[StoreName])
    BY <1>7 DEF CutShort
  <2> QED BY <1>0, <2>1, <2>2, RecordsType
<1>8. CASE WriteFails \/ Crash
  BY <1>7, <1>8 DEF Types, WriteFails, Crash
<1>9. CASE UNCHANGED vars
  BY <1>9 DEF Types, vars
<1> QED BY <1>1, <1>2, <1>3, <1>4, <1>5, <1>8, <1>9 DEF Next

LEMMA TypesInit ==
  ASSUME Init
  PROVE  Types
<1>1. OldFiles \subseteq Files
  <2>1. NoFile \in Files
    BY DEF NoFile, Truncated, Files
  <2>2. Keys \in SUBSET Keys
    OBVIOUS
  <2> QED BY <2>1, <2>2, PrefixTypes DEF OldFiles
<1>2. StoreName \in Names
  BY DEF StoreName, Names
<1>3. held \in SUBSET Keys
  BY <1>1, <1>2, RecordsType DEF Init
<1> QED BY <1>1, <1>3 DEF Init, Types

-----------------------------------------------------------------------------
(* The count of records stays within the number there can be.              *)

\* While Store writes, the count is that of the records it has written.
CountInv ==
  /\ Faults \subseteq {"read", "open", "write"}
  /\ NumRecordsInFile \in 0..Cardinality(Keys)
  /\ step = "writing" => NumRecordsInFile = Cardinality(table \ todo)

LEMMA CountBound ==
  ASSUME NEW S \in SUBSET Keys
  PROVE  Cardinality(S) \in 0..Cardinality(Keys)
<1>1. Cardinality(S) <= Cardinality(Keys)
  BY KeysAssumption, FS_Subset
<1>2. Keys \in SUBSET Keys
  OBVIOUS
<1> QED BY <1>1, <1>2, Countable

LEMMA CountStep ==
  ASSUME Types, CountInv, [Next]_vars
  PROVE  CountInv'
<1>0. Faults' \subseteq {"read", "open", "write"}
  BY DEF CountInv, Next, vars
<1>1. CASE CreateFIBBICache
  <2>1. step' = "running"
    BY <1>1 DEF CreateFIBBICache
  <2>2. CASE UNCHANGED NumRecordsInFile
    BY <1>0, <2>1, <2>2 DEF CountInv
  <2>3. ASSUME NEW name \in Names, NumRecordsInFile' = Cardinality(disk[name].recs)
        PROVE  CountInv'
    <3>1. disk[name].recs \in SUBSET Keys
      BY DEF Types, Files
    <3> QED BY <1>0, <2>1, <2>3, <3>1, CountBound DEF CountInv
  <2> QED BY <1>1, <2>2, <2>3, CreateIs
<1>2. ASSUME NEW k \in Keys, GetFIBBIData(k)
      PROVE  CountInv'
  BY <1>0, <1>2 DEF CountInv, GetFIBBIData
<1>3. ASSUME NEW k \in Keys, WriteRecord(k)
      PROVE  CountInv'
  <2>1. /\ table \ todo' = (table \ todo) \cup {k} /\ k \notin table \ todo
        /\ table \ todo \in SUBSET Keys /\ table \ todo' \in SUBSET Keys
    BY <1>3 DEF Types, WriteRecord
  <2>2. Cardinality(table \ todo') = Cardinality(table \ todo) + 1
    BY <2>1, Countable, FS_AddElement
  <2>3. Cardinality(table \ todo') \in 0..Cardinality(Keys)
    BY <2>1, CountBound
  <2>4. /\ NumRecordsInFile = Cardinality(table \ todo)
        /\ NumRecordsInFile' = NumRecordsInFile + 1 /\ table' = table
    BY <1>3 DEF CountInv, WriteRecord
  <2> QED BY <1>0, <2>2, <2>3, <2>4 DEF CountInv
<1>4. CASE StoreOpen
  <2>1. table \ table = {} /\ {} \in SUBSET Keys
    OBVIOUS
  <2>2. Cardinality({}) = 0 /\ 0 \in 0..Cardinality(Keys)
    BY <2>1, FS_EmptySet, CountBound
  <2> QED BY <1>0, <1>4, <2>1, <2>2 DEF CountInv, StoreOpen
<1>5. CASE StoreOpenFails \/ StoreClose \/ WriteFails
  BY <1>0, <1>5 DEF CountInv, StoreOpenFails, StoreClose, WriteFails
<1>6. CASE Crash
  <2>1. {} \in SUBSET Keys
    OBVIOUS
  <2>2. 0 \in 0..Cardinality(Keys)
    BY <2>1, FS_EmptySet, CountBound
  <2> QED BY <1>0, <1>6, <2>2 DEF CountInv, Crash
<1>7. CASE UNCHANGED vars
  BY <1>7 DEF CountInv, vars
<1> QED BY <1>1, <1>2, <1>3, <1>4, <1>5, <1>6, <1>7 DEF Next

\* The types: the count that Store compares with the size of the table is never
\* more than the number of records there are, whatever fails.
THEOREM TypeCorrect == Spec => []TypeOK
<1>1. Init => Types /\ CountInv
  <2> SUFFICES ASSUME Init PROVE CountInv
    BY TypesInit
  <2>1. {} \in SUBSET Keys
    OBVIOUS
  <2>2. 0 \in 0..Cardinality(Keys)
    BY <2>1, FS_EmptySet, CountBound
  <2> QED BY <2>2 DEF Init, CountInv
<1>2. Types /\ CountInv /\ [Next]_vars => Types' /\ CountInv'
  BY TypesStep, CountStep
<1>3. Types /\ CountInv => TypeOK
  BY DEF Types, CountInv, TypeOK, Files
<1> QED BY <1>1, <1>2, <1>3, PTL DEF Spec

-----------------------------------------------------------------------------
(* A Store is skipped only when it would rewrite the same file.            *)

\* What the process remembers of its last disk operation is true of the file.
Remembers ==
  /\ step = "running" /\ LastFileName # None =>
       /\ Valid(disk[LastFileName]) /\ disk[LastFileName].recs \subseteq table
       /\ NumRecordsInFile = Cardinality(disk[LastFileName].recs)
  /\ step = "writing" =>
       /\ LastFileName = StoreName
       /\ NumRecordsInFile = Cardinality(table \ todo)
  /\ step = "down" => LastFileName = None

LEMMA RemembersStep ==
  ASSUME Types, Remembers, [Next]_vars, Faults \subseteq {"read"}
  PROVE  Remembers'
<1>0. StoreName \in Names
  BY DEF StoreName, Names
<1>1. CASE CreateFIBBICache
  <2>1. step = "down" /\ step' = "running" /\ disk' = disk /\ LastFileName = None
    BY <1>1 DEF CreateFIBBICache, Remembers
  <2> QED BY <1>1, <2>1, CreateIs DEF Remembers
<1>2. ASSUME NEW k \in Keys, GetFIBBIData(k)
      PROVE  Remembers'
  BY <1>2 DEF Remembers, GetFIBBIData
<1>3. ASSUME NEW k \in Keys, WriteRecord(k)
      PROVE  Remembers'
  <2>1. /\ table \ todo' = (table \ todo) \cup {k} /\ k \notin table \ todo
        /\ table \ todo \in SUBSET Keys
    BY <1>3 DEF Types, WriteRecord
  <2>2. Cardinality(table \ todo') = Cardinality(table \ todo) + 1
    BY <2>1, Countable, FS_AddElement
  <2> QED BY <1>3, <2>2 DEF Remembers, WriteRecord
<1>4. CASE StoreOpen
  <2>1. table \ table = {}
    OBVIOUS
  <2> QED BY <1>4, <2>1, FS_EmptySet DEF Remembers, StoreOpen
<1>5. CASE StoreClose
  <2>1. table \ todo = table
    BY <1>5 DEF StoreClose
  <2>2. disk'[StoreName] = FileOf(table)
    BY <1>0, <1>5 DEF StoreClose, Types
  <2> QED BY <1>5, <2>1, <2>2 DEF Remembers, StoreClose, FileOf, Valid
<1>6. CASE StoreOpenFails \/ WriteFails
  BY <1>6 DEF StoreOpenFails, WriteFails
<1>7. CASE Crash
  BY <1>7 DEF Remembers, Crash
<1>8. CASE UNCHANGED vars
  BY <1>8 DEF Remembers, vars
<1> QED BY <1>1, <1>2, <1>3, <1>4, <1>5, <1>6, <1>7, <1>8 DEF Next

IInv == Types /\ (Faults \subseteq {"read"} => Remembers)

\* A Store is skipped only when the file holds the table, unless writes fail.
THEOREM SkipCorrect == Spec => []SkipIsRewrite
<1>1. Init => IInv
  BY TypesInit DEF Init, Remembers, IInv
<1>2. IInv /\ [Next]_vars => IInv'
  <2>1. ASSUME IInv, [Next]_vars
        PROVE  IInv'
    <3>1. Types'
      BY <2>1, TypesStep DEF IInv
    <3>2. Faults' = Faults
      BY <2>1 DEF Next, vars
    <3>3. ASSUME Faults \subseteq {"read"} PROVE Remembers'
      BY <2>1, <3>3, RemembersStep DEF IInv
    <3> QED BY <3>1, <3>2, <3>3 DEF IInv
  <2> QED BY <2>1
<1>3. ASSUME Types, Remembers, step = "running", Unchanged
      PROVE  disk[StoreName] = FileOf(table)
  <2>1. StoreName \in Names /\ LastFileName = StoreName /\ StoreName # None
    BY <1>3, NoneAssumption DEF Unchanged, StoreName, Names
  <2>2. disk[StoreName] \in Files
    BY <1>3, <2>1 DEF Types
  <2>3. /\ Valid(disk[StoreName]) /\ disk[StoreName].recs \subseteq table
        /\ Cardinality(disk[StoreName].recs) = Cardinality(table)
    BY <1>3, <2>1 DEF Remembers, Unchanged
  <2>4. IsFiniteSet(table)
    BY <1>3, Countable DEF Types
  <2>5. disk[StoreName].recs = table
    BY <2>3, <2>4, FS_Subset
  <2> QED BY <2>2, <2>3, <2>5, ValidFile
<1>4. IInv => SkipIsRewrite
  BY <1>3 DEF SkipIsRewrite, IInv
<1> QED BY <1>1, <1>2, <1>4, PTL DEF Spec

-----------------------------------------------------------------------------
(* Records are lost only through a Store that is cut short.                *)

\* While the process runs the table has what the file has, and all along one of
\* the two has what the file held.
Kept ==
  /\ step # "down" => Records(disk[StoreName]) \subseteq table
  /\ held \subseteq IF step = "writing" THEN table ELSE Records(disk[StoreName])

LEMMA KeptStep ==
  ASSUME Types, Kept, [Next]_vars, "read" \notin Faults
  PROVE  Kept'
<1>0. StoreName \in Names
  BY DEF StoreName, Names
<1>1. CASE CreateFIBBICache
  <2>1. UNCHANGED <<disk, held>> /\ step = "down" /\ step' = "running"
    BY <1>1 DEF CreateFIBBICache
  <2>2. Records(disk[StoreName]) \subseteq table'
    BY <1>1, CreateIs DEF Records
  <2> QED BY <2>1, <2>2 DEF Kept
<1>2. ASSUME NEW k \in Keys, GetFIBBIData(k) \/ WriteRecord(k)
      PROVE  Kept'
  BY <1>2 DEF Kept, GetFIBBIData, WriteRecord
<1>3. CASE StoreOpen
  <2>1. disk'[StoreName] = Truncated /\ UNCHANGED <<table, held>> /\ step' = "writing"
    BY <1>0, <1>3 DEF Types, StoreOpen
  <2>2. Records(Truncated) = {}
    BY DEF Records, Valid, Truncated
  <2>3. held \subseteq table
    BY <1>3 DEF Kept, StoreOpen
  <2> QED BY <2>1, <2>2, <2>3 DEF Kept
<1>4. CASE StoreOpenFails
  BY <1>4 DEF Kept, StoreOpenFails
<1>5. CASE StoreClose
  <2>1. /\ disk'[StoreName] = FileOf(table) /\ table' = table
        /\ held' = held \cup table /\ step = "writing" /\ step' = "running"
    BY <1>0, <1>5 DEF Types, StoreClose
  <2>2. Records(FileOf(table)) = table
    BY DEF Records, Valid, FileOf
  <2> QED BY <2>1, <2>2 DEF Kept
<1>6. ASSUME CutShort
      PROVE  held' = Records(disk'[StoreName]) /\ Records(disk'[StoreName]) \subseteq table
  <2>1. PICK f \in WrittenPrefixes : disk' = [disk EXCEPT ![StoreName] = f]
    BY <1>6 DEF CutShort
  <2>2. f.recs \subseteq table \ todo
    <3>1. table \ todo \in SUBSET Keys
      BY DEF Types
    <3> QED BY <2>1, <3>1, PrefixTypes DEF WrittenPrefixes
  <2> QED BY <1>0, <1>6, <2>1, <2>2 DEF Types, CutShort, Records
<1>7. CASE WriteFails
  BY <1>6, <1>7 DEF Kept, WriteFails
<1>8. CASE Crash
  <2>1. step' = "down"
    BY <1>8 DEF Crash
  <2>2. CASE step = "writing"
    BY <1>6, <1>8, <2>1, <2>2 DEF Kept, Crash
  <2>3. CASE step # "writing"
    BY <1>8, <2>1, <2>3 DEF Kept, Crash
  <2> QED BY <2>2, <2>3
<1>9. CASE UNCHANGED vars
  BY <1>9 DEF Kept, vars
<1> QED BY <1>1, <1>2, <1>3, <1>4, <1>5, <1>7, <1>8, <1>9 DEF Next

FileInv == Types /\ ("read" \notin Faults => Kept)

\* Where no read fails, what a whole file held is written again by every Store
\* that comes to its end: only a kill or a failed write inside Store loses records.
THEOREM OnlyCutShortLoses == Spec => []LostOnlyIfCutShort
<1>1. Init => FileInv
  BY TypesInit DEF Init, Kept, FileInv
<1>2. FileInv /\ [Next]_vars => FileInv'
  <2>1. ASSUME FileInv, [Next]_vars
        PROVE  FileInv'
    <3>1. Types'
      BY <2>1, TypesStep DEF FileInv
    <3>2. Faults' = Faults
      BY <2>1 DEF Next, vars
    <3>3. ASSUME "read" \notin Faults PROVE Kept'
      BY <2>1, <3>3, KeptStep DEF FileInv
    <3> QED BY <3>1, <3>2, <3>3 DEF FileInv
  <2> QED BY <2>1
<1>3. FileInv => LostOnlyIfCutShort
  BY DEF Kept, LostOnlyIfCutShort, FileInv
<1> QED BY <1>1, <1>2, <1>3, PTL DEF Spec
=============================================================================
