--------------------------- MODULE FIBBICacheFile ---------------------------
(***************************************************************************)
(* The file of a FIBBICache (FIBBICache.cc): the constructor preloads the  *)
(* table from ${SCUFF_CACHE_PATH}/Mesh.scuffcache or ./Mesh.scuffcache,    *)
(* Store writes the table to the former (to the latter when the variable   *)
(* is not set) unless it believes that the file holds the table already.   *)
(* The process may die at any moment; what it had written by then is a     *)
(* prefix of the file, cut anywhere in a record.  The order of the records *)
(* in a file is the arbitrary order of the hash map, so that a prefix of n *)
(* records may be any n of them, and a record stands for its key.          *)
(***************************************************************************)
EXTENDS Naturals, FiniteSets

CONSTANTS Keys, None,
          CacheDirSet    \* SCUFF_CACHE_PATH is set

ASSUME KeysAssumption == IsFiniteSet(Keys)
ASSUME NoneAssumption == None \notin {"dir", "cwd"}
ASSUME CacheDirAssumption == CacheDirSet \in BOOLEAN

VARIABLES
  Faults,            \* what may fail: "read", "open" for writing, "write"
  disk,              \* the two files: the signature, whole records, a torn one
  step,              \* "down", "running", "writing": inside Store
  table,             \* the records in memory
  LastFileName, NumRecordsInFile,
  todo,              \* records Store has not written yet
  held               \* history: the records of the whole file that Store writes to,
                     \* since a Store was last cut short

vars == <<Faults, disk, step, table, LastFileName, NumRecordsInFile, todo, held>>

Names == {"dir", "cwd"}
FileOf(recs) == [exists |-> TRUE, sig |-> TRUE, recs |-> recs, torn |-> FALSE]
Truncated == [exists |-> TRUE, sig |-> FALSE, recs |-> {}, torn |-> FALSE]
NoFile == [Truncated EXCEPT !.exists = FALSE]

\* What is left of a file when only part of the records S + {next} reached it.
Prefixes(S, complete) ==
  {Truncated} \cup { FileOf(R) : R \in SUBSET S }
  \cup { [FileOf(R) EXCEPT !.torn = TRUE] : R \in { Q \in SUBSET S : Q # S \/ ~complete } }

\* Files that earlier processes may have left.
OldFiles == {NoFile} \cup Prefixes(Keys, TRUE)

StoreName == IF CacheDirSet THEN "dir" ELSE "cwd"

\* The checks of PreLoad: the file opens, is signed and holds whole records.
Valid(f) == f.exists /\ f.sig /\ ~f.torn

\* The records that PreLoad finds in a file when no read fails.
Records(f) == IF Valid(f) THEN f.recs ELSE {}

Init ==
  /\ Faults \in SUBSET {"read", "open", "write"}
  /\ disk \in [Names -> OldFiles]
  /\ step = "down" /\ table = {} /\ todo = {}
  /\ LastFileName = None /\ NumRecordsInFile = 0
  /\ held = Records(disk[StoreName])

\* What PreLoad makes of a file and a table.  A read that fails half-way leaves
\* the records it has read in the table.
PreLoad(f, T) ==
  IF ~Valid(f) THEN { [Status |-> 1, table |-> T] }
  ELSE { [Status |-> 0, table |-> T \cup f.recs] }
       \cup { [Status |-> 1, table |-> T \cup R] :
                R \in { Q \in SUBSET f.recs : "read" \in Faults } }

Loaded(name, outcome) ==
  /\ table' = outcome.table
  /\ IF outcome.Status = 0
     THEN LastFileName' = name /\ NumRecordsInFile' = Cardinality(disk[name].recs)
     ELSE UNCHANGED <<LastFileName, NumRecordsInFile>>

\* Mutant: ./Mesh.scuffcache is tried first.
CreateFIBBICacheCwdFirst ==
  /\ step = "down" /\ step' = "running"
  /\ \E c \in PreLoad(disk["cwd"], {}) :
       IF c.Status = 0 \/ ~CacheDirSet THEN Loaded("cwd", c)
       ELSE \E d \in PreLoad(disk["dir"], c.table) : Loaded("dir", d)
  /\ UNCHANGED <<disk, todo, held>>

CreateFIBBICache ==
  /\ step = "down" /\ step' = "running"
  /\ \/ CacheDirSet /\ \E d \in PreLoad(disk["dir"], {}) : d.Status = 0 /\ Loaded("dir", d)
     \/ \E d \in (IF CacheDirSet THEN PreLoad(disk["dir"], {}) ELSE { [Status |-> 1, table |-> {}] }) :
          /\ d.Status # 0
          /\ \E c \in PreLoad(disk["cwd"], d.table) : Loaded("cwd", c)
  /\ UNCHANGED <<disk, todo, held>>

GetFIBBIData(k) ==
  /\ step = "running" /\ k \notin table
  /\ table' = table \cup {k}
  /\ UNCHANGED <<disk, step, LastFileName, NumRecordsInFile, todo, held>>

\* Mutant: the name of the file is not compared.
UnchangedAnyFile == Cardinality(table) = NumRecordsInFile /\ LastFileName # None

\* Store returns at once when nothing seems to have changed since the last disk
\* operation.
Unchanged == Cardinality(table) = NumRecordsInFile /\ LastFileName = StoreName

\* Mutant: the count of the last disk operation is kept.
StoreOpenKeepsCount ==
  /\ step = "running" /\ ~Unchanged
  /\ LastFileName' = StoreName
  /\ disk' = [disk EXCEPT ![StoreName] = Truncated]
  /\ todo' = table
  /\ step' = "writing"
  /\ UNCHANGED <<table, NumRecordsInFile, held>>

StoreOpen ==
  /\ step = "running" /\ ~Unchanged
  /\ LastFileName' = StoreName
  /\ disk' = [disk EXCEPT ![StoreName] = Truncated]
  /\ NumRecordsInFile' = 0 /\ todo' = table
  /\ step' = "writing"
  /\ UNCHANGED <<table, held>>

StoreOpenFails ==
  /\ "open" \in Faults /\ step = "running" /\ ~Unchanged
  /\ LastFileName' = StoreName
  /\ UNCHANGED <<disk, step, table, NumRecordsInFile, todo, held>>

WriteRecord(k) ==
  /\ step = "writing" /\ k \in todo
  /\ todo' = todo \ {k}
  /\ NumRecordsInFile' = NumRecordsInFile + 1
  /\ UNCHANGED <<disk, step, table, LastFileName, held>>

StoreClose ==
  /\ step = "writing" /\ todo = {}
  /\ disk' = [disk EXCEPT ![StoreName] = FileOf(table)]
  /\ held' = held \cup table
  /\ step' = "running"
  /\ UNCHANGED <<table, LastFileName, NumRecordsInFile, todo>>

WrittenPrefixes == Prefixes(table \ todo, todo = {})

\* A Store that does not come to its end leaves a prefix of the file.
CutShort ==
  /\ \E f \in WrittenPrefixes : disk' = [disk EXCEPT ![StoreName] = f]
  /\ held' = Records(disk'[StoreName])

\* fwrite fails and ends the loop, or what it had buffered fails to reach the
\* disk, which nobody notices: fclose is not checked.
WriteFails ==
  /\ "write" \in Faults /\ step = "writing"
  /\ CutShort
  /\ step' = "running" /\ todo' = {}
  /\ UNCHANGED <<table, LastFileName, NumRecordsInFile>>

\* The process ends or is killed.
Crash ==
  /\ step # "down" /\ step' = "down"
  /\ IF step = "writing" THEN CutShort ELSE UNCHANGED <<disk, held>>
  /\ table' = {} /\ todo' = {}
  /\ LastFileName' = None /\ NumRecordsInFile' = 0

Next ==
  /\ \/ CreateFIBBICache
     \/ \E k \in Keys : GetFIBBIData(k) \/ WriteRecord(k)
     \/ StoreOpen \/ StoreOpenFails \/ StoreClose \/ WriteFails
     \/ Crash
  /\ UNCHANGED Faults

Spec == Init /\ [][Next]_vars

-----------------------------------------------------------------------------
\* The types.
TypeOK ==
  /\ Faults \subseteq {"read", "open", "write"}
  /\ disk \in [Names -> [exists : BOOLEAN, sig : BOOLEAN, recs : SUBSET Keys, torn : BOOLEAN]]
  /\ step \in {"down", "running", "writing"}
  /\ table \in SUBSET Keys /\ todo \in SUBSET table
  /\ LastFileName \in Names \cup {None} /\ NumRecordsInFile \in 0..Cardinality(Keys)
  /\ held \in SUBSET Keys

\* Where no opening for writing and no write fails, a Store that is skipped would
\* have rewritten the same file: the file has all the records of the table (the
\* comment in PreLoad on LastFileName), whatever was killed or could not be read.
SkipIsRewrite ==
  Faults \subseteq {"read"} /\ step = "running" /\ Unchanged =>
    disk[StoreName] = FileOf(table)

\* Where no read fails, what a whole file ever held is lost only through a Store
\* that is cut short, by a kill or a failed write: until then every Store, in this
\* process or a later one, writes all of it again, from a table that the
\* constructor took it into; and a file that is whole is never given up for the
\* one in the other directory.  What the kill itself takes away is not bounded:
\* fopen("w") has truncated the only copy by then.
LostOnlyIfCutShort ==
  "read" \notin Faults =>
    held \subseteq IF step = "writing" THEN table ELSE Records(disk[StoreName])
=============================================================================
