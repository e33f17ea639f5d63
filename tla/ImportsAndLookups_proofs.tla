----------------------- MODULE ImportsAndLookups_proofs ------------------------
(***************************************************************************)
(* Proofs about the two components that bring in what others have written: *)
(* ReferenceImport, for every set of rows, workers, sweeps and files, and  *)
(* TrustedLookup, for every set of words, with every lemma they may have,  *)
(* of workers and of requests; both for every bound on faults.             *)
(***************************************************************************)
EXTENDS ReferenceImport, TrustedLookup, FiniteSetTheorems, WellFoundedInduction, TLAPS

--------------------------------------------------------------------------------
(* ReferenceImport: types.                                                 *)

\* A busy worker runs an import, a retry between check and insert has a source,
\* and a sweep that marked a row remembers it.
CheckedHasSource == \A i \in Imports : phase[i] = "checked" => retryOf[i] \in Imports
BusyHasImport    == \A w \in Workers : step[w] # "idle" => job[w] \in Imports
SweepHasTarget   == \A s \in Sweepers : sweep[s] \in {"marked", "starting"}
                                            => target[s] \in Imports

TypeInv == TypeOK /\ CheckedHasSource /\ BusyHasImport /\ SweepHasTarget

LEMMA InitType == Init => TypeInv
<1> SUFFICES ASSUME Init PROVE TypeInv
  OBVIOUS
<1>1. /\ status \in [Imports -> Statuses] /\ phase \in [Imports -> Phases]
      /\ step \in [Workers -> Steps] /\ sweep \in [Sweepers -> SweepStates]
  BY DEF Init, Statuses, Phases, Steps, SweepStates
<1>2. canRetry \in [Imports -> BOOLEAN] /\ overlap \in BOOLEAN
  BY DEF Init
<1>3. TypeOK
  BY <1>1, <1>2, BoundsAssumption DEF Init, TypeOK
<1> QED
  BY <1>3 DEF Init, TypeInv, CheckedHasSource, BusyHasImport, SweepHasTarget

LEMMA RequestType ==
  ASSUME TypeInv, NEW i \in Imports, Request(i)
  PROVE  TypeInv'
<1> USE BoundsAssumption
<1> USE DEF TypeInv, TypeOK, rowVars, resultVars, workerVars, sweepVars,
        CheckedHasSource, BusyHasImport, SweepHasTarget
<1>1. ASSUME NEW f \in Files, CreateImport(i, f) PROVE TypeInv'
  BY <1>1, FilesAssumption DEF CreateImport, Statuses, Phases
<1>2. ASSUME NEW j \in Imports, RetryCheck(j, i) PROVE TypeInv'
  BY <1>2 DEF RetryCheck, Reserve, Phases
<1>3. CASE RejectRetry(i)
  BY <1>3 DEF RejectRetry, Fault, Phases
<1>4. CASE RetryCommit(i)
  BY <1>4 DEF RetryCommit, Statuses, Phases
<1>5. CASE Enqueue(i)
  BY <1>5 DEF Enqueue, Phases
<1>6. CASE EnqueueFails(i)
  BY <1>6 DEF EnqueueFails, Fault, Statuses, Phases
<1>7. CASE AbandonRequest(i)
  BY <1>7 DEF AbandonRequest, Fault, Phases
<1>8. CASE LoseMessage(i)
  BY <1>8 DEF LoseMessage, Fault
<1> QED
  BY <1>1, <1>2, <1>3, <1>4, <1>5, <1>6, <1>7, <1>8 DEF Request

\* The number save writes is a number.
LEMMA NewCountType ==
  ASSUME TypeInv, NEW w \in Workers, step[w] = "saving"
  PROVE  /\ RowsToInsert(w) \subseteq Pairs /\ IsFiniteSet(RowsToInsert(w))
         /\ IsFiniteSet(seen[w])
         /\ Cardinality(seen[w]) \in Nat /\ Cardinality(RowsToInsert(w)) \in Nat
         /\ NewCount(w) \in Nat
<1>1. RowsToInsert(w) \subseteq Pairs /\ seen[w] \subseteq Pairs
  BY DEF TypeInv, TypeOK, BusyHasImport, RowsToInsert
<1>2. IsFiniteSet(RowsToInsert(w)) /\ IsFiniteSet(seen[w])
  BY <1>1, PairsAssumption, FS_Subset
<1> QED
  BY <1>1, <1>2, FS_CardinalityType DEF NewCount

LEMMA WorkType ==
  ASSUME TypeInv, NEW w \in Workers, Work(w)
  PROVE  TypeInv'
<1> USE BoundsAssumption
<1> USE DEF TypeInv, TypeOK, rowVars, resultVars, workerVars, sweepVars,
        CheckedHasSource, BusyHasImport, SweepHasTarget
<1>1. ASSUME NEW i \in Imports, Take(w, i) PROVE TypeInv'
  BY <1>1 DEF Take, Statuses, Steps
<1>2. CASE Load(w)
  BY <1>2 DEF Load, Steps
<1>3. CASE ReadExisting(w)
  BY <1>3 DEF ReadExisting, Steps
<1>4. CASE Save(w)
  <2>1. /\ RowsToInsert(w) \subseteq Pairs /\ NewCount(w) \in Nat
        /\ job[w] \in Imports
    BY <1>4, NewCountType DEF Save
  <2>2. entryCount' \in Nat /\ entries' \subseteq Pairs
    BY <1>4, <2>1 DEF Save
  <2>3. added' \in [Imports -> SUBSET Pairs]
    BY <1>4, <2>1 DEF Save
  <2>4. overlap' \in BOOLEAN
    BY <1>4, Zenon DEF Save
  <2> QED
    BY <1>4, <2>1, <2>2, <2>3, <2>4 DEF Save, Statuses, Steps
<1>5. CASE Fail(w)
  BY <1>5 DEF Fail, Fault, Steps
<1>6. CASE MarkFailed(w)
  BY <1>6 DEF MarkFailed, FailureStatus, Statuses, Steps
<1>7. CASE CrashWorker(w)
  BY <1>7 DEF CrashWorker, Fault, Steps
<1> QED
  BY <1>1, <1>2, <1>3, <1>4, <1>5, <1>6, <1>7 DEF Work

LEMMA SweepType ==
  ASSUME TypeInv, NEW s \in Sweepers, Sweep(s)
  PROVE  TypeInv'
<1> USE BoundsAssumption
<1> USE DEF TypeInv, TypeOK, rowVars, resultVars, workerVars,
        CheckedHasSource, BusyHasImport, SweepHasTarget
<1>1. CASE SweepCollect(s)
  BY <1>1 DEF SweepCollect, SweepStates
<1>2. CASE SweepRetrySkip(s)
  BY <1>2 DEF SweepRetrySkip, NextRow, SweepStates
<1>3. CASE SweepRetryDone(s)
  BY <1>3 DEF SweepRetryDone, NextRow, SweepStates
<1>4. CASE CrashSweep(s)
  BY <1>4 DEF CrashSweep, NextRow, Fault, SweepStates, Phases
<1>5. ASSUME NEW i \in Imports, SweepPass(s, i) PROVE TypeInv'
  BY <1>5 DEF SweepPass, NextRow, SweepStates
<1>6. ASSUME NEW i \in Imports, SweepMark(s, i) PROVE TypeInv'
  BY <1>6 DEF SweepMark, Statuses, SweepStates
<1>7. ASSUME NEW i \in Imports, SweepRetryCheck(s, i) PROVE TypeInv'
  BY <1>7 DEF SweepRetryCheck, Reserve, SweepStates, Phases
<1> QED
  BY <1>1, <1>2, <1>3, <1>4, <1>5, <1>6, <1>7 DEF Sweep

LEMMA NextType == TypeInv /\ [Next]_vars => TypeInv'
<1> SUFFICES ASSUME TypeInv, [Next]_vars PROVE TypeInv'
  OBVIOUS
<1>1. CASE UNCHANGED vars
  BY <1>1 DEF vars, rowVars, resultVars, workerVars, sweepVars, TypeInv, TypeOK,
     CheckedHasSource, BusyHasImport, SweepHasTarget
<1> QED
  BY <1>1, RequestType, WorkType, SweepType DEF Next

\* Every column and every control state keeps its type: entry_count never
\* becomes negative, a worker never saves without an import (TypeOK).
THEOREM ImportTypeCorrect == Spec => []TypeOK
<1>1. TypeInv => TypeOK
  BY DEF TypeInv
<1> QED
  BY <1>1, InitType, NextType, PTL DEF Spec

--------------------------------------------------------------------------------
(* The content of the source.                                              *)

\* The results change only when a worker saves.
LEMMA OnlySaveChanges ==
  ASSUME [Next]_vars
  PROVE  UNCHANGED resultVars \/ \E w \in Workers : Save(w)
<1>1. ASSUME NEW i \in Imports, Request(i) PROVE UNCHANGED resultVars
  BY <1>1 DEF Request, CreateImport, RetryCheck, RejectRetry, RetryCommit,
     Enqueue, EnqueueFails, AbandonRequest, LoseMessage
<1>2. ASSUME NEW w \in Workers, Work(w) PROVE UNCHANGED resultVars \/ Save(w)
  BY <1>2 DEF Work, Take, Load, ReadExisting, Fail, MarkFailed, CrashWorker
<1>3. ASSUME NEW s \in Sweepers, Sweep(s) PROVE UNCHANGED resultVars
  BY <1>3 DEF Sweep, SweepCollect, SweepRetrySkip, SweepRetryDone, CrashSweep,
     SweepPass, SweepMark, SweepRetryCheck
<1>4. CASE UNCHANGED vars
  BY <1>4 DEF vars
<1> QED
  BY <1>1, <1>2, <1>3, <1>4 DEF Next

\* What a worker knows is old, but not wrong: what it saw is still there.
KnownIsStored == \A w \in Workers :
    /\ step[w] = "saving" => seen[w] \subseteq entries
    /\ step[w] \in {"parsing", "saving"} => loaded[w] <= Cardinality(entries)

\* What the workers know changes when one of them loads or reads, and a worker
\* keeps it until it leaves the step.
KnownSteps(w) ==
    \/ Load(w)
    \/ ReadExisting(w)
    \/ /\ step'[w] \in {"parsing", "saving"} => step'[w] = step[w]
       /\ loaded'[w] = loaded[w] /\ seen'[w] = seen[w]

LEMMA WorkerSteps ==
  ASSUME TypeInv, [Next]_vars, NEW w \in Workers
  PROVE  KnownSteps(w)
<1> USE DEF TypeInv, TypeOK, KnownSteps
<1>1. ASSUME NEW i \in Imports, Request(i) PROVE UNCHANGED workerVars
  BY <1>1 DEF Request, CreateImport, RetryCheck, RejectRetry, RetryCommit,
     Enqueue, EnqueueFails, AbandonRequest, LoseMessage
<1>2. ASSUME NEW s \in Sweepers, Sweep(s) PROVE UNCHANGED workerVars
  BY <1>2 DEF Sweep, SweepCollect, SweepRetrySkip, SweepRetryDone, CrashSweep,
     SweepPass, SweepMark, SweepRetryCheck
<1>3. CASE UNCHANGED workerVars
  BY <1>3 DEF workerVars
<1>4. ASSUME NEW v \in Workers, Work(v) PROVE KnownSteps(w)
  <2>1. CASE Load(v)
    BY <2>1 DEF Load
  <2>2. CASE ReadExisting(v)
    BY <2>2 DEF ReadExisting
  <2>3. ASSUME NEW i \in Imports, Take(v, i) PROVE KnownSteps(w)
    BY <2>3 DEF Take
  <2>4. CASE Save(v)
    BY <2>4 DEF Save
  <2>5. CASE Fail(v)
    BY <2>5 DEF Fail
  <2>6. CASE MarkFailed(v)
    BY <2>6 DEF MarkFailed
  <2>7. CASE CrashWorker(v)
    BY <2>7 DEF CrashWorker
  <2> QED
    BY <1>4, <2>1, <2>2, <2>3, <2>4, <2>5, <2>6, <2>7 DEF Work
<1> QED
  BY <1>1, <1>2, <1>3, <1>4 DEF Next, vars, workerVars

CountInv == KnownIsStored /\ EntryCountNeverOverstates /\ CountIsTrueWithoutOverlap

\* The set sizes a save works with.
LEMMA SavedSizes ==
  ASSUME TypeInv, KnownIsStored, NEW w \in Workers, Save(w)
  PROVE  /\ entries \subseteq entries' /\ IsFiniteSet(entries')
         /\ Cardinality(entries) \in Nat /\ Cardinality(RowsToInsert(w)) \in Nat
         /\ Cardinality(seen[w]) \in Nat
         /\ Cardinality(seen[w]) <= Cardinality(entries)
         /\ Cardinality(entries') = Cardinality(entries) + Cardinality(RowsToInsert(w))
<1>1. IsFiniteSet(entries) /\ seen[w] \subseteq entries
  BY PairsAssumption, FS_Subset DEF TypeInv, TypeOK, KnownIsStored, Save
<1>2. /\ IsFiniteSet(RowsToInsert(w)) /\ Cardinality(RowsToInsert(w)) \in Nat
      /\ Cardinality(seen[w]) \in Nat
  BY NewCountType DEF Save
<1>3. entries \cap RowsToInsert(w) = {}
  BY DEF Save, Conflicts
<1>4. entries' = entries \cup RowsToInsert(w)
  BY DEF Save
<1>5. /\ IsFiniteSet(entries \cup RowsToInsert(w))
      /\ Cardinality(entries \cup RowsToInsert(w))
         = Cardinality(entries) + Cardinality(RowsToInsert(w)) - Cardinality({})
  BY <1>1, <1>2, <1>3, FS_Union
<1>6. Cardinality(entries) \in Nat /\ Cardinality({}) = 0
  BY <1>1, FS_CardinalityType, FS_EmptySet
<1>7. Cardinality(seen[w]) <= Cardinality(entries)
  BY <1>1, FS_Subset
<1> QED
  BY <1>1, <1>2, <1>4, <1>5, <1>6, <1>7

\* The entries only grow.
LEMMA EntriesGrow ==
  ASSUME TypeInv, KnownIsStored, [Next]_vars
  PROVE  /\ entries \subseteq entries'
         /\ Cardinality(entries) \in Nat /\ Cardinality(entries') \in Nat
         /\ Cardinality(entries) <= Cardinality(entries')
<1>1. Cardinality(entries) \in Nat
  BY PairsAssumption, FS_Subset, FS_CardinalityType DEF TypeInv, TypeOK
<1>2. CASE UNCHANGED resultVars
  BY <1>1, <1>2 DEF resultVars
<1>3. ASSUME NEW w \in Workers, Save(w)
      PROVE  /\ entries \subseteq entries' /\ Cardinality(entries') \in Nat
             /\ Cardinality(entries) <= Cardinality(entries')
  BY <1>3, SavedSizes
<1> QED
  BY <1>1, <1>2, <1>3, OnlySaveChanges

LEMMA CountNext == TypeInv /\ CountInv /\ [Next]_vars => CountInv'
<1> SUFFICES ASSUME TypeInv, CountInv, [Next]_vars PROVE CountInv'
  OBVIOUS
<1> USE DEF CountInv
<1>1. /\ entries \subseteq entries'
      /\ Cardinality(entries) \in Nat /\ Cardinality(entries') \in Nat
      /\ Cardinality(entries) <= Cardinality(entries')
  BY EntriesGrow
<1>2. KnownIsStored'
  <2> SUFFICES ASSUME NEW w \in Workers
               PROVE  /\ step'[w] = "saving" => seen'[w] \subseteq entries'
                      /\ step'[w] \in {"parsing", "saving"}
                           => loaded'[w] <= Cardinality(entries')
    BY DEF KnownIsStored
  <2>1. entryCount \in Nat /\ loaded \in [Workers -> Nat]
        /\ seen \in [Workers -> SUBSET Pairs] /\ step \in [Workers -> Steps]
    BY DEF TypeInv, TypeOK
  <2>2. CASE Load(w)
    <3>1. step'[w] = "parsing" /\ loaded'[w] = entryCount
      BY <2>1, <2>2 DEF Load
    <3> QED
      BY <1>1, <2>1, <3>1 DEF EntryCountNeverOverstates
  <2>3. CASE ReadExisting(w)
    <3>1. step[w] = "parsing" /\ loaded'[w] = loaded[w] /\ seen'[w] = entries
      BY <2>1, <2>3 DEF ReadExisting
    <3>2. loaded[w] <= Cardinality(entries) /\ loaded[w] \in Nat
      BY <2>1, <3>1 DEF KnownIsStored
    <3> QED
      BY <1>1, <3>1, <3>2
  <2>4. CASE /\ step'[w] \in {"parsing", "saving"} => step'[w] = step[w]
             /\ loaded'[w] = loaded[w] /\ seen'[w] = seen[w]
    <3>1. loaded[w] \in Nat
      BY <2>1
    <3> QED
      BY <1>1, <2>4, <3>1 DEF KnownIsStored
  <2> QED
    BY <2>2, <2>3, <2>4, WorkerSteps DEF KnownSteps
<1>3. CASE UNCHANGED resultVars
  BY <1>2, <1>3 DEF resultVars, EntryCountNeverOverstates, CountIsTrueWithoutOverlap
<1>4. ASSUME NEW w \in Workers, Save(w)
      PROVE  EntryCountNeverOverstates' /\ CountIsTrueWithoutOverlap'
  <2>1. /\ Cardinality(entries) \in Nat /\ Cardinality(RowsToInsert(w)) \in Nat
        /\ Cardinality(seen[w]) \in Nat
        /\ Cardinality(seen[w]) <= Cardinality(entries)
        /\ Cardinality(entries') = Cardinality(entries) + Cardinality(RowsToInsert(w))
    BY <1>4, SavedSizes
  <2>2. /\ entryCount \in Nat /\ loaded[w] \in Nat
        /\ loaded[w] <= Cardinality(entries) /\ entryCount <= Cardinality(entries)
    BY <1>4 DEF TypeInv, TypeOK, Save, KnownIsStored, EntryCountNeverOverstates
  <2>3. \/ NewCount(w) = loaded[w] /\ entryCount' = entryCount
        \/ NewCount(w) # loaded[w] /\ entryCount' = NewCount(w)
    BY <1>4 DEF Save
  <2>4. NewCount(w) = Cardinality(seen[w]) + Cardinality(RowsToInsert(w))
    BY DEF NewCount
  <2>5. EntryCountNeverOverstates'
    BY <2>1, <2>2, <2>3, <2>4 DEF EntryCountNeverOverstates
  <2>6. ASSUME ~overlap' PROVE ~overlap /\ seen[w] = entries
    BY <1>4, <2>6 DEF Save
  <2>7. ASSUME ~overlap' PROVE entryCount' = Cardinality(entries')
    <3>1. entryCount = Cardinality(entries) /\ Cardinality(seen[w]) = Cardinality(entries)
      BY <2>6, <2>7 DEF CountIsTrueWithoutOverlap
    <3> QED
      BY <2>1, <2>2, <2>3, <2>4, <3>1
  <2> QED
    BY <2>5, <2>7 DEF CountIsTrueWithoutOverlap
<1> QED
  BY <1>2, <1>3, <1>4, OnlySaveChanges

LEMMA CountInit == Init => CountInv
  BY FS_EmptySet DEF Init, CountInv, KnownIsStored, EntryCountNeverOverstates,
     CountIsTrueWithoutOverlap

\* entry_count never exceeds the number of entries, and is that number until
\* two imports overlap between reading existing_pairs and saving.
THEOREM EntryCountIsRight == Spec => []EntryCountAgrees
<1>1. CountInv => EntryCountAgrees
  BY DEF CountInv, EntryCountAgrees
<1> QED
  BY <1>1, InitType, NextType, CountInit, CountNext, PTL DEF Spec

--------------------------------------------------------------------------------
(* A completed import is stored.                                           *)

\* A row that stays or becomes completed without a save keeps its file.
LEMMA OnlySaveCompletes ==
  ASSUME TypeInv, [Next]_vars, NEW i \in Imports, status'[i] = "completed"
  PROVE  \/ status[i] = "completed" /\ file'[i] = file[i]
         \/ \E w \in Workers : Save(w) /\ job[w] = i
<1> USE DEF TypeInv, TypeOK, rowVars
<1>1. ASSUME NEW k \in Imports, Request(k)
      PROVE  status[i] = "completed" /\ file'[i] = file[i]
  BY <1>1 DEF Request, CreateImport, RetryCheck, RejectRetry, RetryCommit,
     Enqueue, EnqueueFails, AbandonRequest, LoseMessage
<1>2. ASSUME NEW w \in Workers, Work(w), ~Save(w)
      PROVE  status[i] = "completed" /\ file'[i] = file[i]
  BY <1>2 DEF Work, Take, Load, ReadExisting, Fail, MarkFailed, FailureStatus,
     CrashWorker
<1>3. ASSUME NEW s \in Sweepers, Sweep(s)
      PROVE  status[i] = "completed" /\ file'[i] = file[i]
  BY <1>3 DEF Sweep, SweepCollect, SweepRetrySkip, SweepRetryDone, CrashSweep,
     SweepPass, SweepMark, SweepRetryCheck
<1>4. ASSUME NEW w \in Workers, Save(w), job[w] # i
      PROVE  status[i] = "completed" /\ file'[i] = file[i]
  BY <1>4 DEF Save
<1>5. CASE UNCHANGED vars
  BY <1>5 DEF vars
<1> QED
  BY <1>1, <1>2, <1>3, <1>4, <1>5 DEF Next

LEMMA StoredNext ==
  TypeInv /\ CountInv /\ CompletedImportIsStored /\ [Next]_vars
     => CompletedImportIsStored'
<1> SUFFICES ASSUME TypeInv, CountInv, CompletedImportIsStored, [Next]_vars,
                    NEW i \in Imports, status'[i] = "completed"
             PROVE  file'[i] \subseteq entries'
  BY DEF CompletedImportIsStored
<1>1. entries \subseteq entries'
  BY EntriesGrow DEF CountInv
<1>2. CASE status[i] = "completed" /\ file'[i] = file[i]
  BY <1>1, <1>2 DEF CompletedImportIsStored
<1>3. ASSUME NEW w \in Workers, Save(w), job[w] = i PROVE file'[i] \subseteq entries'
  <2>1. seen[w] \subseteq entries
    BY <1>3 DEF CountInv, KnownIsStored, Save
  <2>2. entries' = entries \cup (file[i] \ seen[w]) /\ file' = file
    BY <1>3 DEF Save, RowsToInsert
  <2> QED
    BY <2>1, <2>2
<1> QED
  BY <1>2, <1>3, OnlySaveCompletes

\* Every pair of a completed import's file is in the source.
THEOREM CompletedImportsAreStored == Spec => []CompletedImportIsStored
<1>1. Init => CompletedImportIsStored
  BY DEF Init, CompletedImportIsStored
<1> QED
  BY <1>1, InitType, NextType, CountInit, CountNext, StoredNext, PTL DEF Spec

--------------------------------------------------------------------------------
(* An entry has one import that inserted it.                               *)

Runs(w, i) == step[w] # "idle" /\ job[w] = i

\* An import is delivered once, and run by one worker at a time; until it is
\* saved it has inserted nothing.
NotInserted == \A i \in Imports :
    phase[i] # "done" \/ i \in broker \/ (\E w \in Workers : Runs(w, i)) => added[i] = {}
NotSentYet == \A i \in Imports : phase[i] # "done" => i \notin broker
NotTakenYet == \A i \in Imports : phase[i] # "done" \/ i \in broker
                                    => \A w \in Workers : ~Runs(w, i)
OneWorker == \A w, v \in Workers : step[w] # "idle" /\ step[v] # "idle" /\ job[w] = job[v]
                                    => w = v

OnceInv == NotInserted /\ NotSentYet /\ NotTakenYet /\ OneWorker

\* Requests and sweeps move the rows between requests and broker only.
LEMMA RequestOnce ==
  ASSUME TypeInv, OnceInv, NEW i \in Imports, Request(i)
  PROVE  OnceInv'
<1> USE DEF TypeInv, TypeOK, resultVars, workerVars, OnceInv, NotInserted, NotSentYet,
            NotTakenYet, OneWorker, Runs
<1>1. ASSUME NEW f \in Files, CreateImport(i, f) PROVE OnceInv'
  BY <1>1 DEF CreateImport
<1>2. ASSUME NEW j \in Imports, RetryCheck(j, i) PROVE OnceInv'
  BY <1>2 DEF RetryCheck, Reserve
<1>3. CASE RejectRetry(i)
  BY <1>3 DEF RejectRetry
<1>4. CASE RetryCommit(i)
  BY <1>4 DEF RetryCommit
<1>5. CASE Enqueue(i)
  BY <1>5 DEF Enqueue
<1>6. CASE EnqueueFails(i)
  BY <1>6 DEF EnqueueFails
<1>7. CASE AbandonRequest(i)
  BY <1>7 DEF AbandonRequest
<1>8. CASE LoseMessage(i)
  BY <1>8 DEF LoseMessage, rowVars
<1> QED
  BY <1>1, <1>2, <1>3, <1>4, <1>5, <1>6, <1>7, <1>8 DEF Request

LEMMA SweepOnce ==
  ASSUME TypeInv, OnceInv, NEW s \in Sweepers, Sweep(s)
  PROVE  OnceInv'
<1> USE DEF TypeInv, TypeOK, rowVars, resultVars, workerVars, OnceInv, NotInserted,
            NotSentYet, NotTakenYet, OneWorker, Runs
<1>1. CASE SweepCollect(s)
  BY <1>1 DEF SweepCollect
<1>2. CASE SweepRetrySkip(s)
  BY <1>2 DEF SweepRetrySkip
<1>3. CASE SweepRetryDone(s)
  BY <1>3 DEF SweepRetryDone
<1>4. CASE CrashSweep(s)
  BY <1>4 DEF CrashSweep
<1>5. ASSUME NEW i \in Imports, SweepPass(s, i) PROVE OnceInv'
  BY <1>5 DEF SweepPass
<1>6. ASSUME NEW i \in Imports, SweepMark(s, i) PROVE OnceInv'
  BY <1>6 DEF SweepMark
<1>7. ASSUME NEW i \in Imports, SweepRetryCheck(s, i) PROVE OnceInv'
  BY <1>7 DEF SweepRetryCheck, Reserve
<1> QED
  BY <1>1, <1>2, <1>3, <1>4, <1>5, <1>6, <1>7 DEF Sweep

LEMMA WorkOnce ==
  ASSUME TypeInv, OnceInv, NEW w \in Workers, Work(w)
  PROVE  OnceInv'
<1> USE DEF TypeInv, TypeOK, rowVars, BusyHasImport, OnceInv, NotInserted, NotSentYet,
            NotTakenYet, OneWorker, Runs
<1>1. ASSUME NEW i \in Imports, Take(w, i) PROVE OnceInv'
  BY <1>1 DEF Take, resultVars
<1>2. CASE Load(w)
  BY <1>2 DEF Load, resultVars
<1>3. CASE ReadExisting(w)
  BY <1>3 DEF ReadExisting, resultVars
<1>4. CASE Save(w)
  BY <1>4 DEF Save
<1>5. CASE Fail(w)
  BY <1>5 DEF Fail, resultVars
<1>6. CASE MarkFailed(w)
  BY <1>6 DEF MarkFailed, resultVars
<1>7. CASE CrashWorker(w)
  BY <1>7 DEF CrashWorker, resultVars
<1> QED
  BY <1>1, <1>2, <1>3, <1>4, <1>5, <1>6, <1>7 DEF Work

LEMMA OnceNext == TypeInv /\ OnceInv /\ [Next]_vars => OnceInv'
<1> SUFFICES ASSUME TypeInv, OnceInv, [Next]_vars PROVE OnceInv'
  OBVIOUS
<1>1. CASE UNCHANGED vars
  BY <1>1 DEF vars, rowVars, resultVars, workerVars, OnceInv, NotInserted,
     NotSentYet, NotTakenYet, OneWorker, Runs
<1> QED
  BY <1>1, RequestOnce, WorkOnce, SweepOnce DEF Next

\* A save adds to the entries exactly what it inserts, and nobody inserted that.
LEMMA InsertedNext ==
  TypeInv /\ OnceInv /\ EntriesImportedOnce /\ [Next]_vars => EntriesImportedOnce'
<1> SUFFICES ASSUME TypeInv, OnceInv, EntriesImportedOnce, [Next]_vars
             PROVE  EntriesImportedOnce'
  OBVIOUS
<1>1. CASE UNCHANGED resultVars
  BY <1>1 DEF resultVars, EntriesImportedOnce
<1>2. ASSUME NEW w \in Workers, Save(w) PROVE EntriesImportedOnce'
  <2> DEFINE i == job[w]
             rows == RowsToInsert(w)
  <2>1. i \in Imports /\ added[i] = {}
    BY <1>2 DEF TypeInv, BusyHasImport, OnceInv, NotInserted, Runs, Save
  <2>2. rows \cap entries = {} /\ entries' = entries \cup rows
    BY <1>2 DEF Save, Conflicts
  <2>3. /\ added'[i] = rows
        /\ \A k \in Imports \ {i} : added'[k] = added[k]
    BY <1>2, <2>1 DEF Save, TypeInv, TypeOK
  <2>4. \A k \in Imports : added[k] \subseteq entries
    BY DEF EntriesImportedOnce
  <2> HIDE DEF i, rows
  <2>5. entries' = UNION {added'[k] : k \in Imports}
    <3>1. \A p \in entries' : \E k \in Imports : p \in added'[k]
      <4> SUFFICES ASSUME NEW p \in entries' PROVE \E k \in Imports : p \in added'[k]
        OBVIOUS
      <4>1. CASE p \in rows
        BY <2>1, <2>3, <4>1
      <4>2. CASE p \in entries
        <5>1. PICK k \in Imports : p \in added[k]
          BY <4>2 DEF EntriesImportedOnce
        <5>2. k # i
          BY <2>1, <5>1
        <5> QED
          BY <2>3, <5>1, <5>2
      <4> QED
        BY <2>2, <4>1, <4>2
    <3>2. \A k \in Imports : added'[k] \subseteq entries'
      BY <2>1, <2>2, <2>3, <2>4
    <3> QED
      BY <3>1, <3>2
  <2>6. ASSUME NEW k \in Imports, NEW l \in Imports, k # l
        PROVE  added'[k] \cap added'[l] = {}
    <3>1. added[k] \cap added[l] = {}
      BY <2>6 DEF EntriesImportedOnce
    <3> QED
      BY <2>2, <2>3, <2>4, <2>6, <3>1
  <2> QED
    BY <2>5, <2>6 DEF EntriesImportedOnce
<1> QED
  BY <1>1, <1>2, OnlySaveChanges

\* Every entry was inserted by exactly one import, although workers overlap and
\* swept imports go on while they are retried.
THEOREM EntriesAreImportedOnce == Spec => []EntriesImportedOnce
<1>1. Init => OnceInv
  BY DEF Init, OnceInv, NotInserted, NotSentYet, NotTakenYet, OneWorker, Runs
<1>2. Init => EntriesImportedOnce
  BY DEF Init, EntriesImportedOnce
<1> QED
  BY <1>1, <1>2, InitType, NextType, OnceNext, InsertedNext, PTL DEF Spec

--------------------------------------------------------------------------------
(* TrustedLookup.                                                          *)
(***************************************************************************)
(* Types.                                                                  *)
(***************************************************************************)
JobStatuses == {"queued", "running", "completed", "failed"}
WordSteps   == {"local", "fetch", "answered"}
Rows        == [at : Nat \ {0}, answer : Answers, lasting : BOOLEAN]

Between == [step : {"between"}, job : Nat, todo : SUBSET Words]
Working == [step : WordSteps, job : Nat, todo : SUBSET Words, word : Words,
            key : Words, began : Nat, found : BOOLEAN]

ShapeInv ==
    /\ corpus \subseteq Words /\ disturbed \subseteq Words
    /\ cache \in [Words -> SUBSET Rows] /\ expired \in Nat
    /\ jobs \in Seq(JobStatuses) /\ messages \in Seq({0, 1})
    /\ Len(messages) = Len(jobs)
    /\ asking = [t \in Threads |-> asking[t]]
    /\ \A t \in Threads : asking[t].step \in {"idle", "checked"}
    /\ task \in [LookupWorkers -> {Idle} \cup Between \cup Working]

(***************************************************************************)
(* Dates.  Every transaction is dated after all rows and all transactions  *)
(* there are, so no two rows about a word have the same date.              *)
(***************************************************************************)
Begans(S) == {task[w].began : w \in {v \in S : HasWord(v)}}
RowDates  == {row.at : row \in UNION {cache[x] : x \in Words}}
Dates     == RowDates \cup Begans(LookupWorkers)

DateInv ==
    /\ \E b \in Nat : \A d \in Dates : d <= b
    /\ \A w \in LookupWorkers : HasWord(w) => /\ task[w].began > expired
                                              /\ task[w].began \notin RowDates
                                              /\ task[w].began \notin Begans(LookupWorkers \ {w})
    /\ expired = 0 \/ \E d \in RowDates : expired <= d
    /\ \A x \in Words : \A row, other \in cache[x] :
          /\ row.lasting => row.answer = "found"
          /\ row.at = other.at => row = other

(***************************************************************************)
(* Lookups.  While a word is looked up and nobody else looks up what it    *)
(* concerns, the rows about that are earlier than the lookup's date.       *)
(***************************************************************************)
\* The words whose rows a row about y is compared with.
Judges(y) == {y} \cup {x \in Words : Lemma[x] = y /\ ~IsLemma(x)}

Earlier(x, date) == \A row \in cache[x] : row.at < date

LookupInv(w) ==
    HasWord(w) =>
        /\ task[w].word \in task[w].todo
        /\ task[w].key \in Concerns(task[w].word)
        /\ task[w].step = "local" => task[w].key = task[w].word
        /\ \A y \in Concerns(task[w].word) \ disturbed :
              \A x \in Judges(y) : Earlier(x, task[w].began)
        /\ task[w].step = "fetch" =>
              /\ task[w].key \notin disturbed => ~HasAnswer(task[w].key)
              /\ task[w].key \in corpus => IsLemma(task[w].key)

OverlapsAreNoted ==
    \A v \in LookupWorkers : \A w \in LookupWorkers \ {v} :
        HasWord(v) /\ HasWord(w) =>
            Concerns(task[v].word) \cap Concerns(task[w].word) \subseteq disturbed

LastingIsLatest(x)    == (\E row \in cache[x] : row.lasting) => LatestRow(x).lasting
FoundIsLatest(x) ==
    (\E row \in cache[x] : row.answer = "found" /\ Fresh(row))
    => Fresh(LatestRow(x)) /\ LatestRow(x).answer = "found"

\* x was looked up in vain although its lemma had been found.
Missed(x) == /\ Lemma[x] # NoLemma /\ Shown(x) = "not_found"
             /\ Shown(Lemma[x]) = "found"
             /\ LatestRow(Lemma[x]).at < LatestRow(x).at

\* Somebody will store for x what was found for its lemma.
Assisted(x) == \E w \in LookupWorkers : /\ HasWord(w) /\ task[w].word = x
                                        /\ task[w].step = "answered"
                                        /\ task[w].key = x \/ task[w].found

HistoryInv ==
    /\ \A x \in Words \ disturbed : LastingIsLatest(x) /\ FoundIsLatest(x)
    /\ \A x \in Words \ disturbed :
          ~IsLemma(x) /\ Missed(x) /\ Lemma[x] \notin disturbed => Assisted(x)
    /\ \A x \in corpus : \A row \in cache[x] : row.answer # "found" => IsLemma(x)

IInv == /\ ShapeInv /\ DateInv /\ OverlapsAreNoted /\ HistoryInv
        /\ \A w \in LookupWorkers : LookupInv(w)

LEMMA LeastNumber ==
  ASSUME NEW S, S \subseteq Nat, S # {}
  PROVE  \E m \in S : \A j \in S : m <= j
<1>1. PICK m \in S : \A j \in S : <<j, m>> \notin OpToRel(<, Nat)
  BY NatLessThanWellFounded, WFMin
<1>2. \A j \in S : j \in Nat /\ m \in Nat /\ ~(j < m)
  BY <1>1 DEF OpToRel
<1> QED
  BY <1>2

\* Of dates up to some date, one is the latest.
LEMMA LatestDate ==
  ASSUME NEW S, S \subseteq Nat, S # {}, NEW b \in Nat, \A d \in S : d <= b
  PROVE  Max(S) \in S /\ \A d \in S : d <= Max(S)
<1> DEFINE U == {u \in Nat : \A d \in S : d <= u}
<1>1. PICK m \in U : \A u \in U : m <= u
  <2>1. U \subseteq Nat /\ b \in U
    OBVIOUS
  <2> HIDE DEF U
  <2> QED
    BY <2>1, LeastNumber
<1>2. m \in S
  <2> SUFFICES ASSUME m \notin S PROVE FALSE
    OBVIOUS
  <2>1. \A d \in S : d \in Nat /\ d < m
    <3>1. \A d \in S : d <= m /\ d \in Nat /\ m \in Nat /\ d # m
      BY <1>1
    <3> QED
      BY <3>1
  <2>2. m - 1 \in Nat /\ \A d \in S : d <= m - 1
    <3>1. \E d \in S : d \in Nat /\ d < m
      BY <2>1
    <3> QED
      BY <1>1, <2>1, <3>1
  <2>3. m - 1 \in U
    BY <2>2
  <2> QED
    BY <1>1, <2>3
<1>3. \E x \in S : \A y \in S : x >= y
  BY <1>1, <1>2
<1>4. Max(S) \in S /\ \A y \in S : Max(S) >= y
  BY <1>3 DEF Max
<1>5. \A y \in S : y \in Nat /\ Max(S) \in Nat
  BY <1>4
<1> QED
  BY <1>4, <1>5

LEMMA WordTask ==
  ASSUME ShapeInv, NEW w \in LookupWorkers, HasWord(w)
  PROVE  task[w] \in Working
BY DEF ShapeInv, HasWord, Between, Idle

LEMMA DatesAreNumbers ==
  ASSUME ShapeInv
  PROVE  /\ RowDates \subseteq Nat /\ Dates \subseteq Nat
         /\ \A x \in Words : \A row \in cache[x] : row \in Rows /\ row.at \in RowDates
<1>1. ASSUME NEW x \in Words, NEW row \in cache[x]
      PROVE  row \in Rows /\ row.at \in RowDates /\ row.at \in Nat
  BY DEF ShapeInv, RowDates, Rows
<1>2. RowDates \subseteq Nat
  BY <1>1 DEF RowDates
<1>3. ASSUME NEW w \in LookupWorkers, HasWord(w) PROVE task[w].began \in Nat
  BY <1>3, WordTask DEF Working
<1> QED
  BY <1>1, <1>2, <1>3 DEF Dates, Begans

LEMMA NextDateIsLater ==
  ASSUME ShapeInv, DateInv
  PROVE  /\ NextDate \in Nat \ {0}
         /\ \A d \in Dates : d < NextDate
         /\ NextDate - 1 \in {0} \cup Dates
         /\ expired < NextDate
<1> DEFINE S == {0} \cup Dates
<1>1. NextDate = 1 + Max(S)
  BY DEF NextDate, Dates, RowDates, Begans
<1>2. S \subseteq Nat /\ Dates \subseteq Nat /\ RowDates \subseteq Nat
  BY DatesAreNumbers
<1>3. PICK b \in Nat : \A d \in S : d <= b
  <2>1. PICK b \in Nat : \A d \in Dates : d <= b
    BY DEF DateInv
  <2>2. \A d \in S : d <= b
    BY <2>1
  <2> QED
    BY <2>2
<1>4. Max(S) \in S /\ \A d \in S : d <= Max(S)
  <2>1. S # {}
    OBVIOUS
  <2> HIDE DEF S
  <2> QED
    BY <1>2, <1>3, <2>1, LatestDate
<1>5. \A d \in Dates : d \in S
  OBVIOUS
<1>6. expired = 0 \/ \E d \in S : expired <= d
  BY DEF DateInv, Dates
<1>7. 0 \in S /\ expired \in Nat
  BY DEF ShapeInv
<1> HIDE DEF S
<1>11. PICK m \in Nat : NextDate = 1 + m /\ m \in S /\ \A d \in S : d <= m
  BY <1>1, <1>2, <1>4
<1>12. \A d \in S : d \in Nat
  BY <1>2
<1>8. NextDate \in Nat \ {0} /\ \A d \in S : d < NextDate
  BY <1>11, <1>12
<1>9. expired < NextDate
  BY <1>6, <1>7, <1>8, <1>12
<1>10. NextDate - 1 \in S
  BY <1>11
<1> QED
  BY <1>5, <1>8, <1>9, <1>10 DEF S

(* The row that is shown.                                                  *)
LEMMA LatestRowIsThere ==
  ASSUME ShapeInv, DateInv, NEW x \in Words, cache[x] # {}
  PROVE  /\ LatestRow(x) \in cache[x]
         /\ \A row \in cache[x] : row.at <= LatestRow(x).at
<1> DEFINE S == {row.at : row \in cache[x]}
<1>1. S \subseteq RowDates /\ S # {} /\ RowDates \subseteq Nat
  BY DatesAreNumbers
<1>2. PICK b \in Nat : \A d \in S : d <= b
  BY <1>1 DEF DateInv, Dates
<1>3. Max(S) \in S /\ \A d \in S : d <= Max(S)
  <2> HIDE DEF S
  <2> QED
    BY <1>1, <1>2, LatestDate
<1>4. \E row \in cache[x] : \A other \in cache[x] : other.at <= row.at
  BY <1>3
<1> QED
  BY <1>4, Zenon DEF LatestRow

LEMMA NewRowIsLatest ==
  ASSUME NEW x, NEW r, cache'[x] = cache[x] \cup {r}, r.at \in Nat,
         \A row \in cache[x] : row.at \in Nat /\ row.at < r.at
  PROVE  LatestRow(x)' = r
<1>1. \A other \in cache'[x] : other.at <= r.at
  OBVIOUS
<1>2. ASSUME NEW row \in cache'[x], \A other \in cache'[x] : other.at <= row.at
      PROVE  row = r
  BY <1>2
<1>3. r \in cache'[x]
  OBVIOUS
<1> QED
  BY <1>1, <1>2, <1>3 DEF LatestRow

LEMMA SameRows ==
  ASSUME NEW x, cache'[x] = cache[x], expired' = expired
  PROVE  /\ LatestRow(x)' = LatestRow(x) /\ HasAnswer(x)' = HasAnswer(x)
         /\ Shown(x)' = Shown(x)
         /\ LastingIsLatest(x) => LastingIsLatest(x)'
         /\ FoundIsLatest(x) => FoundIsLatest(x)'
<1>1. LatestRow(x)' = LatestRow(x)
  BY DEF LatestRow
<1>2. HasAnswer(x)' = HasAnswer(x)
  BY <1>1 DEF HasAnswer, Fresh
<1>3. Shown(x)' = Shown(x)
  BY <1>1, <1>2 DEF Shown
<1>4. LastingIsLatest(x) => LastingIsLatest(x)'
  BY <1>1 DEF LastingIsLatest
<1>5. FoundIsLatest(x) => FoundIsLatest(x)'
  BY <1>1 DEF FoundIsLatest, Fresh
<1> QED
  BY <1>1, <1>2, <1>3, <1>4, <1>5

LEMMA ShownIs ==
  ASSUME ShapeInv, DateInv, NEW x \in Words
  PROVE  /\ Shown(x) = "found" <=> HasAnswer(x) /\ LatestRow(x).answer = "found"
         /\ Shown(x) = "not_found" <=> HasAnswer(x) /\ LatestRow(x).answer = "nothing"
         /\ Shown(x) = "unavailable" <=> HasAnswer(x) /\ LatestRow(x).answer = "failed"
         /\ HasAnswer(x) => /\ LatestRow(x) \in cache[x] /\ cache[x] # {}
                            /\ LatestRow(x).answer \in Answers
<1>1. HasAnswer(x) => LatestRow(x) \in cache[x] /\ cache[x] # {}
  BY LatestRowIsThere DEF HasAnswer
<1>2. HasAnswer(x) => LatestRow(x).answer \in Answers
  BY <1>1, DatesAreNumbers DEF Rows
<1>3. CASE ~HasAnswer(x)
  BY <1>3 DEF Shown
<1>4. CASE HasAnswer(x)
  BY <1>1, <1>2, <1>4 DEF Shown, Answers
<1> QED
  BY <1>1, <1>2, <1>3, <1>4

(* Types are kept.                                                         *)
LEMMA ConcernsAreWords ==
  ASSUME NEW x \in Words
  PROVE  /\ Concerns(x) \subseteq Words /\ x \in Concerns(x)
         /\ NoLemma \notin Words
         /\ Lemma[x] # NoLemma => Lemma[x] \in Words
BY LemmaAssumption DEF Concerns

LEMMA InitShape == LookupInit => ShapeInv
<1> SUFFICES ASSUME LookupInit PROVE ShapeInv
  OBVIOUS
<1>1. jobs \in Seq(JobStatuses) /\ messages \in Seq({0, 1}) /\ Len(messages) = Len(jobs)
  BY DEF LookupInit
<1> QED
  BY <1>1 DEF LookupInit, ShapeInv, Idle

LEMMA RequestShape ==
  ASSUME ShapeInv, NEW t \in Threads,
         CheckRun(t) \/ (InsertRun(t) /\ (EnqueueRun \/ EnqueueRunFails))
  PROVE  ShapeInv'
<1>1. CASE CheckRun(t)
  <2>1. UNCHANGED <<corpus, cache, expired, jobs, messages, task, disturbed>>
    BY <1>1 DEF CheckRun
  <2>2. \E j : asking' = [asking EXCEPT ![t] = [step |-> "checked", job |-> j]]
    BY <1>1 DEF CheckRun
  <2> QED
    BY <2>1, <2>2 DEF ShapeInv
<1>2. CASE InsertRun(t) /\ (EnqueueRun \/ EnqueueRunFails)
  <2>1. /\ UNCHANGED <<corpus, cache, expired, task, disturbed>>
        /\ asking' = [asking EXCEPT ![t] = Idle]
    BY <1>2 DEF InsertRun
  <2>2. /\ jobs \in Seq(JobStatuses) /\ messages \in Seq({0, 1})
        /\ Len(messages) = Len(jobs) /\ Len(jobs) \in Nat
    BY DEF ShapeInv
  <2>3. PICK m \in {0, 1} : messages' = Append(messages, m)
    BY <1>2 DEF EnqueueRun, EnqueueRunFails
  <2> DEFINE old == [i \in DOMAIN jobs |-> IF i = asking[t].job THEN "failed" ELSE jobs[i]]
  <2>4. jobs' = Append(old, "queued")
    BY <1>2 DEF InsertRun
  <2>5. old \in Seq(JobStatuses) /\ Len(old) = Len(jobs)
    <3>1. /\ DOMAIN jobs = 1..Len(jobs)
          /\ \A i \in DOMAIN jobs : jobs[i] \in JobStatuses
      BY <2>2
    <3>2. old \in [1..Len(jobs) -> JobStatuses]
      BY <3>1 DEF JobStatuses
    <3> HIDE DEF old
    <3> QED
      BY <2>2, <3>2
  <2> HIDE DEF old
  <2>6. "queued" \in JobStatuses
    BY DEF JobStatuses
  <2>7. jobs' \in Seq(JobStatuses) /\ Len(jobs') = Len(jobs) + 1
    BY <2>2, <2>4, <2>5, <2>6
  <2>8. messages' \in Seq({0, 1}) /\ Len(messages') = Len(messages) + 1
    BY <2>2, <2>3
  <2> QED
    BY <2>1, <2>2, <2>7, <2>8 DEF ShapeInv, Idle
<1> QED
  BY <1>1, <1>2

\* A step of a worker, or of the sweep, that keeps the types of what it changes.
LEMMA WorkerShape ==
  ASSUME ShapeInv, UNCHANGED <<corpus, asking>>, disturbed' \subseteq Words,
         cache' \in [Words -> SUBSET Rows], expired' \in Nat,
         jobs' = jobs \/ \E i \in DOMAIN jobs, s \in JobStatuses : jobs' = [jobs EXCEPT ![i] = s],
         messages' = messages \/ \E i \in DOMAIN messages : messages' = [messages EXCEPT ![i] = 0],
         task' = task \/ \E w \in LookupWorkers, v \in {Idle} \cup Between \cup Working :
                            task' = [task EXCEPT ![w] = v]
  PROVE  ShapeInv'
<1>0. jobs \in Seq(JobStatuses)
  BY DEF ShapeInv
<1>1. jobs' \in Seq(JobStatuses) /\ Len(jobs') = Len(jobs)
  <2>1. CASE jobs' = jobs
    BY <1>0, <2>1
  <2>2. ASSUME NEW i \in DOMAIN jobs, NEW s \in JobStatuses, jobs' = [jobs EXCEPT ![i] = s]
        PROVE  jobs' \in Seq(JobStatuses) /\ Len(jobs') = Len(jobs)
    BY <1>0, <2>2
  <2> QED
    BY <2>1, <2>2
<1>2. messages' \in Seq({0, 1}) /\ Len(messages') = Len(messages)
  BY DEF ShapeInv
<1>3. task' \in [LookupWorkers -> {Idle} \cup Between \cup Working]
  BY DEF ShapeInv
<1> QED
  BY <1>1, <1>2, <1>3 DEF ShapeInv

LEMMA StoreShape ==
  ASSUME ShapeInv, DateInv, NEW w \in LookupWorkers, HasWord(w), NEW x \in Words,
         NEW answer \in Answers, NEW lasting \in BOOLEAN, Store(w, x, answer, lasting)
  PROVE  cache' \in [Words -> SUBSET Rows]
<1> DEFINE r == [at |-> task[w].began, answer |-> answer, lasting |-> lasting]
<1>1. task[w].began \in Nat /\ task[w].began > expired /\ expired \in Nat
  BY WordTask DEF Working, DateInv, ShapeInv
<1>2. r \in Rows
  BY <1>1 DEF Rows
<1>3. cache' = [cache EXCEPT ![x] = @ \cup {r}]
  BY DEF Store
<1> HIDE DEF r
<1> QED
  BY <1>2, <1>3 DEF ShapeInv

LEMMA AskIsStep == \A x : Ask(x) \in WordSteps
BY DEF Ask, WordSteps

LEMMA RestIsBetween ==
  ASSUME ShapeInv, NEW w \in LookupWorkers, HasWord(w)
  PROVE  Rest(w) \in Between
BY WordTask DEF Rest, Between, Working

LEMMA LookUpShape ==
  ASSUME ShapeInv, DateInv, NEW w \in LookupWorkers, LookupInv(w), LookUp(w)
  PROVE  ShapeInv'
<1>0. disturbed \subseteq Words /\ cache \in [Words -> SUBSET Rows] /\ expired \in Nat
      /\ task \in [LookupWorkers -> {Idle} \cup Between \cup Working]
  BY DEF ShapeInv
<1>1. CASE OpenWord(w)
  <2>1. task[w] \in Between
    BY <1>0, <1>1 DEF OpenWord, Idle, Working, WordSteps
  <2>2. PICK x \in task[w].todo :
          /\ task' = [task EXCEPT ![w] =
                 [step |-> IF x \in corpus THEN "local" ELSE Ask(x), job |-> @.job,
                  todo |-> @.todo, word |-> x, key |-> x, began |-> NextDate,
                  found |-> FALSE]]
          /\ disturbed' = disturbed \cup
                 (Concerns(x) \cap UNION {Concerns(task[u].word) :
                                              u \in {v \in LookupWorkers : HasWord(v)}})
    BY <1>1 DEF OpenWord
  <2>3. x \in Words /\ task[w].job \in Nat /\ task[w].todo \subseteq Words
    BY <2>1 DEF Between
  <2>4. Concerns(x) \subseteq Words /\ NextDate \in Nat
    BY <2>3, ConcernsAreWords, NextDateIsLater
  <2> DEFINE v == [step |-> IF x \in corpus THEN "local" ELSE Ask(x), job |-> task[w].job,
                   todo |-> task[w].todo, word |-> x, key |-> x, began |-> NextDate,
                   found |-> FALSE]
  <2>5. v \in Working
    BY <2>3, <2>4, AskIsStep DEF Working, WordSteps
  <2>6. task' = [task EXCEPT ![w] = v]
    BY <1>0, <2>2
  <2> HIDE DEF v
  <2>7. UNCHANGED <<corpus, asking, cache, expired, jobs, messages>> /\ disturbed' \subseteq Words
    BY <1>0, <1>1, <2>2, <2>4 DEF OpenWord
  <2> QED
    BY <1>0, <2>5, <2>6, <2>7, WorkerShape
<1> SUFFICES ASSUME HasWord(w) PROVE ShapeInv'
  BY <1>1 DEF LookUp, HasWord, StoreLocal, Fetch, FetchIsNotStored, FallBack,
     AsksLemma, EndWord
<1>2. /\ task[w] \in Working /\ task[w].word \in Words /\ task[w].key \in Words
      /\ NextDate \in Nat /\ Rest(w) \in Between
  BY WordTask, NextDateIsLater, RestIsBetween DEF Working
<1>3. CASE StoreLocal(w)
  <2>1. /\ Store(w, task[w].word, "found", TRUE)
        /\ task' = [task EXCEPT ![w] = Rest(w)]
        /\ UNCHANGED <<corpus, asking, expired, jobs, messages, disturbed>>
    BY <1>3 DEF StoreLocal
  <2>2. cache' \in [Words -> SUBSET Rows]
    BY <1>2, <2>1, StoreShape DEF Answers
  <2> QED
    BY <1>0, <1>2, <2>1, <2>2, WorkerShape
<1>4. ASSUME NEW answer \in Answers,
             task' = [task EXCEPT ![w].step = "answered", ![w].began = NextDate,
                                  ![w].found = LemmaFound(w, answer)]
      PROVE  \E v \in Working : task' = [task EXCEPT ![w] = v]
  <2> DEFINE v == [task[w] EXCEPT !.step = "answered", !.began = NextDate,
                                  !.found = LemmaFound(w, answer)]
  <2>1. LemmaFound(w, answer) \in BOOLEAN
    BY DEF LemmaFound
  <2>2. v \in Working
    BY <1>2, <2>1 DEF Working, WordSteps
  <2>3. task' = [task EXCEPT ![w] = v]
    BY <1>0, <1>4
  <2> QED
    BY <2>2, <2>3
<1>5. CASE Fetch(w)
  <2>1. PICK answer \in Answers :
           /\ Store(w, task[w].key, answer, FALSE)
           /\ task' = [task EXCEPT ![w].step = "answered", ![w].began = NextDate,
                                   ![w].found = LemmaFound(w, answer)]
    BY <1>5 DEF Fetch
  <2>2. UNCHANGED <<corpus, asking, expired, jobs, messages, disturbed>>
    BY <1>5 DEF Fetch
  <2>3. cache' \in [Words -> SUBSET Rows]
    BY <1>2, <2>1, StoreShape
  <2>4. \E v \in Working : task' = [task EXCEPT ![w] = v]
    BY <1>4, <2>1
  <2> QED
    BY <1>0, <2>2, <2>3, <2>4, WorkerShape
<1>6. CASE FetchIsNotStored(w)
  <2>1. /\ UNCHANGED <<corpus, asking, cache, expired, jobs, messages>>
        /\ disturbed' = disturbed \cup {task[w].word}
        /\ \E answer \in Answers :
              task' = [task EXCEPT ![w].step = "answered", ![w].began = NextDate,
                                   ![w].found = LemmaFound(w, answer)]
    BY <1>6 DEF FetchIsNotStored
  <2>2. \E v \in Working : task' = [task EXCEPT ![w] = v]
    BY <1>4, <2>1
  <2>3. disturbed' \subseteq Words
    BY <1>0, <1>2, <2>1
  <2> QED
    BY <1>0, <2>1, <2>2, <2>3, WorkerShape
<1>7. CASE FallBack(w)
  <2> DEFINE lemma == Lemma[task[w].word]
             v == [task[w] EXCEPT !.step = Ask(lemma), !.key = lemma,
                                  !.found = Shown(lemma) = "found"]
  <2>1. UNCHANGED <<corpus, asking, cache, expired, jobs, messages, disturbed>>
    BY <1>7 DEF FallBack
  <2>2. task' = [task EXCEPT ![w] = v]
    BY <1>0, <1>7 DEF FallBack
  <2>3. lemma \in Words
    BY <1>2, <1>7, ConcernsAreWords DEF FallBack, AsksLemma
  <2>4. Ask(lemma) \in WordSteps /\ (Shown(lemma) = "found") \in BOOLEAN
    BY AskIsStep
  <2>5. v \in Working
    BY <1>2, <2>3, <2>4 DEF Working
  <2> HIDE DEF v
  <2> QED
    BY <1>0, <2>1, <2>2, <2>5, WorkerShape
<1>8. CASE EndWord(w)
  <2>1. /\ UNCHANGED <<corpus, asking, expired, jobs, messages, disturbed>>
        /\ task' = [task EXCEPT ![w] = Rest(w)]
        /\ \/ cache' = cache
           \/ \E answer \in {"found", "nothing"} : Store(w, task[w].word, answer, TRUE)
    BY <1>8 DEF EndWord
  <2>2. ASSUME NEW answer \in {"found", "nothing"}, Store(w, task[w].word, answer, TRUE)
        PROVE  cache' \in [Words -> SUBSET Rows]
    <3>1. answer \in Answers
      BY DEF Answers
    <3> QED
      BY <1>2, <2>2, <3>1, StoreShape
  <2>3. cache' \in [Words -> SUBSET Rows]
    BY <1>0, <2>1, <2>2
  <2> QED
    BY <1>0, <1>2, <2>1, <2>3, WorkerShape
<1> QED
  BY <1>3, <1>5, <1>6, <1>7, <1>8 DEF LookUp, OpenWord, HasWord

LEMMA RunShape ==
  ASSUME ShapeInv, NEW w \in LookupWorkers,
         (\E i \in DOMAIN jobs : BeginRun(w, i)) \/ FinishRun(w) \/ FailRun(w) \/ Kill(w)
  PROVE  ShapeInv'
<1>0. /\ disturbed \subseteq Words /\ cache \in [Words -> SUBSET Rows] /\ expired \in Nat
      /\ jobs \in Seq(JobStatuses) /\ messages \in Seq({0, 1}) /\ Len(messages) = Len(jobs)
      /\ \A s \in {"running", "completed", "failed"} : s \in JobStatuses
      /\ DOMAIN messages = DOMAIN jobs /\ DOMAIN jobs \subseteq Nat
  BY DEF ShapeInv, JobStatuses
<1>1. ASSUME NEW i \in DOMAIN jobs, BeginRun(w, i) PROVE ShapeInv'
  <2> DEFINE v == [step |-> "between", job |-> i, todo |-> {x \in Words : NeedsLookup(x)}]
  <2>1. v \in Between
    BY <1>0 DEF Between
  <2>2. /\ messages' = [messages EXCEPT ![i] = 0] /\ jobs' = [jobs EXCEPT ![i] = "running"]
        /\ task' = [task EXCEPT ![w] = v]
        /\ UNCHANGED <<corpus, cache, expired, asking, disturbed>>
    BY <1>1 DEF BeginRun
  <2> HIDE DEF v
  <2> QED
    BY <1>0, <2>1, <2>2, WorkerShape
<1>2. ASSUME HasWord(w) PROVE CutShort(w) \subseteq Words
  BY <1>2, WordTask DEF CutShort, Working
<1>3. CutShort(w) \subseteq Words
  BY <1>2 DEF CutShort
<1>4. CASE FinishRun(w) \/ FailRun(w) \/ Kill(w)
  <2>1. /\ UNCHANGED <<corpus, cache, expired, messages, asking>>
        /\ task' = [task EXCEPT ![w] = Idle]
        /\ disturbed' \subseteq disturbed \cup CutShort(w)
        /\ \/ jobs' = jobs
           \/ \E s \in JobStatuses : jobs' = [jobs EXCEPT ![task[w].job] = s]
    BY <1>0, <1>4 DEF FinishRun, FailRun, Kill
  <2>2. jobs' = jobs \/ \E i \in DOMAIN jobs, s \in JobStatuses : jobs' = [jobs EXCEPT ![i] = s]
    <3>1. task[w].job \notin DOMAIN jobs =>
             \A s : [jobs EXCEPT ![task[w].job] = s] = jobs
      BY <1>0
    <3> QED
      BY <2>1, <3>1
  <2> QED
    BY <1>0, <1>3, <2>1, <2>2, WorkerShape
<1> QED
  BY <1>1, <1>4

LEMMA NextShape ==
  ASSUME ShapeInv, DateInv, \A w \in LookupWorkers : LookupInv(w), [LookupNext]_lookupVars
  PROVE  ShapeInv'
<1>1. ASSUME NEW i \in DOMAIN jobs, SweepRun(i) PROVE ShapeInv'
  <2>1. /\ jobs' = [jobs EXCEPT ![i] = "failed"]
        /\ UNCHANGED <<corpus, cache, expired, messages, asking, task, disturbed>>
    BY <1>1 DEF SweepRun
  <2>2. \E s \in JobStatuses : jobs' = [jobs EXCEPT ![i] = s]
    BY <2>1 DEF JobStatuses
  <2> QED
    BY <2>1, <2>2, WorkerShape DEF ShapeInv
<1>2. CASE Expire
  <2>1. UNCHANGED <<corpus, cache, jobs, messages, asking, task, disturbed>>
    BY <1>2 DEF Expire
  <2>2. expired' \in Nat
    BY <1>2, NextDateIsLater DEF Expire, ShapeInv
  <2> QED
    BY <2>1, <2>2, WorkerShape DEF ShapeInv
<1>3. CASE UNCHANGED lookupVars
  <2>1. UNCHANGED <<corpus, cache, expired, jobs, messages, asking, task, disturbed>>
    BY <1>3 DEF lookupVars
  <2> QED
    BY <2>1 DEF ShapeInv
<1> QED
  BY <1>1, <1>2, <1>3, RequestShape, LookUpShape, RunShape DEF LookupNext

(* Dates are kept.                                                         *)

\* The other lookups are as they were, and w's has the date it had or a new one.
LEMMA DatesKept ==
  ASSUME ShapeInv, DateInv, NEW w \in LookupWorkers, expired' = expired,
         \A u \in LookupWorkers \ {w} : task'[u] = task[u],
         RowDates \subseteq RowDates', RowDates' \subseteq RowDates \cup Begans({w}),
         HasWord(w)' => \/ task'[w].began = NextDate
                        \/ /\ HasWord(w) /\ task'[w].began = task[w].began
                           /\ RowDates' = RowDates,
         \A x \in Words : \A row, other \in cache'[x] :
            /\ row.lasting => row.answer = "found"
            /\ row.at = other.at => row = other
  PROVE  DateInv'
<1>1. /\ NextDate \in Nat /\ \A d \in Dates : d \in Nat /\ d < NextDate
      /\ expired < NextDate /\ expired \in Nat
  BY NextDateIsLater, DatesAreNumbers DEF ShapeInv
<1>2. ASSUME NEW u \in LookupWorkers \ {w}
      PROVE  HasWord(u)' = HasWord(u) /\ task'[u].began = task[u].began
  BY <1>2 DEF HasWord
<1>3. \A u \in LookupWorkers : HasWord(u) => task[u].began \in Begans(LookupWorkers) /\ task[u].began \in Dates
  BY DEF Begans, Dates
<1>4. RowDates \subseteq Dates /\ RowDates' \subseteq Dates
  <2>1. Begans({w}) \subseteq Begans(LookupWorkers)
    BY DEF Begans
  <2> QED
    BY <2>1 DEF Dates
<1>5. \A d \in Dates' : d \in Dates \/ d = NextDate
  <2>1. ASSUME NEW u \in LookupWorkers, HasWord(u)'
        PROVE  task'[u].began \in Dates \/ task'[u].began = NextDate
    <3>1. CASE u = w
      BY <1>3, <2>1, <3>1
    <3>2. CASE u # w
      BY <1>2, <1>3, <2>1, <3>2
    <3> QED
      BY <3>1, <3>2
  <2>2. \A d \in Begans(LookupWorkers)' : d \in Dates \/ d = NextDate
    BY <2>1 DEF Begans
  <2> QED
    BY <1>4, <2>2 DEF Dates
<1>6. \E b \in Nat : \A d \in Dates' : d <= b
  BY <1>1, <1>5
<1>7. ASSUME NEW u \in LookupWorkers, HasWord(u)'
      PROVE  /\ task'[u].began > expired
             /\ task'[u].began \notin RowDates'
             /\ task'[u].began \notin Begans(LookupWorkers \ {u})'
  <2>1. CASE u # w
    <3>1. /\ HasWord(u) /\ task'[u].began = task[u].began
          /\ task[u].began > expired /\ task[u].began \notin RowDates
          /\ task[u].began \notin Begans(LookupWorkers \ {u}) /\ task[u].began \in Dates
      BY <1>2, <1>3, <1>7, <2>1 DEF DateInv
    <3>2. Begans({w}) \subseteq Begans(LookupWorkers \ {u})
      BY <2>1 DEF Begans
    <3>3. \A d \in Begans(LookupWorkers \ {u})' : d \in Begans(LookupWorkers \ {u}) \/ d = NextDate
      <4>1. ASSUME NEW v \in LookupWorkers \ {u}, HasWord(v)'
            PROVE  task'[v].began \in Begans(LookupWorkers \ {u}) \/ task'[v].began = NextDate
        <5>1. CASE v = w
          BY <4>1, <5>1 DEF Begans
        <5>2. CASE v # w
          BY <1>2, <4>1, <5>2 DEF Begans
        <5> QED
          BY <5>1, <5>2
      <4> QED
        BY <4>1 DEF Begans
    <3>4. task[u].began # NextDate
      BY <1>1, <3>1
    <3> QED
      BY <3>1, <3>2, <3>3, <3>4
  <2>2. CASE u = w
    <3>1. \A d \in Begans(LookupWorkers \ {w})' : d \in Begans(LookupWorkers \ {w})
      BY <1>2 DEF Begans
    <3>2. Begans(LookupWorkers \ {w}) \subseteq Dates
      BY DEF Begans, Dates
    <3>3. CASE task'[w].began = NextDate
      <4>1. NextDate \notin Dates
        BY <1>1
      <4> QED
        BY <1>1, <1>4, <2>2, <3>1, <3>2, <3>3, <4>1
    <3>4. CASE HasWord(w) /\ task'[w].began = task[w].began /\ RowDates' = RowDates
      BY <2>2, <3>1, <3>4 DEF DateInv
    <3> QED
      BY <1>7, <2>2, <3>3, <3>4
  <2> QED
    BY <2>1, <2>2
<1>8. expired' = 0 \/ \E d \in RowDates' : expired' <= d
  BY DEF DateInv
<1> QED
  BY <1>6, <1>7, <1>8 DEF DateInv

\* w stores the row r about x: at the end of its word, or as the answer of the web.
Stores(w, x, r) ==
    /\ HasWord(w) /\ x \in Concerns(task[w].word)
    /\ r.at = task[w].began
    /\ cache' = [cache EXCEPT ![x] = @ \cup {r}]
    /\ corpus' = corpus /\ expired' = expired /\ disturbed' = disturbed
    /\ \A u \in LookupWorkers \ {w} : task'[u] = task[u]
    /\ \/ /\ ~HasWord(w)'
          /\ x = task[w].word /\ r.answer = "found" /\ r.lasting
       \/ /\ task[w].step = "fetch" /\ x = task[w].key /\ ~r.lasting
          /\ HasWord(w)' /\ task'[w].step = "answered"
          /\ task'[w].word = task[w].word /\ task'[w].todo = task[w].todo
          /\ task'[w].key = task[w].key /\ task'[w].began = NextDate

LEMMA StoresRow ==
  ASSUME ShapeInv, DateInv, NEW w \in LookupWorkers, LookupInv(w),
         StoreLocal(w) \/ Fetch(w) \/ (EndWord(w) /\ CountsForWord(w))
  PROVE  \E x \in Words : \E r \in Rows : Stores(w, x, r)
<1>0. HasWord(w)
  BY DEF StoreLocal, Fetch, EndWord, HasWord
<1>1. /\ task[w] \in Working /\ task[w].word \in Words /\ task[w].key \in Words
      /\ task[w].word \in Concerns(task[w].word) /\ task[w].key \in Concerns(task[w].word)
      /\ task[w].began \in Nat \ {0} /\ task \in [LookupWorkers -> {Idle} \cup Between \cup Working]
  <2>1. task[w] \in Working /\ task[w].began > expired /\ expired \in Nat
        /\ task \in [LookupWorkers -> {Idle} \cup Between \cup Working]
    BY <1>0, WordTask DEF DateInv, ShapeInv
  <2>2. /\ task[w].word \in Words /\ task[w].key \in Words
        /\ task[w].began \in Nat \ {0}
    BY <2>1 DEF Working
  <2> QED
    BY <1>0, <2>1, <2>2, ConcernsAreWords DEF LookupInv
<1>2. CASE StoreLocal(w) \/ (EndWord(w) /\ CountsForWord(w))
  <2> DEFINE r == [at |-> task[w].began, answer |-> "found", lasting |-> TRUE]
  <2>1. r \in Rows /\ r.at = task[w].began /\ r.answer = "found" /\ r.lasting
    BY <1>1 DEF Rows, Answers
  <2>2. cache' = [cache EXCEPT ![task[w].word] = @ \cup {r}]
    BY <1>2 DEF StoreLocal, EndWord, Store, CountsForWord
  <2>3. /\ task' = [task EXCEPT ![w] = Rest(w)]
        /\ corpus' = corpus /\ expired' = expired /\ disturbed' = disturbed
    BY <1>2 DEF StoreLocal, EndWord
  <2>4. ~HasWord(w)' /\ \A u \in LookupWorkers \ {w} : task'[u] = task[u]
    BY <1>1, <2>3 DEF HasWord, Rest
  <2> HIDE DEF r
  <2>5. Stores(w, task[w].word, r)
    BY <1>0, <1>1, <2>1, <2>2, <2>3, <2>4 DEF Stores
  <2> QED
    BY <1>1, <2>1, <2>5
<1>3. CASE Fetch(w)
  <2>1. PICK answer \in Answers :
           /\ Store(w, task[w].key, answer, FALSE)
           /\ task' = [task EXCEPT ![w].step = "answered", ![w].began = NextDate,
                                   ![w].found = LemmaFound(w, answer)]
    BY <1>3 DEF Fetch
  <2> DEFINE r == [at |-> task[w].began, answer |-> answer, lasting |-> FALSE]
  <2>2. r \in Rows /\ r.at = task[w].began /\ ~r.lasting
    BY <1>1 DEF Rows
  <2>3. cache' = [cache EXCEPT ![task[w].key] = @ \cup {r}]
    BY <2>1 DEF Store
  <2>4. /\ task[w].step = "fetch"
        /\ corpus' = corpus /\ expired' = expired /\ disturbed' = disturbed
    BY <1>3 DEF Fetch
  <2>5. /\ task'[w].step = "answered" /\ task'[w].word = task[w].word
        /\ task'[w].todo = task[w].todo
        /\ task'[w].key = task[w].key /\ task'[w].began = NextDate
        /\ \A u \in LookupWorkers \ {w} : task'[u] = task[u]
    BY <1>1, <2>1 DEF Working
  <2>6. HasWord(w)'
    BY <2>5 DEF HasWord
  <2> HIDE DEF r
  <2>7. Stores(w, task[w].key, r)
    BY <1>0, <1>1, <2>2, <2>3, <2>4, <2>5, <2>6 DEF Stores
  <2> QED
    BY <1>1, <2>2, <2>7
<1> QED
  BY <1>2, <1>3

LEMMA StoresDates ==
  ASSUME ShapeInv, DateInv, NEW w \in LookupWorkers, NEW x \in Words, NEW r \in Rows, Stores(w, x, r)
  PROVE  DateInv'
<1>1. /\ cache \in [Words -> SUBSET Rows] /\ HasWord(w) /\ r.at = task[w].began
      /\ cache' = [cache EXCEPT ![x] = @ \cup {r}] /\ expired' = expired
      /\ \A u \in LookupWorkers \ {w} : task'[u] = task[u]
      /\ HasWord(w)' => task'[w].began = NextDate
      /\ r.lasting => r.answer = "found"
  BY DEF ShapeInv, Stores
<1>2. \A y \in Words : cache'[y] = IF y = x THEN cache[x] \cup {r} ELSE cache[y]
  BY <1>1
<1>3. RowDates \subseteq RowDates'
  BY <1>2 DEF RowDates
<1>4. RowDates' \subseteq RowDates \cup Begans({w})
  <2>1. \A y \in Words : \A row \in cache'[y] : row.at \in RowDates \cup Begans({w})
    BY <1>1, <1>2 DEF RowDates, Begans
  <2> QED
    BY <2>1 DEF RowDates
<1>5. \A row \in cache[x] : row.at # r.at
  BY <1>1, DatesAreNumbers DEF DateInv
<1>6. ASSUME NEW y \in Words, NEW row \in cache'[y], NEW other \in cache'[y]
      PROVE  /\ row.lasting => row.answer = "found"
             /\ row.at = other.at => row = other
  <2>1. CASE y # x
    BY <1>2, <2>1 DEF DateInv
  <2>2. CASE y = x
    BY <1>1, <1>2, <1>5, <2>2 DEF DateInv
  <2> QED
    BY <2>1, <2>2
<1> QED
  BY <1>1, <1>3, <1>4, <1>6, DatesKept

\* A step of w that stores nothing.
Keeps(w) ==
    /\ cache' = cache /\ corpus' = corpus /\ expired' = expired
    /\ disturbed \subseteq disturbed'
    /\ \A u \in LookupWorkers \ {w} : task'[u] = task[u]

LEMMA KeepsDates ==
  ASSUME ShapeInv, DateInv, NEW w \in LookupWorkers, Keeps(w),
         HasWord(w)' => \/ task'[w].began = NextDate
                        \/ (HasWord(w) /\ task'[w].began = task[w].began)
  PROVE  DateInv'
<1>1. RowDates' = RowDates
  BY DEF Keeps, RowDates
<1>2. \A x \in Words : \A row, other \in cache'[x] :
            /\ row.lasting => row.answer = "found"
            /\ row.at = other.at => row = other
  BY DEF Keeps, DateInv
<1> QED
  BY <1>1, <1>2, DatesKept DEF Keeps

LEMMA ExpireDates ==
  ASSUME ShapeInv, DateInv, Expire
  PROVE  DateInv'
<1>1. /\ cache' = cache /\ task' = task /\ \A w \in LookupWorkers : ~HasWord(w) /\ ~HasWord(w)'
      /\ expired' \in (expired + 1)..(NextDate - 1)
  BY DEF Expire, HasWord
<1>2. Dates = RowDates /\ Dates' = RowDates /\ RowDates' = RowDates
  BY <1>1 DEF Dates, RowDates, Begans
<1>3. NextDate \in Nat /\ expired \in Nat /\ NextDate - 1 \in {0} \cup RowDates
      /\ RowDates \subseteq Nat
  BY <1>2, NextDateIsLater, DatesAreNumbers DEF ShapeInv
<1>4. expired' \in Nat /\ expired' > 0 /\ expired' <= NextDate - 1
  BY <1>1, <1>3
<1>5. \E d \in RowDates : expired' <= d
  BY <1>3, <1>4
<1>6. \E b \in Nat : \A d \in Dates' : d <= b
  BY <1>2 DEF DateInv
<1>7. \E d \in RowDates' : expired' <= d
  BY <1>2, <1>5
<1>8. \A x \in Words : \A row, other \in cache'[x] :
            /\ row.lasting => row.answer = "found"
            /\ row.at = other.at => row = other
  BY <1>1 DEF DateInv
<1>9. \A w \in LookupWorkers : HasWord(w)' => /\ task'[w].began > expired'
                                              /\ task'[w].began \notin RowDates'
                                              /\ task'[w].began \notin Begans(LookupWorkers \ {w})'
  BY <1>1
<1> QED
  BY <1>6, <1>7, <1>8, <1>9 DEF DateInv


(* What a step does to the lookup of w.                                    *)

\* w has no word any more: its lookup is cut short, or was answered without results.
Ends(w) ==
    /\ Keeps(w) /\ ~HasWord(w)'
    /\ HasWord(w) => \/ CutShort(w) \subseteq disturbed'
                     \/ (~AsksLemma(w) /\ ~task[w].found)

\* w takes a word up, at a new date.
Opens(w) ==
    /\ Keeps(w) /\ task[w].step = "between" /\ HasWord(w)'
    /\ task'[w].word \in task'[w].todo /\ task'[w].word \in Words
    /\ task'[w].key = task'[w].word /\ task'[w].began = NextDate
    /\ task'[w].step = "fetch" => ~HasAnswer(task'[w].key) /\ task'[w].key \notin corpus
    /\ \A u \in LookupWorkers \ {w} :
          HasWord(u) => Concerns(task'[w].word) \cap Concerns(task[u].word) \subseteq disturbed'

\* w goes on with its word.
GoesOn(w) ==
    /\ Keeps(w) /\ HasWord(w) /\ HasWord(w)'
    /\ task'[w].word = task[w].word /\ task'[w].todo = task[w].todo
    /\ \/ /\ task[w].step = "fetch" /\ task'[w].step = "answered"
          /\ task'[w].key = task[w].key /\ task'[w].began = NextDate
       \/ /\ AsksLemma(w) /\ task'[w].key = Lemma[task[w].word]
          /\ task'[w].step = Ask(task'[w].key) /\ task'[w].began = task[w].began
          /\ task'[w].found = (Shown(task'[w].key) = "found")

LEMMA EndsStep ==
  ASSUME ShapeInv, NEW w \in LookupWorkers,
         \/ \E i \in DOMAIN jobs : BeginRun(w, i)
         \/ FinishRun(w) \/ FailRun(w) \/ Kill(w)
         \/ (EndWord(w) /\ ~CountsForWord(w))
  PROVE  Ends(w)
<1>0. task \in [LookupWorkers -> {Idle} \cup Between \cup Working]
  BY DEF ShapeInv
<1>1. ASSUME NEW i \in DOMAIN jobs, BeginRun(w, i) PROVE Ends(w)
  BY <1>0, <1>1 DEF BeginRun, Ends, Keeps, HasWord, Idle
<1>2. CASE FinishRun(w)
  BY <1>0, <1>2 DEF FinishRun, Ends, Keeps, HasWord, Idle
<1>3. CASE FailRun(w) \/ Kill(w)
  BY <1>0, <1>3 DEF FailRun, Kill, Ends, Keeps, HasWord, Idle
<1>4. CASE EndWord(w) /\ ~CountsForWord(w)
  <2>1. UNCHANGED <<corpus, cache, expired, disturbed>> /\ ~AsksLemma(w) /\ ~task[w].found
        /\ task' = [task EXCEPT ![w] = Rest(w)]
    BY <1>4 DEF EndWord, CountsForWord
  <2> QED
    BY <1>0, <2>1 DEF Ends, Keeps, HasWord, Rest
<1> QED
  BY <1>1, <1>2, <1>3, <1>4

LEMMA OpensStep ==
  ASSUME ShapeInv, NEW w \in LookupWorkers, OpenWord(w)
  PROVE  Opens(w)
<1>0. task \in [LookupWorkers -> {Idle} \cup Between \cup Working]
  BY DEF ShapeInv
<1>1. task[w] \in Between /\ task[w].step = "between"
  BY <1>0 DEF OpenWord, Idle, Working, WordSteps
<1>2. PICK x \in task[w].todo :
          /\ task' = [task EXCEPT ![w] =
                 [step |-> IF x \in corpus THEN "local" ELSE Ask(x), job |-> @.job,
                  todo |-> @.todo, word |-> x, key |-> x, began |-> NextDate,
                  found |-> FALSE]]
          /\ disturbed' = disturbed \cup
                 (Concerns(x) \cap UNION {Concerns(task[u].word) :
                                              u \in {v \in LookupWorkers : HasWord(v)}})
  BY DEF OpenWord
<1>3. x \in Words /\ UNCHANGED <<corpus, cache, expired>>
  BY <1>1 DEF Between, OpenWord
<1>4. /\ task'[w].step = IF x \in corpus THEN "local" ELSE Ask(x)
      /\ task'[w].todo = task[w].todo /\ task'[w].word = x /\ task'[w].key = x
      /\ task'[w].began = NextDate
      /\ \A u \in LookupWorkers \ {w} : task'[u] = task[u]
  BY <1>0, <1>2
<1>5. HasWord(w)'
  BY <1>4, AskIsStep DEF HasWord, WordSteps
<1>6. task'[w].step = "fetch" => ~HasAnswer(x) /\ x \notin corpus
  BY <1>4 DEF Ask
<1>7. Keeps(w)
  BY <1>2, <1>3, <1>4 DEF Keeps
<1>8. ASSUME NEW u \in LookupWorkers \ {w}, HasWord(u)
      PROVE  Concerns(x) \cap Concerns(task[u].word) \subseteq disturbed'
  BY <1>2, <1>8
<1> QED
  BY <1>1, <1>2, <1>3, <1>4, <1>5, <1>6, <1>7, <1>8 DEF Opens

LEMMA GoesOnStep ==
  ASSUME ShapeInv, NEW w \in LookupWorkers, FetchIsNotStored(w) \/ FallBack(w)
  PROVE  GoesOn(w)
<1>1. HasWord(w)
  BY DEF FetchIsNotStored, FallBack, AsksLemma, HasWord
<1>2. task[w] \in Working /\ task \in [LookupWorkers -> {Idle} \cup Between \cup Working]
  BY <1>1, WordTask DEF ShapeInv
<1>3. CASE FetchIsNotStored(w)
  <2>1. PICK answer \in Answers :
           task' = [task EXCEPT ![w].step = "answered", ![w].began = NextDate,
                                ![w].found = LemmaFound(w, answer)]
    BY <1>3 DEF FetchIsNotStored
  <2>2. /\ task[w].step = "fetch" /\ UNCHANGED <<corpus, cache, expired>>
        /\ disturbed \subseteq disturbed'
    BY <1>3 DEF FetchIsNotStored
  <2>3. /\ task'[w].step = "answered" /\ task'[w].word = task[w].word
        /\ task'[w].todo = task[w].todo
        /\ task'[w].key = task[w].key /\ task'[w].began = NextDate
        /\ \A u \in LookupWorkers \ {w} : task'[u] = task[u]
    BY <1>2, <2>1 DEF Working
  <2> QED
    BY <1>1, <2>2, <2>3 DEF GoesOn, Keeps, HasWord
<1>4. CASE FallBack(w)
  <2> DEFINE lemma == Lemma[task[w].word]
  <2>1. /\ AsksLemma(w) /\ UNCHANGED <<corpus, cache, expired, disturbed>>
        /\ task' = [task EXCEPT ![w].step = Ask(lemma), ![w].key = lemma,
                                ![w].found = Shown(lemma) = "found"]
    BY <1>4 DEF FallBack
  <2>2. /\ task'[w].step = Ask(lemma) /\ task'[w].word = task[w].word
        /\ task'[w].todo = task[w].todo /\ task'[w].began = task[w].began
        /\ task'[w].key = lemma /\ task'[w].found = (Shown(lemma) = "found")
        /\ \A u \in LookupWorkers \ {w} : task'[u] = task[u]
    BY <1>2, <2>1 DEF Working
  <2>3. HasWord(w)'
    BY <2>2, AskIsStep DEF HasWord, WordSteps
  <2> QED
    BY <1>1, <2>1, <2>2, <2>3 DEF GoesOn, Keeps
<1> QED
  BY <1>3, <1>4

(* Lookups that keep the cache.                                            *)

LEMMA KeepsLookup ==
  ASSUME NEW w \in LookupWorkers, Keeps(w), NEW u \in LookupWorkers \ {w}, LookupInv(u)
  PROVE  LookupInv(u)'
<1>1. task'[u] = task[u] /\ HasWord(u)' = HasWord(u)
  BY DEF Keeps, HasWord
<1>2. ASSUME NEW x PROVE HasAnswer(x)' = HasAnswer(x)
  BY SameRows DEF Keeps
<1>3. \A x : cache'[x] = cache[x]
  BY DEF Keeps
<1> SUFFICES ASSUME HasWord(u) PROVE LookupInv(u)'
  BY <1>1 DEF LookupInv
<1>4. ASSUME NEW y \in Concerns(task[u].word) \ disturbed', NEW x \in Judges(y)
      PROVE  \A row \in cache'[x] : row.at < task[u].began
  <2>1. y \in Concerns(task[u].word) \ disturbed
    BY DEF Keeps
  <2> QED
    BY <1>3, <2>1 DEF LookupInv, Earlier
<1>5. /\ task[u].word \in task[u].todo
      /\ task[u].key \in Concerns(task[u].word)
      /\ task[u].step = "local" => task[u].key = task[u].word
      /\ task[u].step = "fetch" =>
              /\ task[u].key \notin disturbed' => ~HasAnswer(task[u].key)'
              /\ task[u].key \in corpus' => IsLemma(task[u].key)
  BY <1>2 DEF LookupInv, Keeps
<1> QED
  BY <1>1, <1>4, <1>5 DEF LookupInv, Earlier

LEMMA OwnLookup ==
  ASSUME ShapeInv, DateInv, NEW w \in LookupWorkers, LookupInv(w),
         Ends(w) \/ Opens(w) \/ GoesOn(w)
  PROVE  LookupInv(w)'
<1>0. Keeps(w) /\ cache' = cache /\ corpus' = corpus /\ disturbed \subseteq disturbed'
  BY DEF Ends, Opens, GoesOn, Keeps
<1>1. ASSUME NEW x PROVE HasAnswer(x)' = HasAnswer(x)
  BY <1>0, SameRows DEF Keeps
<1>2. PICK next \in Nat : next = NextDate
  BY NextDateIsLater
<1>3. ASSUME NEW x \in Words PROVE \A row \in cache[x] : row.at < next
  BY <1>2, NextDateIsLater, DatesAreNumbers DEF Dates
<1>4. ASSUME NEW y \in Words PROVE Judges(y) \subseteq Words
  BY <1>4 DEF Judges
<1>5. CASE Ends(w)
  BY <1>5 DEF Ends, LookupInv
<1>6. CASE Opens(w)
  <2>1. PICK x \in Words : task'[w].word = x
    BY <1>6 DEF Opens
  <2>2. Concerns(x) \subseteq Words /\ x \in Concerns(x)
    BY ConcernsAreWords
  <2>3. ASSUME NEW y \in Concerns(x), NEW z \in Judges(y)
        PROVE  \A row \in cache'[z] : row.at < next
    BY <1>0, <1>3, <1>4, <2>2
  <2>4. /\ x \in task'[w].todo /\ task'[w].key = x /\ task'[w].began = next
        /\ task'[w].step = "fetch" => ~HasAnswer(x) /\ x \notin corpus'
    BY <1>0, <1>2, <1>6, <2>1 DEF Opens
  <2>5. task'[w].step = "fetch" => ~HasAnswer(x)'
    BY <1>1, <2>4
  <2> QED
    BY <2>1, <2>2, <2>3, <2>4, <2>5 DEF LookupInv, Earlier
<1>7. CASE GoesOn(w)
  <2>0. PICK x \in Words : task[w].word = x
    BY <1>7, WordTask DEF GoesOn, Working
  <2>1. /\ HasWord(w) /\ task'[w].word = x /\ task'[w].todo = task[w].todo
        /\ x \in task[w].todo /\ task[w].key \in Concerns(x)
    BY <1>7, <2>0 DEF GoesOn, LookupInv
  <2>2. Concerns(x) \subseteq Words /\ x \in Concerns(x)
    BY ConcernsAreWords
  <2>3. CASE /\ task[w].step = "fetch" /\ task'[w].step = "answered"
             /\ task'[w].key = task[w].key /\ task'[w].began = NextDate
    <3>1. ASSUME NEW y \in Concerns(x), NEW z \in Judges(y)
          PROVE  \A row \in cache'[z] : row.at < next
      BY <1>0, <1>3, <1>4, <2>2
    <3> QED
      BY <1>2, <2>1, <2>3, <3>1 DEF LookupInv, Earlier
  <2>4. CASE /\ AsksLemma(w) /\ task'[w].key = Lemma[task[w].word]
             /\ task'[w].step = Ask(task'[w].key) /\ task'[w].began = task[w].began
    <3>0. PICK m : m = Lemma[x]
      OBVIOUS
    <3>1. m \in Concerns(x) /\ IsLemma(m) /\ task'[w].key = m /\ task'[w].step = Ask(m)
      BY <2>0, <2>4, <3>0 DEF AsksLemma, Concerns, IsLemma
    <3>2. task'[w].step # "local" /\ (task'[w].step = "fetch" => ~HasAnswer(m))
      BY <3>1 DEF Ask
    <3>3. task'[w].step = "fetch" => ~HasAnswer(m)'
      BY <1>1, <3>2
    <3>4. ASSUME NEW y \in Concerns(x) \ disturbed', NEW z \in Judges(y)
          PROVE  \A row \in cache'[z] : row.at < task[w].began
      BY <1>0, <2>0, <2>1 DEF LookupInv, Earlier
    <3> QED
      BY <2>1, <2>4, <3>1, <3>2, <3>3, <3>4 DEF LookupInv, Earlier
  <2> QED
    BY <1>7, <2>3, <2>4 DEF GoesOn
<1> QED
  BY <1>5, <1>6, <1>7

LEMMA KeepsOverlaps ==
  ASSUME OverlapsAreNoted, NEW w \in LookupWorkers, Ends(w) \/ Opens(w) \/ GoesOn(w)
  PROVE  OverlapsAreNoted'
<1>0. Keeps(w)
  BY DEF Ends, Opens, GoesOn
<1>1. ASSUME NEW u \in LookupWorkers \ {w} PROVE task'[u] = task[u] /\ HasWord(u)' = HasWord(u)
  BY <1>0 DEF Keeps, HasWord
<1>2. ASSUME NEW u \in LookupWorkers \ {w}, HasWord(u), HasWord(w)'
      PROVE  Concerns(task'[w].word) \cap Concerns(task[u].word) \subseteq disturbed'
  <2>1. CASE Opens(w)
    BY <1>2, <2>1 DEF Opens
  <2>2. CASE GoesOn(w)
    BY <1>0, <1>2, <2>2 DEF GoesOn, Keeps, OverlapsAreNoted
  <2> QED
    BY <1>2, <2>1, <2>2 DEF Ends
<1>3. ASSUME NEW v \in LookupWorkers, NEW u \in LookupWorkers \ {v}, HasWord(v)', HasWord(u)'
      PROVE  Concerns(task'[v].word) \cap Concerns(task'[u].word) \subseteq disturbed'
  <2>1. CASE v = w
    BY <1>1, <1>2, <1>3, <2>1
  <2>2. CASE u = w
    BY <1>1, <1>2, <1>3, <2>2
  <2>3. CASE u # w /\ v # w
    BY <1>0, <1>1, <1>3, <2>3 DEF OverlapsAreNoted, Keeps
  <2> QED
    BY <2>1, <2>2, <2>3
<1> QED
  BY <1>3 DEF OverlapsAreNoted

LEMMA KeepsMissed ==
  ASSUME cache' = cache, expired' = expired, NEW x \in Words
  PROVE  Missed(x)' = Missed(x)
<1>1. LatestRow(x)' = LatestRow(x) /\ Shown(x)' = Shown(x)
  BY SameRows
<1>2. LatestRow(Lemma[x])' = LatestRow(Lemma[x]) /\ Shown(Lemma[x])' = Shown(Lemma[x])
  <2> DEFINE m == Lemma[x]
  <2>1. cache'[m] = cache[m]
    OBVIOUS
  <2> HIDE DEF m
  <2>2. LatestRow(m)' = LatestRow(m) /\ Shown(m)' = Shown(m)
    BY <2>1 DEF LatestRow, HasAnswer, Fresh, Shown
  <2> QED
    BY <2>2 DEF m
<1> QED
  BY <1>1, <1>2 DEF Missed

LEMMA KeepsHistory ==
  ASSUME ShapeInv, HistoryInv, NEW w \in LookupWorkers,
         Ends(w) \/ Opens(w) \/ GoesOn(w)
  PROVE  HistoryInv'
<1>0. Keeps(w)
  BY DEF Ends, Opens, GoesOn
<1>1. ASSUME NEW x \in Words \ disturbed' PROVE LastingIsLatest(x)' /\ FoundIsLatest(x)'
  <2>1. x \in Words \ disturbed
    BY <1>0 DEF Keeps
  <2> QED
    BY <1>0, <2>1, SameRows DEF Keeps, HistoryInv
<1>2. ASSUME NEW x \in Words \ disturbed', ~IsLemma(x), Missed(x)', Lemma[x] \notin disturbed'
      PROVE  Assisted(x)'
  <2>1. x \notin disturbed /\ Missed(x) /\ Lemma[x] \notin disturbed
    BY <1>0, <1>2, KeepsMissed DEF Keeps
  <2>2. PICK u \in LookupWorkers : /\ HasWord(u) /\ task[u].word = x /\ task[u].step = "answered"
                                   /\ task[u].key = x \/ task[u].found
    BY <1>2, <2>1 DEF HistoryInv, Assisted
  <2>3. CASE u # w
    BY <1>0, <2>2, <2>3 DEF Keeps, HasWord, Assisted
  <2>4. CASE u = w
    <3>1. ~Opens(w)
      BY <2>2, <2>4 DEF Opens
    <3>2. ~Ends(w)
      <4>1. CutShort(w) = {x}
        BY <2>2, <2>4 DEF CutShort
      <4>2. task[w].key = x => AsksLemma(w)
        BY <2>1, <2>2, <2>4 DEF AsksLemma, TriesFallback, Missed
      <4> QED
        BY <2>2, <2>4, <4>1, <4>2 DEF Ends
    <3>3. /\ AsksLemma(w) /\ task'[w].key = Lemma[x] /\ task'[w].word = x /\ HasWord(w)'
          /\ task'[w].step = Ask(Lemma[x])
          /\ task'[w].found = (Shown(Lemma[x]) = "found")
      BY <2>2, <2>4, <3>1, <3>2 DEF GoesOn
    <3>4. Shown(Lemma[x]) = "found"
      BY <2>1 DEF Missed
    <3>5. Ask(Lemma[x]) = "answered"
      BY <3>4 DEF Ask, Shown
    <3> QED
      BY <3>3, <3>4, <3>5 DEF Assisted
  <2> QED
    BY <2>3, <2>4
<1>3. \A x \in corpus' : \A row \in cache'[x] : row.answer # "found" => IsLemma(x)
  BY <1>0 DEF Keeps, HistoryInv
<1> QED
  BY <1>1, <1>2, <1>3 DEF HistoryInv

(* Lookups that store a row.                                               *)

LEMMA StoredRows ==
  ASSUME ShapeInv, NEW w \in LookupWorkers, NEW x \in Words, NEW r \in Rows, Stores(w, x, r)
  PROVE  /\ cache'[x] = cache[x] \cup {r}
         /\ \A y \in Words \ {x} : cache'[y] = cache[y]
         /\ corpus' = corpus /\ disturbed' = disturbed /\ expired' = expired
         /\ HasWord(w) /\ x \in Concerns(task[w].word) /\ r.at = task[w].began
         /\ \A u \in LookupWorkers \ {w} : task'[u] = task[u] /\ HasWord(u)' = HasWord(u)
BY DEF ShapeInv, Stores, HasWord

\* What w stores is about what its word concerns, and judged only with that.
LEMMA JudgedWithin ==
  ASSUME NEW word \in Words, NEW x \in Concerns(word),
         NEW y \in Words, x \in Judges(y)
  PROVE  y \in Concerns(word)
<1>1. CASE y = x
  BY <1>1
<1>2. CASE Lemma[x] = y /\ ~IsLemma(x)
  <2>1. x = word
    BY <1>2 DEF Concerns, IsLemma
  <2> QED
    BY <1>2, <2>1, LemmaAssumption DEF Concerns
<1> QED
  BY <1>1, <1>2 DEF Judges

\* Unless it was noted that the lookups overlap, what is stored is the latest row.
LEMMA StoredIsLatest ==
  ASSUME ShapeInv, DateInv, NEW w \in LookupWorkers, LookupInv(w),
         NEW x \in Words, NEW r \in Rows, Stores(w, x, r), x \notin disturbed
  PROVE  /\ LatestRow(x)' = r
         /\ task[w].step = "fetch" /\ x = task[w].key => ~HasAnswer(x)
         /\ \A y \in Judges(x) : \A row \in cache[y] : row.at < r.at
<1>1. \A y \in Judges(x) : \A row \in cache[y] : row.at < r.at
  BY StoredRows DEF LookupInv, Earlier
<1>2. x \in Judges(x)
  BY DEF Judges
<1>3. \A row \in cache[x] : row.at \in Nat /\ row.at < r.at
  BY <1>1, <1>2, DatesAreNumbers
<1>4. LatestRow(x)' = r
  BY <1>3, StoredRows, NewRowIsLatest DEF Rows
<1> QED
  BY <1>1, <1>4, StoredRows DEF LookupInv

LEMMA StoresOtherLookup ==
  ASSUME ShapeInv, DateInv, OverlapsAreNoted, NEW w \in LookupWorkers,
         NEW x \in Words, NEW r \in Rows, Stores(w, x, r), NEW u \in LookupWorkers \ {w}, LookupInv(u)
  PROVE  LookupInv(u)'
<1>0. /\ task'[u] = task[u] /\ HasWord(u)' = HasWord(u) /\ disturbed' = disturbed
      /\ corpus' = corpus /\ expired' = expired /\ HasWord(w)
      /\ x \in Concerns(task[w].word)
  BY StoredRows
<1> SUFFICES ASSUME HasWord(u) PROVE LookupInv(u)'
  BY <1>0 DEF LookupInv
<1>1. task[w].word \in Words /\ task[u].word \in Words /\ task[u].key \in Words
  BY <1>0, WordTask DEF Working
<1>2. Concerns(task[u].word) \subseteq Words
  BY <1>1, ConcernsAreWords
<1>3. Concerns(task[w].word) \cap Concerns(task[u].word) \subseteq disturbed
  BY <1>0 DEF OverlapsAreNoted
<1>4. ASSUME NEW y \in Concerns(task[u].word) \ disturbed, NEW z \in Judges(y)
      PROVE  \A row \in cache'[z] : row.at < task[u].began
  <2>1. y \in Words /\ z \in Words /\ \A row \in cache[z] : row.at < task[u].began
    BY <1>2 DEF LookupInv, Earlier, Judges
  <2>2. z # x
    BY <1>0, <1>1, <1>3, <2>1, JudgedWithin
  <2> QED
    BY <2>1, <2>2, StoredRows
<1>5. PICK key \in Words : key = task[u].key
  BY <1>1
<1>6. ASSUME task[u].step = "fetch", key \notin disturbed PROVE ~HasAnswer(key)'
  <2>1. ~HasAnswer(key) /\ key \in Concerns(task[u].word)
    BY <1>5, <1>6 DEF LookupInv
  <2>2. key # x
    BY <1>0, <1>3, <1>6, <2>1
  <2> QED
    BY <1>0, <2>1, <2>2, StoredRows, SameRows
<1>7. /\ task[u].word \in task[u].todo
      /\ key \in Concerns(task[u].word)
      /\ task[u].step = "local" => key = task[u].word
      /\ task[u].step = "fetch" => (key \in corpus => IsLemma(key))
  BY <1>5 DEF LookupInv
<1> QED
  BY <1>0, <1>4, <1>5, <1>6, <1>7 DEF LookupInv, Earlier

LEMMA StoresOwnLookup ==
  ASSUME ShapeInv, DateInv, NEW w \in LookupWorkers, LookupInv(w),
         NEW x \in Words, NEW r \in Rows, Stores(w, x, r)
  PROVE  LookupInv(w)'
<1>1. CASE ~HasWord(w)'
  BY <1>1 DEF LookupInv
<1>2. CASE HasWord(w)'
  <2>1. PICK next \in Nat : next = NextDate /\ \A d \in Dates : d < next
    BY NextDateIsLater
  <2>2. /\ task'[w].step = "answered" /\ task'[w].word = task[w].word
        /\ task'[w].todo = task[w].todo
        /\ task'[w].key = task[w].key /\ task'[w].began = next
    BY <1>2, <2>1 DEF Stores
  <2>3. task[w].word \in Words /\ Concerns(task[w].word) \subseteq Words /\ HasWord(w)
    BY StoredRows, WordTask, ConcernsAreWords DEF Working
  <2>4. r.at \in Dates
    BY <2>3, StoredRows DEF Dates, Begans
  <2>5. ASSUME NEW y \in Concerns(task[w].word), NEW z \in Judges(y)
        PROVE  \A row \in cache'[z] : row.at < next
    <3>1. z \in Words
      BY <2>3 DEF Judges
    <3>2. \A row \in cache[z] : row.at < next
      BY <2>1, <3>1, DatesAreNumbers DEF Dates
    <3> QED
      BY <2>1, <2>4, <3>1, <3>2, StoredRows
  <2> QED
    BY <2>2, <2>3, <2>5 DEF LookupInv, Earlier
<1> QED
  BY <1>1, <1>2

LEMMA StoresOverlaps ==
  ASSUME ShapeInv, OverlapsAreNoted, NEW w \in LookupWorkers, NEW x \in Words, NEW r \in Rows,
         Stores(w, x, r)
  PROVE  OverlapsAreNoted'
<1>1. ASSUME NEW u \in LookupWorkers, HasWord(u)'
      PROVE  HasWord(u) /\ task'[u].word = task[u].word
  <2>1. CASE u = w
    BY <1>1, <2>1 DEF Stores
  <2>2. CASE u # w
    BY <1>1, <2>2, StoredRows
  <2> QED
    BY <2>1, <2>2
<1>2. disturbed' = disturbed
  BY StoredRows
<1> QED
  BY <1>1, <1>2 DEF OverlapsAreNoted

LEMMA StoresHistory ==
  ASSUME ShapeInv, DateInv, HistoryInv, NEW w \in LookupWorkers, LookupInv(w),
         NEW x \in Words, NEW r \in Rows, Stores(w, x, r)
  PROVE  HistoryInv'
<1>0. /\ disturbed' = disturbed /\ corpus' = corpus /\ expired' = expired
      /\ cache'[x] = cache[x] \cup {r} /\ \A y \in Words \ {x} : cache'[y] = cache[y]
      /\ HasWord(w) /\ x \in Concerns(task[w].word)
  BY StoredRows
<1>1. (r.answer = "found" /\ r.lasting) \/ (task[w].step = "fetch" /\ x = task[w].key /\ ~r.lasting)
  BY DEF Stores
<1>2. ASSUME x \notin disturbed, ~r.lasting
      PROVE  /\ \A row \in cache[x] : ~row.lasting
             /\ \A row \in cache[x] : row.answer = "found" => ~Fresh(row)
  <2>1. ~HasAnswer(x)
    BY <1>1, <1>2, StoredIsLatest
  <2>2. \A row \in cache[x] : ~Fresh(LatestRow(x))
    BY <2>1 DEF HasAnswer
  <2> QED
    BY <1>2, <2>2 DEF HistoryInv, LastingIsLatest, FoundIsLatest, Fresh
<1>3. ASSUME NEW y \in Words \ disturbed' PROVE LastingIsLatest(y)' /\ FoundIsLatest(y)'
  <2>1. CASE y # x
    BY <1>0, <1>3, <2>1, SameRows DEF HistoryInv
  <2>2. CASE y = x
    <3>1. LatestRow(x)' = r
      BY <1>0, <1>3, <2>2, StoredIsLatest
    <3>2. CASE r.answer = "found" /\ r.lasting
      BY <2>2, <3>1, <3>2 DEF LastingIsLatest, FoundIsLatest, Fresh
    <3>3. CASE ~r.lasting
      <4>1. \A row \in cache[x] : ~row.lasting /\ (row.answer = "found" => ~Fresh(row))
        BY <1>0, <1>2, <1>3, <2>2, <3>3
      <4>2. LastingIsLatest(x)'
        BY <1>0, <3>1, <3>3, <4>1 DEF LastingIsLatest
      <4>3. FoundIsLatest(x)'
        BY <1>0, <3>1, <4>1 DEF FoundIsLatest, Fresh
      <4> QED
        BY <2>2, <4>2, <4>3
    <3> QED
      BY <1>1, <3>2, <3>3
  <2> QED
    BY <2>1, <2>2
<1>4. ASSUME NEW y \in Words \ disturbed', ~IsLemma(y), Missed(y)', Lemma[y] \notin disturbed'
      PROVE  Assisted(y)'
  <2>1. PICK m \in Words : m = Lemma[y] /\ m # y
    BY <1>4, LemmaAssumption DEF Missed, IsLemma
  <2>2. /\ Shown(y)' = "not_found" /\ Shown(m)' = "found"
        /\ LatestRow(m)'.at < LatestRow(y)'.at
    BY <1>4, <2>1 DEF Missed
  <2>3. CASE x = m
    <3>1. LatestRow(m)' = r /\ \A row \in cache[y] : row.at < r.at
      BY <1>0, <1>4, <2>1, <2>3, StoredIsLatest DEF Judges
    <3>2. cache'[y] = cache[y] /\ cache[y] # {}
      BY <1>0, <2>1, <2>2, <2>3 DEF Shown, HasAnswer
    <3>3. LatestRow(y)' = LatestRow(y)
      BY <1>0, <3>2, SameRows
    <3>4. LatestRow(y) \in cache[y]
      BY <3>2, LatestRowIsThere
    <3>5. /\ LatestRow(y).at \in Nat /\ r.at \in Nat /\ LatestRow(y).at < r.at
          /\ r.at < LatestRow(y).at
      BY <2>2, <3>1, <3>3, <3>4, DatesAreNumbers DEF Rows
    <3> QED
      BY <3>5
  <2>4. CASE x = y
    <3>1. LatestRow(y)' = r
      BY <1>0, <1>4, <2>4, StoredIsLatest
    <3>2. r.answer # "found"
      BY <2>2, <3>1 DEF Shown
    <3>3. y = task[w].word
      BY <1>0, <1>4, <2>4, WordTask DEF Concerns, IsLemma, Working
    <3>4. /\ HasWord(w)' /\ task'[w].step = "answered" /\ task'[w].word = y
          /\ task'[w].key = y
      BY <2>4, <3>2, <3>3 DEF Stores
    <3> QED
      BY <3>4 DEF Assisted
  <2>5. CASE x # m /\ x # y
    <3>1. cache'[m] = cache[m] /\ cache'[y] = cache[y]
      BY <1>0, <2>1, <2>5
    <3>2. /\ LatestRow(y)' = LatestRow(y) /\ Shown(y)' = Shown(y)
          /\ LatestRow(m)' = LatestRow(m) /\ Shown(m)' = Shown(m)
      BY <1>0, <3>1, SameRows
    <3>3. Missed(y)
      BY <1>4, <2>1, <2>2, <3>2 DEF Missed
    <3>4. PICK u \in LookupWorkers : /\ HasWord(u) /\ task[u].word = y /\ task[u].step = "answered"
                                     /\ task[u].key = y \/ task[u].found
      BY <1>0, <1>4, <3>3 DEF HistoryInv, Assisted
    <3>5. u # w
      BY <2>5, <3>4 DEF Stores
    <3> QED
      BY <3>4, <3>5, StoredRows DEF Assisted
  <2> QED
    BY <2>3, <2>4, <2>5
<1>5. ASSUME NEW y \in corpus', NEW row \in cache'[y], row.answer # "found" PROVE IsLemma(y)
  <2>1. y \in Words
    BY <1>0, <1>5 DEF ShapeInv
  <2>2. CASE row \in cache[y]
    BY <1>0, <1>5, <2>2 DEF HistoryInv
  <2>3. CASE row = r /\ y = x
    <3>1. task[w].step = "fetch" /\ x = task[w].key
      BY <1>1, <1>5, <2>3
    <3> QED
      BY <1>0, <1>5, <2>3, <3>1 DEF LookupInv
  <2> QED
    BY <1>0, <2>1, <2>2, <2>3
<1> QED
  BY <1>3, <1>4, <1>5 DEF HistoryInv

(* Other steps.                                                            *)

LEMMA ExpireKeeps ==
  ASSUME IInv, Expire
  PROVE  OverlapsAreNoted' /\ HistoryInv' /\ \A w \in LookupWorkers : LookupInv(w)'
<1>1. /\ corpus' = corpus /\ cache' = cache /\ disturbed' = disturbed
      /\ \A w \in LookupWorkers : ~HasWord(w) /\ ~HasWord(w)'
      /\ expired \in Nat /\ expired' \in Nat /\ expired' > expired
  <2>1. expired \in Nat /\ NextDate \in Nat
    BY NextDateIsLater DEF IInv, ShapeInv
  <2> QED
    BY <2>1 DEF Expire, HasWord
<1>2. OverlapsAreNoted' /\ \A w \in LookupWorkers : LookupInv(w)'
  BY <1>1 DEF OverlapsAreNoted, LookupInv
<1>3. ASSUME NEW x PROVE LatestRow(x)' = LatestRow(x)
  BY <1>1 DEF LatestRow
<1>4. ASSUME NEW x \in Words, NEW row \in cache[x], Fresh(row)' PROVE Fresh(row)
  BY <1>1, <1>4, DatesAreNumbers DEF Fresh, Rows, IInv
<1>5. ASSUME NEW x \in Words \ disturbed' PROVE LastingIsLatest(x)' /\ FoundIsLatest(x)'
  <2>1. LastingIsLatest(x) /\ FoundIsLatest(x)
    BY <1>1 DEF IInv, HistoryInv
  <2>2. LastingIsLatest(x)'
    BY <1>1, <1>3, <2>1 DEF LastingIsLatest
  <2>3. ASSUME NEW row \in cache[x], row.answer = "found", Fresh(row)'
        PROVE  Fresh(LatestRow(x))' /\ LatestRow(x).answer = "found"
    <3>1. Fresh(LatestRow(x)) /\ LatestRow(x).answer = "found"
      BY <1>4, <2>1, <2>3 DEF FoundIsLatest
    <3>2. /\ LatestRow(x) \in cache[x] /\ row.at <= LatestRow(x).at
          /\ row.at \in Nat /\ LatestRow(x).at \in Nat
      BY LatestRowIsThere, DatesAreNumbers DEF IInv, Rows
    <3>3. CASE row.lasting
      BY <1>3, <2>1, <3>1, <3>3 DEF LastingIsLatest, Fresh
    <3>4. CASE row.at > expired'
      BY <1>1, <1>3, <3>1, <3>2, <3>4 DEF Fresh
    <3> QED
      BY <2>3, <3>3, <3>4 DEF Fresh
  <2>4. FoundIsLatest(x)'
    BY <1>1, <1>3, <2>3 DEF FoundIsLatest
  <2> QED
    BY <2>2, <2>4
<1>6. ASSUME NEW x \in Words, HasAnswer(x)' PROVE HasAnswer(x)
  BY <1>1, <1>3, <1>4, <1>6, LatestRowIsThere DEF HasAnswer, IInv, Fresh
<1>7. ASSUME NEW x \in Words \ disturbed', ~IsLemma(x), Missed(x)',
             Lemma[x] \notin disturbed'
      PROVE  Assisted(x)'
  <2>1. ASSUME NEW y \in Words, Shown(y)' \in {"found", "not_found"}
        PROVE  Shown(y) = Shown(y)'
    <3>1. HasAnswer(y)' /\ HasAnswer(y)
      BY <1>6, <2>1 DEF Shown
    <3> QED
      BY <1>3, <3>1 DEF Shown
  <2>2. Missed(x)
    <3>1. PICK m : m = Lemma[x]
      OBVIOUS
    <3>2. m \in Words /\ Shown(m)' = "found" /\ Shown(x)' = "not_found"
          /\ LatestRow(m)'.at < LatestRow(x)'.at /\ m # NoLemma
      BY <1>7, <3>1, LemmaAssumption DEF Missed
    <3> QED
      BY <1>3, <2>1, <3>1, <3>2 DEF Missed
  <2> QED
    BY <1>1, <1>7, <2>2 DEF IInv, HistoryInv, Assisted
<1>8. \A x \in corpus' : \A row \in cache'[x] : row.answer # "found" => IsLemma(x)
  BY <1>1 DEF IInv, HistoryInv
<1> QED
  BY <1>2, <1>5, <1>7, <1>8 DEF HistoryInv

LEMMA QuietKeeps ==
  ASSUME IInv, UNCHANGED <<corpus, cache, expired, task, disturbed>>
  PROVE  /\ DateInv' /\ OverlapsAreNoted' /\ HistoryInv'
         /\ \A w \in LookupWorkers : LookupInv(w)'
<1>1. \A w : HasWord(w)' = HasWord(w)
  BY DEF HasWord
<1>2. \A x : LatestRow(x)' = LatestRow(x)
  BY DEF LatestRow
<1>3. \A x : HasAnswer(x)' = HasAnswer(x)
  BY <1>2 DEF HasAnswer, Fresh
<1>4. \A x : Shown(x)' = Shown(x)
  BY <1>2, <1>3 DEF Shown
<1>5. OverlapsAreNoted'
  BY <1>1 DEF IInv, OverlapsAreNoted
<1>6. \A w \in LookupWorkers : LookupInv(w)'
  BY <1>1, <1>3 DEF IInv, LookupInv, Earlier
<1>7. DateInv'
  BY <1>1 DEF IInv, DateInv, Dates, RowDates, Begans
<1>8. \A x \in Words \ disturbed' : LastingIsLatest(x)' /\ FoundIsLatest(x)'
  BY <1>2 DEF IInv, HistoryInv, LastingIsLatest, FoundIsLatest, Fresh
<1>9. ASSUME NEW x \in Words \ disturbed', ~IsLemma(x), Missed(x)', Lemma[x] \notin disturbed'
      PROVE  Assisted(x)'
  <2>1. Missed(x)
    BY <1>2, <1>4, <1>9 DEF Missed
  <2> QED
    BY <1>1, <1>9, <2>1 DEF IInv, HistoryInv, Assisted
<1>10. \A x \in corpus' : \A row \in cache'[x] : row.answer # "found" => IsLemma(x)
  BY DEF IInv, HistoryInv
<1> QED
  BY <1>5, <1>6, <1>7, <1>8, <1>9, <1>10 DEF HistoryInv

(***************************************************************************)
(* The inductive invariant.                                                *)
(***************************************************************************)
LEMMA InitInv == LookupInit => IInv
<1> SUFFICES ASSUME LookupInit PROVE IInv
  OBVIOUS
<1>1. ShapeInv
  BY InitShape
<1>2. /\ \A x \in Words : cache[x] = {}
      /\ \A w \in LookupWorkers : ~HasWord(w)
      /\ expired = 0 /\ corpus \subseteq Words
  BY DEF LookupInit, HasWord, Idle
<1>3. Dates = {}
  BY <1>2 DEF Dates, RowDates, Begans
<1>4. DateInv
  BY <1>2, <1>3 DEF DateInv
<1>5. HistoryInv
  BY <1>2 DEF HistoryInv, LastingIsLatest, FoundIsLatest, Missed, Shown, HasAnswer
<1>6. OverlapsAreNoted /\ \A w \in LookupWorkers : LookupInv(w)
  BY <1>2 DEF OverlapsAreNoted, LookupInv
<1> QED
  BY <1>1, <1>4, <1>5, <1>6 DEF IInv

LEMMA WorkerInv ==
  ASSUME IInv, NEW w \in LookupWorkers,
         \/ \E i \in DOMAIN jobs : BeginRun(w, i)
         \/ LookUp(w) \/ FinishRun(w) \/ FailRun(w) \/ Kill(w)
  PROVE  /\ DateInv' /\ OverlapsAreNoted' /\ HistoryInv'
         /\ \A u \in LookupWorkers : LookupInv(u)'
<1>0. ShapeInv /\ DateInv /\ OverlapsAreNoted /\ HistoryInv /\ \A u \in LookupWorkers : LookupInv(u)
  BY DEF IInv
<1>1. ASSUME Ends(w) \/ Opens(w) \/ GoesOn(w)
      PROVE  /\ DateInv' /\ OverlapsAreNoted' /\ HistoryInv'
             /\ \A u \in LookupWorkers : LookupInv(u)'
  <2>1. Keeps(w) /\ (HasWord(w)' => \/ task'[w].began = NextDate
                                    \/ (HasWord(w) /\ task'[w].began = task[w].began))
    BY <1>1 DEF Ends, Opens, GoesOn
  <2>2. DateInv'
    BY <1>0, <2>1, KeepsDates
  <2>3. \A u \in LookupWorkers \ {w} : LookupInv(u)'
    BY <1>0, <2>1, KeepsLookup
  <2> QED
    BY <1>0, <1>1, <2>2, <2>3, OwnLookup, KeepsOverlaps, KeepsHistory
<1>2. CASE StoreLocal(w) \/ Fetch(w) \/ (EndWord(w) /\ CountsForWord(w))
  <2>1. PICK x \in Words, r \in Rows : Stores(w, x, r)
    BY <1>0, <1>2, StoresRow
  <2>2. \A u \in LookupWorkers \ {w} : LookupInv(u)'
    BY <1>0, <2>1, StoresOtherLookup
  <2> QED
    BY <1>0, <2>1, <2>2, StoresDates, StoresOwnLookup, StoresOverlaps, StoresHistory
<1>3. CASE \/ \E i \in DOMAIN jobs : BeginRun(w, i)
           \/ FinishRun(w) \/ FailRun(w) \/ Kill(w)
           \/ (EndWord(w) /\ ~CountsForWord(w))
  BY <1>0, <1>1, <1>3, EndsStep
<1>4. CASE OpenWord(w)
  BY <1>0, <1>1, <1>4, OpensStep
<1>5. CASE FetchIsNotStored(w) \/ FallBack(w)
  BY <1>0, <1>1, <1>5, GoesOnStep
<1> QED
  BY <1>2, <1>3, <1>4, <1>5 DEF LookUp

LEMMA NextInv == IInv /\ [LookupNext]_lookupVars => IInv'
<1> SUFFICES ASSUME IInv, [LookupNext]_lookupVars PROVE IInv'
  OBVIOUS
<1>1. ShapeInv'
  BY NextShape DEF IInv
<1>2. CASE UNCHANGED <<corpus, cache, expired, task, disturbed>>
  BY <1>1, <1>2, QuietKeeps DEF IInv
<1>3. ASSUME NEW t \in Threads, CheckRun(t) \/ (InsertRun(t) /\ (EnqueueRun \/ EnqueueRunFails))
      PROVE  IInv'
  BY <1>2, <1>3 DEF CheckRun, InsertRun
<1>4. ASSUME NEW i \in DOMAIN jobs, SweepRun(i) PROVE IInv'
  BY <1>2, <1>4 DEF SweepRun
<1>5. CASE Expire
  BY <1>1, <1>5, ExpireKeeps, ExpireDates DEF IInv
<1>6. CASE UNCHANGED lookupVars
  BY <1>2, <1>6 DEF lookupVars
<1>7. ASSUME NEW w \in LookupWorkers,
             \/ \E i \in DOMAIN jobs : BeginRun(w, i)
             \/ LookUp(w) \/ FinishRun(w) \/ FailRun(w) \/ Kill(w)
      PROVE  IInv'
  BY <1>1, <1>7, WorkerInv DEF IInv
<1> QED
  BY <1>3, <1>4, <1>5, <1>6, <1>7 DEF LookupNext

LEMMA AlwaysInv == LookupSpec => []IInv
BY InitInv, NextInv, PTL DEF LookupSpec

LEMMA TypesFollow == IInv => LookupTypeOK
<1> SUFFICES ASSUME IInv PROVE LookupTypeOK
  OBVIOUS
<1>1. /\ jobs \in Seq(JobStatuses) /\ messages \in Seq({0, 1}) /\ Len(messages) = Len(jobs)
  BY DEF IInv, ShapeInv
<1>2. \A i \in DOMAIN jobs : /\ jobs[i] \in {"queued", "running", "completed", "failed"}
                             /\ messages[i] \in {0, 1}
  BY <1>1 DEF JobStatuses
<1>3. \A w \in LookupWorkers : HasWord(w) => /\ task[w].word \in task[w].todo
                                             /\ task[w].key \in Concerns(task[w].word)
                                             /\ task[w].began > expired
  BY DEF IInv, DateInv, LookupInv
<1>4. ASSUME NEW x \in Words, NEW row \in cache[x], NEW other \in cache[x]
      PROVE  /\ row.at > 0 /\ row.answer \in Answers
             /\ row.lasting => row.answer = "found"
             /\ row.at = other.at => row = other
  <2>1. row.at \in Nat \ {0} /\ row.answer \in Answers
    BY DatesAreNumbers DEF IInv, Rows
  <2> QED
    BY <2>1 DEF IInv, DateInv
<1> QED
  BY <1>1, <1>2, <1>3, <1>4 DEF IInv, ShapeInv, LookupTypeOK

(* What is shown.                                                          *)

LEMMA SearchStatusIs ==
  ASSUME ShapeInv, DateInv, NEW x \in Words
  PROVE  /\ SearchStatus(x) = "completed" <=> Shown(x) = "found"
         /\ SearchStatus(x) = "no_results" <=> Shown(x) = "not_found"
         /\ SearchStatus(x) \in {"completed", "no_results", "unavailable"}
         /\ Shown(x) \in {"found", "not_found", "unavailable", "unchecked"}
<1>1. CASE ~HasAnswer(x)
  BY <1>1 DEF SearchStatus, Shown
<1>2. CASE HasAnswer(x)
  <2>1. LatestRow(x).answer \in Answers
    BY <1>2, ShownIs
  <2> QED
    BY <1>2, <2>1 DEF SearchStatus, Shown, Answers
<1> QED
  BY <1>1, <1>2

LEMMA AlikeFollows ==
  ASSUME IInv
  PROVE  ShownAlike
<1>1. FoundForms = {x \in Words : Shown(x) = "found"}
  BY ShownIs DEF FoundForms, CompletedForms, IInv
<1>2. NotFoundForms = {x \in Words : Shown(x) = "not_found"}
  BY ShownIs DEF NotFoundForms, CompletedForms, IInv
<1>3. ASSUME NEW x \in Words
      PROVE  <<Shown(x), SearchStatus(x)>>
               \in IF x \in FoundForms THEN {<<"found", "completed">>}
                   ELSE IF x \in NotFoundForms THEN {<<"not_found", "no_results">>}
                   ELSE {"unchecked", "unavailable"} \X {"unavailable"}
  BY <1>1, <1>2, SearchStatusIs DEF IInv
<1>4. Summary.unchecked = Cardinality(Words \ (FoundForms \cup NotFoundForms))
  <2> DEFINE F == FoundForms
             N == NotFoundForms
  <2>1. F \subseteq Words /\ N \subseteq Words /\ F \cap N = {} /\ IsFiniteSet(Words)
    BY <1>1, <1>2, WordsAssumption
  <2>2. Summary.unchecked = Cardinality(Words) - Cardinality(F) - Cardinality(N)
    BY DEF Summary
  <2> HIDE DEF F, N
  <2>3. IsFiniteSet(F) /\ IsFiniteSet(N) /\ IsFiniteSet(F \cup N)
    BY <2>1, FS_Subset
  <2>4. Cardinality(F \cup N) = Cardinality(F) + Cardinality(N)
    <3>1. Cardinality(F \cap N) = 0
      BY <2>1, FS_EmptySet
    <3>2. Cardinality(F) \in Nat /\ Cardinality(N) \in Nat
      BY <2>3, FS_CardinalityType
    <3>3. Cardinality(F \cup N) = Cardinality(F) + Cardinality(N) - Cardinality(F \cap N)
      BY <2>3, FS_Union
    <3> QED
      BY <3>1, <3>2, <3>3
  <2>5. Cardinality(Words \ (F \cup N)) = Cardinality(Words) - Cardinality(F \cup N)
    <3>1. Words \cap (F \cup N) = F \cup N
      BY <2>1
    <3> QED
      BY <2>1, <2>3, <3>1, FS_Difference
  <2> QED
    BY <2>1, <2>2, <2>3, <2>4, <2>5, FS_CardinalityType DEF F, N
<1> QED
  BY <1>3, <1>4 DEF ShownAlike

LEMMA KnownFollows ==
  ASSUME IInv
  PROVE  KnownWordsAreShown
<1>1. ASSUME NEW x \in Words \ disturbed,
             \A w \in LookupWorkers : HasWord(w) => x \notin Concerns(task[w].word)
      PROVE  /\ Shown(x) # "found" => ~\E row \in cache[x] : row.answer = "found" /\ Fresh(row)
             /\ /\ Lemma[x] # NoLemma /\ Shown(x) = "not_found"
                /\ Shown(Lemma[x]) = "found" /\ Lemma[x] \notin disturbed
                /\ LatestRow(Lemma[x]).at < LatestRow(x).at
                => IsLemma(x)
  <2>1. LastingIsLatest(x) /\ FoundIsLatest(x)
    BY DEF IInv, HistoryInv
  <2>2. Shown(x) # "found" => ~\E row \in cache[x] : row.answer = "found" /\ Fresh(row)
    BY <2>1, ShownIs DEF FoundIsLatest, HasAnswer, IInv
  <2>3. Missed(x) /\ Lemma[x] \notin disturbed => IsLemma(x)
    <3>1. ~Assisted(x)
      BY <1>1, ConcernsAreWords DEF Assisted
    <3> QED
      BY <3>1 DEF IInv, HistoryInv
  <2> QED
    BY <2>2, <2>3 DEF Missed
<1>2. ASSUME NEW x \in Words, x \in corpus, Shown(x) \in {"not_found", "unavailable"}
      PROVE  IsLemma(x)
  <2>1. LatestRow(x) \in cache[x] /\ LatestRow(x).answer # "found"
    BY <1>2, ShownIs DEF IInv
  <2> QED
    BY <1>2, <2>1 DEF IInv, HistoryInv
<1>3. ShownAlike
  BY AlikeFollows
<1> QED
  BY <1>1, <1>2, <1>3 DEF KnownWordsAreShown

\* The types of the runs, of the requests, of the lookups and of the cache (LookupTypeOK).
THEOREM LookupTypeCorrect == LookupSpec => []LookupTypeOK
BY AlwaysInv, TypesFollow, PTL

\* A word that was found is shown as found, alike everywhere (KnownWordsAreShown).
THEOREM KnownWordsStayShown == LookupSpec => []KnownWordsAreShown
<1>1. IInv => KnownWordsAreShown
  BY KnownFollows
<1> QED
  BY <1>1, AlwaysInv, PTL

\* The rows of a word are never taken back.
LEMMA RowsStay ==
  ASSUME IInv, [LookupNext]_lookupVars, NEW x \in Words
  PROVE  cache[x] \subseteq cache'[x]
<1>0. cache = [y \in Words |-> cache[y]]
  BY DEF IInv, ShapeInv
<1>1. ASSUME NEW t \in Threads, CheckRun(t) \/ (InsertRun(t) /\ (EnqueueRun \/ EnqueueRunFails))
      PROVE  UNCHANGED cache
  BY <1>1 DEF CheckRun, InsertRun
<1>2. ASSUME NEW w \in LookupWorkers, NEW i \in DOMAIN jobs, BeginRun(w, i)
      PROVE  UNCHANGED cache
  BY <1>2 DEF BeginRun
<1>3. ASSUME NEW w \in LookupWorkers, FinishRun(w) \/ FailRun(w) \/ Kill(w)
      PROVE  UNCHANGED cache
  BY <1>3 DEF FinishRun, FailRun, Kill
<1>4. ASSUME NEW w \in LookupWorkers, LookUp(w)
      PROVE  \/ UNCHANGED cache
             \/ \E y, answer, lasting : Store(w, y, answer, lasting)
  BY <1>4 DEF LookUp, OpenWord, StoreLocal, Fetch, FetchIsNotStored, FallBack, EndWord
<1>5. ASSUME NEW w, NEW y, NEW answer, NEW lasting, Store(w, y, answer, lasting)
      PROVE  cache[x] \subseteq cache'[x]
  BY <1>0, <1>5 DEF Store
<1>6. ASSUME NEW i \in DOMAIN jobs, SweepRun(i) PROVE UNCHANGED cache
  BY <1>6 DEF SweepRun
<1>7. Expire \/ UNCHANGED lookupVars => UNCHANGED cache
  BY DEF Expire, lookupVars
<1> QED
  BY <1>1, <1>2, <1>3, <1>4, <1>5, <1>6, <1>7 DEF LookupNext

\* What is shown as found is withdrawn only when rows expire, or when lookups that
\* concern the word overlapped or were cut short: no failed or empty answer of a later
\* run, another thread's request or the lookup of another word with this lemma hides it.
FindingsAreKept ==
    \A x \in Words : Shown(x) = "found" =>
        \/ Shown(x)' = "found"
        \/ expired' # expired
        \/ x \in disturbed'

\* A finding is shown until it expires, whatever is asked and answered afterwards
\* (FindingsAreKept), unless lookups of the word overlapped or were cut short.
THEOREM FindingsStayShown == LookupSpec => [][FindingsAreKept]_lookupVars
<1>1. IInv /\ IInv' /\ [LookupNext]_lookupVars => FindingsAreKept
  <2> SUFFICES ASSUME IInv, IInv', [LookupNext]_lookupVars,
                      NEW x \in Words, Shown(x) = "found",
                      expired' = expired, x \notin disturbed'
               PROVE  Shown(x)' = "found"
    BY DEF FindingsAreKept
  <2>1. HasAnswer(x) /\ LatestRow(x).answer = "found" /\ LatestRow(x) \in cache[x]
    BY ShownIs DEF IInv
  <2>2. PICK row \in cache[x] : row.answer = "found" /\ Fresh(row)
    BY <2>1 DEF HasAnswer
  <2>3. row \in cache'[x] /\ Fresh(row)'
    BY <2>2, RowsStay DEF Fresh
  <2>4. FoundIsLatest(x)'
    BY DEF IInv, HistoryInv
  <2>5. HasAnswer(x)' /\ LatestRow(x)'.answer = "found"
    BY <2>2, <2>3, <2>4 DEF FoundIsLatest, HasAnswer
  <2> QED
    BY <2>5 DEF Shown
<1> QED
  BY <1>1, AlwaysInv, PTL DEF LookupSpec
================================================================================
