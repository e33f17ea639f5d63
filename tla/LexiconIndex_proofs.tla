-------------------------- MODULE LexiconIndex_proofs --------------------------
(***************************************************************************)
(* Proofs about LexiconIndex, for every set of documents, forms and        *)
(* rebuild tasks, every text and every bound.                              *)
(***************************************************************************)
EXTENDS LexiconIndex, TLAPS

--------------------------------------------------------------------------------
(* Types.                                                                  *)

LEMMA CountsType ==
  ASSUME TypeOK, NEW x \in Processes
  PROVE  /\ txn[x] \in Transactions
         /\ \A d \in Docs, f \in Forms : /\ slice[d][f] \in Nat
                                         /\ occ[d][f] \in Nat
                                         /\ txn[x].own[d][f] \in Nat
         /\ slice \in [Docs -> Counts] /\ occ \in [Docs -> Counts]
<1>1. txn[x] \in Transactions /\ slice \in [Docs -> Counts] /\ occ \in [Docs -> Counts]
  BY DEF TypeOK
<1>2. txn[x].own \in [Docs -> Counts]
  BY <1>1 DEF Transactions
<1> QED
  BY <1>1, <1>2 DEF Counts

LEMMA ViewType ==
  ASSUME TypeOK, NEW x \in Processes
  PROVE  /\ View(x) \in [Docs -> Counts]
         /\ ReadRows(x) \in [Forms -> [Docs -> Nat]]
<1>1. View(x) \in [Docs -> Counts]
  BY CountsType DEF View, Counts
<1>2. \A d \in Docs, f \in Forms : View(x)[d][f] \in Nat
  BY <1>1 DEF Counts
<1> QED
  BY <1>1, <1>2 DEF ReadRows

LEMMA InsertedType ==
  ASSUME TypeOK, NEW x \in Processes
  PROVE  /\ LeftBy(x) \in [Docs -> Counts]
         /\ Inserted(x) \in [Docs -> Counts]
<1>1. LeftBy(x) \in [Docs -> Counts]
  BY CountsType DEF LeftBy, Counts, NoCounts
<1>2. \A d \in Docs, f \in Forms : LeftBy(x)[d][f] \in Nat
  BY <1>1 DEF Counts
<1> QED
  BY <1>1, <1>2, CountsType DEF Inserted, Counts

LEMMA ClosedType == Closed \in Transactions
BY DEF Closed, Transactions, Steps, Ops, NoCounts, NoRow, Counts

LEMMA BeginType ==
  ASSUME TypeOK, NEW x \in Processes, NEW op \in Ops,
         NEW D \in SUBSET Docs, NEW F \in SUBSET Forms, Begin(x, op, D, F)
  PROVE  txn' \in [Processes -> Transactions]
<1> DEFINE t == [Closed EXCEPT !.step = IF op = "save" THEN "replaced" ELSE "begun",
                    !.op = op, !.docs = D, !.forms = F, !.dropped = DroppedBy(op)]
<1>1. DroppedBy(op) \in SUBSET Forms
  BY DEF TypeOK, DroppedBy
<1>2. t \in Transactions
  BY <1>1, ClosedType DEF Transactions, Steps
<1>3. txn \in [Processes -> Transactions] /\ txn' = [txn EXCEPT ![x] = t]
  BY DEF TypeOK, Begin
<1> HIDE DEF t
<1> QED
  BY <1>2, <1>3

LEMMA ReplaceType ==
  ASSUME TypeOK, NEW x \in Processes, ReplaceSlices(x)
  PROVE  txn' \in [Processes -> Transactions]
<1> DEFINE t == txn[x]
           touched == {p \in t.docs \X Forms :
                          \/ t.step # "missed" /\ slice[p[1]][p[2]] > 0
                          \/ t.op # "clear" /\ occ[p[1]][p[2]] > 0}
           forms == IF t.op = "clear" THEN t.forms ELSE UNION {FormsOf(occ[d]) : d \in t.docs}
           new == [t EXCEPT !.step = "replaced", !.pairs = touched,
                            !.own = Inserted(x), !.forms = forms]
<1>1. t \in Transactions /\ txn \in [Processes -> Transactions]
  BY DEF TypeOK
<1>2. t.docs \in SUBSET Docs /\ t.forms \in SUBSET Forms
  BY <1>1 DEF Transactions
<1>3. touched \in SUBSET (Docs \X Forms)
  BY <1>2
<1>4. forms \in SUBSET Forms
  BY <1>2 DEF FormsOf
<1>5. txn' = [txn EXCEPT ![x] = new]
  BY DEF ReplaceSlices
<1>6. Inserted(x) \in [Docs -> Counts]
  BY InsertedType
<1>7. new \in Transactions
  <2> HIDE DEF touched, forms, t
  <2> QED
    BY <1>1, <1>3, <1>4, <1>6 DEF Transactions, Steps
<1> HIDE DEF new
<1> QED
  BY <1>1, <1>5, <1>7

LEMMA TransactType ==
  ASSUME TypeOK, NEW x \in Processes, Transact(x)
  PROVE  TypeOK'
<1>1. txn' \in [Processes -> Transactions]
  <2>1. txn[x] \in Transactions /\ txn \in [Processes -> Transactions]
    BY DEF TypeOK
  <2>2. CASE Block(x)
    BY <2>1, <2>2 DEF Block, Transactions, Steps
  <2>3. CASE ReplaceSlices(x)
    BY <2>3, ReplaceType
  <2>4. CASE StartPublish(x)
    <3>1. RowsToWrite(x) \in SUBSET Forms
      BY <2>1 DEF RowsToWrite, Transactions
    <3> QED
      BY <2>1, <2>4, <3>1, ViewType DEF StartPublish, Transactions, Steps
  <2>5. ASSUME NEW f \in Forms, WriteRow(x, f) PROVE txn' \in [Processes -> Transactions]
    BY <2>1, <2>5 DEF WriteRow, Transactions
  <2> QED
    BY <2>2, <2>3, <2>4, <2>5 DEF Transact
<1>2. UNCHANGED <<docVars, occ, indexVars, bounds>>
  BY DEF Transact, Block, ReplaceSlices, StartPublish, WriteRow
<1> QED
  BY <1>1, <1>2 DEF TypeOK, docVars, indexVars, bounds

LEMMA WitnessedType ==
  ASSUME TypeOK, NEW x \in Processes
  PROVE  Witnessed(x) \in [Processes -> Transactions]
<1> DEFINE W(y) == [txn[y] EXCEPT
            !.step = IF @ = "blocked" /\ \E p \in txn[x].pairs : p[1] \in txn[y].docs
                     THEN "missed" ELSE @,
            !.alone = @ /\ ~Open(y)]
<1>1. ASSUME NEW y \in Processes PROVE W(y) \in Transactions
  <2>1. txn[y] \in Transactions
    BY DEF TypeOK
  <2> DEFINE s == IF txn[y].step = "blocked" /\ \E p \in txn[x].pairs : p[1] \in txn[y].docs
                  THEN "missed" ELSE txn[y].step
             a == txn[y].alone /\ ~Open(y)
  <2>2. s \in Steps
    BY <2>1 DEF Transactions, Steps
  <2>3. a \in BOOLEAN
    OBVIOUS
  <2>4. W(y) = [txn[y] EXCEPT !.step = s, !.alone = a]
    BY <2>1 DEF Transactions
  <2> HIDE DEF s, a, W
  <2> QED
    BY <2>1, <2>2, <2>3, <2>4 DEF Transactions
<1>2. Witnessed(x) = [y \in Processes |-> IF y = x THEN Closed ELSE W(y)]
  BY DEF Witnessed
<1> HIDE DEF W
<1> QED
  BY <1>1, <1>2, ClosedType

LEMMA CommitType ==
  ASSUME TypeOK, NEW x \in Processes, Commit(x)
  PROVE  /\ slice' \in [Docs -> Counts] /\ listed' \subseteq Forms
         /\ merged' \in [Forms -> [Docs -> Nat]] /\ stale' \subseteq Forms
         /\ txn' \in [Processes -> Transactions]
<1>1. txn[x] \in Transactions
  BY DEF TypeOK
<1>2. /\ txn[x].rows \subseteq Forms /\ txn[x].dropped \subseteq Forms
      /\ txn[x].forms \subseteq Forms /\ txn[x].seen \in [Forms -> [Docs -> Nat]]
  BY <1>1 DEF Transactions
<1>3. slice' \in [Docs -> Counts] /\ txn' \in [Processes -> Transactions]
  BY ViewType, WitnessedType DEF Commit
<1>4. listed' \subseteq Forms /\ stale' \subseteq Forms
  BY <1>2 DEF Commit, TypeOK, Held
<1>5. merged' \in [Forms -> [Docs -> Nat]]
  <2>1. merged \in [Forms -> [Docs -> Nat]] /\ NoRow \in [Docs -> Nat]
    BY DEF TypeOK, NoRow
  <2> QED
    BY <1>2, <2>1 DEF Commit
<1> QED
  BY <1>3, <1>4, <1>5

LEMMA RollbackType ==
  ASSUME TypeOK, NEW x \in Processes, Rollback(x), stage' \in [Docs -> Stages]
  PROVE  TypeOK'
<1>1. txn' \in [Processes -> Transactions]
  BY ClosedType DEF Rollback, TypeOK
<1>2. faults' \in 0..MaxFaults
  BY BoundsAssumption DEF Rollback, TypeOK, Fault
<1> QED
  BY <1>1, <1>2 DEF Rollback, TypeOK, indexVars

LEMMA PageType ==
  ASSUME TypeOK, NEW d \in Docs, done[d] < PageCount
  PROVE  /\ NextPage(d) \in Counts
         /\ FormsOf(NextPage(d)) \subseteq Forms
<1>1. done[d] \in 0..PageCount /\ PageCount \in Nat
  BY PagesAssumption DEF TypeOK
<1>2. done[d] + 1 \in 1..PageCount
  BY <1>1
<1> QED
  BY <1>2, TextAssumption DEF NextPage, FormsOf, Counts

LEMMA StorePageType ==
  ASSUME TypeOK, NEW d \in Docs, StorePage(d)
  PROVE  TypeOK'
<1>1. done[d] < PageCount
  BY DEF StorePage
<1>2. ASSUME NEW counts \in [Docs -> Counts]
      PROVE  [counts EXCEPT ![d] = [f \in Forms |-> @[f] + NextPage(d)[f]]] \in [Docs -> Counts]
  <2>1. \A f \in Forms : counts[d][f] \in Nat /\ NextPage(d)[f] \in Nat
    BY <1>1, PageType DEF Counts
  <2>2. [f \in Forms |-> counts[d][f] + NextPage(d)[f]] \in Counts
    BY <2>1 DEF Counts
  <2> QED
    BY <2>2
<1>3. occ' \in [Docs -> Counts] /\ slice' \in [Docs -> Counts]
  BY <1>2 DEF StorePage, TypeOK
<1>4. txn' \in [Processes -> Transactions]
  <2>1. ASSUME NEW x \in Processes
        PROVE  [txn[x] EXCEPT !.alone = @ /\ ~Open(x)] \in Transactions
    <3>1. txn[x] \in Transactions
      BY DEF TypeOK
    <3> DEFINE a == txn[x].alone /\ ~Open(x)
    <3>2. a \in BOOLEAN
      OBVIOUS
    <3>3. [txn[x] EXCEPT !.alone = @ /\ ~Open(x)] = [txn[x] EXCEPT !.alone = a]
      BY <3>1
    <3> HIDE DEF a
    <3> QED
      BY <3>1, <3>2, <3>3 DEF Transactions
  <2> QED
    BY <2>1 DEF StorePage
<1>5. done' \in [Docs -> 0..PageCount]
  BY <1>1, PagesAssumption DEF StorePage, TypeOK
<1>6. affected' \in [Docs -> SUBSET Forms]
  BY <1>1, PageType DEF StorePage, TypeOK
<1> QED
  BY <1>3, <1>4, <1>5, <1>6 DEF StorePage, TypeOK, bounds

LEMMA IngestType ==
  ASSUME TypeOK, NEW d \in Docs, Ingest(d)
  PROVE  TypeOK'
<1> USE BoundsAssumption
<1>0. d \in Processes
  BY DEF Processes
<1>1. CASE StartClear(d)
  <2>1. FormsOf(slice[d]) \subseteq Forms
    BY DEF FormsOf
  <2>2. txn' \in [Processes -> Transactions]
    BY <1>0, <1>1, <2>1, BeginType DEF StartClear, Ops
  <2>3. starts' \in [Docs -> 0..MaxStarts]
    BY <1>1 DEF StartClear, TypeOK
  <2>4. stage' \in [Docs -> Stages] /\ resumed' \in [Docs -> BOOLEAN]
    BY <1>1 DEF StartClear, TypeOK, Stages
  <2> QED
    BY <1>1, <2>2, <2>3, <2>4 DEF StartClear, TypeOK, indexVars
<1>2. CASE CommitClear(d)
  BY <1>0, <1>2, CommitType, PagesAssumption
  DEF CommitClear, TypeOK, bounds, Stages, NoCounts, Counts
<1>3. CASE StartResume(d)
  BY <1>3 DEF StartResume, TypeOK, indexVars, Stages
<1>4. CASE StorePage(d)
  BY <1>4, StorePageType
<1>5. CASE StorePageFails(d)
  BY <1>5 DEF StorePageFails, TypeOK, indexVars, bounds, Stages
<1>6. CASE StartSave(d)
  <2>1. affected[d] \subseteq Forms /\ {} \subseteq Forms
    BY DEF TypeOK
  <2>2. txn' \in [Processes -> Transactions]
    BY <1>0, <1>6, <2>1, BeginType DEF StartSave, Ops
  <2> QED
    BY <1>6, <2>2 DEF StartSave, TypeOK, indexVars, bounds, Stages
<1>7. CASE CommitSave(d)
  BY <1>0, <1>7, CommitType DEF CommitSave, TypeOK, bounds, Stages
<1>8. CASE Finish(d)
  BY <1>8 DEF Finish, TypeOK, indexVars, bounds, Stages
<1>9. CASE FailRun(d)
  BY <1>9 DEF FailRun, Fault, TypeOK, indexVars, Stages
<1>10. CASE FailTransaction(d)
  <2>1. stage' \in [Docs -> Stages]
    BY <1>10 DEF FailTransaction, TypeOK, Stages
  <2> QED
    BY <1>0, <1>10, <2>1, RollbackType DEF FailTransaction
<1> QED
  BY <1>1, <1>2, <1>3, <1>4, <1>5, <1>6, <1>7, <1>8, <1>9, <1>10 DEF Ingest

LEMMA RebuildType ==
  ASSUME TypeOK, NEW x \in Tasks, Rebuild(x)
  PROVE  TypeOK'
<1>0. x \in Processes
  BY DEF Processes
<1>1. CASE StartRebuild(x)
  <2>1. txn' \in [Processes -> Transactions]
    <3>1. ASSUME NEW d \in Docs, Begin(x, "document", {d}, {})
          PROVE  txn' \in [Processes -> Transactions]
      BY <1>0, <3>1, BeginType DEF Ops
    <3>2. CASE Begin(x, "user", Docs, {})
      BY <1>0, <3>2, BeginType DEF Ops
    <3> QED
      BY <1>1, <3>1, <3>2 DEF StartRebuild
  <2>2. rebuilds' \in 0..MaxRebuilds
    BY <1>1, BoundsAssumption DEF StartRebuild, TypeOK
  <2> QED
    BY <1>1, <2>1, <2>2 DEF StartRebuild, TypeOK, docVars, indexVars
<1>2. CASE CommitRebuild(x)
  BY <1>0, <1>2, CommitType DEF CommitRebuild, TypeOK, docVars, bounds
<1>3. CASE FailRebuild(x)
  <2>1. stage' \in [Docs -> Stages]
    BY <1>3 DEF FailRebuild, TypeOK
  <2> QED
    BY <1>0, <1>3, <2>1, RollbackType DEF FailRebuild
<1> QED
  BY <1>1, <1>2, <1>3 DEF Rebuild

LEMMA StutterType == TypeOK /\ UNCHANGED vars => TypeOK'
BY DEF TypeOK, vars, docVars, indexVars, bounds

\* The index, the workers and the transactions always have their types.
THEOREM IndexTypeCorrect == Spec => []TypeOK
<1>1. Init => TypeOK
  BY ClosedType, BoundsAssumption, PagesAssumption
  DEF Init, TypeOK, Stages, Counts, NoCounts, NoRow
<1>2. TypeOK /\ [Next]_vars => TypeOK'
  BY TransactType, IngestType, RebuildType, StutterType DEF Next
<1> QED
  BY <1>1, <1>2, PTL DEF Spec

--------------------------------------------------------------------------------
(* Slices.  A clearing transaction meets nobody on its document: workers   *)
(* keep to theirs, and no rebuild runs.  So it sees and removes all slices *)
(* of the document; every other transaction writes what the occurrences    *)
(* say.                                                                    *)

ClosedIsEmpty(x) ==
    ~Open(x) => /\ txn[x].op = "save" /\ txn[x].docs = {} /\ txn[x].pairs = {}
                /\ txn[x].dropped = {} /\ txn[x].rows = {}

OwnDocument(x) ==
    x \in Docs => txn[x].docs \subseteq {x} /\ \A p \in txn[x].pairs : p[1] = x

ClearIsClearing(x) == txn[x].op = "clear" => x \in Docs /\ stage[x] = "clearing"

ClearIsComplete(x) ==
    txn[x].op = "clear" =>
        \/ /\ txn[x].step = "begun"
           /\ x \in txn[x].docs \/ \A f \in Forms : slice[x][f] = 0
        \/ /\ txn[x].step \in {"replaced", "writing"}
           /\ \A f \in Forms : /\ <<x, f>> \in txn[x].pairs => txn[x].own[x][f] = 0
                               /\ <<x, f>> \notin txn[x].pairs => slice[x][f] = 0

OthersAreExact(x) ==
    txn[x].op # "clear" =>
        \A d \in Docs, f \in Forms : <<d, f>> \in txn[x].pairs => txn[x].own[d][f] = occ[d][f]

Sound(x) == /\ ClosedIsEmpty(x) /\ OwnDocument(x)
            /\ ClearIsClearing(x) /\ ClearIsComplete(x) /\ OthersAreExact(x)

ClearWaitsForTasks == \A d \in Docs : stage[d] = "clearing" => \A x \in Tasks : ~Open(x)

SliceInv == /\ TypeOK /\ SlicesAreExact /\ ClearWaitsForTasks
            /\ \A x \in Processes : Sound(x)

\* What a step leaves of the transactions of other processes.
Kept(y) ==
    /\ txn'[y].op = txn[y].op /\ txn'[y].docs = txn[y].docs
    /\ txn'[y].pairs = txn[y].pairs /\ txn'[y].own = txn[y].own
    /\ txn'[y].forms = txn[y].forms /\ txn'[y].todo = txn[y].todo
    /\ txn'[y].dropped = txn[y].dropped /\ txn'[y].rows = txn[y].rows
    /\ \/ txn'[y].step = txn[y].step
       \/ txn[y].step = "blocked" /\ txn'[y].step = "missed"

LEMMA CommitKeeps ==
  ASSUME TypeOK, NEW x \in Processes, Commit(x)
  PROVE  /\ txn'[x] = Closed
         /\ \A y \in Processes \ {x} : Kept(y)
<1>1. txn' = Witnessed(x)
  BY DEF Commit
<1>2. txn'[x] = Closed
  BY <1>1 DEF Witnessed
<1>3. ASSUME NEW y \in Processes \ {x} PROVE Kept(y)
  <2>1. txn[y] \in Transactions
    BY DEF TypeOK
  <2> DEFINE s == IF txn[y].step = "blocked" /\ \E p \in txn[x].pairs : p[1] \in txn[y].docs
                  THEN "missed" ELSE txn[y].step
             a == txn[y].alone /\ ~Open(y)
  <2>2. txn'[y] = [txn[y] EXCEPT !.step = s, !.alone = a]
    BY <1>1, <2>1 DEF Witnessed, Transactions
  <2>3. s = txn[y].step \/ (txn[y].step = "blocked" /\ s = "missed")
    OBVIOUS
  <2> HIDE DEF s, a
  <2> QED
    BY <2>1, <2>2, <2>3 DEF Kept, Transactions
<1> QED
  BY <1>2, <1>3

LEMMA StorePageKeeps ==
  ASSUME TypeOK, NEW d \in Docs, StorePage(d)
  PROVE  \A y \in Processes : Kept(y)
<1> SUFFICES ASSUME NEW y \in Processes PROVE Kept(y)
  OBVIOUS
<1>1. txn[y] \in Transactions
  BY DEF TypeOK
<1> DEFINE a == txn[y].alone /\ ~Open(y)
<1>2. txn'[y] = [txn[y] EXCEPT !.alone = a]
  BY <1>1 DEF StorePage
<1> HIDE DEF a
<1> QED
  BY <1>1, <1>2 DEF Kept, Transactions

LEMMA UnchangedKeeps ==
  ASSUME NEW y, txn'[y] = txn[y]
  PROVE  Kept(y)
BY DEF Kept

\* Nobody but d's worker holds slices of d while it clears.
LEMMA NobodyHolds ==
  ASSUME SliceInv, NEW d \in Docs, stage[d] = "clearing",
         NEW y \in Processes \ {d}, NEW f \in Forms
  PROVE  <<d, f>> \notin txn[y].pairs
<1>1. CASE y \in Docs
  BY <1>1 DEF SliceInv, Sound, OwnDocument
<1>2. CASE y \in Tasks
  BY <1>2 DEF SliceInv, Sound, ClearWaitsForTasks, ClosedIsEmpty
<1> QED
  BY <1>1, <1>2 DEF Processes

\* So its DELETE waits for nobody.
LEMMA ClearWaitsForNobody ==
  ASSUME SliceInv, NEW d \in Docs, stage[d] = "clearing"
  PROVE  SliceHolders(d, txn[d].docs) = {}
<1> SUFFICES ASSUME NEW y \in Processes \ {d}, NEW p \in txn[y].pairs, p[1] \in txn[d].docs
             PROVE  FALSE
  BY DEF SliceHolders
<1>1. p[1] = d
  <2>1. Sound(d)
    BY DEF SliceInv, Processes
  <2> QED
    BY <2>1 DEF Sound, OwnDocument
<1>2. txn[y] \in Transactions
  BY DEF SliceInv, TypeOK
<1>3. p \in Docs \X Forms
  BY <1>2 DEF Transactions
<1>4. p = <<d, p[2]>> /\ p[2] \in Forms
  BY <1>1, <1>3
<1> QED
  BY <1>4, NobodyHolds

\* A transaction stays sound while its fields, its document's stage and the
\* counts of its slices stay.
LEMMA KeptStaysSound ==
  ASSUME NEW y, Sound(y), Kept(y),
         y \in Docs => stage'[y] = stage[y] /\ slice'[y] = slice[y],
         \A d \in Docs, f \in Forms : <<d, f>> \in txn[y].pairs => occ'[d][f] = occ[d][f]
  PROVE  Sound(y)'
<1>1. ClosedIsEmpty(y)' /\ OwnDocument(y)' /\ ClearIsClearing(y)'
  BY DEF Sound, Kept, ClosedIsEmpty, OwnDocument, ClearIsClearing, Open
<1>2. ClearIsComplete(y)'
  BY DEF Sound, Kept, ClearIsClearing, ClearIsComplete
<1>3. OthersAreExact(y)'
  BY DEF Sound, Kept, OthersAreExact
<1> QED
  BY <1>1, <1>2, <1>3 DEF Sound

\* A step of x that changes no count keeps the invariant if it keeps x sound,
\* and starts no task beside a clear.
LEMMA QuietStep ==
  ASSUME SliceInv, TypeOK', NEW x \in Processes,
         occ' = occ, slice' = slice,
         \A y \in Processes \ {x} : Kept(y),
         \A d \in Docs \ {x} : stage'[d] = stage[d],
         ClearWaitsForTasks',
         Sound(x)'
  PROVE  SliceInv'
<1>1. ASSUME NEW y \in Processes \ {x} PROVE Sound(y)'
  BY <1>1, KeptStaysSound DEF SliceInv
<1> QED
  BY <1>1 DEF SliceInv, SlicesAreExact

LEMMA TransactSlices ==
  ASSUME SliceInv, NEW x \in Processes, Transact(x)
  PROVE  SliceInv'
<1>1. /\ txn \in [Processes -> Transactions] /\ txn[x] \in Transactions
      /\ TypeOK /\ Sound(x) /\ slice = occ
      /\ txn[x].op = "clear" => x \in Docs /\ stage[x] = "clearing"
  BY DEF SliceInv, SlicesAreExact, TypeOK, Sound, ClearIsClearing
<1>2. /\ occ' = occ /\ slice' = slice /\ stage' = stage
      /\ \A y \in Processes \ {x} : txn'[y] = txn[y]
  BY <1>1 DEF Transact, Block, ReplaceSlices, StartPublish, WriteRow, docVars, indexVars
<1>3. Sound(x)'
  <2>1. CASE Block(x)
    <3>1. txn[x].op # "clear"
      BY <1>1, <2>1, ClearWaitsForNobody DEF Block
    <3> QED
      BY <1>1, <1>2, <2>1, <3>1 DEF Block, Transactions, Sound, Open, ClosedIsEmpty,
         OwnDocument, ClearIsClearing, ClearIsComplete, OthersAreExact
  <2>2. CASE ReplaceSlices(x)
    <3> DEFINE touched == {p \in txn[x].docs \X Forms :
                              \/ txn[x].step # "missed" /\ slice[p[1]][p[2]] > 0
                              \/ txn[x].op # "clear" /\ occ[p[1]][p[2]] > 0}
    <3>1. /\ txn'[x].step = "replaced" /\ txn'[x].op = txn[x].op
          /\ txn'[x].docs = txn[x].docs /\ txn'[x].pairs = touched
          /\ txn'[x].own = Inserted(x)
      BY <1>1, <2>2 DEF ReplaceSlices, Transactions
    <3>2. txn[x].docs \subseteq Docs /\ txn[x].step \in {"begun", "blocked", "missed"}
      BY <1>1, <2>2 DEF ReplaceSlices, Transactions
    <3>3. ClosedIsEmpty(x)' /\ OwnDocument(x)' /\ ClearIsClearing(x)'
      BY <1>1, <1>2, <3>1, <3>2 DEF Sound, Open, ClosedIsEmpty, OwnDocument, ClearIsClearing
    <3>4. ClearIsComplete(x)'
      <4>1. SUFFICES ASSUME txn[x].op = "clear", NEW f \in Forms
                     PROVE  /\ <<x, f>> \in touched => Inserted(x)[x][f] = 0
                            /\ <<x, f>> \notin touched => slice[x][f] = 0
        BY <1>2, <3>1 DEF ClearIsComplete
      <4>2. x \in Docs /\ txn[x].step = "begun"
            /\ (x \in txn[x].docs \/ slice[x][f] = 0)
        BY <1>1, <3>2, <4>1 DEF Sound, ClearIsComplete
      <4>3. slice[x][f] \in Nat
        BY <1>1, <4>2, CountsType
      <4>4. <<x, f>> \notin touched => slice[x][f] = 0
        BY <4>2, <4>3
      <4>5. <<x, f>> \in touched => Inserted(x)[x][f] = 0
        BY <4>1, <4>2 DEF Inserted, LeftBy, NoCounts
      <4> QED
        BY <4>4, <4>5
    <3>5. OthersAreExact(x)'
      <4>1. SUFFICES ASSUME txn[x].op # "clear", NEW d \in Docs, NEW f \in Forms,
                            <<d, f>> \in touched
                     PROVE  Inserted(x)[d][f] = occ[d][f]
        BY <1>2, <3>1 DEF OthersAreExact
      <4>2. d \in txn[x].docs /\ occ[d][f] > 0
        BY <1>1, <4>1
      <4> QED
        BY <4>1, <4>2 DEF Inserted
    <3> QED
      BY <3>3, <3>4, <3>5 DEF Sound
  <2>3. CASE StartPublish(x)
    BY <1>1, <1>2, <2>3 DEF StartPublish, Transactions, Sound, Open, ClosedIsEmpty,
       OwnDocument, ClearIsClearing, ClearIsComplete, OthersAreExact
  <2>4. ASSUME NEW f \in Forms, WriteRow(x, f) PROVE Sound(x)'
    BY <1>1, <1>2, <2>4 DEF WriteRow, Transactions, Sound, Open, ClosedIsEmpty,
       OwnDocument, ClearIsClearing, ClearIsComplete, OthersAreExact
  <2> QED
    BY <2>1, <2>2, <2>3, <2>4 DEF Transact
<1>4. \A y \in Processes : Open(y)' => Open(y)
  BY <1>1, <1>2 DEF Transact, Block, ReplaceSlices, StartPublish, WriteRow, Open
<1>5. ClearWaitsForTasks'
  BY <1>2, <1>4 DEF SliceInv, ClearWaitsForTasks, Processes
<1> QED
  BY <1>1, <1>2, <1>3, <1>5, QuietStep, TransactType, UnchangedKeeps

\* A commit leaves the slices as they are, unless it clears.
LEMMA CommitIsExact ==
  ASSUME SliceInv, NEW x \in Processes
  PROVE  /\ txn[x].op # "clear" => View(x) = slice
         /\ txn[x].op = "clear" /\ txn[x].step = "writing"
              => View(x) = [slice EXCEPT ![x] = NoCounts]
<1>1. /\ TypeOK /\ Sound(x) /\ slice = occ /\ slice \in [Docs -> Counts]
      /\ txn[x].op = "clear" => x \in Docs
  BY DEF SliceInv, SlicesAreExact, TypeOK, Sound, ClearIsClearing
<1>2. /\ View(x) \in [Docs -> Counts]
      /\ \A d \in Docs, f \in Forms : View(x)[d][f] =
             IF <<d, f>> \in txn[x].pairs THEN txn[x].own[d][f] ELSE slice[d][f]
  BY <1>1, ViewType DEF View
<1>3. ASSUME txn[x].op # "clear" PROVE View(x) = slice
  <2>1. \A d \in Docs, f \in Forms : View(x)[d][f] = slice[d][f]
    BY <1>1, <1>2, <1>3 DEF Sound, OthersAreExact
  <2> QED
    BY <1>1, <1>2, <2>1 DEF Counts
<1>4. ASSUME txn[x].op = "clear", txn[x].step = "writing"
      PROVE  View(x) = [slice EXCEPT ![x] = NoCounts]
  <2>1. \A f \in Forms : View(x)[x][f] = NoCounts[f]
    BY <1>1, <1>2, <1>4 DEF Sound, ClearIsComplete, NoCounts
  <2>2. \A d \in Docs \ {x}, f \in Forms : View(x)[d][f] = slice[d][f]
    BY <1>1, <1>2, <1>4 DEF Sound, OwnDocument
  <2>3. NoCounts \in Counts
    BY DEF NoCounts, Counts
  <2> QED
    BY <1>1, <1>2, <2>1, <2>2, <2>3 DEF Counts
<1> QED
  BY <1>3, <1>4

\* A process without a transaction is sound.
LEMMA ClosedIsSound ==
  ASSUME NEW x, txn'[x] = Closed
  PROVE  Sound(x)'
BY DEF Closed, Sound, Open, ClosedIsEmpty, OwnDocument, ClearIsClearing, ClearIsComplete,
   OthersAreExact

LEMMA QuietCommit ==
  ASSUME SliceInv, TypeOK', NEW x \in Processes, Commit(x), occ' = occ,
         txn[x].op # "clear", \A d \in Docs \ {x} : stage'[d] = stage[d],
         x \in Docs => stage'[x] # "clearing"
  PROVE  SliceInv'
<1>1. slice' = slice
  BY CommitIsExact DEF Commit
<1>2. txn'[x] = Closed /\ \A y \in Processes \ {x} : Kept(y)
  BY CommitKeeps DEF SliceInv
<1>3. \A y \in Processes : Open(y)' => Open(y)
  BY <1>2 DEF Open, Kept, Closed
<1>4. ClearWaitsForTasks'
  BY <1>3 DEF SliceInv, ClearWaitsForTasks, Processes
<1> QED
  BY <1>1, <1>2, <1>4, ClosedIsSound, QuietStep

LEMMA ClearSlices ==
  ASSUME SliceInv, TypeOK', NEW d \in Docs, CommitClear(d)
  PROVE  SliceInv'
<1>0. d \in Processes /\ TypeOK /\ Sound(d) /\ txn[d].step = "writing" /\ txn[d].op = "clear"
  BY DEF SliceInv, Processes, CommitClear, Commit
<1>1. slice' = [slice EXCEPT ![d] = NoCounts] /\ occ' = [occ EXCEPT ![d] = NoCounts]
  BY <1>0, CommitIsExact DEF CommitClear, Commit
<1>2. SlicesAreExact'
  BY <1>1 DEF SliceInv, SlicesAreExact
<1>3. stage[d] = "clearing" /\ stage' = [stage EXCEPT ![d] = "storing"]
  BY <1>0 DEF Sound, ClearIsClearing, CommitClear
<1>4. txn'[d] = Closed /\ \A y \in Processes \ {d} : Kept(y)
  BY <1>0, CommitKeeps DEF CommitClear
<1>5. ASSUME NEW y \in Processes \ {d} PROVE Sound(y)'
  <2>1. Sound(y) /\ Kept(y)
    BY <1>4 DEF SliceInv
  <2>2. y \in Docs => stage'[y] = stage[y] /\ slice'[y] = slice[y]
    BY <1>0, <1>1, <1>3 DEF TypeOK
  <2>3. \A e \in Docs, f \in Forms : <<e, f>> \in txn[y].pairs => occ'[e][f] = occ[e][f]
    BY <1>0, <1>1, <1>3, NobodyHolds DEF TypeOK
  <2> QED
    BY <2>1, <2>2, <2>3, KeptStaysSound
<1>6. ClearWaitsForTasks'
  <2>1. \A y \in Processes : Open(y)' => Open(y)
    BY <1>4 DEF Open, Kept, Closed
  <2>2. \A e \in Docs : stage'[e] = "clearing" => stage[e] = "clearing"
    BY <1>0, <1>3 DEF TypeOK
  <2> QED
    BY <2>1, <2>2 DEF SliceInv, ClearWaitsForTasks, Processes
<1> QED
  BY <1>2, <1>4, <1>5, <1>6, ClosedIsSound DEF SliceInv

LEMMA StorePageSlices ==
  ASSUME SliceInv, TypeOK', NEW d \in Docs, StorePage(d)
  PROVE  SliceInv'
<1>1. TypeOK /\ slice = occ /\ stage[d] = "storing" /\ stage' = stage /\ done[d] < PageCount
  BY DEF SliceInv, SlicesAreExact, StorePage
<1>2. slice' = occ'
  BY <1>1 DEF StorePage
<1>3. \A y \in Processes : Kept(y)
  BY <1>1, StorePageKeeps
<1>4. /\ \A e \in Docs \ {d} : occ'[e] = occ[e] /\ slice'[e] = slice[e]
      /\ \A f \in Forms : occ'[d][f] = occ[d][f] + NextPage(d)[f]
  BY <1>1 DEF StorePage, TypeOK
<1>5. \A f \in Forms : occ[d][f] \in Nat /\ NextPage(d)[f] \in Nat
  BY <1>1, PageType DEF TypeOK, Counts
<1>6. ASSUME NEW y \in Processes PROVE Sound(y)'
  <2>1. Sound(y) /\ Kept(y)
    BY <1>3 DEF SliceInv
  <2>2. ASSUME NEW e \in Docs, NEW f \in Forms, <<e, f>> \in txn[y].pairs
        PROVE  occ'[e][f] = occ[e][f]
    <3>1. CASE e = d
      <4>1. f \notin FormsOf(NextPage(d))
        BY <2>2, <3>1 DEF StorePage, PageLocked
      <4>2. NextPage(d)[f] = 0
        BY <1>5, <4>1 DEF FormsOf
      <4> QED
        BY <1>4, <1>5, <3>1, <4>2
    <3> QED
      BY <1>4, <3>1
  <2>3. CASE y # d
    BY <1>1, <1>4, <2>1, <2>2, <2>3, KeptStaysSound
  <2>4. CASE y = d
    <3>1. txn[d].op # "clear"
      BY <1>1, <2>1, <2>4 DEF Sound, ClearIsClearing
    <3> QED
      BY <1>1, <2>1, <2>2, <2>4, <3>1 DEF Sound, Kept, Open, ClosedIsEmpty, OwnDocument,
         ClearIsClearing, ClearIsComplete, OthersAreExact
  <2> QED
    BY <2>3, <2>4
<1>7. ClearWaitsForTasks'
  BY <1>1, <1>3 DEF SliceInv, ClearWaitsForTasks, Open, Kept, Processes
<1> QED
  BY <1>2, <1>6, <1>7 DEF SliceInv, SlicesAreExact

\* A transaction that begins holds nothing; if it clears, it covers all slices.
LEMMA BeginIsSound ==
  ASSUME TypeOK, NEW x \in Processes, NEW op \in Ops,
         NEW D \in SUBSET Docs, NEW F \in SUBSET Forms, Begin(x, op, D, F),
         x \in Docs => D \subseteq {x},
         op = "clear" => /\ x \in Docs /\ stage'[x] = "clearing"
                         /\ x \in D \/ \A f \in Forms : slice'[x][f] = 0
  PROVE  /\ Sound(x)'
         /\ \A y \in Processes \ {x} : Kept(y)
         /\ Open(x)' /\ txn'[x].pairs = {} /\ txn'[x].rows = {}
         /\ txn'[x].op = op /\ txn'[x].docs = D /\ txn'[x].forms = F /\ txn'[x].todo = {}
         /\ txn'[x].dropped = DroppedBy(op)
         /\ txn'[x].step = IF op = "save" THEN "replaced" ELSE "begun"
<1>1. /\ txn'[x].step = IF op = "save" THEN "replaced" ELSE "begun"
      /\ txn'[x].op = op /\ txn'[x].docs = D /\ txn'[x].pairs = {} /\ txn'[x].forms = F
      /\ txn'[x].rows = {} /\ txn'[x].todo = {} /\ txn'[x].dropped = DroppedBy(op)
  BY DEF Begin, TypeOK, Closed
<1>2. \A y \in Processes \ {x} : txn'[y] = txn[y]
  BY DEF Begin, TypeOK
<1>3. Sound(x)' /\ Open(x)'
  BY <1>1 DEF Sound, Open, ClosedIsEmpty, OwnDocument, ClearIsClearing, ClearIsComplete,
     OthersAreExact
<1> QED
  BY <1>1, <1>2, <1>3, UnchangedKeeps

LEMMA IngestSlices ==
  ASSUME SliceInv, TypeOK', ~RebuildDuringClear, NEW d \in Docs, Ingest(d)
  PROVE  SliceInv'
<1>0. /\ d \in Processes /\ TypeOK /\ Sound(d) /\ ClearWaitsForTasks
      /\ stage \in [Docs -> Stages]
      /\ d \notin Tasks
  BY ProcessesAssumption DEF SliceInv, Processes, TypeOK
<1>1. CASE StartClear(d)
  <2> DEFINE F == FormsOf(slice[d])
             D == {e \in {d} : F # {}}
  <2>1. /\ Begin(d, "clear", D, F) /\ stage' = [stage EXCEPT ![d] = "clearing"]
        /\ occ' = occ /\ slice' = slice /\ \A x \in Tasks : ~Open(x)
    BY <1>1 DEF StartClear, indexVars
  <2>2. F \in SUBSET Forms /\ D \in SUBSET Docs /\ D \subseteq {d} /\ "clear" \in Ops
    BY DEF FormsOf, Ops
  <2>3. d \in D \/ \A f \in Forms : slice'[d][f] = 0
    BY <1>0, <2>1, CountsType DEF FormsOf
  <2>4. stage'[d] = "clearing"
    BY <1>0, <2>1
  <2> HIDE DEF F, D
  <2>5. Sound(d)' /\ \A y \in Processes \ {d} : Kept(y)
    BY <1>0, <2>1, <2>2, <2>3, <2>4, BeginIsSound
  <2>6. ClearWaitsForTasks'
    BY <1>0, <2>1, <2>5 DEF ClearWaitsForTasks, Open, Kept, Processes
  <2> QED
    BY <1>0, <2>1, <2>5, <2>6, QuietStep
<1>2. CASE CommitClear(d)
  BY <1>2, ClearSlices
<1>3. CASE StorePage(d)
  BY <1>3, StorePageSlices
<1>4. CASE StartSave(d)
  <2>1. /\ stage[d] = "storing" /\ stage' = [stage EXCEPT ![d] = "publishing"]
        /\ occ' = occ /\ slice' = slice
        /\ \/ Begin(d, "resume", {d}, {})
           \/ Begin(d, "save", {}, affected[d])
    BY <1>4 DEF StartSave, indexVars
  <2>2. affected[d] \in SUBSET Forms /\ {"resume", "save"} \subseteq Ops
    BY <1>0 DEF TypeOK, Ops
  <2>3. Sound(d)' /\ \A y \in Processes \ {d} : Kept(y)
    <3>1. CASE Begin(d, "resume", {d}, {})
      BY <1>0, <2>2, <3>1, BeginIsSound
    <3>2. CASE Begin(d, "save", {}, affected[d])
      BY <1>0, <2>2, <3>2, BeginIsSound
    <3> QED
      BY <2>1, <3>1, <3>2
  <2>4. ClearWaitsForTasks'
    BY <1>0, <2>1, <2>3 DEF ClearWaitsForTasks, Open, Kept, Processes
  <2> QED
    BY <1>0, <2>1, <2>3, <2>4, QuietStep
<1>5. CASE CommitSave(d)
  <2>1. /\ Commit(d) /\ txn[d].op # "clear" /\ occ' = occ
        /\ stage' = [stage EXCEPT ![d] = "published"]
    BY <1>5 DEF CommitSave
  <2> QED
    BY <1>0, <2>1, QuietCommit
<1>6. CASE StartResume(d) \/ StorePageFails(d) \/ Finish(d) \/ FailRun(d)
  <2>1. /\ occ' = occ /\ slice' = slice /\ txn' = txn /\ stage[d] # "clearing"
        /\ \/ stage' = [stage EXCEPT ![d] = "storing"]
           \/ stage' = [stage EXCEPT ![d] = "failed"]
           \/ stage' = [stage EXCEPT ![d] = "completed"]
    BY <1>6 DEF StartResume, StorePageFails, Finish, FailRun, indexVars
  <2>2. \A y \in Processes : Kept(y)
    BY <2>1, UnchangedKeeps
  <2>3. Sound(d)'
    BY <1>0, <2>1 DEF Sound, Open, ClosedIsEmpty, OwnDocument, ClearIsClearing,
       ClearIsComplete, OthersAreExact
  <2>4. ClearWaitsForTasks'
    BY <1>0, <2>1 DEF ClearWaitsForTasks, Open
  <2> QED
    BY <1>0, <2>1, <2>2, <2>3, <2>4, QuietStep
<1>7. CASE FailTransaction(d)
  <2>1. /\ occ' = occ /\ slice' = slice /\ txn' = [txn EXCEPT ![d] = Closed]
        /\ stage' = [stage EXCEPT ![d] = "failed"]
    BY <1>7 DEF FailTransaction, Rollback, indexVars
  <2>2. txn'[d] = Closed /\ \A y \in Processes \ {d} : txn'[y] = txn[y]
    BY <1>0, <2>1 DEF TypeOK
  <2>3. ClearWaitsForTasks'
    BY <1>0, <2>1, <2>2 DEF ClearWaitsForTasks, Open, Processes
  <2> QED
    BY <1>0, <2>1, <2>2, <2>3, ClosedIsSound, UnchangedKeeps, QuietStep
<1> QED
  BY <1>1, <1>2, <1>3, <1>4, <1>5, <1>6, <1>7 DEF Ingest

LEMMA RebuildSlices ==
  ASSUME SliceInv, TypeOK', ~RebuildDuringClear, NEW x \in Tasks, Rebuild(x)
  PROVE  SliceInv'
<1>0. /\ x \in Processes /\ TypeOK /\ Sound(x) /\ ClearWaitsForTasks
      /\ x \notin Docs /\ txn[x].op # "clear"
  BY ProcessesAssumption DEF SliceInv, Processes, Sound, ClearIsClearing
<1>1. CASE StartRebuild(x)
  <2>1. /\ occ' = occ /\ slice' = slice /\ stage' = stage
        /\ \A d \in Docs : stage[d] # "clearing"
        /\ \/ \E d \in Docs : Begin(x, "document", {d}, {})
           \/ Begin(x, "user", Docs, {})
    BY <1>1 DEF StartRebuild, docVars, indexVars
  <2>2. Sound(x)' /\ \A y \in Processes \ {x} : Kept(y)
    <3>1. ASSUME NEW d \in Docs, Begin(x, "document", {d}, {})
          PROVE  Sound(x)' /\ \A y \in Processes \ {x} : Kept(y)
      <4>1. "document" \in Ops /\ {d} \in SUBSET Docs /\ {} \in SUBSET Forms
        BY DEF Ops
      <4> QED
        BY <1>0, <3>1, <4>1, BeginIsSound
    <3>2. CASE Begin(x, "user", Docs, {})
      BY <1>0, <3>2, BeginIsSound DEF Ops
    <3> QED
      BY <2>1, <3>1, <3>2
  <2>3. ClearWaitsForTasks'
    BY <2>1 DEF ClearWaitsForTasks
  <2> QED
    BY <1>0, <2>1, <2>2, <2>3, QuietStep
<1>2. CASE CommitRebuild(x)
  <2>1. Commit(x) /\ occ' = occ /\ stage' = stage
    BY <1>2 DEF CommitRebuild, docVars
  <2> QED
    BY <1>0, <2>1, QuietCommit
<1>3. CASE FailRebuild(x)
  <2>1. /\ occ' = occ /\ slice' = slice /\ txn' = [txn EXCEPT ![x] = Closed] /\ stage' = stage
    BY <1>3 DEF FailRebuild, Rollback, indexVars
  <2>2. txn'[x] = Closed /\ \A y \in Processes \ {x} : txn'[y] = txn[y]
    BY <1>0, <2>1 DEF TypeOK
  <2>3. ClearWaitsForTasks'
    BY <1>0, <2>1, <2>2 DEF ClearWaitsForTasks, Open, Closed, Processes
  <2> QED
    BY <1>0, <2>1, <2>2, <2>3, ClosedIsSound, UnchangedKeeps, QuietStep
<1> QED
  BY <1>1, <1>2, <1>3 DEF Rebuild

LEMMA InitSlices == Init => SliceInv
<1> SUFFICES ASSUME Init PROVE SliceInv
  OBVIOUS
<1>1. TypeOK
  BY ClosedType, BoundsAssumption, PagesAssumption
  DEF Init, TypeOK, Stages, Counts, NoCounts, NoRow
<1>2. ASSUME NEW x \in Processes PROVE Sound(x)
  BY <1>2 DEF Init, Closed, Sound, Open, ClosedIsEmpty, OwnDocument, ClearIsClearing,
     ClearIsComplete, OthersAreExact
<1> QED
  BY <1>1, <1>2 DEF SliceInv, Init, SlicesAreExact, ClearWaitsForTasks

LEMMA StepSlices ==
  ASSUME SliceInv, ~RebuildDuringClear, [Next]_vars
  PROVE  SliceInv'
<1>1. TypeOK'
  BY TransactType, IngestType, RebuildType, StutterType DEF SliceInv, Next
<1>2. CASE UNCHANGED vars
  BY <1>1, <1>2 DEF SliceInv, SlicesAreExact, Sound, ClosedIsEmpty, OwnDocument,
     ClearIsClearing, ClearIsComplete, OthersAreExact, ClearWaitsForTasks, Open,
     vars, docVars, indexVars
<1> QED
  BY <1>1, <1>2, TransactSlices, IngestSlices, RebuildSlices DEF Next

\* While no rebuild runs beside a clear, the slices of a document count exactly
\* its occurrences, whatever failed, was resumed or was rebuilt meanwhile.
THEOREM SlicesStayExact ==
  ASSUME ~RebuildDuringClear
  PROVE  Spec => []SlicesAreExact
<1>1. SliceInv => SlicesAreExact
  BY DEF SliceInv
<1>2. SliceInv /\ [Next]_vars => SliceInv'
  BY StepSlices
<1> QED
  BY <1>1, <1>2, InitSlices, PTL DEF Spec

--------------------------------------------------------------------------------
(* Rows.  A row deleted by rebuild_user stays locked until the rebuild     *)
(* commits, so a document that has published a word deleted meanwhile had  *)
(* done so before the rebuild began, and the rebuild writes the row again. *)

Public(d) == stage[d] \in {"published", "completed"}

\* x writes the rows of F before it commits.
Writes(x, F) == /\ txn[x].step = "replaced" => F \subseteq txn[x].forms
                /\ txn[x].step = "writing" => F \subseteq txn[x].todo \cup txn[x].rows

HeldApart(x, y) == Held(x) \cap Held(y) = {}

\* A fresh run has noted every word it stored.
Affects(d) == stage[d] = "storing" /\ ~resumed[d] => FormsOf(occ[d]) \subseteq affected[d]

Publishes(d) ==
    Open(d) /\ txn[d].op # "clear" =>
        /\ stage[d] = "publishing" /\ Writes(d, FormsOf(occ[d]))
        /\ txn[d].op = "save" \/ d \in txn[d].docs
        /\ txn[d].op = "save" => txn[d].step \in {"replaced", "writing"}

WordsListed(d) == Public(d) => FormsOf(occ[d]) \subseteq listed

Restores(x, d) ==
    txn[x].dropped # {} =>
        /\ txn[x].op = "user" /\ d \in txn[x].docs
        /\ Public(d) => Writes(x, FormsOf(occ[d]) \cap txn[x].dropped)

RowInv == /\ \A x \in Processes : \A y \in Processes \ {x} : HeldApart(x, y)
          /\ \A d \in Docs : Affects(d) /\ Publishes(d) /\ WordsListed(d)
          /\ \A x \in Processes, d \in Docs : Restores(x, d)

LEMMA KeptWrites ==
  ASSUME NEW y, NEW F, Kept(y), Writes(y, F)
  PROVE  /\ txn'[y].step = "replaced" => F \subseteq txn'[y].forms
         /\ txn'[y].step = "writing" => F \subseteq txn'[y].todo \cup txn'[y].rows
BY DEF Kept, Writes

LEMMA KeptPublishes ==
  ASSUME NEW d, Kept(d), Publishes(d), stage'[d] = stage[d], occ'[d] = occ[d]
  PROVE  Publishes(d)'
BY DEF Kept, Publishes, Open, Writes, FormsOf

LEMMA KeptRestores ==
  ASSUME NEW y, NEW d, Kept(y), Restores(y, d),
         Public(d)' => Public(d) /\ occ'[d] = occ[d]
  PROVE  Restores(y, d)'
BY DEF Kept, Restores, Writes, FormsOf

LEMMA KeptApart ==
  ASSUME NEW x, NEW y, HeldApart(x, y), Kept(x), Kept(y)
  PROVE  HeldApart(x, y)'
BY DEF Kept, HeldApart, Held

\* A step of x that changes no count and no row list.
LEMMA QuietRows ==
  ASSUME RowInv, NEW x \in Processes, occ' = occ, listed' = listed,
         \A y \in Processes \ {x} : Kept(y),
         \A d \in Docs \ {x} : stage'[d] = stage[d] /\ resumed'[d] = resumed[d]
                               /\ affected'[d] = affected[d],
         \A y \in Processes \ {x} : HeldApart(x, y)',
         x \in Docs => Affects(x)' /\ Publishes(x)' /\ (Public(x)' => Public(x)),
         \A d \in Docs : Restores(x, d)'
  PROVE  RowInv'
<1>1. ASSUME NEW y \in Processes, NEW z \in Processes \ {y} PROVE HeldApart(y, z)'
  <2>1. CASE y # x /\ z # x
    BY <1>1, <2>1, KeptApart DEF RowInv
  <2>2. CASE y = x
    BY <1>1, <2>2
  <2>3. CASE z = x
    BY <1>1, <2>3 DEF HeldApart
  <2> QED
    BY <2>1, <2>2, <2>3
<1>2. ASSUME NEW d \in Docs PROVE Affects(d)' /\ Publishes(d)' /\ WordsListed(d)'
  <2>1. d \in Processes /\ Affects(d) /\ Publishes(d) /\ WordsListed(d)
    BY DEF Processes, RowInv
  <2>2. CASE d = x
    BY <2>1, <2>2 DEF WordsListed, FormsOf
  <2>3. CASE d # x
    <3>1. Affects(d)' /\ WordsListed(d)'
      BY <2>1, <2>3 DEF Affects, WordsListed, Public, FormsOf
    <3> QED
      BY <2>1, <2>3, <3>1, KeptPublishes
  <2> QED
    BY <2>2, <2>3
<1>3. ASSUME NEW y \in Processes, NEW d \in Docs PROVE Restores(y, d)'
  <2>1. CASE y = x
    BY <2>1
  <2>2. CASE y # x
    <3>1. Kept(y) /\ Restores(y, d)
      BY <2>2 DEF RowInv
    <3>2. Public(d)' => Public(d)
      BY DEF Public
    <3> QED
      BY <3>1, <3>2, KeptRestores
  <2> QED
    BY <2>1, <2>2
<1> QED
  BY <1>1, <1>2, <1>3 DEF RowInv

\* The publish statement of a transaction writes every word of its forms that
\* occurs somewhere.
LEMMA PublishWrites ==
  ASSUME SliceInv, NEW x \in Processes, StartPublish(x), txn[x].op # "clear",
         NEW d \in Docs, NEW F \in SUBSET FormsOf(occ[d]), Writes(x, F)
  PROVE  F \subseteq txn'[x].todo
<1>1. TypeOK /\ txn[x] \in Transactions /\ View(x) = occ
  BY CommitIsExact DEF SliceInv, SlicesAreExact, TypeOK
<1>2. txn'[x].todo = RowsToWrite(x) /\ F \subseteq txn[x].forms
  BY <1>1 DEF StartPublish, TypeOK, Transactions, Writes
<1>3. \A f \in F : f \in Forms /\ occ[d][f] > 0
  BY DEF FormsOf
<1> QED
  BY <1>1, <1>2, <1>3 DEF RowsToWrite

LEMMA ReplaceCovers ==
  ASSUME TypeOK, NEW x \in Processes, ReplaceSlices(x), txn[x].op # "clear",
         NEW d \in txn[x].docs
  PROVE  FormsOf(occ[d]) \subseteq txn'[x].forms
BY DEF TypeOK, Transactions, ReplaceSlices

\* What a step of x leaves of its own transaction.
LEMMA TransactKeeps ==
  ASSUME TypeOK, NEW x \in Processes, Transact(x)
  PROVE  /\ txn'[x].op = txn[x].op /\ txn'[x].docs = txn[x].docs
         /\ txn'[x].dropped = txn[x].dropped /\ Open(x) /\ Open(x)'
         /\ (\E f \in Forms : WriteRow(x, f)) \/ txn'[x].rows = txn[x].rows
<1>1. txn \in [Processes -> Transactions] /\ txn[x] \in Transactions
  BY DEF TypeOK
<1>2. CASE Block(x)
  BY <1>1, <1>2 DEF Block, Transactions, Open
<1>3. CASE ReplaceSlices(x)
  <2> DEFINE touched == {p \in txn[x].docs \X Forms :
                            \/ txn[x].step # "missed" /\ slice[p[1]][p[2]] > 0
                            \/ txn[x].op # "clear" /\ occ[p[1]][p[2]] > 0}
             forms == IF txn[x].op = "clear" THEN txn[x].forms
                      ELSE UNION {FormsOf(occ[d]) : d \in txn[x].docs}
  <2>1. /\ txn' = [txn EXCEPT ![x] = [txn[x] EXCEPT !.step = "replaced", !.pairs = touched,
                                                    !.own = Inserted(x), !.forms = forms]]
        /\ txn[x].step \in {"begun", "blocked", "missed"}
    BY <1>3 DEF ReplaceSlices
  <2> HIDE DEF touched, forms
  <2> QED
    BY <1>1, <2>1 DEF Transactions, Open
<1>4. CASE StartPublish(x)
  BY <1>1, <1>4 DEF StartPublish, Transactions, Open
<1>5. ASSUME NEW f \in Forms, WriteRow(x, f)
      PROVE  /\ txn'[x].op = txn[x].op /\ txn'[x].docs = txn[x].docs
             /\ txn'[x].dropped = txn[x].dropped /\ Open(x) /\ Open(x)'
  BY <1>1, <1>5 DEF WriteRow, Transactions, Open
<1> QED
  BY <1>2, <1>3, <1>4, <1>5 DEF Transact

LEMMA TransactRows ==
  ASSUME SliceInv, RowInv, NEW x \in Processes, Transact(x)
  PROVE  RowInv'
<1>1. /\ txn \in [Processes -> Transactions] /\ txn[x] \in Transactions /\ TypeOK
      /\ \A d \in Docs : Restores(x, d)
      /\ \A y \in Processes \ {x} : HeldApart(x, y)
      /\ x \in Docs => Affects(x) /\ Publishes(x)
  BY DEF SliceInv, TypeOK, RowInv
<1>2. /\ occ' = occ /\ listed' = listed /\ stage' = stage
      /\ resumed' = resumed /\ affected' = affected
      /\ \A y \in Processes \ {x} : txn'[y] = txn[y]
      /\ txn'[x].op = txn[x].op /\ txn'[x].docs = txn[x].docs
      /\ txn'[x].dropped = txn[x].dropped /\ Open(x) /\ Open(x)'
  <2>1. /\ occ' = occ /\ listed' = listed /\ stage' = stage
        /\ resumed' = resumed /\ affected' = affected
        /\ \A y \in Processes \ {x} : txn'[y] = txn[y]
    BY <1>1 DEF Transact, Block, ReplaceSlices, StartPublish, WriteRow, docVars, indexVars
  <2> QED
    BY <1>1, <2>1, TransactKeeps
<1>3. \A y \in Processes \ {x} : HeldApart(x, y)'
  <2>1. CASE txn'[x].rows = txn[x].rows
    BY <1>1, <1>2, <2>1 DEF HeldApart, Held
  <2>2. ASSUME NEW f \in Forms, WriteRow(x, f) PROVE \A y \in Processes \ {x} : HeldApart(x, y)'
    <3>1. txn'[x].rows = txn[x].rows \cup {f}
      BY <1>1, <2>2 DEF WriteRow, Transactions
    <3>2. \A y \in Processes \ {x} : f \notin Held(y)
      BY <2>2 DEF WriteRow
    <3> QED
      BY <1>1, <1>2, <3>1, <3>2 DEF HeldApart, Held
  <2> QED
    BY <1>1, <2>1, <2>2, TransactKeeps
<1>4. ASSUME NEW d \in Docs, NEW F \in SUBSET FormsOf(occ[d]), txn[x].op # "clear",
             Writes(x, F), txn[x].op = "save" \/ d \in txn[x].docs,
             txn[x].op = "save" => txn[x].step \in {"replaced", "writing"}
      PROVE  /\ txn'[x].step = "replaced" => F \subseteq txn'[x].forms
             /\ txn'[x].step = "writing" => F \subseteq txn'[x].todo \cup txn'[x].rows
             /\ txn[x].op = "save" => txn'[x].step \in {"replaced", "writing"}
  <2>1. CASE Block(x)
    BY <1>1, <1>4, <2>1 DEF Block, Transactions
  <2>2. CASE ReplaceSlices(x)
    <3>1. txn'[x].step = "replaced" /\ txn[x].step \in {"begun", "blocked", "missed"}
      BY <1>1, <2>2 DEF ReplaceSlices, Transactions
    <3>2. d \in txn[x].docs
      BY <1>4, <3>1
    <3> QED
      BY <1>1, <1>4, <2>2, <3>1, <3>2, ReplaceCovers
  <2>3. CASE StartPublish(x)
    <3>1. txn'[x].step = "writing"
      BY <1>1, <2>3 DEF StartPublish, Transactions
    <3> QED
      BY <1>4, <2>3, <3>1, PublishWrites
  <2>4. ASSUME NEW f \in Forms, WriteRow(x, f)
        PROVE  /\ txn'[x].step = "writing"
               /\ F \subseteq txn'[x].todo \cup txn'[x].rows
    <3>1. /\ txn[x].step = "writing" /\ txn'[x].step = "writing"
          /\ txn'[x].todo = txn[x].todo \ {f} /\ txn'[x].rows = txn[x].rows \cup {f}
      BY <1>1, <2>4 DEF WriteRow, Transactions
    <3> QED
      BY <1>4, <3>1 DEF Writes
  <2> QED
    BY <2>1, <2>2, <2>3, <2>4 DEF Transact
<1>5. ASSUME x \in Docs PROVE Publishes(x)'
  <2>1. SUFFICES ASSUME txn[x].op # "clear" PROVE Publishes(x)'
    BY <1>2 DEF Publishes
  <2>2. /\ stage[x] = "publishing" /\ Writes(x, FormsOf(occ[x]))
        /\ txn[x].op = "save" \/ x \in txn[x].docs
        /\ txn[x].op = "save" => txn[x].step \in {"replaced", "writing"}
    BY <1>1, <1>2, <1>5, <2>1 DEF Publishes
  <2> QED
    BY <1>2, <1>4, <1>5, <2>1, <2>2 DEF Publishes, Writes, FormsOf
<1>6. ASSUME NEW d \in Docs PROVE Restores(x, d)'
  <2>1. SUFFICES ASSUME txn[x].dropped # {}, Public(d)
                 PROVE  Restores(x, d)'
    BY <1>1, <1>2 DEF Restores, Public
  <2>2. /\ txn[x].op = "user" /\ d \in txn[x].docs
        /\ Writes(x, FormsOf(occ[d]) \cap txn[x].dropped)
    BY <1>1, <2>1 DEF Restores
  <2>3. /\ FormsOf(occ[d]) \cap txn[x].dropped \in SUBSET FormsOf(occ[d])
        /\ txn[x].op # "save" /\ txn[x].op # "clear"
    BY <2>2
  <2> QED
    BY <1>2, <1>4, <2>2, <2>3 DEF Restores, Writes, FormsOf
<1>7. \A y \in Processes \ {x} : Kept(y)
  BY <1>2, UnchangedKeeps
<1>8. x \in Docs => Affects(x)' /\ (Public(x)' => Public(x))
  BY <1>1, <1>2 DEF Affects, Public, FormsOf
<1> QED
  BY <1>2, <1>3, <1>5, <1>6, <1>7, <1>8, QuietRows

LEMMA CommitRows ==
  ASSUME SliceInv, RowInv, NEW x \in Processes, Commit(x),
         \A d \in Docs \ {x} : stage'[d] = stage[d] /\ resumed'[d] = resumed[d]
                               /\ affected'[d] = affected[d] /\ occ'[d] = occ[d],
         x \in Docs => /\ Affects(x)'
                       /\ Public(x)' => txn[x].op # "clear" /\ occ'[x] = occ[x]
  PROVE  RowInv'
<1>1. /\ txn[x] \in Transactions /\ TypeOK /\ txn[x].step = "writing" /\ txn[x].todo = {}
      /\ listed' = (listed \ txn[x].dropped) \cup txn[x].rows
  BY DEF SliceInv, TypeOK, Commit
<1>2. txn'[x] = Closed /\ \A y \in Processes \ {x} : Kept(y)
  BY <1>1, CommitKeeps
<1>3. Held(x)' = {} /\ ~Open(x)'
  BY <1>2 DEF Held, Closed, Open
<1>4. ASSUME NEW y \in Processes, NEW z \in Processes \ {y} PROVE HeldApart(y, z)'
  <2>1. CASE y = x \/ z = x
    BY <1>3, <2>1 DEF HeldApart
  <2>2. CASE y # x /\ z # x
    BY <1>2, <1>4, <2>2, KeptApart DEF RowInv
  <2> QED
    BY <2>1, <2>2
<1>5. ASSUME x \in Docs, Public(x)' PROVE FormsOf(occ[x]) \subseteq txn[x].rows
  <2>1. Publishes(x) /\ Open(x)
    BY <1>1, <1>5 DEF RowInv, Open
  <2> QED
    BY <1>1, <1>5, <2>1 DEF Publishes, Writes
<1>6. ASSUME NEW d \in Docs PROVE Affects(d)' /\ Publishes(d)' /\ WordsListed(d)'
  <2>1. CASE d = x
    BY <1>1, <1>3, <1>5, <2>1 DEF Publishes, WordsListed, FormsOf
  <2>2. CASE d # x
    <3>1. Kept(d) /\ Affects(d) /\ Publishes(d) /\ WordsListed(d) /\ Restores(x, d)
      BY <1>2, <2>2 DEF RowInv, Processes
    <3>2. Affects(d)'
      BY <2>2, <3>1 DEF Affects, FormsOf
    <3>3. Publishes(d)'
      BY <2>2, <3>1, KeptPublishes
    <3>4. WordsListed(d)'
      <4>1. SUFFICES ASSUME Public(d), NEW f \in FormsOf(occ[d])
                     PROVE  f \in listed'
        BY <2>2 DEF WordsListed, Public, FormsOf
      <4>2. f \in txn[x].dropped => f \in txn[x].rows
        BY <1>1, <3>1, <4>1 DEF Restores, Writes
      <4> QED
        BY <1>1, <3>1, <4>1, <4>2 DEF WordsListed
    <3> QED
      BY <3>2, <3>3, <3>4
  <2> QED
    BY <2>1, <2>2
<1>7. ASSUME NEW y \in Processes, NEW d \in Docs PROVE Restores(y, d)'
  <2>1. CASE y = x
    BY <1>2, <2>1 DEF Restores, Closed
  <2>2. CASE y # x /\ d # x
    <3>1. Kept(y) /\ Restores(y, d)
      BY <1>2, <2>2 DEF RowInv
    <3>2. Public(d)' => Public(d) /\ occ'[d] = occ[d]
      BY <2>2 DEF Public
    <3> QED
      BY <3>1, <3>2, KeptRestores
  <2>3. CASE y # x /\ d = x
    <3>1. Kept(y) /\ Restores(y, x) /\ HeldApart(x, y)
      BY <1>2, <2>3 DEF RowInv
    <3>2. Public(x)' => FormsOf(occ[x]) \cap txn[y].dropped = {} /\ occ'[x] = occ[x]
      BY <1>5, <2>3, <3>1 DEF HeldApart, Held
    <3>3. Public(x)' => FormsOf(occ'[x]) \cap txn'[y].dropped = {}
      BY <3>1, <3>2 DEF Kept
    <3> QED
      BY <2>3, <3>1, <3>3 DEF Restores, Writes, Kept, FormsOf
  <2> QED
    BY <2>1, <2>2, <2>3
<1> QED
  BY <1>4, <1>6, <1>7 DEF RowInv

\* A process without a transaction holds no row.
LEMMA ClosedRows ==
  ASSUME NEW x, txn'[x] = Closed
  PROVE  /\ \A y : HeldApart(x, y)'
         /\ Publishes(x)'
         /\ \A d : Restores(x, d)'
BY DEF Closed, HeldApart, Held, Publishes, Open, Restores

LEMMA StorePageRows ==
  ASSUME SliceInv, RowInv, NEW d \in Docs, StorePage(d)
  PROVE  RowInv'
<1>1. /\ TypeOK /\ stage[d] = "storing" /\ stage' = stage /\ done[d] < PageCount
      /\ resumed' = resumed /\ listed' = listed
  BY DEF SliceInv, StorePage
<1>2. \A y \in Processes : Kept(y)
  BY <1>1, StorePageKeeps
<1>3. /\ \A e \in Docs \ {d} : occ'[e] = occ[e] /\ affected'[e] = affected[e]
      /\ \A f \in Forms : occ'[d][f] = occ[d][f] + NextPage(d)[f]
      /\ affected'[d] = affected[d] \cup FormsOf(NextPage(d))
  BY <1>1 DEF StorePage, TypeOK
<1>4. \A f \in Forms : occ[d][f] \in Nat /\ NextPage(d)[f] \in Nat
  BY <1>1, PageType DEF TypeOK, Counts
<1>5. ASSUME NEW e \in Docs PROVE Affects(e)' /\ Publishes(e)' /\ WordsListed(e)'
  <2>1. Affects(e) /\ Publishes(e) /\ WordsListed(e) /\ Kept(e)
    BY <1>2 DEF RowInv, Processes
  <2>2. CASE e # d
    <3>1. Affects(e)' /\ WordsListed(e)'
      BY <1>1, <1>3, <2>1, <2>2 DEF Affects, WordsListed, Public, FormsOf
    <3> QED
      BY <1>1, <1>3, <2>1, <2>2, <3>1, KeptPublishes
  <2>3. CASE e = d
    <3>1. FormsOf(occ'[d]) \subseteq FormsOf(occ[d]) \cup FormsOf(NextPage(d))
      BY <1>3, <1>4 DEF FormsOf
    <3>2. Affects(d)'
      <4>1. SUFFICES ASSUME ~resumed[d] PROVE FormsOf(occ'[d]) \subseteq affected'[d]
        BY <1>1 DEF Affects, FormsOf
      <4>2. FormsOf(occ[d]) \subseteq affected[d]
        BY <1>1, <2>1, <2>3, <4>1 DEF Affects
      <4> QED
        BY <1>3, <3>1, <4>2
    <3>3. Publishes(d)' /\ WordsListed(d)'
      BY <1>1, <2>1, <2>3 DEF Publishes, WordsListed, Public, Kept, Open
    <3> QED
      BY <2>3, <3>2, <3>3
  <2> QED
    BY <2>2, <2>3
<1>6. ASSUME NEW y \in Processes, NEW z \in Processes \ {y} PROVE HeldApart(y, z)'
  BY <1>2, <1>6, KeptApart DEF RowInv
<1>7. ASSUME NEW y \in Processes, NEW e \in Docs PROVE Restores(y, e)'
  <2>1. Kept(y) /\ Restores(y, e)
    BY <1>2 DEF RowInv
  <2>2. Public(e)' => Public(e) /\ occ'[e] = occ[e]
    BY <1>1, <1>3 DEF Public
  <2> QED
    BY <2>1, <2>2, KeptRestores
<1> QED
  BY <1>5, <1>6, <1>7 DEF RowInv

LEMMA IngestRows ==
  ASSUME SliceInv, RowInv, NEW d \in Docs, Ingest(d)
  PROVE  RowInv'
<1>0. /\ d \in Processes /\ TypeOK /\ Sound(d) /\ Affects(d) /\ Publishes(d)
      /\ stage \in [Docs -> Stages] /\ resumed \in [Docs -> BOOLEAN]
      /\ affected \in [Docs -> SUBSET Forms] /\ occ \in [Docs -> Counts]
      /\ \A e \in Docs : Restores(d, e)
      /\ \A y \in Processes \ {d} : HeldApart(d, y)
  BY DEF SliceInv, RowInv, Processes, TypeOK
<1>1. CASE StartClear(d)
  <2> DEFINE F == FormsOf(slice[d])
             D == {e \in {d} : F # {}}
  <2>1. /\ Begin(d, "clear", D, F) /\ stage' = [stage EXCEPT ![d] = "clearing"]
        /\ resumed' = [resumed EXCEPT ![d] = FALSE]
        /\ affected' = affected /\ occ' = occ /\ slice' = slice /\ listed' = listed
    BY <1>1 DEF StartClear, indexVars
  <2>2. F \in SUBSET Forms /\ D \in SUBSET Docs /\ D \subseteq {d} /\ "clear" \in Ops
    BY DEF FormsOf, Ops
  <2>3. d \in D \/ \A f \in Forms : slice'[d][f] = 0
    BY <1>0, <2>1, CountsType DEF FormsOf
  <2>4. stage'[d] = "clearing"
    BY <1>0, <2>1
  <2> HIDE DEF F, D
  <2>5. /\ \A y \in Processes \ {d} : Kept(y)
        /\ txn'[d].op = "clear" /\ txn'[d].rows = {} /\ txn'[d].dropped = {}
    BY <1>0, <2>1, <2>2, <2>3, <2>4, BeginIsSound DEF DroppedBy
  <2>6. /\ Affects(d)' /\ Publishes(d)' /\ ~Public(d)'
        /\ \A y \in Processes \ {d} : HeldApart(d, y)'
        /\ \A e \in Docs : Restores(d, e)'
    BY <2>4, <2>5 DEF Affects, Publishes, Public, HeldApart, Held, Restores
  <2> QED
    BY <1>0, <2>1, <2>5, <2>6, QuietRows
<1>2. CASE CommitClear(d)
  <2>1. /\ Commit(d) /\ stage' = [stage EXCEPT ![d] = "storing"] /\ resumed' = resumed
        /\ affected' = [affected EXCEPT ![d] = {}] /\ occ' = [occ EXCEPT ![d] = NoCounts]
    BY <1>2 DEF CommitClear
  <2>2. FormsOf(occ'[d]) = {} /\ ~Public(d)'
    BY <1>0, <2>1 DEF FormsOf, NoCounts, Public
  <2> QED
    BY <1>0, <2>1, <2>2, CommitRows DEF Affects, FormsOf
<1>3. CASE StorePage(d)
  BY <1>3, StorePageRows
<1>4. CASE StartSave(d)
  <2>1. /\ stage[d] = "storing" /\ stage' = [stage EXCEPT ![d] = "publishing"]
        /\ occ' = occ /\ listed' = listed /\ resumed' = resumed /\ affected' = affected
        /\ IF resumed[d] THEN Begin(d, "resume", {d}, {})
                         ELSE Begin(d, "save", {}, affected[d])
    BY <1>4 DEF StartSave, indexVars
  <2>2. affected[d] \in SUBSET Forms /\ {"resume", "save"} \subseteq Ops
        /\ {d} \in SUBSET Docs /\ {} \in SUBSET Docs /\ {} \in SUBSET Forms
    BY <1>0 DEF Ops
  <2>3. stage'[d] = "publishing" /\ Affects(d)' /\ ~Public(d)'
    BY <1>0, <2>1 DEF Affects, Public
  <2>4. /\ \A y \in Processes \ {d} : Kept(y)
        /\ txn'[d].rows = {} /\ txn'[d].dropped = {} /\ Publishes(d)'
    <3>1. CASE resumed[d]
      <4>1. /\ \A y \in Processes \ {d} : Kept(y)
            /\ txn'[d].rows = {} /\ txn'[d].dropped = DroppedBy("resume")
            /\ txn'[d].op = "resume" /\ txn'[d].step = "begun" /\ txn'[d].docs = {d}
        BY <1>0, <2>1, <2>2, <3>1, BeginIsSound
      <4> QED
        BY <2>3, <4>1 DEF Publishes, Writes, DroppedBy
    <3>2. CASE ~resumed[d]
      <4>1. /\ \A y \in Processes \ {d} : Kept(y)
            /\ txn'[d].rows = {} /\ txn'[d].dropped = DroppedBy("save")
            /\ txn'[d].op = "save" /\ txn'[d].step = "replaced"
            /\ txn'[d].forms = affected[d]
        BY <1>0, <2>1, <2>2, <3>2, BeginIsSound
      <4>2. FormsOf(occ[d]) \subseteq affected[d]
        BY <1>0, <2>1, <3>2 DEF Affects
      <4> QED
        BY <2>1, <2>3, <4>1, <4>2 DEF Publishes, Writes, DroppedBy, FormsOf
    <3> QED
      BY <3>1, <3>2
  <2>5. /\ \A y \in Processes \ {d} : HeldApart(d, y)'
        /\ \A e \in Docs : Restores(d, e)'
    BY <2>4 DEF HeldApart, Held, Restores
  <2> QED
    BY <1>0, <2>1, <2>3, <2>4, <2>5, QuietRows
<1>5. CASE CommitSave(d)
  <2>1. /\ Commit(d) /\ txn[d].op # "clear" /\ occ' = occ /\ affected' = affected
        /\ stage' = [stage EXCEPT ![d] = "published"] /\ resumed' = resumed
    BY <1>5 DEF CommitSave
  <2>2. Affects(d)'
    BY <1>0, <2>1 DEF Affects
  <2> QED
    BY <1>0, <2>1, <2>2, CommitRows
<1>6. CASE StartResume(d) \/ StorePageFails(d) \/ Finish(d) \/ FailRun(d)
  <2>1. /\ occ' = occ /\ listed' = listed /\ txn' = txn
        /\ stage[d] \notin {"clearing", "publishing"}
        /\ \A e \in Docs \ {d} : stage'[e] = stage[e] /\ resumed'[e] = resumed[e]
                                 /\ affected'[e] = affected[e]
        /\ Affects(d)' /\ (Public(d)' => Public(d))
    <3>1. CASE StartResume(d)
      BY <1>0, <3>1 DEF StartResume, indexVars, Affects, Public
    <3>2. CASE StorePageFails(d)
      BY <1>0, <3>2 DEF StorePageFails, indexVars, Affects, Public
    <3>3. CASE Finish(d)
      BY <1>0, <3>3 DEF Finish, indexVars, Affects, Public
    <3>4. CASE FailRun(d)
      BY <1>0, <3>4 DEF FailRun, indexVars, Affects, Public
    <3> QED
      BY <1>6, <3>1, <3>2, <3>3, <3>4
  <2>2. \A y \in Processes : Kept(y)
    BY <2>1, UnchangedKeeps
  <2>3. ~Open(d)
    BY <1>0, <2>1 DEF Sound, ClearIsClearing, Publishes
  <2>4. Publishes(d)' /\ (\A y \in Processes \ {d} : HeldApart(d, y)')
    BY <1>0, <2>1, <2>3 DEF Publishes, HeldApart, Held, Open
  <2>5. \A e \in Docs : Restores(d, e)'
    BY <1>0, <2>1, <2>3 DEF Restores, Sound, ClosedIsEmpty
  <2> QED
    BY <1>0, <2>1, <2>2, <2>4, <2>5, QuietRows
<1>7. CASE FailTransaction(d)
  <2>1. /\ occ' = occ /\ listed' = listed /\ txn' = [txn EXCEPT ![d] = Closed]
        /\ stage' = [stage EXCEPT ![d] = "failed"]
        /\ resumed' = resumed /\ affected' = affected
    BY <1>7 DEF FailTransaction, Rollback, indexVars
  <2>2. txn'[d] = Closed /\ \A y \in Processes \ {d} : txn'[y] = txn[y]
    BY <1>0, <2>1 DEF TypeOK
  <2>3. Affects(d)' /\ ~Public(d)'
    BY <1>0, <2>1 DEF Affects, Public
  <2> QED
    BY <1>0, <2>1, <2>2, <2>3, ClosedRows, UnchangedKeeps, QuietRows
<1> QED
  BY <1>1, <1>2, <1>3, <1>4, <1>5, <1>6, <1>7 DEF Ingest

LEMMA RebuildRows ==
  ASSUME SliceInv, RowInv, NEW x \in Tasks, Rebuild(x)
  PROVE  RowInv'
<1>0. x \in Processes /\ x \notin Docs /\ TypeOK
  BY ProcessesAssumption DEF SliceInv, Processes
<1>1. CASE StartRebuild(x)
  <2>1. /\ occ' = occ /\ listed' = listed /\ stage' = stage
        /\ resumed' = resumed /\ affected' = affected
        /\ \/ \E d \in Docs : Begin(x, "document", {d}, {})
           \/ /\ \A y \in Processes : Held(y) \cap listed = {}
              /\ Begin(x, "user", Docs, {})
    BY <1>1 DEF StartRebuild, docVars, indexVars
  <2>2. /\ \A y \in Processes \ {x} : Kept(y) /\ HeldApart(x, y)'
        /\ \A e \in Docs : Restores(x, e)'
    <3>1. ASSUME NEW d \in Docs, Begin(x, "document", {d}, {})
          PROVE  /\ \A y \in Processes \ {x} : Kept(y) /\ HeldApart(x, y)'
                 /\ \A e \in Docs : Restores(x, e)'
      <4>1. "document" \in Ops /\ {d} \in SUBSET Docs /\ {} \in SUBSET Forms
        BY DEF Ops
      <4>2. /\ \A y \in Processes \ {x} : Kept(y)
            /\ txn'[x].rows = {} /\ txn'[x].dropped = DroppedBy("document")
        BY <1>0, <3>1, <4>1, BeginIsSound
      <4> QED
        BY <4>2 DEF DroppedBy, HeldApart, Held, Restores
    <3>2. ASSUME Begin(x, "user", Docs, {}), \A y \in Processes : Held(y) \cap listed = {}
          PROVE  /\ \A y \in Processes \ {x} : Kept(y) /\ HeldApart(x, y)'
                 /\ \A e \in Docs : Restores(x, e)'
      <4>1. /\ \A y \in Processes \ {x} : Kept(y)
            /\ txn'[x].rows = {} /\ txn'[x].dropped = listed
            /\ txn'[x].op = "user" /\ txn'[x].docs = Docs /\ txn'[x].step = "begun"
        BY <1>0, <3>2, BeginIsSound DEF Ops, DroppedBy
      <4>2. \A y \in Processes \ {x} : HeldApart(x, y)'
        BY <3>2, <4>1 DEF HeldApart, Held, Kept
      <4> QED
        BY <4>1, <4>2 DEF Restores, Writes
    <3> QED
      BY <2>1, <3>1, <3>2
  <2> QED
    BY <1>0, <2>1, <2>2, QuietRows
<1>2. CASE CommitRebuild(x)
  <2>1. Commit(x) /\ occ' = occ /\ stage' = stage /\ resumed' = resumed /\ affected' = affected
    BY <1>2 DEF CommitRebuild, docVars
  <2> QED
    BY <1>0, <2>1, CommitRows
<1>3. CASE FailRebuild(x)
  <2>1. /\ occ' = occ /\ listed' = listed /\ txn' = [txn EXCEPT ![x] = Closed]
        /\ stage' = stage /\ resumed' = resumed /\ affected' = affected
    BY <1>3 DEF FailRebuild, Rollback, indexVars
  <2>2. txn'[x] = Closed /\ \A y \in Processes \ {x} : txn'[y] = txn[y]
    BY <1>0, <2>1 DEF TypeOK
  <2> QED
    BY <1>0, <2>1, <2>2, ClosedRows, UnchangedKeeps, QuietRows
<1> QED
  BY <1>1, <1>2, <1>3 DEF Rebuild

LEMMA StepRows ==
  ASSUME SliceInv, RowInv, [Next]_vars
  PROVE  RowInv'
<1>1. CASE UNCHANGED vars
  <2>1. \A y : Kept(y)
    BY <1>1, UnchangedKeeps DEF vars
  <2>2. /\ occ' = occ /\ listed' = listed /\ stage' = stage /\ resumed' = resumed
        /\ affected' = affected
    BY <1>1 DEF vars, docVars, indexVars
  <2>3. \A d \in Docs : Affects(d)' /\ Publishes(d)' /\ WordsListed(d)'
    BY <2>1, <2>2, KeptPublishes DEF RowInv, Affects, WordsListed, Public, FormsOf
  <2>4. \A x \in Processes, d \in Docs : Restores(x, d)'
    BY <2>1, <2>2, KeptRestores DEF RowInv, Public
  <2>5. \A x \in Processes : \A y \in Processes \ {x} : HeldApart(x, y)'
    BY <2>1, KeptApart DEF RowInv
  <2> QED
    BY <2>3, <2>4, <2>5 DEF RowInv
<1> QED
  BY <1>1, TransactRows, IngestRows, RebuildRows DEF Next

LEMMA InitRows == Init => RowInv
<1> SUFFICES ASSUME Init PROVE RowInv
  OBVIOUS
<1>1. /\ \A x \in Processes : txn[x] = Closed
      /\ \A d \in Docs : stage[d] = "idle"
  BY DEF Init
<1>2. \A x \in Processes, y \in Processes : HeldApart(x, y)
  BY <1>1 DEF HeldApart, Held, Closed
<1>3. \A d \in Docs : Affects(d) /\ Publishes(d) /\ WordsListed(d)
  BY <1>1 DEF Affects, Publishes, WordsListed, Public, Open, Closed, Processes
<1>4. \A x \in Processes, d \in Docs : Restores(x, d)
  BY <1>1 DEF Restores, Closed
<1> QED
  BY <1>2, <1>3, <1>4 DEF RowInv

\* While no rebuild runs beside a clear, every word of a completed document has a
\* row, although rebuild_user deletes all rows while documents publish theirs.
THEOREM WordsStayListed ==
  ASSUME ~RebuildDuringClear
  PROVE  Spec => []CompletedWordsAreListed
<1>1. RowInv => CompletedWordsAreListed
  BY DEF RowInv, WordsListed, Public, CompletedWordsAreListed
<1>2. Init => SliceInv /\ RowInv
  BY InitSlices, InitRows
<1>3. SliceInv /\ RowInv /\ [Next]_vars => SliceInv' /\ RowInv'
  BY StepSlices, StepRows
<1> QED
  BY <1>1, <1>2, <1>3, PTL DEF Spec

--------------------------------------------------------------------------------
(* Repair.  While nobody else commits, rebuild_user has deleted exactly    *)
(* the rows there are, and what it reads are the occurrences.              *)

Occurring == {f \in Forms : \E d \in Docs : occ[d][f] > 0}
OccurrenceRows == [f \in Forms |-> [d \in Docs |-> occ[d][f]]]

Repairs(x) ==
    Open(x) /\ txn[x].op = "user" /\ txn[x].alone =>
        /\ txn[x].docs = Docs /\ txn[x].dropped = listed
        /\ txn[x].step # "writing" => txn[x].rows = {}
        /\ txn[x].step = "replaced" => txn[x].forms = Occurring
        /\ txn[x].step = "writing" => /\ txn[x].todo \cup txn[x].rows = Occurring
                                      /\ txn[x].seen = OccurrenceRows

UnlistedIsEmpty == \A f \in Forms \ listed : merged[f] = NoRow

RepairInv == UnlistedIsEmpty /\ \A x \in Processes : Repairs(x)

\* Whatever changes occurrences or rows ends the solitude of open transactions.
LEMMA CommitEndsSolitude ==
  ASSUME TypeOK, NEW x \in Processes, Commit(x)
  PROVE  /\ txn'[x] = Closed
         /\ \A y \in Processes \ {x} : Open(y)' => ~txn'[y].alone
<1>1. txn' = Witnessed(x)
  BY DEF Commit
<1>2. ASSUME NEW y \in Processes \ {x} PROVE Open(y)' => ~txn'[y].alone
  <2>1. txn[y] \in Transactions /\ (Open(y)' => Open(y))
    BY CommitKeeps DEF TypeOK, Kept, Open
  <2> DEFINE s == IF txn[y].step = "blocked" /\ \E p \in txn[x].pairs : p[1] \in txn[y].docs
                  THEN "missed" ELSE txn[y].step
             a == txn[y].alone /\ ~Open(y)
  <2>2. txn'[y] = [txn[y] EXCEPT !.step = s, !.alone = a]
    BY <1>1, <2>1 DEF Witnessed, Transactions
  <2>3. Open(y) => ~a
    OBVIOUS
  <2> HIDE DEF s, a
  <2>4. txn'[y].alone = a
    BY <2>1, <2>2 DEF Transactions
  <2> QED
    BY <2>1, <2>3, <2>4
<1> QED
  BY <1>1, <1>2 DEF Witnessed

LEMMA StorePageEndsSolitude ==
  ASSUME TypeOK, NEW d \in Docs, StorePage(d)
  PROVE  \A y \in Processes : Open(y)' => ~txn'[y].alone
<1> SUFFICES ASSUME NEW y \in Processes PROVE Open(y)' => ~txn'[y].alone
  OBVIOUS
<1>1. txn[y] \in Transactions /\ (Open(y)' => Open(y))
  BY StorePageKeeps DEF TypeOK, Kept, Open
<1> DEFINE a == txn[y].alone /\ ~Open(y)
<1>2. txn'[y] = [txn[y] EXCEPT !.alone = a] /\ (Open(y) => ~a)
  BY <1>1 DEF StorePage
<1> HIDE DEF a
<1>3. txn'[y].alone = a
  BY <1>1, <1>2 DEF Transactions
<1> QED
  BY <1>1, <1>2, <1>3

LEMMA CommitRepair ==
  ASSUME SliceInv, RepairInv, NEW x \in Processes, Commit(x)
  PROVE  RepairInv'
<1>1. TypeOK /\ txn[x] \in Transactions
  BY DEF SliceInv, TypeOK
<1>2. UnlistedIsEmpty'
  BY <1>1 DEF RepairInv, UnlistedIsEmpty, Commit
<1>3. ASSUME NEW y \in Processes PROVE Repairs(y)'
  <2>1. Open(y)' => ~txn'[y].alone
    BY <1>1, CommitEndsSolitude DEF Open, Closed
  <2> QED
    BY <2>1 DEF Repairs
<1> QED
  BY <1>2, <1>3 DEF RepairInv

\* A step that changes neither occurrences nor rows concerns only its own process.
LEMMA QuietRepair ==
  ASSUME RepairInv, NEW x \in Processes, occ' = occ, listed' = listed, merged' = merged,
         \A y \in Processes \ {x} : txn'[y] = txn[y], Repairs(x)'
  PROVE  RepairInv'
BY DEF RepairInv, UnlistedIsEmpty, Repairs, Open, Occurring, OccurrenceRows

LEMMA TransactRepair ==
  ASSUME SliceInv, RepairInv, NEW x \in Processes, Transact(x)
  PROVE  RepairInv'
<1>1. /\ TypeOK /\ txn[x] \in Transactions /\ Repairs(x) /\ slice = occ
      /\ txn \in [Processes -> Transactions]
  BY DEF SliceInv, SlicesAreExact, TypeOK, RepairInv
<1>2. /\ occ' = occ /\ listed' = listed /\ merged' = merged
      /\ \A y \in Processes \ {x} : txn'[y] = txn[y]
  BY <1>1 DEF Transact, Block, ReplaceSlices, StartPublish, WriteRow, indexVars
<1>3. CASE Block(x)
  <2>1. Repairs(x)'
    BY <1>1, <1>2, <1>3 DEF Block, Transactions, Repairs, Open
  <2> QED
    BY <1>2, <2>1, QuietRepair
<1>4. CASE ReplaceSlices(x)
  <2> DEFINE touched == {p \in txn[x].docs \X Forms :
                            \/ txn[x].step # "missed" /\ slice[p[1]][p[2]] > 0
                            \/ txn[x].op # "clear" /\ occ[p[1]][p[2]] > 0}
             forms == IF txn[x].op = "clear" THEN txn[x].forms
                      ELSE UNION {FormsOf(occ[d]) : d \in txn[x].docs}
  <2>1. /\ txn' = [txn EXCEPT ![x] = [txn[x] EXCEPT !.step = "replaced", !.pairs = touched,
                                                    !.own = Inserted(x), !.forms = forms]]
        /\ txn[x].step \in {"begun", "blocked", "missed"}
    BY <1>4 DEF ReplaceSlices
  <2>2. txn[x].op = "user" /\ txn[x].docs = Docs => forms = Occurring
    BY DEF Occurring, FormsOf
  <2> HIDE DEF touched, forms
  <2>3. /\ txn'[x].step = "replaced" /\ txn'[x].forms = forms /\ txn'[x].op = txn[x].op
        /\ txn'[x].docs = txn[x].docs /\ txn'[x].dropped = txn[x].dropped
        /\ txn'[x].rows = txn[x].rows /\ txn'[x].alone = txn[x].alone
    BY <1>1, <2>1 DEF Transactions
  <2>4. Repairs(x)'
    BY <1>1, <1>2, <2>1, <2>2, <2>3 DEF Repairs, Open, Occurring
  <2> QED
    BY <1>2, <2>4, QuietRepair
<1>5. CASE StartPublish(x)
  <2>1. /\ txn[x].step = "replaced" /\ txn'[x].step = "writing" /\ txn'[x].op = txn[x].op
        /\ txn'[x].docs = txn[x].docs /\ txn'[x].dropped = txn[x].dropped
        /\ txn'[x].rows = txn[x].rows /\ txn'[x].alone = txn[x].alone
        /\ txn'[x].seen = ReadRows(x) /\ txn'[x].todo = RowsToWrite(x)
    BY <1>1, <1>5 DEF StartPublish, Transactions
  <2>2. ASSUME txn[x].op = "user", txn[x].forms = Occurring
        PROVE  ReadRows(x) = OccurrenceRows /\ RowsToWrite(x) = Occurring
    <3>1. View(x) = occ
      BY <1>1, <2>2, CommitIsExact
    <3> QED
      BY <2>2, <3>1 DEF ReadRows, OccurrenceRows, RowsToWrite, Occurring
  <2>3. Repairs(x)'
    BY <1>1, <1>2, <2>1, <2>2 DEF Repairs, Open, Occurring, OccurrenceRows
  <2> QED
    BY <1>2, <2>3, QuietRepair
<1>6. ASSUME NEW f \in Forms, WriteRow(x, f) PROVE RepairInv'
  <2>1. /\ txn[x].step = "writing" /\ txn'[x].step = "writing" /\ f \in txn[x].todo
        /\ txn'[x].todo = txn[x].todo \ {f} /\ txn'[x].rows = txn[x].rows \cup {f}
        /\ txn'[x].op = txn[x].op /\ txn'[x].docs = txn[x].docs
        /\ txn'[x].dropped = txn[x].dropped /\ txn'[x].alone = txn[x].alone
        /\ txn'[x].seen = txn[x].seen
    BY <1>1, <1>6 DEF WriteRow, Transactions
  <2>2. Repairs(x)'
    BY <1>1, <1>2, <2>1 DEF Repairs, Open, Occurring, OccurrenceRows
  <2> QED
    BY <1>2, <2>2, QuietRepair
<1> QED
  BY <1>3, <1>4, <1>5, <1>6 DEF Transact

LEMMA IngestRepair ==
  ASSUME SliceInv, RepairInv, NEW d \in Docs, Ingest(d)
  PROVE  RepairInv'
<1>0. d \in Processes /\ TypeOK /\ Repairs(d) /\ txn \in [Processes -> Transactions]
  BY DEF SliceInv, RepairInv, TypeOK, Processes
<1>1. CASE CommitClear(d) \/ CommitSave(d)
  BY <1>0, <1>1, CommitRepair DEF CommitClear, CommitSave
<1>2. CASE StorePage(d)
  <2>1. ASSUME NEW y \in Processes PROVE Repairs(y)'
    BY <1>0, <1>2, StorePageEndsSolitude DEF Repairs
  <2> QED
    BY <1>2, <2>1 DEF RepairInv, UnlistedIsEmpty, StorePage
<1>3. CASE StartClear(d) \/ StartSave(d)
  <2>1. /\ occ' = occ /\ listed' = listed /\ merged' = merged
        /\ \E op \in {"clear", "resume", "save"} : \E D, F : Begin(d, op, D, F)
    BY <1>3 DEF StartClear, StartSave, indexVars
  <2>2. txn'[d].op # "user" /\ \A y \in Processes \ {d} : txn'[y] = txn[y]
    BY <1>0, <2>1 DEF Begin, Closed
  <2> QED
    BY <1>0, <2>1, <2>2, QuietRepair DEF Repairs
<1>4. CASE StartResume(d) \/ StorePageFails(d) \/ Finish(d) \/ FailRun(d)
  <2>1. occ' = occ /\ listed' = listed /\ merged' = merged /\ txn' = txn
    BY <1>4 DEF StartResume, StorePageFails, Finish, FailRun, indexVars
  <2> QED
    BY <1>0, <2>1, QuietRepair DEF Repairs, Open, Occurring, OccurrenceRows
<1>5. CASE FailTransaction(d)
  <2>1. /\ occ' = occ /\ listed' = listed /\ merged' = merged
        /\ txn' = [txn EXCEPT ![d] = Closed]
    BY <1>5 DEF FailTransaction, Rollback, indexVars
  <2>2. Repairs(d)'
    BY <1>0, <2>1 DEF Repairs, Open, Closed
  <2> QED
    BY <1>0, <2>1, <2>2, QuietRepair
<1> QED
  BY <1>1, <1>2, <1>3, <1>4, <1>5 DEF Ingest

LEMMA RebuildRepair ==
  ASSUME SliceInv, RepairInv, NEW x \in Tasks, Rebuild(x)
  PROVE  RepairInv'
<1>0. x \in Processes /\ TypeOK /\ txn \in [Processes -> Transactions]
  BY DEF SliceInv, TypeOK, Processes
<1>1. CASE StartRebuild(x)
  <2>1. /\ occ' = occ /\ listed' = listed /\ merged' = merged
        /\ \/ \E d \in Docs : Begin(x, "document", {d}, {})
           \/ Begin(x, "user", Docs, {})
    BY <1>1 DEF StartRebuild, indexVars
  <2>2. Repairs(x)' /\ \A y \in Processes \ {x} : txn'[y] = txn[y]
    <3>1. CASE \E d \in Docs : Begin(x, "document", {d}, {})
      BY <1>0, <3>1 DEF Begin, Closed, Repairs
    <3>2. CASE Begin(x, "user", Docs, {})
      BY <1>0, <2>1, <3>2 DEF Begin, Closed, Repairs, DroppedBy
    <3> QED
      BY <2>1, <3>1, <3>2
  <2> QED
    BY <1>0, <2>1, <2>2, QuietRepair
<1>2. CASE CommitRebuild(x)
  BY <1>0, <1>2, CommitRepair DEF CommitRebuild
<1>3. CASE FailRebuild(x)
  <2>1. /\ occ' = occ /\ listed' = listed /\ merged' = merged
        /\ txn' = [txn EXCEPT ![x] = Closed]
    BY <1>3 DEF FailRebuild, Rollback, indexVars
  <2>2. Repairs(x)'
    BY <1>0, <2>1 DEF Repairs, Open, Closed
  <2> QED
    BY <1>0, <2>1, <2>2, QuietRepair
<1> QED
  BY <1>1, <1>2, <1>3 DEF Rebuild

\* The commit of a rebuild that was alone leaves the slices and rows of the
\* occurrences.
LEMMA AloneCommitRepairs ==
  ASSUME SliceInv, RepairInv, NEW x \in Tasks, CommitRebuild(x),
         txn[x].op = "user", txn[x].alone
  PROVE  /\ slice' = occ
         /\ listed' = Occurring
         /\ merged' = OccurrenceRows
<1>1. /\ TypeOK /\ txn[x] \in Transactions /\ Commit(x) /\ Repairs(x) /\ Open(x)
      /\ txn[x].step = "writing" /\ txn[x].todo = {} /\ occ \in [Docs -> Counts]
  BY DEF SliceInv, TypeOK, RepairInv, CommitRebuild, Commit, Processes, Open
<1>2. txn[x].dropped = listed /\ txn[x].rows = Occurring /\ txn[x].seen = OccurrenceRows
  BY <1>1 DEF Repairs
<1>3. slice' = occ
  BY <1>1, CommitIsExact DEF Commit, SliceInv, SlicesAreExact, Processes
<1>4. listed' = Occurring
  BY <1>1, <1>2 DEF Commit, Occurring
<1>5. \A f \in Forms \ Occurring : OccurrenceRows[f] = NoRow
  BY <1>1 DEF Occurring, OccurrenceRows, NoRow, Counts
<1>6. \A f \in Forms : merged'[f] = OccurrenceRows[f]
  BY <1>1, <1>2, <1>5 DEF Commit, RepairInv, UnlistedIsEmpty
<1>7. merged' = OccurrenceRows
  BY <1>1, <1>6 DEF Commit, OccurrenceRows
<1> QED
  BY <1>3, <1>4, <1>7

LEMMA InitRepair == Init => RepairInv
BY DEF Init, RepairInv, UnlistedIsEmpty, Repairs, Open, Closed

LEMMA StepRepair ==
  ASSUME SliceInv, RepairInv, [Next]_vars
  PROVE  RepairInv'
<1>1. CASE UNCHANGED vars
  BY <1>1 DEF RepairInv, UnlistedIsEmpty, Repairs, Open, Occurring, OccurrenceRows,
     vars, indexVars
<1> QED
  BY <1>1, TransactRepair, IngestRepair, RebuildRepair DEF Next

\* rebuild_user repairs whatever went wrong before, when nobody else commits
\* while it runs.
THEOREM RebuildsRepair ==
  ASSUME ~RebuildDuringClear
  PROVE  Spec => RebuildRepairs
<1>1. Init => SliceInv /\ RepairInv
  BY InitSlices, InitRepair
<1>2. SliceInv /\ RepairInv /\ [Next]_vars => SliceInv' /\ RepairInv'
  BY StepSlices, StepRepair
<1> DEFINE A == \A x \in Tasks :
                   CommitRebuild(x) /\ txn[x].op = "user" /\ txn[x].alone
                   => /\ slice' = occ
                      /\ listed' = {f \in Forms : \E d \in Docs : occ[d][f] > 0}
                      /\ merged' = [f \in Forms |-> [d \in Docs |-> occ[d][f]]]
<1>3. SliceInv /\ RepairInv => A
  BY AloneCommitRepairs DEF Occurring, OccurrenceRows
<1> HIDE DEF A
<1>4. SliceInv /\ RepairInv /\ [Next]_vars => [A]_vars
  BY <1>3
<1>5. Spec => [][A]_vars
  BY <1>1, <1>2, <1>4, PTL DEF Spec
<1> QED
  BY <1>5, PTL DEF A, RebuildRepairs

--------------------------------------------------------------------------------
(* Merged rows.  A transaction that nobody overlaps writes the rows of all *)
(* the slices it changes, from the slices it leaves; one that was not      *)
(* alone marks those rows stale.  A document becomes public only with the  *)
(* commit that publishes its words.                                        *)

\* The words of which every slice belongs to a public document.
Shared(f) == /\ \E d \in Docs : occ[d][f] > 0
             /\ \A d \in Docs : occ[d][f] > 0 => Public(d)

RowIsCounted(f) == f \in listed /\ merged[f] = [d \in Docs |-> occ[d][f]]

\* A clearing transaction publishes every word its document still has.
ClearCovers(d) == txn[d].op = "clear" => FormsOf(occ[d]) \subseteq txn[d].forms

\* While x is alone, what its publish statement read is what x leaves.
Reads(x) ==
    Open(x) =>
        /\ txn[x].step # "writing" => txn[x].rows = {}
        /\ txn[x].step = "writing" /\ txn[x].alone =>
               /\ txn[x].seen = ReadRows(x)
               /\ txn[x].todo \cup txn[x].rows = RowsToWrite(x)

MergeInv == /\ \A d \in Docs : ClearCovers(d)
            /\ \A x \in Processes : Reads(x)
            /\ \A f \in Forms : Shared(f) /\ f \notin stale => RowIsCounted(f)

\* A step that changes neither counts nor rows concerns only its own process.
LEMMA QuietMerge ==
  ASSUME MergeInv, NEW x \in Processes, occ' = occ, slice' = slice,
         listed' = listed, merged' = merged, stale' = stale,
         \A y \in Processes \ {x} : txn'[y] = txn[y],
         \A d \in Docs : Public(d)' => Public(d),
         x \in Docs => ClearCovers(x)', Reads(x)'
  PROVE  MergeInv'
<1>1. ASSUME NEW d \in Docs PROVE ClearCovers(d)'
  <2>1. CASE d = x
    BY <2>1
  <2>2. CASE d # x
    BY <2>2 DEF MergeInv, ClearCovers, FormsOf, Processes
  <2> QED
    BY <2>1, <2>2
<1>2. ASSUME NEW y \in Processes PROVE Reads(y)'
  <2>1. CASE y = x
    BY <2>1
  <2>2. CASE y # x
    <3>1. txn'[y] = txn[y] /\ Reads(y)
      BY <2>2 DEF MergeInv
    <3>2. View(y)' = View(y)
      BY <3>1 DEF View
    <3>3. ReadRows(y)' = ReadRows(y) /\ RowsToWrite(y)' = RowsToWrite(y)
      BY <3>1, <3>2 DEF ReadRows, RowsToWrite
    <3> QED
      BY <3>1, <3>3 DEF Reads, Open
  <2> QED
    BY <2>1, <2>2
<1>3. ASSUME NEW f \in Forms, Shared(f)', f \notin stale PROVE RowIsCounted(f)'
  BY <1>3 DEF MergeInv, Shared, RowIsCounted
<1> QED
  BY <1>1, <1>2, <1>3 DEF MergeInv

LEMMA TransactMerge ==
  ASSUME SliceInv, MergeInv, NEW x \in Processes, Transact(x)
  PROVE  MergeInv'
<1>1. /\ TypeOK /\ txn \in [Processes -> Transactions] /\ txn[x] \in Transactions
      /\ Reads(x) /\ (x \in Docs => ClearCovers(x))
  BY DEF SliceInv, TypeOK, MergeInv
<1>2. /\ occ' = occ /\ slice' = slice /\ listed' = listed /\ merged' = merged
      /\ stale' = stale /\ stage' = stage
      /\ \A y \in Processes \ {x} : txn'[y] = txn[y]
  BY <1>1 DEF Transact, Block, ReplaceSlices, StartPublish, WriteRow, docVars, indexVars
<1>3. CASE Block(x)
  <2>1. Reads(x)' /\ (x \in Docs => ClearCovers(x)')
    BY <1>1, <1>2, <1>3 DEF Block, Transactions, Reads, ClearCovers, Open, FormsOf
  <2> QED
    BY <1>2, <2>1, QuietMerge DEF Public
<1>4. CASE ReplaceSlices(x)
  <2> DEFINE touched == {p \in txn[x].docs \X Forms :
                            \/ txn[x].step # "missed" /\ slice[p[1]][p[2]] > 0
                            \/ txn[x].op # "clear" /\ occ[p[1]][p[2]] > 0}
             forms == IF txn[x].op = "clear" THEN txn[x].forms
                      ELSE UNION {FormsOf(occ[d]) : d \in txn[x].docs}
  <2>1. /\ txn' = [txn EXCEPT ![x] = [txn[x] EXCEPT !.step = "replaced", !.pairs = touched,
                                                    !.own = Inserted(x), !.forms = forms]]
        /\ txn[x].step \in {"begun", "blocked", "missed"}
    BY <1>4 DEF ReplaceSlices
  <2>2. txn[x].op = "clear" => forms = txn[x].forms
    OBVIOUS
  <2> HIDE DEF touched, forms
  <2>3. /\ txn'[x].step = "replaced" /\ txn'[x].forms = forms /\ txn'[x].op = txn[x].op
        /\ txn'[x].rows = txn[x].rows
    BY <1>1, <2>1 DEF Transactions
  <2>4. Reads(x)' /\ (x \in Docs => ClearCovers(x)')
    BY <1>1, <1>2, <2>1, <2>2, <2>3 DEF Reads, ClearCovers, Open, FormsOf
  <2> QED
    BY <1>2, <2>4, QuietMerge DEF Public
<1>5. CASE StartPublish(x)
  <2>1. /\ txn[x].step = "replaced" /\ txn'[x].step = "writing" /\ txn'[x].op = txn[x].op
        /\ txn'[x].pairs = txn[x].pairs /\ txn'[x].own = txn[x].own
        /\ txn'[x].forms = txn[x].forms /\ txn'[x].rows = txn[x].rows
        /\ txn'[x].seen = ReadRows(x) /\ txn'[x].todo = RowsToWrite(x)
    BY <1>1, <1>5 DEF StartPublish, Transactions
  <2>2. View(x)' = View(x)
    BY <1>2, <2>1 DEF View
  <2>3. ReadRows(x)' = ReadRows(x) /\ RowsToWrite(x)' = RowsToWrite(x)
    BY <2>1, <2>2 DEF ReadRows, RowsToWrite
  <2>4. txn[x].rows = {}
    BY <1>1, <2>1 DEF Reads, Open
  <2>5. Reads(x)'
    BY <2>1, <2>3, <2>4 DEF Reads
  <2>6. x \in Docs => ClearCovers(x)'
    BY <1>1, <1>2, <2>1 DEF ClearCovers, FormsOf
  <2> QED
    BY <1>2, <2>5, <2>6, QuietMerge DEF Public
<1>6. ASSUME NEW f \in Forms, WriteRow(x, f) PROVE MergeInv'
  <2>1. /\ txn[x].step = "writing" /\ txn'[x].step = "writing" /\ f \in txn[x].todo
        /\ txn'[x].todo = txn[x].todo \ {f} /\ txn'[x].rows = txn[x].rows \cup {f}
        /\ txn'[x].op = txn[x].op /\ txn'[x].pairs = txn[x].pairs
        /\ txn'[x].own = txn[x].own /\ txn'[x].forms = txn[x].forms
        /\ txn'[x].alone = txn[x].alone /\ txn'[x].seen = txn[x].seen
    BY <1>1, <1>6 DEF WriteRow, Transactions
  <2>2. View(x)' = View(x)
    BY <1>2, <2>1 DEF View
  <2>3. ReadRows(x)' = ReadRows(x) /\ RowsToWrite(x)' = RowsToWrite(x)
    BY <2>1, <2>2 DEF ReadRows, RowsToWrite
  <2>4. Reads(x)'
    BY <1>1, <2>1, <2>3 DEF Reads, Open
  <2>5. x \in Docs => ClearCovers(x)'
    BY <1>1, <1>2, <2>1 DEF ClearCovers, FormsOf
  <2> QED
    BY <1>2, <2>4, <2>5, QuietMerge DEF Public
<1> QED
  BY <1>3, <1>4, <1>5, <1>6 DEF Transact

\* The row of a word that x publishes is counted after x's commit, or stale, or
\* the word is gone.
LEMMA CommitCounts ==
  ASSUME SliceInv, SlicesAreExact', RepairInv, MergeInv, NEW x \in Processes, Commit(x),
         occ' \in [Docs -> Counts],
         NEW f \in Forms, f \in Held(x) \cup txn[x].forms, Shared(f)', f \notin stale',
         f \in txn[x].dropped => txn[x].op = "user"
  PROVE  RowIsCounted(f)'
<1>1. /\ TypeOK /\ txn[x] \in Transactions /\ txn[x].step = "writing"
      /\ txn[x].todo = {} /\ Open(x) /\ Reads(x) /\ Repairs(x)
      /\ slice' = View(x) /\ listed' = (listed \ txn[x].dropped) \cup txn[x].rows
  BY DEF SliceInv, TypeOK, Commit, Open, MergeInv, RepairInv
<1>2. stale' = IF txn[x].alone THEN stale \ Held(x) ELSE stale \cup Held(x) \cup txn[x].forms
  BY DEF Commit
<1>3. txn[x].alone
  BY <1>2
<1>4. txn[x].seen = ReadRows(x) /\ txn[x].rows = RowsToWrite(x)
  BY <1>1, <1>3 DEF Reads
<1>5. occ' = View(x)
  BY <1>1 DEF SlicesAreExact
<1>6. PICK d \in Docs : occ'[d][f] > 0
  BY DEF Shared
<1>7. f \in txn[x].rows
  <2>1. CASE f \in txn[x].rows
    BY <2>1
  <2>2. CASE f \in txn[x].forms
    BY <1>4, <1>5, <1>6, <2>2 DEF RowsToWrite
  <2>3. CASE f \in txn[x].dropped
    <3>1. txn[x].op = "user" /\ txn[x].rows = Occurring
      BY <1>1, <1>3, <2>3 DEF Repairs
    <3>2. occ' = occ
      BY <1>5, <3>1, CommitIsExact DEF SliceInv, SlicesAreExact
    <3> QED
      BY <1>6, <3>1, <3>2 DEF Occurring
  <2> QED
    BY <2>1, <2>2, <2>3 DEF Held
<1>8. merged'[f] = txn[x].seen[f]
  BY <1>7 DEF Commit
<1>9. merged'[f] = [e \in Docs |-> occ'[e][f]]
  BY <1>4, <1>5, <1>8 DEF ReadRows
<1> QED
  BY <1>1, <1>7, <1>9 DEF RowIsCounted

\* A commit of x, which publishes every word of which x changes the counts or
\* whose document it makes public.
LEMMA CommitMerge ==
  ASSUME SliceInv, SlicesAreExact', RepairInv, RowInv, MergeInv,
         NEW x \in Processes, Commit(x), occ' \in [Docs -> Counts],
         \A d \in Docs \ {x} : occ'[d] = occ[d] /\ stage'[d] = stage[d],
         x \in Docs => \A f \in Forms \ (Held(x) \cup txn[x].forms) :
                           /\ occ'[x][f] = occ[x][f]
                           /\ occ[x][f] > 0 => ~Public(x)'
  PROVE  MergeInv'
<1>1. TypeOK /\ txn[x] \in Transactions /\ \A d \in Docs : d \in Processes
  BY DEF SliceInv, TypeOK, Processes
<1>2. txn'[x] = Closed /\ \A y \in Processes \ {x} : Kept(y) /\ (Open(y)' => ~txn'[y].alone)
  BY <1>1, CommitKeeps, CommitEndsSolitude
<1>3. ASSUME NEW d \in Docs PROVE ClearCovers(d)'
  <2>1. CASE d = x
    BY <1>2, <2>1 DEF ClearCovers, Closed
  <2>2. CASE d # x
    <3>1. ClearCovers(d) /\ Kept(d)
      BY <1>1, <1>2, <2>2 DEF MergeInv
    <3> QED
      BY <2>2, <3>1 DEF ClearCovers, Kept, FormsOf
  <2> QED
    BY <2>1, <2>2
<1>4. ASSUME NEW y \in Processes PROVE Reads(y)'
  <2>1. CASE y = x
    BY <1>2, <2>1 DEF Reads, Open, Closed
  <2>2. CASE y # x
    <3>1. Kept(y) /\ (Open(y)' => ~txn'[y].alone) /\ Reads(y)
      BY <1>2, <2>2 DEF MergeInv
    <3> QED
      BY <3>1 DEF Reads, Kept, Open
  <2> QED
    BY <2>1, <2>2
<1>5. ASSUME NEW f \in Forms, Shared(f)', f \notin stale' PROVE RowIsCounted(f)'
  <2>1. PICK e \in Docs : occ'[e][f] > 0
    BY <1>5 DEF Shared
  <2>2. f \in txn[x].dropped => txn[x].op = "user"
    BY <2>1 DEF RowInv, Restores
  <2>3. CASE f \in Held(x) \cup txn[x].forms
    BY <1>5, <2>2, <2>3, CommitCounts
  <2>4. CASE f \notin Held(x) \cup txn[x].forms
    <3>1. \A d \in Docs : occ'[d][f] = occ[d][f]
      BY <2>4
    <3>2. \A d \in Docs : occ[d][f] > 0 => Public(d)
      <4> SUFFICES ASSUME NEW d \in Docs, occ[d][f] > 0 PROVE Public(d)
        OBVIOUS
      <4>1. Public(d)'
        BY <1>5, <3>1 DEF Shared
      <4>2. d # x
        BY <2>4, <4>1
      <4> QED
        BY <4>1, <4>2 DEF Public
    <3>3. Shared(f)
      BY <2>1, <3>1, <3>2 DEF Shared
    <3>4. stale' = IF txn[x].alone THEN stale \ Held(x)
                   ELSE stale \cup Held(x) \cup txn[x].forms
      BY DEF Commit
    <3>5. f \notin stale
      BY <1>5, <2>4, <3>4
    <3>6. RowIsCounted(f)
      BY <3>3, <3>5 DEF MergeInv
    <3>7. merged'[f] = merged[f] /\ (f \in listed => f \in listed')
      BY <2>4 DEF Commit, Held
    <3> QED
      BY <3>1, <3>6, <3>7 DEF RowIsCounted
  <2> QED
    BY <2>3, <2>4
<1> QED
  BY <1>3, <1>4, <1>5 DEF MergeInv

LEMMA IngestMerge ==
  ASSUME SliceInv, SliceInv', RepairInv, RowInv, MergeInv, NEW d \in Docs, Ingest(d)
  PROVE  MergeInv'
<1>0. /\ d \in Processes /\ TypeOK /\ txn \in [Processes -> Transactions]
      /\ txn[d] \in Transactions /\ occ \in [Docs -> Counts] /\ occ' \in [Docs -> Counts]
      /\ SlicesAreExact /\ SlicesAreExact' /\ Reads(d) /\ ClearCovers(d)
      /\ stage \in [Docs -> Stages]
  BY DEF SliceInv, TypeOK, Processes, MergeInv
<1>1. CASE CommitClear(d)
  <2>1. /\ Commit(d) /\ txn[d].op = "clear" /\ stage' = [stage EXCEPT ![d] = "storing"]
        /\ occ' = [occ EXCEPT ![d] = NoCounts]
    BY <1>1 DEF CommitClear
  <2>2. \A e \in Docs \ {d} : occ'[e] = occ[e] /\ stage'[e] = stage[e]
    BY <1>0, <2>1
  <2>3. ASSUME NEW f \in Forms \ txn[d].forms PROVE occ'[d][f] = occ[d][f]
    <3>1. ~(occ[d][f] > 0) /\ occ[d][f] \in Nat
      BY <1>0, <2>1 DEF ClearCovers, FormsOf, Counts
    <3> QED
      BY <1>0, <2>1, <3>1 DEF NoCounts
  <2>4. ~Public(d)'
    BY <1>0, <2>1 DEF Public
  <2> QED
    BY <1>0, <2>1, <2>2, <2>3, <2>4, CommitMerge
<1>2. CASE CommitSave(d)
  <2>1. /\ Commit(d) /\ txn[d].op # "clear" /\ occ' = occ
        /\ stage' = [stage EXCEPT ![d] = "published"]
        /\ txn[d].step = "writing" /\ txn[d].todo = {}
    BY <1>2 DEF CommitSave, Commit
  <2>2. FormsOf(occ[d]) \subseteq Held(d)
    BY <2>1 DEF RowInv, Publishes, Writes, Open, Held
  <2>3. \A f \in Forms \ (Held(d) \cup txn[d].forms) : ~(occ[d][f] > 0)
    BY <2>2 DEF FormsOf
  <2> QED
    BY <1>0, <2>1, <2>3, CommitMerge
<1>3. CASE StorePage(d)
  <2>1. /\ stage[d] = "storing" /\ stage' = stage /\ listed' = listed
        /\ merged' = merged /\ stale' = stale
        /\ \A e \in Docs \ {d} : occ'[e] = occ[e]
    BY <1>0, <1>3 DEF StorePage
  <2>2. ASSUME NEW f \in Forms PROVE occ'[d][f] \in Nat /\ occ'[d][f] >= occ[d][f]
    <3>1. occ'[d][f] = occ[d][f] + NextPage(d)[f]
      BY <1>0, <1>3 DEF StorePage
    <3>2. occ[d][f] \in Nat /\ NextPage(d)[f] \in Nat
      BY <1>0, <1>3, PageType DEF Counts, StorePage
    <3> QED
      BY <3>1, <3>2
  <2>3. \A y \in Processes : Kept(y) /\ (Open(y)' => ~txn'[y].alone)
    BY <1>0, <1>3, StorePageKeeps, StorePageEndsSolitude
  <2>4. ASSUME NEW e \in Docs PROVE ClearCovers(e)'
    <3>1. ClearCovers(e) /\ Kept(e) /\ ClearIsClearing(e)
      BY <2>3 DEF MergeInv, SliceInv, Sound, Processes
    <3>2. CASE e = d
      BY <2>1, <3>1, <3>2 DEF ClearCovers, ClearIsClearing, Kept
    <3>3. CASE e # d
      BY <2>1, <3>1, <3>3 DEF ClearCovers, Kept, FormsOf
    <3> QED
      BY <3>2, <3>3
  <2>5. ASSUME NEW y \in Processes PROVE Reads(y)'
    <3>1. Kept(y) /\ (Open(y)' => ~txn'[y].alone) /\ Reads(y)
      BY <2>3 DEF MergeInv
    <3> QED
      BY <3>1 DEF Reads, Kept, Open
  <2>6. ASSUME NEW f \in Forms, Shared(f)', f \notin stale' PROVE RowIsCounted(f)'
    <3>1. ~Public(d)'
      BY <2>1 DEF Public
    <3>2. occ[d][f] \in Nat /\ occ'[d][f] \in Nat /\ ~(occ'[d][f] > 0)
      BY <1>0, <2>2, <2>6, <3>1 DEF Shared, Counts
    <3>3. occ'[d][f] = occ[d][f]
      BY <2>2, <3>2
    <3>4. \A e \in Docs : occ'[e][f] = occ[e][f]
      BY <2>1, <3>3
    <3>5. Shared(f)
      BY <2>1, <2>6, <3>4 DEF Shared, Public
    <3>6. RowIsCounted(f)
      BY <2>1, <2>6, <3>5 DEF MergeInv
    <3> QED
      BY <2>1, <3>4, <3>6 DEF RowIsCounted
  <2> QED
    BY <2>4, <2>5, <2>6 DEF MergeInv
<1>4. CASE StartClear(d)
  <2>1. /\ occ' = occ /\ slice' = slice /\ listed' = listed /\ merged' = merged
        /\ stale' = stale /\ stage' = [stage EXCEPT ![d] = "clearing"]
        /\ \E D : Begin(d, "clear", D, FormsOf(slice[d]))
    BY <1>4 DEF StartClear, indexVars
  <2>2. /\ txn'[d].forms = FormsOf(slice[d]) /\ txn'[d].step = "begun"
        /\ txn'[d].rows = {}
        /\ \A y \in Processes \ {d} : txn'[y] = txn[y]
    BY <1>0, <2>1 DEF Begin, Closed
  <2>3. ClearCovers(d)'
    BY <1>0, <2>1, <2>2 DEF ClearCovers, SlicesAreExact
  <2>4. Reads(d)'
    BY <2>2 DEF Reads
  <2>5. \A e \in Docs : Public(e)' => Public(e)
    BY <1>0, <2>1 DEF Public
  <2> QED
    BY <1>0, <2>1, <2>2, <2>3, <2>4, <2>5, QuietMerge
<1>5. CASE StartSave(d)
  <2>1. /\ occ' = occ /\ slice' = slice /\ listed' = listed /\ merged' = merged
        /\ stale' = stale /\ stage' = [stage EXCEPT ![d] = "publishing"]
        /\ \E op \in {"resume", "save"} : \E D, F : Begin(d, op, D, F)
    BY <1>5 DEF StartSave, indexVars
  <2>2. /\ txn'[d].op # "clear" /\ txn'[d].step # "writing" /\ txn'[d].rows = {}
        /\ \A y \in Processes \ {d} : txn'[y] = txn[y]
    BY <1>0, <2>1 DEF Begin, Closed
  <2>3. ClearCovers(d)' /\ Reads(d)'
    BY <2>2 DEF ClearCovers, Reads
  <2>4. \A e \in Docs : Public(e)' => Public(e)
    BY <1>0, <2>1 DEF Public
  <2> QED
    BY <1>0, <2>1, <2>2, <2>3, <2>4, QuietMerge
<1>6. CASE StartResume(d) \/ StorePageFails(d) \/ Finish(d) \/ FailRun(d)
  <2>1. /\ occ' = occ /\ slice' = slice /\ listed' = listed /\ merged' = merged
        /\ stale' = stale /\ txn' = txn
        /\ \A e \in Docs \ {d} : stage'[e] = stage[e]
    BY <1>0, <1>6 DEF StartResume, StorePageFails, Finish, FailRun, indexVars
  <2>2. Public(d)' => Public(d)
    BY <1>0, <1>6 DEF StartResume, StorePageFails, Finish, FailRun, Public
  <2>3. \A e \in Docs : Public(e)' => Public(e)
    BY <2>1, <2>2 DEF Public
  <2>4. ClearCovers(d)'
    BY <1>0, <2>1 DEF ClearCovers
  <2>5. View(d)' = View(d)
    BY <2>1 DEF View
  <2>6. Reads(d)'
    BY <1>0, <2>1, <2>5 DEF Reads, Open, ReadRows, RowsToWrite
  <2> QED
    BY <1>0, <2>1, <2>3, <2>4, <2>6, QuietMerge
<1>7. CASE FailTransaction(d)
  <2>1. /\ occ' = occ /\ slice' = slice /\ listed' = listed /\ merged' = merged
        /\ stale' = stale /\ txn' = [txn EXCEPT ![d] = Closed]
        /\ stage' = [stage EXCEPT ![d] = "failed"]
    BY <1>7 DEF FailTransaction, Rollback, indexVars
  <2>2. ClearCovers(d)' /\ Reads(d)'
    BY <1>0, <2>1 DEF ClearCovers, Reads, Open, Closed
  <2>3. \A e \in Docs : Public(e)' => Public(e)
    BY <1>0, <2>1 DEF Public
  <2> QED
    BY <1>0, <2>1, <2>2, <2>3, QuietMerge
<1> QED
  BY <1>1, <1>2, <1>3, <1>4, <1>5, <1>6, <1>7 DEF Ingest

LEMMA RebuildMerge ==
  ASSUME SliceInv, SliceInv', RepairInv, RowInv, MergeInv, NEW x \in Tasks, Rebuild(x)
  PROVE  MergeInv'
<1>0. /\ x \in Processes /\ x \notin Docs /\ TypeOK /\ SlicesAreExact'
      /\ txn \in [Processes -> Transactions] /\ occ' \in [Docs -> Counts]
  BY ProcessesAssumption DEF SliceInv, TypeOK, Processes
<1>1. CASE StartRebuild(x)
  <2>1. /\ occ' = occ /\ slice' = slice /\ listed' = listed /\ merged' = merged
        /\ stale' = stale /\ stage' = stage
        /\ \E op \in {"document", "user"} : \E D, F : Begin(x, op, D, F)
    BY <1>1 DEF StartRebuild, docVars, indexVars
  <2>2. /\ txn'[x].step # "writing" /\ txn'[x].rows = {}
        /\ \A y \in Processes \ {x} : txn'[y] = txn[y]
    BY <1>0, <2>1 DEF Begin, Closed
  <2> QED
    BY <1>0, <2>1, <2>2, QuietMerge DEF Reads, Public
<1>2. CASE CommitRebuild(x)
  <2>1. Commit(x) /\ occ' = occ /\ stage' = stage
    BY <1>2 DEF CommitRebuild, docVars
  <2> QED
    BY <1>0, <2>1, CommitMerge
<1>3. CASE FailRebuild(x)
  <2>1. /\ occ' = occ /\ slice' = slice /\ listed' = listed /\ merged' = merged
        /\ stale' = stale /\ stage' = stage /\ txn' = [txn EXCEPT ![x] = Closed]
    BY <1>3 DEF FailRebuild, Rollback, indexVars
  <2>2. Reads(x)'
    BY <1>0, <2>1 DEF Reads, Open, Closed
  <2> QED
    BY <1>0, <2>1, <2>2, QuietMerge DEF Public
<1> QED
  BY <1>1, <1>2, <1>3 DEF Rebuild

LEMMA InitMerge == Init => MergeInv
<1> SUFFICES ASSUME Init PROVE MergeInv
  OBVIOUS
<1>1. \A x \in Processes : txn[x] = Closed
  BY DEF Init
<1>2. \A d \in Docs : ClearCovers(d)
  BY <1>1 DEF ClearCovers, Closed, Processes
<1>3. \A x \in Processes : Reads(x)
  BY <1>1 DEF Reads, Open, Closed
<1>4. \A f \in Forms : ~Shared(f)
  BY DEF Init, Shared, NoCounts
<1> QED
  BY <1>2, <1>3, <1>4 DEF MergeInv

LEMMA StepMerge ==
  ASSUME SliceInv, SliceInv', RepairInv, RowInv, MergeInv, [Next]_vars
  PROVE  MergeInv'
<1>1. CASE UNCHANGED vars
  <2>1. /\ occ' = occ /\ slice' = slice /\ listed' = listed /\ merged' = merged
        /\ stale' = stale /\ txn' = txn /\ stage' = stage
    BY <1>1 DEF vars, docVars, indexVars
  <2>2. \A d \in Docs : ClearCovers(d)'
    BY <2>1 DEF MergeInv, ClearCovers
  <2>3. ASSUME NEW x \in Processes PROVE Reads(x)'
    <3>1. View(x)' = View(x)
      BY <2>1 DEF View
    <3> QED
      BY <2>1, <3>1 DEF MergeInv, Reads, Open, ReadRows, RowsToWrite
  <2>4. \A f \in Forms : Shared(f)' /\ f \notin stale' => RowIsCounted(f)'
    BY <2>1 DEF MergeInv, Shared, Public, RowIsCounted
  <2> QED
    BY <2>2, <2>3, <2>4 DEF MergeInv
<1> QED
  BY <1>1, TransactMerge, IngestMerge, RebuildMerge DEF Next

\* While no rebuild runs beside a clear, the row of every word whose documents are
\* all completed is merged from its slices as they are, unless the transaction
\* that wrote it last overlapped another one (rebuild_global_rows).
THEOREM RowsStayMerged ==
  ASSUME ~RebuildDuringClear
  PROVE  Spec => []RowsAreMergedWithoutOverlap
<1>1. SliceInv /\ MergeInv => RowsAreMergedWithoutOverlap
  <2> SUFFICES ASSUME SliceInv, MergeInv, NEW f \in Forms, Settled(f), f \notin stale
               PROVE  RowIsMerged(f)
    BY DEF RowsAreMergedWithoutOverlap
  <2>1. slice = occ
    BY DEF SliceInv, SlicesAreExact
  <2>2. Shared(f)
    BY <2>1 DEF Settled, Shared, Public
  <2> QED
    BY <2>1, <2>2 DEF MergeInv, RowIsCounted, RowIsMerged
<1>2. Init => SliceInv /\ RowInv /\ RepairInv /\ MergeInv
  BY InitSlices, InitRows, InitRepair, InitMerge
<1>3. SliceInv /\ RowInv /\ RepairInv /\ MergeInv /\ [Next]_vars
        => SliceInv' /\ RowInv' /\ RepairInv' /\ MergeInv'
  BY StepSlices, StepRows, StepRepair, StepMerge
<1> QED
  BY <1>1, <1>2, <1>3, PTL DEF Spec

================================================================================
