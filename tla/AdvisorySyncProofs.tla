------------------------- MODULE AdvisorySyncProofs -------------------------
(* Proofs about AdvisorySync, for any number of runs, ids, versions and      *)
(* columns, any exports and any size of a batch.                             *)
EXTENDS AdvisorySync, FiniteSetTheorems, TLAPS

(* Nothing has been read.                                                    *)
LEMMA IInvInit == Init => IInv
<1> SUFFICES ASSUME Init PROVE IInv
  OBVIOUS
<1> USE SyncAssumption, NoneAssumption DEF Init, Nothing
<1>1. TypeOK
  BY DEF TypeOK
<1>2. \A r \in Runs : StagedIds(r) = {} /\ Behind(r) = {}
  BY DEF StagedIds, Behind
<1>3. Cardinality({}) = 0
  BY FS_EmptySet
<1>4. Cardinality({}) <= CommitEvery
  BY <1>3
<1>5. MixedOnlyByOverlap
  BY DEF MixedOnlyByOverlap
<1> QED
  BY <1>1, <1>2, <1>4, <1>5, <1>3 DEF IInv, RunInv, BatchSoFar, StagedSoFar

----------------------------------------------------------------------------
(* Facts about the data.                                                     *)

(* Writes and what they make of a row have the right types; a write staged   *)
(* for a row makes that row whole.                                           *)
LEMMA WritesAreTyped ==
  ASSUME NEW v \in Versions, NEW row \in Rows \cup {None}
  PROVE  /\ RowOf(v) \in Rows
         /\ Stage(row, v) \in Writes
         /\ Stage(row, v).hash = v
         /\ Stage(row, v).new <=> row = None
         /\ Apply(Stage(row, v), row) = RowOf(v)
<1>1. RowOf(v) \in Rows /\ (row = None => Apply(Stage(row, v), row) = RowOf(v))
  BY SyncAssumption DEF RowOf, Rows, Stage, Apply
<1>2. ASSUME row # None
      PROVE  Apply(Stage(row, v), row) = RowOf(v)
  <2>1. row.cols \in [Columns -> Values] /\ Field[v] \in [Columns -> Values]
    BY <1>2, SyncAssumption DEF Rows
  <2>2. [c \in Columns |-> IF c \in {d \in Columns : row.cols[d] # Field[v][d]}
                          THEN Field[v][c] ELSE row.cols[c]] = Field[v]
    BY <2>1
  <2> QED
    BY <1>2, <2>2 DEF Apply, Stage, RowOf
<1>3. Stage(row, v) \in Writes /\ Stage(row, v).hash = v /\ (Stage(row, v).new <=> row = None)
  BY DEF Stage, Writes
<1>4. Apply(Stage(row, v), row) = RowOf(v)
  BY <1>1, <1>2
<1> QED
  BY <1>1, <1>3, <1>4, Zenon

(* A write that takes effect leaves a row, with its own hash.                *)
LEMMA EffectsAreTyped ==
  ASSUME NEW w \in Writes, NEW row \in Rows \cup {None}, w.new \/ row # None
  PROVE  Apply(w, row) \in Rows /\ Apply(w, row).hash = w.hash
<1>1. CASE w.new
  BY <1>1, SyncAssumption DEF Apply, RowOf, Rows, Writes
<1>2. CASE ~w.new
  <2>1. /\ row.cols \in [Columns -> Values] /\ Field[w.hash] \in [Columns -> Values]
        /\ w.hash \in Versions
    BY <1>2, SyncAssumption DEF Rows, Writes
  <2> QED
    BY <1>2, <2>1 DEF Apply, Rows
<1> QED
  BY <1>1, <1>2

(* An id stands once in an export.                                           *)
LEMMA IdsAreUnique ==
  ASSUME TypeOK, NEW r \in Runs,
         NEW j \in 1 .. Len(export[r]), NEW k \in 1 .. Len(export[r]),
         export[r][j].id = export[r][k].id
  PROVE  j = k
  BY SyncAssumption DEF TypeOK

(* What is read is a record.                                                 *)
LEMMA RecordsAreTyped ==
  ASSUME TypeOK, NEW r \in Runs, NEW k \in 1 .. Len(export[r])
  PROVE  export[r][k] \in Records
  BY SyncAssumption DEF TypeOK

(* The sets that are counted are finite.                                     *)
LEMMA IdSetsAreFinite ==
  ASSUME NEW S \in SUBSET Ids
  PROVE  IsFiniteSet(S) /\ Cardinality(S) \in Nat
  BY SyncAssumption, FS_Subset, FS_CardinalityType

(* A part of a set of ids is no larger than the set.                         *)
LEMMA PartsAreSmaller ==
  ASSUME NEW T \in SUBSET Ids, NEW S \in SUBSET T
  PROVE  Cardinality(S) <= Cardinality(T)
  BY IdSetsAreFinite, FS_Subset

----------------------------------------------------------------------------
(* The invariant, run by run.                                                *)

(* What IInv says of one run depends on the table and on what is indexed by  *)
(* that run.                                                                 *)
LEMMA RunInvIsLocal ==
  ASSUME NEW q \in Runs, RunInv(q),
         UNCHANGED <<table, pc[q], export[q], pos[q], staged[q], pending[q], touched[q]>>
  PROVE  RunInv(q)'
<1>1. StagedIds(q)' = StagedIds(q) /\ Behind(q)' = Behind(q) /\ AtEnd(q)' = AtEnd(q)
  BY DEF StagedIds, Behind, Saved, Fit, AtEnd
<1> QED
  BY <1>1 DEF RunInv, BatchSoFar, StagedSoFar, Read

(* If a step moves one run and keeps the table, that run alone matters.      *)
LEMMA OneRunMoves ==
  ASSUME IInv, NEW r \in Runs, UNCHANGED <<table, overlapped>>, TypeOK', RunInv(r)',
         \A q \in Runs \ {r} :
           UNCHANGED <<pc[q], export[q], pos[q], staged[q], pending[q], touched[q]>>
  PROVE  IInv'
<1>1. MixedOnlyByOverlap'
  BY DEF IInv, MixedOnlyByOverlap, Whole
<1>2. \A q \in Runs \ {r} : RunInv(q)'
  BY RunInvIsLocal DEF IInv
<1> QED
  BY <1>1, <1>2 DEF IInv

----------------------------------------------------------------------------
(* The steps.                                                                *)

(* A run starts to read.                                                     *)
LEMMA StartStep ==
  ASSUME IInv, NEW r \in Runs, Start(r)
  PROVE  IInv'
<1> USE DEF Start
<1>1. TypeOK /\ RunInv(r)
  BY DEF IInv
<1>2. PICK z \in Exports : export' = [export EXCEPT ![r] = z]
  OBVIOUS
<1>3. z \in Seq(Records) /\ pos[r] = 1 /\ pending[r] = 0 /\ StagedIds(r) = {}
  BY <1>1, SyncAssumption DEF RunInv, BatchSoFar
<1>4. TypeOK'
  <2>1. \A q \in Runs : pos'[q] <= Len(export'[q]) + 1
    BY <1>1, <1>2, <1>3 DEF TypeOK
  <2> QED
    BY <1>1, <1>2, <2>1 DEF TypeOK
<1>5. RunInv(r)'
  <2>1. Behind(r)' = {} /\ StagedIds(r)' = {} /\ pc'[r] = "running"
    BY <1>1, <1>3 DEF Behind, StagedIds, TypeOK
  <2> QED
    BY <1>3, <2>1, FS_EmptySet, SyncAssumption DEF RunInv, BatchSoFar, StagedSoFar
<1> QED
  BY <1>1, <1>4, <1>5, OneRunMoves DEF TypeOK

(* The next record is read, and is either staged or left out.                *)
LEMMA UpsertStep ==
  ASSUME IInv, NEW r \in Runs, Upsert(r)
  PROVE  IInv'
<1>1. TypeOK /\ RunInv(r)
  BY DEF IInv
<1>2. PICK n \in 1 .. Len(export[r]), i \in Ids, v \in Versions :
        /\ n = pos[r] /\ i = Current(r).id /\ v = Current(r).body
        /\ export[r][n] = [id |-> i, body |-> v]
        /\ pc[r] = "running" /\ pending[r] \in 0 .. CommitEvery - 1
  <2>1. pc[r] = "running" /\ pos[r] \in 1 .. Len(export[r])
    BY <1>1 DEF Upsert, Reading, AtEnd, TypeOK
  <2>2. Current(r) = export[r][pos[r]] /\ Current(r) \in Records
    BY <1>1, <2>1, RecordsAreTyped DEF Current
  <2> QED
    BY <1>1, <2>1, <2>2, SyncAssumption DEF Upsert, Reading, BatchFull, Fit, Records, TypeOK
<1>3. PICK w \in Writes :
        /\ staged' = [staged EXCEPT ![r] = [@ EXCEPT ![i] = w]]
        /\ w.hash = v /\ w # None /\ (w.new <=> table[i] = None)
        /\ Apply(w, table[i]) = RowOf(v)
  <2>1. staged' = [staged EXCEPT ![r] = [@ EXCEPT ![i] = Stage(table[i], v)]]
    BY <1>2 DEF Upsert
  <2>2. table[i] \in Rows \cup {None}
    BY <1>1 DEF TypeOK
  <2>3. /\ Stage(table[i], v) \in Writes /\ Stage(table[i], v).hash = v
        /\ Stage(table[i], v).new <=> table[i] = None
        /\ Apply(Stage(table[i], v), table[i]) = RowOf(v)
    BY <2>2, WritesAreTyped
  <2>4. Stage(table[i], v) # None
    BY <2>3, NoneAssumption
  <2> QED
    BY <2>1, <2>3, <2>4
<1>4. /\ pending' = [pending EXCEPT ![r] = @ + 1] /\ pos' = [pos EXCEPT ![r] = @ + 1]
      /\ UNCHANGED <<table, pc, export, touched, overlapped>>
      /\ ~Unchanged(table[i], v)
  BY <1>2 DEF Upsert
<1>5. TypeOK'
  <2>1. staged' \in [Runs -> [Ids -> Writes \cup {None}]]
    BY <1>1, <1>2, <1>3, <1>4 DEF TypeOK
  <2>2. pending' \in [Runs -> 0 .. CommitEvery] /\ pos' \in [Runs -> Nat \ {0}]
    BY <1>1, <1>2, <1>4, SyncAssumption DEF TypeOK
  <2>3. \A q \in Runs : pos'[q] <= Len(export'[q]) + 1
    BY <1>1, <1>2, <1>4 DEF TypeOK
  <2> QED
    BY <1>1, <1>4, <2>1, <2>2, <2>3 DEF TypeOK
<1>6. StagedIds(r)' = StagedIds(r) \cup {i} /\ i \notin StagedIds(r)
  <2>1. StagedIds(r)' = StagedIds(r) \cup {i}
    BY <1>1, <1>2, <1>3, <1>4 DEF StagedIds, TypeOK
  <2>2. ASSUME i \in StagedIds(r) PROVE FALSE
    <3>1. Read(r, i, staged[r][i].hash)
      BY <1>1, <2>2 DEF RunInv, StagedSoFar
    <3>2. PICK k \in 1 .. n - 1 : export[r][k].id = i
      BY <1>2, <3>1 DEF Read
    <3>3. k \in 1 .. Len(export[r]) /\ k # n
      BY <1>2, <3>2
    <3> QED
      BY <1>1, <1>2, <3>2, <3>3, IdsAreUnique
  <2> QED
    BY <2>1, <2>2
<1>7. Cardinality(StagedIds(r)') = pending[r] + 1
  <2>1. StagedIds(r) \in SUBSET Ids /\ pending[r] = Cardinality(StagedIds(r))
    BY <1>1, <1>2 DEF RunInv, BatchSoFar, StagedIds
  <2> QED
    BY <1>6, <2>1, IdSetsAreFinite, FS_AddElement
<1>8. Behind(r)' \subseteq Behind(r) \cup {i}
  <2>1. pos'[r] = n + 1 /\ export[r][n].id = i
    BY <1>1, <1>2, <1>4 DEF TypeOK
  <2>2. \A k \in 1 .. pos'[r] - 1 : k \in 1 .. pos[r] - 1 \/ k = n
    BY <1>2, <2>1
  <2> QED
    BY <1>2, <1>4, <2>1, <2>2 DEF Behind, Saved, Fit
<1>9. BatchSoFar(r)'
  <2>1. Behind(r)' \subseteq StagedIds(r)' /\ StagedIds(r)' \subseteq Ids
    BY <1>1, <1>2, <1>6, <1>8 DEF RunInv, BatchSoFar, StagedIds
  <2>2. Cardinality(Behind(r)') <= CommitEvery
    BY <1>2, <1>7, <2>1, PartsAreSmaller, IdSetsAreFinite, SyncAssumption
  <2>3. pending'[r] = Cardinality(StagedIds(r)') /\ pc'[r] = "running"
    BY <1>1, <1>2, <1>4, <1>7 DEF TypeOK
  <2> QED
    BY <2>1, <2>2, <2>3 DEF BatchSoFar
<1>10. StagedSoFar(r)'
  <2>1. staged'[r][i] = w /\ \A j \in Ids \ {i} : staged'[r][j] = staged[r][j]
    BY <1>1, <1>2, <1>3 DEF TypeOK
  <2>3. export'[r][n] = [id |-> i, body |-> staged'[r][i].hash] /\ n \in 1 .. pos'[r] - 1
    BY <1>1, <1>2, <1>3, <1>4, <2>1 DEF TypeOK
  <2>4. Sound(staged'[r][i], table'[i]) /\ (staged'[r][i].new \/ table'[i] # None)
    BY <1>1, <1>2, <1>3, <1>4, <2>1 DEF Sound, Unchanged, TypeOK
  <2>5. ASSUME NEW j \in StagedIds(r), j # i
        PROVE  /\ \E k \in 1 .. pos'[r] - 1 : export'[r][k] = [id |-> j, body |-> staged'[r][j].hash]
               /\ staged'[r][j].new \/ table'[j] # None
               /\ j \notin touched'[r] => Sound(staged'[r][j], table'[j])
    <3>1. staged'[r][j] = staged[r][j]
      BY <2>1, <2>5 DEF StagedIds
    <3>2. /\ Read(r, j, staged[r][j].hash) /\ (staged[r][j].new \/ table[j] # None)
          /\ j \notin touched[r] => Sound(staged[r][j], table[j])
      BY <1>1 DEF RunInv, StagedSoFar
    <3> QED
      BY <1>1, <1>2, <1>4, <3>1, <3>2 DEF Read, TypeOK
  <2> QED
    BY <1>6, <2>3, <2>4, <2>5 DEF StagedSoFar, Read
<1> QED
  BY <1>1, <1>3, <1>4, <1>5, <1>9, <1>10, OneRunMoves DEF TypeOK, RunInv

(* The next record is left out: the table has it, or it is not to be had.    *)
LEMMA SkipStep ==
  ASSUME IInv, NEW r \in Runs, Skip(r)
  PROVE  IInv'
<1> DEFINE n == pos[r]
<1>1. TypeOK /\ RunInv(r)
  BY DEF IInv
<1>2. /\ n \in 1 .. Len(export[r]) /\ pc[r] = "running"
      /\ pos' = [pos EXCEPT ![r] = @ + 1]
      /\ UNCHANGED <<table, pc, export, staged, pending, touched, overlapped>>
  BY <1>1 DEF Skip, Reading, AtEnd, TypeOK
<1>3. Fit(export[r][n].body) => Saved(export[r][n])
  BY SyncAssumption DEF Skip, Current, Fit, Unchanged, Saved
<1>4. TypeOK'
  <2>1. \A q \in Runs : pos'[q] <= Len(export'[q]) + 1
    BY <1>1, <1>2 DEF TypeOK
  <2> QED
    BY <1>1, <1>2, <2>1 DEF TypeOK
<1>5. Behind(r)' = Behind(r) /\ StagedIds(r)' = StagedIds(r)
  <2>1. \A k : k \in 1 .. pos'[r] - 1 <=> k \in 1 .. pos[r] - 1 \/ k = n
    BY <1>1, <1>2 DEF TypeOK
  <2>2. Behind(r)' = Behind(r)
    BY <1>2, <1>3, <2>1 DEF Behind, Saved, Fit
  <2> QED
    BY <1>2, <2>2 DEF StagedIds
<1>6. BatchSoFar(r)'
  BY <1>1, <1>2, <1>5 DEF RunInv, BatchSoFar
<1>7. StagedSoFar(r)'
  BY <1>1, <1>2, <1>5 DEF RunInv, StagedSoFar, Read, TypeOK
<1> QED
  BY <1>1, <1>2, <1>4, <1>6, <1>7, OneRunMoves DEF TypeOK, RunInv

(* A run that ends without a commit takes its transaction with it, and is    *)
(* behind with no more than it was.                                          *)
LEMMA RollBackStep ==
  ASSUME IInv, NEW r \in Runs, RollBack(r)
  PROVE  IInv'
<1> USE DEF RollBack
<1>1. TypeOK /\ RunInv(r)
  BY DEF IInv
<1>2. TypeOK'
  BY <1>1 DEF TypeOK, Nothing
<1>3. Behind(r)' = Behind(r)
  BY <1>1 DEF Behind, Saved, Fit
<1>4. StagedIds(r)' = {} /\ pc'[r] = "failed"
  BY <1>1 DEF StagedIds, TypeOK, Nothing
<1>5. RunInv(r)'
  BY <1>1, <1>3, <1>4 DEF RunInv, BatchSoFar, StagedSoFar
<1> QED
  BY <1>1, <1>2, <1>5, OneRunMoves DEF TypeOK

(* What a commit does to a row: nothing, or the row has the hash of what was *)
(* staged, and is whole if nobody else wrote it in between.                  *)
LEMMA SavedRows ==
  ASSUME IInv, NEW r \in Runs, Save(r), NEW i \in Ids
  PROVE  /\ i \notin StagedIds(r) => table'[i] = table[i]
         /\ i \in StagedIds(r) =>
              /\ table'[i] \in Rows /\ table'[i].hash = staged[r][i].hash
              /\ i \notin touched[r] => table'[i] = RowOf(staged[r][i].hash)
<1>1. TypeOK /\ RunInv(r)
  BY DEF IInv
<1>2. CASE i \notin StagedIds(r)
  BY <1>2 DEF Save, StagedIds
<1>3. CASE i \in StagedIds(r)
  <2> DEFINE w == staged[r][i]
  <2>1. w \in Writes /\ table'[i] = Apply(w, table[i]) /\ table[i] \in Rows \cup {None}
    BY <1>1, <1>3 DEF Save, StagedIds, TypeOK
  <2>2. (w.new \/ table[i] # None) /\ (i \notin touched[r] => Sound(w, table[i]))
    BY <1>1, <1>3 DEF RunInv, StagedSoFar
  <2>3. table'[i] \in Rows /\ table'[i].hash = w.hash
    BY <2>1, <2>2, EffectsAreTyped
  <2> QED
    BY <1>3, <2>1, <2>2, <2>3 DEF Sound
<1> QED
  BY <1>2, <1>3

(* A commit brings r up to its export, and tells the other runs.             *)
LEMMA SaveStep ==
  ASSUME IInv, NEW r \in Runs, Save(r), pc[r] = "running", UNCHANGED <<export, pos>>,
         \/ UNCHANGED pc
         \/ pc' = [pc EXCEPT ![r] = "done"] /\ AtEnd(r)
  PROVE  IInv'
<1>1. TypeOK /\ MixedOnlyByOverlap /\ \A q \in Runs : RunInv(q)
  BY DEF IInv
<1>2. /\ staged' = [staged EXCEPT ![r] = Nothing] /\ pending' = [pending EXCEPT ![r] = 0]
      /\ touched' = [q \in Runs |->
           IF q = r THEN touched[q] ELSE touched[q] \cup (StagedIds(r) \cap Handled(q))]
      /\ overlapped' = (overlapped \ StagedIds(r)) \cup (StagedIds(r) \cap touched[r])
      /\ ~Collides(r)
  BY DEF Save
<1>3. \A i \in Ids : /\ i \notin StagedIds(r) => table'[i] = table[i]
                     /\ i \in StagedIds(r) => table'[i] \in Rows
  BY SavedRows
<1>4. TypeOK'
  <2>1. table' \in [Ids -> Rows \cup {None}]
    <3>1. \A i \in Ids : table'[i] \in Rows \cup {None}
      BY <1>1, <1>3 DEF TypeOK
    <3> QED
      BY <3>1 DEF Save
  <2>2. touched' \in [Runs -> SUBSET Ids] /\ overlapped' \subseteq Ids
    BY <1>1, <1>2 DEF TypeOK, StagedIds
  <2>3. staged' \in [Runs -> [Ids -> Writes \cup {None}]] /\ pending' \in [Runs -> 0 .. CommitEvery]
    BY <1>1, <1>2, SyncAssumption DEF TypeOK, Nothing
  <2> QED
    BY <1>1, <2>1, <2>2, <2>3 DEF TypeOK
<1>5. MixedOnlyByOverlap'
  <2> SUFFICES ASSUME NEW i \in Ids, table'[i] # None, i \notin overlapped'
               PROVE  table'[i] = RowOf(table'[i].hash)
    BY DEF MixedOnlyByOverlap, Whole, RowOf
  <2>1. CASE i \in StagedIds(r)
    <3>1. i \notin touched[r]
      BY <1>2, <2>1
    <3>2. table'[i].hash = staged[r][i].hash /\ table'[i] = RowOf(staged[r][i].hash)
      BY <2>1, <3>1, SavedRows
    <3> QED
      BY <3>2
  <2>2. CASE i \notin StagedIds(r)
    BY <1>1, <1>2, <1>3, <2>2 DEF MixedOnlyByOverlap, Whole, RowOf
  <2> QED
    BY <2>1, <2>2
<1>6. Behind(r)' = {} /\ StagedIds(r)' = {}
  <2>1. StagedIds(r)' = {}
    BY <1>1, <1>2 DEF StagedIds, TypeOK, Nothing
  <2>2. ASSUME NEW i \in Behind(r)' PROVE FALSE
    <3>1. PICK k \in 1 .. pos[r] - 1 : /\ export[r][k].id = i /\ Fit(export[r][k].body)
                                       /\ ~Saved(export[r][k])'
      BY <2>2 DEF Behind, Fit
    <3>2. i \in Ids /\ i \notin touched[r]
      BY <1>1, <1>2, <2>2 DEF Behind, TypeOK
    <3>3. k \in 1 .. Len(export[r]) /\ pos[r] - 1 <= Len(export[r])
      BY <1>1 DEF TypeOK
    <3>4. CASE i \in StagedIds(r)
      <4>1. table'[i] \in Rows /\ table'[i].hash = staged[r][i].hash
        BY <3>4, <3>2, SavedRows
      <4>2. PICK j \in 1 .. pos[r] - 1 : export[r][j] = [id |-> i, body |-> staged[r][i].hash]
        BY <1>1, <3>4 DEF RunInv, StagedSoFar, Read
      <4>3. j = k
        <5>1. j \in 1 .. Len(export[r]) /\ export[r][j].id = export[r][k].id
          BY <1>1, <3>1, <3>3, <4>2 DEF TypeOK
        <5> QED
          BY <1>1, <3>3, <5>1, IdsAreUnique
      <4> QED
        BY <3>1, <4>1, <4>2, <4>3, NoneAssumption DEF Saved
    <3>5. CASE i \notin StagedIds(r)
      <4>1. i \in Behind(r)
        BY <1>3, <3>1, <3>2, <3>5 DEF Behind, Saved
      <4> QED
        BY <1>1, <3>5, <4>1 DEF RunInv, BatchSoFar
    <3> QED
      BY <3>4, <3>5
  <2> QED
    BY <2>1, <2>2
<1>7. RunInv(r)'
  <2>1. pending'[r] = 0 /\ Cardinality({}) = 0 /\ 0 <= CommitEvery
    BY <1>1, <1>2, FS_EmptySet, SyncAssumption DEF TypeOK
  <2>2. (pc'[r] = "running" \/ pc'[r] = "done") /\ (pc'[r] = "done" => AtEnd(r)')
    BY <1>1 DEF TypeOK, AtEnd
  <2>3. BatchSoFar(r)'
    BY <1>6, <2>1, <2>2 DEF BatchSoFar
  <2> QED
    BY <1>6, <2>3 DEF RunInv, StagedSoFar
<1>8. ASSUME NEW q \in Runs \ {r} PROVE RunInv(q)'
  <2>1. /\ staged'[q] = staged[q] /\ pending'[q] = pending[q] /\ pc'[q] = pc[q]
        /\ touched'[q] = touched[q] \cup (StagedIds(r) \cap Handled(q))
    BY <1>1, <1>2 DEF TypeOK
  <2>2. StagedIds(q)' = StagedIds(q) /\ AtEnd(q)' = AtEnd(q)
    BY <2>1 DEF StagedIds, AtEnd
  <2>3. Behind(q)' \subseteq Behind(q)
    <3> SUFFICES ASSUME NEW i \in Behind(q)' PROVE i \in Behind(q)
      OBVIOUS
    <3>1. PICK k \in 1 .. pos[q] - 1 : /\ export[q][k].id = i /\ Fit(export[q][k].body)
                                       /\ ~Saved(export[q][k])'
      BY DEF Behind, Fit
    <3>2. i \in Ids /\ i \notin touched[q] /\ i \notin StagedIds(r)
      BY <2>1, <3>1 DEF Behind, Handled
    <3> QED
      BY <1>3, <3>1, <3>2 DEF Behind, Saved
  <2>4. BatchSoFar(q)'
    <3>1. Cardinality(Behind(q)') <= CommitEvery
      <4>1. Behind(q) \in SUBSET Ids /\ Behind(q)' \in SUBSET Behind(q)
        BY <2>3 DEF Behind
      <4>2. Cardinality(Behind(q)') <= Cardinality(Behind(q))
        BY <4>1, PartsAreSmaller
      <4>3. Cardinality(Behind(q)) <= CommitEvery
        BY <1>1 DEF RunInv, BatchSoFar
      <4>4. Cardinality(Behind(q)') \in Nat /\ Cardinality(Behind(q)) \in Nat
        BY <4>1, IdSetsAreFinite
      <4> QED
        BY <4>2, <4>3, <4>4, SyncAssumption
    <3> QED
      BY <1>1, <2>1, <2>2, <2>3, <3>1 DEF RunInv, BatchSoFar
  <2>5. ASSUME NEW i \in StagedIds(q)
        PROVE  /\ \E k \in 1 .. pos'[q] - 1 : export'[q][k] = [id |-> i, body |-> staged'[q][i].hash]
               /\ staged'[q][i].new \/ table'[i] # None
               /\ i \notin touched'[q] => Sound(staged'[q][i], table'[i])
    <3>1. /\ Read(q, i, staged[q][i].hash) /\ (staged[q][i].new \/ table[i] # None)
          /\ i \notin touched[q] => Sound(staged[q][i], table[i])
      BY <1>1 DEF RunInv, StagedSoFar
    <3>2. i \in Handled(q) /\ i \in Ids
      BY <3>1 DEF Read, Handled, StagedIds
    <3>3. table[i] # None => table'[i] # None
      BY <1>3, <3>2, NoneAssumption
    <3>4. i \notin touched'[q] => table'[i] = table[i] /\ i \notin touched[q]
      BY <1>3, <2>1, <3>2
    <3> QED
      BY <2>1, <3>1, <3>3, <3>4 DEF Read
  <2> QED
    BY <2>2, <2>4, <2>5 DEF RunInv, StagedSoFar, Read
<1> QED
  BY <1>4, <1>5, <1>7, <1>8 DEF IInv

----------------------------------------------------------------------------
(* The theorems.                                                             *)

LEMMA IInvStep == IInv /\ [Next]_vars => IInv'
<1> SUFFICES ASSUME IInv, [Next]_vars PROVE IInv'
  OBVIOUS
<1>1. ASSUME NEW r \in Runs, Step(r) PROVE IInv'
  <2>1. CASE Start(r) \/ Upsert(r) \/ Skip(r)
    BY <2>1, StartStep, UpsertStep, SkipStep
  <2>2. CASE CommitBatch(r)
    BY <2>2, SaveStep DEF CommitBatch
  <2>3. CASE CommitLast(r)
    BY <2>3, SaveStep DEF CommitLast
  <2>4. CASE IntegrityError(r) \/ Poisoned(r) \/ Die(r)
    BY <2>4, RollBackStep DEF IntegrityError, Poisoned, Die
  <2> QED
    BY <1>1, <2>1, <2>2, <2>3, <2>4 DEF Step
<1>2. CASE UNCHANGED vars
  <2>1. TypeOK' /\ MixedOnlyByOverlap'
    BY <1>2 DEF vars, IInv, TypeOK, MixedOnlyByOverlap, Whole
  <2>2. \A r \in Runs : RunInv(r)'
    BY <1>2, RunInvIsLocal DEF vars, IInv
  <2> QED
    BY <2>1, <2>2 DEF IInv
<1> QED
  BY <1>1, <1>2 DEF Next, Over

(* The inductive invariant holds in every reachable state.                   *)
THEOREM IInvHolds == Spec => []IInv
  BY IInvInit, IInvStep, PTL DEF Spec

(* The table holds rows, and a transaction holds writes.                     *)
THEOREM TypeCorrect == Spec => []TypeOK
<1>1. IInv => TypeOK
  BY DEF IInv
<1> QED
  BY <1>1, IInvHolds, PTL

(* A run that completes has brought the table to its export, whatever the    *)
(* runs before it left undone.                                               *)
THEOREM SyncConverges == Spec => []DoneMeansSynced
<1>1. IInv => DoneMeansSynced
  BY DEF IInv, RunInv, BatchSoFar, DoneMeansSynced
<1> QED
  BY <1>1, IInvHolds, PTL

(* A run that ends early loses a batch at most.                              *)
THEOREM LossIsBounded == Spec => []CrashLosesABatch
<1>1. IInv => CrashLosesABatch
  BY DEF IInv, RunInv, BatchSoFar, CrashLosesABatch
<1> QED
  BY <1>1, IInvHolds, PTL

(* What the table has is not written again.                                  *)
THEOREM SyncIsIdempotent == Spec => []WritesAreNeeded
<1>1. IInv => WritesAreNeeded
  <2> SUFFICES ASSUME IInv, NEW r \in Runs, NEW i \in StagedIds(r) \ touched[r]
               PROVE  ~(table[i] # None /\ table[i].hash = staged[r][i].hash)
    BY DEF WritesAreNeeded
  <2> QED
    BY DEF IInv, RunInv, StagedSoFar, Sound
<1> QED
  BY <1>1, IInvHolds, PTL

(* A row whose hash does not tell its columns was last written by a run that *)
(* another one overlapped.                                                   *)
THEOREM MixesComeFromOverlap == Spec => []MixedOnlyByOverlap
<1>1. IInv => MixedOnlyByOverlap
  BY DEF IInv
<1> QED
  BY <1>1, IInvHolds, PTL

----------------------------------------------------------------------------
(* What a sync leaves in the table, column by column.                        *)

(* After a run completes, the row of every record that it could normalize is *)
(* that record, in all its columns and not only by its hash; unless another  *)
(* run has committed the row since this one read it, or two have mixed it.   *)
CleanSyncIsExact ==
  \A r \in Runs : pc[r] = "done" =>
    \A k \in DOMAIN export[r] :
      LET rec == export[r][k]
      IN Fit(rec.body) /\ rec.id \notin touched[r] \cup overlapped
           => table[rec.id] = RowOf(rec.body)

(* DoneMeansSynced gives the hash, and MixedOnlyByOverlap the columns.       *)
THEOREM CleanSyncsAreExact == Spec => []CleanSyncIsExact
<1>1. IInv => CleanSyncIsExact
  <2> SUFFICES ASSUME IInv, NEW r \in Runs, pc[r] = "done", NEW k \in DOMAIN export[r],
                      Fit(export[r][k].body),
                      export[r][k].id \notin touched[r] \cup overlapped
               PROVE  table[export[r][k].id] = RowOf(export[r][k].body)
    BY DEF CleanSyncIsExact
  <2> DEFINE rec == export[r][k]
  <2>1. TypeOK /\ AtEnd(r) /\ Behind(r) = {}
    BY DEF IInv, RunInv, BatchSoFar
  <2>2. k \in 1 .. Len(export[r]) /\ k \in 1 .. pos[r] - 1
    <3>1. export[r] \in Seq(Records) /\ pos[r] \in Nat /\ pos[r] > Len(export[r])
      BY <2>1, SyncAssumption DEF TypeOK, AtEnd
    <3> QED
      BY <3>1
  <2>3. rec \in Records
    BY <2>1, <2>2, RecordsAreTyped
  <2>4. rec.id \in Ids /\ rec.id \notin touched[r]
    BY <2>3 DEF Records
  <2>5. Saved(rec)
    BY <2>1, <2>2, <2>4 DEF Behind
  <2>6. Whole(rec.id)
    BY <2>4, <2>5 DEF Saved, IInv, MixedOnlyByOverlap
  <2> QED
    BY <2>5, <2>6 DEF Saved, Whole
<1> QED
  BY <1>1, IInvHolds, PTL

(* No run deletes: a commit writes the rows of its batch, and an advisory    *)
(* that is withdrawn upstream keeps the row it had.                          *)
RowsStay == [][\A i \in Ids : table[i] # None => table'[i] # None]_vars

(* Nothing a run or its death does takes a row out of the table.             *)
THEOREM RowsAreNeverRemoved == Spec => RowsStay
<1>1. IInv /\ [Next]_vars => [\A i \in Ids : table[i] # None => table'[i] # None]_vars
  <2> SUFFICES ASSUME IInv, Next, NEW i \in Ids, table[i] # None
               PROVE  table'[i] # None
    OBVIOUS
  <2>1. ASSUME NEW r \in Runs, Save(r) PROVE table'[i] # None
    BY <2>1, SavedRows, NoneAssumption
  <2>2. ASSUME NEW r \in Runs, Step(r), ~Save(r) PROVE UNCHANGED table
    BY <2>2
    DEF Step, Start, Upsert, Skip, CommitBatch, CommitLast, IntegrityError, Poisoned,
        Die, RollBack
  <2> QED
    BY <2>1, <2>2 DEF Next, Over, vars
<1> QED
  BY <1>1, IInvHolds, PTL DEF Spec, RowsStay

----------------------------------------------------------------------------
(* Syncs that do not overlap.                                                *)

(* One process syncs at a time, as when a single scheduler runs them.        *)
OneAtATime == \A q, r \in Runs : pc[q] = "running" /\ pc[r] = "running" => q = r

(* Then every row is that of one version, no INSERT is refused, and no run   *)
(* has to fear that what it read has changed -- though runs may still die    *)
(* anywhere and leave the next one a half-written export.                    *)
SerialSyncIsSafe ==
  /\ \A i \in Ids : table[i] # None => Whole(i)
  /\ \A r \in Runs : ~Collides(r)
  /\ \A r \in Runs : pc[r] = "running" => touched[r] = {}

(* Nobody commits a record that a run under way has read.                    *)
NotOverlapped ==
  /\ overlapped = {}
  /\ \A r \in Runs : pc[r] \in {"idle", "running"} => touched[r] = {}

(* A commit touches only what runs that have ended had read.                 *)
LEMMA NotOverlappedStep ==
  ASSUME IInv, OneAtATime, NotOverlapped, [Next]_vars
  PROVE  NotOverlapped'
<1>0. TypeOK
  BY DEF IInv
<1>1. ASSUME NEW r \in Runs, Save(r), pc[r] = "running",
             \A q \in Runs \ {r} : pc'[q] = pc[q]
      PROVE  NotOverlapped'
  <2>1. overlapped = {} /\ touched[r] = {}
    BY <1>1 DEF NotOverlapped
  <2>2. overlapped' = {}
    BY <1>1, <2>1 DEF Save
  <2>3. touched'[r] = {}
    BY <1>0, <1>1, <2>1 DEF Save
  <2>4. ASSUME NEW q \in Runs \ {r}, pc'[q] \in {"idle", "running"}
        PROVE  touched'[q] = {}
    <3>1. pc[q] = "idle" /\ touched[q] = {}
      BY <1>1, <2>4 DEF OneAtATime, NotOverlapped
    <3>2. pos[q] = 1
      BY <3>1 DEF IInv, RunInv, BatchSoFar
    <3>3. Handled(q) = {}
      BY <3>2 DEF Handled
    <3> QED
      BY <1>1, <3>1, <3>3 DEF Save
  <2> QED
    BY <2>2, <2>3, <2>4 DEF NotOverlapped
<1>2. ASSUME UNCHANGED <<touched, overlapped>>,
             \A q \in Runs : pc'[q] \in {"idle", "running"} => pc[q] \in {"idle", "running"}
      PROVE  NotOverlapped'
  BY <1>2 DEF NotOverlapped
<1>3. ASSUME NEW r \in Runs, Step(r) PROVE NotOverlapped'
  <2>1. CASE CommitBatch(r) \/ CommitLast(r)
    BY <1>0, <1>1, <2>1 DEF CommitBatch, CommitLast, TypeOK
  <2>2. CASE Start(r) \/ Upsert(r) \/ Skip(r)
    BY <1>0, <1>2, <2>2 DEF Start, Upsert, Skip, TypeOK
  <2>3. CASE IntegrityError(r) \/ Poisoned(r) \/ Die(r)
    BY <1>0, <1>2, <2>3 DEF IntegrityError, Poisoned, Die, RollBack, TypeOK
  <2> QED
    BY <1>3, <2>1, <2>2, <2>3 DEF Step
<1>4. CASE UNCHANGED vars
  BY <1>2, <1>4 DEF vars
<1> QED
  BY <1>3, <1>4 DEF Next, Over

(* Overlap is the only thing that mixes rows or refuses inserts: syncs that  *)
(* are run one after the other, and killed anywhere, do neither.             *)
THEOREM SerialSyncsAreSafe == Spec /\ []OneAtATime => []SerialSyncIsSafe
<1>1. Init => NotOverlapped
  BY DEF Init, NotOverlapped
<1>2. IInv /\ NotOverlapped => SerialSyncIsSafe
  <2> SUFFICES ASSUME IInv, NotOverlapped PROVE SerialSyncIsSafe
    OBVIOUS
  <2>1. ASSUME NEW i \in Ids, table[i] # None PROVE Whole(i)
    BY <2>1 DEF IInv, MixedOnlyByOverlap, NotOverlapped
  <2>2. ASSUME NEW r \in Runs, Collides(r) PROVE FALSE
    <3>1. PICK i \in StagedIds(r) : staged[r][i].new /\ table[i] # None
      BY <2>2 DEF Collides
    <3>2. pc[r] = "running" /\ touched[r] = {}
      BY <3>1 DEF IInv, RunInv, BatchSoFar, NotOverlapped
    <3>3. Sound(staged[r][i], table[i])
      BY <3>1, <3>2 DEF IInv, RunInv, StagedSoFar
    <3> QED
      BY <3>1, <3>3 DEF Sound
  <2> QED
    BY <2>1, <2>2 DEF SerialSyncIsSafe, NotOverlapped
<1> QED
  BY <1>1, <1>2, NotOverlappedStep, IInvHolds, PTL DEF Spec
=============================================================================
