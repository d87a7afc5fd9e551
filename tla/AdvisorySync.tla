---------------------------- MODULE AdvisorySync ----------------------------
(* Runs of the advisory sync against the table `advisories`.  A run goes     *)
(* through one export record by record, decides on each by its content hash, *)
(* and commits in batches.  It may die anywhere, and nothing keeps two runs  *)
(* from overlapping: the exports of PyPI and npm share records.              *)
(*                                                                           *)
(* Sources: src/src/palisade/ingestion/sync.py, ingestion/normalize.py and   *)
(* ingestion/sources/osv_export.py.                                          *)
(*                                                                           *)
(* PostgreSQL reads what is committed.  The session sends its writes when it *)
(* flushes, at the latest in commit; row locks make them take effect in the  *)
(* order of the commits, which is when they show in the model.               *)

EXTENDS Naturals, Sequences, FiniteSets

CONSTANTS Runs,         \* processes that run a sync, once each
          Ids,          \* advisory ids
          Versions,     \* contents of a record; its hash is the version itself
          Columns,      \* the columns of a row but its hash
          Values,       \* what they hold
          Field,        \* Field[v][c]: column c of version v
          Exports,      \* the exports a run may download
          CommitEvery,  \* commit_every
          None          \* Python's None: no such row, nothing to write

(* A record normalizes; or is withdrawn or lacks a field, which is a         *)
(* ValueError; or raises anything else, as text that is no JSON does.        *)
Records == [id : Ids, body : Versions \cup {"rejected", "poison"}]

ASSUME SyncAssumption ==
  /\ CommitEvery \in Nat \ {0} /\ IsFiniteSet(Ids)
  /\ Field \in [Versions -> [Columns -> Values]]
  /\ "rejected" \notin Versions /\ "poison" \notin Versions
  /\ Exports \subseteq Seq(Records)
  /\ \A z \in Exports : \A j, k \in DOMAIN z : z[j].id = z[k].id => j = k

(* A row; and what the session will send for one: a whole row, or an UPDATE  *)
(* of the columns in `set`, those whose value changes.                       *)
Rows == [hash : Versions, cols : [Columns -> Values]]
Writes == [new : BOOLEAN, hash : Versions, set : SUBSET Columns]

ASSUME NoneAssumption == None \notin Rows /\ None \notin Writes

VARIABLES
  table,       \* table[i]: the committed row of i
  pc,          \* pc[r]: "idle", "running", "done" or "failed"
  export,      \* export[r]: the records r has downloaded
  pos,         \* pos[r]: the record that is read next
  staged,      \* staged[r][i]: r's open transaction
  pending,     \* pending[r]: sync_records' local
  touched,     \* history: touched[r]: ids others committed since r read them
  overlapped   \* history: ids last written on a reading that was out of date

vars == <<table, pc, export, pos, staged, pending, touched, overlapped>>

Nothing == [i \in Ids |-> None]

Init ==
  /\ table = Nothing
  /\ pc = [r \in Runs |-> "idle"]
  /\ export = [r \in Runs |-> <<>>]
  /\ pos = [r \in Runs |-> 1]
  /\ staged = [r \in Runs |-> Nothing]
  /\ pending = [r \in Runs |-> 0]
  /\ touched = [r \in Runs |-> {}]
  /\ overlapped = {}

----------------------------------------------------------------------------

(* _to_row of a record.                                                      *)
RowOf(v) == [hash |-> v, cols |-> Field[v]]

\* Variant of Stage: an UPDATE that sets the hash alone.
StageHash(row, v) == [new |-> row = None, hash |-> v, set |-> {}]

(* What upsert_advisory puts into the session.  Every column is assigned,    *)
(* but the session's UPDATE names those that differ from what was read.      *)
Stage(row, v) ==
  [new |-> row = None, hash |-> v,
   set |-> IF row = None THEN Columns ELSE {c \in Columns : row.cols[c] # Field[v][c]}]

(* The effect of a write on the row as it is when the write takes effect.    *)
Apply(w, row) ==
  IF w.new THEN RowOf(w.hash)
  ELSE [hash |-> w.hash,
        cols |-> [c \in Columns |-> IF c \in w.set THEN Field[w.hash][c] ELSE row.cols[c]]]

\* Variant of Unchanged: a row that is there is left alone.
Present(row, v) == row # None

\* Variant of Unchanged: whatever is there is written again.
NeverUnchanged(row, v) == FALSE

(* _decide: the row has the hash of the record, and is skipped.              *)
Unchanged(row, v) == row # None /\ row.hash = v

StagedIds(r) == {i \in Ids : staged[r][i] # None}
Handled(r) == {export[r][k].id : k \in 1 .. pos[r] - 1}

\* Variant of BatchFull: the batch may be one larger.
BatchOverfull(r) == pending[r] > CommitEvery

BatchFull(r) == pending[r] >= CommitEvery

AtEnd(r) == pos[r] > Len(export[r])
Reading(r) == pc[r] = "running" /\ ~AtEnd(r) /\ ~BatchFull(r)
Current(r) == export[r][pos[r]]

\* Variant of Fit: withdrawn records are not told from others.
FitIfReadable(b) == b # "poison"

(* normalize_osv returns a record.                                           *)
Fit(b) == b \in Versions

(* sync_ecosystem has downloaded an export.                                  *)
Start(r) ==
  /\ pc[r] = "idle"
  /\ pc' = [pc EXCEPT ![r] = "running"]
  /\ \E z \in Exports : export' = [export EXCEPT ![r] = z]
  /\ UNCHANGED <<table, pos, staged, pending, touched, overlapped>>

(* A record is new or has changed: the session holds the write.              *)
Upsert(r) ==
  /\ Reading(r) /\ Fit(Current(r).body)
  /\ LET i == Current(r).id
         v == Current(r).body
     IN /\ ~Unchanged(table[i], v)
        /\ staged' = [staged EXCEPT ![r] = [@ EXCEPT ![i] = Stage(table[i], v)]]
  /\ pending' = [pending EXCEPT ![r] = @ + 1]
  /\ pos' = [pos EXCEPT ![r] = @ + 1]
  /\ UNCHANGED <<table, pc, export, touched, overlapped>>

(* A record is as the table has it, or normalize_osv raises ValueError.      *)
Skip(r) ==
  /\ Reading(r)
  /\ \/ Fit(Current(r).body) /\ Unchanged(table[Current(r).id], Current(r).body)
     \/ Current(r).body = "rejected"
  /\ pos' = [pos EXCEPT ![r] = @ + 1]
  /\ UNCHANGED <<table, pc, export, staged, pending, touched, overlapped>>

(* Rows were inserted by others since r found them missing: the database     *)
(* refuses r's INSERTs of them.                                              *)
Collides(r) == \E i \in StagedIds(r) : staged[r][i].new /\ table[i] # None

(* session.commit(): all writes of the open transaction, or none.            *)
Save(r) ==
  /\ ~Collides(r)
  /\ table' = [i \in Ids |->
                 IF staged[r][i] = None THEN table[i] ELSE Apply(staged[r][i], table[i])]
  /\ staged' = [staged EXCEPT ![r] = Nothing]
  /\ pending' = [pending EXCEPT ![r] = 0]
  /\ touched' = [q \in Runs |->
                   IF q = r THEN touched[q] ELSE touched[q] \cup (StagedIds(r) \cap Handled(q))]
  /\ overlapped' = (overlapped \ StagedIds(r)) \cup (StagedIds(r) \cap touched[r])

(* A full batch is committed; so is what is left at the end of the export.   *)
CommitBatch(r) ==
  /\ pc[r] = "running" /\ BatchFull(r)
  /\ Save(r)
  /\ UNCHANGED <<pc, export, pos>>

CommitLast(r) ==
  /\ pc[r] = "running" /\ AtEnd(r) /\ ~BatchFull(r)
  /\ Save(r)
  /\ pc' = [pc EXCEPT ![r] = "done"]
  /\ UNCHANGED <<export, pos>>

(* The run ends without a commit, and its open transaction is rolled back.   *)
RollBack(r) ==
  /\ pc' = [pc EXCEPT ![r] = "failed"]
  /\ staged' = [staged EXCEPT ![r] = Nothing]
  /\ UNCHANGED <<table, export, pos, pending, touched, overlapped>>

(* An INSERT is refused.                                                     *)
IntegrityError(r) ==
  /\ pc[r] = "running" /\ Collides(r) /\ (BatchFull(r) \/ AtEnd(r))
  /\ RollBack(r)

(* A record raises what sync_records does not catch.                         *)
Poisoned(r) == Reading(r) /\ Current(r).body = "poison" /\ RollBack(r)

(* The process is killed, or the database ends one side of a deadlock.       *)
Die(r) == pc[r] = "running" /\ RollBack(r)

Step(r) ==
  \/ Start(r) \/ Upsert(r) \/ Skip(r) \/ CommitBatch(r) \/ CommitLast(r)
  \/ IntegrityError(r) \/ Poisoned(r) \/ Die(r)

Over == (\A r \in Runs : pc[r] \in {"done", "failed"}) /\ UNCHANGED vars

Next == (\E r \in Runs : Step(r)) \/ Over

Spec == Init /\ [][Next]_vars

----------------------------------------------------------------------------

TypeOK ==
  /\ table \in [Ids -> Rows \cup {None}]
  /\ pc \in [Runs -> {"idle", "running", "done", "failed"}]
  /\ export \in [Runs -> Exports \cup {<<>>}]
  /\ pos \in [Runs -> Nat \ {0}]
  /\ \A r \in Runs : pos[r] <= Len(export[r]) + 1
  /\ staged \in [Runs -> [Ids -> Writes \cup {None}]]
  /\ pending \in [Runs -> 0 .. CommitEvery]
  /\ touched \in [Runs -> SUBSET Ids]
  /\ overlapped \subseteq Ids

(* The ids that r has read as far as it got, that are not in the table as    *)
(* they are in its export, and that nobody else has committed since.         *)
Saved(rec) == table[rec.id] # None /\ table[rec.id].hash = rec.body
Behind(r) ==
  {i \in Ids : /\ i \notin touched[r]
               /\ \E k \in 1 .. pos[r] - 1 :
                    export[r][k].id = i /\ Fit(export[r][k].body) /\ ~Saved(export[r][k])}

(* A sync that completes has brought the table to its export, record by      *)
(* record, whatever earlier runs left half done (sync.py:1): what differs    *)
(* was committed by a run that overlapped it, or by a later one.             *)
DoneMeansSynced == \A r \in Runs : pc[r] = "done" => AtEnd(r) /\ Behind(r) = {}

(* A run that ends early, by whatever cause, loses at most one batch of what *)
(* it had decided to write (sync.py:88).                                     *)
CrashLosesABatch == \A r \in Runs : Cardinality(Behind(r)) <= CommitEvery

(* "Skipped otherwise" (sync.py:3): a session holds no write of a version    *)
(* that the table has, unless another run has just committed it.             *)
WritesAreNeeded ==
  \A r \in Runs : \A i \in StagedIds(r) \ touched[r] :
    ~(table[i] # None /\ table[i].hash = staged[r][i].hash)

(* The hash of a row tells its columns.  The exception is a row whose last   *)
(* UPDATE was decided on a row that another run changed before it took       *)
(* effect: its columns may be those of two versions, and a sync of the       *)
(* version it has the hash of will skip it.                                  *)
Whole(i) == table[i] = RowOf(table[i].hash)
MixedOnlyByOverlap ==
  \A i \in Ids : table[i] # None /\ i \notin overlapped => Whole(i)

----------------------------------------------------------------------------
(* What makes these inductive.  A run's open transaction is at most a batch  *)
(* and holds whatever the run is behind with.                                *)
BatchSoFar(r) ==
  /\ Cardinality(Behind(r)) <= CommitEvery
  /\ pc[r] = "running" =>
       pending[r] = Cardinality(StagedIds(r)) /\ Behind(r) \subseteq StagedIds(r)
  /\ pc[r] # "running" => StagedIds(r) = {}
  /\ pc[r] = "idle" => pos[r] = 1 /\ pending[r] = 0
  /\ pc[r] = "done" => AtEnd(r) /\ Behind(r) = {}

(* It is for records that have been read, and its writes make whole rows of  *)
(* rows that are still as they were read.                                    *)
Read(r, i, v) == \E k \in 1 .. pos[r] - 1 : export[r][k] = [id |-> i, body |-> v]
Sound(w, row) ==
  /\ w.new <=> row = None
  /\ ~w.new => row.hash # w.hash
  /\ Apply(w, row) = RowOf(w.hash)
StagedSoFar(r) ==
  \A i \in StagedIds(r) :
    /\ Read(r, i, staged[r][i].hash)
    /\ staged[r][i].new \/ table[i] # None
    /\ i \notin touched[r] => Sound(staged[r][i], table[i])

RunInv(r) == BatchSoFar(r) /\ StagedSoFar(r)

IInv == TypeOK /\ MixedOnlyByOverlap /\ \A r \in Runs : RunInv(r)
=============================================================================
