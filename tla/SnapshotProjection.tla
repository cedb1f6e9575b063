------------------------- MODULE SnapshotProjection -------------------------
(***************************************************************************)
(* The stored projection inventory_snapshot, kept by the jobs rebuild,     *)
(* advance and clear of InventorySnapshotRepository, over the log that     *)
(* LogStore specifies (and EventLog implements).                           *)
(*                                                                         *)
(* A lot's state is a sum over the events folded into it, so the model     *)
(* keeps what is summed: how often each event was counted.  Two lot states *)
(* with the same counts are equal in every column.                         *)
(*                                                                         *)
(* A job is one READ COMMITTED transaction of its caller; its reads are    *)
(* statements, its writes lock one row at a time and keep what they have   *)
(* locked until it ends.  A DELETE finds its rows when it starts (target)  *)
(* and deletes them one by one, in the order of some scan; it waits for a  *)
(* row that another transaction is deleting, and passes over it if that    *)
(* one commits.  save INSERTs its lots one by one, in the order of         *)
(* sort_key; it waits for an uncommitted row or deletion of the lot and    *)
(* fails on a committed row (the table's unique lot).                      *)
(***************************************************************************)
EXTENDS LogStore

CONSTANTS Workers    \* callers that keep projections

(* How often each event is counted. *)
Counts == [Keys -> Nat]
Nothing == [k \in Keys |-> 0]

Snapshot == [as_of: Time, counts: Counts]
Job == [household: Households, as_of: Time]

ASSUME ProjectionAssumption == None \notin Snapshot \cup Job

(* Lots are numbered in the order of LotKey.sort_key. *)
ASSUME LotsAssumption == Lots \subseteq Nat

VARIABLES
  table,     \* committed rows of inventory_snapshot: household, lot -> row
  at,        \* where each worker is
  job,       \* what it does
  current,   \* what its get() returned, until it has used it
  snapshot,  \* what it will save
  target,    \* the lots whose rows its DELETE found and has yet to delete
  deleted,   \* the lots whose rows it has deleted and not committed
  inserted,  \* the lots whose rows it has inserted and not committed
  horizon,   \* history: the latest as_of a household's log was read for
  late       \* history: events committed behind that horizon

workVars == <<at, job, current, snapshot, target, deleted, inserted>>
vars == <<now, log, table, workVars, horizon, late>>

Stored(h) == {l \in Lots : table[h][l] # None}
AsOfs(h) == {table[h][l].as_of : l \in Stored(h)}

(* The lots a snapshot has: those with an event in them. *)
LotsOf(counts) == {l \in Lots : \E k \in Committed : /\ log[k].lot = l
                                                     /\ counts[k] > 0}

(* The row of lot l in a snapshot. *)
RowFor(snap, l) ==
  [as_of |-> snap.as_of,
   counts |-> [k \in Keys |-> IF log[k] # None /\ log[k].lot = l
                              THEN snap.counts[k] ELSE 0]]

(* fold_events and apply_events: each event given is counted once more. *)
apply_events(counts, events) ==
  [k \in Keys |-> counts[k] + (IF k \in events THEN 1 ELSE 0)]

(* The projection of household h that is stored, all its rows together. *)
StoredCounts(h) ==
  [k \in Keys |-> IF log[k] # None /\ log[k].lot \in Stored(h)
                  THEN table[h][log[k].lot].counts[k] ELSE 0]

Init ==
  /\ LogInit
  /\ table = [h \in Households |-> [l \in Lots |-> None]]
  /\ at = [w \in Workers |-> "idle"]
  /\ job = [w \in Workers |-> None]
  /\ current = [w \in Workers |-> None]
  /\ snapshot = [w \in Workers |-> None]
  /\ target = [w \in Workers |-> {}]
  /\ deleted = [w \in Workers |-> {}]
  /\ inserted = [w \in Workers |-> {}]
  /\ horizon = [h \in Households |-> -1]
  /\ late = {}

Goto(w, label) == at' = [at EXCEPT ![w] = label]

(* The worker's transaction ends and it forgets what it read. *)
Forget(w) ==
  /\ at' = [at EXCEPT ![w] = "idle"]
  /\ job' = [job EXCEPT ![w] = None]
  /\ current' = [current EXCEPT ![w] = None]
  /\ snapshot' = [snapshot EXCEPT ![w] = None]
  /\ deleted' = [deleted EXCEPT ![w] = {}]
  /\ inserted' = [inserted EXCEPT ![w] = {}]

(* The statements of the other workers on the same household. *)
Others(w) == {v \in Workers \ {w} : /\ job[v] # None
                                    /\ job[v].household = job[w].household}

-----------------------------------------------------------------------------
(* The log goes on; an event is late when a projection has already been     *)
(* read for a moment at which the event claims to have been known.          *)
AppendEvent(k, row) ==
  /\ Append(k, row)
  /\ late' = IF row.recorded <= horizon[row.household]
                 /\ row.occurred <= horizon[row.household]
             THEN late \cup {k} ELSE late
  /\ UNCHANGED <<table, workVars, horizon>>

(* advance to a moment by its caller's clock starts with get().  With no    *)
(* rows it will rebuild; behind the projection it only projects, a read;    *)
(* otherwise it goes on from there.                                         *)
Advance(w, j) ==
  /\ at[w] = "idle"
  /\ \/ /\ Stored(j.household) = {}
        /\ Goto(w, "replay")
        /\ job' = [job EXCEPT ![w] = j]
        /\ UNCHANGED current
     \/ \E m \in AsOfs(j.household) :
        /\ \A t \in AsOfs(j.household) : t <= m
        /\ \/ /\ j.as_of < m
              /\ UNCHANGED <<at, job, current>>
           \/ /\ j.as_of >= m
              /\ Goto(w, "between")
              /\ job' = [job EXCEPT ![w] = j]
              /\ current' = [current EXCEPT ![w] =
                   [as_of |-> m, counts |-> StoredCounts(j.household)]]
  /\ UNCHANGED <<now, log, table, snapshot, target, deleted, inserted, horizon,
                 late>>

(* What both reads of the log do with the events they return. *)
Compute(w, j, counts) ==
  /\ Goto(w, "delete")
  /\ job' = [job EXCEPT ![w] = j]
  /\ snapshot' = [snapshot EXCEPT ![w] = [as_of |-> j.as_of, counts |-> counts]]
  /\ horizon' = [horizon EXCEPT ![j.household] =
                   IF @ < j.as_of THEN j.as_of ELSE @]
  /\ current' = [current EXCEPT ![w] = None]
  /\ UNCHANGED <<now, log, table, target, deleted, inserted, late>>

(* project_known_as_of: events_known_as_of, folded from nothing. *)
Replay(w, j) ==
  Compute(w, j, apply_events(Nothing, events_known_as_of(j.household, j.as_of)))

(* rebuild starts with it, at a moment by its caller's clock, and advance   *)
(* comes to it when get() has found no rows.                                *)
Rebuild(w, j) == at[w] = "idle" /\ Replay(w, j)

RebuildInstead(w) == at[w] = "replay" /\ Replay(w, job[w])

(* advance: events_known_between, applied to what get() returned. *)
Between(w) ==
  /\ at[w] = "between"
  /\ LET j == job[w] IN
     Compute(w, j, apply_events(current[w].counts,
                     events_known_between(j.household, current[w].as_of, j.as_of)))

(* save: its DELETE finds the rows the household has now. *)
DeleteStart(w) ==
  /\ at[w] = "delete"
  /\ Goto(w, "saving")
  /\ target' = [target EXCEPT ![w] = Stored(job[w].household)]
  /\ UNCHANGED <<now, log, table, job, current, snapshot, deleted, inserted,
                 horizon, late>>

(* clear is such a DELETE alone: it saves nothing, and names no moment. *)
Clear(w, h) ==
  /\ at[w] = "idle"
  /\ Goto(w, "saving")
  /\ job' = [job EXCEPT ![w] = [household |-> h, as_of |-> 0]]
  /\ snapshot' = [snapshot EXCEPT ![w] = [as_of |-> 0, counts |-> Nothing]]
  /\ target' = [target EXCEPT ![w] = Stored(h)]
  /\ UNCHANGED <<now, log, table, current, deleted, inserted, horizon, late>>

(* A DELETE deletes one of its rows, if nobody else is deleting that row. *)
DeleteRow(w, l) ==
  /\ at[w] = "saving"
  /\ l \in target[w]
  /\ \A v \in Others(w) : l \notin deleted[v]
  /\ target' = [target EXCEPT ![w] = @ \ {l}]
  /\ deleted' = [deleted EXCEPT ![w] = @ \cup {l}]
  /\ UNCHANGED <<now, log, table, at, job, current, snapshot, inserted, horizon,
                 late>>

(* The lots save has yet to insert, and the one that comes next: _freeze    *)
(* sorts them, and the flush inserts in the order of add_all.               *)
Remaining(w) == LotsOf(snapshot[w].counts) \ inserted[w]

(* Mutant: the lots are not sorted. *)
NextLot_any(w) == Remaining(w)

NextLot(w) == {l \in Remaining(w) : \A m \in Remaining(w) : l <= m}

(* Mutant: a conflict on the unique lot is waited out. *)
InsertRow_waiting(w, l) ==
  /\ at[w] = "saving" /\ target[w] = {}
  /\ l \in NextLot(w)
  /\ l \notin Stored(job[w].household) \ deleted[w]
  /\ inserted' = [inserted EXCEPT ![w] = @ \cup {l}]
  /\ UNCHANGED <<now, log, table, at, job, current, snapshot, target, deleted,
                 horizon, late>>

(* save: when the DELETE has come to its end, INSERT the next lot.  A row   *)
(* of it that is stored is a conflict, unless the job itself has deleted it.*)
InsertRow(w, l) ==
  /\ at[w] = "saving" /\ target[w] = {}
  /\ l \in NextLot(w)
  /\ \A v \in Others(w) : l \notin deleted[v] \cup inserted[v]
  /\ \/ /\ l \notin Stored(job[w].household) \ deleted[w]
        /\ inserted' = [inserted EXCEPT ![w] = @ \cup {l}]
        /\ UNCHANGED <<at, job, current, snapshot, deleted>>
     \/ /\ l \in Stored(job[w].household) \ deleted[w]
        /\ Forget(w)
  /\ UNCHANGED <<now, log, table, target, horizon, late>>

(* With nothing left to do (for clear, when its DELETE is done), the caller *)
(* commits: its deletions and insertions appear together, and the rows it   *)
(* deleted are gone for a DELETE that has yet to come to them.              *)
Commit(w) ==
  /\ at[w] = "saving" /\ target[w] = {} /\ Remaining(w) = {}
  /\ Forget(w)
  /\ LET h == job[w].household
     IN  /\ table' = [table EXCEPT ![h] = [l \in Lots |->
              IF l \in inserted[w] THEN RowFor(snapshot[w], l)
              ELSE IF l \in deleted[w] THEN None ELSE table[h][l]]]
         /\ target' = [v \in Workers |-> IF v \in Others(w)
              THEN target[v] \ deleted[w] ELSE target[v]]
  /\ UNCHANGED <<now, log, horizon, late>>

(* The caller's transaction is rolled back. *)
Abort(w) ==
  /\ at[w] # "idle"
  /\ Forget(w)
  /\ target' = [target EXCEPT ![w] = {}]
  /\ UNCHANGED <<now, log, table, horizon, late>>

Work(w) ==
  \/ RebuildInstead(w) \/ Between(w) \/ DeleteStart(w)
  \/ \E l \in Lots : DeleteRow(w, l)
  \/ \E l \in Lots : InsertRow(w, l)
  \/ Commit(w)

Next ==
  \/ Tick /\ UNCHANGED <<table, workVars, horizon, late>>
  \/ \E k \in Keys, row \in EventRow : AppendEvent(k, row)
  \/ \E w \in Workers :
       \/ \E j \in Job : Rebuild(w, j) \/ Advance(w, j)
       \/ \E h \in Households : Clear(w, h)
       \/ Work(w)
       \/ Abort(w)

Spec == Init /\ [][Next]_vars

(* Who waits for whom: a DELETE for one that has deleted a row it has yet   *)
(* to delete (its scan may have come to any of them), an INSERT for one     *)
(* that has deleted or inserted its lot.                                    *)
BehindDelete(w, v) ==
  /\ at[w] = "saving" /\ v \in Others(w)
  /\ IF target[w] = {} THEN NextLot(w) \cap deleted[v] # {}
                       ELSE target[w] \cap deleted[v] # {}

BehindInsert(w, v) ==
  /\ at[w] = "saving" /\ v \in Others(w)
  /\ target[w] = {} /\ NextLot(w) \cap inserted[v] # {}

WaitsFor(w, v) == BehindDelete(w, v) \/ BehindInsert(w, v)

(* Jobs of which each waits for another one and is waited for by another.   *)
Ring(R) ==
  /\ R # {}
  /\ \A w \in R : /\ \E v \in R : WaitsFor(w, v)
                  /\ \E v \in R : WaitsFor(v, w)

(* Postgres looks for such rings and rolls back a transaction in each.      *)
BreakRing(w) ==
  /\ Abort(w)
  /\ \E R \in SUBSET Workers : w \in R /\ Ring(R)

(* Every statement ends: one that waits for a lock gets it when it is       *)
(* released often enough (Postgres queues the waiters of a lock), or is     *)
(* rolled back if it waits in a ring.                                       *)
FairSpec == Spec /\ \A w \in Workers : SF_vars(Work(w) \/ BreakRing(w))

-----------------------------------------------------------------------------
TypeOK ==
  /\ LogTypeOK
  /\ table \in [Households -> [Lots -> Snapshot \cup {None}]]
  /\ at \in [Workers -> {"idle", "replay", "between", "delete", "saving"}]
  /\ job \in [Workers -> Job \cup {None}]
  /\ current \in [Workers -> Snapshot \cup {None}]
  /\ snapshot \in [Workers -> Snapshot \cup {None}]
  /\ target \in [Workers -> SUBSET Lots]
  /\ deleted \in [Workers -> SUBSET Lots]
  /\ inserted \in [Workers -> SUBSET Lots]
  /\ horizon \in [Households -> Time \cup {-1}]
  /\ late \in SUBSET Keys

(* No event is counted twice in a stored row: advance reads events for the  *)
(* window after an as_of that other jobs may since have replaced.           *)
NoDoubleCount ==
  \A h \in Households, l \in Lots :
    table[h][l] # None => \A k \in Keys : table[h][l].counts[k] <= 1

(* A stored row counts only committed events of its household and lot that  *)
(* were known, by both clocks, at the row's as_of: no label leakage and no  *)
(* event of a transaction that was rolled back.                             *)
NoLeak ==
  \A h \in Households, l \in Lots :
    table[h][l] # None =>
      \A k \in Keys : table[h][l].counts[k] > 0 =>
        /\ log[k] # None
        /\ log[k].household = h /\ log[k].lot = l
        /\ log[k].occurred <= table[h][l].as_of
        /\ log[k].recorded <= table[h][l].as_of

(* Why both hold: what a worker carries from its reads to its commit is     *)
(* sound for its household at its as_of, whatever the table has become.     *)
Sound(h, snap) ==
  \A k \in Keys : /\ snap.counts[k] <= 1
                  /\ snap.counts[k] > 0 => k \in events_known_as_of(h, snap.as_of)

CarriedSound ==
  \A w \in Workers :
    /\ at[w] # "idle" => job[w] # None
    /\ at[w] = "between" => /\ current[w] # None
                            /\ current[w].as_of <= job[w].as_of
                            /\ Sound(job[w].household, current[w])
    /\ at[w] \in {"delete", "saving"} =>
         /\ snapshot[w] # None
         /\ Sound(job[w].household, snapshot[w])

Inv == TypeOK /\ NoDoubleCount /\ NoLeak /\ CarriedSound

(* A stored projection has every event known at its as_of, except those     *)
(* that were committed behind the back of a read: no other order of jobs,   *)
(* rollbacks and lock waits loses an event.                                 *)
CompleteButLate ==
  \A h \in Households : \A m \in AsOfs(h) :
    (\A t \in AsOfs(h) : t <= m) =>
      \A k \in events_known_as_of(h, m) \ late : StoredCounts(h)[k] = 1

(* Why it holds.  A projection at t owes the events known at t that were    *)
(* not committed late; a set of rows is whole when it counts, for each of   *)
(* its rows, all that is owed at that row's as_of.                          *)
Owed(h, t) == events_known_as_of(h, t) \ late

Whole(h, S) ==
  \A l \in S : \A k \in Owed(h, table[h][l].as_of) :
    log[k].lot \in S /\ table[h][log[k].lot].counts[k] = 1

(* A snapshot that is not empty (that of clear is) counts all it owes.      *)
Complete(h, snap) ==
  (\E k \in Keys : snap.counts[k] > 0) =>
    /\ snap.as_of <= horizon[h]
    /\ \A k \in Owed(h, snap.as_of) : snap.counts[k] = 1

TableWhole ==
  \A h \in Households :
    /\ Whole(h, Stored(h))
    /\ \A l \in Stored(h) : table[h][l].as_of <= horizon[h]

(* The rows a worker's DELETE has to do with. *)
Found(w) == target[w] \cup deleted[w]

(* Each worker's deletion leaves a whole set of rows behind, and what it    *)
(* inserts takes only places it has emptied.                                *)
WorkWhole(w) ==
  LET h == job[w].household IN
  /\ at[w] = "between" =>
       /\ current[w].as_of <= horizon[h]
       /\ \A k \in Owed(h, current[w].as_of) : current[w].counts[k] = 1
  /\ at[w] \in {"delete", "saving"} =>
       Complete(h, snapshot[w])
  /\ at[w] = "saving" =>
       /\ Found(w) \subseteq Stored(h)
       /\ Whole(h, Stored(h) \ Found(w))
       /\ inserted[w] \subseteq LotsOf(snapshot[w].counts)
       /\ inserted[w] \cap Stored(h) \subseteq deleted[w]
  /\ at[w] # "saving" => Found(w) \cup inserted[w] = {}

(* Of two workers on one household, the rows that one has deleted and those *)
(* that it has inserted are apart from the other's.                         *)
Beside(w, v) == /\ w # v /\ at[w] # "idle" /\ at[v] # "idle"
                /\ job[w].household = job[v].household

Apart(w, v) == (deleted[w] \cup inserted[w]) \cap (deleted[v] \cup inserted[v]) = {}

CompleteInv ==
  /\ TableWhole
  /\ \A w \in Workers : WorkWhole(w)
  /\ \A w, v \in Workers : Beside(w, v) => Apart(w, v)

(* Saves that have no deleted row between them never wait for each other in *)
(* a ring, however many they are: the first saves of a household, say.      *)
NoInsertRing ==
  \A R \in SUBSET Workers : Ring(R) => \E w, v \in R : BehindDelete(w, v)

(* Why it holds: whoever waits for a lot has inserted only lots before it.  *)
InOrder ==
  \A w \in Workers : at[w] = "saving" =>
    \A l \in inserted[w], m \in Remaining(w) : l < m

(* Every job ends, so a worker is idle again and again: whatever waits of   *)
(* deletes and inserts there are, their rings included, they end.           *)
JobsEnd == \A w \in Workers : []<>(at[w] = "idle")

(* What advance folds is, but for events committed late, what a replay of   *)
(* the log at the same moment would fold, whatever became of the rows it    *)
(* started from since it read them.                                         *)
AdvanceButLate ==
  [][\A w \in Workers :
       Between(w) => \A k \in Keys \ late :
         snapshot'[w].counts[k] = apply_events(Nothing,
           events_known_as_of(job[w].household, job[w].as_of))[k]]_vars

(* "Equivalent to rebuild": what advance folds is what a replay of the log  *)
(* at the same moment would fold, even if no row is stamped at the very     *)
(* instant the projection was taken.                                        *)
AdvanceIsRebuild ==
  [][\A w \in Workers :
       Between(w) /\ (\A k \in Committed : log[k].recorded # current[w].as_of)
         => snapshot'[w].counts = apply_events(Nothing,
              events_known_as_of(job[w].household, job[w].as_of))]_vars
=============================================================================
