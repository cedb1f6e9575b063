----------------------- MODULE SnapshotProjectionProofs -----------------------
(* What is proved of SnapshotProjection for any numbers of workers, events, *)
(* households and lots, and for any bound on the clock.                     *)
EXTENDS SnapshotProjection, WellFoundedInduction, TLAPS

USE LogStoreAssumption, ProjectionAssumption

-----------------------------------------------------------------------------
(* events_known_between returns exactly the set difference of what was      *)
(* known at its two ends: its OR over the two clocks neither loses an event *)
(* with a late occurred_at nor returns one that was already counted.        *)
THEOREM BetweenIsDifference ==
  ASSUME LogTypeOK, NEW h, NEW after \in Time, NEW t \in Time, after <= t
  PROVE  events_known_between(h, after, t) =
           events_known_as_of(h, t) \ events_known_as_of(h, after)
<1>1. \A k \in Committed : log[k].occurred \in Int /\ log[k].recorded \in Int
  BY DEF LogTypeOK, Committed, EventRow, Time
<1>2. after \in Int /\ t \in Int
  BY DEF Time
<1> QED
  BY <1>1, <1>2 DEF events_known_between, events_known_as_of

(* What is known at a moment is known at every later one. *)
LEMMA KnownGrows ==
  ASSUME LogTypeOK, NEW h, NEW s \in Time, NEW t \in Time, s <= t
  PROVE  events_known_as_of(h, s) \subseteq events_known_as_of(h, t)
<1>1. \A k \in Committed : log[k].occurred \in Int /\ log[k].recorded \in Int
  BY DEF LogTypeOK, Committed, EventRow, Time
<1>2. s \in Int /\ t \in Int
  BY DEF Time
<1> QED
  BY <1>1, <1>2 DEF events_known_as_of

(* An append changes no row that is there, so it leaves known what was.     *)
LEMMA AppendKeeps ==
  ASSUME LogTypeOK, NEW k \in Keys, NEW row \in EventRow, Append(k, row)
  PROVE  /\ \A q \in Committed : q \in Committed' /\ log'[q] = log[q]
         /\ \A h, t : events_known_as_of(h, t) \subseteq events_known_as_of(h, t)'
<1>1. \A q \in Committed : q \in Committed' /\ log'[q] = log[q]
  BY DEF LogTypeOK, Append, Committed
<1> QED
  BY <1>1 DEF events_known_as_of

(* Folding the newly known events into a sound snapshot of an earlier       *)
(* moment counts none of them twice.                                        *)
LEMMA AdvanceSound ==
  ASSUME LogTypeOK, NEW h, NEW snap \in Snapshot, NEW t \in Time,
         snap.as_of <= t, Sound(h, snap)
  PROVE  LET counts == apply_events(snap.counts,
                         events_known_between(h, snap.as_of, t))
         IN  /\ counts \in Counts
             /\ Sound(h, [as_of |-> t, counts |-> counts])
<1> DEFINE new == events_known_between(h, snap.as_of, t)
           counts == apply_events(snap.counts, new)
<1>1. snap.as_of \in Time /\ snap.counts \in [Keys -> Nat]
  BY DEF Snapshot, Counts
<1>2. new = events_known_as_of(h, t) \ events_known_as_of(h, snap.as_of)
  BY <1>1, BetweenIsDifference
<1>3. events_known_as_of(h, snap.as_of) \subseteq events_known_as_of(h, t)
  BY <1>1, KnownGrows
<1>4. counts \in [Keys -> Nat]
  <2> HIDE DEF new
  <2> QED BY <1>1 DEF apply_events
<1>5. ASSUME NEW k \in Keys
      PROVE  /\ counts[k] <= 1
             /\ counts[k] > 0 => k \in events_known_as_of(h, t)
  <2>1. counts[k] = snap.counts[k] + (IF k \in new THEN 1 ELSE 0)
    BY DEF apply_events
  <2>2. snap.counts[k] \in Nat /\ snap.counts[k] <= 1
    BY <1>1 DEF Sound
  <2>3. snap.counts[k] > 0 => k \in events_known_as_of(h, snap.as_of)
    BY DEF Sound
  <2> HIDE DEF new, counts
  <2> QED BY <1>2, <1>3, <2>1, <2>2, <2>3
<1> HIDE DEF counts
<1> QED BY <1>4, <1>5 DEF Sound, Counts, counts, new

(* A replay counts each known event once. *)
LEMMA ReplaySound ==
  ASSUME NEW h, NEW t
  PROVE  LET counts == apply_events(Nothing, events_known_as_of(h, t))
         IN  /\ counts \in Counts
             /\ Sound(h, [as_of |-> t, counts |-> counts])
<1> DEFINE known == events_known_as_of(h, t)
           counts == apply_events(Nothing, known)
<1>1. counts = [k \in Keys |-> IF k \in known THEN 1 ELSE 0]
  BY DEF apply_events, Nothing
<1> HIDE DEF counts
<1> QED BY <1>1 DEF Sound, Counts, counts

(* The rows get() adds up are sound for the latest as_of among them. *)
LEMMA GetSound ==
  ASSUME Inv, NEW h \in Households, NEW m \in AsOfs(h),
         \A t \in AsOfs(h) : t <= m
  PROVE  /\ m \in Time
         /\ StoredCounts(h) \in Counts
         /\ Sound(h, [as_of |-> m, counts |-> StoredCounts(h)])
<1>i. TypeOK /\ LogTypeOK /\ NoDoubleCount /\ NoLeak
  BY DEF Inv, TypeOK
<1>1. \A l \in Stored(h) : /\ l \in Lots
                           /\ table[h][l] \in Snapshot
                           /\ table[h][l].as_of \in AsOfs(h)
  BY <1>i DEF TypeOK, Stored, AsOfs
<1>2. m \in Time
  BY <1>1 DEF AsOfs, Snapshot
<1>3. StoredCounts(h) \in [Keys -> Nat]
  BY <1>1 DEF StoredCounts, Snapshot, Counts
<1>4. ASSUME NEW k \in Keys
      PROVE  /\ StoredCounts(h)[k] <= 1
             /\ StoredCounts(h)[k] > 0 => k \in events_known_as_of(h, m)
  <2>1. CASE log[k] # None /\ log[k].lot \in Stored(h)
    <3> DEFINE l == log[k].lot
    <3>1. StoredCounts(h)[k] = table[h][l].counts[k]
      BY <2>1 DEF StoredCounts
    <3>2. l \in Lots /\ table[h][l] # None /\ table[h][l].as_of \in AsOfs(h)
      BY <1>1, <2>1 DEF Stored
    <3>3. table[h][l].as_of \in Time /\ table[h][l].as_of <= m
      BY <1>1, <2>1, <3>2 DEF Snapshot
    <3>4. events_known_as_of(h, table[h][l].as_of) \subseteq
            events_known_as_of(h, m)
      BY <1>i, <1>2, <3>3, KnownGrows
    <3> QED BY <1>i, <3>1, <3>2, <3>4 DEF NoDoubleCount, NoLeak, events_known_as_of, Committed
  <2>2. CASE ~(log[k] # None /\ log[k].lot \in Stored(h))
    <3>1. StoredCounts(h)[k] = 0
      BY <2>2 DEF StoredCounts
    <3> QED BY <3>1
  <2> QED BY <2>1, <2>2
<1> QED BY <1>2, <1>3, <1>4 DEF Sound, Counts

-----------------------------------------------------------------------------
(* Inv holds before the first job. *)
LEMMA InitInv == Init => Inv
<1> SUFFICES ASSUME Init PROVE Inv
  OBVIOUS
<1>1. TypeOK
  BY DEF Init, LogInit, TypeOK, LogTypeOK, Time
<1> QED
  BY <1>1 DEF Init, Inv, NoDoubleCount, NoLeak, CarriedSound

(* Every step of the log leaves the projection's part of Inv alone. *)
LEMMA LogStepInv ==
  ASSUME Inv, UNCHANGED <<table, workVars>>, LogTypeOK', TypeOK',
         \A q \in Committed : q \in Committed' /\ log'[q] = log[q],
         \A h, t : events_known_as_of(h, t) \subseteq events_known_as_of(h, t)'
  PROVE  Inv'
<1>i. TypeOK /\ NoDoubleCount /\ NoLeak /\ CarriedSound
  BY DEF Inv
<1>u. UNCHANGED <<table, at, job, current, snapshot>>
  BY DEF workVars
<1>1. NoDoubleCount'
  BY <1>i, <1>u DEF NoDoubleCount
<1>2. NoLeak'
  BY <1>i, <1>u DEF NoLeak, Committed
<1>3. \A h, snap : Sound(h, snap) => Sound(h, snap)'
  BY DEF Sound
<1>4. CarriedSound'
  BY <1>i, <1>u, <1>3 DEF CarriedSound
<1> QED BY <1>1, <1>2, <1>4 DEF Inv

(* A step that leaves the log and the table alone and keeps what the        *)
(* workers carry sound preserves Inv.                                       *)
LEMMA CarryStep ==
  ASSUME Inv, TypeOK', UNCHANGED <<log, table>>, CarriedSound'
  PROVE  Inv'
<1>1. NoDoubleCount' /\ NoLeak'
  BY DEF Inv, NoDoubleCount, NoLeak, events_known_as_of, Committed
<1> QED BY <1>1 DEF Inv

(* Inv is inductive. *)
LEMMA InvStep == Inv /\ [Next]_vars => Inv'
<1> SUFFICES ASSUME Inv, [Next]_vars PROVE Inv'
  OBVIOUS
<1>i. TypeOK /\ LogTypeOK /\ NoDoubleCount /\ NoLeak /\ CarriedSound
  BY DEF Inv, TypeOK
<1>s. ASSUME UNCHANGED log, NEW h, NEW snap, Sound(h, snap) PROVE Sound(h, snap)'
  BY <1>s DEF Sound, events_known_as_of, Committed
<1>j. \A w \in Workers : at[w] # "idle" =>
        /\ job[w] \in Job
        /\ job[w].household \in Households /\ job[w].as_of \in Time
  BY <1>i DEF TypeOK, CarriedSound, Job
<1>1. ASSUME Tick /\ UNCHANGED <<table, workVars, horizon, late>> PROVE Inv'
  <2>1. TypeOK'
    BY <1>i, <1>1 DEF TypeOK, LogTypeOK, Tick, workVars, Time
  <2>2. UNCHANGED log
    BY <1>1 DEF Tick
  <2>3. /\ \A q \in Committed : q \in Committed' /\ log'[q] = log[q]
        /\ \A h, t : events_known_as_of(h, t) \subseteq events_known_as_of(h, t)'
    BY <2>2 DEF events_known_as_of, Committed
  <2> QED BY <1>1, <2>1, <2>3, LogStepInv DEF TypeOK
<1>2. ASSUME NEW k \in Keys, NEW row \in EventRow, AppendEvent(k, row)
      PROVE  Inv'
  <2>1. TypeOK'
    BY <1>i, <1>2 DEF TypeOK, LogTypeOK, AppendEvent, Append, workVars
  <2> QED BY <1>i, <1>2, <2>1, AppendKeeps, LogStepInv DEF AppendEvent, TypeOK
<1> DEFINE Idle(w) == /\ at'[w] = "idle"
                      /\ \A v \in Workers \ {w} :
                           /\ at'[v] = at[v] /\ job'[v] = job[v]
                           /\ current'[v] = current[v]
                           /\ snapshot'[v] = snapshot[v]
<1>f. ASSUME NEW w \in Workers, Forget(w)
      PROVE  /\ Idle(w)
             /\ at' \in [Workers -> {"idle", "replay", "between", "delete",
                                 "saving"}]
             /\ job' \in [Workers -> Job \cup {None}]
             /\ current' \in [Workers -> Snapshot \cup {None}]
             /\ snapshot' \in [Workers -> Snapshot \cup {None}]
             /\ deleted' \in [Workers -> SUBSET Lots]
             /\ inserted' \in [Workers -> SUBSET Lots]
  BY <1>i, <1>f DEF Forget, TypeOK
<1>g. ASSUME NEW w \in Workers, Idle(w), UNCHANGED log PROVE CarriedSound'
  BY <1>i, <1>g, <1>s DEF CarriedSound
<1>3. ASSUME NEW w \in Workers, NEW h \in Households, Clear(w, h)
      PROVE  Inv'
  <2> DEFINE j == [household |-> h, as_of |-> 0]
             empty == [as_of |-> 0, counts |-> Nothing]
  <2>1. j \in Job /\ empty \in Snapshot
    BY DEF Job, Snapshot, Nothing, Counts, Time
  <2>2. j # None /\ empty # None /\ \A g : Sound(g, empty)
    BY <2>1 DEF Sound, Nothing
  <2>3. /\ job' = [job EXCEPT ![w] = j]
        /\ snapshot' = [snapshot EXCEPT ![w] = empty]
    BY <1>3 DEF Clear
  <2> HIDE DEF j, empty
  <2>4. TypeOK'
    BY <1>i, <1>3, <2>1, <2>3 DEF TypeOK, LogTypeOK, Clear, Goto, Stored
  <2>5. CarriedSound'
    BY <1>i, <1>3, <1>s, <2>2, <2>3 DEF CarriedSound, Clear, Goto, TypeOK
  <2> QED BY <1>3, <2>4, <2>5, CarryStep DEF Clear
<1>4. ASSUME NEW w \in Workers, NEW j \in Job, Advance(w, j) PROVE Inv'
  <2> DEFINE h == j.household
  <2>0. /\ h \in Households /\ j.as_of \in Time /\ j # None
        /\ UNCHANGED <<now, log, table, snapshot, target, deleted, inserted,
                       horizon, late>>
    BY <1>4 DEF Job, Advance
  <2>1. CASE UNCHANGED <<at, job, current>>
    <3>1. TypeOK'
      BY <1>i, <2>0, <2>1 DEF TypeOK, LogTypeOK
    <3>2. CarriedSound'
      BY <1>i, <1>s, <2>0, <2>1 DEF CarriedSound
    <3> QED BY <2>0, <3>1, <3>2, CarryStep
  <2>2. CASE Goto(w, "replay") /\ job' = [job EXCEPT ![w] = j] /\ UNCHANGED current
    <3>1. TypeOK'
      BY <1>i, <2>0, <2>2 DEF TypeOK, LogTypeOK, Goto
    <3>2. CarriedSound'
      BY <1>i, <1>s, <2>0, <2>2 DEF CarriedSound, Goto, TypeOK
    <3> QED BY <2>0, <3>1, <3>2, CarryStep
  <2>3. ASSUME NEW m \in AsOfs(h), \A t \in AsOfs(h) : t <= m,
               j.as_of >= m, Goto(w, "between"),
               job' = [job EXCEPT ![w] = j],
               current' = [current EXCEPT ![w] =
                 [as_of |-> m, counts |-> StoredCounts(h)]]
        PROVE  Inv'
    <3> DEFINE got == [as_of |-> m, counts |-> StoredCounts(h)]
    <3>1. m \in Time /\ got \in Snapshot /\ Sound(h, got)
      BY <2>0, <2>3, GetSound DEF Snapshot
    <3>2. m <= j.as_of
      BY <2>0, <2>3, <3>1 DEF Time
    <3>3. current' = [current EXCEPT ![w] = got]
      BY <2>3
    <3>4. got # None /\ got.as_of = m
      BY <3>1
    <3> HIDE DEF got
    <3>5. TypeOK'
      BY <1>i, <2>0, <2>3, <3>1, <3>3 DEF TypeOK, LogTypeOK, Goto
    <3>6. CarriedSound'
      BY <1>i, <1>s, <2>0, <2>3, <3>1, <3>2, <3>3, <3>4
      DEF CarriedSound, Goto, TypeOK
    <3> QED BY <2>0, <3>5, <3>6, CarryStep
  <2> QED BY <1>4, <2>1, <2>2, <2>3 DEF Advance
<1>c. ASSUME NEW w \in Workers, NEW j \in Job, NEW c \in Counts,
             Compute(w, j, c),
             Sound(j.household, [as_of |-> j.as_of, counts |-> c])
      PROVE  Inv'
  <2> DEFINE snap == [as_of |-> j.as_of, counts |-> c]
  <2>1. j.household \in Households /\ j.as_of \in Time /\ j # None
    BY <1>c DEF Job
  <2>2. snap \in Snapshot /\ snap # None
    BY <1>c, <2>1 DEF Snapshot
  <2>3. snapshot' = [snapshot EXCEPT ![w] = snap]
    BY <1>c DEF Compute
  <2>4. Sound(j.household, snap)
    BY <1>c
  <2> HIDE DEF snap
  <2>5. TypeOK'
    BY <1>i, <1>c, <2>1, <2>2, <2>3 DEF TypeOK, LogTypeOK, Compute, Goto
  <2>6. CarriedSound'
    BY <1>i, <1>c, <1>s, <2>1, <2>2, <2>3, <2>4
    DEF CarriedSound, Compute, Goto, TypeOK
  <2> QED BY <1>c, <2>5, <2>6, CarryStep DEF Compute
<1>5. ASSUME NEW w \in Workers, NEW j \in Job, Replay(w, j) PROVE Inv'
  BY <1>5, <1>c, ReplaySound DEF Replay
<1>6. ASSUME NEW w \in Workers, Between(w) PROVE Inv'
  <2>1. /\ current[w] \in Snapshot /\ job[w] \in Job /\ job[w].as_of \in Time
        /\ current[w].as_of <= job[w].as_of
        /\ Sound(job[w].household, current[w])
    BY <1>i, <1>6, <1>j DEF Between, CarriedSound, TypeOK
  <2> QED BY <1>i, <1>6, <1>c, <2>1, AdvanceSound DEF Between
<1>7. ASSUME NEW w \in Workers, DeleteStart(w) PROVE Inv'
  <2>1. TypeOK'
    BY <1>i, <1>7 DEF TypeOK, LogTypeOK, DeleteStart, Goto, Stored
  <2>2. CarriedSound'
    BY <1>i, <1>7, <1>s DEF CarriedSound, DeleteStart, Goto, TypeOK
  <2> QED BY <1>7, <2>1, <2>2, CarryStep DEF DeleteStart
<1>8. ASSUME NEW w \in Workers, NEW l \in Lots, DeleteRow(w, l) PROVE Inv'
  <2>1. TypeOK'
    BY <1>i, <1>8 DEF TypeOK, LogTypeOK, DeleteRow
  <2>2. CarriedSound'
    BY <1>i, <1>8, <1>s DEF CarriedSound, DeleteRow
  <2> QED BY <1>8, <2>1, <2>2, CarryStep DEF DeleteRow
<1>9. ASSUME NEW w \in Workers, NEW l \in Lots, InsertRow(w, l) PROVE Inv'
  <2>0. UNCHANGED <<now, log, table, target, horizon, late>>
    BY <1>9 DEF InsertRow
  <2>1. CASE Forget(w)
    <3>1. TypeOK'
      BY <1>i, <1>f, <2>0, <2>1 DEF TypeOK, LogTypeOK
    <3> QED BY <1>f, <1>g, <2>0, <2>1, <3>1, CarryStep
  <2>2. CASE /\ inserted' = [inserted EXCEPT ![w] = @ \cup {l}]
             /\ UNCHANGED <<at, job, current, snapshot, deleted>>
    <3>1. TypeOK'
      BY <1>i, <2>0, <2>2 DEF TypeOK, LogTypeOK
    <3>2. CarriedSound'
      BY <1>i, <1>s, <2>0, <2>2 DEF CarriedSound
    <3> QED BY <2>0, <3>1, <3>2, CarryStep
  <2> QED BY <1>9, <2>1, <2>2 DEF InsertRow
<1>10. ASSUME NEW w \in Workers, Commit(w) PROVE Inv'
  <2> DEFINE h == job[w].household
             mine == inserted[w]
             rows == [l \in Lots |->
                       IF l \in mine THEN RowFor(snapshot[w], l)
                       ELSE IF l \in deleted[w] THEN None ELSE table[h][l]]
  <2>0. h \in Households
    BY <1>10, <1>j DEF Commit
  <2>1. snapshot[w] \in Snapshot /\ Sound(h, snapshot[w])
    BY <1>i, <1>10 DEF Commit, CarriedSound, TypeOK
  <2>2. \A l \in Lots : /\ RowFor(snapshot[w], l) \in Snapshot
                        /\ RowFor(snapshot[w], l).as_of = snapshot[w].as_of
    BY <2>1 DEF RowFor, Snapshot, Counts
  <2>3. \A l \in Lots, k \in Keys :
          /\ RowFor(snapshot[w], l).counts[k] <= 1
          /\ RowFor(snapshot[w], l).counts[k] > 0 =>
               /\ k \in events_known_as_of(h, RowFor(snapshot[w], l).as_of)
               /\ log[k].lot = l
    BY <2>1 DEF RowFor, Sound
  <2>4. table' = [table EXCEPT ![h] = rows] /\ UNCHANGED log
    BY <1>10 DEF Commit
  <2>5. rows \in [Lots -> Snapshot \cup {None}]
    BY <1>i, <2>0, <2>2 DEF TypeOK
  <2>6. target' \in [Workers -> SUBSET Lots]
    BY <1>i, <1>10 DEF Commit, TypeOK
  <2>7. TypeOK'
    <3> HIDE DEF rows
    <3> QED BY <1>i, <1>10, <1>f, <2>0, <2>4, <2>5, <2>6
            DEF Commit, TypeOK, LogTypeOK
  <2>8. \A g \in Households, l \in Lots :
          \/ table'[g][l] = None
          \/ table'[g][l] = table[g][l]
          \/ g = h /\ table'[g][l] = RowFor(snapshot[w], l)
    BY <1>i, <2>0, <2>4 DEF TypeOK
  <2>10. NoDoubleCount'
    BY <1>i, <2>3, <2>8 DEF NoDoubleCount
  <2>11. NoLeak'
    <3> SUFFICES ASSUME NEW g \in Households, NEW l \in Lots,
                        table'[g][l] # None, NEW k \in Keys,
                        table'[g][l].counts[k] > 0
                 PROVE  /\ k \in events_known_as_of(g, table'[g][l].as_of)
                        /\ log[k].lot = l
      BY <2>4 DEF NoLeak, events_known_as_of, Committed
    <3>1. CASE table'[g][l] = table[g][l]
      BY <1>i, <3>1 DEF NoLeak, events_known_as_of, Committed
    <3>2. CASE g = h /\ table'[g][l] = RowFor(snapshot[w], l)
      BY <2>3, <3>2
    <3> QED BY <2>8, <3>1, <3>2
  <2>12. CarriedSound'
    BY <1>10, <1>f, <1>g, <2>4 DEF Commit
  <2> QED BY <2>7, <2>10, <2>11, <2>12 DEF Inv
<1>11. ASSUME NEW w \in Workers, Abort(w) PROVE Inv'
  <2>1. TypeOK'
    BY <1>i, <1>f, <1>11 DEF TypeOK, LogTypeOK, Abort
  <2>2. CarriedSound'
    BY <1>f, <1>g, <1>11 DEF Abort
  <2> QED BY <1>11, <2>1, <2>2, CarryStep DEF Abort
<1>12. ASSUME UNCHANGED vars PROVE Inv'
  <2>1. TypeOK'
    BY <1>i, <1>12 DEF TypeOK, LogTypeOK, vars, workVars
  <2>2. CarriedSound'
    BY <1>i, <1>s, <1>12 DEF CarriedSound, vars, workVars
  <2> QED BY <1>12, <2>1, <2>2, CarryStep DEF vars
<1> HIDE DEF Idle
<1> QED
  BY <1>1, <1>2, <1>3, <1>4, <1>5, <1>6, <1>7, <1>8, <1>9, <1>10, <1>11, <1>12, <1>j
  DEF Next, Work, Rebuild, RebuildInstead

(* The inductive invariant holds in every state the jobs reach. *)
THEOREM Invariance == Spec => []Inv
BY InitInv, InvStep, PTL DEF Spec

(* Every state of the jobs of InventorySnapshotRepository is well typed; in *)
(* particular no count is ever negative and no as_of lies outside the clock.*)
THEOREM TypeCorrect == Spec => []TypeOK
BY Invariance, PTL DEF Inv

(* Any number of concurrent rebuilds, advances and clears, interleaved with *)
(* late commits and rollbacks, store no event twice: advance folds from an  *)
(* as_of it read earlier, and what it carries stays sound.                  *)
THEOREM NothingTwice == Spec => []NoDoubleCount
BY Invariance, PTL DEF Inv

(* No job, whatever runs beside it, stores a row that counts an event that  *)
(* was not known, by both clocks, at the row's as_of.                       *)
THEOREM NothingLeaks == Spec => []NoLeak
BY Invariance, PTL DEF Inv

-----------------------------------------------------------------------------
(* CompleteButLate: no event is lost but those committed late.              *)

(* What two sets of rows both count, the rows in both count.                *)
LEMMA WholeMeet ==
  ASSUME NEW h, NEW S, NEW A, NEW B, Whole(h, S \ A), Whole(h, S \ B)
  PROVE  Whole(h, (S \ A) \ B)
BY DEF Whole

(* The part of CompleteInv that a step of the jobs leaves to show when it   *)
(* touches neither the log nor the table: that of the worker who took it.   *)
LEMMA WorkerStep ==
  ASSUME Inv, CompleteInv, NEW w \in Workers,
         UNCHANGED <<log, late, table>>,
         \A h \in Households : horizon[h] <= horizon'[h],
         horizon' \in [Households -> Time \cup {-1}],
         \A v \in Workers \ {w} :
           /\ at'[v] = at[v] /\ job'[v] = job[v] /\ current'[v] = current[v]
           /\ snapshot'[v] = snapshot[v] /\ target'[v] = target[v]
           /\ deleted'[v] = deleted[v] /\ inserted'[v] = inserted[v],
         WorkWhole(w)',
         \A v \in Workers : Beside(w, v)' => Apart(w, v)' /\ Apart(v, w)'
  PROVE  CompleteInv'
<1>i. TypeOK /\ CarriedSound /\ TableWhole
  BY DEF Inv, CompleteInv
<1>0. \A h \in Households : horizon[h] \in Int /\ horizon'[h] \in Int
  BY <1>i DEF TypeOK, Time
<1>1. \A h, t : Owed(h, t)' = Owed(h, t)
  BY DEF Owed, events_known_as_of, Committed
<1>2. \A h : Stored(h)' = Stored(h)
  BY DEF Stored
<1>3. \A h, S : Whole(h, S)' <=> Whole(h, S)
  BY <1>1 DEF Whole
<1>4. \A c : LotsOf(c)' = LotsOf(c)
  BY DEF LotsOf, Committed
<1>5. TableWhole'
  <2> SUFFICES ASSUME NEW h \in Households
               PROVE  /\ Whole(h, Stored(h))'
                      /\ \A l \in Stored(h) : table'[h][l].as_of <= horizon'[h]
    BY <1>2 DEF TableWhole
  <2>1. Whole(h, Stored(h))'
    BY <1>i, <1>2, <1>3 DEF TableWhole
  <2>2. \A l \in Stored(h) : table[h][l] \in Snapshot
    BY <1>i DEF TypeOK, Stored
  <2>3. \A l \in Stored(h) : table[h][l].as_of \in Int
    BY <2>2 DEF Snapshot, Time
  <2>4. \A l \in Stored(h) : table[h][l].as_of <= horizon[h]
    BY <1>i DEF TableWhole
  <2> QED BY <1>0, <2>1, <2>3, <2>4
<1>6. ASSUME NEW v \in Workers \ {w} PROVE WorkWhole(v)'
  <2>1. WorkWhole(v)
    BY DEF CompleteInv
  <2>2. at[v] # "idle" => job[v].household \in Households
    BY <1>i DEF TypeOK, CarriedSound, Job
  <2>3. at[v] \in {"delete", "saving"} =>
          snapshot[v].as_of \in Int
    BY <1>i DEF TypeOK, CarriedSound, Snapshot, Time
  <2>4. at[v] = "between" => current[v].as_of \in Int
    BY <1>i DEF TypeOK, CarriedSound, Snapshot, Time
  <2>5. at[v] \in {"delete", "saving"} =>
          Complete(job[v].household, snapshot[v])'
    BY <1>0, <1>1, <2>1, <2>2, <2>3 DEF WorkWhole, Complete
  <2>6. at[v] = "between" =>
          /\ current[v].as_of <= horizon'[job[v].household]
          /\ \A k \in Owed(job[v].household, current[v].as_of) :
               current[v].counts[k] = 1
    BY <1>0, <2>1, <2>2, <2>4 DEF WorkWhole
  <2> QED BY <1>1, <1>2, <1>3, <1>4, <2>1, <2>5, <2>6 DEF WorkWhole, Found
<1>7. ASSUME NEW v \in Workers, NEW u \in Workers, Beside(v, u)'
      PROVE  Apart(v, u)'
  <2>1. CASE v = w \/ u = w
    BY <1>7, <2>1 DEF Beside
  <2>2. CASE v # w /\ u # w
    <3>1. Apart(v, u)
      BY <1>7, <2>2 DEF Beside, CompleteInv
    <3> QED BY <1>4, <2>2, <3>1 DEF Apart
  <2> QED BY <2>1, <2>2
<1> QED BY <1>5, <1>6, <1>7 DEF CompleteInv

(* An append behind the horizon is late, so nothing owed there changes. *)
LEMMA OwedKept ==
  ASSUME Inv, NEW k \in Keys, NEW row \in EventRow, AppendEvent(k, row),
         NEW h \in Households, NEW t \in Time, t <= horizon[h]
  PROVE  Owed(h, t)' = Owed(h, t)
<1>1. /\ log[k] = None /\ log' = [log EXCEPT ![k] = row]
      /\ late' = IF row.recorded <= horizon[row.household]
                     /\ row.occurred <= horizon[row.household]
                 THEN late \cup {k} ELSE late
  BY DEF AppendEvent, Append
<1>2. log \in [Keys -> EventRow \cup {None}] /\ late \subseteq Keys
  BY DEF Inv, TypeOK, LogTypeOK
<1>3. /\ row.recorded \in Int /\ row.occurred \in Int /\ t \in Int
      /\ horizon[h] \in Int /\ row # None
  BY DEF EventRow, Time, Inv, TypeOK
<1>4. \A q \in Keys \ {k} : /\ log'[q] = log[q]
                            /\ q \in late' <=> q \in late
  BY <1>1, <1>2
<1>5. k \notin Owed(h, t)
  BY <1>1 DEF Owed, events_known_as_of, Committed
<1>6. k \notin Owed(h, t)'
  <2> SUFFICES ASSUME k \in events_known_as_of(h, t)' PROVE k \in late'
    BY DEF Owed
  <2>1. log'[k] = row
    BY <1>1, <1>2
  <2>2. row.household = h /\ row.recorded <= t /\ row.occurred <= t
    BY <2>1 DEF events_known_as_of
  <2> QED BY <1>1, <1>3, <2>2
<1>7. \A q \in Keys \ {k} : q \in Owed(h, t)' <=> q \in Owed(h, t)
  BY <1>4 DEF Owed, events_known_as_of, Committed
<1>8. Owed(h, t) \subseteq Keys /\ Owed(h, t)' \subseteq Keys
  BY DEF Owed, events_known_as_of, Committed
<1> QED BY <1>5, <1>6, <1>7, <1>8

(* An append, late or not, leaves stored rows and carried snapshots whole. *)
LEMMA AppendComplete ==
  ASSUME Inv, CompleteInv, NEW k \in Keys, NEW row \in EventRow,
         AppendEvent(k, row)
  PROVE  CompleteInv'
<1>i. TypeOK /\ CarriedSound /\ TableWhole
  BY DEF Inv, CompleteInv
<1>u. UNCHANGED <<table, at, job, current, snapshot, target, deleted, inserted,
                  horizon>>
  BY DEF AppendEvent, workVars
<1>1. \A q \in Committed : q \in Committed' /\ log'[q] = log[q]
  BY <1>i, AppendKeeps DEF AppendEvent, TypeOK
<1>2. \A h : Stored(h)' = Stored(h)
  BY <1>u DEF Stored
<1>3. \A h \in Households : \A l \in Stored(h) :
        table[h][l].as_of \in Time /\ table[h][l].as_of <= horizon[h]
  <2>1. \A h \in Households : \A l \in Stored(h) : table[h][l] \in Snapshot
    BY <1>i DEF TypeOK, Stored
  <2> QED BY <1>i, <2>1 DEF TableWhole, Snapshot
<1>4. ASSUME NEW h \in Households, NEW S \in SUBSET Stored(h), Whole(h, S)
      PROVE  Whole(h, S)'
  <2>1. \A l \in S : Owed(h, table[h][l].as_of)' = Owed(h, table[h][l].as_of)
    BY <1>u, <1>3, OwedKept
  <2>2. \A t : \A q \in Owed(h, t) : log'[q] = log[q]
    BY <1>1 DEF Owed, events_known_as_of
  <2> QED BY <1>u, <1>4, <2>1, <2>2 DEF Whole
<1>5. TableWhole'
  BY <1>i, <1>u, <1>2, <1>4 DEF TableWhole
<1>6. ASSUME NEW w \in Workers,
             at[w] \in {"delete", "saving"}
      PROVE  LotsOf(snapshot[w].counts)' = LotsOf(snapshot[w].counts)
  <2>1. Sound(job[w].household, snapshot[w]) /\ snapshot[w] \in Snapshot
    BY <1>i, <1>6 DEF CarriedSound, TypeOK
  <2>2. \A q \in Keys : snapshot[w].counts[q] > 0 => q \in Committed
    BY <2>1 DEF Sound, events_known_as_of
  <2>3. Committed \subseteq Keys /\ Committed' \subseteq Keys
    BY DEF Committed
  <2> QED BY <1>1, <1>u, <2>2, <2>3 DEF LotsOf
<1>7. ASSUME NEW w \in Workers PROVE WorkWhole(w)'
  <2> DEFINE h == job[w].household
  <2>1. WorkWhole(w)
    BY DEF CompleteInv
  <2>2. at[w] # "idle" => h \in Households
    BY <1>i DEF TypeOK, CarriedSound, Job
  <2>3. at[w] = "between" =>
          /\ current[w].as_of <= horizon[h]
          /\ \A q \in Owed(h, current[w].as_of)' : current[w].counts[q] = 1
    <3>1. at[w] = "between" => current[w].as_of \in Time
      BY <1>i DEF TypeOK, CarriedSound, Snapshot
    <3> QED BY <1>u, <2>1, <2>2, <3>1, OwedKept DEF WorkWhole
  <2>4. at[w] \in {"delete", "saving"} =>
          Complete(h, snapshot[w])'
    <3>1. at[w] \in {"delete", "saving"} =>
            snapshot[w].as_of \in Time
      BY <1>i DEF TypeOK, CarriedSound, Snapshot
    <3> QED BY <1>u, <2>1, <2>2, <3>1, OwedKept DEF WorkWhole, Complete
  <2>5. Found(w)' = Found(w)
    BY <1>u DEF Found
  <2>6. at[w] = "saving" => Whole(h, Stored(h) \ Found(w))'
    BY <1>u, <1>2, <1>4, <2>1, <2>2, <2>5 DEF WorkWhole
  <2> HIDE DEF h
  <2>7. h' = h
    BY <1>u DEF h
  <2> QED BY <1>u, <1>2, <1>6, <2>1, <2>3, <2>4, <2>5, <2>6, <2>7
          DEF WorkWhole, h
<1>8. \A w, v \in Workers : Beside(w, v)' => Apart(w, v)'
  BY <1>u, <1>6 DEF CompleteInv, Beside, Apart
<1> QED BY <1>5, <1>7, <1>8 DEF CompleteInv

(* get() returns a complete projection of the latest as_of it finds. *)
LEMMA GetComplete ==
  ASSUME Inv, CompleteInv, NEW h \in Households, NEW m \in AsOfs(h)
  PROVE  /\ m <= horizon[h]
         /\ \A k \in Owed(h, m) : StoredCounts(h)[k] = 1
<1>1. PICK l \in Stored(h) : table[h][l].as_of = m
  BY DEF AsOfs
<1>2. m <= horizon[h]
  BY <1>1 DEF CompleteInv, TableWhole
<1>3. ASSUME NEW k \in Owed(h, m) PROVE StoredCounts(h)[k] = 1
  <2>1. log[k].lot \in Stored(h) /\ table[h][log[k].lot].counts[k] = 1
    BY <1>1 DEF CompleteInv, TableWhole, Whole
  <2>2. k \in Keys /\ log[k] # None
    BY DEF Owed, events_known_as_of, Committed
  <2> QED BY <2>1, <2>2 DEF StoredCounts
<1> QED BY <1>2, <1>3

(* What rebuild and advance compute counts everything owed at its as_of. *)
LEMMA ComputeComplete ==
  ASSUME Inv, NEW h, NEW t \in Time, NEW snap \in Snapshot, snap.as_of <= t,
         Sound(h, snap),
         \A k \in Owed(h, snap.as_of) : snap.counts[k] = 1,
         NEW k \in Owed(h, t)
  PROVE  apply_events(snap.counts, events_known_between(h, snap.as_of, t))[k] = 1
<1> DEFINE new == events_known_between(h, snap.as_of, t)
<1> SUFFICES apply_events(snap.counts, new)[k] = 1
  OBVIOUS
<1>1. snap.as_of \in Time /\ snap.counts \in [Keys -> Nat] /\ LogTypeOK
  BY DEF Snapshot, Counts, Inv, TypeOK
<1>2. new = events_known_as_of(h, t) \ events_known_as_of(h, snap.as_of)
  BY <1>1, BetweenIsDifference
<1>3. k \in Keys /\ k \in events_known_as_of(h, t) /\ k \notin late
  BY DEF Owed, events_known_as_of, Committed
<1>4. apply_events(snap.counts, new)[k] = snap.counts[k] + (IF k \in new THEN 1 ELSE 0)
  BY <1>3 DEF apply_events
<1>5. snap.counts[k] \in Nat
  BY <1>1, <1>3
<1>6. CASE k \in events_known_as_of(h, snap.as_of)
  <2>1. k \in Owed(h, snap.as_of) /\ k \notin new
    BY <1>2, <1>3, <1>6 DEF Owed
  <2> HIDE DEF new
  <2> QED BY <1>4, <2>1
<1>7. CASE k \notin events_known_as_of(h, snap.as_of)
  <2>1. k \in new /\ ~(snap.counts[k] > 0)
    BY <1>2, <1>3, <1>7 DEF Sound
  <2> HIDE DEF new
  <2> QED BY <1>4, <1>5, <2>1
<1> QED BY <1>6, <1>7

(* A commit replaces what it deleted by rows that are whole in themselves.  *)
LEMMA CommitComplete ==
  ASSUME Inv, CompleteInv, Inv', NEW w \in Workers, Commit(w)
  PROVE  CompleteInv'
<1>i. TypeOK /\ CarriedSound /\ TableWhole /\ WorkWhole(w)
  BY DEF Inv, CompleteInv
<1>j. \A v \in Workers : at[v] # "idle" => /\ job[v] # None
                                          /\ job[v].household \in Households
  BY <1>i DEF TypeOK, CarriedSound, Job
<1>w. at[w] = "saving" /\ target[w] = {} /\ inserted[w] = LotsOf(snapshot[w].counts)
  BY <1>i DEF Commit, Remaining, WorkWhole
<1>p. PICK h \in Households, mine \in SUBSET Lots, D \in SUBSET Lots,
           S \in SUBSET Lots :
        /\ h = job[w].household /\ mine = LotsOf(snapshot[w].counts)
        /\ D = deleted[w] /\ S = Stored(h)
  BY <1>i, <1>j, <1>w DEF LotsOf, Stored, TypeOK
<1>u. /\ UNCHANGED <<now, log, horizon, late>> /\ at'[w] = "idle" /\ job[w] # None
      /\ deleted'[w] = {} /\ inserted'[w] = {} /\ target'[w] = {}
      /\ \A v \in Workers \ {w} :
           /\ at'[v] = at[v] /\ job'[v] = job[v] /\ current'[v] = current[v]
           /\ snapshot'[v] = snapshot[v] /\ deleted'[v] = deleted[v]
           /\ inserted'[v] = inserted[v]
           /\ target'[v] = IF v \in Others(w) THEN target[v] \ deleted[w]
                                              ELSE target[v]
  BY <1>i, <1>j, <1>w DEF Commit, Forget, TypeOK, Others
<1>s. /\ snapshot[w] \in Snapshot /\ Sound(h, snapshot[w])
      /\ Complete(h, snapshot[w])
  BY <1>i, <1>p, <1>w DEF CarriedSound, TypeOK, WorkWhole
<1>d. D \subseteq S /\ mine \cap S \subseteq D /\ Whole(h, S \ D)
  BY <1>i, <1>p, <1>w DEF WorkWhole, Found
<1>r. \A l \in Lots : /\ RowFor(snapshot[w], l) \in Snapshot
                      /\ RowFor(snapshot[w], l).as_of = snapshot[w].as_of
  BY <1>s DEF RowFor, Snapshot, Counts
<1>1. /\ \A g \in Households \ {h} : table'[g] = table[g]
      /\ \A l \in mine : table'[h][l] = RowFor(snapshot[w], l)
      /\ \A l \in Lots \ mine :
           table'[h][l] = IF l \in D THEN None ELSE table[h][l]
  <2>1. table' = [table EXCEPT ![h] = [l \in Lots |->
                    IF l \in mine THEN RowFor(snapshot[w], l)
                    ELSE IF l \in D THEN None ELSE table[h][l]]]
    BY <1>p, <1>w DEF Commit
  <2> QED BY <1>i, <1>p, <2>1 DEF TypeOK
<1>2. Stored(h)' = (S \ D) \cup mine
  BY <1>1, <1>p, <1>r DEF Stored
<1>3. \A g \in Households \ {h} : Stored(g)' = Stored(g)
  BY <1>1 DEF Stored
<1>4. \A g, t : Owed(g, t)' = Owed(g, t)
  BY <1>u DEF Owed, events_known_as_of, Committed
<1>5. \A c : LotsOf(c)' = LotsOf(c)
  BY <1>u DEF LotsOf, Committed
<1>6. \A g \in Households \ {h} : \A T : Whole(g, T) => Whole(g, T)'
  BY <1>1, <1>4, <1>u DEF Whole
<1>7. ASSUME NEW l \in mine, NEW k \in Owed(h, table'[h][l].as_of)
      PROVE  log[k].lot \in mine /\ table'[h][log[k].lot].counts[k] = 1
  <2>1. table'[h][l].as_of = snapshot[w].as_of
    BY <1>1, <1>r
  <2>2. \E q \in Keys : snapshot[w].counts[q] > 0
    BY <1>p DEF LotsOf, Committed
  <2>3. snapshot[w].counts[k] = 1
    BY <1>s, <1>7, <2>1, <2>2 DEF Complete
  <2>4. k \in Committed /\ k \in Keys /\ log[k] # None /\ log[k].lot \in Lots
    BY <1>i, <1>7 DEF Owed, events_known_as_of, Committed, TypeOK, LogTypeOK, EventRow
  <2>5. log[k].lot \in mine
    BY <1>p, <2>3, <2>4 DEF LotsOf
  <2>6. RowFor(snapshot[w], log[k].lot).counts[k] = 1
    BY <2>3, <2>4 DEF RowFor
  <2> QED BY <1>1, <2>5, <2>6
<1>8. ASSUME NEW T \in SUBSET (S \ D), Whole(h, T)
      PROVE  Whole(h, T \cup mine)'
  <2>1. \A l \in T : table'[h][l] = table[h][l]
    BY <1>1, <1>d
  <2>2. ASSUME NEW l \in T, NEW k \in Owed(h, table[h][l].as_of)
        PROVE  log[k].lot \in T /\ table[h][log[k].lot].counts[k] = 1
    BY <1>8, <2>2 DEF Whole
  <2>3. ASSUME NEW l \in T \cup mine, NEW k \in Owed(h, table'[h][l].as_of)
        PROVE  log[k].lot \in T \cup mine /\ table'[h][log[k].lot].counts[k] = 1
    <3>1. CASE l \in T
      BY <2>1, <2>2, <2>3, <3>1
    <3>2. CASE l \in mine
      BY <1>7, <2>3, <3>2
    <3> QED BY <3>1, <3>2
  <2> QED BY <1>4, <1>u, <2>3 DEF Whole
<1>9. TableWhole'
  <2>1. Whole(h, Stored(h))'
    BY <1>2, <1>8, <1>d
  <2>2. \A l \in Stored(h)' : table'[h][l].as_of <= horizon[h]
    <3>1. mine # {} => snapshot[w].as_of <= horizon[h]
      BY <1>p, <1>s DEF LotsOf, Committed, Complete
    <3>2. \A l \in S \ D : table'[h][l].as_of <= horizon[h]
      BY <1>1, <1>d, <1>i, <1>p DEF TableWhole
    <3> QED BY <1>1, <1>2, <1>r, <3>1, <3>2
  <2>3. \A g \in Households \ {h} :
          /\ Whole(g, Stored(g))'
          /\ \A l \in Stored(g)' : table'[g][l].as_of <= horizon[g]
    BY <1>1, <1>3, <1>6, <1>i DEF TableWhole
  <2> QED BY <1>u, <2>1, <2>2, <2>3 DEF TableWhole
<1>10. ASSUME NEW v \in Workers \ {w} PROVE WorkWhole(v)'
  <2>1. WorkWhole(v)
    BY DEF CompleteInv
  <2>2. /\ at[v] = "between" =>
             /\ current[v].as_of <= horizon[job[v].household]
             /\ \A k \in Owed(job[v].household, current[v].as_of) :
                  current[v].counts[k] = 1
        /\ at[v] \in {"delete", "saving"} =>
             Complete(job[v].household, snapshot[v])'
        /\ at[v] # "saving" => Found(v) \cup inserted[v] = {}
    BY <1>4, <1>u, <2>1 DEF WorkWhole, Complete
  <2>3. CASE at[v] = "idle" \/ job[v].household # h
    <3>1. at[v] # "idle" =>
            /\ job[v].household \in Households \ {h}
            /\ target'[v] = target[v]
      BY <1>j, <1>p, <1>u, <2>3 DEF Others
    <3>2. at[v] = "idle" => target'[v] = {} /\ deleted[v] = {} /\ inserted[v] = {}
      BY <1>u, <2>1 DEF WorkWhole, Found
    <3> QED BY <1>3, <1>4, <1>5, <1>6, <1>u, <2>1, <2>2, <3>1, <3>2
            DEF WorkWhole, Found
  <2>4. CASE at[v] # "idle" /\ job[v].household = h
    <3>1. v \in Others(w) /\ Beside(w, v)
      BY <1>j, <1>p, <1>w, <2>4 DEF Others, Beside
    <3>2. (D \cup mine) \cap (deleted[v] \cup inserted[v]) = {}
      BY <1>p, <1>w, <3>1 DEF CompleteInv, Apart
    <3>3. Found(v)' = Found(v) \ D
      BY <1>p, <1>u, <3>1, <3>2 DEF Found
    <3>4. ASSUME at[v] = "saving"
          PROVE  /\ Found(v)' \subseteq Stored(h)'
                 /\ Whole(h, Stored(h) \ Found(v))'
                 /\ inserted[v] \cap Stored(h)' \subseteq deleted[v]
      <4>1. /\ Found(v) \subseteq S /\ Whole(h, S \ Found(v))
            /\ inserted[v] \cap S \subseteq deleted[v]
        BY <1>p, <2>1, <2>4, <3>4 DEF WorkWhole
      <4>2. PICK T \in SUBSET (S \ D) : T = (S \ D) \ Found(v) /\ Whole(h, T)
        BY <1>d, <4>1, WholeMeet
      <4>3. Whole(h, T \cup mine)'
        BY <1>8, <4>2
      <4>4. Found(v)' \cap mine = {}
        BY <1>d, <3>3, <4>1
      <4>5. Stored(h)' \ Found(v)' = T \cup mine
        BY <1>2, <3>3, <4>2, <4>4
      <4>6. Found(v)' \subseteq Stored(h)'
        BY <1>2, <3>3, <4>1
      <4>7. inserted[v] \cap Stored(h)' \subseteq deleted[v]
        BY <1>2, <3>2, <4>1
      <4>8. Whole(h, Stored(h) \ Found(v))'
        BY <4>3, <4>5
      <4> QED BY <4>6, <4>7, <4>8
    <3>5. at[v] # "saving" => Found(v)' \cup inserted[v] = {}
      BY <2>2, <3>3
    <3>6. at[v] = "saving" => inserted[v] \subseteq LotsOf(snapshot[v].counts)
      BY <2>1 DEF WorkWhole
    <3> QED BY <1>4, <1>5, <1>u, <2>2, <2>4, <3>4, <3>5, <3>6 DEF WorkWhole
  <2> QED BY <2>3, <2>4
<1>11. WorkWhole(w)'
  BY <1>u DEF WorkWhole, Found
<1>12. ASSUME NEW v \in Workers, NEW x \in Workers, Beside(v, x)'
       PROVE  Apart(v, x)'
  <2>1. v # w /\ x # w
    BY <1>12, <1>u DEF Beside
  <2>2. Apart(v, x)
    BY <1>12, <1>u, <2>1 DEF Beside, CompleteInv
  <2> QED BY <1>5, <1>u, <2>1, <2>2 DEF Apart
<1> QED BY <1>9, <1>10, <1>11, <1>12 DEF CompleteInv

(* CompleteInv is inductive. *)
LEMMA CompleteStep == Inv /\ CompleteInv /\ [Next]_vars => CompleteInv'
<1> SUFFICES ASSUME Inv, CompleteInv, [Next]_vars PROVE CompleteInv'
  OBVIOUS
<1>i. TypeOK /\ CarriedSound /\ TableWhole /\ (\A w \in Workers : WorkWhole(w))
  BY DEF Inv, CompleteInv
<1>t. Inv'
  BY InvStep
<1>h. horizon' \in [Households -> Time \cup {-1}]
  BY <1>t DEF Inv, TypeOK
<1>j. \A w \in Workers : at[w] # "idle" =>
        /\ job[w] \in Job /\ job[w] # None
        /\ job[w].household \in Households /\ job[w].as_of \in Time
  BY <1>i DEF TypeOK, CarriedSound, Job
<1> DEFINE Alone(w) == \A v \in Workers \ {w} :
             /\ at'[v] = at[v] /\ job'[v] = job[v] /\ current'[v] = current[v]
             /\ snapshot'[v] = snapshot[v] /\ target'[v] = target[v]
             /\ deleted'[v] = deleted[v] /\ inserted'[v] = inserted[v]
<1>e. ASSUME NEW w \in Workers, Alone(w), UNCHANGED <<log, late, table, horizon>>,
             WorkWhole(w)', deleted'[w] = {}, inserted'[w] = {}
      PROVE  CompleteInv'
  <2>1. \A v \in Workers : Apart(w, v)' /\ Apart(v, w)'
    BY <1>e DEF Apart
  <2>2. \A g \in Households : horizon[g] <= horizon'[g]
    BY <1>e, <1>i DEF TypeOK, Time
  <2> QED BY <1>e, <1>h, <2>1, <2>2, WorkerStep
<1>n. \A w \in Workers : at[w] # "saving" =>
        target[w] = {} /\ deleted[w] = {} /\ inserted[w] = {}
  BY <1>i DEF WorkWhole, Found
<1>f. ASSUME NEW w \in Workers, Forget(w), target'[w] = {},
             \A v \in Workers \ {w} : target'[v] = target[v],
             UNCHANGED <<log, late, table, horizon>>
      PROVE  CompleteInv'
  <2>1. Alone(w) /\ deleted'[w] = {} /\ inserted'[w] = {} /\ at'[w] = "idle"
    BY <1>f, <1>i DEF Forget, TypeOK
  <2>2. WorkWhole(w)'
    BY <1>f, <2>1 DEF WorkWhole, Found
  <2> HIDE DEF Alone
  <2> QED BY <1>e, <1>f, <2>1, <2>2
<1>1. ASSUME (Tick /\ UNCHANGED <<table, workVars, horizon, late>>) \/ UNCHANGED vars
      PROVE  CompleteInv'
  <2>1. UNCHANGED <<log, late, table, horizon, at, job, current, snapshot, target, deleted,
                  inserted>>
    BY <1>1 DEF Tick, workVars, vars
  <2>2. \A g, t : Owed(g, t)' = Owed(g, t)
    BY <2>1 DEF Owed, events_known_as_of, Committed
  <2>3. (\A g : Stored(g)' = Stored(g)) /\ (\A c : LotsOf(c)' = LotsOf(c))
    BY <2>1 DEF Stored, LotsOf, Committed
  <2>4. /\ \A g, S : Whole(g, S)' <=> Whole(g, S)
        /\ \A g, c : Complete(g, c)' <=> Complete(g, c)
    BY <2>1, <2>2 DEF Whole, Complete
  <2>5. TableWhole'
    BY <1>i, <2>1, <2>3, <2>4 DEF TableWhole
  <2>6. \A w \in Workers : WorkWhole(w)'
    BY <1>i, <2>1, <2>2, <2>3, <2>4 DEF WorkWhole, Found
  <2>7. \A w, v \in Workers : Beside(w, v)' => Apart(w, v)'
    BY <2>1, <2>3 DEF CompleteInv, Beside, Apart
  <2> QED BY <2>5, <2>6, <2>7 DEF CompleteInv
<1>2. ASSUME NEW k \in Keys, NEW row \in EventRow, AppendEvent(k, row)
      PROVE  CompleteInv'
  BY <1>2, AppendComplete
<1>d. ASSUME NEW w \in Workers, Alone(w), UNCHANGED <<log, late, table, horizon>>,
             at'[w] = "saving", deleted'[w] = {}, inserted'[w] = {},
             target'[w] = Stored(job'[w].household),
             Complete(job[w].household, snapshot[w])'
      PROVE  CompleteInv'
  <2>1. Found(w)' = Stored(job[w].household)'
    BY <1>d DEF Found, Stored
  <2>2. WorkWhole(w)'
    BY <1>d, <2>1 DEF WorkWhole, Whole
  <2> HIDE DEF Alone
  <2> QED BY <1>d, <1>e, <2>2
<1>3. ASSUME NEW w \in Workers, NEW h \in Households, Clear(w, h)
      PROVE  CompleteInv'
  <2>1. /\ Alone(w) /\ UNCHANGED <<log, late, table, horizon>>
        /\ deleted'[w] = {} /\ inserted'[w] = {} /\ at'[w] = "saving"
        /\ target'[w] = Stored(h) /\ job'[w] = [household |-> h, as_of |-> 0]
        /\ snapshot'[w] = [as_of |-> 0, counts |-> Nothing]
    BY <1>3, <1>i, <1>n DEF Clear, Goto, TypeOK
  <2>2. \A k \in Keys : ~(snapshot'[w].counts[k] > 0)
    BY <2>1 DEF Nothing
  <2>3. Complete(job[w].household, snapshot[w])'
    BY <2>2 DEF Complete
  <2> HIDE DEF Alone
  <2> QED BY <1>d, <2>1, <2>3
<1>4. ASSUME NEW w \in Workers, NEW j \in Job, Advance(w, j) PROVE CompleteInv'
  <2>0. /\ j.household \in Households
        /\ target[w] = {} /\ deleted[w] = {} /\ inserted[w] = {}
        /\ UNCHANGED <<log, late, table, horizon, snapshot, target, deleted,
                       inserted>>
    BY <1>4, <1>n DEF Advance, Job
  <2>1. CASE UNCHANGED <<at, job, current>>
    <3>1. Alone(w) /\ at'[w] = "idle"
      BY <1>4, <2>0, <2>1 DEF Advance
    <3>2. WorkWhole(w)'
      BY <2>0, <3>1 DEF WorkWhole, Found
    <3> HIDE DEF Alone
    <3> QED BY <1>e, <2>0, <3>1, <3>2
  <2>2. CASE Goto(w, "replay") /\ job' = [job EXCEPT ![w] = j] /\ UNCHANGED current
    <3>1. Alone(w) /\ at'[w] = "replay"
      BY <1>i, <2>0, <2>2 DEF Goto, TypeOK
    <3>2. WorkWhole(w)'
      BY <2>0, <3>1 DEF WorkWhole, Found
    <3> HIDE DEF Alone
    <3> QED BY <1>e, <2>0, <3>1, <3>2
  <2>3. ASSUME NEW m \in AsOfs(j.household), Goto(w, "between"),
               job' = [job EXCEPT ![w] = j],
               current' = [current EXCEPT ![w] =
                 [as_of |-> m, counts |-> StoredCounts(j.household)]]
        PROVE  CompleteInv'
    <3>1. Alone(w) /\ at'[w] = "between" /\ job'[w] = j
      BY <1>i, <2>0, <2>3 DEF Goto, TypeOK
    <3>2. current'[w] = [as_of |-> m, counts |-> StoredCounts(j.household)]
      BY <1>i, <2>3 DEF TypeOK
    <3>3. /\ m <= horizon[j.household]
          /\ \A k \in Owed(j.household, m) : StoredCounts(j.household)[k] = 1
      BY <2>0, GetComplete
    <3>4. \A g, t : Owed(g, t)' = Owed(g, t)
      BY <2>0 DEF Owed, events_known_as_of, Committed
    <3>5. WorkWhole(w)'
      BY <2>0, <3>1, <3>2, <3>3, <3>4 DEF WorkWhole, Found
    <3> HIDE DEF Alone
    <3> QED BY <1>e, <2>0, <3>1, <3>5
  <2> QED BY <1>4, <2>1, <2>2, <2>3 DEF Advance
<1>c. ASSUME NEW w \in Workers, NEW j \in Job, NEW counts, Compute(w, j, counts),
             at[w] # "saving",
             \A k \in Owed(j.household, j.as_of) : counts[k] = 1
      PROVE  CompleteInv'
  <2> DEFINE snap == [as_of |-> j.as_of, counts |-> counts]
  <2>0. j.household \in Households /\ j.as_of \in Time
    BY <1>c DEF Job
  <2>1. /\ Alone(w) /\ at'[w] = "delete" /\ job'[w] = j
        /\ target'[w] = {} /\ deleted'[w] = {} /\ inserted'[w] = {}
        /\ snapshot'[w] = snap /\ UNCHANGED <<log, late, table>>
    BY <1>c, <1>i, <1>n DEF Compute, Goto, TypeOK
  <2>2. /\ \A g \in Households : horizon[g] <= horizon'[g]
        /\ j.as_of <= horizon'[j.household]
    <3>1. \A g \in Households : horizon[g] \in Int
      BY <1>i DEF TypeOK, Time
    <3>2. j.as_of \in Int
      BY <2>0 DEF Time
    <3>3. horizon' = [horizon EXCEPT ![j.household] =
                        IF @ < j.as_of THEN j.as_of ELSE @]
      BY <1>c DEF Compute
    <3> QED BY <1>i, <2>0, <3>1, <3>2, <3>3 DEF TypeOK
  <2>3. \A g, t : Owed(g, t)' = Owed(g, t)
    BY <2>1 DEF Owed, events_known_as_of, Committed
  <2>4. Complete(job[w].household, snapshot[w])'
    BY <1>c, <2>1, <2>2, <2>3 DEF Complete
  <2>5. WorkWhole(w)'
    BY <2>1, <2>4 DEF WorkWhole, Found
  <2>6. \A v \in Workers : Apart(w, v)' /\ Apart(v, w)'
    BY <2>1 DEF Apart
  <2> QED BY <1>h, <2>1, <2>2, <2>5, <2>6, WorkerStep
<1>6. ASSUME NEW w \in Workers, NEW j \in Job, Replay(w, j), at[w] # "saving"
      PROVE  CompleteInv'
  <2>1. \A k \in Owed(j.household, j.as_of) :
          apply_events(Nothing, events_known_as_of(j.household, j.as_of))[k] = 1
    BY DEF apply_events, Nothing, Owed, events_known_as_of, Committed
  <2> QED BY <1>6, <1>c, <2>1 DEF Replay
<1>7. ASSUME NEW w \in Workers, Between(w) PROVE CompleteInv'
  <2>1. /\ current[w] \in Snapshot /\ job[w] \in Job /\ job[w].as_of \in Time
        /\ current[w].as_of <= job[w].as_of
        /\ Sound(job[w].household, current[w])
        /\ \A k \in Owed(job[w].household, current[w].as_of) :
             current[w].counts[k] = 1
    BY <1>i, <1>j, <1>7 DEF Between, CarriedSound, TypeOK, WorkWhole
  <2> QED BY <1>7, <1>c, <2>1, ComputeComplete DEF Between
<1>k. ASSUME NEW w \in Workers, at[w] \in {"delete", "saving"},
             UNCHANGED <<log, late, table, horizon, job, snapshot>>
      PROVE  Complete(job[w].household, snapshot[w])'
  <2>1. Complete(job[w].household, snapshot[w])
    BY <1>i, <1>k DEF WorkWhole
  <2>2. \A g, t : Owed(g, t)' = Owed(g, t)
    BY <1>k DEF Owed, events_known_as_of, Committed
  <2> QED BY <1>k, <2>1, <2>2 DEF Complete
<1>8. ASSUME NEW w \in Workers, DeleteStart(w) PROVE CompleteInv'
  <2>1. /\ Alone(w) /\ at[w] = "delete" /\ at'[w] = "saving"
        /\ deleted'[w] = {} /\ inserted'[w] = {}
        /\ target'[w] = Stored(job'[w].household)
        /\ UNCHANGED <<log, late, table, horizon, job, snapshot>>
    BY <1>8, <1>i, <1>n DEF DeleteStart, Goto, TypeOK
  <2> HIDE DEF Alone
  <2> QED BY <1>d, <1>k, <2>1
<1>s. ASSUME NEW w \in Workers, Alone(w), at[w] = "saving", at'[w] = "saving",
             UNCHANGED <<log, late, table, horizon, job, snapshot>>,
             Found(w)' = Found(w),
             inserted'[w] \subseteq LotsOf(snapshot[w].counts),
             inserted'[w] \cap Stored(job[w].household) \subseteq deleted'[w],
             \A v \in Others(w) : at[v] # "idle" => Apart(w, v)'
      PROVE  CompleteInv'
  <2>1. /\ \A g : Stored(g)' = Stored(g)
        /\ \A c : LotsOf(c)' = LotsOf(c)
    BY <1>s DEF Stored, LotsOf, Committed
  <2>2. /\ Found(w) \subseteq Stored(job[w].household)
        /\ Whole(job[w].household, Stored(job[w].household) \ Found(w))
    BY <1>i, <1>s DEF WorkWhole
  <2>3. Whole(job[w].household, Stored(job[w].household) \ Found(w))'
    BY <1>s, <2>1, <2>2 DEF Whole, Owed, events_known_as_of, Committed
  <2>4. Complete(job[w].household, snapshot[w])'
    BY <1>k, <1>s
  <2>5. WorkWhole(w)'
    BY <1>s, <2>1, <2>2, <2>3, <2>4 DEF WorkWhole
  <2>6. ASSUME NEW v \in Workers, Beside(w, v)' PROVE Apart(w, v)' /\ Apart(v, w)'
    <3>1. v # w /\ at[v] # "idle" /\ job[v].household = job[w].household
      BY <1>s, <2>6 DEF Beside
    <3>2. v \in Others(w)
      BY <1>j, <3>1 DEF Others
    <3>3. Apart(w, v)'
      BY <1>s, <3>1, <3>2
    <3> QED BY <3>3 DEF Apart
  <2>7. \A g \in Households : horizon[g] <= horizon'[g]
    BY <1>i, <1>s DEF TypeOK, Time
  <2> QED BY <1>h, <1>s, <2>5, <2>6, <2>7, WorkerStep
<1>a. \A w \in Workers : \A v \in Others(w) :
        at[w] = "saving" /\ at[v] # "idle" => v # w /\ v \in Workers /\ Apart(w, v)
  BY DEF CompleteInv, Beside, Others
<1>9. ASSUME NEW w \in Workers, NEW l \in Lots, DeleteRow(w, l) PROVE CompleteInv'
  <2>1. /\ Alone(w) /\ at[w] = "saving" /\ at'[w] = "saving" /\ l \in target[w]
        /\ target'[w] = target[w] \ {l} /\ deleted'[w] = deleted[w] \cup {l}
        /\ inserted'[w] = inserted[w]
        /\ UNCHANGED <<log, late, table, horizon, job, snapshot>>
    BY <1>9, <1>i DEF DeleteRow, TypeOK
  <2>2. Found(w)' = Found(w)
    BY <2>1 DEF Found
  <2>3. /\ l \in Stored(job[w].household)
        /\ inserted[w] \subseteq LotsOf(snapshot[w].counts)
        /\ inserted[w] \cap Stored(job[w].household) \subseteq deleted[w]
    BY <1>i, <2>1 DEF WorkWhole, Found
  <2>4. ASSUME NEW v \in Others(w), at[v] # "idle" PROVE Apart(w, v)'
    <3>1. v # w /\ v \in Workers /\ Apart(w, v)
      BY <1>a, <2>1, <2>4
    <3>2. deleted'[v] = deleted[v] /\ inserted'[v] = inserted[v]
      BY <2>1, <3>1
    <3>3. l \notin deleted[v]
      BY <1>9 DEF DeleteRow
    <3>4. l \notin inserted[v]
      <4>1. at[v] # "saving" => inserted[v] = {}
        BY <1>n, <3>1
      <4>2. at[v] = "saving" =>
              inserted[v] \cap Stored(job[v].household) \subseteq deleted[v]
        BY <1>i, <3>1 DEF WorkWhole
      <4>3. job[v].household = job[w].household
        BY DEF Others
      <4> QED BY <2>3, <3>3, <4>1, <4>2, <4>3
    <3> QED BY <2>1, <3>1, <3>2, <3>3, <3>4 DEF Apart
  <2> HIDE DEF Alone
  <2> QED BY <1>s, <2>1, <2>2, <2>3, <2>4
<1>10. ASSUME NEW w \in Workers, NEW l \in Lots, InsertRow(w, l) PROVE CompleteInv'
  <2>0. /\ at[w] = "saving" /\ target[w] = {} /\ target' = target
        /\ l \in LotsOf(snapshot[w].counts)
        /\ UNCHANGED <<log, late, table, horizon>>
    BY <1>10 DEF InsertRow, NextLot, Remaining
  <2>1. CASE Forget(w)
    BY <1>f, <2>0, <2>1
  <2>2. CASE /\ l \notin Stored(job[w].household) \ deleted[w]
             /\ inserted' = [inserted EXCEPT ![w] = @ \cup {l}]
             /\ UNCHANGED <<at, job, current, snapshot, deleted>>
    <3>1. Alone(w) /\ inserted'[w] = inserted[w] \cup {l} /\ Found(w)' = Found(w)
      BY <1>i, <2>0, <2>2 DEF TypeOK, Found
    <3>2. /\ inserted'[w] \subseteq LotsOf(snapshot[w].counts)
          /\ inserted'[w] \cap Stored(job[w].household) \subseteq deleted'[w]
      BY <1>i, <2>0, <2>2, <3>1 DEF WorkWhole
    <3>3. ASSUME NEW v \in Others(w), at[v] # "idle" PROVE Apart(w, v)'
      <4>1. v # w /\ v \in Workers /\ Apart(w, v)
        BY <1>a, <2>0, <3>3
      <4>2. inserted'[v] = inserted[v] /\ l \notin deleted[v] \cup inserted[v]
        BY <1>10, <3>1, <4>1 DEF InsertRow
      <4> QED BY <2>2, <3>1, <4>1, <4>2 DEF Apart
    <3> HIDE DEF Alone
    <3> QED BY <1>s, <2>0, <2>2, <3>1, <3>2, <3>3
  <2> QED BY <1>10, <2>1, <2>2 DEF InsertRow
<1>11. ASSUME NEW w \in Workers, Commit(w) PROVE CompleteInv'
  BY <1>11, <1>t, CommitComplete
<1>12. ASSUME NEW w \in Workers, Abort(w) PROVE CompleteInv'
  <2>1. /\ Forget(w) /\ target'[w] = {}
        /\ \A v \in Workers \ {w} : target'[v] = target[v]
        /\ UNCHANGED <<log, late, table, horizon>>
    BY <1>12, <1>i DEF Abort, TypeOK
  <2> QED BY <1>f, <2>1
<1> HIDE DEF Alone
<1> QED
  BY <1>1, <1>2, <1>3, <1>4, <1>6, <1>7, <1>8, <1>9, <1>10, <1>11, <1>12, <1>j
  DEF Next, Work, Rebuild, RebuildInstead

(* CompleteInv holds in every reachable state. *)
LEMMA CompleteHolds == Spec => [](Inv /\ CompleteInv)
<1>1. Init => CompleteInv
  BY DEF Init, CompleteInv, TableWhole, Whole, WorkWhole, Found, Stored, Beside
<1> QED BY <1>1, CompleteStep, Invariance, PTL DEF Spec

(* A stored projection lacks no event it could have known but those whose   *)
(* transaction committed behind a read: no order of rebuilds, advances,     *)
(* clears, rollbacks and lock waits, of any number of workers, loses one.   *)
THEOREM NothingLost == Spec => []CompleteButLate
<1>1. Inv /\ CompleteInv => CompleteButLate
  BY GetComplete DEF CompleteButLate, Owed
<1> QED BY <1>1, CompleteHolds, PTL

(* What advance computes counts every event that was not committed late as  *)
(* often as a replay at the same moment does: the equivalence its docstring *)
(* claims, with the one exception it has.                                   *)
THEOREM AdvanceIsReplay == Spec => AdvanceButLate
<1>1. ASSUME Inv, CompleteInv, NEW w \in Workers, Between(w),
             NEW k \in Keys \ late
      PROVE  snapshot'[w].counts[k] = apply_events(Nothing,
               events_known_as_of(job[w].household, job[w].as_of))[k]
  <2> DEFINE h == job[w].household
             t == job[w].as_of
             snap == current[w]
             new == apply_events(snap.counts,
                                 events_known_between(h, snap.as_of, t))
  <2>1. at[w] = "between" /\ snapshot'[w].counts = new
    BY <1>1 DEF Between, Compute, Inv, TypeOK
  <2>2. /\ snap \in Snapshot /\ t \in Time /\ snap.as_of <= t /\ Sound(h, snap)
        /\ \A q \in Owed(h, snap.as_of) : snap.counts[q] = 1
    BY <1>1, <2>1 DEF Inv, TypeOK, CarriedSound, CompleteInv, WorkWhole, Job
  <2>3. apply_events(Nothing, events_known_as_of(h, t))[k] =
          IF k \in events_known_as_of(h, t) THEN 1 ELSE 0
    BY DEF apply_events, Nothing
  <2> HIDE DEF h, t, snap
  <2>4. CASE k \in events_known_as_of(h, t)
    <3>1. k \in Owed(h, t)
      BY <2>4 DEF Owed
    <3>2. new[k] = 1
      BY <1>1, <2>2, <3>1, ComputeComplete
    <3> HIDE DEF new
    <3> QED BY <2>1, <2>3, <2>4, <3>2 DEF h, t
  <2>5. CASE k \notin events_known_as_of(h, t)
    <3>1. new \in Counts /\ Sound(h, [as_of |-> t, counts |-> new])
      BY <1>1, <2>2, AdvanceSound DEF Inv, TypeOK
    <3> HIDE DEF new
    <3>2. new[k] \in Nat /\ ~(new[k] > 0)
      BY <2>5, <3>1 DEF Sound, Counts
    <3>3. new[k] = 0
      BY <3>2
    <3> QED BY <2>1, <2>3, <2>5, <3>3 DEF h, t
  <2> QED BY <2>4, <2>5
<1> DEFINE A == \A w \in Workers :
       Between(w) => \A k \in Keys \ late :
         snapshot'[w].counts[k] = apply_events(Nothing,
           events_known_as_of(job[w].household, job[w].as_of))[k]
<1>2. Inv /\ CompleteInv => [A]_vars
  BY <1>1
<1> HIDE DEF A
<1>3. Spec => [][A]_vars
  BY <1>2, CompleteHolds, PTL
<1> QED BY <1>3 DEF AdvanceButLate, A

-----------------------------------------------------------------------------
(* NoInsertRing: inserts alone do not wait for each other in a ring.        *)

(* InOrder is inductive: a save inserts the least lot it has left, and an   *)
(* event that is committed meanwhile is not in its snapshot.                *)
LEMMA InOrderStep == Inv /\ CompleteInv /\ InOrder /\ [Next]_vars => InOrder'
<1> SUFFICES ASSUME Inv, CompleteInv, InOrder, [Next]_vars PROVE InOrder'
  OBVIOUS
<1>i. TypeOK /\ CarriedSound
  BY DEF Inv
<1>l. \A w \in Workers : inserted[w] \subseteq Lots /\ Remaining(w) \subseteq Lots
  BY <1>i DEF TypeOK, Remaining, LotsOf
<1>1. ASSUME NEW w \in Workers,
             \A v \in Workers \ {w} : /\ at'[v] = at[v]
                                      /\ snapshot'[v] = snapshot[v]
                                      /\ inserted'[v] = inserted[v],
             UNCHANGED log,
             at'[w] = "saving" =>
               \A l \in inserted'[w], m \in Remaining(w)' : l < m
      PROVE  InOrder'
  <2>1. \A v \in Workers \ {w} : Remaining(v)' = Remaining(v)
    BY <1>1 DEF Remaining, LotsOf, Committed
  <2> QED BY <1>1, <2>1 DEF InOrder
<1>2. ASSUME UNCHANGED <<at, snapshot, inserted, log>> PROVE InOrder'
  BY <1>2 DEF InOrder, Remaining, LotsOf, Committed
<1>3. ASSUME NEW k \in Keys, NEW row \in EventRow, AppendEvent(k, row)
      PROVE  InOrder'
  <2>1. UNCHANGED <<at, job, snapshot, inserted>>
    BY <1>3 DEF AppendEvent, workVars
  <2>2. \A q \in Committed : q \in Committed' /\ log'[q] = log[q]
    BY <1>i, <1>3, AppendKeeps DEF AppendEvent, TypeOK
  <2>3. ASSUME NEW w \in Workers, at[w] = "saving"
        PROVE  Remaining(w)' = Remaining(w)
    <3>1. Sound(job[w].household, snapshot[w])
      BY <1>i, <2>3 DEF CarriedSound
    <3>2. \A q \in Keys : snapshot[w].counts[q] > 0 => q \in Committed
      BY <3>1 DEF Sound, events_known_as_of
    <3>3. Committed \subseteq Keys /\ Committed' \subseteq Keys
      BY DEF Committed
    <3>4. LotsOf(snapshot[w].counts)' = LotsOf(snapshot[w].counts)
      BY <2>1, <2>2, <3>2, <3>3 DEF LotsOf
    <3> QED BY <2>1, <3>4 DEF Remaining
  <2> QED BY <2>1, <2>3 DEF InOrder
<1>f. ASSUME NEW w \in Workers, Forget(w), UNCHANGED log PROVE InOrder'
  <2>1. /\ at'[w] = "idle"
        /\ \A v \in Workers \ {w} : /\ at'[v] = at[v]
                                    /\ snapshot'[v] = snapshot[v]
                                    /\ inserted'[v] = inserted[v]
    BY <1>f, <1>i DEF Forget, TypeOK
  <2> QED BY <1>1, <1>f, <2>1
<1>4. ASSUME NEW w \in Workers,
             \/ \E h \in Households : Clear(w, h)
             \/ \E j \in Job : Rebuild(w, j) \/ Advance(w, j)
             \/ RebuildInstead(w) \/ Between(w) \/ DeleteStart(w)
      PROVE  InOrder'
  <2>1. inserted[w] = {}
    BY <1>4 DEF CompleteInv, WorkWhole, Clear, Rebuild, Advance, RebuildInstead,
                Between, DeleteStart
  <2>2. /\ UNCHANGED <<log, inserted>>
        /\ \A v \in Workers \ {w} : at'[v] = at[v] /\ snapshot'[v] = snapshot[v]
    BY <1>4, <1>i DEF Clear, Rebuild, Advance, RebuildInstead, Replay, Between,
                      Compute, DeleteStart, Goto, TypeOK
  <2> QED BY <1>1, <2>1, <2>2
<1>5. ASSUME NEW w \in Workers, NEW l \in Lots, DeleteRow(w, l) PROVE InOrder'
  BY <1>2, <1>5 DEF DeleteRow
<1>6. ASSUME NEW w \in Workers, NEW l \in Lots, InsertRow(w, l) PROVE InOrder'
  <2>0. UNCHANGED log
    BY <1>6 DEF InsertRow
  <2>1. CASE Forget(w)
    BY <1>f, <2>0, <2>1
  <2>2. CASE /\ inserted' = [inserted EXCEPT ![w] = @ \cup {l}]
             /\ UNCHANGED <<at, snapshot>>
    <3>1. /\ inserted'[w] = inserted[w] \cup {l}
          /\ \A v \in Workers \ {w} : inserted'[v] = inserted[v]
      BY <1>i, <2>2 DEF TypeOK
    <3>2. Remaining(w)' = Remaining(w) \ {l}
      BY <2>0, <2>2, <3>1 DEF Remaining, LotsOf, Committed
    <3>3. /\ at[w] = "saving" /\ l \in Remaining(w)
          /\ \A m \in Remaining(w) : l <= m
      BY <1>6 DEF InsertRow, NextLot
    <3>4. \A x \in inserted[w], m \in Remaining(w) : x < m
      BY <3>3 DEF InOrder
    <3>5. \A m \in Remaining(w) \ {l} : l < m
      BY LotsAssumption, <1>l, <3>3
    <3>6. \A x \in inserted'[w], m \in Remaining(w)' : x < m
      BY <3>1, <3>2, <3>4, <3>5
    <3> QED BY <1>1, <2>0, <2>2, <3>1, <3>6
  <2> QED BY <1>6, <2>1, <2>2 DEF InsertRow
<1>7. ASSUME NEW w \in Workers, Commit(w) \/ Abort(w) PROVE InOrder'
  BY <1>7, <1>f DEF Commit, Abort
<1>8. ASSUME UNCHANGED vars \/ (Tick /\ UNCHANGED <<table, workVars, horizon, late>>)
      PROVE  InOrder'
  BY <1>2, <1>8 DEF vars, workVars, Tick
<1> QED
  BY <1>3, <1>4, <1>5, <1>6, <1>7, <1>8 DEF Next, Work

(* Of the jobs in a ring of inserts, take one whose next lot comes first:   *)
(* whoever waits for it waits for a lot that it inserted before that.       *)
LEMMA InOrderNoRing ==
  ASSUME InOrder, NEW R \in SUBSET Workers, Ring(R)
  PROVE  \E w, v \in R : BehindDelete(w, v)
<1> SUFFICES ASSUME \A w, v \in R : ~BehindDelete(w, v) PROVE FALSE
  OBVIOUS
<1>1. \A w \in R : /\ \E v \in R : BehindInsert(w, v)
                   /\ \E v \in R : BehindInsert(v, w)
  BY DEF Ring, WaitsFor
<1> DEFINE heads == UNION {NextLot(w) : w \in R}
<1>2. heads \in SUBSET Nat
  BY LotsAssumption DEF NextLot, Remaining, LotsOf
<1>3. heads # {}
  <2>1. PICK w \in R : TRUE
    BY DEF Ring
  <2>2. NextLot(w) # {}
    BY <1>1, <2>1 DEF BehindInsert
  <2> QED BY <2>2
<1>4. PICK x \in heads : \A y \in heads : ~ (<<y, x>> \in OpToRel(<, Nat))
  <2> HIDE DEF heads
  <2> QED BY <1>2, <1>3, NatLessThanWellFounded, WFMin
<1>5. \A y \in heads : ~ (y < x)
  <2> HIDE DEF heads
  <2> QED BY <1>2, <1>4 DEF OpToRel
<1>6. PICK w \in R : x \in NextLot(w)
  OBVIOUS
<1>7. PICK v \in R : BehindInsert(v, w)
  BY <1>1
<1>8. PICK y \in NextLot(v) : y \in inserted[w]
  BY <1>7 DEF BehindInsert
<1>9. at[w] = "saving" /\ w \in Workers
  BY <1>1 DEF BehindInsert
<1>10. y < x
  BY <1>6, <1>8, <1>9 DEF InOrder, NextLot
<1> QED BY <1>5, <1>8, <1>10

(* However many jobs save the projection of a household at once, and        *)
(* whatever lots they save, their INSERTs alone never wait for each other   *)
(* in a ring: save writes its lots in the order in which they are sorted,   *)
(* so every ring that Postgres has to break runs through a DELETE.          *)
THEOREM InsertsFormNoRing == Spec => []NoInsertRing
<1>1. Init => InOrder
  BY DEF Init, InOrder
<1>2. InOrder => NoInsertRing
  BY InOrderNoRing DEF NoInsertRing
<1> QED BY <1>1, <1>2, InOrderStep, CompleteHolds, PTL DEF Spec
=============================================================================
