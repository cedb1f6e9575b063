------------------------------ MODULE LotFold ------------------------------
(***************************************************************************)
(* The pure fold of domain/inventory.py.  A snapshot maps each lot key it  *)
(* has to a lot state; apply_events folds one event after another into it  *)
(* and combine_snapshots merges two.  The state machine folds the events   *)
(* it is offered, in any order and spread in any way over two shards       *)
(* whose as_of moves forward, and compares what results with the direct    *)
(* definition of what each column of a lot means.                          *)
(*                                                                         *)
(* Quantities are integers (thousandths: the column is Numeric(14,3)).     *)
(* A lot key is a product and a unit; the location, the printed date and   *)
(* the label are told apart the way the product is, by equality.           *)
(***************************************************************************)
EXTENDS Integers, FiniteSets, FiniteSetsExt

CONSTANTS
  Households,
  Household,    \* the tenant whose snapshots are folded
  Products, Units,
  Spelling,     \* strip().lower() as a function on the units that occur
  None,         \* no moment: the lot was never opened
  MaxTime

Time == 0..MaxTime

EventType == {"purchased", "opened", "consumed", "discarded", "corrected",
              "moved"}

(* An event as the API's validators and the table's checks let it through. *)
SignAllowed(e) ==
  /\ e.event_type = "purchased" => e.quantity_delta >= 0
  /\ e.event_type \in {"consumed", "discarded"} => e.quantity_delta <= 0

Event == [id: Int, household: Households, product: Products, unit: Units,
          event_type: EventType, quantity_delta: Int, occurred: Time,
          recorded: Time]

CONSTANT Events    \* the events that are offered

LotState == [quantity: Int, purchased: Int, consumed: Int, discarded: Int,
             event_count: Int, first_occurred: Time, last_occurred: Time,
             last_recorded: Time, opened: Time \cup {None}]

ASSUME FoldAssumption ==
  /\ Spelling \in [Units -> Units]
  /\ MaxTime \in Nat
  /\ None \notin Int
  /\ Household \in Households
  /\ \A e \in Events : e \in Event /\ SignAllowed(e)

-----------------------------------------------------------------------------
normalize_unit(u) == Spelling[u]

for_event(e) == [product |-> e.product, unit |-> normalize_unit(e.unit)]

lot_from_event(e) ==
  [quantity       |-> e.quantity_delta,
   purchased      |-> IF e.event_type = "purchased" THEN e.quantity_delta ELSE 0,
   consumed       |-> IF e.event_type = "consumed" THEN -e.quantity_delta ELSE 0,
   discarded      |-> IF e.event_type = "discarded" THEN -e.quantity_delta ELSE 0,
   event_count    |-> 1,
   first_occurred |-> e.occurred,
   last_occurred  |-> e.occurred,
   last_recorded  |-> e.recorded,
   opened         |-> IF e.event_type = "opened" THEN e.occurred ELSE None]

lower(a, b) == IF a <= b THEN a ELSE b
upper(a, b) == IF a <= b THEN b ELSE a

(* Mutant: the later argument wins when both are set. *)
earliest_overwritten(a, b) == IF b = None THEN a ELSE b

earliest(a, b) ==
  IF a = None THEN b ELSE IF b = None THEN a ELSE lower(a, b)

combine_lots(a, b) ==
  [quantity       |-> a.quantity + b.quantity,
   purchased      |-> a.purchased + b.purchased,
   consumed       |-> a.consumed + b.consumed,
   discarded      |-> a.discarded + b.discarded,
   event_count    |-> a.event_count + b.event_count,
   first_occurred |-> lower(a.first_occurred, b.first_occurred),
   last_occurred  |-> upper(a.last_occurred, b.last_occurred),
   last_recorded  |-> upper(a.last_recorded, b.last_recorded),
   opened         |-> earliest(a.opened, b.opened)]

(* A snapshot: its moment and the lots it has. *)
empty_snapshot(h, t) ==
  [household |-> h, as_of |-> t, lots |-> [key \in {} |-> None]]

(* lots[key] = lot if existing is None else combine_lots(existing, lot) *)
Absorb(lots, key, lot) ==
  [k \in DOMAIN lots \cup {key} |->
     IF k # key THEN lots[k]
     ELSE IF key \in DOMAIN lots THEN combine_lots(lots[key], lot) ELSE lot]

(* Mutant: only the system clock is checked. *)
Refused_by_record(snap, e, t) ==
  \/ t < snap.as_of
  \/ e.household # snap.household
  \/ e.recorded > t

(* What apply_events raises for: as_of moving backwards, an event of        *)
(* another household, an event not known at as_of.  The snapshot it was     *)
(* given is frozen, so a refusal changes nothing.                           *)
Refused(snap, e, t) ==
  \/ t < snap.as_of
  \/ e.household # snap.household
  \/ e.occurred > t
  \/ e.recorded > t

apply_event(snap, e, t) ==
  [household |-> snap.household, as_of |-> t,
   lots |-> Absorb(snap.lots, for_event(e), lot_from_event(e))]

(* Mutant: a lot of both sides is taken from one of them. *)
combine_snapshots_union(left, right) ==
  [household |-> left.household,
   as_of |-> upper(left.as_of, right.as_of),
   lots |-> [k \in DOMAIN left.lots \cup DOMAIN right.lots |->
               IF k \in DOMAIN left.lots THEN left.lots[k] ELSE right.lots[k]]]

combine_snapshots(left, right) ==
  [household |-> left.household,
   as_of |-> upper(left.as_of, right.as_of),
   lots |-> [k \in DOMAIN left.lots \cup DOMAIN right.lots |->
               IF k \notin DOMAIN right.lots THEN left.lots[k]
               ELSE IF k \notin DOMAIN left.lots THEN right.lots[k]
               ELSE combine_lots(left.lots[k], right.lots[k])]]

-----------------------------------------------------------------------------
Shards == {"left", "right"}

VARIABLES
  todo,      \* events not folded yet
  shard,     \* the two snapshots
  folded     \* history: the events folded into each

vars == <<todo, shard, folded>>

Init ==
  /\ todo = Events
  /\ shard = [s \in Shards |-> empty_snapshot(Household, 0)]
  /\ folded = [s \in Shards |-> {}]

(* apply_events at as_of t, for the next event of any list of events. *)
Fold(s, e, t) ==
  /\ ~Refused(shard[s], e, t)
  /\ shard' = [shard EXCEPT ![s] = apply_event(shard[s], e, t)]
  /\ folded' = [folded EXCEPT ![s] = @ \cup {e}]
  /\ todo' = todo \ {e}

(* apply_events of an empty list: only the as_of moves. *)
FoldNothing(s, t) ==
  /\ t > shard[s].as_of
  /\ shard' = [shard EXCEPT ![s].as_of = t]
  /\ UNCHANGED <<todo, folded>>

(* Every event left is refused whenever it is offered. *)
Folded ==
  /\ \A s \in Shards, e \in todo, t \in Time : Refused(shard[s], e, t)
  /\ UNCHANGED vars

Next ==
  \/ \E s \in Shards, e \in todo, t \in Time : Fold(s, e, t)
  \/ \E s \in Shards, t \in Time : FoldNothing(s, t)
  \/ Folded

Spec == Init /\ [][Next]_vars

-----------------------------------------------------------------------------
(* What a lot of the events E means, column by column. *)
OfType(E, type) == {e \in E : e.event_type = type}
Delta(e) == e.quantity_delta
Occurred(E) == {e.occurred : e \in E}

LotOf(E) ==
  [quantity       |-> MapThenSumSet(Delta, E),
   purchased      |-> MapThenSumSet(Delta, OfType(E, "purchased")),
   consumed       |-> -MapThenSumSet(Delta, OfType(E, "consumed")),
   discarded      |-> -MapThenSumSet(Delta, OfType(E, "discarded")),
   event_count    |-> Cardinality(E),
   first_occurred |-> Min(Occurred(E)),
   last_occurred  |-> Max(Occurred(E)),
   last_recorded  |-> Max({e.recorded : e \in E}),
   opened         |-> IF OfType(E, "opened") = {} THEN None
                      ELSE Min(Occurred(OfType(E, "opened")))]

(* The key a reader of the log would give the event: units that differ only *)
(* in case or surrounding space are one unit.                               *)
KeyOf(e) == [product |-> e.product, unit |-> Spelling[e.unit]]

Reference(E) ==
  [k \in {KeyOf(e) : e \in E} |-> LotOf({e \in E : KeyOf(e) = k})]

(* In whatever order events arrive, and however late, a shard is what its   *)
(* set of events means, and they are the household's own.                   *)
FoldIsReference ==
  \A s \in Shards : /\ shard[s].lots = Reference(folded[s])
                    /\ \A e \in folded[s] : e.household = Household

(* Merging the shards gives what folding all of their events would: the     *)
(* monoid law fold(A u B) = combine(fold(A), fold(B)).                      *)
MergeIsReference ==
  combine_snapshots(shard["left"], shard["right"]).lots =
    Reference(folded["left"] \cup folded["right"])

(* No lot of a snapshot shows anything from after its as_of, an opening     *)
(* lies between the first and the last thing that happened to the lot, and  *)
(* totals are magnitudes.                                                   *)
LotSound(lot, as_of) ==
  /\ lot.first_occurred <= lot.last_occurred
  /\ lot.last_occurred <= as_of
  /\ lot.last_recorded <= as_of
  /\ lot.opened # None => /\ lot.first_occurred <= lot.opened
                          /\ lot.opened <= lot.last_occurred
  /\ lot.purchased >= 0 /\ lot.consumed >= 0 /\ lot.discarded >= 0
  /\ lot.event_count >= 1

(* Every lot of every shard is sound at the shard's as_of. *)
LotsSound ==
  \A s \in Shards : \A k \in DOMAIN shard[s].lots :
    /\ shard[s].lots[k] \in LotState
    /\ LotSound(shard[s].lots[k], shard[s].as_of)
=============================================================================
