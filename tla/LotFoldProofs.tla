---------------------------- MODULE LotFoldProofs ----------------------------
(* The algebra of the fold for every lot state, the soundness of every lot  *)
(* the fold builds, and that the fold of a set of events is what the set    *)
(* means, for any events, units and households.                             *)
EXTENDS LotFold, FiniteSetTheorems, TLAPS

USE FoldAssumption

-----------------------------------------------------------------------------
(* _earliest is the meet of moments with None on top. *)
LEMMA EarliestLaws ==
  ASSUME NEW a \in Time \cup {None}, NEW b \in Time \cup {None},
         NEW c \in Time \cup {None}
  PROVE  /\ earliest(a, b) \in Time \cup {None}
         /\ earliest(a, b) = earliest(b, a)
         /\ earliest(earliest(a, b), c) = earliest(a, earliest(b, c))
BY DEF earliest, lower, Time

(* combine_lots is commutative and associative, the claim of its docstring  *)
(* on which incremental and sharded folding rest.                           *)
THEOREM CombineLaws ==
  ASSUME NEW a \in LotState, NEW b \in LotState, NEW c \in LotState
  PROVE  /\ combine_lots(a, b) \in LotState
         /\ combine_lots(a, b) = combine_lots(b, a)
         /\ combine_lots(combine_lots(a, b), c) =
              combine_lots(a, combine_lots(b, c))
<1>o. /\ a.opened \in Time \cup {None} /\ b.opened \in Time \cup {None}
      /\ c.opened \in Time \cup {None}
  BY DEF LotState
<1>1. /\ earliest(a.opened, b.opened) \in Time \cup {None}
      /\ earliest(a.opened, b.opened) = earliest(b.opened, a.opened)
      /\ earliest(earliest(a.opened, b.opened), c.opened) =
           earliest(a.opened, earliest(b.opened, c.opened))
  BY <1>o, EarliestLaws
<1>2. combine_lots(a, b) \in LotState
  BY <1>1 DEF combine_lots, LotState, lower, upper, Time
<1>3. combine_lots(a, b) = combine_lots(b, a)
  BY <1>1 DEF combine_lots, LotState, lower, upper, Time
<1>4. combine_lots(combine_lots(a, b), c) = combine_lots(a, combine_lots(b, c))
  BY <1>1 DEF combine_lots, LotState, lower, upper, Time
<1> QED BY <1>2, <1>3, <1>4

-----------------------------------------------------------------------------
(* The lot of one event that is not refused is sound. *)
LEMMA EventSound ==
  ASSUME NEW e \in Events, NEW t \in Time, e.occurred <= t, e.recorded <= t
  PROVE  /\ lot_from_event(e) \in LotState
         /\ LotSound(lot_from_event(e), t)
<1>1. /\ e.quantity_delta \in Int /\ e.occurred \in Time /\ e.recorded \in Time
      /\ SignAllowed(e)
  BY DEF Event
<1>2. lot_from_event(e) \in LotState
  BY <1>1 DEF lot_from_event, LotState
<1>3. LotSound(lot_from_event(e), t)
  BY <1>1 DEF lot_from_event, LotSound, SignAllowed, Time
<1> QED BY <1>2, <1>3

(* Combining keeps lots sound, and a later as_of does too. *)
LEMMA CombineSound ==
  ASSUME NEW a \in LotState, NEW b \in LotState, NEW s \in Time, NEW t \in Time,
         s <= t, LotSound(a, s), LotSound(b, t)
  PROVE  LotSound(a, t) /\ LotSound(combine_lots(a, b), t)
<1>1. LotSound(a, t)
  BY DEF LotSound, LotState, Time
<1>2. /\ a.first_occurred \in Int /\ a.last_occurred \in Int
      /\ a.last_recorded \in Int /\ (a.opened = None \/ a.opened \in Int)
      /\ b.first_occurred \in Int /\ b.last_occurred \in Int
      /\ b.last_recorded \in Int /\ (b.opened = None \/ b.opened \in Int)
      /\ a.purchased \in Int /\ a.consumed \in Int /\ a.discarded \in Int
      /\ b.purchased \in Int /\ b.consumed \in Int /\ b.discarded \in Int
      /\ a.event_count \in Int /\ b.event_count \in Int /\ t \in Int
  BY DEF LotState, Time
<1>3. LotSound(combine_lots(a, b), t)
  BY <1>1, <1>2 DEF LotSound, combine_lots, earliest, lower, upper
<1> QED BY <1>1, <1>3

(* LotsSound, with the types it needs to be inductive. *)
FoldInv ==
  /\ todo \in SUBSET Events
  /\ DOMAIN shard = Shards
  /\ \A s \in Shards : shard[s].as_of \in Time
  /\ LotsSound

(* FoldInv holds of two empty snapshots. *)
LEMMA FoldInvInit == Init => FoldInv
BY DEF Init, FoldInv, LotsSound, empty_snapshot, Time

(* A fold step keeps every lot of every shard sound. *)
LEMMA FoldInvStep == FoldInv /\ [Next]_vars => FoldInv'
<1> SUFFICES ASSUME FoldInv, [Next]_vars PROVE FoldInv'
  OBVIOUS
<1>1. ASSUME UNCHANGED vars PROVE FoldInv'
  BY <1>1 DEF vars, FoldInv, LotsSound
<1>2. ASSUME NEW s \in Shards, NEW e \in todo, NEW t \in Time, Fold(s, e, t)
      PROVE  FoldInv'
  <2> DEFINE lots == shard[s].lots
             key == for_event(e)
             new == lot_from_event(e)
  <2>1. /\ e \in Events /\ e.occurred \in Time /\ e.recorded \in Time
        /\ shard[s].as_of \in Time
    BY DEF FoldInv, Event
  <2>2. e.occurred <= t /\ e.recorded <= t /\ shard[s].as_of <= t
    BY <1>2, <2>1 DEF Fold, Refused, Time
  <2>3. new \in LotState /\ LotSound(new, t)
    BY <2>1, <2>2, EventSound
  <2>4. \A k \in DOMAIN lots : /\ lots[k] \in LotState
                               /\ LotSound(lots[k], t)
                               /\ combine_lots(lots[k], new) \in LotState
                               /\ LotSound(combine_lots(lots[k], new), t)
    <3> SUFFICES ASSUME NEW k \in DOMAIN lots
                 PROVE  /\ lots[k] \in LotState
                        /\ LotSound(lots[k], t)
                        /\ combine_lots(lots[k], new) \in LotState
                        /\ LotSound(combine_lots(lots[k], new), t)
      OBVIOUS
    <3>1. lots[k] \in LotState /\ LotSound(lots[k], shard[s].as_of)
      BY DEF FoldInv, LotsSound
    <3> HIDE DEF lots, new
    <3> QED BY <2>1, <2>2, <2>3, <3>1, CombineSound, CombineLaws
  <2>5. shard'[s] = [household |-> shard[s].household, as_of |-> t,
                     lots |-> Absorb(lots, key, new)]
    BY <1>2 DEF Fold, apply_event, FoldInv
  <2>6. \A q \in Shards \ {s} : shard'[q] = shard[q]
    BY <1>2 DEF Fold, FoldInv
  <2>7. \A k \in DOMAIN Absorb(lots, key, new) :
          /\ Absorb(lots, key, new)[k] \in LotState
          /\ LotSound(Absorb(lots, key, new)[k], t)
    <3> HIDE DEF lots, key, new
    <3> QED BY <2>3, <2>4 DEF Absorb
  <2>8. LotsSound'
    <3> HIDE DEF lots, key, new
    <3> QED BY <2>5, <2>6, <2>7 DEF LotsSound, FoldInv
  <2>9. /\ todo' \in SUBSET Events
        /\ DOMAIN shard' = Shards
        /\ \A q \in Shards : shard'[q].as_of \in Time
    BY <1>2, <2>5, <2>6 DEF FoldInv, Fold
  <2> QED BY <2>8, <2>9 DEF FoldInv
<1>3. ASSUME NEW s \in Shards, NEW t \in Time, FoldNothing(s, t)
      PROVE  FoldInv'
  <2>1. /\ shard[s].as_of \in Time /\ shard[s].as_of <= t
        /\ shard'[s].as_of = t /\ shard'[s].lots = shard[s].lots
        /\ DOMAIN shard' = Shards
        /\ \A q \in Shards \ {s} : shard'[q] = shard[q]
    BY <1>3 DEF FoldNothing, FoldInv, Time
  <2>2. \A k \in DOMAIN shard[s].lots : /\ shard[s].lots[k] \in LotState
                                        /\ LotSound(shard[s].lots[k], t)
    <3> SUFFICES ASSUME NEW k \in DOMAIN shard[s].lots
                 PROVE  /\ shard[s].lots[k] \in LotState
                        /\ LotSound(shard[s].lots[k], t)
      OBVIOUS
    <3>1. /\ shard[s].lots[k] \in LotState
          /\ LotSound(shard[s].lots[k], shard[s].as_of)
      BY DEF FoldInv, LotsSound
    <3> QED BY <2>1, <3>1 DEF LotSound, LotState, Time
  <2>3. LotsSound'
    BY <2>1, <2>2 DEF LotsSound, FoldInv
  <2>4. todo' \in SUBSET Events /\ \A q \in Shards : shard'[q].as_of \in Time
    BY <1>3, <2>1 DEF FoldInv, FoldNothing
  <2> QED BY <2>1, <2>3, <2>4 DEF FoldInv
<1> QED BY <1>1, <1>2, <1>3 DEF Next, Folded

(* However the events of a household are ordered and sharded, no lot shows  *)
(* anything from after its snapshot's as_of, and its totals and dates fit.  *)
THEOREM FoldSound == Spec => []LotsSound
<1>1. FoldInv => LotsSound
  BY DEF FoldInv
<1> QED BY <1>1, FoldInvInit, FoldInvStep, PTL DEF Spec

-----------------------------------------------------------------------------
(* n[e] units for each event e of E, as a set that can be counted. *)
Piles(E, n) == UNION {{e} \X (1..n[e]) : e \in E}

(* A pile of an event has as many units as its number, none if negative. *)
LEMMA PilesLaws ==
  ASSUME NEW n \in [Events -> Int]
  PROVE  /\ Piles({}, n) = {}
         /\ \A e \in Events : 
              Cardinality(Piles({e}, n)) = IF n[e] > 0 THEN n[e] ELSE 0
         /\ \A E \in SUBSET Events : IsFiniteSet(E) => IsFiniteSet(Piles(E, n))
<1>1. Piles({}, n) = {}
  BY DEF Piles
<1>2. \A e : IsFiniteSet({e}) /\ Cardinality({e}) = 1
  BY FS_Singleton
<1>3. ASSUME NEW e \in Events
      PROVE  /\ IsFiniteSet({e} \X (1..n[e]))
             /\ Cardinality({e} \X (1..n[e])) = IF n[e] > 0 THEN n[e] ELSE 0
  <2>1. /\ IsFiniteSet(1..n[e])
        /\ Cardinality(1..n[e]) = IF n[e] > 0 THEN n[e] ELSE 0
    <3>1. n[e] \in Int
      OBVIOUS
    <3> QED BY <3>1, FS_Interval
  <2>2. /\ IsFiniteSet({e} \X (1..n[e]))
        /\ Cardinality({e} \X (1..n[e])) =
             Cardinality({e}) * Cardinality(1..n[e])
    <3> DEFINE S == {e}
               T == 1..n[e]
    <3> HIDE DEF S, T
    <3>1. IsFiniteSet(S) /\ IsFiniteSet(T)
      BY <1>2, <2>1 DEF S, T
    <3>2. /\ IsFiniteSet(S \X T)
          /\ Cardinality(S \X T) = Cardinality(S) * Cardinality(T)
      BY <3>1, FS_Product
    <3> QED BY <3>2 DEF S, T
  <2>3. n[e] \in Int /\ Cardinality(1..n[e]) \in Int
    BY <2>1
  <2>4. Cardinality({e} \X (1..n[e])) = 1 * Cardinality(1..n[e])
    BY <1>2, <2>2
  <2>5. 1 * Cardinality(1..n[e]) = Cardinality(1..n[e])
    BY <2>3
  <2> QED BY <2>1, <2>2, <2>4, <2>5
<1>4. ASSUME NEW e \in Events
      PROVE  Cardinality(Piles({e}, n)) = IF n[e] > 0 THEN n[e] ELSE 0
  <2>1. Piles({e}, n) = {e} \X (1..n[e])
    BY DEF Piles
  <2> QED BY <1>3, <2>1
<1>5. ASSUME NEW E \in SUBSET Events, IsFiniteSet(E)
      PROVE  IsFiniteSet(Piles(E, n))
  <2> DEFINE T == {{e} \X (1..n[e]) : e \in E}
             f == [e \in E |-> {e} \X (1..n[e])]
  <2>1. f \in Surjection(E, T)
    BY DEF Surjection
  <2>2. IsFiniteSet(T)
    BY <1>5, <2>1, FS_Surjection
  <2>3. \A t \in T : IsFiniteSet(t)
    BY <1>3
  <2> QED BY <2>2, <2>3, FS_UNION DEF Piles
<1> QED BY <1>1, <1>4, <1>5

(* The piles of disjoint sets of events add up. *)
LEMMA PilesAdd ==
  ASSUME NEW n \in [Events -> Int],
         NEW A \in SUBSET Events, NEW B \in SUBSET Events,
         IsFiniteSet(A), IsFiniteSet(B), A \cap B = {}
  PROVE  /\ Cardinality(Piles(A, n)) \in Nat
         /\ Cardinality(Piles(A \cup B, n)) =
              Cardinality(Piles(A, n)) + Cardinality(Piles(B, n))
<1>1. Piles(A \cup B, n) = Piles(A, n) \cup Piles(B, n)
  BY DEF Piles
<1>2. Piles(A, n) \cap Piles(B, n) = {}
  BY DEF Piles
<1>3. IsFiniteSet(Piles(A, n)) /\ IsFiniteSet(Piles(B, n))
  BY PilesLaws
<1>4. /\ Cardinality(Piles(A, n)) \in Nat /\ Cardinality(Piles(B, n)) \in Nat
  BY <1>3, FS_CardinalityType
<1> DEFINE P == Piles(A, n)
           Q == Piles(B, n)
<1> HIDE DEF P, Q
<1>5. Cardinality(P \cup Q) =
        Cardinality(P) + Cardinality(Q) - Cardinality(P \cap Q)
  BY <1>3, FS_Union DEF P, Q
<1>6. Cardinality(P \cap Q) = 0
  BY <1>2, FS_EmptySet DEF P, Q
<1>7. Cardinality(P \cup Q) = Cardinality(P) + Cardinality(Q)
  BY <1>4, <1>5, <1>6 DEF P, Q
<1> QED BY <1>1, <1>4, <1>7 DEF P, Q

(* The sum of the deltas without recursion: what comes in, less what goes   *)
(* out.                                                                     *)
Gain == [e \in Events |-> Delta(e)]
Loss == [e \in Events |-> -Delta(e)]
Net(E) == Cardinality(Piles(E, Gain)) - Cardinality(Piles(E, Loss))

(* A delta is an integer. *)
LEMMA DeltaType == /\ \A e \in Events : Delta(e) \in Int
                   /\ Gain \in [Events -> Int] /\ Loss \in [Events -> Int]
<1>1. \A e \in Events : Delta(e) \in Int
  BY DEF Delta, Event
<1> QED BY <1>1 DEF Gain, Loss

(* Net is a sum: nothing for no event, the delta for one, and additive. *)
LEMMA NetLaws ==
  /\ Net({}) = 0
  /\ \A e \in Events : Net({e}) = Delta(e)
  /\ \A A, B \in SUBSET Events :
       IsFiniteSet(A) /\ IsFiniteSet(B) /\ A \cap B = {}
         => Net(A) \in Int /\ Net(A \cup B) = Net(A) + Net(B)
<1>1. Net({}) = 0
  BY DeltaType, PilesLaws, FS_EmptySet DEF Net
<1>2. ASSUME NEW e \in Events PROVE Net({e}) = Delta(e)
  <2>1. Delta(e) \in Int /\ Gain[e] = Delta(e) /\ Loss[e] = -Delta(e)
    BY DeltaType DEF Gain, Loss
  <2>2. Cardinality(Piles({e}, Gain)) = IF Gain[e] > 0 THEN Gain[e] ELSE 0
    BY DeltaType, PilesLaws
  <2>3. Cardinality(Piles({e}, Loss)) = IF Loss[e] > 0 THEN Loss[e] ELSE 0
    BY DeltaType, PilesLaws
  <2> QED BY <2>1, <2>2, <2>3 DEF Net
<1>3. ASSUME NEW A \in SUBSET Events, NEW B \in SUBSET Events,
             IsFiniteSet(A), IsFiniteSet(B), A \cap B = {}
      PROVE  Net(A) \in Int /\ Net(A \cup B) = Net(A) + Net(B)
  <2>1. B \cap A = {}
    BY <1>3
  <2>2. /\ Cardinality(Piles(A, Gain)) \in Nat
        /\ Cardinality(Piles(B, Gain)) \in Nat
        /\ Cardinality(Piles(A \cup B, Gain)) =
             Cardinality(Piles(A, Gain)) + Cardinality(Piles(B, Gain))
    BY <1>3, <2>1, DeltaType, PilesAdd
  <2>3. /\ Cardinality(Piles(A, Loss)) \in Nat
        /\ Cardinality(Piles(B, Loss)) \in Nat
        /\ Cardinality(Piles(A \cup B, Loss)) =
             Cardinality(Piles(A, Loss)) + Cardinality(Piles(B, Loss))
    BY <1>3, <2>1, DeltaType, PilesAdd
  <2> QED BY <2>2, <2>3 DEF Net
<1> QED BY <1>1, <1>2, <1>3

(* MapThenSumSet takes its elements by CHOOSE; this is its defining         *)
(* equation.                                                                *)
Pick(s) == CHOOSE x \in s : TRUE
Term(g, s) == IF s = {} THEN 0 ELSE Delta(Pick(s)) + g[s \ {Pick(s)}]
SumBody(g, E) == [s \in SUBSET E |-> Term(g, s)]

(* MapThenSumSet, with its recursion named. *)
LEMMA SumUnfolds ==
  ASSUME NEW E
  PROVE  MapThenSumSet(Delta, E) = (CHOOSE g : g = SumBody(g, E))[E]
BY DEF MapThenSumSet, MapThenFoldSet, SumBody, Term, Pick

(* The recursive sum of a finite set of events is Net: Net satisfies the    *)
(* equation, and by a smallest set on which they differ nothing else does.  *)
LEMMA SumIsNet ==
  ASSUME NEW E \in SUBSET Events, IsFiniteSet(E)
  PROVE  MapThenSumSet(Delta, E) = Net(E)
<1> DEFINE net == [s \in SUBSET E |-> Net(s)]
<1>1. ASSUME NEW s \in SUBSET E, s # {}
      PROVE  /\ Pick(s) \in s
             /\ Net(s) = Delta(Pick(s)) + Net(s \ {Pick(s)})
  <2>1. Pick(s) \in s
    BY <1>1 DEF Pick
  <2> DEFINE x == Pick(s)
             r == s \ {x}
  <2> HIDE DEF x
  <2>2. x \in Events /\ r \in SUBSET Events /\ {x} \in SUBSET Events
        /\ {x} \cap r = {} /\ s = {x} \cup r
    BY <2>1 DEF x
  <2>3. IsFiniteSet({x}) /\ IsFiniteSet(r)
    <3>1. IsFiniteSet(s)
      BY FS_Subset
    <3> QED BY <3>1, FS_Singleton, FS_RemoveElement
  <2>4. Net(s) = Net({x}) + Net(r)
    BY <2>2, <2>3, NetLaws
  <2>5. Net(s) = Delta(x) + Net(r)
    BY <2>2, <2>4, NetLaws
  <2> QED BY <2>1, <2>5 DEF x
<1>2. net = SumBody(net, E)
  <2>1. \A s \in SUBSET E : s # {} => s \ {Pick(s)} \in SUBSET E
    OBVIOUS
  <2> QED BY <1>1, <2>1, NetLaws DEF SumBody, Term
<1>3. ASSUME NEW g, g = SumBody(g, E)
      PROVE  \A s \in SUBSET E : g[s] = Net(s)
  <2>1. \A s \in SUBSET E : g[s] = Term(g, s)
    <3>1. \A s \in SUBSET E : SumBody(g, E)[s] = Term(g, s)
      BY DEF SumBody
    <3> QED BY <1>3, <3>1
  <2> DEFINE Bad == {s \in SUBSET E : g[s] # Net(s)}
  <2>2. ASSUME Bad # {} PROVE FALSE
    <3>1. IsWellFoundedOn(StrictSubsetOrdering(E), SUBSET E)
      BY FS_FiniteSubsetsOfFinite, FS_StrictSubsetOrderingWellFounded
    <3>2. PICK s \in Bad :
            \A t \in Bad : <<t, s>> \notin StrictSubsetOrdering(E)
      <4>1. Bad \subseteq SUBSET E
        OBVIOUS
      <4> HIDE DEF Bad
      <4> QED BY <2>2, <3>1, <4>1, WFMin
    <3>3. s # {}
      BY <2>1, NetLaws DEF Term
    <3>4. s \in SUBSET E /\ Pick(s) \in s
      BY <1>1, <3>3
    <3>5. s \ {Pick(s)} \in SUBSET E
      OBVIOUS
    <3>6. <<s \ {Pick(s)}, s>> \in StrictSubsetOrdering(E)
      BY <3>4, <3>5 DEF StrictSubsetOrdering
    <3>7. g[s \ {Pick(s)}] = Net(s \ {Pick(s)})
      BY <3>2, <3>5, <3>6
    <3>8. g[s] = Net(s)
      BY <1>1, <2>1, <3>3, <3>4, <3>7 DEF Term
    <3> QED BY <3>8
  <2> QED BY <2>2
<1> DEFINE iter == CHOOSE g : g = SumBody(g, E)
<1>4. iter = SumBody(iter, E)
  <2> HIDE DEF net
  <2> QED BY <1>2
<1>5. iter[E] = Net(E)
  <2> HIDE DEF iter
  <2> QED BY <1>3, <1>4
<1> QED BY <1>5, SumUnfolds

-----------------------------------------------------------------------------
(* Every set of naturals that is not empty has a least element. *)
LEMMA MinExists ==
  ASSUME NEW S, S \in SUBSET Nat, S # {}
  PROVE  \E x \in S : \A y \in S : x <= y
<1>1. PICK x \in S : \A y \in S : ~ (<<y, x>> \in OpToRel(<, Nat))
  BY NatLessThanWellFounded, WFMin
<1>2. \A y \in S : ~ (y < x)
  BY <1>1 DEF OpToRel
<1> QED BY <1>2

(* Min is the one least moment of a set of moments. *)
LEMMA MinLaws ==
  ASSUME NEW S \in SUBSET Time, S # {}
  PROVE  /\ Min(S) \in S /\ \A y \in S : Min(S) <= y
         /\ \A x \in S : (\A y \in S : x <= y) => x = Min(S)
<1>1. S \in SUBSET Nat /\ \A x \in S : x \in Int
  BY DEF Time
<1>2. \E x \in S : \A y \in S : x =< y
  BY <1>1, MinExists
<1>3. Min(S) \in S /\ \A y \in S : Min(S) <= y
  BY <1>2 DEF Min
<1>4. ASSUME NEW x \in S, \A y \in S : x <= y PROVE x = Min(S)
  <2>1. x \in Int /\ Min(S) \in Int /\ x <= Min(S) /\ Min(S) <= x
    BY <1>1, <1>3, <1>4
  <2> QED BY <2>1
<1> QED BY <1>3, <1>4

(* Max is the one latest moment of a set of moments. *)
LEMMA MaxLaws ==
  ASSUME NEW S \in SUBSET Time, S # {}
  PROVE  /\ Max(S) \in S /\ \A y \in S : y <= Max(S)
         /\ \A x \in S : (\A y \in S : y <= x) => x = Max(S)
<1>1. \A x \in S : x \in Nat /\ x <= MaxTime
  BY DEF Time
<1>2. \E x \in S : \A y \in S : x >= y
  <2> DEFINE T == {MaxTime - x : x \in S}
  <2>1. T \in SUBSET Nat /\ T # {}
    <3>1. \A x \in S : MaxTime - x \in Nat
      BY <1>1
    <3> QED BY <3>1
  <2>2. PICK z \in T : \A y \in T : z <= y
    <3> HIDE DEF T
    <3> QED BY <2>1, MinExists
  <2>3. PICK x \in S : z = MaxTime - x
    BY <2>2
  <2>4. \A y \in S : MaxTime - x <= MaxTime - y
    BY <2>2, <2>3
  <2> QED BY <1>1, <2>4
<1>3. Max(S) \in S /\ \A y \in S : Max(S) >= y
  BY <1>2 DEF Max
<1>4. \A y \in S : y <= Max(S)
  BY <1>1, <1>3
<1>5. ASSUME NEW x \in S, \A y \in S : y <= x PROVE x = Max(S)
  <2>1. x \in Int /\ Max(S) \in Int /\ x <= Max(S) /\ Max(S) <= x
    BY <1>1, <1>3, <1>4, <1>5
  <2> QED BY <2>1
<1> QED BY <1>3, <1>4, <1>5

(* Min and Max of a union, as combine_lots computes them. *)
LEMMA MinMaxUnion ==
  ASSUME NEW S \in SUBSET Time, S # {}, NEW T \in SUBSET Time, T # {}
  PROVE  /\ Min(S \cup T) = lower(Min(S), Min(T))
         /\ Max(S \cup T) = upper(Max(S), Max(T))
<1>0. Time \subseteq Int /\ S \cup T \in SUBSET Time /\ S \cup T # {}
  BY DEF Time
<1>1. Min(S \cup T) = lower(Min(S), Min(T))
  <2> DEFINE x == lower(Min(S), Min(T))
  <2>1. x \in S \cup T /\ \A y \in S \cup T : x <= y
    <3>1. /\ Min(S) \in S /\ \A y \in S : Min(S) <= y
          /\ Min(T) \in T /\ \A y \in T : Min(T) <= y
      BY MinLaws
    <3>2. Min(S) \in Int /\ Min(T) \in Int /\ \A y \in S \cup T : y \in Int
      BY <1>0, <3>1
    <3> QED BY <3>1, <3>2 DEF lower
  <2> HIDE DEF x
  <2> QED BY <1>0, <2>1, MinLaws DEF x
<1>2. Max(S \cup T) = upper(Max(S), Max(T))
  <2> DEFINE x == upper(Max(S), Max(T))
  <2>1. x \in S \cup T /\ \A y \in S \cup T : y <= x
    <3>1. /\ Max(S) \in S /\ \A y \in S : y <= Max(S)
          /\ Max(T) \in T /\ \A y \in T : y <= Max(T)
      BY MaxLaws
    <3>2. Max(S) \in Int /\ Max(T) \in Int /\ \A y \in S \cup T : y \in Int
      BY <1>0, <3>1
    <3> QED BY <3>1, <3>2 DEF upper
  <2> HIDE DEF x
  <2> QED BY <1>0, <2>1, MaxLaws DEF x
<1> QED BY <1>1, <1>2

(* Min and Max of one moment. *)
LEMMA MinMaxSingleton ==
  ASSUME NEW t \in Time
  PROVE  Min({t}) = t /\ Max({t}) = t
<1>1. {t} \in SUBSET Time /\ {t} # {}
  OBVIOUS
<1> QED BY <1>1, MinLaws, MaxLaws

(* The fields of an event that a lot is made from. *)
LEMMA EventFields ==
  ASSUME NEW e \in Events
  PROVE  e.occurred \in Time /\ e.recorded \in Time /\ e.quantity_delta \in Int
BY DEF Event

(* The sum of the deltas of E, a name the arithmetic can take as an integer. *)
Total(E) == MapThenSumSet(Delta, E)

(* LotOf in terms of Total. *)
LEMMA LotOfTotal ==
  ASSUME NEW E
  PROVE  LotOf(E) =
    [quantity       |-> Total(E),
     purchased      |-> Total(OfType(E, "purchased")),
     consumed       |-> -Total(OfType(E, "consumed")),
     discarded      |-> -Total(OfType(E, "discarded")),
     event_count    |-> Cardinality(E),
     first_occurred |-> Min(Occurred(E)),
     last_occurred  |-> Max(Occurred(E)),
     last_recorded  |-> Max({e.recorded : e \in E}),
     opened         |-> IF OfType(E, "opened") = {} THEN None
                        ELSE Min(Occurred(OfType(E, "opened")))]
BY DEF LotOf, Total

(* The reference lot of one event is the lot lot_from_event gives it. *)
LEMMA LotOfOne ==
  ASSUME NEW e \in Events
  PROVE  LotOf({e}) = lot_from_event(e)
<1>1. /\ Total({e}) = Delta(e) /\ Total({}) = 0
  <2>1. /\ {e} \in SUBSET Events /\ {} \in SUBSET Events
        /\ IsFiniteSet({e}) /\ IsFiniteSet({})
    BY FS_Singleton, FS_EmptySet
  <2>2. Total({e}) = Net({e}) /\ Total({}) = Net({})
    BY <2>1, SumIsNet DEF Total
  <2> QED BY <2>2, NetLaws
<1>2. \A type : OfType({e}, type) = IF e.event_type = type THEN {e} ELSE {}
  BY DEF OfType
<1>3. Occurred({e}) = {e.occurred} /\ {x.recorded : x \in {e}} = {e.recorded}
  BY DEF Occurred
<1>4. /\ Min(Occurred({e})) = e.occurred /\ Max(Occurred({e})) = e.occurred
      /\ Max({x.recorded : x \in {e}}) = e.recorded
  BY <1>3, EventFields, MinMaxSingleton
<1>5. Cardinality({e}) = 1
  BY FS_Singleton
<1>6. /\ Total(OfType({e}, "purchased")) = lot_from_event(e).purchased
      /\ -Total(OfType({e}, "consumed")) = lot_from_event(e).consumed
      /\ -Total(OfType({e}, "discarded")) = lot_from_event(e).discarded
  <2>1. \A type : Total(OfType({e}, type)) =
                    IF e.event_type = type THEN e.quantity_delta ELSE 0
    BY <1>1, <1>2 DEF Delta
  <2>2. -0 = 0
    <3>1. \A i \in Int : i <= 0 /\ 0 <= i => -i = i
      OBVIOUS
    <3>2. 0 \in Int /\ 0 <= 0
      OBVIOUS
    <3> QED BY <3>1, <3>2, Zenon
  <2> QED BY <2>1, <2>2, EventFields DEF lot_from_event
<1>7. (IF OfType({e}, "opened") = {} THEN None
         ELSE Min(Occurred(OfType({e}, "opened")))) = lot_from_event(e).opened
  BY <1>2, <1>4 DEF lot_from_event
<1> QED BY <1>1, <1>4, <1>5, <1>6, <1>7, LotOfTotal DEF lot_from_event, Delta

(* Totals of disjoint sets add up. *)
LEMMA SumAdds ==
  ASSUME NEW A \in SUBSET Events, NEW B \in SUBSET Events,
         IsFiniteSet(A), IsFiniteSet(B), A \cap B = {}
  PROVE  /\ Total(A) \in Int /\ Total(B) \in Int
         /\ Total(A \cup B) = Total(A) + Total(B)
<1>1. B \cap A = {} /\ A \cup B \in SUBSET Events /\ IsFiniteSet(A \cup B)
  BY FS_Union
<1>2. /\ Total(A) = Net(A) /\ Total(B) = Net(B)
      /\ Total(A \cup B) = Net(A \cup B)
  BY <1>1, SumIsNet DEF Total
<1>3. Net(A) \in Int /\ Net(B) \in Int /\ Net(A \cup B) = Net(A) + Net(B)
  BY <1>1, NetLaws
<1> QED BY <1>2, <1>3

(* fold(A u B) = combine(fold(A), fold(B)) for the events of one lot. *)
LEMMA LotOfUnion ==
  ASSUME NEW A \in SUBSET Events, NEW B \in SUBSET Events, A # {}, B # {},
         IsFiniteSet(A), IsFiniteSet(B), A \cap B = {}
  PROVE  LotOf(A \cup B) = combine_lots(LotOf(A), LotOf(B))
<1>1. ASSUME NEW type
      PROVE  /\ Total(OfType(A, type)) \in Int
             /\ Total(OfType(B, type)) \in Int
             /\ Total(OfType(A \cup B, type)) =
                  Total(OfType(A, type)) + Total(OfType(B, type))
  <2> DEFINE P == OfType(A, type)
             Q == OfType(B, type)
  <2>1. /\ P \in SUBSET A /\ Q \in SUBSET B
        /\ P \in SUBSET Events /\ Q \in SUBSET Events
        /\ P \cap Q = {}
        /\ OfType(A \cup B, type) = P \cup Q
    BY DEF OfType
  <2> HIDE DEF P, Q
  <2>2. IsFiniteSet(P) /\ IsFiniteSet(Q)
    BY <2>1, FS_Subset
  <2>3. /\ Total(P) \in Int /\ Total(Q) \in Int
        /\ Total(P \cup Q) = Total(P) + Total(Q)
    BY <2>1, <2>2, SumAdds
  <2> QED BY <2>1, <2>3 DEF P, Q
<1>2. /\ Total(A \cup B) = Total(A) + Total(B)
  BY SumAdds
<1>3. Cardinality(A \cup B) = Cardinality(A) + Cardinality(B)
  <2>1. Cardinality(A \cup B) =
          Cardinality(A) + Cardinality(B) - Cardinality(A \cap B)
    BY FS_Union
  <2>2. /\ Cardinality(A \cap B) = 0
        /\ Cardinality(A) \in Nat /\ Cardinality(B) \in Nat
    BY FS_EmptySet, FS_CardinalityType
  <2> QED BY <2>1, <2>2
<1>4. ASSUME NEW P \in SUBSET Events, NEW Q \in SUBSET Events, P # {}, Q # {}
      PROVE  /\ Min(Occurred(P \cup Q)) =
                  lower(Min(Occurred(P)), Min(Occurred(Q)))
             /\ Max(Occurred(P \cup Q)) =
                  upper(Max(Occurred(P)), Max(Occurred(Q)))
             /\ Min(Occurred(P)) \in Time /\ Min(Occurred(Q)) \in Time
  <2>1. /\ Occurred(P) \in SUBSET Time /\ Occurred(P) # {}
        /\ Occurred(Q) \in SUBSET Time /\ Occurred(Q) # {}
        /\ Occurred(P \cup Q) = Occurred(P) \cup Occurred(Q)
    BY <1>4, EventFields DEF Occurred
  <2> QED BY <2>1, MinMaxUnion, MinLaws
<1>5. /\ Min(Occurred(A \cup B)) = lower(Min(Occurred(A)), Min(Occurred(B)))
      /\ Max(Occurred(A \cup B)) = upper(Max(Occurred(A)), Max(Occurred(B)))
  BY <1>4
<1>6. Max({e.recorded : e \in A \cup B}) =
        upper(Max({e.recorded : e \in A}), Max({e.recorded : e \in B}))
  <2> DEFINE P == {e.recorded : e \in A}
             Q == {e.recorded : e \in B}
  <2>1. /\ P \in SUBSET Time /\ P # {} /\ Q \in SUBSET Time /\ Q # {}
        /\ {e.recorded : e \in A \cup B} = P \cup Q
    BY EventFields
  <2> HIDE DEF P, Q
  <2>2. Max(P \cup Q) = upper(Max(P), Max(Q))
    BY <2>1, MinMaxUnion
  <2> QED BY <2>1, <2>2 DEF P, Q
<1> DEFINE Opened(E) == IF OfType(E, "opened") = {} THEN None
                        ELSE Min(Occurred(OfType(E, "opened")))
<1>7. Opened(A \cup B) = earliest(Opened(A), Opened(B))
  <2> DEFINE P == OfType(A, "opened")
             Q == OfType(B, "opened")
  <2>1. /\ P \in SUBSET Events /\ Q \in SUBSET Events
        /\ OfType(A \cup B, "opened") = P \cup Q
    BY DEF OfType
  <2> HIDE DEF P, Q
  <2>2. CASE P = {}
    <3>1. P \cup Q = Q
      BY <2>2
    <3> QED BY <2>1, <2>2, <3>1 DEF earliest, P, Q
  <2>3. CASE P # {} /\ Q = {}
    <3>1. P \cup Q = P
      BY <2>3
    <3> QED BY <2>1, <2>3, <3>1 DEF earliest, P, Q
  <2>4. CASE P # {} /\ Q # {}
    <3>1. /\ P \cup Q # {}
          /\ Min(Occurred(P \cup Q)) = lower(Min(Occurred(P)), Min(Occurred(Q)))
          /\ Min(Occurred(P)) \in Time /\ Min(Occurred(Q)) \in Time
      BY <1>4, <2>1, <2>4
    <3>2. Min(Occurred(P)) # None /\ Min(Occurred(Q)) # None
      BY <3>1 DEF Time
    <3> QED BY <2>1, <2>4, <3>1, <3>2 DEF earliest, P, Q
  <2> QED BY <2>2, <2>3, <2>4
<1>8. \A type \in EventType :
        /\ Total(OfType(A \cup B, type)) =
             Total(OfType(A, type)) + Total(OfType(B, type))
        /\ -Total(OfType(A \cup B, type)) =
             (-Total(OfType(A, type))) + (-Total(OfType(B, type)))
  <2> TAKE type \in EventType
  <2> DEFINE a == Total(OfType(A, type))
             b == Total(OfType(B, type))
             c == Total(OfType(A \cup B, type))
  <2>1. a \in Int /\ b \in Int /\ c = a + b
    BY <1>1
  <2> HIDE DEF a, b, c
  <2>2. c = a + b /\ -c = (-a) + (-b)
    BY <2>1
  <2> QED BY <2>2 DEF a, b, c
<1>9. {"purchased", "consumed", "discarded"} \subseteq EventType
  BY DEF EventType
<1> QED BY <1>2, <1>3, <1>5, <1>6, <1>7, <1>8, <1>9, LotOfTotal DEF combine_lots

-----------------------------------------------------------------------------
(* The events of E whose lot is k, and the lots of two snapshots merged. *)
Keyed(E, k) == {e \in E : KeyOf(e) = k}
Merged(left, right) ==
  [k \in DOMAIN left \cup DOMAIN right |->
     IF k \notin DOMAIN right THEN left[k]
     ELSE IF k \notin DOMAIN left THEN right[k]
     ELSE combine_lots(left[k], right[k])]

(* What a set of events means is what the two halves of any split of it     *)
(* mean, merged lot by lot as combine_snapshots does: the law stated in the *)
(* docstring of the domain module, for every finite set of events.          *)
THEOREM ReferenceMerges ==
  ASSUME NEW A \in SUBSET Events, NEW B \in SUBSET Events,
         IsFiniteSet(A), IsFiniteSet(B), A \cap B = {}
  PROVE  Reference(A \cup B) = Merged(Reference(A), Reference(B))
<1> DEFINE D == {KeyOf(e) : e \in A} \cup {KeyOf(e) : e \in B}
           Body(k) == IF k \notin DOMAIN Reference(B) THEN Reference(A)[k]
                      ELSE IF k \notin DOMAIN Reference(A) THEN Reference(B)[k]
                      ELSE combine_lots(Reference(A)[k], Reference(B)[k])
<1>1. /\ DOMAIN Reference(A) = {KeyOf(e) : e \in A}
      /\ DOMAIN Reference(B) = {KeyOf(e) : e \in B}
      /\ \A k \in DOMAIN Reference(A) : Reference(A)[k] = LotOf(Keyed(A, k))
      /\ \A k \in DOMAIN Reference(B) : Reference(B)[k] = LotOf(Keyed(B, k))
  BY DEF Reference, Keyed
<1>2. {KeyOf(e) : e \in A \cup B} = D
  OBVIOUS
<1>3. Reference(A \cup B) = [k \in D |-> LotOf(Keyed(A \cup B, k))]
  BY <1>2 DEF Reference, Keyed
<1>4. ASSUME NEW k \in D PROVE LotOf(Keyed(A \cup B, k)) = Body(k)
  <2>1. /\ Keyed(A \cup B, k) = Keyed(A, k) \cup Keyed(B, k)
        /\ Keyed(A, k) \in SUBSET A /\ Keyed(B, k) \in SUBSET B
        /\ Keyed(A, k) \cap Keyed(B, k) = {}
        /\ k \in DOMAIN Reference(A) <=> Keyed(A, k) # {}
        /\ k \in DOMAIN Reference(B) <=> Keyed(B, k) # {}
    BY <1>1 DEF Keyed
  <2>2. IsFiniteSet(Keyed(A, k)) /\ IsFiniteSet(Keyed(B, k))
    BY <2>1, FS_Subset
  <2>3. CASE Keyed(B, k) = {}
    <3>1. Keyed(A \cup B, k) = Keyed(A, k) /\ k \in DOMAIN Reference(A)
      BY <1>1, <2>1, <2>3
    <3> QED BY <1>1, <2>1, <2>3, <3>1
  <2>4. CASE Keyed(A, k) = {} /\ Keyed(B, k) # {}
    <3>1. Keyed(A \cup B, k) = Keyed(B, k)
      BY <2>1, <2>4
    <3> QED BY <1>1, <2>1, <2>4, <3>1
  <2>5. CASE Keyed(A, k) # {} /\ Keyed(B, k) # {}
    <3>1. Keyed(A, k) \in SUBSET Events /\ Keyed(B, k) \in SUBSET Events
      BY <2>1
    <3>2. LotOf(Keyed(A, k) \cup Keyed(B, k)) =
            combine_lots(LotOf(Keyed(A, k)), LotOf(Keyed(B, k)))
      BY <2>1, <2>2, <2>5, <3>1, LotOfUnion
    <3> QED BY <1>1, <2>1, <2>5, <3>2
  <2> QED BY <2>3, <2>4, <2>5
<1>5. Merged(Reference(A), Reference(B)) = [k \in D |-> Body(k)]
  BY <1>1 DEF Merged
<1> HIDE DEF D, Body
<1> QED BY <1>3, <1>4, <1>5

(* One event more is absorbed the way apply_events does it. *)
LEMMA ReferenceAbsorbs ==
  ASSUME NEW E \in SUBSET Events, IsFiniteSet(E), NEW e \in Events, e \notin E
  PROVE  Reference(E \cup {e}) =
           Absorb(Reference(E), for_event(e), lot_from_event(e))
<1>1. {e} \in SUBSET Events /\ IsFiniteSet({e}) /\ E \cap {e} = {}
  BY FS_Singleton
<1>2. Reference(E \cup {e}) = Merged(Reference(E), Reference({e}))
  BY <1>1, ReferenceMerges
<1>3. KeyOf(e) = for_event(e)
  BY DEF KeyOf, for_event, normalize_unit
<1>4. Reference({e}) = [k \in {for_event(e)} |-> lot_from_event(e)]
  <2>1. {KeyOf(x) : x \in {e}} = {for_event(e)}
    BY <1>3
  <2>2. \A k \in {for_event(e)} : {x \in {e} : KeyOf(x) = k} = {e}
    BY <1>3
  <2>3. Reference({e}) =
          [k \in {for_event(e)} |-> LotOf({x \in {e} : KeyOf(x) = k})]
    BY <2>1 DEF Reference
  <2> QED BY <2>2, <2>3, LotOfOne
<1> DEFINE R == Reference(E)
           key == for_event(e)
           lot == lot_from_event(e)
<1> HIDE DEF R, key, lot
<1>5. Merged(R, [k \in {key} |-> lot]) = Absorb(R, key, lot)
  BY DEF Merged, Absorb
<1> QED BY <1>2, <1>4, <1>5 DEF R, key, lot

(* FoldIsReference with what it needs to be inductive: the events folded so *)
(* far are finitely many, in one shard only and not offered again.          *)
ReferenceInv ==
  /\ folded \in [Shards -> SUBSET Events]
  /\ \A s \in Shards : /\ IsFiniteSet(folded[s])
                       /\ folded[s] \cap todo = {}
                       /\ shard[s].household = Household
  /\ folded["left"] \cap folded["right"] = {}
  /\ FoldIsReference

(* Empty snapshots are what no events mean. *)
LEMMA ReferenceInit == Init => ReferenceInv
<1> SUFFICES ASSUME Init PROVE ReferenceInv
  OBVIOUS
<1>1. Reference({}) = [key \in {} |-> None]
  BY DEF Reference
<1>2. \A s \in Shards : /\ shard[s] = empty_snapshot(Household, 0)
                        /\ folded[s] = {}
  BY DEF Init
<1>3. FoldIsReference
  <2>1. \A s \in Shards : shard[s].lots = [key \in {} |-> None]
    BY <1>2 DEF empty_snapshot
  <2>2. \A s \in Shards : shard[s].lots = Reference(folded[s])
    BY <1>1, <1>2, <2>1, Zenon
  <2>3. \A s \in Shards : \A e \in folded[s] : e.household = Household
    BY <1>2
  <2> QED BY <2>2, <2>3 DEF FoldIsReference
<1>4. folded["left"] = {} /\ \A s \in Shards : shard[s].household = Household
  BY <1>2 DEF Shards, empty_snapshot
<1>5. folded \in [Shards -> SUBSET Events]
  BY DEF Init
<1> QED BY <1>2, <1>3, <1>4, <1>5, FS_EmptySet DEF ReferenceInv

(* A fold step keeps both shards what their events mean. *)
LEMMA ReferenceStep == FoldInv /\ ReferenceInv /\ [Next]_vars => ReferenceInv'
<1> SUFFICES ASSUME FoldInv, ReferenceInv, [Next]_vars PROVE ReferenceInv'
  OBVIOUS
<1>1. ASSUME UNCHANGED vars PROVE ReferenceInv'
  BY <1>1 DEF vars, ReferenceInv, FoldIsReference
<1>2. ASSUME NEW s \in Shards, NEW e \in todo, NEW t \in Time, Fold(s, e, t)
      PROVE  ReferenceInv'
  <2>1. /\ e \in Events /\ e \notin folded[s] /\ folded[s] \in SUBSET Events
        /\ IsFiniteSet(folded[s]) /\ shard[s].household = Household
        /\ e.household = Household
    BY <1>2 DEF FoldInv, ReferenceInv, Fold, Refused
  <2>2. /\ folded' \in [Shards -> SUBSET Events]
        /\ folded'[s] = folded[s] \cup {e}
        /\ \A q \in Shards \ {s} : /\ folded'[q] = folded[q]
                                   /\ shard'[q] = shard[q]
        /\ shard'[s] = apply_event(shard[s], e, t)
        /\ todo' = todo \ {e}
    BY <1>2, <2>1 DEF FoldInv, ReferenceInv, Fold
  <2>3. shard'[s].lots = Reference(folded'[s])
    <3>1. shard[s].lots = Reference(folded[s])
      BY DEF ReferenceInv, FoldIsReference
    <3>2. shard'[s].lots =
            Absorb(Reference(folded[s]), for_event(e), lot_from_event(e))
      BY <2>2, <3>1 DEF apply_event
    <3> QED BY <2>1, <2>2, <3>2, ReferenceAbsorbs
  <2>4. FoldIsReference'
    <3>1. \A q \in Shards : shard'[q].lots = Reference(folded'[q])
      BY <2>2, <2>3 DEF ReferenceInv, FoldIsReference
    <3>2. \A q \in Shards : \A x \in folded'[q] : x.household = Household
      BY <2>1, <2>2 DEF ReferenceInv, FoldIsReference
    <3> QED BY <3>1, <3>2 DEF FoldIsReference
  <2>5. \A q \in Shards : shard'[q].household = Household
    BY <2>1, <2>2 DEF ReferenceInv, apply_event
  <2>6. \A q \in Shards : IsFiniteSet(folded'[q]) /\ folded'[q] \cap todo' = {}
    <3>1. IsFiniteSet(folded[s] \cup {e})
      BY <2>1, FS_AddElement
    <3> QED BY <2>2, <3>1 DEF ReferenceInv
  <2>7. folded'["left"] \cap folded'["right"] = {}
    BY <2>2 DEF ReferenceInv, Shards
  <2> QED BY <2>2, <2>4, <2>5, <2>6, <2>7 DEF ReferenceInv
<1>3. ASSUME NEW s \in Shards, NEW t \in Time, FoldNothing(s, t)
      PROVE  ReferenceInv'
  <2>1. \A q \in Shards : /\ shard'[q].lots = shard[q].lots
                          /\ shard'[q].household = shard[q].household
    BY <1>3 DEF FoldNothing, FoldInv
  <2>2. todo' = todo /\ folded' = folded
    BY <1>3 DEF FoldNothing
  <2> QED BY <2>1, <2>2 DEF ReferenceInv, FoldIsReference
<1> QED BY <1>1, <1>2, <1>3 DEF Next, Folded

(* Both hold in every reachable state. *)
LEMMA ReferenceHolds == Spec => [](FoldInv /\ ReferenceInv)
BY FoldInvInit, FoldInvStep, ReferenceInit, ReferenceStep, PTL DEF Spec

(* For any events, in whatever order and however late they are folded and   *)
(* however they are sharded, each shard is what its set of events means:    *)
(* column by column, for lots of any number of events.                      *)
THEOREM FoldMatchesReference == Spec => []FoldIsReference
<1>1. ReferenceInv => FoldIsReference
  BY DEF ReferenceInv
<1> QED BY <1>1, ReferenceHolds, PTL

(* Merging two shards gives what folding all their events would: the law    *)
(* fold(A u B) == combine(fold(A), fold(B)) of the module's docstring.      *)
THEOREM MergeMatchesReference == Spec => []MergeIsReference
<1>1. ReferenceInv => MergeIsReference
  <2> SUFFICES ASSUME ReferenceInv PROVE MergeIsReference
    OBVIOUS
  <2> DEFINE A == folded["left"]
             B == folded["right"]
  <2>1. /\ A \in SUBSET Events /\ B \in SUBSET Events
        /\ IsFiniteSet(A) /\ IsFiniteSet(B) /\ A \cap B = {}
        /\ shard["left"].lots = Reference(A)
        /\ shard["right"].lots = Reference(B)
    BY DEF ReferenceInv, FoldIsReference, Shards
  <2>2. combine_snapshots(shard["left"], shard["right"]).lots =
          Merged(shard["left"].lots, shard["right"].lots)
    BY DEF combine_snapshots, Merged
  <2>3. Reference(A \cup B) = Merged(Reference(A), Reference(B))
    BY <2>1, ReferenceMerges
  <2> QED BY <2>1, <2>2, <2>3 DEF MergeIsReference
<1> QED BY <1>1, ReferenceHolds, PTL

-----------------------------------------------------------------------------
(* Lots, and a snapshot of household h, whatever they were folded from. *)
IsLots(lots) == /\ lots = [k \in DOMAIN lots |-> lots[k]]
                /\ \A k \in DOMAIN lots : lots[k] \in LotState
IsSnapshot(snap, h) ==
  /\ snap = [household |-> h, as_of |-> snap.as_of, lots |-> snap.lots]
  /\ snap.as_of \in Time
  /\ IsLots(snap.lots)

(* Merging lots is commutative and associative, lot by lot. *)
LEMMA MergedLaws ==
  ASSUME NEW a, NEW b, NEW c, IsLots(a), IsLots(b), IsLots(c)
  PROVE  /\ IsLots(Merged(a, b))
         /\ Merged(a, b) = Merged(b, a)
         /\ Merged(Merged(a, b), c) = Merged(a, Merged(b, c))
<1>1. \A x, y, z \in LotState :
        /\ combine_lots(x, y) \in LotState
        /\ combine_lots(x, y) = combine_lots(y, x)
        /\ combine_lots(combine_lots(x, y), z) =
             combine_lots(x, combine_lots(y, z))
  BY CombineLaws
<1>2. IsLots(Merged(a, b))
  BY <1>1 DEF IsLots, Merged
<1>3. Merged(a, b) = Merged(b, a)
  <2>1. \A k \in DOMAIN a \cup DOMAIN b : Merged(a, b)[k] = Merged(b, a)[k]
    BY <1>1 DEF IsLots, Merged
  <2> QED BY <2>1 DEF Merged
<1>4. Merged(Merged(a, b), c) = Merged(a, Merged(b, c))
  <2>1. /\ DOMAIN Merged(a, b) = DOMAIN a \cup DOMAIN b
        /\ DOMAIN Merged(b, c) = DOMAIN b \cup DOMAIN c
    BY DEF Merged
  <2>2. \A k \in DOMAIN a \cup DOMAIN b \cup DOMAIN c :
          Merged(Merged(a, b), c)[k] = Merged(a, Merged(b, c))[k]
    BY <1>1, <2>1 DEF IsLots, Merged
  <2>3. DOMAIN a \cup DOMAIN b \cup DOMAIN c =
          DOMAIN a \cup (DOMAIN b \cup DOMAIN c)
    OBVIOUS
  <2> QED BY <2>1, <2>2, <2>3 DEF Merged
<1> QED BY <1>2, <1>3, <1>4

(* The snapshots of a household are a commutative monoid under              *)
(* combine_snapshots, with the empty snapshot at the beginning of time as   *)
(* its identity: shards may be merged in any grouping and any order.        *)
THEOREM SnapshotLaws ==
  ASSUME NEW h, NEW a, NEW b, NEW c,
         IsSnapshot(a, h), IsSnapshot(b, h), IsSnapshot(c, h)
  PROVE  /\ IsSnapshot(combine_snapshots(a, b), h)
         /\ combine_snapshots(a, b) = combine_snapshots(b, a)
         /\ combine_snapshots(combine_snapshots(a, b), c) =
              combine_snapshots(a, combine_snapshots(b, c))
         /\ combine_snapshots(a, empty_snapshot(h, 0)) = a
<1>1. \A x, y : combine_snapshots(x, y) =
                  [household |-> x.household, as_of |-> upper(x.as_of, y.as_of),
                   lots |-> Merged(x.lots, y.lots)]
  BY DEF combine_snapshots, Merged
<1>2. /\ a.household = h /\ b.household = h /\ c.household = h
      /\ a.as_of \in Time /\ b.as_of \in Time /\ c.as_of \in Time
      /\ IsLots(a.lots) /\ IsLots(b.lots) /\ IsLots(c.lots)
  BY DEF IsSnapshot
<1>3. \A s, t, u \in Time :
        /\ upper(s, t) \in Time /\ upper(s, t) = upper(t, s)
        /\ upper(upper(s, t), u) = upper(s, upper(t, u))
        /\ upper(s, 0) = s
  BY DEF upper, Time
<1>4. /\ IsLots(Merged(a.lots, b.lots))
      /\ Merged(a.lots, b.lots) = Merged(b.lots, a.lots)
      /\ Merged(Merged(a.lots, b.lots), c.lots) =
           Merged(a.lots, Merged(b.lots, c.lots))
  BY <1>2, MergedLaws
<1>5. Merged(a.lots, [key \in {} |-> None]) = a.lots
  BY <1>2 DEF Merged, IsLots
<1>6. IsSnapshot(combine_snapshots(a, b), h)
  BY <1>1, <1>2, <1>3, <1>4 DEF IsSnapshot
<1>7. combine_snapshots(a, b) = combine_snapshots(b, a)
  BY <1>1, <1>2, <1>3, <1>4
<1>8. combine_snapshots(combine_snapshots(a, b), c) =
        combine_snapshots(a, combine_snapshots(b, c))
  BY <1>1, <1>2, <1>3, <1>4
<1>9. combine_snapshots(a, empty_snapshot(h, 0)) = a
  <2>1. combine_snapshots(a, empty_snapshot(h, 0)) =
          [household |-> h, as_of |-> a.as_of, lots |-> a.lots]
    BY <1>1, <1>2, <1>3, <1>5 DEF empty_snapshot
  <2> QED BY <2>1 DEF IsSnapshot
<1> QED BY <1>6, <1>7, <1>8, <1>9

(* Two events may be handed to apply_events in either order, the second     *)
(* with a later as_of or not: late arrival does not show in the result.     *)
THEOREM ArrivalOrder ==
  ASSUME NEW h, NEW snap, IsSnapshot(snap, h),
         NEW e \in Events, NEW f \in Events, NEW s \in Time, NEW t \in Time
  PROVE  apply_event(apply_event(snap, e, s), f, t) =
           apply_event(apply_event(snap, f, s), e, t)
<1> DEFINE one(x) == [k \in {for_event(x)} |-> lot_from_event(x)]
<1>1. \A lots : \A x \in Events :
        Absorb(lots, for_event(x), lot_from_event(x)) = Merged(lots, one(x))
  BY DEF Absorb, Merged
<1>2. \A x \in Events : IsLots(one(x))
  <2>1. \A x \in Events : lot_from_event(x) \in LotState
    BY EventFields DEF lot_from_event, LotState
  <2> QED BY <2>1 DEF IsLots
<1> HIDE DEF one
<1>3. IsLots(snap.lots)
  BY DEF IsSnapshot
<1>4. Merged(Merged(snap.lots, one(e)), one(f)) =
        Merged(Merged(snap.lots, one(f)), one(e))
  <2>1. /\ Merged(Merged(snap.lots, one(e)), one(f)) =
             Merged(snap.lots, Merged(one(e), one(f)))
        /\ Merged(Merged(snap.lots, one(f)), one(e)) =
             Merged(snap.lots, Merged(one(f), one(e)))
        /\ Merged(one(e), one(f)) = Merged(one(f), one(e))
    BY <1>2, <1>3, MergedLaws
  <2> QED BY <2>1
<1> QED BY <1>1, <1>4 DEF apply_event
=============================================================================
