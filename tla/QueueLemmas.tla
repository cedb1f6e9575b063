----------------------------- MODULE QueueLemmas -----------------------------
(***************************************************************************)
(* Facts about the queue that stands for an asyncio.Lock: a sequence whose *)
(* head holds the lock, which is left at the head and joined at the end.   *)
(***************************************************************************)
EXTENDS Integers, Sequences, TLAPS

(* Nobody stands in the queue twice. *)
Distinct(q) == \A i, j \in 1..Len(q) : i < j => q[i] # q[j]

(* What leaving does: the others move up one place. *)
LEMMA TailFacts ==
  ASSUME NEW S, NEW q \in Seq(S), q # <<>>
  PROVE  /\ Tail(q) \in Seq(S)
         /\ Len(q) \in Nat \ {0}
         /\ Len(Tail(q)) = Len(q) - 1
         /\ Head(q) = q[1] /\ q[1] \in S
         /\ \A i \in 1..Len(Tail(q)) : /\ i + 1 \in 1..Len(q)
                                       /\ Tail(q)[i] = q[i + 1]
                                       /\ Tail(q)[i] \in S
  OBVIOUS

(* What joining does: the others keep their places. *)
LEMMA AppendFacts ==
  ASSUME NEW S, NEW q \in Seq(S), NEW u \in S
  PROVE  /\ Append(q, u) \in Seq(S)
         /\ Append(q, u) # <<>>
         /\ Len(q) \in Nat
         /\ Len(Append(q, u)) = Len(q) + 1
         /\ Append(q, u)[Len(q) + 1] = u
         /\ \A i \in 1..Len(q) : Append(q, u)[i] = q[i] /\ q[i] \in S
         /\ \A i \in 1..Len(Append(q, u)) : i \in 1..Len(q) \/ i = Len(q) + 1
<1>1. /\ Append(q, u) \in Seq(S)
      /\ Len(q) \in Nat
      /\ Len(Append(q, u)) = Len(q) + 1
      /\ Append(q, u)[Len(q) + 1] = u
      /\ \A i \in 1..Len(q) : Append(q, u)[i] = q[i] /\ q[i] \in S
  OBVIOUS
<1>2. Len(Append(q, u)) # 0
  BY <1>1
<1>3. Append(q, u) # <<>>
  BY <1>1, <1>2
<1> QED BY <1>1, <1>3

(* Who leaves a queue in which everyone stands once is out of it. *)
LEMMA TailDistinct ==
  ASSUME NEW S, NEW q \in Seq(S), q # <<>>, Distinct(q)
  PROVE  /\ Distinct(Tail(q))
         /\ \A i \in 1..Len(Tail(q)) : Tail(q)[i] # Head(q)
<1>1. /\ Len(q) \in Nat \ {0}
      /\ Head(q) = q[1]
      /\ \A i \in 1..Len(Tail(q)) : /\ i \in Nat \ {0}
                                    /\ i + 1 \in 1..Len(q)
                                    /\ Tail(q)[i] = q[i + 1]
  BY TailFacts
<1>2. \A i \in 1..Len(Tail(q)) : Tail(q)[i] # Head(q)
  <2> SUFFICES ASSUME NEW i \in 1..Len(Tail(q))
               PROVE  Tail(q)[i] # Head(q)
    OBVIOUS
  <2>1. 1 \in 1..Len(q) /\ i + 1 \in 1..Len(q) /\ 1 < i + 1
    BY <1>1
  <2> QED BY <1>1, <2>1 DEF Distinct
<1>3. Distinct(Tail(q))
  <2> SUFFICES ASSUME NEW i \in 1..Len(Tail(q)), NEW j \in 1..Len(Tail(q)), i < j
               PROVE  Tail(q)[i] # Tail(q)[j]
    BY DEF Distinct
  <2>1. i + 1 \in 1..Len(q) /\ j + 1 \in 1..Len(q) /\ i + 1 < j + 1
    BY <1>1
  <2> QED BY <1>1, <2>1 DEF Distinct
<1> QED BY <1>2, <1>3

(* Who was not in the queue joins it once. *)
LEMMA AppendDistinct ==
  ASSUME NEW S, NEW q \in Seq(S), NEW u \in S, Distinct(q),
         \A i \in 1..Len(q) : q[i] # u
  PROVE  Distinct(Append(q, u))
<1> SUFFICES ASSUME NEW i \in 1..Len(Append(q, u)), NEW j \in 1..Len(Append(q, u)),
                    i < j
             PROVE  Append(q, u)[i] # Append(q, u)[j]
  BY DEF Distinct
<1>1. /\ Len(q) \in Nat
      /\ Len(Append(q, u)) = Len(q) + 1
      /\ Append(q, u)[Len(q) + 1] = u
      /\ \A k \in 1..Len(q) : Append(q, u)[k] = q[k]
  BY AppendFacts
<1>2. i \in 1..Len(q)
  BY <1>1
<1>3. CASE j \in 1..Len(q)
  BY <1>1, <1>2, <1>3 DEF Distinct
<1>4. CASE j = Len(q) + 1
  BY <1>1, <1>2, <1>4
<1> QED BY <1>1, <1>3, <1>4
=============================================================================
