------------------------- MODULE DelegationKeyProofs -------------------------
(***************************************************************************)
(* Proofs about DelegationKey, for every number of requests and every      *)
(* choice of lifetimes in which a key outlives a URL.                      *)
(***************************************************************************)
EXTENDS DelegationKey, QueueLemmas

(* The first states are invariant: nothing is cached, issued or queued. *)
LEMMA InitInv == Init => Inv
  BY KeyAssumption DEF Init, Inv, TypeOK, Queued, Cached, Cold, TicketWithinKey,
     NoNeedlessFetch, CanSign

(* A request of time t that the cached key can serve gets a URL that lies   *)
(* within the key's life.                                                   *)
LEMMA CachedSigns ==
  ASSUME Inv, NEW u \in Uploads, NEW t \in 0..MaxTime,
         CanSign(t), key.start <= t - Allowance, Issue(u, t, key)
  PROVE  /\ ticket' \in [Uploads -> Tickets \cup {NoKey}]
         /\ TicketWithinKey'
<1>1. /\ key \in Keys
      /\ t + SasTTL <= key.expiry
  BY KeyAssumption DEF Inv, TypeOK, Cached, CanSign, Keys
<1>2. [start |-> t - Allowance, expiry |-> t + SasTTL, signed |-> key] \in Tickets
  BY <1>1, KeyAssumption DEF Tickets
<1> QED
  BY <1>1, <1>2 DEF Inv, TypeOK, TicketWithinKey, Issue

(* A request that has fetched a key gets a URL within that key's life. *)
LEMMA FetchedSigns ==
  ASSUME Inv, NEW u \in Uploads, NEW t \in 0..MaxTime, Issue(u, t, Fetched(t))
  PROVE  /\ ticket' \in [Uploads -> Tickets \cup {NoKey}]
         /\ TicketWithinKey'
<1>1. /\ Fetched(t) \in Keys
      /\ Fetched(t).start = t - Allowance
      /\ t + SasTTL <= Fetched(t).expiry
  BY KeyAssumption DEF Fetched, Keys
<1>2. [start |-> t - Allowance, expiry |-> t + SasTTL, signed |-> Fetched(t)] \in Tickets
  BY <1>1, KeyAssumption DEF Tickets
<1>3. /\ ticket'[u] = [start |-> t - Allowance, expiry |-> t + SasTTL,
                       signed |-> Fetched(t)]
      /\ \A v \in Uploads \ {u} : ticket'[v] = ticket[v]
      /\ ticket' \in [Uploads -> Tickets \cup {NoKey}]
  BY <1>2 DEF Inv, TypeOK, Issue
<1>4. /\ ticket'[u].signed.start = t - Allowance
      /\ ticket'[u].start = t - Allowance
      /\ ticket'[u].signed.expiry = Fetched(t).expiry
      /\ ticket'[u].expiry = t + SasTTL
  BY <1>1, <1>3
<1>5. t - Allowance <= t - Allowance
  BY KeyAssumption
<1> QED
  BY <1>1, <1>3, <1>4, <1>5 DEF Inv, TicketWithinKey

LEMMA AskInv ==
  ASSUME Inv, NEW u \in Uploads, Ask(u)
  PROVE  Inv'
<1> USE KeyAssumption
<1>0. now \in 0..MaxTime /\ pc[u] = "idle"
  BY DEF Inv, TypeOK, Ask
<1>1. \A i \in 1..Len(queue) : queue[i] # u /\ queue[i] \in Uploads
  BY <1>0 DEF Inv, TypeOK, Queued
<1>2. CASE ~configured
  <2>1. TypeOK' /\ TicketWithinKey'
    BY <1>0, <1>2 DEF Ask, Inv, TypeOK, TicketWithinKey, Goto
  <2>2. Queued'
    BY <1>0, <1>1, <1>2 DEF Ask, Inv, TypeOK, Queued, Goto
  <2>3. Cached' /\ Cold'
    BY <1>0, <1>1, <1>2 DEF Ask, Inv, TypeOK, Cached, Cold
  <2>4. NoNeedlessFetch'
    BY <1>0, <1>2 DEF Ask, Inv, TypeOK, NoNeedlessFetch, CanSign, Goto
  <2> QED BY <2>1, <2>2, <2>3, <2>4 DEF Inv
<1>3. CASE configured /\ CanSign(now)
  <2>1. Issue(u, now, key) /\ key.start <= now - Allowance
    BY <1>3 DEF Ask, Inv, Cached, CanSign
  <2>2. TypeOK' /\ TicketWithinKey'
    BY <1>0, <1>3, <2>1, CachedSigns DEF Ask, Inv, TypeOK, Issue, Goto
  <2>3. Queued'
    <3>1. /\ queue' = queue /\ now' = now
          /\ pc' = [pc EXCEPT ![u] = "issued"]
          /\ requested' = [requested EXCEPT ![u] = now]
      BY <1>3 DEF Ask, CanSign, Issue, Goto
    <3> QED BY <1>1, <3>1 DEF Inv, TypeOK, Queued
  <2>4. Cached' /\ Cold'
    BY <1>0, <1>1, <1>3 DEF Ask, Inv, TypeOK, Cached, Cold
  <2>5. NoNeedlessFetch'
    BY <1>0, <1>3 DEF Ask, Inv, TypeOK, NoNeedlessFetch, CanSign, Issue, Goto
  <2> QED BY <2>2, <2>3, <2>4, <2>5 DEF Inv
<1>4. CASE configured /\ ~CanSign(now)
  <2>1. queue' = Append(queue, u) /\ Goto(u, "wait") /\ ticket' = ticket
    BY <1>4 DEF Ask
  <2>2. /\ queue' \in Seq(Uploads)
        /\ Len(queue') = Len(queue) + 1
        /\ queue'[Len(queue) + 1] = u
        /\ \A i \in 1..Len(queue) : queue'[i] = queue[i]
        /\ Len(queue) \in Nat
    <3>1. queue \in Seq(Uploads)
      BY DEF Inv, TypeOK
    <3>2. /\ Append(queue, u) \in Seq(Uploads)
          /\ Len(Append(queue, u)) = Len(queue) + 1 /\ Len(queue) \in Nat
          /\ \A i \in 1..Len(queue) : Append(queue, u)[i] = queue[i]
          /\ Append(queue, u)[Len(queue) + 1] = u
      BY <3>1, AppendFacts
    <3> QED BY <2>1, <3>2
  <2>3. TypeOK' /\ TicketWithinKey'
    BY <1>0, <2>1, <2>2 DEF Ask, Inv, TypeOK, TicketWithinKey, Goto
  <2>4. /\ requested'[u] = now
        /\ now' = now
        /\ \A i \in 1..Len(queue) : /\ requested'[queue[i]] = requested[queue[i]]
                                    /\ requested[queue[i]] <= now
                                    /\ pc'[queue[i]] = pc[queue[i]]
    BY <1>1, <2>1 DEF Ask, Inv, TypeOK, Queued, Goto
  <2>5. Queued'
    <3>1. \A i \in 1..Len(queue') : /\ pc'[queue'[i]] \in {"wait", "fetch"}
                                    /\ requested'[queue'[i]] <= now'
      BY <1>0, <2>1, <2>2, <2>4 DEF Inv, TypeOK, Queued, Goto
    <3>2. \A i, j \in 1..Len(queue') :
             i < j => /\ requested'[queue'[i]] <= requested'[queue'[j]]
                      /\ queue'[i] # queue'[j]
      <4> SUFFICES ASSUME NEW i \in 1..Len(queue'), NEW j \in 1..Len(queue'), i < j
                   PROVE  /\ requested'[queue'[i]] <= requested'[queue'[j]]
                          /\ queue'[i] # queue'[j]
        OBVIOUS
      <4>1. i \in 1..Len(queue)
        BY <2>2
      <4>2. CASE j \in 1..Len(queue)
        BY <2>2, <2>4, <4>1, <4>2 DEF Inv, Queued
      <4>3. CASE j = Len(queue) + 1
        BY <1>1, <2>2, <2>4, <4>1, <4>3
      <4> QED BY <2>2, <4>2, <4>3
    <3>3. \A v \in Uploads : pc'[v] = "fetch" => queue' # <<>> /\ queue'[1] = v
      <4> SUFFICES ASSUME NEW v \in Uploads, pc'[v] = "fetch"
                   PROVE  queue' # <<>> /\ queue'[1] = v
        OBVIOUS
      <4>1. pc[v] = "fetch"
        BY <2>1 DEF Inv, TypeOK, Goto
      <4>2. queue # <<>> /\ queue[1] = v /\ Len(queue) > 0
        BY <4>1 DEF Inv, TypeOK, Queued
      <4> QED BY <2>2, <4>2
    <3> QED BY <3>1, <3>2, <3>3 DEF Queued
  <2>6. Cached' /\ Cold'
    <3>1. key' = key /\ usable' = usable
      BY DEF Ask
    <3>2. \A i \in 1..Len(queue') : \/ i \in 1..Len(queue)
                                    \/ i = Len(queue) + 1
      BY <2>2
    <3>3. key # NoKey => \A i \in 1..Len(queue') :
                            key.start <= requested'[queue'[i]] - Allowance
      BY <2>2, <2>4, <3>2 DEF Inv, Cached
    <3> QED BY <2>4, <3>1, <3>3 DEF Inv, Cached, Cold
  <2>7. NoNeedlessFetch'
    BY <1>0, <2>1 DEF Ask, Inv, TypeOK, NoNeedlessFetch, CanSign, Goto
  <2> QED BY <2>3, <2>5, <2>6, <2>7 DEF Inv
<1> QED BY <1>2, <1>3, <1>4 DEF Ask

(* What is common to every step that leaves the lock. *)
LEMMA LeaveInv ==
  ASSUME Inv, NEW u \in Uploads, queue # <<>>, Head(queue) = u,
         queue' = Tail(queue), requested' = requested, now' = now,
         NEW label \in {"issued", "refused"}, Goto(u, label)
  PROVE  /\ queue' \in Seq(Uploads)
         /\ pc' \in [Uploads -> {"idle", "wait", "fetch", "issued", "refused"}]
         /\ Queued'
         /\ \A v \in Uploads : pc'[v] # "fetch"
         /\ \A i \in 1..Len(queue') :
              /\ requested[u] <= requested'[queue'[i]]
              /\ \E j \in 1..Len(queue) : queue'[i] = queue[j]
<1>1. /\ queue' \in Seq(Uploads)
      /\ Len(queue') = Len(queue) - 1
      /\ Len(queue) \in Nat \ {0}
      /\ queue[1] = u
      /\ \A i \in 1..Len(queue') : /\ i + 1 \in 1..Len(queue)
                                   /\ queue'[i] = queue[i + 1]
                                   /\ queue'[i] \in Uploads
  BY TailFacts DEF Inv, TypeOK
<1>2. pc' \in [Uploads -> {"idle", "wait", "fetch", "issued", "refused"}]
  BY DEF Inv, TypeOK, Goto
<1>3. \A v \in Uploads : pc'[v] # "fetch"
  BY <1>1 DEF Inv, TypeOK, Queued, Goto
<1>4. \A i \in 1..Len(queue') : /\ queue'[i] # u
                                /\ requested[u] <= requested'[queue'[i]]
                                /\ requested'[queue'[i]] <= now'
                                /\ pc'[queue'[i]] = pc[queue[i + 1]]
                                /\ pc'[queue'[i]] \in {"wait", "fetch"}
  <2> SUFFICES ASSUME NEW i \in 1..Len(queue')
               PROVE  /\ queue'[i] # u
                      /\ requested[u] <= requested'[queue'[i]]
                      /\ requested'[queue'[i]] <= now'
                      /\ pc'[queue'[i]] = pc[queue[i + 1]]
                      /\ pc'[queue'[i]] \in {"wait", "fetch"}
    OBVIOUS
  <2>1. 1 \in 1..Len(queue) /\ i + 1 \in 1..Len(queue) /\ 1 < i + 1
    BY <1>1
  <2>2. queue'[i] # u /\ requested[u] <= requested'[queue'[i]]
    BY <1>1, <2>1 DEF Inv, Queued
  <2>3. pc'[queue'[i]] = pc[queue[i + 1]]
    BY <1>1, <2>2 DEF Inv, TypeOK, Goto
  <2> QED BY <1>1, <2>1, <2>2, <2>3 DEF Inv, Queued
<1>5. \A i, j \in 1..Len(queue') : i < j =>
         /\ requested'[queue'[i]] <= requested'[queue'[j]]
         /\ queue'[i] # queue'[j]
  <2> SUFFICES ASSUME NEW i \in 1..Len(queue'), NEW j \in 1..Len(queue'), i < j
               PROVE  /\ requested'[queue'[i]] <= requested'[queue'[j]]
                      /\ queue'[i] # queue'[j]
    OBVIOUS
  <2>1. i + 1 \in 1..Len(queue) /\ j + 1 \in 1..Len(queue) /\ i + 1 < j + 1
    BY <1>1
  <2> QED BY <1>1, <2>1 DEF Inv, Queued
<1>6. Queued'
  BY <1>3, <1>4, <1>5 DEF Queued
<1> QED BY <1>1, <1>2, <1>3, <1>4, <1>6

LEMMA EnterInv ==
  ASSUME Inv, NEW u \in Uploads, Enter(u)
  PROVE  Inv'
<1> USE KeyAssumption
<1>1. /\ queue # <<>> /\ Head(queue) = u /\ queue[1] = u /\ pc[u] = "wait"
      /\ Len(queue) \in Nat \ {0}
  BY TailFacts DEF Enter, AtHead, Inv, TypeOK
<1>2. CASE CanSign(requested[u])
  <2>1. Issue(u, requested[u], key) /\ queue' = Tail(queue) /\ began' = began
    BY <1>2 DEF Enter
  <2>2. key.start <= requested[u] - Allowance
    BY <1>1, <1>2 DEF Inv, Cached, CanSign
  <2>3. requested[u] \in 0..MaxTime
    BY DEF Inv, TypeOK
  <2>4. ticket' \in [Uploads -> Tickets \cup {NoKey}] /\ TicketWithinKey'
    BY <1>2, <2>1, <2>2, <2>3, CachedSigns
  <2>5. /\ queue' \in Seq(Uploads)
        /\ pc' \in [Uploads -> {"idle", "wait", "fetch", "issued", "refused"}]
        /\ Queued'
        /\ \A v \in Uploads : pc'[v] # "fetch"
        /\ \A i \in 1..Len(queue') : \E j \in 1..Len(queue) : queue'[i] = queue[j]
    BY <1>1, <2>1, LeaveInv DEF Enter, Issue
  <2>6. TypeOK'
    BY <2>1, <2>4, <2>5 DEF Enter, Inv, TypeOK
  <2>7. Cached' /\ Cold' /\ NoNeedlessFetch'
    BY <2>5 DEF Enter, Inv, Cached, Cold, NoNeedlessFetch
  <2> QED BY <2>4, <2>5, <2>6, <2>7 DEF Inv
<1>3. CASE ~CanSign(requested[u])
  <2>1. /\ began' = now /\ Goto(u, "fetch")
        /\ UNCHANGED <<now, configured, key, usable, queue, requested, ticket>>
    BY <1>3 DEF Enter
  <2>2. TypeOK' /\ TicketWithinKey' /\ Cached' /\ Cold'
    BY <2>1 DEF Inv, TypeOK, TicketWithinKey, Cached, Cold, Goto
  <2>3. \A v \in Uploads : pc[v] # "fetch"
    BY <1>1 DEF Inv, Queued
  <2>4. Queued'
    BY <1>1, <2>1, <2>3 DEF Inv, TypeOK, Queued, Goto
  <2>5. NoNeedlessFetch'
    BY <1>3, <2>1, <2>3 DEF Inv, TypeOK, NoNeedlessFetch, CanSign, Goto
  <2> QED BY <2>2, <2>4, <2>5 DEF Inv
<1> QED BY <1>2, <1>3

LEMMA FetchOkInv ==
  ASSUME Inv, NEW u \in Uploads, FetchOk(u)
  PROVE  Inv' /\ usable' >= usable
<1> USE KeyAssumption
<1>1. /\ queue # <<>> /\ Head(queue) = u /\ queue[1] = u /\ pc[u] = "fetch"
      /\ Len(queue) \in Nat \ {0}
      /\ requested[u] \in 0..MaxTime /\ requested[u] <= now
  BY TailFacts DEF FetchOk, AtHead, Inv, TypeOK, Queued
<1>2. /\ queue' \in Seq(Uploads)
      /\ pc' \in [Uploads -> {"idle", "wait", "fetch", "issued", "refused"}]
      /\ Queued'
      /\ \A v \in Uploads : pc'[v] # "fetch"
      /\ \A i \in 1..Len(queue') : requested[u] <= requested'[queue'[i]]
  BY <1>1, LeaveInv DEF FetchOk, Issue
<1>3. ticket' \in [Uploads -> Tickets \cup {NoKey}] /\ TicketWithinKey'
  BY <1>1, FetchedSigns DEF FetchOk
<1>4. /\ key' \in Keys
      /\ key'.start = requested[u] - Allowance
      /\ key'.expiry = requested[u] + KeyTTL
  BY <1>1 DEF FetchOk, Fetched, Keys
<1>5. TypeOK'
  BY <1>1, <1>2, <1>3, <1>4 DEF FetchOk, Inv, TypeOK
<1>6. Cached' /\ Cold'
  <2>1. /\ key'.start <= now' - Allowance
        /\ usable' = key'.expiry - SasTTL
    BY <1>1, <1>4 DEF FetchOk, Inv, TypeOK
  <2>2. \A i \in 1..Len(queue') : key'.start <= requested'[queue'[i]] - Allowance
    <3> SUFFICES ASSUME NEW i \in 1..Len(queue')
                 PROVE  key'.start <= requested'[queue'[i]] - Allowance
      OBVIOUS
    <3>1. queue'[i] \in Uploads
      BY <1>2
    <3>2. requested'[queue'[i]] \in Int
      BY <1>5, <3>1 DEF TypeOK
    <3> QED BY <1>1, <1>2, <1>4, <3>2
  <2> QED BY <1>4, <2>1, <2>2 DEF Cached, Cold
<1>7. NoNeedlessFetch'
  BY <1>2 DEF NoNeedlessFetch
<1>8. usable' >= usable
  BY <1>1 DEF FetchOk, Inv, TypeOK, Cold, NoNeedlessFetch, CanSign
<1> QED BY <1>2, <1>3, <1>5, <1>6, <1>7, <1>8 DEF Inv

LEMMA FetchFailInv ==
  ASSUME Inv, NEW u \in Uploads, FetchFail(u)
  PROVE  Inv'
<1>1. queue # <<>> /\ Head(queue) = u
  BY DEF FetchFail, AtHead
<1>2. /\ queue' \in Seq(Uploads)
      /\ pc' \in [Uploads -> {"idle", "wait", "fetch", "issued", "refused"}]
      /\ Queued'
      /\ \A v \in Uploads : pc'[v] # "fetch"
      /\ \A i \in 1..Len(queue') : \E j \in 1..Len(queue) : queue'[i] = queue[j]
  BY <1>1, LeaveInv DEF FetchFail
<1>3. TypeOK' /\ TicketWithinKey'
  BY <1>2 DEF FetchFail, Inv, TypeOK, TicketWithinKey
<1>4. Cached' /\ Cold' /\ NoNeedlessFetch'
  BY <1>2 DEF FetchFail, Inv, Cached, Cold, NoNeedlessFetch
<1> QED BY <1>2, <1>3, <1>4 DEF Inv

LEMMA TickInv ==
  ASSUME Inv, Tick
  PROVE  Inv'
<1> USE KeyAssumption
<1>1. TypeOK' /\ TicketWithinKey' /\ NoNeedlessFetch' /\ Cold'
  BY DEF Tick, Inv, TypeOK, TicketWithinKey, NoNeedlessFetch, Cold, CanSign
<1>2. Queued' /\ Cached'
  <2>1. now \in Int /\ now' = now + 1
    BY DEF Tick, Inv, TypeOK
  <2>2. \A i \in 1..Len(queue) : requested[queue[i]] \in Int
    BY DEF Inv, TypeOK
  <2>3. key # NoKey => key.start \in Int
    BY DEF Inv, TypeOK, Keys
  <2> QED BY <2>1, <2>2, <2>3 DEF Tick, Inv, Queued, Cached
<1> QED BY <1>1, <1>2 DEF Inv

(* Every step keeps the invariant, and none shortens the use of a key. *)
LEMMA NextInv == Inv /\ [Next]_vars => Inv' /\ usable' >= usable
<1> SUFFICES ASSUME Inv, [Next]_vars
             PROVE  Inv' /\ usable' >= usable
  OBVIOUS
<1>0. usable \in Int
  BY DEF Inv, TypeOK
<1>1. CASE UNCHANGED vars
  <2>1. TypeOK' /\ TicketWithinKey'
    BY <1>1 DEF vars, Inv, TypeOK, TicketWithinKey
  <2>2. Queued' /\ Cached' /\ Cold'
    BY <1>1 DEF vars, Inv, Queued, Cached, Cold
  <2>3. NoNeedlessFetch'
    BY <1>1 DEF vars, Inv, NoNeedlessFetch, CanSign
  <2>4. usable' >= usable
    BY <1>0, <1>1 DEF vars
  <2> QED BY <2>1, <2>2, <2>3, <2>4 DEF Inv
<1>2. CASE Tick
  <2>1. usable' = usable
    BY <1>2 DEF Tick
  <2> QED BY <1>0, <1>2, <2>1, TickInv
<1>3. ASSUME NEW u \in Uploads, Ask(u)
      PROVE  Inv' /\ usable' >= usable
  <2>1. usable' = usable
    BY <1>3 DEF Ask
  <2> QED BY <1>0, <1>3, <2>1, AskInv
<1>4. ASSUME NEW u \in Uploads, Enter(u)
      PROVE  Inv' /\ usable' >= usable
  <2>1. usable' = usable
    BY <1>4 DEF Enter
  <2> QED BY <1>0, <1>4, <2>1, EnterInv
<1>5. ASSUME NEW u \in Uploads, FetchOk(u)
      PROVE  Inv' /\ usable' >= usable
  BY <1>5, FetchOkInv
<1>6. ASSUME NEW u \in Uploads, FetchFail(u)
      PROVE  Inv' /\ usable' >= usable
  <2>1. usable' = usable
    BY <1>6 DEF FetchFail
  <2> QED BY <1>0, <1>6, <2>1, FetchFailInv
<1> QED BY <1>1, <1>2, <1>3, <1>4, <1>5, <1>6 DEF Next, Step, Quiet

(* The cache keeps its invariant through every interleaving of requests,    *)
(* fetches and failures.                                                    *)
THEOREM Invariance == Spec => []Inv
<1>1. Init => Inv
  BY InitInv
<1>2. Inv /\ [Next]_vars => Inv'
  BY NextInv
<1> QED BY <1>1, <1>2, PTL DEF Spec

(* The cache, its lock and the URLs keep their types. *)
THEOREM TypeCorrect == Spec => []TypeOK
<1>1. Inv => TypeOK
  BY DEF Inv
<1> QED BY <1>1, Invariance, PTL

(* No URL outlives its key or starts before it (_delegation_key,            *)
(* upload_ticket).                                                          *)
THEOREM KeyServesTicket == Spec => []TicketWithinKey
<1>1. Inv => TicketWithinKey
  BY DEF Inv
<1> QED BY <1>1, Invariance, PTL

(* No key is fetched that is not needed, and no two at a time               *)
(* (_delegation_key).                                                       *)
THEOREM FetchesNeeded == Spec => []NoNeedlessFetch
<1>1. Inv => NoNeedlessFetch
  BY DEF Inv
<1> QED BY <1>1, Invariance, PTL

(* A key in the cache is only ever replaced by one that retires later. *)
THEOREM RetirementGrows == Spec => UsableGrows
<1>1. Inv /\ [Next]_vars => [usable' >= usable]_vars
  BY NextInv
<1> QED BY <1>1, Invariance, PTL DEF Spec, UsableGrows

-----------------------------------------------------------------------------
(* The refinement. *)

(* The head of the queue is the one that fetches, if any does. *)
LEMMA FillerFacts ==
  ASSUME Inv
  PROVE  /\ (\A v \in Uploads : pc[v] # "fetch") => Filler = NoKey
         /\ \A v \in Uploads : pc[v] = "fetch" => Filler = v /\ Filler # NoKey
<1>1. queue \in Seq(Uploads)
  BY DEF Inv, TypeOK
<1>2. queue # <<>> => Head(queue) = queue[1] /\ queue[1] \in Uploads
  BY <1>1, TailFacts
<1>3. \A v \in Uploads : pc[v] = "fetch" => queue # <<>> /\ queue[1] = v
  BY DEF Inv, Queued
<1> QED BY <1>2, <1>3, KeyAssumption DEF Filler

(* Every step begins a fetch, lands it, gives it up, or leaves the key and  *)
(* whoever fetches alone.                                                   *)
LEMMA StepRefines ==
  ASSUME Inv, Inv', [Next]_vars
  PROVE  \/ \E c \in Uploads : Filler = NoKey /\ Filler' = c /\ key' = key
         \/ Filler # NoKey /\ Filler' = NoKey /\ key' # NoKey
         \/ Filler # NoKey /\ Filler' = NoKey /\ key' = key
         \/ UNCHANGED <<Filler, key>>
<1>0. /\ (\A v \in Uploads : pc'[v] # "fetch") => Filler' = NoKey
      /\ \A v \in Uploads : pc'[v] = "fetch" => Filler' = v /\ Filler' # NoKey
  <2>1. queue' \in Seq(Uploads)
    BY DEF Inv, TypeOK
  <2>2. queue' # <<>> => Head(queue') = queue'[1] /\ queue'[1] \in Uploads
    BY <2>1, TailFacts
  <2>3. \A v \in Uploads : pc'[v] = "fetch" => queue' # <<>> /\ queue'[1] = v
    BY DEF Inv, Queued
  <2> QED BY <2>2, <2>3, KeyAssumption DEF Filler
<1>1. pc \in [Uploads -> {"idle", "wait", "fetch", "issued", "refused"}]
  BY DEF Inv, TypeOK
<1>2. ASSUME NEW u \in Uploads, Ask(u) PROVE UNCHANGED <<Filler, key>>
  <2>1. key' = key /\ \A v \in Uploads : pc'[v] = "fetch" <=> pc[v] = "fetch"
    BY <1>1, <1>2 DEF Ask, Goto, Issue
  <2> QED BY <1>0, <2>1, FillerFacts
<1>3. ASSUME NEW u \in Uploads, AtHead(u, "fetch"), queue' = Tail(queue),
             requested' = requested, now' = now,
             NEW label \in {"issued", "refused"}, Goto(u, label)
      PROVE  Filler # NoKey /\ Filler' = NoKey
  <2>1. \A v \in Uploads : pc'[v] # "fetch"
    BY <1>3, LeaveInv DEF AtHead
  <2> QED BY <1>0, <1>3, <2>1, FillerFacts DEF AtHead
<1>4. ASSUME NEW u \in Uploads, Enter(u)
      PROVE  \/ \E c \in Uploads : Filler = NoKey /\ Filler' = c /\ key' = key
             \/ UNCHANGED <<Filler, key>>
  <2>1. /\ key' = key /\ queue # <<>> /\ Head(queue) = u /\ pc[u] = "wait"
        /\ Filler = NoKey
    BY <1>4 DEF Enter, AtHead, Filler
  <2>2. CASE Goto(u, "fetch")
    <3>1. pc'[u] = "fetch"
      BY <1>1, <2>2 DEF Goto
    <3> QED BY <1>0, <2>1, <3>1
  <2>3. CASE Issue(u, requested[u], key) /\ queue' = Tail(queue)
    <3>1. \A v \in Uploads : pc'[v] # "fetch"
      BY <1>4, <2>1, <2>3, LeaveInv DEF Enter, Issue
    <3> QED BY <1>0, <2>1, <3>1
  <2> QED BY <1>4, <2>2, <2>3 DEF Enter
<1>5. ASSUME NEW u \in Uploads, FetchOk(u)
      PROVE  Filler # NoKey /\ Filler' = NoKey /\ key' # NoKey
  <2>1. Filler # NoKey /\ Filler' = NoKey
    BY <1>3, <1>5 DEF FetchOk, Issue
  <2>2. requested[u] \in Int
    BY DEF Inv, TypeOK
  <2>3. key' \in Keys
    BY <1>5, <2>2, KeyAssumption DEF FetchOk, Fetched, Keys
  <2> QED BY <2>1, <2>3, KeyAssumption
<1>6. ASSUME NEW u \in Uploads, FetchFail(u)
      PROVE  Filler # NoKey /\ Filler' = NoKey /\ key' = key
  BY <1>3, <1>6 DEF FetchFail
<1>7. CASE UNCHANGED vars \/ Tick \/ Quiet
  BY <1>7 DEF vars, Tick, Quiet, Filler
<1> QED BY <1>2, <1>4, <1>5, <1>6, <1>7 DEF Next, Step

(* ReceiptBlobStore implements the single-flight cache: fetches do not      *)
(* overlap, and one that fails leaves the key where it was.                 *)
THEOREM KeyCacheIsSingleFlight == Spec => SingleFetch
<1>1. Init => Flight!Init
  BY DEF Init, Flight!Init, Filler
<1>2. Inv /\ Inv' /\ [Next]_vars => [Flight!Next]_(Flight!flight)
  BY StepRefines DEF Flight!Next, Flight!Begin, Flight!Land, Flight!GiveUp,
                     Flight!flight
<1> QED BY <1>1, <1>2, Invariance, PTL DEF Spec, SingleFetch, Flight!Spec
=============================================================================
