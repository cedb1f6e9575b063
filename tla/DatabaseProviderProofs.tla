----------------------- MODULE DatabaseProviderProofs -----------------------
(***************************************************************************)
(* Proofs about DatabaseProvider, for every number of requests and probes  *)
(* and every timeout and cooldown.                                         *)
(***************************************************************************)
EXTENDS DatabaseProvider, QueueLemmas

LEMMA InitInv == Init => Inv
<1> SUFFICES ASSUME Init PROVE Inv
  OBVIOUS
<1> USE DatabaseAssumption
<1>1. TypeOK
  <2>1. 0 \in 0..MaxTime /\ 0 \in 0..(MaxTime + Cooldown) /\ 0 - Cooldown \in Int
    OBVIOUS
  <2>2. pc \in [Tasks -> {"idle", "wait", "using"}] /\ handed \in [Tasks -> Nat]
    BY DEF Init
  <2>3. queue \in Seq(Tasks)
    BY DEF Init
  <2> QED BY <2>1, <2>2, <2>3 DEF Init, TypeOK, Time, Outcomes
<1>2. Queued /\ Lifecycle /\ Sourced /\ Backoff /\ NoNeedlessLookup /\ OneEngine
  BY DEF Init, Queued, Lifecycle, Sourced, Backoff, NoNeedlessLookup, OneEngine, Tasks
<1>3. Paced
  BY DEF Init, Paced
<1> QED BY <1>1, <1>2, <1>3 DEF Inv

(* Every task is a request, a probe or the startup's, and no two of these;  *)
(* what it is told is an outcome.                                           *)
LEMMA OutcomeTypes ==
  ASSUME NEW t \in Tasks
  PROVE  /\ Unavailable(t) \in Outcomes /\ Unavailable(t) # "raised"
         /\ Raised(t) \in Outcomes
         /\ Raised(t) \notin {"unavailable", "not_configured", "warned",
                              "reachable", "unreachable"}
  BY DatabaseAssumption DEF Tasks, Unavailable, Raised, Outcomes

(* A task that ends leaves the engine in place and the others as they are. *)
LEMMA EndKeeps ==
  ASSUME Inv, NEW t \in Tasks, pc[t] # "idle", NEW o \in Outcomes, End(t, o),
         engine' = engine, built' = built
  PROVE  /\ pc' \in [Tasks -> {"idle", "wait", "using"}]
         /\ handed' \in [Tasks -> Nat]
         /\ last' \in Outcomes
         /\ phase' \in {"starting", "serving", "stopping", "stopped", "failed"}
         /\ Lifecycle' /\ OneEngine'
<1>1. /\ pc' = [pc EXCEPT ![t] = "idle"]
      /\ handed' = [handed EXCEPT ![t] = 0]
      /\ last' = o
  BY DEF End
<1>2. /\ t # Warm => phase' = phase
      /\ t = Warm => phase = "starting" /\ phase' \in {"serving", "failed"}
  BY DEF End, Inv, Lifecycle
<1>3. phase # "stopped" /\ phase' # "stopped"
  BY <1>2 DEF Inv, Lifecycle
<1>4. /\ pc' \in [Tasks -> {"idle", "wait", "using"}]
      /\ handed' \in [Tasks -> Nat]
      /\ last' \in Outcomes
      /\ phase' \in {"starting", "serving", "stopping", "stopped", "failed"}
  BY <1>1, <1>2 DEF Inv, TypeOK
<1>5. Lifecycle'
  BY <1>1, <1>2, <1>3 DEF Inv, TypeOK, Lifecycle, Tasks
<1>6. OneEngine'
  BY <1>1, <1>3 DEF Inv, TypeOK, OneEngine
<1> QED BY <1>1, <1>4, <1>5, <1>6

(* A task that is handed the factory of the engine in place, or of the one  *)
(* it has just built, holds the only engine there is.                       *)
LEMMA HandKeeps ==
  ASSUME Inv, NEW t \in Tasks, pc[t] \in {"idle", "wait"}, phase # "stopped",
         t = Warm => phase = "starting",
         NEW e \in Nat, e = 1, engine \in {0, e}, engine' = e, built' = e, Hand(t, e)
  PROVE  /\ pc' \in [Tasks -> {"idle", "wait", "using"}]
         /\ \A s \in Tasks : s # t => pc'[s] = pc[s]
         /\ handed' \in [Tasks -> Nat]
         /\ last' \in Outcomes
         /\ phase' \in {"starting", "serving", "stopping", "stopped", "failed"}
         /\ Lifecycle' /\ OneEngine'
<1>1. CASE t = Warm
  <2>1. /\ pc' = [pc EXCEPT ![t] = "idle"]
        /\ handed' = [handed EXCEPT ![t] = 0]
        /\ last' = "warmed"
        /\ phase' = "serving"
    BY <1>1 DEF Hand, End
  <2>2. /\ pc' \in [Tasks -> {"idle", "wait", "using"}]
        /\ \A s \in Tasks : s # t => pc'[s] = pc[s]
        /\ handed' \in [Tasks -> Nat]
        /\ last' \in Outcomes
    BY <2>1 DEF Inv, TypeOK, Outcomes
  <2>3. Lifecycle'
    BY <1>1, <2>1 DEF Inv, TypeOK, Lifecycle, Tasks
  <2>4. OneEngine'
    BY <2>1 DEF Inv, TypeOK, OneEngine
  <2> QED BY <2>1, <2>2, <2>3, <2>4
<1>2. CASE t # Warm
  <2>1. /\ pc' = [pc EXCEPT ![t] = "using"]
        /\ handed' = [handed EXCEPT ![t] = e]
        /\ last' = last /\ phase' = phase
    BY <1>2 DEF Hand
  <2>2. /\ pc' \in [Tasks -> {"idle", "wait", "using"}]
        /\ \A s \in Tasks : s # t => pc'[s] = pc[s]
        /\ handed' \in [Tasks -> Nat]
        /\ last' \in Outcomes
        /\ phase' \in {"starting", "serving", "stopping", "stopped", "failed"}
    BY <2>1 DEF Inv, TypeOK, Outcomes
  <2>3. Lifecycle'
    BY <1>2, <2>1 DEF Inv, TypeOK, Lifecycle, Tasks
  <2>4. OneEngine'
    BY <2>1 DEF Inv, TypeOK, OneEngine
  <2> QED BY <2>1, <2>2, <2>3, <2>4
<1> QED BY <1>1, <1>2

(* The head of the queue waits, in a replica that has not stopped. *)
LEMMA HeadWaits ==
  ASSUME Inv, NEW t \in Tasks, AtHead(t)
  PROVE  /\ pc[t] = "wait"
         /\ phase # "stopped" /\ engine = built
         /\ t = Warm => phase = "starting"
         /\ queue[1] = t /\ Len(queue) \in Nat \ {0}
<1>1. queue \in Seq(Tasks) /\ queue # <<>> /\ Head(queue) = t
  BY DEF Inv, TypeOK, AtHead
<1>2. queue[1] = t /\ 1 \in 1..Len(queue) /\ Len(queue) \in Nat \ {0}
  BY <1>1, TailFacts
<1>3. pc[t] = "wait"
  BY <1>2 DEF Inv, Queued
<1> QED BY <1>2, <1>3 DEF Inv, Lifecycle

(* What is common to the steps that leave the lock. *)
LEMMA LeaveKeeps ==
  ASSUME Inv, NEW t \in Tasks, AtHead(t), queue' = Tail(queue), looking' = FALSE,
         \A s \in Tasks : s # t => pc'[s] = pc[s]
  PROVE  queue' \in Seq(Tasks) /\ Queued'
<1>1. queue \in Seq(Tasks) /\ queue # <<>> /\ Head(queue) = t
  BY DEF Inv, TypeOK, AtHead
<1>2. Distinct(queue)
  BY DEF Inv, Queued, Distinct
<1>3. /\ queue' \in Seq(Tasks)
      /\ \A i \in 1..Len(queue') : /\ i + 1 \in 1..Len(queue)
                                   /\ queue'[i] = queue[i + 1]
                                   /\ queue'[i] \in Tasks
  BY <1>1, TailFacts
<1>4. Distinct(queue') /\ \A i \in 1..Len(queue') : queue'[i] # t
  BY <1>1, <1>2, TailDistinct
<1>5. \A i \in 1..Len(queue') : pc'[queue'[i]] = "wait"
  BY <1>3, <1>4 DEF Inv, Queued
<1> QED BY <1>3, <1>4, <1>5 DEF Queued, Distinct

LEMMA CallInv ==
  ASSUME Inv, NEW t \in Tasks, Call(t)
  PROVE  Inv'
<1> USE DatabaseAssumption
<1>0. /\ pc[t] = "idle" /\ phase # "stopped" /\ engine = built
      /\ t = Warm => phase = "starting"
      /\ UNCHANGED <<now, environment, engine, built, vaultVars, lookupVars, abandoned>>
  BY DEF Call, Inv, Lifecycle
<1>1. \A i \in 1..Len(queue) : queue[i] # t /\ queue[i] \in Tasks
  BY <1>0 DEF Inv, TypeOK, Queued
<1>2. Sourced' /\ Backoff' /\ Paced'
  BY <1>0 DEF Inv, Sourced, Backoff, Paced, vaultVars, lookupVars
<1>3. CASE engine # 0
  <2>1. Hand(t, engine) /\ queue' = queue /\ engine = 1
    BY <1>0, <1>3 DEF Call, Inv, TypeOK, OneEngine
  <2>2. /\ pc' \in [Tasks -> {"idle", "wait", "using"}]
        /\ \A s \in Tasks : s # t => pc'[s] = pc[s]
        /\ handed' \in [Tasks -> Nat]
        /\ last' \in Outcomes
        /\ phase' \in {"starting", "serving", "stopping", "stopped", "failed"}
        /\ Lifecycle' /\ OneEngine'
    BY <1>0, <2>1, HandKeeps
  <2>3. TypeOK'
    BY <1>0, <2>1, <2>2 DEF Inv, TypeOK, vaultVars, lookupVars
  <2>4. Queued' /\ NoNeedlessLookup'
    BY <1>0, <1>1, <2>1, <2>2 DEF Inv, Queued, NoNeedlessLookup, vaultVars, lookupVars
  <2> QED BY <1>2, <2>2, <2>3, <2>4 DEF Inv
<1>4. CASE engine = 0
  <2>1. /\ pc' = [pc EXCEPT ![t] = "wait"]
        /\ queue' = Append(queue, t)
        /\ UNCHANGED <<phase, handed, last>>
    BY <1>4 DEF Call
  <2>2. /\ queue' \in Seq(Tasks) /\ queue' # <<>>
        /\ Len(queue') = Len(queue) + 1 /\ Len(queue) \in Nat
        /\ queue'[Len(queue) + 1] = t
        /\ \A i \in 1..Len(queue) : queue'[i] = queue[i]
        /\ \A i \in 1..Len(queue') : i \in 1..Len(queue) \/ i = Len(queue) + 1
    <3>1. queue \in Seq(Tasks)
      BY DEF Inv, TypeOK
    <3>2. /\ Append(queue, t) \in Seq(Tasks) /\ Append(queue, t) # <<>>
          /\ Len(Append(queue, t)) = Len(queue) + 1 /\ Len(queue) \in Nat
          /\ \A i \in 1..Len(queue) : Append(queue, t)[i] = queue[i]
          /\ Append(queue, t)[Len(queue) + 1] = t
          /\ \A i \in 1..Len(Append(queue, t)) : i \in 1..Len(queue) \/ i = Len(queue) + 1
      BY <3>1, AppendFacts
    <3> QED BY <2>1, <3>2
  <2>3. Distinct(queue')
    <3>1. Distinct(queue) /\ queue \in Seq(Tasks)
      BY DEF Inv, TypeOK, Queued, Distinct
    <3> QED BY <1>1, <2>1, <3>1, AppendDistinct
  <2>4. TypeOK' /\ OneEngine' /\ Lifecycle'
    BY <1>0, <2>1, <2>2 DEF Inv, TypeOK, OneEngine, Lifecycle, vaultVars, lookupVars
  <2>5. \A i \in 1..Len(queue') : pc'[queue'[i]] = "wait"
    BY <1>1, <2>1, <2>2 DEF Inv, TypeOK, Queued
  <2>6. Queued' /\ NoNeedlessLookup'
    BY <1>0, <2>2, <2>3, <2>5
       DEF Inv, Queued, Distinct, NoNeedlessLookup, vaultVars, lookupVars
  <2> QED BY <1>2, <2>4, <2>6 DEF Inv
<1> QED BY <1>3, <1>4

LEMMA EnterInv ==
  ASSUME Inv, NEW t \in Tasks, Enter(t)
  PROVE  Inv'
<1> USE DatabaseAssumption
<1>0. /\ AtHead(t) /\ looking = FALSE
      /\ UNCHANGED <<now, environment, retry, failed, abandoned>>
  BY DEF Enter, Inv, TypeOK
<1>1. /\ pc[t] = "wait" /\ phase # "stopped" /\ engine = built
      /\ t = Warm => phase = "starting"
      /\ queue # <<>>
  BY <1>0, HeadWaits DEF AtHead
<1>2. CASE engine # 0
  <2>1. /\ Hand(t, engine) /\ queue' = Tail(queue) /\ engine = 1
        /\ UNCHANGED <<engine, built, source, lookupVars>>
    BY <1>1, <1>2 DEF Enter, Inv, TypeOK, OneEngine
  <2>2. /\ pc' \in [Tasks -> {"idle", "wait", "using"}]
        /\ \A s \in Tasks : s # t => pc'[s] = pc[s]
        /\ handed' \in [Tasks -> Nat]
        /\ last' \in Outcomes
        /\ phase' \in {"starting", "serving", "stopping", "stopped", "failed"}
        /\ Lifecycle' /\ OneEngine'
    BY <1>1, <2>1, HandKeeps
  <2>3. queue' \in Seq(Tasks) /\ Queued'
    BY <1>0, <2>1, <2>2, LeaveKeeps DEF lookupVars
  <2>4. TypeOK'
    BY <1>0, <2>1, <2>2, <2>3 DEF Inv, TypeOK, lookupVars
  <2>5. Sourced' /\ Backoff' /\ Paced' /\ NoNeedlessLookup'
    BY <1>0, <2>1 DEF Inv, Sourced, Backoff, Paced, NoNeedlessLookup, lookupVars
  <2> QED BY <2>2, <2>3, <2>4, <2>5 DEF Inv
<1>3. CASE engine = 0 /\ environment = "usable"
  <2>1. /\ engine' = 1 /\ built' = 1 /\ Hand(t, 1) /\ queue' = Tail(queue)
        /\ source' = "environment" /\ UNCHANGED lookupVars
    BY <1>1, <1>3 DEF Enter, Build
  <2>2. /\ pc' \in [Tasks -> {"idle", "wait", "using"}]
        /\ \A s \in Tasks : s # t => pc'[s] = pc[s]
        /\ handed' \in [Tasks -> Nat]
        /\ last' \in Outcomes
        /\ phase' \in {"starting", "serving", "stopping", "stopped", "failed"}
        /\ Lifecycle' /\ OneEngine'
    BY <1>1, <1>3, <2>1, HandKeeps
  <2>3. queue' \in Seq(Tasks) /\ Queued'
    BY <1>0, <2>1, <2>2, LeaveKeeps DEF lookupVars
  <2>4. TypeOK'
    BY <1>0, <2>1, <2>2, <2>3 DEF Inv, TypeOK, lookupVars
  <2>5. Sourced' /\ Backoff' /\ Paced' /\ NoNeedlessLookup'
    BY <1>0, <1>3, <2>1 DEF Inv, Sourced, Backoff, Paced, NoNeedlessLookup, lookupVars
  <2> QED BY <2>2, <2>3, <2>4, <2>5 DEF Inv
<1>4. ASSUME NEW o \in Outcomes, End(t, o), queue' = Tail(queue), engine = 0,
             source' \in {source, "environment"},
             UNCHANGED <<engine, built, lookupVars>>
      PROVE  Inv'
  <2>1. /\ pc' \in [Tasks -> {"idle", "wait", "using"}]
        /\ handed' \in [Tasks -> Nat]
        /\ last' \in Outcomes
        /\ phase' \in {"starting", "serving", "stopping", "stopped", "failed"}
        /\ Lifecycle' /\ OneEngine'
    BY <1>1, <1>4, EndKeeps
  <2>2. \A s \in Tasks : s # t => pc'[s] = pc[s]
    BY <1>4 DEF End, Inv, TypeOK
  <2>3. queue' \in Seq(Tasks) /\ Queued'
    BY <1>0, <1>4, <2>2, LeaveKeeps DEF lookupVars
  <2>4. TypeOK'
    BY <1>0, <1>4, <2>1, <2>3 DEF Inv, TypeOK, lookupVars
  <2>5. Sourced' /\ Backoff' /\ Paced' /\ NoNeedlessLookup'
    BY <1>0, <1>4 DEF Inv, Sourced, Backoff, Paced, NoNeedlessLookup, lookupVars
  <2> QED BY <2>1, <2>3, <2>4, <2>5 DEF Inv
<1>5. CASE engine = 0 /\ environment = "unusable"
  BY <1>4, <1>5, OutcomeTypes DEF Enter
<1>6. CASE engine = 0 /\ environment = "unset" /\ now < retry
  <2>1. now \in Int /\ retry \in Int
    BY DEF Inv, TypeOK, Time
  <2>2. /\ End(t, Unavailable(t)) /\ queue' = Tail(queue)
        /\ UNCHANGED <<engine, built, source, lookupVars>>
    BY <1>6, <2>1 DEF Enter
  <2> QED BY <1>4, <1>6, <2>2, OutcomeTypes
<1>7. CASE engine = 0 /\ environment = "unset" /\ now >= retry
  <2>1. /\ looking' = TRUE /\ began' = now
        /\ UNCHANGED <<phase, engine, built, source, queue, taskVars>>
    BY <1>7 DEF Enter, Inv, TypeOK, Time
  <2>2. TypeOK' /\ Lifecycle' /\ Sourced' /\ OneEngine'
    BY <1>0, <2>1 DEF Inv, TypeOK, Lifecycle, Sourced, OneEngine, taskVars
  <2>3. Queued'
    BY <1>1, <2>1 DEF Inv, Queued, taskVars
  <2>4. failed + Cooldown <= now
    BY <1>7 DEF Inv, TypeOK, Time, Backoff
  <2>5. Backoff' /\ NoNeedlessLookup'
    BY <1>0, <1>1, <1>7, <2>1, <2>4 DEF Inv, TypeOK, Time, Backoff, NoNeedlessLookup
  <2>6. Paced'
    BY <1>0, <1>7, <2>1 DEF Inv, TypeOK, Time, Paced
  <2> QED BY <2>2, <2>3, <2>5, <2>6 DEF Inv
<1> QED BY <1>2, <1>3, <1>5, <1>6, <1>7 DEF Enter

LEMMA LookupOkInv ==
  ASSUME Inv, NEW t \in Tasks, LookupOk(t)
  PROVE  Inv'
<1> USE DatabaseAssumption
<1>0. /\ AtHead(t) /\ looking /\ source' = "key_vault" /\ retry' = 0
      /\ looking' = FALSE /\ began' = 0 /\ queue' = Tail(queue)
      /\ UNCHANGED <<now, environment, failed, abandoned>>
  BY DEF LookupOk
<1>1. /\ pc[t] = "wait" /\ phase # "stopped" /\ engine = built
      /\ t = Warm => phase = "starting"
      /\ engine = 0 /\ environment = "unset"
  BY <1>0, HeadWaits DEF Inv, NoNeedlessLookup
<1>2. Backoff' /\ Paced' /\ NoNeedlessLookup'
  <2>1. failed + Cooldown <= now /\ began <= now
    BY <1>0 DEF Inv, TypeOK, Time, Backoff, NoNeedlessLookup
  <2>2. abandoned * (Timeout + Cooldown) <= now
    BY <1>0, <2>1 DEF Inv, TypeOK, Time, Paced
  <2> QED BY <1>0, <2>1, <2>2 DEF Inv, Backoff, Paced, NoNeedlessLookup
<1>3. 0 \in Time /\ 0 \in 0..(MaxTime + Cooldown) /\ FALSE \in BOOLEAN
  BY DEF Time
<1>4. CASE Build(t)
  <2>0. built = 0 /\ built + 1 = 1
    BY <1>1
  <2>1. engine' = 1 /\ built' = 1 /\ Hand(t, 1)
    BY <1>4, <2>0 DEF Build
  <2>2. /\ pc' \in [Tasks -> {"idle", "wait", "using"}]
        /\ \A s \in Tasks : s # t => pc'[s] = pc[s]
        /\ handed' \in [Tasks -> Nat]
        /\ last' \in Outcomes
        /\ phase' \in {"starting", "serving", "stopping", "stopped", "failed"}
        /\ Lifecycle' /\ OneEngine'
    BY <1>1, <2>1, HandKeeps
  <2>3. queue' \in Seq(Tasks) /\ Queued'
    BY <1>0, <2>2, LeaveKeeps
  <2>4. TypeOK'
    BY <1>0, <1>3, <2>1, <2>2, <2>3 DEF Inv, TypeOK
  <2>5. Sourced'
    BY <1>0, <1>1 DEF Sourced
  <2> QED BY <1>2, <2>2, <2>3, <2>4, <2>5 DEF Inv
<1>5. CASE End(t, Raised(t)) /\ UNCHANGED <<engine, built>>
  <2>1. /\ pc' \in [Tasks -> {"idle", "wait", "using"}]
        /\ handed' \in [Tasks -> Nat]
        /\ last' \in Outcomes
        /\ phase' \in {"starting", "serving", "stopping", "stopped", "failed"}
        /\ Lifecycle' /\ OneEngine'
    BY <1>1, <1>5, EndKeeps, OutcomeTypes
  <2>2. \A s \in Tasks : s # t => pc'[s] = pc[s]
    BY <1>5 DEF End, Inv, TypeOK
  <2>3. queue' \in Seq(Tasks) /\ Queued'
    BY <1>0, <2>2, LeaveKeeps
  <2>4. TypeOK'
    BY <1>0, <1>5, <1>3, <2>1, <2>3 DEF Inv, TypeOK
  <2>5. Sourced'
    BY <1>0, <1>1 DEF Sourced
  <2> QED BY <1>2, <2>1, <2>3, <2>4, <2>5 DEF Inv
<1> QED BY <1>4, <1>5 DEF LookupOk

(* A lookup that fails starts a cooldown and answers its task.  (It may     *)
(* have been given up: then one thread more is abandoned.)                  *)
LEMMA VaultFailedInv ==
  ASSUME Inv, NEW t \in Tasks, AtHead(t), looking, VaultFailed(t),
         UNCHANGED <<now, environment, engine, built, source>>,
         \/ abandoned' = abandoned
         \/ abandoned' = abandoned + 1 /\ now >= began + Timeout
  PROVE  Inv'
<1> USE DatabaseAssumption
<1>0. /\ retry' = now + Cooldown /\ failed' = now
      /\ looking' = FALSE /\ began' = 0 /\ queue' = Tail(queue)
      /\ End(t, Unavailable(t))
  BY DEF VaultFailed
<1>1. pc[t] = "wait"
  BY HeadWaits
<1>2. /\ pc' \in [Tasks -> {"idle", "wait", "using"}]
      /\ handed' \in [Tasks -> Nat]
      /\ last' \in Outcomes
      /\ phase' \in {"starting", "serving", "stopping", "stopped", "failed"}
      /\ Lifecycle' /\ OneEngine'
  BY <1>0, <1>1, EndKeeps, OutcomeTypes
<1>3. queue' \in Seq(Tasks) /\ Queued'
  <2>1. \A s \in Tasks : s # t => pc'[s] = pc[s]
    BY <1>0 DEF End, Inv, TypeOK
  <2> QED BY <1>0, <2>1, LeaveKeeps
<1>4. TypeOK'
  <2>1. /\ 0 \in Time /\ FALSE \in BOOLEAN
        /\ now \in Int /\ now + Cooldown \in 0..(MaxTime + Cooldown)
    BY DEF Inv, TypeOK, Time
  <2>2. abandoned' \in Nat
    BY DEF Inv, TypeOK
  <2> QED BY <1>0, <1>2, <1>3, <2>1, <2>2 DEF Inv, TypeOK
<1>5. Sourced' /\ Backoff' /\ NoNeedlessLookup'
  BY <1>0 DEF Inv, TypeOK, Time, Sourced, Backoff, NoNeedlessLookup
<1>6. Paced'
  <2> DEFINE taken == abandoned * (Timeout + Cooldown)
  <2>1. /\ taken \in Int /\ now \in Int /\ began \in Int /\ abandoned \in Int
        /\ taken <= began /\ began <= now
    BY DEF Inv, TypeOK, Time, Paced, Backoff
  <2>2. (abandoned + 1) * (Timeout + Cooldown) = taken + (Timeout + Cooldown)
    BY <2>1
  <2>3. abandoned' * (Timeout + Cooldown) <= now + Cooldown
    <3>1. CASE abandoned' = abandoned
      BY <2>1, <3>1
    <3>2. CASE abandoned' = abandoned + 1 /\ now >= began + Timeout
      <4>1. taken + (Timeout + Cooldown) <= now + Cooldown
        BY <2>1, <3>2
      <4> QED BY <2>2, <3>2, <4>1
    <3> QED BY <3>1, <3>2
  <2> QED BY <1>0, <2>3 DEF Paced
<1> QED BY <1>2, <1>3, <1>4, <1>5, <1>6 DEF Inv

LEMMA ThreadEndsInv ==
  ASSUME Inv, ThreadEnds
  PROVE  Inv'
<1> USE DatabaseAssumption
<1>1. /\ abandoned \in Nat \ {0} /\ abandoned' = abandoned - 1
      /\ UNCHANGED <<now, phase, environment, engine, built, source, retry, failed,
                     queue, looking, began, pc, handed, last>>
  BY DEF ThreadEnds, Inv, TypeOK, vaultVars, lookupVars, taskVars
<1>2. TypeOK' /\ Queued' /\ Lifecycle' /\ Sourced' /\ Backoff' /\ OneEngine'
  BY <1>1 DEF Inv, TypeOK, Queued, Lifecycle, Sourced, Backoff, OneEngine
<1>3. NoNeedlessLookup'
  BY <1>1 DEF Inv, NoNeedlessLookup
<1>4. Paced'
  <2>1. /\ abandoned' * (Timeout + Cooldown) <= abandoned * (Timeout + Cooldown)
        /\ abandoned' * (Timeout + Cooldown) \in Int
        /\ abandoned * (Timeout + Cooldown) \in Int
    BY <1>1
  <2> QED BY <1>1, <2>1 DEF Inv, TypeOK, Time, Paced
<1> QED BY <1>2, <1>3, <1>4 DEF Inv

LEMMA UseInv ==
  ASSUME Inv, NEW t \in Tasks, Use(t)
  PROVE  Inv'
<1>1. /\ pc[t] = "using"
      /\ UNCHANGED <<now, environment, engine, built, vaultVars, queue, lookupVars,
                     abandoned>>
  BY DEF Use
<1>2. PICK o \in Outcomes : End(t, o)
  BY DEF Use, Outcomes
<1>3. /\ pc' \in [Tasks -> {"idle", "wait", "using"}]
      /\ handed' \in [Tasks -> Nat]
      /\ last' \in Outcomes
      /\ phase' \in {"starting", "serving", "stopping", "stopped", "failed"}
      /\ Lifecycle' /\ OneEngine'
  BY <1>1, <1>2, EndKeeps
<1>4. TypeOK'
  BY <1>1, <1>3 DEF Inv, TypeOK, vaultVars, lookupVars
<1>5. Queued'
  <2>1. \A i \in 1..Len(queue) : queue[i] \in Tasks /\ queue[i] # t
    BY <1>1 DEF Inv, TypeOK, Queued
  <2>2. \A s \in Tasks : s # t => pc'[s] = pc[s]
    BY <1>2 DEF End, Inv, TypeOK
  <2> QED BY <1>1, <2>1, <2>2 DEF Inv, Queued, lookupVars
<1>6. Sourced' /\ Backoff' /\ Paced' /\ NoNeedlessLookup'
  BY <1>1 DEF Inv, Sourced, Backoff, Paced, NoNeedlessLookup, vaultVars, lookupVars
<1> QED BY <1>3, <1>4, <1>5, <1>6 DEF Inv

(* The steps of the server and of the clock. *)
LEMMA ServerInv ==
  ASSUME Inv, Shutdown \/ Dispose \/ Tick
  PROVE  Inv'
<1> USE DatabaseAssumption
<1>1. CASE Shutdown
  <2>1. TypeOK' /\ Queued' /\ Lifecycle' /\ OneEngine'
    BY <1>1 DEF Shutdown, Inv, TypeOK, Queued, Lifecycle, OneEngine, vaultVars,
                lookupVars, taskVars
  <2>2. Sourced' /\ Backoff' /\ Paced' /\ NoNeedlessLookup'
    BY <1>1 DEF Shutdown, Inv, Sourced, Backoff, Paced, NoNeedlessLookup, vaultVars,
                lookupVars
  <2> QED BY <2>1, <2>2 DEF Inv
<1>2. CASE Dispose
  <2>1. TypeOK' /\ Queued' /\ Lifecycle' /\ OneEngine'
    BY <1>2 DEF Dispose, Inv, TypeOK, Queued, Lifecycle, OneEngine, vaultVars,
                lookupVars, taskVars
  <2>2. Sourced' /\ Backoff' /\ Paced' /\ NoNeedlessLookup'
    BY <1>2 DEF Dispose, Inv, Sourced, Backoff, Paced, NoNeedlessLookup, vaultVars,
                lookupVars
  <2> QED BY <2>1, <2>2 DEF Inv
<1>3. CASE Tick
  <2>0. /\ now' = now + 1 /\ now < MaxTime /\ now \in Nat
        /\ UNCHANGED <<phase, environment, engine, built, source, retry, failed,
                       queue, looking, began, abandoned, pc, handed, last>>
    BY <1>3 DEF Tick, Inv, TypeOK, Time, vaultVars, lookupVars, taskVars
  <2>1. TypeOK' /\ Queued' /\ Lifecycle' /\ OneEngine' /\ Sourced'
    BY <2>0 DEF Inv, TypeOK, Time, Queued, Lifecycle, OneEngine, Sourced
  <2>2. Backoff' /\ NoNeedlessLookup'
    BY <2>0 DEF Inv, TypeOK, Time, Backoff, NoNeedlessLookup
  <2>3. Paced'
    <3>1. abandoned * (Timeout + Cooldown) \in Int
      BY DEF Inv, TypeOK
    <3> QED BY <2>0, <3>1 DEF Inv, Paced
  <2> QED BY <2>1, <2>2, <2>3 DEF Inv
<1> QED BY <1>1, <1>2, <1>3

LEMMA StutterInv ==
  ASSUME Inv, UNCHANGED vars
  PROVE  Inv'
<1>1. TypeOK' /\ Queued' /\ Lifecycle' /\ OneEngine'
  BY DEF vars, Inv, TypeOK, Queued, Lifecycle, OneEngine, vaultVars, lookupVars,
         taskVars
<1>2. Sourced' /\ Backoff' /\ Paced' /\ NoNeedlessLookup'
  BY DEF vars, Inv, Sourced, Backoff, Paced, NoNeedlessLookup, vaultVars, lookupVars
<1> QED BY <1>1, <1>2 DEF Inv

LEMMA NextInv == Inv /\ [Next]_vars => Inv'
<1> SUFFICES ASSUME Inv, [Next]_vars PROVE Inv'
  OBVIOUS
<1>1. CASE UNCHANGED vars \/ Quiet
  BY <1>1, StutterInv DEF Quiet
<1>2. CASE Tick \/ Shutdown \/ Dispose
  BY <1>2, ServerInv
<1>3. CASE ThreadEnds
  BY <1>3, ThreadEndsInv
<1>4. ASSUME NEW t \in Tasks, Call(t) \/ Step(t) PROVE Inv'
  <2>1. CASE Call(t)
    BY <2>1, CallInv
  <2>2. CASE Enter(t)
    BY <2>2, EnterInv
  <2>3. CASE LookupOk(t)
    BY <2>3, LookupOkInv
  <2>4. CASE LookupFail(t) \/ LookupTimeout(t)
    BY <2>4, VaultFailedInv DEF LookupFail, LookupTimeout
  <2>5. CASE Use(t)
    BY <2>5, UseInv
  <2> QED BY <1>4, <2>1, <2>2, <2>3, <2>4, <2>5 DEF Step
<1> QED BY <1>1, <1>2, <1>3, <1>4 DEF Next

(* The provider keeps its invariant through every interleaving of calls,    *)
(* lookups, failures and timeouts, from the startup to the shutdown.        *)
THEOREM Invariance == Spec => []Inv
<1>1. Init => Inv
  BY InitInv
<1>2. Inv /\ [Next]_vars => Inv'
  BY NextInv
<1> QED BY <1>1, <1>2, PTL DEF Spec

(* The provider's fields, its lock and its callers keep their types. *)
THEOREM TypeCorrect == Spec => []TypeOK
<1>1. Inv => TypeOK
  BY DEF Inv
<1> QED BY <1>1, Invariance, PTL

(* _resolve_url asks Key Vault only without an engine and out of a cooldown. *)
THEOREM LookupsNeeded == Spec => []NoNeedlessLookup
<1>1. Inv => NoNeedlessLookup
  BY DEF Inv
<1> QED BY <1>1, Invariance, PTL

(* Lookups that are given up leave no more threads behind than one for each *)
(* timeout and cooldown that have passed (_resolve_url, _vault_failed).     *)
THEOREM ThreadsPaced == Spec => []ThreadsBounded
<1>1. Inv => ThreadsBounded
  <2> SUFFICES ASSUME Inv PROVE ThreadsBounded
    OBVIOUS
  <2>1. retry <= now + Cooldown /\ now <= now + Cooldown
    BY DatabaseAssumption DEF Inv, TypeOK, Time, Backoff
  <2>2. /\ abandoned * (Timeout + Cooldown) \in Int
        /\ now \in Int /\ retry \in Int
    BY DatabaseAssumption DEF Inv, TypeOK, Time
  <2> QED BY <2>1, <2>2, DatabaseAssumption DEF Inv, Paced, ThreadsBounded
<1> QED BY <1>1, Invariance, PTL

(* sessionmaker builds one engine, and dispose never takes it from a task   *)
(* that holds it.                                                           *)
THEOREM EngineUnique == Spec => []OneEngine
<1>1. Inv => OneEngine
  BY DEF Inv
<1> QED BY <1>1, Invariance, PTL

(* A task that is handed a factory is told nothing yet, the startup's       *)
(* excepted, which is told that it is warm.                                 *)
LEMMA HandTells ==
  ASSUME Inv, NEW t \in Tasks, NEW e, Hand(t, e)
  PROVE  Told
<1>1. CASE t = Warm
  <2>1. last' = "warmed"
    BY <1>1 DEF Hand, End
  <2> QED BY <2>1 DEF Told
<1>2. CASE t # Warm
  <2>1. pc' = [pc EXCEPT ![t] = "using"]
    BY <1>2 DEF Hand
  <2> QED BY <2>1 DEF Told, Inv, TypeOK
<1> QED BY <1>1, <1>2

LEMMA NextTells == Inv /\ [Next]_vars => Told
<1> SUFFICES ASSUME Inv, [Next]_vars PROVE Told
  OBVIOUS
<1> USE DatabaseAssumption
<1>1. CASE pc' = pc
  BY <1>1 DEF Told
<1>2. ASSUME NEW t \in Tasks, Call(t) PROVE Told
  <2>1. CASE engine # 0
    BY <1>2, <2>1, HandTells DEF Call
  <2>2. CASE engine = 0
    BY <1>2, <2>2 DEF Call, Told, Inv, TypeOK
  <2> QED BY <2>1, <2>2
<1>3. ASSUME NEW t \in Tasks, Enter(t) PROVE Told
  <2>1. CASE engine # 0
    BY <1>3, <2>1, HandTells DEF Enter
  <2>2. CASE engine = 0 /\ environment = "usable"
    <3>1. Hand(t, built + 1)
      BY <1>3, <2>2 DEF Enter, Build
    <3> QED BY <3>1, HandTells
  <2>3. CASE engine = 0 /\ environment = "unusable"
    <3>1. last' = Raised(t)
      BY <1>3, <2>3 DEF Enter, End
    <3> QED BY <3>1, OutcomeTypes DEF Told
  <2>4. CASE engine = 0 /\ environment = "unset" /\ now < retry
    <3>1. now \in Int /\ retry \in Int /\ failed \in Int /\ now >= 0
      BY DEF Inv, TypeOK, Time
    <3>2. last' = Unavailable(t) /\ failed' = failed
      BY <1>3, <2>4, <3>1 DEF Enter, End
    <3>3. now < failed + Cooldown
      BY <2>4, <3>1 DEF Inv, Backoff
    <3>4. Unavailable(t) \notin {"reachable", "unreachable"}
      BY DEF Unavailable, Tasks
    <3> QED BY <2>4, <3>2, <3>3, <3>4 DEF Told
  <2>5. CASE engine = 0 /\ environment = "unset" /\ now >= retry
    <3>1. pc' = pc
      BY <1>3, <2>5 DEF Enter, Inv, TypeOK, Time, taskVars
    <3> QED BY <1>1, <3>1
  <2> QED BY <1>3, <2>1, <2>2, <2>3, <2>4, <2>5 DEF Enter
<1>4. ASSUME NEW t \in Tasks, LookupOk(t) PROVE Told
  <2>1. CASE Build(t)
    BY <2>1, HandTells DEF Build
  <2>2. CASE End(t, Raised(t))
    <3>1. last' = Raised(t)
      BY <2>2 DEF End
    <3> QED BY <3>1, OutcomeTypes DEF Told
  <2> QED BY <1>4, <2>1, <2>2 DEF LookupOk
<1>5. ASSUME NEW t \in Tasks, LookupFail(t) \/ LookupTimeout(t) PROVE Told
  <2>1. looking /\ last' = Unavailable(t) /\ failed' = now
    BY <1>5 DEF LookupFail, LookupTimeout, VaultFailed, End
  <2>2. engine = 0 /\ environment = "unset" /\ now < failed' + Cooldown
    BY <2>1 DEF Inv, TypeOK, Time, NoNeedlessLookup
  <2>3. Unavailable(t) \notin {"reachable", "unreachable"}
    BY DEF Unavailable, Tasks
  <2> QED BY <2>1, <2>2, <2>3 DEF Told
<1>6. ASSUME NEW t \in Tasks, Use(t) PROVE Told
  <2>1. pc[t] = "using" /\ last' \in {"answered", "reachable", "unreachable"}
    BY <1>6 DEF Use, End
  <2>2. engine # 0
    BY <2>1 DEF Inv, OneEngine
  <2> QED BY <2>1, <2>2 DEF Told, Inv, Sourced
<1>7. CASE UNCHANGED vars \/ Tick \/ ThreadEnds \/ Shutdown \/ Dispose \/ Quiet
  BY <1>1, <1>7 DEF vars, taskVars, Tick, ThreadEnds, Shutdown, Dispose, Quiet
<1> QED BY <1>2, <1>3, <1>4, <1>5, <1>6, <1>7 DEF Next, Step

(* get_session, check and warm report what is so: a refusal falls within    *)
(* the cooldown of a failed lookup, and check names the true source.        *)
THEOREM TellsTruth == Spec => ToldTruth
<1>1. Inv /\ [Next]_vars => [Told]_vars
  BY NextTells
<1> QED BY <1>1, Invariance, PTL DEF Spec, ToldTruth
=============================================================================
